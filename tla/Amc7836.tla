------------------------------ MODULE Amc7836 ------------------------------
(***************************************************************************)
(* The serial interface of the AMC7836: the DACs of the water valves and   *)
(* the ADC.  AMC7836Write and AMC7836Read move one frame bit by bit over   *)
(* the pins CS, SDI and SCLK.  The sampling task (AMC7836ReadADC) and the  *)
(* TCP task (AMC7836SetDAC) have one priority and are sliced in time;      *)
(* nothing keeps one off the pins while the other is in a frame.           *)
(*                                                                         *)
(* Source: Core/Peripheral/AMC7836.c, one ADC channel.                     *)
(*                                                                         *)
(* A frame is two steps, CS low and CS high; its bits are not told apart.  *)
(* The chip (external) acts on a frame when CS rises.  Two frames that     *)
(* overlap on the pins reach it as frames nobody sent, which may write any *)
(* of its registers: from then on, and until InitAMC7836 sets every        *)
(* register again, nothing is known of it.                                 *)
(***************************************************************************)
EXTENDS Integers, Sequences

CONSTANTS
    AMC_DAC_NUM,   \* DACs (12)
    Volts          \* values a DAC is commanded to

ASSUME AmcAssumption == AMC_DAC_NUM \in Nat \ {0} /\ Volts \subseteq Nat \ {0}

Dacs == 0 .. AMC_DAC_NUM - 1
FullScale == 0    \* 4095, what InitAMC7836 writes
Users == {"App", "Tcp"}

\* What AMCWrite_DAC and the update of the outputs leave in the chip: a DAC is
\* a low and a high byte.
AllDacs(v) == [d \in Dacs |-> <<v, v>>]

\* Mutant of ReadADC: the DACs are updated along with the ADC.
ReadADC_Updates == <<"id", "id", "update", "trigger", "adc", "adc">>

\* The frames of AMC7836ReadADC: the chip's id, REGUPDATA with the ADC's bit,
\* the trigger, and the two bytes of the ADC.
ReadADC == <<"id", "id", "adcUpdate", "trigger", "adc", "adc">>

\* The frames of AMC7836SetDAC: the chip's id, the two bytes of the DAC, and
\* REGUPDATA with the DACs' bit.
SetDAC == <<"id", "id", "low", "high", "update">>

VARIABLES
    frames,    \* what each task has yet to move, the current frame first
    cs,        \* the tasks that are in a frame
    setDac,    \* the DAC and the value the TCP task is setting
    dacBuf,    \* the chip: bytes written
    dacOut,    \* the chip: outputs
    garbled    \* two frames have overlapped since InitAMC7836

amcVars == <<frames, cs, setDac, dacBuf, dacOut, garbled>>

AmcInit ==
    /\ frames = [t \in Users |-> <<>>] /\ cs = {}
    /\ setDac = <<0, FullScale>>
    /\ dacBuf = AllDacs(FullScale) /\ dacOut = AllDacs(FullScale)
    /\ garbled = FALSE

\* InitAMC7836 runs before the tasks use the chip.
InitAMC7836 ==
    /\ frames' = [t \in Users |-> <<>>] /\ cs' = {}
    /\ setDac' = <<0, FullScale>>
    /\ dacBuf' = AllDacs(FullScale) /\ dacOut' = AllDacs(FullScale)
    /\ garbled' = FALSE
-----------------------------------------------------------------------------
\* The two functions are called.
AMC7836ReadADC ==
    /\ frames["App"] = <<>>
    /\ frames' = [frames EXCEPT !["App"] = ReadADC]
    /\ UNCHANGED <<cs, setDac, dacBuf, dacOut, garbled>>

AMC7836SetDAC(d, v) ==
    /\ frames["Tcp"] = <<>>
    /\ frames' = [frames EXCEPT !["Tcp"] = SetDAC]
    /\ setDac' = <<d, v>>
    /\ UNCHANGED <<cs, dacBuf, dacOut, garbled>>

\* AMC7836_CS_LOW of AMC7836Write and AMC7836Read.
CsLow(t) ==
    /\ frames[t] # <<>> /\ t \notin cs
    /\ cs' = cs \cup {t}
    /\ garbled' = (garbled \/ cs # {})
    /\ UNCHANGED <<frames, setDac, dacBuf, dacOut>>

\* AMC7836_CS_HIGH: the frame is over and the chip acts on it.
CsHigh(t) ==
    /\ t \in cs
    /\ LET f == Head(frames[t])
           b == [low |-> 1, high |-> 2]
       IN /\ dacBuf' = IF f \in DOMAIN b
                       THEN [dacBuf EXCEPT ![setDac[1]][b[f]] = setDac[2]]
                       ELSE dacBuf
          /\ dacOut' = IF f = "update" THEN dacBuf ELSE dacOut
    /\ cs' = cs \ {t}
    /\ frames' = [frames EXCEPT ![t] = Tail(@)]
    /\ UNCHANGED <<setDac, garbled>>

AmcTypeOK ==
    /\ \A t \in Users : Len(frames[t]) <= Len(ReadADC)
    /\ cs \subseteq Users
    /\ setDac \in Dacs \X (Volts \cup {FullScale})
    /\ {dacBuf, dacOut} \subseteq [Dacs -> (Volts \cup {FullScale}) \X
                                           (Volts \cup {FullScale})]
    /\ garbled \in BOOLEAN
=============================================================================

------------------------------ MODULE Command ------------------------------
(***************************************************************************)
(* The commands of the client, executed by the TCP task while the sampling *)
(* task reads the ADC and packs its data: EthernetInterfaceHandler, the    *)
(* command table and the handlers with the devices they drive.  Modules    *)
(* Packets and Amc7836 are what the two tasks share.                       *)
(*                                                                         *)
(* Sources: Core/src/ETHCommunication.c, Core/Peripheral/Relay_Ctrl.c,     *)
(* fan.c, AMC7836.c, DataSamp.c and Core/src/main.c (AppTask).             *)
(*                                                                         *)
(* TcpServersTask (module TcpServer) hands over one whole command at a     *)
(* time, of at most RECV_DATA = 1200 bytes, so that the length test of     *)
(* EthernetInterfaceHandler never fails.  The two update commands are in   *)
(* module OnlineUpdate.  A reply is its writes taken together, except that *)
(* of MGETDATA, which module Packets takes apart.                          *)
(***************************************************************************)
EXTENDS Packets, Amc7836, FiniteSets

CONSTANTS
    Commands,   \* the commands clients send: records with a name and an arg
    KbWords,    \* words of the calibration in flash (16)
    MaxCmds     \* bound: commands

\* The commands whose handler is empty, and names outside the table.
Silent == {"MSENDDATA", "MSETSTART", "MSETSTOP", "MRESET", "MSETFANSTART",
           "MSETFANSTOP", "MSETLIGHTCOLOR", "MSETJIMENSTATE", "MSETPOWERSTATE",
           "unknown"}

Names == Silent \cup
    {"WARNINGLIGHT", "MSETWATERVALUE", "MSETFANVALUE", "PCALIBRATION",
     "GETCALIBRATION", "GETEDITION", "MGETDATA", "MGETDATADEBUG", "ANYMETHOD"}

ASSUME CommandAssumption ==
    /\ KbWords \in Nat \ {0} /\ MaxCmds \in Nat
    /\ \A c \in Commands : DOMAIN c = {"name", "arg"} /\ c.name \in Names

Lamps == {"red", "yellow", "green", "beep"}
Units == {1, 2}
NoLamps == [u \in Units |-> {}]

Frames == {"good", "badsum", "notail"}   \* what Crs and the tail say of it
Erased == -1
Spoilt == -2
Overtaken == -1   \* no reply: the packets were flipped while SendData ran
NoCmd == [name |-> "none", arg |-> 0]

VARIABLES
    app,         \* what the sampling task does: "ReadADC" or "AgingPack"
    pc,          \* where the TCP task is
    cmd, frame,  \* the command it executes, and the state of its frame
    step,        \* how far its handler is
    replies,     \* history: replies to that command, or Overtaken
    cmds,        \* history: commands taken
    SwitchUnit,  \* shadow of the lamps' latch
    latch,       \* the lamps that are on
    lampsSet,    \* history: lamps as commanded, or as a restart left them
    Fan_Speed, FAN_State,
    kb,          \* flash: the words of the calibration
    kbSet,       \* history: the calibration that was acknowledged, or Erased
    kbCut,       \* history: the last write of the calibration was interrupted
    valves,      \* history: values of the last valve command acknowledged
    restarted    \* history: units not commanded since the last restart

tcpVars == <<pc, cmd, frame, step, replies, cmds>>
lampVars == <<SwitchUnit, latch, lampsSet, restarted>>
fanVars == <<Fan_Speed, FAN_State>>
kbVars == <<kb, kbSet, kbCut>>
vars == <<packetVars, amcVars, app, tcpVars, lampVars, fanVars, kbVars, valves>>

Init ==
    /\ PacketsInit /\ AmcInit /\ app = "ReadADC"
    /\ pc = "recv" /\ cmd = NoCmd /\ frame = "good" /\ step = 0
    /\ replies = 0 /\ cmds = 0
    /\ SwitchUnit = NoLamps /\ latch = NoLamps /\ lampsSet = NoLamps
    /\ restarted = {}
    /\ Fan_Speed = 0 /\ FAN_State = 0
    /\ kb = [w \in 1 .. KbWords |-> Erased] /\ kbSet = Erased /\ kbCut = FALSE
    /\ valves = [d \in Dacs |-> FullScale]
-----------------------------------------------------------------------------
(* The sampling task: AMC7836ReadADC, DataCollect with AgingPack, again.     *)

AppReadADC ==
    /\ app = "ReadADC" /\ begun < MaxPacks
    /\ AMC7836ReadADC
    /\ app' = "frames"
    /\ UNCHANGED <<packetVars, tcpVars, lampVars, fanVars, kbVars, valves>>

AppFrame ==
    /\ app = "frames"
    /\ CsLow("App") \/ CsHigh("App")
    /\ app' = IF frames'["App"] = <<>> THEN "AgingPack" ELSE app
    /\ UNCHANGED <<packetVars, tcpVars, lampVars, fanVars, kbVars, valves>>

AppPack ==
    /\ app = "AgingPack"
    /\ Pack
    /\ app' = IF fill' = None THEN "ReadADC" ELSE app
    /\ UNCHANGED <<amcVars, tcpVars, lampVars, fanVars, kbVars, valves>>

AppTask == pc # "fault" /\ (AppReadADC \/ AppFrame \/ AppPack)
-----------------------------------------------------------------------------
(* The TCP task.                                                             *)

\* A command has been received: TcpServersTask calls EthernetInterfaceHandler.
Receive(c, f) ==
    /\ pc = "recv" /\ cmds < MaxCmds
    /\ cmd' = c /\ frame' = f
    /\ cmds' = cmds + 1 /\ replies' = 0 /\ step' = 0
    /\ pc' = "verify"
    /\ UNCHANGED <<packetVars, amcVars, app, lampVars, fanVars, kbVars, valves>>

\* Whether dSum == rSum.  Without the tail neither was assigned.
SumsAgree ==
    CASE frame = "good" -> {TRUE} [] frame = "badsum" -> {FALSE}
      [] frame = "notail" -> BOOLEAN

\* EthernetReceiveFaiAGE, or on to PC_DATAHandler.
EthernetInterfaceHandler ==
    /\ pc = "verify"
    /\ \E same \in SumsAgree :
        IF same THEN pc' = "run" /\ UNCHANGED replies
                ELSE pc' = "recv" /\ replies' = replies + 1
    /\ UNCHANGED <<packetVars, amcVars, app, cmd, frame, step, cmds, lampVars,
                   fanVars, kbVars, valves>>

\* Where PC_DATAHandler goes for the command.  ANYMETHOD has no function: the
\* core jumps to address 0 and ends in HardFault_Handler, and so it does when
\* malloc fails in DEBUG_PRINT and memset writes to address 0.
Handler ==
    CASE cmd.name = "WARNINGLIGHT" -> {"lamps"}
      [] cmd.name = "MSETWATERVALUE" -> {"valve"}
      [] cmd.name = "MSETFANVALUE" -> {"fan"}
      [] cmd.name = "PCALIBRATION" ->
             IF cmd.arg.Cali_Obj = 1 THEN {"erase"} ELSE {"recv"}
      [] cmd.name \in {"GETCALIBRATION", "GETEDITION"} -> {"reply"}
      [] cmd.name = "MGETDATADEBUG" -> {"reply", "fault"}
      [] cmd.name = "ANYMETHOD" -> {"fault"}
      [] cmd.name \in Silent -> {"recv"}

PC_DATAHandler ==
    /\ pc = "run" /\ cmd.name # "MGETDATA"
    /\ pc' \in Handler
    /\ UNCHANGED <<packetVars, amcVars, app, cmd, frame, step, replies, cmds,
                   lampVars, fanVars, kbVars, valves>>

\* EthernetReceiveSuccess, the end of most handlers.
Reply ==
    /\ pc = "reply"
    /\ pc' = "recv" /\ replies' = replies + 1
    /\ UNCHANGED <<packetVars, amcVars, app, cmd, frame, step, cmds, lampVars,
                   fanVars, kbVars, valves>>

\* MGETDATA: module Packets.
RunSendData ==
    /\ pc = "run" /\ cmd.name = "MGETDATA"
    /\ SendData
    /\ pc' = "send"
    /\ UNCHANGED <<amcVars, app, cmd, frame, step, replies, cmds, lampVars,
                   fanVars, kbVars, valves>>

SendDataOn ==
    /\ pc = "send"
    /\ SendOn
    /\ IF sendPc' = "idle"
       THEN /\ pc' = "recv"
            /\ replies' = CASE sendPc = "tail" -> 1
                            [] sendPc # "tail" /\ packed > asked -> Overtaken
                            [] sendPc # "tail" /\ packed = asked -> 0
       ELSE UNCHANGED <<pc, replies>>
    /\ UNCHANGED <<amcVars, app, cmd, frame, step, cmds, lampVars, fanVars,
                   kbVars, valves>>
-----------------------------------------------------------------------------
\* The lamps ALE_LED_CTRL switches on for an arg; the others it switches off.
\* A LIGHT_CHOSE outside 1 to 3 switches nothing.
LampsOn(a) ==
    CASE a.LIGHT_CHOSE = 1 ->
             IF a.BEEP_SWITCH = 1 THEN {"red", "beep"} ELSE {"red"}
      [] a.LIGHT_CHOSE = 2 -> {"green"}
      [] a.LIGHT_CHOSE = 3 -> {"yellow"}

\* The unit Alarm_CHOSE selects.
Unit(a) == IF a.Alarm_CHOSE = 1 THEN 1 ELSE 2

Order == <<"red", "yellow", "green", "beep">>

\* One bit of the shadow is changed, the shadow put on the bus and latched.
CtrlHC138_Y1(on, u, l) ==
    /\ SwitchUnit' = [SwitchUnit EXCEPT ![u] = IF on THEN @ \cup {l}
                                                     ELSE @ \ {l}]
    /\ latch' = SwitchUnit'

\* Mutant of ALE_LED_CTRL: the beeper is left alone.
ALE_LED_CTRL_NoBeep ==
    /\ pc = "lamps" /\ cmd.arg.LIGHT_CHOSE \in 1 .. 3
    /\ CtrlHC138_Y1(Order[step + 1] \in LampsOn(cmd.arg), Unit(cmd.arg),
                    Order[step + 1])
    /\ IF step = 2 THEN pc' = "reply" ELSE UNCHANGED pc
    /\ step' = step + 1
    /\ lampsSet' = IF step = 2 THEN [lampsSet EXCEPT ![Unit(cmd.arg)] =
                                         LampsOn(cmd.arg)]
                               ELSE lampsSet
    /\ restarted' = restarted \ {Unit(cmd.arg)}
    /\ UNCHANGED <<packetVars, amcVars, app, cmd, frame, replies, cmds,
                   fanVars, kbVars, valves>>

\* ALE_LED_CTRL: the next of the four lamps of the unit.
ALE_LED_CTRL ==
    /\ pc = "lamps" /\ cmd.arg.LIGHT_CHOSE \in 1 .. 3
    /\ CtrlHC138_Y1(Order[step + 1] \in LampsOn(cmd.arg), Unit(cmd.arg),
                    Order[step + 1])
    /\ IF step = 3 THEN pc' = "reply" ELSE UNCHANGED pc
    /\ step' = step + 1
    /\ lampsSet' = IF step = 3 THEN [lampsSet EXCEPT ![Unit(cmd.arg)] =
                                         LampsOn(cmd.arg)]
                               ELSE lampsSet
    /\ restarted' = restarted \ {Unit(cmd.arg)}
    /\ UNCHANGED <<packetVars, amcVars, app, cmd, frame, replies, cmds,
                   fanVars, kbVars, valves>>

ALE_LED_CTRL_None ==
    /\ pc = "lamps" /\ cmd.arg.LIGHT_CHOSE \notin 1 .. 3
    /\ pc' = "reply"
    /\ UNCHANGED <<packetVars, amcVars, app, cmd, frame, step, replies, cmds,
                   lampVars, fanVars, kbVars, valves>>

\* SetFan_Speed with FAN_SPEED_SET and FAN_Start.
SetFan_Speed ==
    /\ pc = "fan"
    /\ Fan_Speed' = cmd.arg
    /\ FAN_State' = IF Fan_Speed' # 0 THEN 1 ELSE 0
    /\ pc' = "reply"
    /\ UNCHANGED <<packetVars, amcVars, app, cmd, frame, step, replies, cmds,
                   lampVars, kbVars, valves>>
-----------------------------------------------------------------------------
\* SetValve: AMC7836SetDAC for the next DAC, or the reply.
SetValve ==
    /\ pc = "valve" /\ frames["Tcp"] = <<>>
    /\ IF step < AMC_DAC_NUM
       THEN /\ AMC7836SetDAC(step, cmd.arg[step])
            /\ step' = step + 1 /\ UNCHANGED <<pc, valves>>
       ELSE /\ pc' = "reply" /\ valves' = cmd.arg
            /\ UNCHANGED <<amcVars, step>>
    /\ UNCHANGED <<packetVars, app, cmd, frame, replies, cmds, lampVars,
                   fanVars, kbVars>>

SetValveFrame ==
    /\ pc = "valve"
    /\ CsLow("Tcp") \/ CsHigh("Tcp")
    /\ UNCHANGED <<packetVars, app, tcpVars, lampVars, fanVars, kbVars, valves>>
-----------------------------------------------------------------------------
\* Mutant of WriteKB: the sector is not erased.
WriteKB_NoErase ==
    /\ pc = "erase"
    /\ kbSet' = Erased /\ kbCut' = TRUE
    /\ pc' = "program" /\ step' = 0
    /\ UNCHANGED <<packetVars, amcVars, app, cmd, frame, replies, cmds, lampVars,
                   fanVars, kb, valves>>

\* WriteKB: the sector is erased.
WriteKB ==
    /\ pc = "erase"
    /\ kb' = [w \in 1 .. KbWords |-> Erased]
    /\ kbSet' = Erased /\ kbCut' = TRUE
    /\ pc' = "program" /\ step' = 0
    /\ UNCHANGED <<packetVars, amcVars, app, cmd, frame, replies, cmds, lampVars,
                   fanVars, valves>>

\* The loop of WriteKB: the next word is programmed, which only works on an
\* erased one.
ProgramKB ==
    /\ pc = "program"
    /\ kb' = [kb EXCEPT ![step + 1] = IF @ = Erased THEN cmd.arg.kb ELSE Spoilt]
    /\ step' = step + 1
    /\ IF step + 1 < KbWords
       THEN UNCHANGED <<pc, kbSet, kbCut>>
       ELSE pc' = "reply" /\ kbSet' = cmd.arg.kb /\ kbCut' = FALSE
    /\ UNCHANGED <<packetVars, amcVars, app, cmd, frame, replies, cmds, lampVars,
                   fanVars, valves>>
-----------------------------------------------------------------------------
\* The board restarts: Read_AllTemp resets it, or the power is switched off
\* and on.  The latch of the lamps keeps its state or loses it.
Restart ==
    /\ PacketsRestart /\ InitAMC7836 /\ app' = "ReadADC"
    /\ pc' = "recv" /\ cmd' = NoCmd /\ frame' = "good" /\ step' = 0
    /\ replies' = 0
    /\ SwitchUnit' = NoLamps /\ latch' \in {latch, NoLamps}
    /\ lampsSet' = latch' /\ restarted' = Units
    /\ Fan_Speed' = 0 /\ FAN_State' = 0
    /\ valves' = [d \in Dacs |-> FullScale]
    /\ UNCHANGED <<cmds, kbVars>>

TcpTask ==
    \/ EthernetInterfaceHandler \/ PC_DATAHandler \/ Reply
    \/ RunSendData \/ SendDataOn
    \/ ALE_LED_CTRL \/ ALE_LED_CTRL_None \/ SetFan_Speed
    \/ SetValve \/ SetValveFrame \/ WriteKB \/ ProgramKB

Next ==
    \/ AppTask
    \/ TcpTask
    \/ \E c \in Commands, f \in Frames : Receive(c, f)
    \/ Restart

Spec == Init /\ [][Next]_vars

\* The TCP task goes on with the command it has.
FairSpec == Spec /\ WF_vars(TcpTask)
-----------------------------------------------------------------------------
\* The state keeps its types.
TypeOK ==
    /\ PacketsTypeOK /\ AmcTypeOK
    /\ app \in {"ReadADC", "frames", "AgingPack"}
    /\ pc \in {"recv", "verify", "run", "lamps", "valve", "fan", "erase",
               "program", "send", "reply", "fault"}
    /\ cmd \in Commands \cup {NoCmd} /\ frame \in Frames
    /\ replies \in {Overtaken} \cup 0 .. 2 /\ cmds \in 0 .. MaxCmds
    /\ {SwitchUnit, latch, lampsSet} \subseteq [Units -> SUBSET Lamps]
    /\ restarted \subseteq Units /\ FAN_State \in {0, 1}
    /\ \A w \in 1 .. KbWords : kb[w] \in Int

\* Outside a valve command the outputs are the values last acknowledged, all
\* of them, or full scale after a restart: neither the other handlers nor the
\* sampling task's use of the chip change them (until two frames overlap).
\* Nor is an output ever made of the bytes of two values, although frames of
\* the sampling task come between those of AMC7836SetDAC.
ValvesAsCommanded ==
    ~garbled => \A d \in Dacs :
        /\ dacOut[d][1] = dacOut[d][2]
        /\ pc # "valve" => dacOut[d][1] = valves[d]

\* Outside a lamp command each unit shows the lamps last commanded for it,
\* and beeps only if told so, whatever was commanded for the other unit.  A
\* restart forgets the shadow: a unit not commanded since shows what it showed
\* until the first command for the other, which switches all its lamps off.
LampsAsCommanded ==
    /\ pc # "lamps" => \A u \in Units \ restarted : latch[u] = lampsSet[u]
    /\ \A u \in restarted :
          latch[u] = IF restarted = Units THEN lampsSet[u] ELSE {}

\* A calibration that was acknowledged is in the flash, every word, across
\* restarts, until another is written; the flash holds parts of one only
\* while it is written or after a restart in the middle of that.
CalibrationKept == ~kbCut => \A w \in 1 .. KbWords : kb[w] = kbSet

\* A command has one reply when the task takes the next, or none: if its
\* handler is empty, if it calibrates another object, or if it is MGETDATA and
\* the sampling task flipped the packets between the two tests of SendData.
\* Without that flip SendData always finds a branch to answer in.
AnsweredOnce ==
    pc = "recv" /\ cmd # NoCmd =>
        \/ replies = 1
        \/ /\ replies = 0 /\ frame # "badsum"
           /\ \/ cmd.name \in Silent
              \/ cmd.name = "PCALIBRATION" /\ cmd.arg.Cali_Obj # 1
        \/ replies = Overtaken /\ frame # "badsum" /\ cmd.name = "MGETDATA"
=============================================================================

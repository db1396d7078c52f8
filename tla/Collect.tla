------------------------------ MODULE Collect ------------------------------
(***************************************************************************)
(* The sampling task as a whole.  One turn of its loop is ReadTemp, which  *)
(* asks the sensors of the half Aging_Pack names, and DataCollect: the     *)
(* protection (module Alarm), Read_AllTemp, which restarts the board when  *)
(* no temperature has moved for a while, and AgingPack, which turns to the *)
(* other half.  The protection and the restart share the turns: both count *)
(* collections, and a restart undoes what the protection has reached.      *)
(*                                                                         *)
(* Sources: Core/Peripheral/Alarm.c, DataSamp.c, MAX485.c, Inter_init.c    *)
(* and AppTask in Core/src/main.c.                                         *)
(***************************************************************************)
EXTENDS Alarm

CONSTANTS
    Half,         \* sensors of one half (14)
    FreezeLimit,  \* equal comparisons of every sensor that restart (10)
    Temps,        \* temperatures a sensor can yield
    Faulty        \* the temperature that stands for a fault (512, 51.2 degrees)

MAX_TEMP_NUM == 2 * Half
Sensors == 0 .. MAX_TEMP_NUM - 1

\* An answer from an address that MAX485_SendData does not know.
NoValue == -1

ASSUME CollectAssumption ==
    /\ Half \in Nat \ {0} /\ FreezeLimit \in Nat \ {0}
    /\ {0, Faulty} \subseteq Temps /\ NoValue \notin Temps

VARIABLES
    phase,               \* the next call of the task
    Aging_Pack, Temperature, LastTemperature, Temp_Cnt, ReStartflag,
    answer,   \* external: what the bus last yielded for every sensor
    same,     \* history: readings of a sensor in a row without a change, capped
    age,      \* history: collections since a sensor was asked, capped at 2
    moved     \* history: since start some second or later reading was new

temps == <<Temperature, LastTemperature, Temp_Cnt, ReStartflag, same, moved>>
loopVars == <<pin, alarmVars, phase, Aging_Pack, temps, answer, age>>

\* Readings of one sensor in FreezeLimit collections; each half gets every
\* other one.
FrozenReadings == FreezeLimit \div 2
Never == 2

\* InitAGESysParameter and zeroed RAM.
ZeroTemps ==
    [Temperature |-> [i \in Sensors |-> 0],
     Temp_Cnt |-> [i \in Sensors |-> 0], age |-> [i \in Sensors |-> Never]]

LoopInit ==
    /\ Init
    /\ phase = "ReadTemp" /\ Aging_Pack = 0 /\ ReStartflag = 0
    /\ Temperature = ZeroTemps.Temperature
    /\ LastTemperature = ZeroTemps.Temperature
    /\ Temp_Cnt = ZeroTemps.Temp_Cnt
    /\ answer = [i \in Sensors |-> NoValue]
    /\ same = ZeroTemps.Temp_Cnt /\ age = ZeroTemps.age /\ moved = FALSE
-----------------------------------------------------------------------------
\* The sensors ReadTemp asks for the current value of Aging_Pack.
Asked == IF Aging_Pack = 0 THEN 0 .. Half - 1 ELSE Half .. MAX_TEMP_NUM - 1

\* MAX485_SendData after the wait: the temperature of sensor i for an answer of
\* value v (0 for 3000 and above), or for one from an unknown address.
Stored(i, v) == IF v = NoValue THEN Temperature[i] ELSE v

\* ReadTemp: the bus yields some value for every sensor of the half (module
\* Rs485 shows that it may be another sensor's, or the old one), or an answer
\* whose address is not known, and the task goes on with the next sensor.
ReadTemp ==
    /\ phase = "ReadTemp"
    /\ \E v \in [Asked -> Temps \cup {NoValue}] :
       LET t == [i \in Asked |-> Stored(i, v[i])] IN
        /\ answer' = [i \in Sensors |-> IF i \in Asked THEN v[i] ELSE answer[i]]
        /\ Temperature' =
               [i \in Sensors |-> IF i \in Asked THEN t[i] ELSE Temperature[i]]
        /\ same' = [i \in Sensors |->
                       CASE i \notin Asked -> same[i]
                         [] i \in Asked /\ t[i] # Temperature[i] -> 0
                         [] i \in Asked /\ t[i] = Temperature[i] ->
                                CapTo(same[i] + 1, FrozenReadings)]
        /\ moved' = (moved \/ \E i \in Asked : /\ age[i] # Never
                                               /\ t[i] # Temperature[i])
        /\ age' = [i \in Sensors |-> IF i \in Asked THEN 0
                                     ELSE CapTo(age[i] + 1, Never)]
    /\ phase' = "DataCollect"
    /\ UNCHANGED <<pin, alarmVars, Aging_Pack, LastTemperature, Temp_Cnt,
                   ReStartflag>>

\* DataCollect up to Read_AllTemp.
DataCollect ==
    /\ phase = "DataCollect"
    /\ CollectAlarms
    /\ phase' = "Read_AllTemp"
    /\ UNCHANGED <<pin, Aging_Pack, temps, answer, age>>

\* Mutant of TempCnt: the count is never kept.
TempCnt_Never(i) == 0

\* The first loop of Read_AllTemp: the new count of sensor i.
TempCnt(i) ==
    IF Temperature[i] = LastTemperature[i]
    THEN CapTo(Temp_Cnt[i] + 1, FreezeLimit) ELSE 0

\* Mutant of Frozen: the first half decides.
Frozen_FirstHalf ==
    \A i \in 0 .. Half - 1 : TempCnt(i) >= FreezeLimit

\* Every sensor has reached the limit.
Frozen == \A i \in Sensors : TempCnt(i) >= FreezeLimit

\* Read_AllTemp when some temperature has moved.  The replacement of Faulty
\* by the last temperature stands in the branch where the two are equal.
Read_AllTemp ==
    /\ phase = "Read_AllTemp"
    /\ ~Frozen
    /\ Temp_Cnt' = [i \in Sensors |-> TempCnt(i)]
    /\ Temperature' =
           [i \in Sensors |->
               IF Temperature[i] = LastTemperature[i] /\ Temperature[i] = Faulty
               THEN LastTemperature[i] ELSE Temperature[i]]
    /\ LastTemperature' = Temperature'
    /\ phase' = "AgingPack"
    /\ UNCHANGED <<pin, alarmVars, Aging_Pack, ReStartflag, answer, same, age,
                   moved>>

\* Mutant of SystemReset: the protection is not restarted.
SystemReset_Warm ==
    /\ phase = "Read_AllTemp" /\ Frozen
    /\ Temperature' = ZeroTemps.Temperature
    /\ LastTemperature' = ZeroTemps.Temperature
    /\ Temp_Cnt' = ZeroTemps.Temp_Cnt
    /\ same' = ZeroTemps.Temp_Cnt /\ age' = ZeroTemps.age /\ moved' = FALSE
    /\ phase' = "ReadTemp" /\ Aging_Pack' = 0
    /\ ConnectFlag' = 0
    /\ UNCHANGED <<pin, DelayProtectCnt, AlarmFlag, AlarmCnt, report, SysPower,
                   run, collected, ReStartflag, answer>>

\* Read_AllTemp when none has: NVIC_SystemReset, and the board starts again.
SystemReset ==
    /\ phase = "Read_AllTemp" /\ Frozen
    /\ Restart
    /\ Temperature' = ZeroTemps.Temperature
    /\ LastTemperature' = ZeroTemps.Temperature
    /\ Temp_Cnt' = ZeroTemps.Temp_Cnt
    /\ same' = ZeroTemps.Temp_Cnt /\ age' = ZeroTemps.age /\ moved' = FALSE
    /\ phase' = "ReadTemp" /\ Aging_Pack' = 0
    /\ UNCHANGED <<pin, ReStartflag, answer>>

\* Mutant of AgingPack: both branches turn to the second half.
AgingPack_Stuck ==
    /\ phase = "AgingPack"
    /\ Aging_Pack' = 1
    /\ phase' = "ReadTemp"
    /\ UNCHANGED <<pin, alarmVars, temps, answer, age>>

\* AgingPack; what it packs is the subject of module Packets.
AgingPack ==
    /\ phase = "AgingPack"
    /\ Aging_Pack' = 1 - Aging_Pack
    /\ phase' = "ReadTemp"
    /\ UNCHANGED <<pin, alarmVars, temps, answer, age>>

\* The TCP task sets ConnectFlag at any time; the lines change at any time.
ClientConnects ==
    /\ Connect
    /\ UNCHANGED <<pin, phase, Aging_Pack, temps, answer, age>>
LineChanges ==
    /\ PinChange
    /\ UNCHANGED <<alarmVars, phase, Aging_Pack, temps, answer, age>>

Task == ReadTemp \/ DataCollect \/ Read_AllTemp \/ SystemReset \/ AgingPack

LoopNext == Task \/ ClientConnects \/ LineChanges

\* AppTask runs its loop for ever.
LoopSpec == LoopInit /\ [][LoopNext]_loopVars /\ WF_loopVars(Task)
-----------------------------------------------------------------------------
\* The state keeps its types and bounds.
LoopTypeOK ==
    /\ TypeOK
    /\ phase \in {"ReadTemp", "DataCollect", "Read_AllTemp", "AgingPack"}
    /\ Aging_Pack \in {0, 1} /\ ReStartflag = 0
    /\ {Temperature, LastTemperature} \subseteq [Sensors -> Temps]
    /\ answer \in [Sensors -> Temps \cup {NoValue}]
    /\ Temp_Cnt \in [Sensors -> 0 .. FreezeLimit]
    /\ same \in [Sensors -> 0 .. FrozenReadings]
    /\ age \in [Sensors -> 0 .. Never] /\ moved \in BOOLEAN

\* The whole loop still does what Alarm says of the protection alone: neither
\* the readings nor a restart by Read_AllTemp in the middle of DataCollect
\* shows the protection anything but a collection or a restart.
ImplementsAlarm == FairSpec

\* The board only restarts itself when every sensor has yielded one value in
\* all its last FrozenReadings readings: comparing a half that was not read
\* counts as well, and never makes up for a reading that moved.
RestartOnlyWhenFrozen ==
    [][SystemReset => \A i \in Sensors : same[i] = FrozenReadings]_loopVars

\* Every packet has for each sensor what the bus yielded in this collection or
\* in the one before, except for the half not yet reached after a start: the
\* asking by halves and the turning in AgingPack stay in step, also across a
\* restart, and Read_AllTemp leaves the values alone.  Where the bus yielded no
\* value the temperature is older, and nothing bounds its age.
FreshHalves ==
    phase = "AgingPack" =>
        /\ \A i \in Asked : age[i] = 0
        /\ \A i \in Sensors \ Asked : age[i] = 1 \/ (age[i] = Never /\ ~moved)
        /\ \A i \in Sensors :
              age[i] # Never /\ answer[i] # NoValue => Temperature[i] = answer[i]

\* With limits that stand to each other as those built do (FreezeLimit + 2 =
\* Protect + Confirm - 1) the two counts meet: unless some reading has moved
\* since start, the collection that could cut the power is the one in which
\* Read_AllTemp restarts the board.  No cut outlives it.
CutNeedsMovingSensor ==
    SysPower = 1 /\ phase # "Read_AllTemp" => moved

\* Once the bus yields the same for every sensor again and again, values or
\* none, the board restarts again and again.
FrozenRestarts ==
    <>[][answer' = answer]_loopVars => []<><<SystemReset>>_loopVars

\* Smoke that stays on the line, with clients that always connect again, ends
\* in a lasting power cut or in endless restarts: nothing else defeats the
\* protection.
SmokeCutsOrRestarts ==
    <>[](pin[SmokeLine] = RD_ImComparative_Basis[SmokeLine])
    /\ []<>(ConnectFlag = 1)
        => <>[](SysPower = 1) \/ []<><<SystemReset>>_loopVars
=============================================================================

------------------------------- MODULE Alarm -------------------------------
(***************************************************************************)
(* The protection part of the sampling task: the state-return lines are    *)
(* sampled (RD_READ), debounced (Alarm_READ) and turned into the reported  *)
(* states and the system-power output (Read_SmokeandWater), once a client  *)
(* has connected and the start-up delay is over (DataCollect).             *)
(*                                                                         *)
(* Sources: Core/Peripheral/Alarm.c, DataSamp.c, Inter_init.c.             *)
(***************************************************************************)
EXTENDS Integers

CONSTANTS
    Live,       \* the lines Read_State really reads: {0, 2, 5, 7, 9}
    Confirm,    \* consecutive alarm samples that set AlarmFlag (3)
    Protect,    \* collections with a client before the lines are used (10)
    Saturated   \* value DelayProtectCnt is parked at (20)

MAX_READ_NUM == 10
Inputs == 0 .. MAX_READ_NUM - 1

\* Which line feeds which reported state (Read_SmokeandWater).
PowerLine == 0
GateLine == 2
WaterPowerLine == 5
SmokeLine == 7
LeakLine == 9

\* DelayProtectCnt is a uint8_t: parking it at Saturated keeps it from
\* wrapping, and one increment of Saturated is still past Protect.
ASSUME AlarmAssumption ==
    /\ Live \subseteq Inputs
    /\ {SmokeLine, LeakLine} \subseteq Live
    /\ Confirm \in Nat \ {0}
    /\ Protect \in 1 .. 255
    /\ Saturated \in Protect .. 254

\* The line levels that mean normal and alarm.
RD_Comparative_Basis == [i \in Inputs |-> IF i \in {0, 2, 5, 7} THEN 0 ELSE 1]
RD_ImComparative_Basis ==
    [i \in Inputs |-> IF i \in {0, 2, 5, 7} THEN 1 ELSE 0]

VARIABLES
    pin,              \* environment: level of every line that is read
    ConnectFlag,      \* SysCtrl.ConnectFlag: a client has sent something
    DelayProtectCnt,  \* SysCtrl.DelayProtectCnt, uint8_t
    AlarmFlag,        \* SysData.AlarmFlag
    AlarmCnt,         \* SysData.AlarmCnt
    report,           \* the five reported states of SysData
    SysPower,         \* CTRL_IO6: 1 cuts the system power
    run,              \* history: consecutive alarm samples per line, capped
    collected         \* history: collections since the client connected, capped

hist == <<run, collected>>
alarmVars == <<ConnectFlag, DelayProtectCnt, AlarmFlag, AlarmCnt, report,
               SysPower, run, collected>>
vars == <<pin, alarmVars>>

Bit == {0, 1}
Reports == [WaterLose : Bit, Somke : Bit, Gate_State : Bit,
            PowerLose : Bit, WaterPower_State : Bit]
NoReport == [WaterLose |-> 0, Somke |-> 0, Gate_State |-> 0,
             PowerLose |-> 0, WaterPower_State |-> 0]

\* Caps of the history variables: past these values they tell nothing more.
CollectedCap == Protect + Confirm

\* The state keeps its types and bounds.
TypeOK ==
    /\ pin \in [Live -> Bit]
    /\ ConnectFlag \in Bit
    /\ DelayProtectCnt \in 0 .. 255
    /\ AlarmFlag \in [Inputs -> Bit]
    /\ AlarmCnt \in [Inputs -> 0 .. Confirm - 1]
    /\ report \in Reports
    /\ SysPower \in Bit
    /\ run \in [Inputs -> 0 .. Confirm]
    /\ collected \in 0 .. CollectedCap
-----------------------------------------------------------------------------
\* Start-up: zeroed RAM, InitInnerPeripheral and InitAGESysParameter.  The
\* system power is on, as InitAGESysContral would leave it: nothing calls that
\* function, and main resets the CPLD that drives the output instead.
InitAGESysParameter ==
    /\ ConnectFlag = 0
    /\ DelayProtectCnt = 0
    /\ AlarmFlag = [i \in Inputs |-> 0]
    /\ AlarmCnt = [i \in Inputs |-> 0]
    /\ report = NoReport
    /\ SysPower = 0
    /\ run = [i \in Inputs |-> 0]
    /\ collected = 0

Init ==
    /\ pin \in [Live -> Bit]
    /\ InitAGESysParameter

\* Read_State: the lines that are read come from the pins, the others are
\* forced to 1 (their normal level).  (The macros RDi_STATE of DataSamp.h read
\* the output register of these input pins, which never changes: a case of
\* PinChange not being taken.)
Read_State == [i \in Inputs |-> IF i \in Live THEN pin[i] ELSE 1]

\* Mutants of Alarm_READ: one sample too many, and a counter that a normal
\* sample does not clear.
Alarm_READ_Late(i, RD) ==
    IF RD[i] = RD_ImComparative_Basis[i]
    THEN IF AlarmFlag[i] = 1 THEN [flag |-> 1, cnt |-> AlarmCnt[i]]
         ELSE IF AlarmCnt[i] + 1 > Confirm THEN [flag |-> 1, cnt |-> 0]
         ELSE [flag |-> 0, cnt |-> AlarmCnt[i] + 1]
    ELSE [flag |-> 0, cnt |-> 0]
Alarm_READ_NoClear(i, RD) ==
    IF RD[i] = RD_ImComparative_Basis[i]
    THEN IF AlarmFlag[i] = 1 THEN [flag |-> 1, cnt |-> AlarmCnt[i]]
         ELSE IF AlarmCnt[i] + 1 >= Confirm THEN [flag |-> 1, cnt |-> 0]
         ELSE [flag |-> 0, cnt |-> AlarmCnt[i] + 1]
    ELSE [flag |-> 0, cnt |-> AlarmCnt[i]]

\* Alarm_READ on one line: its new flag and counter for the sample RD.
Alarm_READ(i, RD) ==
    IF RD[i] = RD_ImComparative_Basis[i]
    THEN IF AlarmFlag[i] = 1 THEN [flag |-> 1, cnt |-> AlarmCnt[i]]
         ELSE IF AlarmCnt[i] + 1 >= Confirm THEN [flag |-> 1, cnt |-> 0]
         ELSE [flag |-> 0, cnt |-> AlarmCnt[i] + 1]
    ELSE [flag |-> 0, cnt |-> 0]

\* Mutant of Read_SmokeandWater: a reported loss of power is never withdrawn.
Read_SmokeandWater_Kept(af) ==
    [WaterLose |-> af[LeakLine], Somke |-> af[SmokeLine],
     Gate_State |-> af[GateLine], WaterPower_State |-> af[WaterPowerLine],
     PowerLose |-> IF af[LeakLine] = 0 /\ af[SmokeLine] = 0 /\ af[PowerLine] = 1
                   THEN 1 ELSE report.PowerLose]

\* Read_SmokeandWater: the reported states for the alarm flags af.  A loss of
\* power is not evaluated while the board itself has cut the power.
Read_SmokeandWater(af) ==
    [WaterLose |-> af[LeakLine], Somke |-> af[SmokeLine],
     Gate_State |-> af[GateLine], WaterPower_State |-> af[WaterPowerLine],
     PowerLose |-> IF af[LeakLine] = 0 /\ af[SmokeLine] = 0
                   THEN af[PowerLine] ELSE report.PowerLose]

\* Mutants of PowerOutput: both dangers needed, and a cut that is never undone.
PowerOutput_Both(r) == IF r.Somke = 1 /\ r.WaterLose = 1 THEN 1 ELSE 0
PowerOutput_Latched(r) ==
    IF r.Somke = 1 \/ r.WaterLose = 1 THEN 1 ELSE SysPower

\* SYS_POWER_CLOSE_OFF / SYS_POWER_CLOSE_ON at the end of Read_SmokeandWater.
PowerOutput(r) == IF r.Somke = 1 \/ r.WaterLose = 1 THEN 1 ELSE 0

CapTo(n, cap) == IF n > cap THEN cap ELSE n

\* Mutant of Armed: one collection early.
Armed_Early == (DelayProtectCnt + 1) % 256 >= Protect - 1

\* The protection is armed once DelayProtectCnt, incremented, reaches Protect.
Armed == (DelayProtectCnt + 1) % 256 >= Protect

\* DataCollect with a client, before the protection is armed.
Delay ==
    /\ ConnectFlag = 1 /\ ~Armed
    /\ DelayProtectCnt' = (DelayProtectCnt + 1) % 256
    /\ collected' = CapTo(collected + 1, CollectedCap)
    /\ UNCHANGED <<ConnectFlag, AlarmFlag, AlarmCnt, report, SysPower, run>>

\* Mutant of Park: the counter starts over.
Park_Zero == 0

\* Where an armed collection leaves DelayProtectCnt.
Park == Saturated

\* DataCollect with a client and the protection armed.
Protection ==
    LET RD == Read_State
        new == [i \in Inputs |-> Alarm_READ(i, RD)]
    IN  /\ ConnectFlag = 1 /\ Armed
        /\ DelayProtectCnt' = Park
        /\ AlarmFlag' = [i \in Inputs |-> new[i].flag]
        /\ AlarmCnt' = [i \in Inputs |-> new[i].cnt]
        /\ report' = Read_SmokeandWater(AlarmFlag')
        /\ SysPower' = PowerOutput(report')
        /\ run' = [i \in Inputs |-> IF RD[i] = RD_ImComparative_Basis[i]
                                    THEN CapTo(run[i] + 1, Confirm) ELSE 0]
        /\ collected' = CapTo(collected + 1, CollectedCap)
        /\ UNCHANGED ConnectFlag

\* DataCollect without a client: the reports are cleared, except
\* WaterPower_State, and the delay starts again.
NoClient ==
    /\ ConnectFlag = 0
    /\ report' = [report EXCEPT !.WaterLose = 0, !.Somke = 0,
                                !.Gate_State = 0, !.PowerLose = 0]
    /\ DelayProtectCnt' = 0
    /\ collected' = 0
    /\ UNCHANGED <<ConnectFlag, AlarmFlag, AlarmCnt, SysPower, run>>

\* DataCollect up to its call of Read_AllTemp.
CollectAlarms == Delay \/ Protection \/ NoClient

\* TcpServersTask: what a client sends sets ConnectFlag; nothing clears it.
Connect ==
    /\ ConnectFlag = 0
    /\ ConnectFlag' = 1
    /\ UNCHANGED <<DelayProtectCnt, AlarmFlag, AlarmCnt, report, SysPower, hist>>

\* NVIC_SystemReset or a power cycle: main resets the CPLD that drives the power
\* output, and RAM starts as in Init.
Restart ==
    /\ ConnectFlag' = 0
    /\ DelayProtectCnt' = 0
    /\ AlarmFlag' = [i \in Inputs |-> 0]
    /\ AlarmCnt' = [i \in Inputs |-> 0]
    /\ report' = NoReport
    /\ SysPower' = 0
    /\ run' = [i \in Inputs |-> 0]
    /\ collected' = 0

\* A line changes its level; any number of them do between two samples.
PinChange == \E i \in Live : pin' = [pin EXCEPT ![i] = 1 - @]

Next ==
    \/ CollectAlarms /\ UNCHANGED pin
    \/ Connect /\ UNCHANGED pin
    \/ PinChange /\ UNCHANGED alarmVars
    \/ Restart /\ UNCHANGED pin

Spec == Init /\ [][Next]_vars

\* AppTask calls DataCollect in every turn of its endless loop.
FairSpec == Spec /\ WF_vars(CollectAlarms /\ UNCHANGED pin)
-----------------------------------------------------------------------------
\* An alarm flag is set exactly when the last Confirm samples of its line,
\* taken since start-up, were all in alarm; while it is not, AlarmCnt is the
\* length of the current run of alarm samples (Alarm_READ over many calls).
DebounceExact ==
    \A i \in Inputs :
        IF run[i] = Confirm THEN AlarmFlag[i] = 1 /\ AlarmCnt[i] = 0
                            ELSE AlarmFlag[i] = 0 /\ AlarmCnt[i] = run[i]

\* The phases of the start-up delay: DelayProtectCnt counts the collections
\* since the client connected, no sample is used before it reaches Protect,
\* and afterwards a run of samples is no longer than the time armed.
DelayPhases ==
    \/ /\ ConnectFlag = 0 /\ DelayProtectCnt = 0 /\ collected = 0
       /\ \A i \in Inputs : run[i] = 0
    \/ /\ ConnectFlag = 1 /\ DelayProtectCnt < Protect
       /\ collected = DelayProtectCnt
       /\ \A i \in Inputs : run[i] = 0
    \/ /\ ConnectFlag = 1 /\ DelayProtectCnt = Saturated /\ collected >= Protect
       /\ \A i \in Inputs : run[i] <= collected - Protect + 1

\* The power output, the reported smoke and leak and the debounced lines tell
\* one story in every state: the power is cut iff smoke or a leak is reported,
\* and they are reported iff their lines were in alarm Confirm times running.
CutIffReported ==
    /\ SysPower = 1 <=> report.Somke = 1 \/ report.WaterLose = 1
    /\ report.Somke = 1 <=> run[SmokeLine] = Confirm
    /\ report.WaterLose = 1 <=> run[LeakLine] = Confirm

\* After a (re)start the power is never cut before the Protect-th collection
\* with a client plus the Confirm - 1 further samples the debounce needs: the
\* start-up delay and the debounce add up, whatever the lines do meanwhile.
NoEarlyCut == SysPower = 1 => collected >= Protect + Confirm - 1

\* Once armed the protection stays armed until the board restarts: the counter
\* that is incremented in every collection never wraps below Protect again.
ProtectionStaysArmed == collected >= Protect => Armed

\* While the power is on the reported loss of power is the debounced line: what
\* was reported before a cut, and stood still during it, does not outlive it.
\* (The line is sampled during a cut too: if it was down Confirm times the
\* collection that ends the cut reports a loss, were it the board's own.)
PowerLossCurrent ==
    SysPower = 0 => (report.PowerLose = 1 <=> run[PowerLine] = Confirm)

\* Smoke that stays on the line while a client is connected and the board is
\* not reset leads to a power cut that lasts.
SmokeCutsPower ==
    <>[](pin[SmokeLine] = RD_ImComparative_Basis[SmokeLine] /\ ConnectFlag = 1)
        => <>[](SysPower = 1)

\* Once the smoke and leak lines stay normal the power comes back for good.
PowerComesBack ==
    <>[](\A i \in {SmokeLine, LeakLine} : pin[i] = RD_Comparative_Basis[i])
        => <>[](SysPower = 0)
=============================================================================

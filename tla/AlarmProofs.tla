---------------------------- MODULE AlarmProofs ----------------------------
(***************************************************************************)
(* Proofs about the protection of module Alarm, for every set of lines     *)
(* read, debounce length and start-up delay the assumption admits.         *)
(***************************************************************************)
EXTENDS Alarm, TLAPS

\* The inductive invariant: what the runs check, held together by the phases
\* of the start-up delay.
IInv ==
    TypeOK /\ DebounceExact /\ CutIffReported /\ PowerLossCurrent /\ DelayPhases

LEMMA LineFacts ==
    /\ SmokeLine \in Inputs /\ LeakLine \in Inputs /\ GateLine \in Inputs
    /\ WaterPowerLine \in Inputs /\ PowerLine \in Inputs
  BY DEF SmokeLine, LeakLine, GateLine, WaterPowerLine, PowerLine, Inputs,
         MAX_READ_NUM

\* One line: Alarm_READ keeps flag and counter in step with the run of alarm
\* samples.
LEMMA AlarmReadStep ==
  ASSUME TypeOK, DebounceExact, NEW i \in Inputs, NEW RD \in [Inputs -> Bit],
         NEW r, r = IF RD[i] = RD_ImComparative_Basis[i]
                    THEN CapTo(run[i] + 1, Confirm) ELSE 0
  PROVE  /\ Alarm_READ(i, RD).flag \in Bit
         /\ Alarm_READ(i, RD).cnt \in 0 .. Confirm - 1
         /\ r \in 0 .. Confirm
         /\ r <= run[i] + 1
         /\ IF r = Confirm
            THEN Alarm_READ(i, RD).flag = 1 /\ Alarm_READ(i, RD).cnt = 0
            ELSE Alarm_READ(i, RD).flag = 0 /\ Alarm_READ(i, RD).cnt = r
  <1>1. /\ run[i] \in 0 .. Confirm /\ AlarmCnt[i] \in 0 .. Confirm - 1
        /\ AlarmFlag[i] \in Bit
        /\ Confirm \in Nat \ {0}
    BY AlarmAssumption DEF TypeOK
  <1>2. IF run[i] = Confirm THEN AlarmFlag[i] = 1 /\ AlarmCnt[i] = 0
                            ELSE AlarmFlag[i] = 0 /\ AlarmCnt[i] = run[i]
    BY DEF DebounceExact
  <1> QED
    BY <1>1, <1>2 DEF Alarm_READ, CapTo, Bit

LEMMA InitIInv == Init => IInv
  BY AlarmAssumption, LineFacts
     DEF Init, InitAGESysParameter, IInv, TypeOK, DebounceExact,
         CutIffReported, PowerLossCurrent, DelayPhases, NoReport, Reports, Bit, CollectedCap

\* A collection with the protection armed.
LEMMA ProtectionStep ==
  ASSUME IInv, Protection, UNCHANGED pin
  PROVE  IInv'
  <1> DEFINE RD == Read_State
  <1> USE AlarmAssumption, LineFacts
  <1>t. TypeOK /\ DebounceExact
    BY DEF IInv
  <1>1. RD \in [Inputs -> Bit]
    BY <1>t DEF TypeOK, Read_State, Bit
  <1>2. ASSUME NEW i \in Inputs
        PROVE  /\ AlarmFlag'[i] \in Bit
               /\ AlarmCnt'[i] \in 0 .. Confirm - 1
               /\ run'[i] \in 0 .. Confirm
               /\ run'[i] <= run[i] + 1
               /\ IF run'[i] = Confirm
                  THEN AlarmFlag'[i] = 1 /\ AlarmCnt'[i] = 0
                  ELSE AlarmFlag'[i] = 0 /\ AlarmCnt'[i] = run'[i]
    <2> DEFINE r == IF RD[i] = RD_ImComparative_Basis[i]
                    THEN CapTo(run[i] + 1, Confirm) ELSE 0
    <2>1. /\ AlarmFlag'[i] = Alarm_READ(i, RD).flag
          /\ AlarmCnt'[i] = Alarm_READ(i, RD).cnt
          /\ run'[i] = r
      BY DEF Protection
    <2> HIDE DEF r, RD
    <2>2. QED
      BY <1>t, <1>1, <2>1, AlarmReadStep DEF r
  <1>3. /\ AlarmFlag' \in [Inputs -> Bit]
        /\ AlarmCnt' \in [Inputs -> 0 .. Confirm - 1]
        /\ run' \in [Inputs -> 0 .. Confirm]
    <2>1. /\ AlarmFlag' = [i \in Inputs |-> AlarmFlag'[i]]
          /\ AlarmCnt' = [i \in Inputs |-> AlarmCnt'[i]]
          /\ run' = [i \in Inputs |-> run'[i]]
      BY DEF Protection
    <2>2. QED
      BY <1>2, <2>1
  <1>4. DebounceExact'
    BY <1>2 DEF DebounceExact
  <1>5. report' \in Reports
    BY <1>t, <1>3 DEF Protection, Read_SmokeandWater, Reports, TypeOK, Bit
  <1>6. CutIffReported'
    <2>1. /\ report'.Somke = AlarmFlag'[SmokeLine]
          /\ report'.WaterLose = AlarmFlag'[LeakLine]
          /\ SysPower' = PowerOutput(report')
      BY DEF Protection, Read_SmokeandWater
    <2>2. /\ AlarmFlag'[SmokeLine] = 1 <=> run'[SmokeLine] = Confirm
          /\ AlarmFlag'[LeakLine] = 1 <=> run'[LeakLine] = Confirm
      BY <1>2
    <2>3. QED
      BY <2>1, <2>2 DEF CutIffReported, PowerOutput
  <1>p. PowerLossCurrent'
    <2> SUFFICES ASSUME SysPower' = 0
                 PROVE  report'.PowerLose = 1 <=> run'[PowerLine] = Confirm
      BY DEF PowerLossCurrent
    <2>1. /\ report' = Read_SmokeandWater(AlarmFlag')
          /\ SysPower' = PowerOutput(report')
      BY DEF Protection
    <2>2. AlarmFlag'[LeakLine] = 0 /\ AlarmFlag'[SmokeLine] = 0
      BY <1>3, <2>1 DEF Read_SmokeandWater, PowerOutput, Bit
    <2>3. report'.PowerLose = AlarmFlag'[PowerLine]
      BY <2>1, <2>2 DEF Read_SmokeandWater
    <2> QED
      BY <1>2, <2>3
  <1>7. SysPower' \in Bit
    BY DEF Protection, PowerOutput, Bit
  <1>8. /\ collected' \in 0 .. CollectedCap
        /\ collected' >= Protect
        /\ \A i \in Inputs : run'[i] <= collected' - Protect + 1
    <2>1. /\ collected \in 0 .. CollectedCap
          /\ DelayProtectCnt \in 0 .. 255
          /\ collected' = CapTo(collected + 1, CollectedCap)
          /\ (DelayProtectCnt + 1) % 256 >= Protect
          /\ ConnectFlag = 1
      BY <1>t DEF TypeOK, Protection, Armed
    <2>2. CASE DelayProtectCnt < Protect /\ collected = DelayProtectCnt
               /\ \A i \in Inputs : run[i] = 0
      <3>1. DelayProtectCnt = Protect - 1
        BY <2>1, <2>2
      <3>2. QED
        BY <1>2, <1>3, <2>1, <2>2, <3>1 DEF CapTo, CollectedCap
    <2>3. CASE collected >= Protect
               /\ \A i \in Inputs : run[i] <= collected - Protect + 1
      <3>1. \A i \in Inputs : run[i] \in 0 .. Confirm
        BY <1>t DEF TypeOK
      <3>2. QED
        BY <1>2, <1>3, <2>1, <2>3, <3>1 DEF CapTo, CollectedCap
    <2>4. QED
      BY <2>1, <2>2, <2>3 DEF IInv, DelayPhases
  <1>9. DelayPhases'
    BY <1>8 DEF DelayPhases, Protection, Park
  <1>10. TypeOK'
    BY <1>t, <1>3, <1>5, <1>7, <1>8 DEF TypeOK, Protection, Park
  <1> QED
    BY <1>4, <1>6, <1>p, <1>9, <1>10 DEF IInv

\* A collection before the protection is armed only counts.
LEMMA DelayStep ==
  ASSUME IInv, Delay, UNCHANGED pin
  PROVE  IInv'
  <1> USE AlarmAssumption
  <1>1. /\ collected \in 0 .. CollectedCap /\ DelayProtectCnt \in 0 .. 255
        /\ ~((DelayProtectCnt + 1) % 256 >= Protect)
        /\ DelayProtectCnt' = (DelayProtectCnt + 1) % 256
        /\ collected' = CapTo(collected + 1, CollectedCap)
        /\ ConnectFlag = 1
    BY DEF IInv, TypeOK, Delay, Armed
  <1>2. /\ DelayProtectCnt < Protect /\ collected = DelayProtectCnt
        /\ \A i \in Inputs : run[i] = 0
    BY <1>1 DEF IInv, DelayPhases
  <1>3. /\ DelayProtectCnt' = DelayProtectCnt + 1
        /\ collected' = collected + 1
        /\ DelayProtectCnt' < Protect
        /\ collected' \in 0 .. CollectedCap
        /\ DelayProtectCnt' \in 0 .. 255
    BY <1>1, <1>2 DEF CapTo, CollectedCap
  <1>4. DelayPhases'
    BY <1>1, <1>2, <1>3 DEF DelayPhases, Delay
  <1>5. TypeOK'
    BY <1>3 DEF IInv, TypeOK, Delay
  <1>6. DebounceExact' /\ CutIffReported' /\ PowerLossCurrent'
    BY DEF IInv, DebounceExact, CutIffReported, PowerLossCurrent, Delay
  <1> QED
    BY <1>4, <1>5, <1>6 DEF IInv

\* A collection without a client: nothing was reported, so nothing changes.
LEMMA NoClientStep ==
  ASSUME IInv, NoClient, UNCHANGED pin
  PROVE  IInv'
  <1> USE AlarmAssumption, LineFacts
  <1>1. /\ ConnectFlag = 0
        /\ \A i \in Inputs : run[i] = 0
    BY DEF IInv, DelayPhases, NoClient
  <1>2. report \in Reports /\ report' \in Reports
    BY DEF IInv, TypeOK, NoClient, Reports, Bit
  <1>3. report'.Somke = 0 /\ report'.WaterLose = 0 /\ report'.PowerLose = 0
    BY <1>2 DEF NoClient, Reports
  <1>4. CutIffReported' /\ PowerLossCurrent'
    BY <1>1, <1>3
       DEF IInv, CutIffReported, PowerLossCurrent, NoClient, TypeOK, Bit
  <1>5. TypeOK'
    BY <1>2 DEF IInv, TypeOK, NoClient, CollectedCap
  <1>6. DelayPhases' /\ DebounceExact'
    BY <1>1 DEF IInv, DelayPhases, DebounceExact, NoClient
  <1> QED
    BY <1>4, <1>5, <1>6 DEF IInv

LEMMA RestartStep ==
  ASSUME IInv, Restart, UNCHANGED pin
  PROVE  IInv'
  BY AlarmAssumption, LineFacts
     DEF Restart, IInv, TypeOK, DebounceExact, CutIffReported, PowerLossCurrent, DelayPhases,
         NoReport, Reports, Bit, CollectedCap

LEMMA NextIInv == IInv /\ [Next]_vars => IInv'
  <1> SUFFICES ASSUME IInv, [Next]_vars PROVE IInv'
    OBVIOUS
  <1>1. CASE CollectAlarms /\ UNCHANGED pin
    BY <1>1, ProtectionStep, DelayStep, NoClientStep DEF CollectAlarms
  <1>2. CASE Connect /\ UNCHANGED pin
    BY <1>2, AlarmAssumption
       DEF IInv, TypeOK, DebounceExact, CutIffReported, PowerLossCurrent, DelayPhases, Connect,
           hist, Bit
  <1>3. CASE PinChange /\ UNCHANGED alarmVars
    <2>1. PICK i \in Live : pin' = [pin EXCEPT ![i] = 1 - @]
      BY <1>3 DEF PinChange
    <2>2. pin' \in [Live -> Bit]
      BY <2>1 DEF IInv, TypeOK, Bit
    <2>3. QED
      BY <1>3, <2>2
         DEF IInv, TypeOK, DebounceExact, CutIffReported, PowerLossCurrent, DelayPhases, alarmVars
  <1>4. CASE Restart /\ UNCHANGED pin
    BY <1>4, RestartStep
  <1>5. CASE UNCHANGED vars
    BY <1>5
       DEF IInv, TypeOK, DebounceExact, CutIffReported, PowerLossCurrent, DelayPhases, vars,
           alarmVars
  <1> QED
    BY <1>1, <1>2, <1>3, <1>4, <1>5 DEF Next

LEMMA IInvNoEarlyCut == IInv => NoEarlyCut
  <1> SUFFICES ASSUME IInv, SysPower = 1
               PROVE  collected >= Protect + Confirm - 1
    BY DEF NoEarlyCut
  <1> USE AlarmAssumption, LineFacts
  <1>1. PICK i \in Inputs : run[i] = Confirm
    BY DEF IInv, CutIffReported
  <1>2. collected >= Protect /\ run[i] <= collected - Protect + 1
    BY <1>1 DEF IInv, DelayPhases
  <1>3. collected \in Nat /\ run[i] \in Nat
    BY DEF IInv, TypeOK, CollectedCap
  <1> QED
    BY <1>1, <1>2, <1>3

\* Every variable of the protection keeps its type, in particular AlarmCnt
\* never reaches Confirm and DelayProtectCnt never leaves a byte.
THEOREM TypeCorrect == Spec => []TypeOK
  <1>1. IInv => TypeOK
    BY DEF IInv
  <1> QED
    BY <1>1, InitIInv, NextIInv, PTL DEF Spec

\* Alarm_READ debounces exactly: a flag is set iff the last Confirm samples of
\* its line were in alarm.
THEOREM DebounceCorrect == Spec => []DebounceExact
  <1>1. IInv => DebounceExact
    BY DEF IInv
  <1> QED
    BY <1>1, InitIInv, NextIInv, PTL DEF Spec

\* The power output agrees with the reported and with the debounced smoke and
\* leak lines in every state.
THEOREM CutCorrect == Spec => []CutIffReported
  <1>1. IInv => CutIffReported
    BY DEF IInv
  <1> QED
    BY <1>1, InitIInv, NextIInv, PTL DEF Spec

\* No cut before the start-up delay and the debounce are both over.
THEOREM EarlyCutExcluded == Spec => []NoEarlyCut
  <1> QED
    BY IInvNoEarlyCut, InitIInv, NextIInv, PTL DEF Spec

\* A reported loss of power does not outlive a cut: with the power on it is the
\* debounced line.
THEOREM LossCorrect == Spec => []PowerLossCurrent
  <1>1. IInv => PowerLossCurrent
    BY DEF IInv
  <1> QED
    BY <1>1, InitIInv, NextIInv, PTL DEF Spec

\* Once armed the protection stays armed, for every parking value that one
\* increment keeps within a byte.
THEOREM StaysArmed == Spec => []ProtectionStaysArmed
  <1>1. IInv => ProtectionStaysArmed
    <2> SUFFICES ASSUME IInv, collected >= Protect
                 PROVE  (DelayProtectCnt + 1) % 256 >= Protect
      BY DEF ProtectionStaysArmed, Armed
    <2>1. DelayProtectCnt = Saturated
      BY AlarmAssumption DEF IInv, DelayPhases, TypeOK
    <2> QED
      BY <2>1, AlarmAssumption
  <1> QED
    BY <1>1, InitIInv, NextIInv, PTL DEF Spec
=============================================================================

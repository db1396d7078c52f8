--------------------------- MODULE CollectProofs ---------------------------
(***************************************************************************)
(* Proofs about the sampling loop, for any number of sensors and any       *)
(* temperatures: the loop implements the protection of module Alarm, the   *)
(* halves stay in step, and the counts of equal temperatures mean what     *)
(* Read_AllTemp takes them for.                                            *)
(***************************************************************************)
EXTENDS Collect, AlarmProofs

LoopTypes ==
    /\ phase \in {"ReadTemp", "DataCollect", "Read_AllTemp", "AgingPack"}
    /\ Aging_Pack \in {0, 1}
    /\ Temperature = [i \in Sensors |-> Temperature[i]]
    /\ LastTemperature = [i \in Sensors |-> LastTemperature[i]]
    /\ Temp_Cnt \in [Sensors -> Nat] /\ same \in [Sensors -> Nat]
    /\ age \in [Sensors -> 0 .. Never] /\ moved \in BOOLEAN
    /\ \A i \in Sensors : same[i] <= FrozenReadings

\* How long ago each half was read.  Before the first turn neither was; after
\* it the half to be read next is a collection older than the other, or was
\* never read, and then no reading can have moved.
Unread == \A i \in Sensors : age[i] = Never

AgeInv ==
    /\ phase = "ReadTemp" =>
          \/ Unread /\ Aging_Pack = 0 /\ ~moved
          \/ /\ \A i \in Sensors \ Asked : age[i] = 0
             /\ \A i \in Asked : age[i] = 1 \/ (age[i] = Never /\ ~moved)
    /\ phase # "ReadTemp" =>
          /\ \A i \in Asked : age[i] = 0
          /\ \A i \in Sensors \ Asked : age[i] = 1 \/ (age[i] = Never /\ ~moved)

\* A sensor with c equal comparisons in a row was read in half of those
\* collections, one less if it was not read in the last: at least n readings
\* were the same.
Readings(i, n) == same[i] = FrozenReadings \/ 2 * same[i] >= n

CountInv ==
    \A i \in Sensors :
        /\ phase = "ReadTemp" =>
              /\ Temperature[i] = LastTemperature[i]
              /\ Readings(i, IF i \in Asked THEN Temp_Cnt[i] - 1
                                            ELSE Temp_Cnt[i])
        /\ phase \in {"DataCollect", "Read_AllTemp"} =>
              /\ i \notin Asked => Temperature[i] = LastTemperature[i]
              /\ Temperature[i] = LastTemperature[i] =>
                    Readings(i, IF i \in Asked THEN Temp_Cnt[i] + 1
                                               ELSE Temp_Cnt[i])
        /\ phase = "AgingPack" =>
              /\ Temperature[i] = LastTemperature[i]
              /\ Readings(i, IF i \in Asked THEN Temp_Cnt[i]
                                            ELSE Temp_Cnt[i] - 1)

\* The first reading of a sensor may differ from the zeroed RAM; it is made in
\* the first or the second turn.  As long as no other differs, every count is
\* at most two short of the collections, and some count is short of the limit
\* that restarts the board.
Behind(i, n) == Temp_Cnt[i] + n >= collected \/ Temp_Cnt[i] >= FreezeLimit

SomeUnread == \E i \in Sensors : age[i] = Never

MeetInv ==
    /\ phase = "ReadTemp" /\ Unread => collected = 0
    /\ phase = "DataCollect" /\ SomeUnread => collected = 0
    /\ SomeUnread => collected <= 1
    /\ phase # "Read_AllTemp" => \E i \in Sensors : Temp_Cnt[i] < FreezeLimit
    /\ ~moved => \A i \in Sensors :
          /\ phase # "Read_AllTemp" => Behind(i, 2)
          /\ phase = "Read_AllTemp" => Behind(i, 3)
          /\ phase = "DataCollect" => Temperature[i] = LastTemperature[i]
                                      \/ collected <= 1
          /\ phase = "Read_AllTemp" => Temperature[i] = LastTemperature[i]
                                       \/ collected <= 2

\* A sensor asked since the start has what the bus last yielded for it, if that
\* was a value.
AnswerInv ==
    \A i \in Sensors :
        age[i] # Never /\ answer[i] # NoValue => Temperature[i] = answer[i]

LoopInv == LoopTypes /\ AgeInv /\ CountInv /\ MeetInv /\ AnswerInv
-----------------------------------------------------------------------------
\* The protection within the loop sees nothing but its own steps: collections,
\* connections, lines that change, and restarts.  This is the safety part of
\* ImplementsAlarm.
THEOREM LoopImplementsAlarm == LoopSpec => Spec
  <1>1. LoopInit => Init
    BY DEF LoopInit
  <1>2. [LoopNext]_loopVars => [Next]_vars
    BY DEF LoopNext, Task, ReadTemp, DataCollect, Read_AllTemp, SystemReset,
           AgingPack, ClientConnects, LineChanges, loopVars, Next, vars
  <1> QED
    BY <1>1, <1>2, PTL DEF LoopSpec, Spec

LEMMA LoopIInv == LoopSpec => []IInv
  BY LoopImplementsAlarm, InitIInv, NextIInv, PTL DEF Spec

\* So what is proved of the protection holds in the loop.
THEOREM LoopProtects ==
    LoopSpec => /\ [](DebounceExact /\ CutIffReported /\ NoEarlyCut)
                /\ [](ProtectionStaysArmed /\ PowerLossCurrent)
  BY LoopImplementsAlarm, DebounceCorrect, CutCorrect, EarlyCutExcluded,
     StaysArmed, LossCorrect, PTL
-----------------------------------------------------------------------------
LEMMA AskedFacts ==
  ASSUME Aging_Pack \in {0, 1}
  PROVE  /\ Asked \subseteq Sensors /\ Asked # {}
         /\ Aging_Pack' = 1 - Aging_Pack => Asked' = Sensors \ Asked
         /\ Aging_Pack' = Aging_Pack => Asked' = Asked
  <1> USE CollectAssumption
  <1>1. Asked \subseteq Sensors /\ Asked # {}
    <2>1. 0 \in 0 .. Half - 1 /\ Half \in Half .. 2 * Half - 1
      OBVIOUS
    <2>2. CASE Aging_Pack = 0
      <3>1. Asked = 0 .. Half - 1
        BY <2>2 DEF Asked
      <3>2. 0 .. Half - 1 \subseteq 0 .. 2 * Half - 1
        OBVIOUS
      <3>3. QED
        BY <2>1, <3>1, <3>2 DEF Sensors, MAX_TEMP_NUM
    <2>3. CASE Aging_Pack = 1
      <3>1. Asked = Half .. 2 * Half - 1
        BY <2>3 DEF Asked, MAX_TEMP_NUM
      <3>2. Half .. 2 * Half - 1 \subseteq 0 .. 2 * Half - 1
        OBVIOUS
      <3>3. QED
        BY <2>1, <3>1, <3>2 DEF Sensors, MAX_TEMP_NUM
    <2>4. QED
      BY <2>2, <2>3
  <1>2. ASSUME Aging_Pack' = 1 - Aging_Pack
        PROVE  Asked' = Sensors \ Asked
    <2>1. CASE Aging_Pack = 0
      BY <1>2, <2>1 DEF Asked, Sensors, MAX_TEMP_NUM
    <2>2. CASE Aging_Pack = 1
      BY <1>2, <2>2 DEF Asked, Sensors, MAX_TEMP_NUM
    <2>3. QED
      BY <2>1, <2>2
  <1> QED
    BY <1>1, <1>2 DEF Asked

LEMMA FrozenFacts ==
    /\ FrozenReadings \in Nat
    /\ 2 * FrozenReadings <= FreezeLimit
    /\ FreezeLimit <= 2 * FrozenReadings + 1
  BY CollectAssumption DEF FrozenReadings

\* A step that is not one of the task's.
LEMMA OthersStep ==
  ASSUME LoopInv, IInv, [LoopNext]_loopVars, ~Task
  PROVE  LoopInv'
  <1>1. UNCHANGED <<phase, Aging_Pack, temps, age, collected, answer>>
    BY DEF LoopNext, ClientConnects, LineChanges, Connect, hist, loopVars,
           alarmVars
  <1>2. UNCHANGED <<phase, Aging_Pack, Temperature, LastTemperature, Temp_Cnt,
                    same, moved, age, collected, answer, Asked>>
    BY <1>1 DEF temps, Asked
  <1>3. LoopTypes' /\ AgeInv'
    BY <1>2 DEF LoopInv, LoopTypes, AgeInv, Unread
  <1>4. CountInv'
    BY <1>2 DEF LoopInv, CountInv, Readings
  <1>5. MeetInv'
    BY <1>2 DEF LoopInv, MeetInv, Behind, Unread, SomeUnread
  <1>6. AnswerInv'
    BY <1>2 DEF LoopInv, AnswerInv
  <1> QED
    BY <1>3, <1>4, <1>5, <1>6 DEF LoopInv

LEMMA DataCollectStep ==
  ASSUME LoopInv, IInv, DataCollect
  PROVE  LoopInv'
  <1>1. /\ UNCHANGED <<Aging_Pack, Temperature, LastTemperature, Temp_Cnt, same,
                       moved, age, answer, Asked>>
        /\ phase = "DataCollect" /\ phase' = "Read_AllTemp"
    BY DEF DataCollect, temps, Asked
  <1>2. collected \in Nat /\ collected' \in Nat /\ collected' <= collected + 1
    <2>1. collected \in Nat /\ CollectedCap \in Nat
      BY AlarmAssumption DEF IInv, TypeOK, CollectedCap
    <2>2. \/ collected' = CapTo(collected + 1, CollectedCap)
          \/ collected' = 0
      BY DEF DataCollect, CollectAlarms, Delay, Protection, NoClient
    <2>3. QED
      BY <2>1, <2>2 DEF CapTo
  <1>3. LoopTypes' /\ AgeInv'
    BY <1>1 DEF LoopInv, LoopTypes, AgeInv
  <1>4. CountInv'
    BY <1>1 DEF LoopInv, CountInv, Readings
  <1>5. MeetInv'
    <2>1. Temp_Cnt \in [Sensors -> Nat] /\ FreezeLimit \in Nat
      BY CollectAssumption DEF LoopInv, LoopTypes
    <2>2. SomeUnread' => collected' <= 1
      BY <1>1, <1>2 DEF LoopInv, MeetInv, SomeUnread
    <2>3. ~moved => \A i \in Sensors :
             /\ Behind(i, 2)
             /\ Temperature[i] = LastTemperature[i] \/ collected <= 1
      BY <1>1 DEF LoopInv, MeetInv
    <2>4. ~moved' => \A i \in Sensors :
             /\ Behind(i, 3)'
             /\ Temperature'[i] = LastTemperature'[i] \/ collected' <= 2
      BY <1>1, <1>2, <2>1, <2>3 DEF Behind
    <2>5. QED
      BY <1>1, <2>2, <2>4 DEF MeetInv
  <1>6. AnswerInv'
    BY <1>1 DEF LoopInv, AnswerInv
  <1> QED
    BY <1>3, <1>4, <1>5, <1>6 DEF LoopInv

LEMMA AgingPackStep ==
  ASSUME LoopInv, IInv, AgingPack
  PROVE  LoopInv'
  <1>1. /\ UNCHANGED <<Temperature, LastTemperature, Temp_Cnt, same, moved, age,
                       answer, collected>>
        /\ phase = "AgingPack" /\ phase' = "ReadTemp"
        /\ Aging_Pack' = 1 - Aging_Pack /\ Aging_Pack \in {0, 1}
    BY DEF AgingPack, temps, alarmVars, LoopInv, LoopTypes
  <1>2. /\ Asked \subseteq Sensors /\ Asked # {} /\ Asked' = Sensors \ Asked
        /\ Sensors \ Asked' = Asked
    BY <1>1, AskedFacts
  <1>3. LoopTypes'
    BY <1>1 DEF LoopInv, LoopTypes
  <1>4. AgeInv' /\ ~Unread'
    BY <1>1, <1>2 DEF LoopInv, AgeInv, Unread, Never
  <1>5. CountInv'
    BY <1>1, <1>2 DEF LoopInv, CountInv, Readings
  <1>6. MeetInv'
    BY <1>1, <1>4 DEF LoopInv, MeetInv, Behind, SomeUnread
  <1>7. AnswerInv'
    BY <1>1 DEF LoopInv, AnswerInv
  <1> QED
    BY <1>3, <1>4, <1>5, <1>6, <1>7 DEF LoopInv

LEMMA SystemResetStep ==
  ASSUME LoopInv, SystemReset
  PROVE  LoopInv'
  <1> USE CollectAssumption
  <1>1. /\ phase' = "ReadTemp" /\ Aging_Pack' = 0 /\ moved' = FALSE
        /\ Temperature' = [i \in Sensors |-> 0]
        /\ LastTemperature' = [i \in Sensors |-> 0]
        /\ Temp_Cnt' = [i \in Sensors |-> 0] /\ same' = [i \in Sensors |-> 0]
        /\ age' = [i \in Sensors |-> Never] /\ collected' = 0
    BY DEF SystemReset, ZeroTemps, Restart
  <1>2. LoopTypes' /\ AgeInv'
    <2>1. LoopTypes'
      <3>1. \A i \in Sensors : same'[i] = 0 /\ 0 <= FrozenReadings
        BY <1>1, FrozenFacts
      <3>2. /\ Temp_Cnt' \in [Sensors -> Nat] /\ same' \in [Sensors -> Nat]
            /\ age' \in [Sensors -> 0 .. Never]
        BY <1>1 DEF Never
      <3>3. QED
        BY <1>1, <3>1, <3>2 DEF LoopTypes
    <2>2. Unread'
      BY <1>1 DEF Unread
    <2>3. QED
      BY <1>1, <2>1, <2>2 DEF AgeInv
  <1>3. CountInv'
    BY <1>1, FrozenFacts DEF CountInv, Readings
  <1>4. 0 \in Sensors
    BY DEF Sensors, MAX_TEMP_NUM
  <1>5. MeetInv'
    BY <1>1, <1>4 DEF MeetInv, Behind
  <1>6. AnswerInv'
    BY <1>1 DEF AnswerInv
  <1> QED
    BY <1>2, <1>3, <1>5, <1>6 DEF LoopInv

LEMMA LoopInitInv == LoopInit => LoopInv
  <1> SUFFICES ASSUME LoopInit PROVE LoopInv
    OBVIOUS
  <1> USE CollectAssumption
  <1>1. /\ phase = "ReadTemp" /\ Aging_Pack = 0 /\ moved = FALSE
        /\ Temperature = [i \in Sensors |-> 0]
        /\ LastTemperature = [i \in Sensors |-> 0]
        /\ Temp_Cnt = [i \in Sensors |-> 0] /\ same = [i \in Sensors |-> 0]
        /\ age = [i \in Sensors |-> Never] /\ collected = 0
    BY DEF LoopInit, ZeroTemps, Init, InitAGESysParameter
  <1>2. LoopTypes /\ AgeInv
    <2>1. LoopTypes
      <3>1. \A i \in Sensors : same[i] = 0 /\ 0 <= FrozenReadings
        BY <1>1, FrozenFacts
      <3>2. /\ Temp_Cnt \in [Sensors -> Nat] /\ same \in [Sensors -> Nat]
            /\ age \in [Sensors -> 0 .. Never]
        BY <1>1 DEF Never
      <3>3. QED
        BY <1>1, <3>1, <3>2 DEF LoopTypes
    <2>2. Unread
      BY <1>1 DEF Unread
    <2>3. QED
      BY <1>1, <2>1, <2>2 DEF AgeInv
  <1>3. CountInv
    BY <1>1, FrozenFacts DEF CountInv, Readings
  <1>4. 0 \in Sensors
    BY DEF Sensors, MAX_TEMP_NUM
  <1>5. MeetInv
    BY <1>1, <1>4 DEF MeetInv, Behind
  <1>6. AnswerInv
    BY <1>1 DEF AnswerInv
  <1> QED
    BY <1>2, <1>3, <1>5, <1>6 DEF LoopInv

LEMMA ReadTempStep ==
  ASSUME LoopInv, IInv, ReadTemp
  PROVE  LoopInv'
  <1> USE CollectAssumption
  <1>1. PICK v \in [Asked -> Temps \cup {NoValue}] :
       LET t == [i \in Asked |-> Stored(i, v[i])] IN
        /\ answer' = [i \in Sensors |-> IF i \in Asked THEN v[i] ELSE answer[i]]
        /\ Temperature' =
               [i \in Sensors |-> IF i \in Asked THEN t[i] ELSE Temperature[i]]
        /\ same' = [i \in Sensors |->
                       CASE i \notin Asked -> same[i]
                         [] i \in Asked /\ t[i] # Temperature[i] -> 0
                         [] i \in Asked /\ t[i] = Temperature[i] ->
                                CapTo(same[i] + 1, FrozenReadings)]
        /\ moved' = (moved \/ \E i \in Asked : /\ age[i] # Never
                                               /\ t[i] # Temperature[i])
        /\ age' = [i \in Sensors |-> IF i \in Asked THEN 0
                                     ELSE CapTo(age[i] + 1, Never)]
    BY DEF ReadTemp
  <1> DEFINE t == [i \in Asked |-> Stored(i, v[i])]
  <1>0. /\ Temperature' =
               [i \in Sensors |-> IF i \in Asked THEN t[i] ELSE Temperature[i]]
        /\ same' = [i \in Sensors |->
                       CASE i \notin Asked -> same[i]
                         [] i \in Asked /\ t[i] # Temperature[i] -> 0
                         [] i \in Asked /\ t[i] = Temperature[i] ->
                                CapTo(same[i] + 1, FrozenReadings)]
        /\ moved' = (moved \/ \E i \in Asked : /\ age[i] # Never
                                               /\ t[i] # Temperature[i])
        /\ age' = [i \in Sensors |-> IF i \in Asked THEN 0
                                     ELSE CapTo(age[i] + 1, Never)]
    BY <1>1
  <1>10. AnswerInv'
    <2> SUFFICES ASSUME NEW i \in Sensors, age'[i] # Never,
                        answer'[i] # NoValue
                 PROVE  Temperature'[i] = answer'[i]
      BY DEF AnswerInv
    <2>1. CASE i \in Asked
      <3>1. answer'[i] = v[i] /\ t[i] = Stored(i, v[i])
        BY <1>1, <2>1
      <3>2. QED
        BY <1>0, <2>1, <3>1 DEF Stored
    <2>2. CASE i \notin Asked
      <3>1. answer'[i] = answer[i] /\ Temperature'[i] = Temperature[i]
        BY <1>1, <2>2
      <3>2. age'[i] = CapTo(age[i] + 1, Never) /\ age[i] \in 0 .. Never
        BY <1>1, <2>2 DEF LoopInv, LoopTypes
      <3>3. age[i] # Never
        BY <3>2 DEF CapTo, Never
      <3>4. QED
        BY <3>1, <3>3 DEF LoopInv, AnswerInv
    <2>3. QED
      BY <2>1, <2>2
  <1> HIDE DEF t
  <1>2. /\ phase = "ReadTemp" /\ phase' = "DataCollect"
        /\ UNCHANGED <<Aging_Pack, LastTemperature, Temp_Cnt, collected, Asked>>
    BY DEF ReadTemp, alarmVars, Asked
  <1>3. Asked \subseteq Sensors /\ Asked # {}
    BY AskedFacts DEF LoopInv, LoopTypes
  <1>4. /\ Temp_Cnt \in [Sensors -> Nat] /\ same \in [Sensors -> Nat]
        /\ age \in [Sensors -> 0 .. Never] /\ moved \in BOOLEAN
        /\ collected \in Nat
    BY AlarmAssumption DEF LoopInv, LoopTypes, IInv, TypeOK, CollectedCap
  <1>5. ASSUME NEW i \in Sensors
        PROVE  /\ Temperature'[i] = IF i \in Asked THEN t[i] ELSE Temperature[i]
               /\ age'[i] = IF i \in Asked THEN 0 ELSE CapTo(age[i] + 1, Never)
               /\ i \notin Asked => same'[i] = same[i]
               /\ i \in Asked /\ t[i] # Temperature[i] => same'[i] = 0
               /\ i \in Asked /\ t[i] = Temperature[i] =>
                     same'[i] = CapTo(same[i] + 1, FrozenReadings)
    <2>1. same'[i] = CASE i \notin Asked -> same[i]
                       [] i \in Asked /\ t[i] # Temperature[i] -> 0
                       [] i \in Asked /\ t[i] = Temperature[i] ->
                              CapTo(same[i] + 1, FrozenReadings)
      BY <1>0
    <2>2. CASE i \notin Asked
      BY <1>0, <2>1, <2>2
    <2>3. CASE i \in Asked /\ t[i] # Temperature[i]
      BY <1>0, <2>1, <2>3
    <2>4. CASE i \in Asked /\ t[i] = Temperature[i]
      BY <1>0, <2>1, <2>4
    <2>5. QED
      BY <2>2, <2>3, <2>4
  <1>6. LoopTypes'
    <2>1. \A i \in Sensors : same'[i] \in Nat /\ same'[i] <= FrozenReadings
      BY <1>4, <1>5, FrozenFacts DEF CapTo, LoopInv, LoopTypes
    <2>2. same' \in [Sensors -> Nat]
      BY <1>0, <2>1
    <2>3. age' \in [Sensors -> 0 .. Never]
      BY <1>0, <1>4 DEF CapTo, Never
    <2>4. moved' \in BOOLEAN
      BY <1>0
    <2>5. QED
      BY <1>0, <1>2, <2>1, <2>2, <2>3, <2>4 DEF LoopInv, LoopTypes
  <1>7. AgeInv'
    <2>1. \A i \in Asked : age'[i] = 0
      BY <1>3, <1>5
    <2>2. ASSUME NEW i \in Sensors \ Asked
          PROVE  age'[i] = 1 \/ (age'[i] = Never /\ ~moved')
      <3>1. CASE Unread /\ ~moved
        <4>1. age'[i] = Never
          BY <1>5, <3>1 DEF Unread, CapTo, Never
        <4>2. ~moved'
          BY <1>0, <1>3, <3>1 DEF Unread
        <4>3. QED
          BY <4>1, <4>2
      <3>2. CASE age[i] = 0
        BY <1>5, <3>2 DEF CapTo, Never
      <3>3. QED
        BY <1>2, <3>1, <3>2 DEF LoopInv, AgeInv
    <2>3. QED
      BY <1>2, <2>1, <2>2 DEF AgeInv
  <1>8. CountInv'
    <2>1. ASSUME NEW i \in Sensors
          PROVE  /\ i \notin Asked => Temperature'[i] = LastTemperature[i]
                 /\ Temperature'[i] = LastTemperature[i] =>
                       Readings(i, IF i \in Asked THEN Temp_Cnt[i] + 1
                                                  ELSE Temp_Cnt[i])'
      <3>1. /\ Temperature[i] = LastTemperature[i]
            /\ Readings(i, IF i \in Asked THEN Temp_Cnt[i] - 1 ELSE Temp_Cnt[i])
        BY <1>2 DEF LoopInv, CountInv
      <3>2. CASE i \notin Asked
        BY <1>2, <1>5, <3>1, <3>2 DEF Readings
      <3>3. CASE i \in Asked /\ t[i] = Temperature[i]
        <4>1. same'[i] = CapTo(same[i] + 1, FrozenReadings)
          BY <1>5, <3>3
        <4>2. same[i] = FrozenReadings \/ 2 * same[i] >= Temp_Cnt[i] - 1
          BY <3>1, <3>3 DEF Readings
        <4>3. same'[i] = FrozenReadings \/ 2 * same'[i] >= Temp_Cnt[i] + 1
          BY <1>4, <4>1, <4>2, FrozenFacts DEF CapTo
        <4>4. QED
          BY <1>2, <3>3, <4>3 DEF Readings
      <3>4. CASE i \in Asked /\ t[i] # Temperature[i]
        BY <1>5, <3>1, <3>4
      <3>5. QED
        BY <3>2, <3>3, <3>4
    <2>2. QED
      BY <1>2, <2>1 DEF CountInv
  <1>9. MeetInv'
    <2>1. SomeUnread' => Unread
      <3> SUFFICES ASSUME NEW i \in Sensors, age'[i] = Never PROVE Unread
        BY DEF SomeUnread
      <3>1. i \notin Asked /\ age[i] # 0
        BY <1>5 DEF CapTo, Never
      <3>2. QED
        BY <1>2, <3>1 DEF LoopInv, AgeInv
    <2>2. SomeUnread' => collected' = 0
      BY <1>2, <2>1 DEF LoopInv, MeetInv
    <2>3. ASSUME ~moved', NEW i \in Sensors
          PROVE  /\ Behind(i, 2)'
                 /\ Temperature'[i] = LastTemperature[i] \/ collected <= 1
      <3>1. ~moved /\ \A k \in Asked : age[k] # Never => t[k] = Temperature[k]
        BY <1>0, <2>3
      <3>2. Behind(i, 2)'
        BY <1>2, <3>1 DEF LoopInv, MeetInv, Behind
      <3>3. Temperature[i] = LastTemperature[i]
        BY <1>2 DEF LoopInv, CountInv
      <3>4. CASE age[i] = Never
        <4>1. collected <= 1
          BY <3>4 DEF LoopInv, MeetInv, SomeUnread
        <4>2. QED
          BY <3>2, <4>1
      <3>5. CASE age[i] # Never
        BY <1>5, <3>1, <3>2, <3>3, <3>5
      <3>6. QED
        BY <3>4, <3>5
    <2>4. \E i \in Sensors : Temp_Cnt'[i] < FreezeLimit
      BY <1>2 DEF LoopInv, MeetInv
    <2>5. QED
      BY <1>2, <1>4, <2>2, <2>3, <2>4 DEF MeetInv
  <1> QED
    BY <1>6, <1>7, <1>8, <1>9, <1>10 DEF LoopInv

LEMMA Read_AllTempStep ==
  ASSUME LoopInv, IInv, Read_AllTemp
  PROVE  LoopInv'
  <1> USE CollectAssumption
  <1>1. /\ phase = "Read_AllTemp" /\ phase' = "AgingPack" /\ ~Frozen
        /\ Temp_Cnt' = [i \in Sensors |-> TempCnt(i)]
        /\ LastTemperature' = Temperature'
        /\ UNCHANGED <<Aging_Pack, collected, same, age, moved, answer, Asked>>
    BY DEF Read_AllTemp, alarmVars, Asked
  <1>2. Temperature' = [i \in Sensors |-> Temperature[i]]
    BY DEF Read_AllTemp
  <1>3. /\ Temp_Cnt \in [Sensors -> Nat] /\ same \in [Sensors -> Nat]
        /\ collected \in Nat
    BY AlarmAssumption DEF LoopInv, LoopTypes, IInv, TypeOK, CollectedCap
  <1>4. ASSUME NEW i \in Sensors
        PROVE  /\ TempCnt(i) \in Nat
               /\ Temperature[i] = LastTemperature[i] =>
                     TempCnt(i) = IF Temp_Cnt[i] + 1 > FreezeLimit
                                  THEN FreezeLimit ELSE Temp_Cnt[i] + 1
               /\ Temperature[i] # LastTemperature[i] => TempCnt(i) = 0
               /\ Temp_Cnt'[i] = TempCnt(i)
    BY <1>1, <1>3 DEF TempCnt, CapTo
  <1>5. LoopTypes'
    <2>1. Temp_Cnt' \in [Sensors -> Nat]
      BY <1>1, <1>4
    <2>2. QED
      BY <1>1, <1>2, <2>1 DEF LoopInv, LoopTypes
  <1>6. AgeInv'
    BY <1>1 DEF LoopInv, AgeInv
  <1>7. CountInv'
    <2>1. ASSUME NEW i \in Sensors
          PROVE  Readings(i, IF i \in Asked THEN Temp_Cnt[i]
                                            ELSE Temp_Cnt[i] - 1)'
      <3>1. CASE Temperature[i] = LastTemperature[i]
        <4>1. Readings(i, IF i \in Asked THEN Temp_Cnt[i] + 1 ELSE Temp_Cnt[i])
          BY <1>1, <3>1 DEF LoopInv, CountInv
        <4>2. Temp_Cnt'[i] \in Nat /\ Temp_Cnt'[i] <= Temp_Cnt[i] + 1
          BY <1>3, <1>4, <3>1
        <4>3. QED
          BY <1>1, <1>3, <4>1, <4>2 DEF Readings
      <3>2. CASE Temperature[i] # LastTemperature[i]
        <4>1. Temp_Cnt'[i] = 0
          BY <1>4, <3>2
        <4>2. QED
          BY <1>1, <1>3, <4>1 DEF Readings
      <3>3. QED
        BY <3>1, <3>2
    <2>2. QED
      BY <1>1, <2>1 DEF CountInv
  <1>8. MeetInv'
    <2>1. \E i \in Sensors : Temp_Cnt'[i] < FreezeLimit
      BY <1>1, <1>4 DEF Frozen
    <2>2. ASSUME ~moved, NEW i \in Sensors
          PROVE  Behind(i, 2)'
      <3>1. /\ Behind(i, 3)
            /\ Temperature[i] = LastTemperature[i] \/ collected <= 2
        BY <1>1, <2>2 DEF LoopInv, MeetInv
      <3>2. CASE Temperature[i] = LastTemperature[i]
        BY <1>1, <1>3, <1>4, <3>1, <3>2 DEF Behind
      <3>3. CASE Temperature[i] # LastTemperature[i]
        BY <1>1, <1>3, <1>4, <3>1, <3>3 DEF Behind
      <3>4. QED
        BY <3>2, <3>3
    <2>3. SomeUnread' => collected' <= 1
      BY <1>1 DEF LoopInv, MeetInv, SomeUnread
    <2>4. QED
      BY <1>1, <2>1, <2>2, <2>3 DEF MeetInv
  <1>9. AnswerInv'
    BY <1>1, <1>2 DEF LoopInv, AnswerInv
  <1> QED
    BY <1>5, <1>6, <1>7, <1>8, <1>9 DEF LoopInv

LEMMA LoopInvariant == LoopSpec => [](LoopInv /\ IInv)
  <1>1. LoopInv /\ IInv /\ [LoopNext]_loopVars => LoopInv'
    BY OthersStep, ReadTempStep, DataCollectStep, Read_AllTempStep,
       SystemResetStep, AgingPackStep DEF LoopNext, Task
  <1> QED
    BY <1>1, LoopInitInv, LoopIInv, PTL DEF LoopSpec

\* Every packet has what the bus yielded for one half in this turn and for the
\* other in the turn before; where that was no value, an older temperature.
THEOREM HalvesFresh == LoopSpec => []FreshHalves
  <1>1. LoopInv => FreshHalves
    BY DEF LoopInv, AgeInv, AnswerInv, FreshHalves
  <1> QED
    BY <1>1, LoopInvariant, PTL

\* A restart by Read_AllTemp means that every sensor yielded one value in its
\* last FrozenReadings readings.
THEOREM RestartsWhenFrozen == LoopSpec => RestartOnlyWhenFrozen
  <1>1. ASSUME LoopInv, SystemReset, NEW i \in Sensors
        PROVE  same[i] = FrozenReadings
    <2> USE CollectAssumption
    <2>1. /\ Temp_Cnt[i] \in Nat /\ same[i] \in Nat /\ same[i] <= FrozenReadings
          /\ phase = "Read_AllTemp" /\ TempCnt(i) >= FreezeLimit
      BY <1>1 DEF LoopInv, LoopTypes, SystemReset, Frozen
    <2>2. Temperature[i] = LastTemperature[i] /\ Temp_Cnt[i] + 1 >= FreezeLimit
      BY <2>1 DEF TempCnt, CapTo
    <2>3. same[i] = FrozenReadings \/ 2 * same[i] >= Temp_Cnt[i]
      BY <1>1, <2>1, <2>2 DEF LoopInv, CountInv, Readings
    <2>4. QED
      BY <2>1, <2>2, <2>3, FrozenFacts
  <1>2. LoopInv /\ [LoopNext]_loopVars =>
           [SystemReset => \A i \in Sensors : same[i] = FrozenReadings]_loopVars
    BY <1>1
  <1> QED
    BY <1>2, LoopInvariant, PTL DEF LoopSpec, RestartOnlyWhenFrozen

\* The two limits against each other: where the start-up delay and the debounce
\* take at least two collections more than the count of equal temperatures, as
\* they do with the values of the code (10 + 3 - 1 and 10 + 2), the power is
\* cut only after some reading has moved.
THEOREM CutAfterMove ==
  ASSUME FreezeLimit + 2 <= Protect + Confirm - 1
  PROVE  LoopSpec => []CutNeedsMovingSensor
  <1>1. LoopInv /\ IInv => CutNeedsMovingSensor
    <2> SUFFICES ASSUME LoopInv, IInv, SysPower = 1, phase # "Read_AllTemp"
                 PROVE  moved
      BY DEF CutNeedsMovingSensor
    <2> USE CollectAssumption, AlarmAssumption
    <2>1. collected >= Protect + Confirm - 1 /\ collected \in Nat
      BY IInvNoEarlyCut DEF NoEarlyCut, IInv, TypeOK, CollectedCap
    <2>2. PICK i \in Sensors : Temp_Cnt[i] < FreezeLimit
      BY DEF LoopInv, MeetInv
    <2>3. Temp_Cnt[i] \in Nat
      BY DEF LoopInv, LoopTypes
    <2>4. ~Behind(i, 2)
      BY <2>1, <2>2, <2>3 DEF Behind
    <2>5. QED
      BY <2>4 DEF LoopInv, MeetInv
  <1> QED
    BY <1>1, LoopInvariant, PTL
=============================================================================

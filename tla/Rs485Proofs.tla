----------------------------- MODULE Rs485Proofs -----------------------------
(***************************************************************************)
(* What TLAPS proves of Rs485, for every number of sensors and layout of   *)
(* an answer: while the task waits, the next byte will be taken; and, with *)
(* a channel programmed for one byte more than an answer has, as the code  *)
(* programs it, a stored temperature is of one answer and at most two      *)
(* requests old.                                                           *)
(***************************************************************************)
EXTENDS Rs485, TLAPS

\* The types, the sensor ReadTemp asks and the direction of the transceiver.
BusTypes ==
    /\ TypeOK
    /\ driving <=> pc = "transmit"
    /\ pc # "done" => Temp_Index < (IF Aging_Pack = 0 THEN Half ELSE MAX_TEMP_NUM)

\* Where the channel stores the next byte.
Pos == DmaLen - chan

\* The channel is at the end of Re_Buff, one before it or at its front: it has
\* received an answer, the first byte of another, or nothing.
Resting == chan \in {0, 1, DmaLen}

\* No byte will be fetched.
Closed == ~DENR \/ chan = 0

\* Outside the wait reception is off; a wait begins with the channel at rest
\* and the bus silent, and then follows one answer, aligned with Re_Buff or
\* ending the channel with its first byte.
ChannelInv ==
    /\ pc \in {"send", "next", "done"} =>
           Resting /\ ~ftf /\ (Closed \/ (pending = None /\ wire = None))
    /\ pc = "transmit" => Resting /\ ~ftf /\ ~DENR /\ wire = None /\ RT_Flag = 0
    /\ pc = "wait" /\ RT_Flag = 1 => Resting /\ ~ftf /\ Closed
    /\ pc = "wait" /\ RT_Flag = 0 /\ ftf => DENR /\ chan = 0 /\ wire # None
    /\ pc = "wait" /\ RT_Flag = 0 /\ ~ftf =>
           /\ DENR /\ chan > 0
           /\ IF wire = None THEN Resting ELSE wire = Pos \/ (wire = 0 /\ chan = 1)

\* The two bytes of a value are of one answer except while it comes in.
ValueInv ==
    IF HighByte < Pos /\ Pos <= LowByte
    THEN Re_Buff[HighByte] = wireAge
    ELSE Re_Buff[HighByte] = Re_Buff[LowByte]

\* The argument holds until a time-out of an earlier answer strikes while a
\* request is sent, or a byte that nobody takes stops the program.
SyncInv ==
    /\ ~late /\ ~rbne => ChannelInv /\ ValueInv
    /\ ValueOfOneAnswer

\* How old the value in Re_Buff is: an answer is followed by a wait that ends
\* with the first byte of the next one, and that by a wait that the time-out
\* of the cut-off answer may end.
Age == Re_Buff[HighByte]
AgeInv ==
    /\ pc = "wait" =>
        /\ pending \in {0, None} /\ (wire # None => wireAge = 0)
        /\ chan = DmaLen /\ (silence \/ RT_Flag = 1) => (known => Age <= 2)
        /\ chan = 1 => Age <= 1 /\ (silence \/ RT_Flag = 1 => Age = 0)
        /\ chan = 0 => Age <= 1
        /\ ~Resting /\ HighByte < Pos => Age = 0
        /\ RT_Flag = 1 /\ chan \in {1, DmaLen} => ~silence
    /\ pc \in {"next", "send", "done"} =>
        /\ chan = 1 => Age = 0
        /\ chan = 0 => Age <= 1
        /\ chan \in {1, DmaLen} => ~silence
    /\ pc = "transmit" =>
        /\ chan = 1 => Age <= 1
        /\ chan = 0 => Age <= 2
        /\ chan \in {1, DmaLen} => ~silence

FreshInv ==
    /\ ~late /\ ~rbne /\ ~lost => AgeInv
    /\ AtMostTwoBack
-----------------------------------------------------------------------------
\* A request more makes an age at most one more.
LEMMA OlderAge ==
    ASSUME NEW a \in Ages
    PROVE  Older(a) \in Ages /\ Older(a) <= a + 1
  BY Rs485Assumption DEF Older, Ages

LEMMA TypesInit == Init => BusTypes
  BY Rs485Assumption DEF Init, BusTypes, TypeOK, MAX_TEMP_NUM, Ages, None

LEMMA TypesStep == BusTypes /\ [Next]_vars => BusTypes'
  <1> SUFFICES ASSUME BusTypes, [Next]_vars PROVE BusTypes'
    OBVIOUS
  <1> USE Rs485Assumption DEF BusTypes, TypeOK
  <1>1. CASE SendRequest
    <2>1. Re_Buff' \in [0 .. DmaLen - 1 -> Ages]
      BY <1>1, OlderAge DEF SendRequest
    <2>2. pending' \in Ages \cup {None}
      BY <1>1, OlderAge DEF SendRequest
    <2> QED
      BY <1>1, <2>1, <2>2 DEF SendRequest, hist
  <1>2. CASE TransmitComplete
    <2>1. chan' \in 0 .. DmaLen
      BY <1>2 DEF TransmitComplete, EnableChannel
    <2>2. pending' \in Ages \cup {None} /\ mute' \in BOOLEAN /\ lost' \in BOOLEAN
      <3>1. 0 \in Ages
        BY DEF Ages
      <3>2. CASE pending' = 0 /\ UNCHANGED <<mute, lost>>
        BY <3>1, <3>2
      <3>3. CASE pending' \in {None, pending} /\ mute' = TRUE /\ lost' = TRUE
        BY <3>3
      <3> QED
        BY <1>2, <3>2, <3>3 DEF TransmitComplete
    <2> QED
      BY <1>2, <2>1, <2>2 DEF TransmitComplete
  <1>3. CASE StoreAnswer
    <2>1. HighByte \in 0 .. DmaLen - 1 /\ LowByte \in 0 .. DmaLen - 1
      OBVIOUS
    <2>2. stored' \in {<<>>} \cup (Ages \X Ages) /\ Re_Flag' \in {0, 1}
      BY <1>3, <2>1 DEF StoreAnswer
    <2> QED
      BY <1>3, <2>2 DEF StoreAnswer, bus, hist
  <1>4. CASE NextSensor
    BY <1>4 DEF NextSensor, bus, hist, MAX_TEMP_NUM
  <1>5. CASE NextRound
    BY <1>5 DEF NextRound, bus, hist, MAX_TEMP_NUM
  <1>6. CASE DmaIrq
    BY <1>6 DEF DmaIrq, task, bus, hist
  <1>7. CASE TimeoutIrq
    BY <1>7 DEF TimeoutIrq, task, bus
  <1>8. CASE AnswerStarts
    <2>1. wireAge' \in Ages /\ wire' \in 0 .. AnswerLen - 1 \cup {None}
      BY <1>8 DEF AnswerStarts
    <2> QED
      BY <1>8, <2>1 DEF AnswerStarts, task, hist
  <1>9. CASE ByteArrives
    <2>1. wire' \in 0 .. AnswerLen - 1 \cup {None}
      BY <1>9 DEF ByteArrives, None
    <2>2. CASE DENR /\ chan > 0
      <3>1. Re_Buff' = [Re_Buff EXCEPT ![DmaLen - chan] = wireAge]
        BY <1>9, <2>2 DEF ByteArrives
      <3>2. Re_Buff' \in [0 .. DmaLen - 1 -> Ages]
        BY <3>1
      <3>3. chan' \in 0 .. DmaLen
        BY <1>9, <2>2 DEF ByteArrives
      <3>4. known' \in BOOLEAN /\ ftf' \in BOOLEAN /\ rbne' = rbne
        BY <1>9, <2>2 DEF ByteArrives
      <3> QED
        BY <1>9, <2>1, <3>2, <3>3, <3>4 DEF ByteArrives, task, hist
    <2>3. CASE ~(DENR /\ chan > 0)
      BY <1>9, <2>1, <2>3 DEF ByteArrives, task, hist
    <2> QED
      BY <2>2, <2>3
  <1>10. CASE UNCHANGED vars
    BY <1>10 DEF vars, task, bus, hist
  <1> QED
    BY <1>1, <1>2, <1>3, <1>4, <1>5, <1>6, <1>7, <1>8, <1>9, <1>10
       DEF Next, Task, Irq, Sensor

\* The state keeps its types: ReadTemp asks sensors that exist, and the channel
\* stores within Re_Buff.
THEOREM Rs485TypeCorrect == Spec => []TypeOK
  <1>1. BusTypes => TypeOK
    BY DEF BusTypes
  <1> QED
    BY <1>1, TypesInit, TypesStep, PTL DEF Spec

\* While MAX485_SendData waits and no interrupt is due, reception is on and
\* the channel has room: no interrupt of an earlier answer switches off the
\* reception of this one without waking the task.
THEOREM WaitCanEnd == Spec => []ReadyToReceive
  <1>1. Init => ReadyToReceive
    BY DEF Init, ReadyToReceive
  <1>2. BusTypes /\ ReadyToReceive /\ [Next]_vars => ReadyToReceive'
    <2> SUFFICES ASSUME BusTypes, ReadyToReceive, [Next]_vars PROVE ReadyToReceive'
      OBVIOUS
    <2> USE DEF ReadyToReceive
    <2>1. CASE SendRequest \/ StoreAnswer \/ NextSensor \/ NextRound
      BY <2>1 DEF SendRequest, StoreAnswer, NextSensor, NextRound
    <2>2. CASE TransmitComplete
      BY <2>2, Rs485Assumption DEF TransmitComplete, EnableChannel, BusTypes, TypeOK
    <2>3. CASE DmaIrq \/ TimeoutIrq
      BY <2>3 DEF DmaIrq, TimeoutIrq
    <2>4. CASE AnswerStarts
      BY <2>4 DEF AnswerStarts, task
    <2>5. CASE ByteArrives
      BY <2>5 DEF ByteArrives, task, BusTypes, TypeOK
    <2>6. CASE UNCHANGED vars
      BY <2>6 DEF vars, task
    <2> QED
      BY <2>1, <2>2, <2>3, <2>4, <2>5, <2>6 DEF Next, Task, Irq, Sensor
  <1> QED
    BY <1>1, <1>2, TypesInit, TypesStep, PTL DEF Spec
-----------------------------------------------------------------------------
\* At rest, the channel is not between the two bytes of a value.
LEMMA RestingPos ==
    ASSUME BusTypes, Resting, DmaLen = AnswerLen + 1
    PROVE  ~(HighByte < Pos /\ Pos <= LowByte)
  BY Rs485Assumption DEF BusTypes, TypeOK, Resting, Pos

LEMMA SyncInit == Init => SyncInv
  BY Rs485Assumption DEF Init, SyncInv, ChannelInv, ValueInv, ValueOfOneAnswer,
     Resting, Closed, Pos

\* What the steps that leave Re_Buff alone do to the value it holds.
LEMMA ValueKept ==
    ASSUME ValueInv, UNCHANGED Re_Buff, chan' = chan \/ (Resting /\ Resting'),
           wireAge' = wireAge \/ (Resting /\ Resting'),
           BusTypes, BusTypes', DmaLen = AnswerLen + 1
    PROVE  ValueInv'
  <1>1. CASE Resting /\ Resting'
    <2>1. ~(HighByte < Pos /\ Pos <= LowByte)
      BY <1>1, RestingPos
    <2>2. ~(HighByte < Pos' /\ Pos' <= LowByte)
      BY <1>1, Rs485Assumption DEF BusTypes, TypeOK, Resting, Pos
    <2> QED
      BY <2>1, <2>2 DEF ValueInv
  <1>2. CASE chan' = chan /\ wireAge' = wireAge
    BY <1>2 DEF ValueInv, Pos
  <1> QED
    BY <1>1, <1>2

\* A byte that is taken: the task waits, no interrupt is due, and the byte is
\* the next one of an answer aligned with Re_Buff or the first of one that
\* finds the channel at its last byte.
LEMMA ByteTaken ==
    ASSUME DmaLen = AnswerLen + 1, BusTypes, ChannelInv, ByteArrives, ~rbne'
    PROVE  /\ pc = "wait" /\ RT_Flag = 0 /\ chan > 0 /\ wire \in 0 .. AnswerLen - 1
           /\ wire = Pos \/ (wire = 0 /\ chan = 1)
           /\ pc' = "wait" /\ RT_Flag' = 0 /\ DENR' /\ chan' = chan - 1
           /\ wireAge' = wireAge /\ (ftf' <=> chan = 1) /\ Pos' = Pos + 1
           /\ wire' = IF wire + 1 = AnswerLen THEN None ELSE wire + 1
           /\ Re_Buff'[HighByte] = IF HighByte = Pos THEN wireAge
                                   ELSE Re_Buff[HighByte]
           /\ Re_Buff'[LowByte] = IF LowByte = Pos THEN wireAge
                                  ELSE Re_Buff[LowByte]
  <1> USE Rs485Assumption
  <1>1. chan \in 0 .. DmaLen /\ HighByte \in 0 .. DmaLen - 1
        /\ LowByte \in 0 .. DmaLen - 1
    BY DEF BusTypes, TypeOK
  <1>2. DENR /\ chan > 0
    BY DEF ByteArrives
  <1>3. /\ pc = "wait" /\ RT_Flag = 0 /\ ~ftf
        /\ wire = Pos \/ (wire = 0 /\ chan = 1)
    BY <1>1, <1>2 DEF ByteArrives, ChannelInv, Closed, BusTypes, TypeOK
  <1>4. /\ pc' = "wait" /\ RT_Flag' = 0 /\ DENR' /\ chan' = chan - 1
        /\ wireAge' = wireAge /\ (ftf' <=> chan = 1)
        /\ wire' = IF wire + 1 = AnswerLen THEN None ELSE wire + 1
        /\ Re_Buff' = [Re_Buff EXCEPT ![DmaLen - chan] = wireAge]
    BY <1>2, <1>3 DEF ByteArrives, task
  <1>5. wire \in 0 .. AnswerLen - 1
    BY DEF ByteArrives, BusTypes, TypeOK
  <1>6. Pos \in 0 .. DmaLen - 1 /\ Pos' = Pos + 1
    BY <1>1, <1>2, <1>4 DEF Pos
  <1>7. /\ Re_Buff'[HighByte] = IF HighByte = Pos THEN wireAge
                                ELSE Re_Buff[HighByte]
        /\ Re_Buff'[LowByte] = IF LowByte = Pos THEN wireAge
                               ELSE Re_Buff[LowByte]
    BY <1>1, <1>4, <1>6 DEF BusTypes, TypeOK, Pos
  <1> QED
    BY <1>2, <1>3, <1>4, <1>5, <1>6, <1>7

LEMMA SyncStep ==
    ASSUME DmaLen = AnswerLen + 1, SyncInv, BusTypes, BusTypes', [Next]_vars
    PROVE  SyncInv'
  <1> USE Rs485Assumption
  <1>1. CASE UNCHANGED vars
    BY <1>1 DEF vars, task, bus, hist, SyncInv, ChannelInv, ValueInv,
       ValueOfOneAnswer, Resting, Closed, Pos
  <1> SUFFICES ASSUME Next PROVE SyncInv'
    BY <1>1
  <1>2. ~rbne
    BY DEF Next
  <1>3. CASE late
    <2>1. late'
      BY <1>3 DEF Next, Task, Irq, Sensor, SendRequest, TransmitComplete,
         StoreAnswer, NextSensor, NextRound, DmaIrq, TimeoutIrq, AnswerStarts,
         ByteArrives, hist
    <2> QED
      BY <2>1 DEF SyncInv, ValueOfOneAnswer
  <1> SUFFICES ASSUME ~late PROVE SyncInv'
    BY <1>3
  <1>4. ChannelInv /\ ValueInv /\ (stored # <<>> => stored[1] = stored[2])
    BY <1>2 DEF SyncInv, ValueOfOneAnswer
  <1>5. chan \in 0 .. DmaLen /\ HighByte \in 0 .. DmaLen - 1
        /\ LowByte \in 0 .. DmaLen - 1
    BY DEF BusTypes, TypeOK
  <1>6. ASSUME ~late' /\ ~rbne' => ChannelInv' /\ ValueInv', stored' = stored
        PROVE  SyncInv'
    BY <1>4, <1>6 DEF SyncInv, ValueOfOneAnswer
  <1>7. CASE SendRequest
    <2>1. ChannelInv'
      BY <1>4, <1>7 DEF ChannelInv, SendRequest, Resting, Closed
    <2>2. Re_Buff'[HighByte] = Older(Re_Buff[HighByte])
          /\ Re_Buff'[LowByte] = Older(Re_Buff[LowByte])
      BY <1>5, <1>7 DEF SendRequest
    <2>3. Resting /\ chan' = chan
      BY <1>4, <1>7 DEF ChannelInv, SendRequest
    <2>4. ~(HighByte < Pos /\ Pos <= LowByte) /\ Pos' = Pos
      BY <2>3, RestingPos DEF Pos
    <2>5. ValueInv'
      BY <1>4, <2>2, <2>4 DEF ValueInv
    <2> QED
      BY <1>6, <1>7, <2>1, <2>5 DEF SendRequest
  <1>8. CASE TransmitComplete
    <2>1. Resting /\ ~ftf /\ wire = None /\ RT_Flag = 0
      BY <1>4, <1>8 DEF ChannelInv, TransmitComplete
    <2>2. Resting' /\ chan' > 0
      BY <1>5, <1>8, <2>1 DEF TransmitComplete, EnableChannel, Resting
    <2>3. ChannelInv'
      BY <1>8, <2>1, <2>2 DEF TransmitComplete, ChannelInv
    <2>4. ValueInv'
      BY <1>4, <1>8, <2>1, <2>2, ValueKept DEF TransmitComplete
    <2> QED
      BY <1>6, <1>8, <2>3, <2>4 DEF TransmitComplete
  <1>9. CASE StoreAnswer
    <2>1. Resting /\ ~ftf /\ Closed
      BY <1>4, <1>9 DEF ChannelInv, StoreAnswer
    <2>2. ChannelInv'
      BY <1>9, <2>1 DEF StoreAnswer, ChannelInv, Resting, Closed, bus
    <2>3. ValueInv'
      BY <1>4, <1>9, ValueKept DEF StoreAnswer, bus
    <2>4. Re_Buff[HighByte] = Re_Buff[LowByte]
      BY <1>4, <2>1, RestingPos DEF ValueInv
    <2>5. stored' # <<>> => stored'[1] = stored'[2]
      BY <1>4, <1>9, <2>4 DEF StoreAnswer
    <2> QED
      BY <2>2, <2>3, <2>5 DEF SyncInv, ValueOfOneAnswer
  <1>10. CASE NextSensor \/ NextRound
    <2>1. ChannelInv'
      BY <1>4, <1>10 DEF NextSensor, NextRound, ChannelInv, Resting, Closed, bus
    <2>2. ValueInv'
      BY <1>4, <1>10, ValueKept DEF NextSensor, NextRound, bus
    <2> QED
      BY <1>6, <1>10, <2>1, <2>2 DEF NextSensor, NextRound
  <1>11. CASE DmaIrq
    <2>1. pc = "wait" /\ RT_Flag = 0 /\ chan = 0
      BY <1>4, <1>11 DEF DmaIrq, ChannelInv, BusTypes, TypeOK
    <2>2. ChannelInv'
      BY <1>11, <2>1 DEF DmaIrq, ChannelInv, Resting, Closed, task
    <2>3. ValueInv'
      BY <1>4, <1>11, ValueKept DEF DmaIrq, bus
    <2> QED
      BY <1>6, <1>11, <2>2, <2>3 DEF DmaIrq, task
  <1>12. CASE TimeoutIrq
    <2>1. late' \/ (Resting /\ ~ftf /\ pc # "transmit")
      BY <1>4, <1>12 DEF TimeoutIrq, ChannelInv, BusTypes, TypeOK
    <2>2. late' \/ ChannelInv'
      BY <1>12, <2>1 DEF TimeoutIrq, ChannelInv, Resting, Closed, task, bus
    <2>3. ValueInv'
      BY <1>4, <1>12, ValueKept DEF TimeoutIrq, bus
    <2> QED
      BY <1>6, <1>12, <2>2, <2>3 DEF TimeoutIrq, task
  <1>13. CASE AnswerStarts
    <2>1. Resting /\ ~ftf /\ pc # "transmit" /\ Resting'
      BY <1>4, <1>13 DEF AnswerStarts, ChannelInv, BusTypes, TypeOK, Resting
    <2>2. ChannelInv'
      BY <1>4, <1>5, <1>13, <2>1
         DEF AnswerStarts, ChannelInv, Resting, Closed, Pos, task, None
    <2>3. ValueInv'
      BY <1>4, <1>13, <2>1, ValueKept DEF AnswerStarts
    <2> QED
      BY <1>6, <1>13, <2>2, <2>3 DEF AnswerStarts, task
  <1>14. CASE ByteArrives
    <2>1. stored' = stored
      BY <1>14 DEF ByteArrives, task
    <2>2. CASE rbne'
      BY <1>6, <2>1, <2>2
    <2>3. CASE ~rbne'
      <3>1. /\ chan > 0 /\ wire \in 0 .. AnswerLen - 1
            /\ wire = Pos \/ (wire = 0 /\ chan = 1)
            /\ pc' = "wait" /\ RT_Flag' = 0 /\ DENR' /\ chan' = chan - 1
            /\ wireAge' = wireAge /\ (ftf' <=> chan = 1) /\ Pos' = Pos + 1
            /\ wire' = IF wire + 1 = AnswerLen THEN None ELSE wire + 1
            /\ Re_Buff'[HighByte] = IF HighByte = Pos THEN wireAge
                                    ELSE Re_Buff[HighByte]
            /\ Re_Buff'[LowByte] = IF LowByte = Pos THEN wireAge
                                   ELSE Re_Buff[LowByte]
        BY <1>4, <1>14, <2>3, ByteTaken
      <3>2. ValueInv'
        BY <1>4, <1>5, <3>1 DEF ValueInv, Pos
      <3>3. CASE wire = 0 /\ chan = 1
        <4>1. wire' # None
          BY <3>1, <3>3 DEF None
        <4> QED
          BY <1>6, <2>1, <3>1, <3>2, <3>3, <4>1 DEF ChannelInv
      <3>4. CASE wire = Pos
        <4>1. chan' > 0 /\ ~ftf'
          BY <1>5, <3>1, <3>4 DEF Pos
        <4>2. IF wire' = None THEN chan' = 1 ELSE wire' = Pos'
          BY <1>5, <3>1, <3>4 DEF Pos, None
        <4>3. ChannelInv'
          BY <3>1, <4>1, <4>2 DEF ChannelInv, Resting
        <4> QED
          BY <1>6, <2>1, <3>2, <4>3
      <3> QED
        BY <3>1, <3>3, <3>4
    <2> QED
      BY <2>2, <2>3
  <1> QED
    BY <1>7, <1>8, <1>9, <1>10, <1>11, <1>12, <1>13, <1>14
       DEF Next, Task, Irq, Sensor

\* With the channel programmed for one byte more than an answer has (8 and 7 in
\* the code), the two bytes of a temperature ReadTemp stores come from one
\* answer, unless a left-over time-out struck while a request was being sent.
THEOREM ValueWhole ==
    ASSUME DmaLen = AnswerLen + 1
    PROVE  Spec => []ValueOfOneAnswer
  <1>1. SyncInv /\ BusTypes /\ BusTypes' /\ [Next]_vars => SyncInv'
    BY SyncStep
  <1>2. SyncInv => ValueOfOneAnswer
    BY DEF SyncInv
  <1> QED
    BY <1>1, <1>2, SyncInit, TypesInit, TypesStep, PTL DEF Spec
-----------------------------------------------------------------------------
LEMMA FreshInit == Init => FreshInv
  BY Rs485Assumption DEF Init, FreshInv, AgeInv, AtMostTwoBack, Resting

\* The age of the value in Re_Buff and the states in which it is read.
LEMMA FreshStep ==
    ASSUME DmaLen = AnswerLen + 1, SyncInv, FreshInv, BusTypes, BusTypes',
           [Next]_vars
    PROVE  FreshInv'
  <1> USE Rs485Assumption
  <1>1. CASE UNCHANGED vars
    BY <1>1 DEF vars, task, bus, hist, FreshInv, AgeInv, AtMostTwoBack, Age,
       Resting, Pos
  <1> SUFFICES ASSUME Next PROVE FreshInv'
    BY <1>1
  <1>2. ~rbne
    BY DEF Next
  <1>3. CASE late \/ lost
    <2> USE DEF Next, Task, Irq, Sensor, SendRequest, TransmitComplete, StoreAnswer,
            NextSensor, NextRound, DmaIrq, TimeoutIrq, AnswerStarts, ByteArrives, hist
    <2>1. late => late'
      OBVIOUS
    <2>2. lost => lost'
      <3>1. CASE TransmitComplete
        BY <3>1
      <3>2. CASE ~TransmitComplete
        BY <3>2
      <3> QED
        BY <3>1, <3>2
    <2> QED
      BY <1>3, <2>1, <2>2 DEF FreshInv, AtMostTwoBack
  <1> SUFFICES ASSUME ~late, ~lost PROVE FreshInv'
    BY <1>3
  <1>4. ChannelInv /\ AgeInv /\ (stored # <<>> => stored[1] <= 2)
    BY <1>2 DEF SyncInv, FreshInv, AtMostTwoBack
  <1>5. chan \in 0 .. DmaLen /\ Age \in Ages
    BY DEF BusTypes, TypeOK, Age
  <1>6. ASSUME ~late' /\ ~rbne' /\ ~lost' => AgeInv', stored' = stored
        PROVE  FreshInv'
    BY <1>4, <1>6 DEF FreshInv, AtMostTwoBack
  <1>7. CASE SendRequest
    <2>1. Age' = Older(Age)
      BY <1>7 DEF SendRequest, Age
    <2>2. Age' <= Age + 1 /\ Age' \in Nat /\ Age \in Nat
      BY <1>5, <2>1, OlderAge DEF Ages
    <2>3. AgeInv'
      BY <1>4, <1>7, <2>2 DEF SendRequest, AgeInv
    <2> QED
      BY <1>6, <1>7, <2>3 DEF SendRequest
  <1>8. CASE TransmitComplete
    <2>1. Resting /\ wire = None /\ RT_Flag = 0 /\ Age' = Age
      BY <1>4, <1>8 DEF ChannelInv, TransmitComplete, Age
    <2>2. lost' \/ pending' = 0
      BY <1>8 DEF TransmitComplete
    <2>3. lost' \/ AgeInv'
      BY <1>4, <1>5, <1>8, <2>1, <2>2
         DEF TransmitComplete, EnableChannel, AgeInv, Resting, Ages
    <2> QED
      BY <1>6, <1>8, <2>3 DEF TransmitComplete
  <1>9. CASE StoreAnswer
    <2>1. Resting /\ Age' = Age
      BY <1>4, <1>9 DEF ChannelInv, StoreAnswer, Age
    <2>2. AgeInv'
      BY <1>4, <1>9, <2>1 DEF StoreAnswer, AgeInv
    <2>3. known => Age <= 2
      BY <1>4, <1>5, <1>9, <2>1 DEF StoreAnswer, AgeInv, Resting, Ages
    <2>4. stored' # <<>> => stored'[1] <= 2
      BY <1>4, <1>9, <2>3 DEF StoreAnswer, Age
    <2> QED
      BY <2>2, <2>4 DEF FreshInv, AtMostTwoBack
  <1>10. CASE NextSensor \/ NextRound
    <2>1. AgeInv'
      BY <1>4, <1>10 DEF NextSensor, NextRound, AgeInv, Age
    <2> QED
      BY <1>6, <1>10, <2>1 DEF NextSensor, NextRound
  <1>11. CASE DmaIrq
    <2>1. pc = "wait" /\ RT_Flag = 0 /\ chan = 0
      BY <1>4, <1>11 DEF DmaIrq, ChannelInv, BusTypes, TypeOK
    <2>2. AgeInv'
      BY <1>4, <1>11, <2>1 DEF DmaIrq, AgeInv, Age, Resting, task, bus
    <2> QED
      BY <1>6, <1>11, <2>2 DEF DmaIrq, task
  <1>12. CASE TimeoutIrq
    <2>1. late' \/ (Resting /\ pc # "transmit")
      BY <1>4, <1>12 DEF TimeoutIrq, ChannelInv, BusTypes, TypeOK
    <2>2. Age' = Age /\ chan' = chan /\ (Resting => Resting')
      BY <1>12 DEF TimeoutIrq, Age, Resting
    <2>3. late' \/ AgeInv'
      BY <1>4, <1>12, <2>1, <2>2 DEF TimeoutIrq, AgeInv, task, bus
    <2> QED
      BY <1>6, <1>12, <2>3 DEF TimeoutIrq, task
  <1>13. CASE AnswerStarts
    <2>1. Age' = Age /\ chan' = chan /\ Pos' = Pos /\ (Resting <=> Resting')
      BY <1>13 DEF AnswerStarts, Age, Resting, Pos
    <2>2. AgeInv'
      BY <1>4, <1>13, <2>1 DEF AnswerStarts, AgeInv, task
    <2> QED
      BY <1>6, <1>13, <2>2 DEF AnswerStarts, task
  <1>14. CASE ByteArrives
    <2>1. stored' = stored
      BY <1>14 DEF ByteArrives, task
    <2>2. CASE rbne'
      BY <1>6, <2>1, <2>2
    <2>3. CASE ~rbne'
      <3>1. /\ pc = "wait" /\ chan > 0 /\ wire \in 0 .. AnswerLen - 1
            /\ wire = Pos \/ (wire = 0 /\ chan = 1)
            /\ pc' = "wait" /\ RT_Flag' = 0 /\ chan' = chan - 1
            /\ wireAge' = wireAge /\ Pos' = Pos + 1
            /\ Age' = IF HighByte = Pos THEN wireAge ELSE Age
        BY <1>4, <1>14, <2>3, ByteTaken DEF Age
      <3>2. wireAge = 0 /\ pending' = pending /\ pending \in {0, None}
        BY <1>4, <1>14, <3>1 DEF AgeInv, ByteArrives
      <3>3. CASE wire = 0 /\ chan = 1
        <4>1. Age' = Age /\ Age <= 1 /\ chan' = 0
          BY <1>4, <3>1, <3>3 DEF AgeInv, Pos
        <4>2. Resting' /\ chan' # DmaLen /\ chan' # 1
          BY <4>1 DEF Resting
        <4>3. AgeInv'
          BY <3>1, <3>2, <4>1, <4>2 DEF AgeInv
        <4> QED
          BY <1>6, <2>1, <4>3
      <3>4. CASE wire = Pos
        <4>1. chan' > 0 /\ chan' < DmaLen
          BY <1>5, <3>1, <3>4 DEF Pos
        <4>2. HighByte < Pos' => Age' = 0
          <5>1. CASE HighByte = Pos
            BY <3>1, <3>2, <5>1
          <5>2. CASE HighByte < Pos
            <6>1. ~Resting
              BY <1>5, <3>1, <3>4, <5>2 DEF Resting, Pos
            <6> QED
              BY <1>4, <3>1, <5>2, <6>1 DEF AgeInv, Pos
          <5> QED
            BY <1>5, <3>1, <5>1, <5>2 DEF Pos
        <4>3. chan' = 1 => Age' = 0
          BY <1>5, <3>1, <4>2 DEF Pos
        <4>4. AgeInv'
          BY <3>1, <3>2, <4>1, <4>2, <4>3 DEF AgeInv
        <4> QED
          BY <1>6, <2>1, <4>4
      <3> QED
        BY <3>1, <3>3, <3>4
    <2> QED
      BY <2>2, <2>3
  <1> QED
    BY <1>7, <1>8, <1>9, <1>10, <1>11, <1>12, <1>13, <1>14
       DEF Next, Task, Irq, Sensor

\* With the same channel, and while every request is answered, a stored
\* temperature answers this request or one of the two before it: the time-out
\* and the transfer-complete interrupt never get further out of step.
THEOREM NeverFurtherBehind ==
    ASSUME DmaLen = AnswerLen + 1
    PROVE  Spec => []AtMostTwoBack
  <1>1. SyncInv /\ BusTypes /\ BusTypes' /\ [Next]_vars => SyncInv'
    BY SyncStep
  <1>2. FreshInv /\ SyncInv /\ BusTypes /\ BusTypes' /\ [Next]_vars => FreshInv'
    BY FreshStep
  <1>3. FreshInv => AtMostTwoBack
    BY DEF FreshInv
  <1> QED
    BY <1>1, <1>2, <1>3, FreshInit, SyncInit, TypesInit, TypesStep, PTL DEF Spec
=============================================================================

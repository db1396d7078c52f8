---------------------------- MODULE EthRxProofs ----------------------------
(***************************************************************************)
(* Proofs about the reception of Ethernet frames, for any size of the      *)
(* ring, the pool and the mailbox, under both scheduling policies.         *)
(***************************************************************************)
EXTENDS EthRx, FiniteSetTheorems, TLAPS

\* The descriptor of the oldest frame, and how far a descriptor is from it.
First == IF pc = "resume" THEN nxt(cur) ELSE cur
RxOffset(k) == IF k < First THEN k - First + ENET_RXBUF_NUM ELSE k - First

\* RingWindow for n frames, by descriptor instead of by offset, and without
\* division: the DMA's descriptor is n places after the first, which is the
\* first itself when the ring is empty and when it is full.
RingHolds(n) ==
    /\ n \in 0 .. ENET_RXBUF_NUM /\ n <= arrived
    /\ \/ n < ENET_RXBUF_NUM /\ RxOffset(dmaPtr) = n
       \/ n = ENET_RXBUF_NUM /\ dmaPtr = First
    /\ \A k \in Ring : desc[k] = IF RxOffset(k) < n
                                 THEN arrived - n + 1 + RxOffset(k) ELSE None

RingTypes ==
    /\ desc \in [Ring -> Nat] /\ dmaPtr \in Ring /\ cur \in Ring
    /\ arrived \in Nat

RingInv == RingTypes /\ \E n \in 0 .. ENET_RXBUF_NUM : RingHolds(n)

\* A full ring is being emptied, or will be: the task has not looked at it
\* yet, or the interrupt is still to come or has left the semaphore.  The DMA
\* is suspended only at a full ring, up to ResumeDma.
Full == \A k \in Ring : desc[k] # None

SignalInv ==
    /\ isr \in {"off", "clear"} /\ sem \in {0, 1}
    /\ pc \in {"wait", "alloc", "release", "resume", "input"}
    /\ isr = "clear" => sem = 1
    /\ Full => pc \in {"alloc", "release"} \/ RS \/ sem = 1
    /\ suspended => pc = "resume" \/ Full

\* What the task has in its hands: after AllocAndCopy the frame of the current
\* descriptor or nothing, and before it nothing.
PbufInv ==
    /\ pc \in {"wait", "alloc"} => p = None
    /\ pc = "release" /\ p # None => p = desc[cur]
    /\ pc = "resume" /\ p # None => \A g \in InRing : p < g
    /\ pc = "input" => p # None /\ \A g \in InRing : p < g

Posted == {mbox[i] : i \in 1 .. Len(mbox)}

\* The frames by age: delivered, handled by tcpip_thread, in the mailbox, with
\* the task, in the ring.  The lost ones are older than those in the ring.
OrderInv ==
    /\ mbox \in Seq(Nat \ {None}) /\ p \in Nat /\ handling \in Nat
    /\ \A i, j \in 1 .. Len(mbox) : i < j => mbox[i] < mbox[j]
    /\ handling # None => \A f \in Posted : handling < f
    /\ p # None => /\ \A f \in Posted : f < p
                   /\ handling < p
    /\ \A f \in delivered : \A g \in InFlight : f < g
    /\ \A f \in delivered \cup Posted \cup {handling} \cup Lost :
          \A g \in InRing : f < g

AccountInv ==
    /\ 1 .. arrived = InRing \cup InFlight \cup delivered \cup Lost
    /\ Lost \cap (InFlight \cup delivered) = {}
    /\ dropped \in [Reasons -> SUBSET Nat]

RxInv == RingInv /\ SignalInv /\ PbufInv /\ OrderInv /\ AccountInv
-----------------------------------------------------------------------------
(* The ring.                                                                *)

\* The arithmetic of the ring: an index runs over its end at most once.
LEMMA RxWrap ==
  ASSUME NEW a \in 0 .. 2 * ENET_RXBUF_NUM - 1
  PROVE  a % ENET_RXBUF_NUM = IF a < ENET_RXBUF_NUM THEN a
                                                    ELSE a - ENET_RXBUF_NUM
  <1> USE EthRxAssumption
  <1>1. CASE a < ENET_RXBUF_NUM
    BY <1>1
  <1>2. CASE a \in ENET_RXBUF_NUM .. 2 * ENET_RXBUF_NUM - 1
    BY <1>2
  <1> QED
    BY <1>1, <1>2

LEMMA RxNxt ==
  ASSUME NEW k \in Ring
  PROVE  /\ nxt(k) = IF k = ENET_RXBUF_NUM - 1 THEN 0 ELSE k + 1
         /\ nxt(k) \in Ring
  <1> DEFINE a == k + 1
  <1>1. a \in 0 .. 2 * ENET_RXBUF_NUM - 1
    BY EthRxAssumption DEF Ring
  <1> HIDE DEF a
  <1>2. a % ENET_RXBUF_NUM = IF a < ENET_RXBUF_NUM THEN a
                                                   ELSE a - ENET_RXBUF_NUM
    BY <1>1, RxWrap
  <1>3. /\ a < ENET_RXBUF_NUM <=> k # ENET_RXBUF_NUM - 1
        /\ k = ENET_RXBUF_NUM - 1 => a - ENET_RXBUF_NUM = 0
    BY EthRxAssumption DEF Ring, a
  <1>4. nxt(k) = IF k = ENET_RXBUF_NUM - 1 THEN 0 ELSE k + 1
    BY <1>2, <1>3 DEF nxt, a
  <1> QED
    BY <1>4, EthRxAssumption DEF Ring

LEMMA FirstInRing ==
  ASSUME cur \in Ring
  PROVE  First \in Ring
  BY RxNxt DEF First

\* Offsets are numbers of the ring, each that of one descriptor.
LEMMA Offsets ==
  ASSUME cur \in Ring
  PROVE  /\ \A k \in Ring : RxOffset(k) \in 0 .. ENET_RXBUF_NUM - 1
         /\ \A k \in Ring : RxOffset(k) = 0 <=> k = First
         /\ \A k, l \in Ring : RxOffset(k) = RxOffset(l) => k = l
         /\ \A i \in 0 .. ENET_RXBUF_NUM - 1 : \E k \in Ring : RxOffset(k) = i
  <1> USE EthRxAssumption
  <1>1. First \in Ring
    BY FirstInRing
  <1>2. ASSUME NEW i \in 0 .. ENET_RXBUF_NUM - 1
        PROVE  \E k \in Ring : RxOffset(k) = i
    <2> DEFINE k == IF First + i < ENET_RXBUF_NUM THEN First + i
                                                  ELSE First + i - ENET_RXBUF_NUM
    <2>1. k \in Ring /\ RxOffset(k) = i
      BY <1>1 DEF RxOffset, Ring
    <2>2. QED
      BY <2>1
  <1> QED
    BY <1>1, <1>2 DEF RxOffset, Ring

\* The frames in the ring are the n youngest ones, and their number is n.
LEMMA RingSet ==
  ASSUME RingTypes, NEW n \in 0 .. ENET_RXBUF_NUM, RingHolds(n)
  PROVE  /\ InRing = arrived - n + 1 .. arrived
         /\ Cardinality(InRing) = n
  <1> USE EthRxAssumption
  <1>1. cur \in Ring /\ arrived \in Nat /\ n <= arrived /\ n \in Nat
    BY DEF RingTypes, RingHolds
  <1>2. \A k \in Ring : desc[k] = IF RxOffset(k) < n
                                  THEN arrived - n + 1 + RxOffset(k) ELSE None
    BY DEF RingHolds
  <1>3. ASSUME NEW f \in InRing
        PROVE  f \in arrived - n + 1 .. arrived
    <2>1. PICK k \in Ring : f = desc[k] /\ f # None
      BY DEF InRing
    <2>2. RxOffset(k) \in 0 .. ENET_RXBUF_NUM - 1
      BY <1>1, Offsets
    <2>3. QED
      BY <1>1, <1>2, <2>1, <2>2
  <1>4. ASSUME NEW f \in arrived - n + 1 .. arrived
        PROVE  f \in InRing
    <2>1. f - (arrived - n + 1) \in 0 .. ENET_RXBUF_NUM - 1
      BY <1>1
    <2>2. PICK k \in Ring : RxOffset(k) = f - (arrived - n + 1)
      BY <1>1, <2>1, Offsets
    <2>3. desc[k] = f /\ f # None
      BY <1>1, <1>2, <2>2 DEF None
    <2>4. QED
      BY <2>3 DEF InRing
  <1>5. InRing = arrived - n + 1 .. arrived
    BY <1>3, <1>4
  <1>6. Cardinality(arrived - n + 1 .. arrived) = n
    <2>1. arrived - n + 1 \in Int /\ arrived \in Int
      BY <1>1
    <2>2. Cardinality(arrived - n + 1 .. arrived) =
             IF arrived - n + 1 > arrived THEN 0
             ELSE arrived - (arrived - n + 1) + 1
      BY <2>1, FS_Interval
    <2>3. QED
      BY <1>1, <2>2
  <1> QED
    BY <1>5, <1>6

\* RingHolds says what RingWindow says.
LEMMA RingInvWindow == RingInv => RingWindow
  <1> SUFFICES ASSUME RingInv PROVE RingWindow
    OBVIOUS
  <1> USE EthRxAssumption
  <1> DEFINE N == ENET_RXBUF_NUM
  <1>1. PICK n \in 0 .. N : RingHolds(n)
    BY DEF RingInv
  <1>2. /\ n = Cardinality(InRing) /\ First \in Ring /\ dmaPtr \in Ring
        /\ arrived \in Nat
    BY <1>1, RingSet, FirstInRing DEF RingInv, RingTypes
  <1>3. ASSUME NEW i \in 0 .. N
        PROVE  (First + i) % N = IF First + i < N THEN First + i
                                                  ELSE First + i - N
    <2> DEFINE a == First + i
    <2>1. a \in 0 .. 2 * N - 1
      BY <1>2 DEF Ring
    <2> HIDE DEF a
    <2>2. a % N = IF a < N THEN a ELSE a - N
      BY <2>1, RxWrap
    <2>3. QED
      BY <1>2, <2>2 DEF a, Ring
  <1>4. dmaPtr = (First + n) % N
    <2>1. (First + n) % N = IF First + n < N THEN First + n ELSE First + n - N
      BY <1>3
    <2>2. QED
      BY <1>1, <1>2, <2>1 DEF RingHolds, RxOffset, Ring
  <1>5. ASSUME NEW i \in 0 .. n - 1
        PROVE  desc[(First + i) % N] = arrived - n + 1 + i
    <2> DEFINE k == (First + i) % N
    <2>1. k = IF First + i < N THEN First + i ELSE First + i - N
      BY <1>3
    <2>2. k \in Ring /\ RxOffset(k) = i
      BY <1>2, <2>1 DEF RxOffset, Ring
    <2>3. QED
      BY <1>1, <1>2, <2>2 DEF RingHolds
  <1>6. QED
    BY <1>2, <1>4, <1>5 DEF RingWindow, First

\* The steps that neither store nor release a frame.
RingIdle == UNCHANGED <<desc, dmaPtr, arrived, cur>> /\ First' = First

LEMMA RingSteps ==
  ASSUME [Next]_vars, ~DmaStore, ~ReleaseDescriptor, ~ResumeDma
  PROVE  RingIdle
  BY DEF Next, Dma, Irq, Task, TcpipThread, DmaSuspend, IrqGive, IrqClear,
         TakeSemaphore, AllocAndCopy, InputOk, InputError, Fetch, Process,
         AppRead, vars, dmaVars, taskVars, RingIdle, First

\* The DMA stores the next frame where the ring ends.
LEMMA StoreRing ==
  ASSUME RingTypes, NEW n \in 0 .. ENET_RXBUF_NUM, RingHolds(n), DmaStore
  PROVE  RingTypes' /\ n + 1 \in 0 .. ENET_RXBUF_NUM /\ RingHolds(n + 1)'
  <1> USE EthRxAssumption
  <1>1. /\ desc[dmaPtr] = None /\ arrived' = arrived + 1
        /\ desc' = [desc EXCEPT ![dmaPtr] = arrived + 1]
        /\ dmaPtr' = nxt(dmaPtr) /\ UNCHANGED <<cur, pc>>
    BY DEF DmaStore, taskVars
  <1>2. /\ dmaPtr \in Ring /\ cur \in Ring /\ First \in Ring /\ arrived \in Nat
        /\ n \in Nat /\ n <= arrived
    BY FirstInRing DEF RingTypes, RingHolds
  <1>3. First' = First /\ \A k \in Ring : RxOffset(k)' = RxOffset(k)
    BY <1>1 DEF First, RxOffset
  <1>4. dmaPtr' = IF dmaPtr = ENET_RXBUF_NUM - 1 THEN 0 ELSE dmaPtr + 1
    BY <1>1, <1>2, RxNxt
  <1>5. n < ENET_RXBUF_NUM /\ RxOffset(dmaPtr) = n
    <2>1. dmaPtr = First => RxOffset(dmaPtr) = 0
      BY <1>2, Offsets
    <2>2. RxOffset(dmaPtr) < n => desc[dmaPtr] # None
      BY <1>2, Offsets DEF RingHolds, None
    <2>3. QED
      BY <1>1, <2>1, <2>2 DEF RingHolds
  <1>6. RingTypes'
    BY <1>1, <1>2, <1>4 DEF RingTypes, Ring
  <1>7. \A k \in Ring : /\ desc'[k] = IF k = dmaPtr THEN arrived + 1 ELSE desc[k]
                        /\ RxOffset(k) = n <=> k = dmaPtr
                        /\ RxOffset(k) \in Nat
    BY <1>1, <1>2, <1>5, Offsets DEF RingTypes
  <1>8. \A k \in Ring :
           desc'[k] = IF RxOffset(k) < n + 1
                      THEN arrived - n + 1 + RxOffset(k) ELSE None
    BY <1>2, <1>7 DEF RingHolds
  <1>9. \/ n + 1 < ENET_RXBUF_NUM /\ RxOffset(dmaPtr') = n + 1
        \/ n + 1 = ENET_RXBUF_NUM /\ dmaPtr' = First
    BY <1>2, <1>4, <1>5 DEF RxOffset, Ring
  <1>10. /\ n + 1 \in 0 .. ENET_RXBUF_NUM /\ n + 1 <= arrived'
         /\ \/ n + 1 < ENET_RXBUF_NUM /\ RxOffset(dmaPtr)' = n + 1
            \/ n + 1 = ENET_RXBUF_NUM /\ dmaPtr' = First'
    BY <1>1, <1>2, <1>3, <1>5, <1>9 DEF RxOffset
  <1>11. \A k \in Ring :
           desc'[k] = IF RxOffset(k)' < n + 1
                      THEN arrived' - (n + 1) + 1 + RxOffset(k)' ELSE None
    BY <1>1, <1>2, <1>3, <1>8, <1>7
  <1>12. QED
    BY <1>6, <1>10, <1>11 DEF RingHolds

\* The task releases the oldest frame.
LEMMA ReleaseRing ==
  ASSUME RingTypes, NEW n \in 0 .. ENET_RXBUF_NUM, RingHolds(n),
         ReleaseDescriptor, desc[cur] # None
  PROVE  /\ RingTypes' /\ n - 1 \in 0 .. ENET_RXBUF_NUM /\ RingHolds(n - 1)'
         /\ desc[cur] = arrived - n + 1 /\ n > 0
  <1> USE EthRxAssumption
  <1>1. /\ pc = "release" /\ pc' = "resume" /\ desc' = [desc EXCEPT ![cur] = None]
        /\ UNCHANGED <<arrived, dmaPtr, cur>>
    BY DEF ReleaseDescriptor
  <1>2. /\ dmaPtr \in Ring /\ cur \in Ring /\ First \in Ring /\ arrived \in Nat
        /\ n \in Nat /\ n <= arrived /\ First = cur
    BY <1>1, FirstInRing DEF RingTypes, RingHolds, First
  <1>3. First' = IF cur = ENET_RXBUF_NUM - 1 THEN 0 ELSE cur + 1
    BY <1>1, <1>2, RxNxt DEF First
  <1>4. n > 0 /\ desc[cur] = arrived - n + 1
    <2>1. RxOffset(cur) = 0
      BY <1>2, Offsets
    <2>2. QED
      BY <1>2, <2>1 DEF RingHolds
  <1>5. RingTypes'
    BY <1>1, <1>2 DEF RingTypes, None
  <1>6. \A k \in Ring :
           RxOffset(k)' = IF k = cur THEN ENET_RXBUF_NUM - 1
                                     ELSE RxOffset(k) - 1
    BY <1>2, <1>3 DEF RxOffset, Ring
  <1>7. \A k \in Ring : /\ desc'[k] = IF k = cur THEN None ELSE desc[k]
                        /\ RxOffset(k) \in 0 .. ENET_RXBUF_NUM - 1
                        /\ RxOffset(k) = 0 <=> k = cur
    BY <1>1, <1>2, Offsets DEF RingTypes
  <1>8. \A k \in Ring :
           desc'[k] = IF RxOffset(k)' < n - 1
                      THEN arrived' - (n - 1) + 1 + RxOffset(k)' ELSE None
    BY <1>1, <1>2, <1>4, <1>6, <1>7 DEF RingHolds
  <1>9. n - 1 < ENET_RXBUF_NUM /\ RxOffset(dmaPtr)' = n - 1
    <2>1. RxOffset(dmaPtr)' = IF dmaPtr = cur THEN ENET_RXBUF_NUM - 1
                                              ELSE RxOffset(dmaPtr) - 1
      BY <1>1, <1>2, <1>3 DEF RxOffset, Ring
    <2>2. QED
      BY <1>2, <1>4, <1>7, <2>1 DEF RingHolds
  <1>10. n - 1 \in 0 .. ENET_RXBUF_NUM /\ n - 1 <= arrived'
    BY <1>1, <1>2, <1>4
  <1>11. QED
    BY <1>4, <1>5, <1>8, <1>9, <1>10 DEF RingHolds

\* Every other step leaves the window alone.
LEMMA KeepRing ==
  ASSUME RingTypes, [Next]_vars, ~DmaStore,
         ~(ReleaseDescriptor /\ desc[cur] # None)
  PROVE  /\ UNCHANGED <<desc, arrived, dmaPtr, First>> /\ RingTypes'
         /\ \A n : RingHolds(n)' = RingHolds(n)
  <1>1. UNCHANGED <<desc, arrived, dmaPtr, First>> /\ cur' \in Ring
    <2>1. CASE ReleaseDescriptor
      BY <2>1 DEF ReleaseDescriptor, First, RingTypes
    <2>2. CASE ResumeDma
      BY <2>2, RxNxt DEF ResumeDma, First, RingTypes
    <2>3. CASE ~ReleaseDescriptor /\ ~ResumeDma
      BY <2>3, RingSteps DEF RingIdle, RingTypes
    <2>4. QED
      BY <2>1, <2>2, <2>3
  <1>2. \A k : RxOffset(k)' = RxOffset(k)
    BY <1>1 DEF RxOffset
  <1>3. RxOffset(dmaPtr)' = RxOffset(dmaPtr)
    BY <1>1 DEF RxOffset
  <1>4. QED
    BY <1>1, <1>2, <1>3 DEF RingTypes, RingHolds

LEMMA NextRing ==
  ASSUME RingInv, [Next]_vars
  PROVE  RingInv'
  <1>1. PICK n \in 0 .. ENET_RXBUF_NUM : RingHolds(n)
    BY DEF RingInv
  <1>2. RingTypes
    BY DEF RingInv
  <1>3. CASE DmaStore
    BY <1>1, <1>2, <1>3, StoreRing DEF RingInv
  <1>4. CASE ReleaseDescriptor /\ desc[cur] # None
    BY <1>1, <1>2, <1>4, ReleaseRing DEF RingInv
  <1>5. CASE ~DmaStore /\ ~(ReleaseDescriptor /\ desc[cur] # None)
    <2>1. RingTypes' /\ RingHolds(n)'
      BY <1>1, <1>2, <1>5, KeepRing
    <2>2. QED
      BY <1>1, <2>1 DEF RingInv
  <1> QED
    BY <1>3, <1>4, <1>5
-----------------------------------------------------------------------------
(* The signal.                                                              *)

\* A descriptor at which the DMA stops means a full ring, and an empty current
\* one an empty ring.
LEMMA RingEnds ==
  ASSUME RingInv
  PROVE  /\ desc[dmaPtr] # None => Full
         /\ pc # "resume" /\ desc[cur] = None => InRing = {} /\ ~Full
  <1> USE EthRxAssumption
  <1>1. PICK n \in 0 .. ENET_RXBUF_NUM : RingHolds(n)
    BY DEF RingInv
  <1>2. /\ RingTypes /\ cur \in Ring /\ dmaPtr \in Ring /\ arrived \in Nat
        /\ n <= arrived /\ n \in Nat
    BY <1>1 DEF RingInv, RingTypes, RingHolds
  <1>3. /\ \A k \in Ring : RxOffset(k) \in 0 .. ENET_RXBUF_NUM - 1
        /\ \A k \in Ring : RxOffset(k) = 0 <=> k = First
    BY <1>2, Offsets
  <1>4. ASSUME desc[dmaPtr] # None
        PROVE  Full
    <2>1. n = ENET_RXBUF_NUM
      BY <1>1, <1>2, <1>4 DEF RingHolds
    <2>2. QED
      BY <1>1, <1>2, <1>3, <2>1 DEF RingHolds, Full, None
  <1>5. ASSUME pc # "resume", desc[cur] = None
        PROVE  InRing = {} /\ ~Full
    <2>1. First = cur
      BY <1>5 DEF First
    <2>2. n = 0
      BY <1>1, <1>2, <1>3, <1>5, <2>1 DEF RingHolds, None
    <2>3. InRing = arrived - n + 1 .. arrived
      BY <1>1, <1>2, RingSet
    <2>4. QED
      BY <1>2, <1>5, <2>2, <2>3 DEF Full
  <1> QED
    BY <1>4, <1>5

LEMMA NextSignal ==
  ASSUME SignalInv, RingInv, [Next]_vars
  PROVE  SignalInv'
  <1>1. cur \in Ring /\ dmaPtr \in Ring /\ desc \in [Ring -> Nat]
    BY DEF RingInv, RingTypes
  <1>2. CASE DmaStore
    BY <1>2 DEF DmaStore, SignalInv, taskVars
  <1>3. CASE ReleaseDescriptor
    <2>1. CASE desc[cur] = None
      BY <1>1, <1>3, <2>1, RingEnds DEF ReleaseDescriptor, SignalInv, Full
    <2>2. CASE desc[cur] # None
      <3>1. desc'[cur] = None
        BY <1>1, <1>3, <2>2 DEF ReleaseDescriptor
      <3>2. QED
        BY <1>1, <1>3, <2>2, <3>1 DEF ReleaseDescriptor, SignalInv, Full
    <2>3. QED
      BY <2>1, <2>2
  <1>4. CASE DmaSuspend
    BY <1>4, RingEnds DEF DmaSuspend, SignalInv, taskVars, Full
  <1>5. CASE Irq
    BY <1>5 DEF Irq, IrqGive, IrqClear, SignalInv, taskVars, dmaVars, Full
  <1>6. CASE TakeSemaphore \/ AllocAndCopy \/ ResumeDma \/ InputOk \/ InputError
    BY <1>6 DEF TakeSemaphore, AllocAndCopy, ResumeDma, InputOk, InputError,
                SignalInv, dmaVars, Full, TaskRuns
  <1>7. CASE TcpipThread \/ AppRead \/ UNCHANGED vars
    BY <1>7 DEF TcpipThread, Fetch, Process, AppRead, vars, SignalInv, dmaVars,
                taskVars, Full
  <1> QED
    BY <1>2, <1>3, <1>4, <1>5, <1>6, <1>7 DEF Next, Dma, Task

-----------------------------------------------------------------------------
(* The frames on their way.                                                 *)

\* How the set of frames in the ring changes.
LEMMA RingChange ==
  ASSUME RingInv, [Next]_vars
  PROVE  /\ InRing \subseteq 1 .. arrived /\ arrived \in Nat
         /\ DmaStore => InRing' = InRing \cup {arrived + 1}
         /\ ReleaseDescriptor /\ desc[cur] # None =>
               /\ desc[cur] \in InRing /\ InRing' = InRing \ {desc[cur]}
               /\ \A g \in InRing' : desc[cur] < g
         /\ ~DmaStore /\ ~(ReleaseDescriptor /\ desc[cur] # None) =>
               InRing' = InRing /\ arrived' = arrived
  <1>1. PICK n \in 0 .. ENET_RXBUF_NUM : RingHolds(n)
    BY DEF RingInv
  <1>2. RingTypes /\ arrived \in Nat /\ n \in Nat /\ n <= arrived
    BY <1>1, EthRxAssumption DEF RingInv, RingTypes, RingHolds
  <1>3. InRing = arrived - n + 1 .. arrived
    BY <1>1, <1>2, RingSet
  <1>4. ASSUME DmaStore
        PROVE  InRing' = InRing \cup {arrived + 1}
    <2>1. /\ desc[dmaPtr] = None /\ dmaPtr \in Ring
          /\ \A k \in Ring :
                desc'[k] = IF k = dmaPtr THEN arrived + 1 ELSE desc[k]
      BY <1>2, <1>4 DEF DmaStore, RingTypes
    <2>2. arrived + 1 # None
      BY <1>2 DEF None
    <2>3. QED
      BY <2>1, <2>2 DEF InRing
  <1>5. ASSUME ReleaseDescriptor, desc[cur] # None
        PROVE  /\ desc[cur] \in InRing /\ InRing' = InRing \ {desc[cur]}
               /\ \A g \in InRing' : desc[cur] < g
    <2>1. /\ cur \in Ring /\ \A k \in Ring :
                desc'[k] = IF k = cur THEN None ELSE desc[k]
      BY <1>2, <1>5 DEF ReleaseDescriptor, RingTypes
    <2>2. desc[cur] = arrived - n + 1
      BY <1>1, <1>2, <1>5, ReleaseRing
    <2>3. \A k \in Ring : desc[k] = desc[cur] => k = cur
      <3>1. /\ \A k \in Ring : RxOffset(k) \in 0 .. ENET_RXBUF_NUM - 1
            /\ \A k \in Ring : RxOffset(k) = RxOffset(cur) => k = cur
        BY <2>1, Offsets
      <3>2. \A k \in Ring : desc[k] = IF RxOffset(k) < n
                           THEN arrived - n + 1 + RxOffset(k) ELSE None
        BY <1>1 DEF RingHolds
      <3>3. ASSUME NEW k \in Ring, desc[k] = desc[cur]
            PROVE  RxOffset(k) = RxOffset(cur)
        BY <1>2, <1>5, <2>1, <3>1, <3>2, <3>3
      <3>4. QED
        BY <3>1, <3>3
    <2>4. desc[cur] \in InRing /\ InRing' = InRing \ {desc[cur]}
      BY <1>5, <2>1, <2>3 DEF InRing
    <2>5. QED
      BY <1>2, <1>3, <2>2, <2>4
  <1>6. ASSUME ~DmaStore, ~(ReleaseDescriptor /\ desc[cur] # None)
        PROVE  InRing' = InRing /\ arrived' = arrived
    BY <1>2, <1>6, KeepRing DEF InRing
  <1>7. InRing \subseteq 1 .. arrived
    BY <1>2, <1>3
  <1> QED
    BY <1>2, <1>4, <1>5, <1>6, <1>7

LEMMA NextPbuf ==
  ASSUME PbufInv, AccountInv, RingInv, [Next]_vars
  PROVE  PbufInv'
  <1>1. cur \in Ring /\ dmaPtr \in Ring /\ desc \in [Ring -> Nat]
    BY DEF RingInv, RingTypes
  <1>2. InRing \subseteq 1 .. arrived /\ arrived \in Nat
    BY RingChange
  <1>3. CASE DmaStore
    <2>1. /\ InRing' = InRing \cup {arrived + 1} /\ desc[dmaPtr] = None
          /\ UNCHANGED <<pc, p, cur>>
          /\ desc' = [desc EXCEPT ![dmaPtr] = arrived + 1]
      BY <1>3, RingChange DEF DmaStore, taskVars
    <2>2. desc[cur] # None => desc'[cur] = desc[cur]
      BY <1>1, <2>1
    <2>3. p # None => p \in 1 .. arrived
      BY DEF AccountInv, InFlight
    <2>4. QED
      BY <1>2, <2>1, <2>2, <2>3 DEF PbufInv
  <1>4. CASE ReleaseDescriptor
    <2>1. CASE desc[cur] = None
      BY <1>4, <2>1 DEF ReleaseDescriptor, PbufInv
    <2>2. CASE desc[cur] # None
      BY <1>4, <2>2, RingChange DEF ReleaseDescriptor, PbufInv
    <2>3. QED
      BY <2>1, <2>2
  <1>5. CASE AllocAndCopy
    BY <1>5 DEF AllocAndCopy, PbufInv, dmaVars
  <1>6. CASE ~DmaStore /\ ~ReleaseDescriptor /\ ~AllocAndCopy
    <2>1. InRing' = InRing /\ desc' = desc
      BY <1>1, <1>6, RingChange, KeepRing DEF RingInv
    <2>2. CASE TakeSemaphore \/ ResumeDma \/ InputOk \/ InputError
      BY <2>1, <2>2 DEF TakeSemaphore, ResumeDma, InputOk, InputError, PbufInv
    <2>3. CASE UNCHANGED <<pc, p, cur>>
      BY <2>1, <2>3 DEF PbufInv
    <2>4. QED
      BY <1>6, <2>2, <2>3
         DEF Next, Dma, Irq, Task, TcpipThread, DmaSuspend, IrqGive, IrqClear,
             Fetch, Process, AppRead, vars, taskVars
  <1> QED
    BY <1>3, <1>4, <1>5, <1>6

\* Posting a message and taking one, for the set of frames in the mailbox.
LEMMA PostedAppend ==
  ASSUME mbox \in Seq(Nat), NEW f \in Nat, mbox' = Append(mbox, f)
  PROVE  /\ Posted' = Posted \cup {f}
         /\ Len(mbox') = Len(mbox) + 1
         /\ \A i \in 1 .. Len(mbox') :
               mbox'[i] = IF i <= Len(mbox) THEN mbox[i] ELSE f
  <1>1. /\ Len(mbox') = Len(mbox) + 1 /\ Len(mbox) \in Nat
        /\ \A i \in 1 .. Len(mbox') :
              mbox'[i] = IF i <= Len(mbox) THEN mbox[i] ELSE f
    OBVIOUS
  <1>2. Posted \cup {f} \subseteq Posted'
    BY <1>1 DEF Posted
  <1>3. Posted' \subseteq Posted \cup {f}
    BY <1>1 DEF Posted
  <1> QED
    BY <1>1, <1>2, <1>3

LEMMA PostedTail ==
  ASSUME mbox \in Seq(Nat), mbox # <<>>, mbox' = Tail(mbox)
  PROVE  /\ Posted = Posted' \cup {Head(mbox)}
         /\ Len(mbox') = Len(mbox) - 1 /\ Head(mbox) = mbox[1]
         /\ \A i \in 1 .. Len(mbox') : mbox'[i] = mbox[i + 1]
  <1>1. /\ Len(mbox') = Len(mbox) - 1 /\ Len(mbox) \in Nat \ {0}
        /\ Head(mbox) = mbox[1]
        /\ \A i \in 1 .. Len(mbox') : mbox'[i] = mbox[i + 1]
    OBVIOUS
  <1>2. Posted' \cup {Head(mbox)} \subseteq Posted
    BY <1>1 DEF Posted
  <1>3. ASSUME NEW j \in 1 .. Len(mbox)
        PROVE  mbox[j] \in Posted' \cup {Head(mbox)}
    <2>1. CASE j = 1
      BY <1>1, <2>1
    <2>2. CASE j # 1
      <3>1. j - 1 \in 1 .. Len(mbox') /\ mbox'[j - 1] = mbox[j]
        BY <1>1, <2>2
      <3>2. QED
        BY <3>1 DEF Posted
    <2>3. QED
      BY <2>1, <2>2
  <1> QED
    BY <1>1, <1>2, <1>3 DEF Posted

LEMMA NextOrder ==
  ASSUME OrderInv, AccountInv, PbufInv, RingInv, [Next]_vars
  PROVE  OrderInv' /\ AccountInv'
  <1>1. /\ InRing \subseteq 1 .. arrived /\ arrived \in Nat
        /\ InFlight = ({p, handling} \cup Posted) \ {None}
    BY RingChange DEF InFlight, Posted
  <1>2. InFlight' = ({p', handling'} \cup Posted') \ {None}
    BY DEF InFlight, Posted
  <1>3. cur \in Ring /\ desc \in [Ring -> Nat] /\ mbox \in Seq(Nat)
    BY DEF RingInv, RingTypes, OrderInv
  <1>4. CASE DmaStore
    <2>1. /\ InRing' = InRing \cup {arrived + 1} /\ arrived' = arrived + 1
          /\ UNCHANGED <<p, mbox, handling, delivered, dropped>>
      BY <1>4, RingChange DEF DmaStore, taskVars, stackVars
    <2>2. UNCHANGED <<Posted, InFlight, Lost>>
      BY <2>1 DEF Posted, InFlight, Lost
    <2>3. AccountInv'
      BY <1>1, <2>1, <2>2 DEF AccountInv
    <2>4. \A f \in delivered \cup Posted \cup {handling} \cup Lost :
              f < arrived + 1
      BY <1>1 DEF AccountInv, None
    <2>5. OrderInv'
      BY <2>1, <2>2, <2>4 DEF OrderInv
    <2>6. QED
      BY <2>3, <2>5
  <1>5. CASE ReleaseDescriptor /\ desc[cur] # None
    <2> DEFINE d == desc[cur]
    <2>1. /\ d \in InRing /\ InRing' = InRing \ {d}
          /\ \A g \in InRing' : d < g
          /\ UNCHANGED <<p, mbox, handling, delivered, arrived>>
      BY <1>5, RingChange DEF ReleaseDescriptor, stackVars
    <2>2. UNCHANGED <<Posted, InFlight>>
      BY <2>1 DEF Posted, InFlight
    <2>3. CASE p # None
      <3>1. dropped' = dropped /\ p = d
        BY <1>5, <2>3 DEF ReleaseDescriptor, PbufInv
      <3>2. Lost' = Lost /\ d \in InFlight
        BY <1>1, <2>3, <3>1 DEF Lost
      <3>3. QED
        BY <2>1, <2>2, <3>1, <3>2 DEF OrderInv, AccountInv
    <2>4. CASE p = None
      <3>1. PICK r \in Reasons : dropped' = [dropped EXCEPT ![r] = @ \cup {d}]
        BY <1>5, <2>4 DEF ReleaseDescriptor, Reasons
      <3>2. Lost' = Lost \cup {d} /\ dropped' \in [Reasons -> SUBSET Nat]
        BY <1>1, <2>1, <3>1 DEF Lost, AccountInv
      <3>3. d \notin InFlight \cup delivered
        <4>1. \A f \in delivered \cup Posted \cup {handling} : f < d
          BY <2>1 DEF OrderInv
        <4>2. d \in Nat
          BY <1>3
        <4>3. d \notin delivered \cup Posted \cup {handling}
          BY <4>1, <4>2
        <4>4. QED
          BY <1>1, <1>5, <2>4, <4>3
      <3>4. AccountInv'
        BY <2>1, <2>2, <3>2, <3>3 DEF AccountInv
      <3>5. OrderInv'
        BY <2>1, <2>2, <3>2 DEF OrderInv
      <3>6. QED
        BY <3>4, <3>5
    <2>5. QED
      BY <2>3, <2>4
  <1>6. CASE ~DmaStore /\ ~(ReleaseDescriptor /\ desc[cur] # None)
    <2>1. InRing' = InRing /\ arrived' = arrived
      BY <1>6, RingChange
    <2>2. CASE AllocAndCopy
      <3>1. /\ p = None /\ p' \in {desc[cur], None}
            /\ UNCHANGED <<mbox, handling, delivered, dropped>>
        BY <2>2 DEF AllocAndCopy, PbufInv, stackVars
      <3>2. p' # None => p' \in InRing
        BY <1>3, <3>1 DEF InRing
      <3>3. /\ Posted' = Posted /\ Lost' = Lost /\ p' \in Nat
            /\ InFlight' = InFlight \cup ({p'} \ {None})
        BY <1>1, <1>2, <1>3, <3>1 DEF Posted, Lost, None
      <3>4. p' # None => /\ \A f \in delivered \cup Posted \cup {handling} : f < p'
                         /\ p' \notin Lost
        <4>1. p' # None =>
                \A f \in delivered \cup Posted \cup {handling} \cup Lost : f < p'
          BY <3>2 DEF OrderInv
        <4>2. QED
          BY <3>3, <4>1
      <3>5. AccountInv'
        BY <2>1, <3>1, <3>2, <3>3, <3>4 DEF AccountInv
      <3>6. OrderInv'
        BY <2>1, <3>1, <3>3, <3>4 DEF OrderInv
      <3>7. QED
        BY <3>5, <3>6
    <2>3. CASE InputOk
      <3>1. /\ mbox' = Append(mbox, p) /\ p' = None /\ p # None
            /\ \A g \in InRing : p < g
            /\ UNCHANGED <<handling, delivered, dropped>>
        BY <2>3 DEF InputOk, PbufInv
      <3>2. p \in Nat /\ mbox' \in Seq(Nat \ {None})
        BY <3>1 DEF OrderInv
      <3>3. /\ Posted' = Posted \cup {p} /\ Len(mbox') = Len(mbox) + 1
            /\ \A i \in 1 .. Len(mbox') :
                  mbox'[i] = IF i <= Len(mbox) THEN mbox[i] ELSE p
        BY <1>3, <3>1, <3>2, PostedAppend
      <3>4. Lost' = Lost /\ InFlight' = InFlight
        BY <1>1, <1>2, <3>1, <3>3 DEF Lost
      <3>5. \A i, j \in 1 .. Len(mbox') : i < j => mbox'[i] < mbox'[j]
        <4>1. \A i \in 1 .. Len(mbox) : mbox[i] < p
          BY <3>1 DEF OrderInv, Posted
        <4>2. QED
          BY <1>3, <3>3, <4>1 DEF OrderInv
      <3>6. AccountInv'
        BY <2>1, <3>1, <3>4 DEF AccountInv
      <3>7. OrderInv'
        BY <2>1, <3>1, <3>2, <3>3, <3>4, <3>5 DEF OrderInv, None
      <3>8. QED
        BY <3>6, <3>7
    <2>4. CASE InputError
      <3>1. /\ dropped' = [dropped EXCEPT !["input"] = @ \cup {p}]
            /\ p' = None /\ p # None /\ \A g \in InRing : p < g
            /\ UNCHANGED <<mbox, handling, delivered>>
        BY <2>4 DEF InputError, PbufInv, stackVars
      <3>2. Posted' = Posted /\ p \in Nat /\ p \in InFlight
        BY <1>1, <3>1 DEF Posted, OrderInv
      <3>3. /\ p \notin Posted \cup {handling} \cup delivered
            /\ InFlight' = InFlight \ {p}
        BY <1>1, <1>2, <3>1, <3>2 DEF OrderInv, None
      <3>4. Lost' = Lost \cup {p} /\ dropped' \in [Reasons -> SUBSET Nat]
        BY <3>1, <3>2 DEF Lost, AccountInv, Reasons
      <3>5. AccountInv'
        BY <2>1, <3>1, <3>2, <3>3, <3>4 DEF AccountInv
      <3>6. OrderInv'
        BY <2>1, <3>1, <3>2, <3>3, <3>4 DEF OrderInv, None
      <3>7. QED
        BY <3>5, <3>6
    <2>5. CASE Fetch
      <3>1. /\ handling = None /\ mbox # <<>> /\ handling' = Head(mbox)
            /\ mbox' = Tail(mbox) /\ UNCHANGED <<p, delivered, dropped>>
        BY <2>5 DEF Fetch, taskVars
      <3>2. /\ Posted = Posted' \cup {handling'}
            /\ Len(mbox') = Len(mbox) - 1 /\ handling' = mbox[1]
            /\ \A i \in 1 .. Len(mbox') : mbox'[i] = mbox[i + 1]
        BY <1>3, <3>1, PostedTail
      <3>3. handling' \in Nat /\ mbox' \in Seq(Nat \ {None})
        BY <3>1 DEF OrderInv
      <3>4. Lost' = Lost /\ InFlight' = InFlight
        BY <1>1, <1>2, <3>1, <3>2 DEF Lost
      <3>5. Len(mbox) \in Nat
        BY <1>3
      <3>6. /\ \A i, j \in 1 .. Len(mbox') : i < j => mbox'[i] < mbox'[j]
            /\ \A f \in Posted' : handling' < f
        <4>1. \A i \in 1 .. Len(mbox') : i + 1 \in 1 .. Len(mbox) /\ 1 < i + 1
          BY <3>2, <3>5
        <4>2. 1 \in 1 .. Len(mbox)
          BY <3>1, <1>3
        <4>3. QED
          <5>1. \A i, j \in 1 .. Len(mbox') : i < j => mbox'[i] < mbox'[j]
            <6>1. \A i, j \in 1 .. Len(mbox) : i < j => mbox[i] < mbox[j]
              BY DEF OrderInv
            <6>2. ASSUME NEW i \in 1 .. Len(mbox'), NEW j \in 1 .. Len(mbox'),
                         i < j
                  PROVE  mbox'[i] < mbox'[j]
              <7>1. i + 1 < j + 1
                BY <3>2, <3>5, <6>2
              <7>2. QED
                BY <3>2, <4>1, <6>1, <7>1
            <6>3. QED
              BY <6>2
          <5>2. \A i \in 1 .. Len(mbox') : handling' < mbox'[i]
            BY <3>2, <4>1, <4>2 DEF OrderInv
          <5>3. QED
            BY <5>1, <5>2 DEF Posted
      <3>7. AccountInv'
        BY <2>1, <3>1, <3>4 DEF AccountInv
      <3>8. OrderInv'
        BY <2>1, <3>1, <3>2, <3>3, <3>4, <3>6 DEF OrderInv
      <3>9. QED
        BY <3>7, <3>8
    <2>6. CASE Process
      <3>1. /\ handling # None /\ handling' = None
            /\ delivered' = delivered \cup {handling}
            /\ UNCHANGED <<p, mbox, dropped>>
        BY <2>6 DEF Process, taskVars
      <3>2. UNCHANGED <<Posted, Lost>>
        BY <3>1 DEF Posted, Lost
      <3>3. /\ handling \in InFlight /\ InFlight' = InFlight \ {handling}
            /\ \A g \in InFlight' : handling < g
        BY <1>1, <1>2, <3>1, <3>2 DEF OrderInv
      <3>4. AccountInv'
        BY <2>1, <3>1, <3>2, <3>3 DEF AccountInv
      <3>5. OrderInv'
        <4>1. /\ \A f \in delivered' : \A g \in InFlight' : f < g
              /\ \A g \in InRing : 0 < g
              /\ p # None => 0 < p
          BY <1>1, <3>1, <3>3 DEF OrderInv, None
        <4>2. \A f \in delivered' \cup Posted' \cup {handling'} \cup Lost' :
                 \A g \in InRing' : f < g
          BY <2>1, <3>1, <3>2, <4>1 DEF OrderInv, None
        <4>3. QED
          BY <3>1, <3>2, <4>1, <4>2 DEF OrderInv, None
      <3>6. QED
        BY <3>4, <3>5
    <2>7. CASE UNCHANGED <<p, mbox, handling, delivered, dropped>>
      <3>1. UNCHANGED <<Posted, Lost, InFlight>>
        BY <2>7 DEF Posted, Lost, InFlight
      <3>2. QED
        BY <2>1, <2>7, <3>1 DEF OrderInv, AccountInv
    <2>8. QED
      BY <1>6, <2>2, <2>3, <2>4, <2>5, <2>6, <2>7
         DEF Next, Dma, Irq, Task, TcpipThread, DmaSuspend, IrqGive, IrqClear,
             TakeSemaphore, ReleaseDescriptor, ResumeDma, AppRead, vars,
             taskVars, stackVars
  <1> QED
    BY <1>4, <1>5, <1>6
-----------------------------------------------------------------------------
(* The theorems.                                                            *)

LEMMA RxInitInv == Init => RxInv
  <1> SUFFICES ASSUME Init PROVE RxInv
    OBVIOUS
  <1> USE EthRxAssumption
  <1>1. /\ desc = [k \in Ring |-> None] /\ dmaPtr = 0 /\ cur = 0 /\ pc = "wait"
        /\ arrived = 0 /\ p = None /\ handling = None /\ mbox = <<>>
        /\ delivered = {} /\ dropped = [r \in Reasons |-> {}]
    BY DEF Init
  <1>2. InRing = {} /\ Posted = {} /\ InFlight = {} /\ Lost = {}
    BY <1>1 DEF InRing, Posted, InFlight, Lost
  <1>3. RingInv
    <2>1. First = 0 /\ 0 \in Ring /\ RxOffset(dmaPtr) = 0
      BY <1>1 DEF First, RxOffset, Ring
    <2>2. \A k \in Ring : ~(RxOffset(k) < 0)
      BY <1>1, <2>1, Offsets
    <2>3. RingTypes /\ RingHolds(0) /\ 0 \in 0 .. ENET_RXBUF_NUM
      BY <1>1, <2>1, <2>2 DEF RingTypes, RingHolds, None
    <2>4. QED
      BY <2>3 DEF RingInv
  <1>4. SignalInv
    <2>1. ~Full
      BY <1>1 DEF Full, Ring
    <2>2. QED
      BY <1>1, <2>1 DEF Init, SignalInv
  <1>5. PbufInv
    BY <1>1 DEF PbufInv
  <1>6. OrderInv /\ AccountInv
    BY <1>1, <1>2 DEF OrderInv, AccountInv, None
  <1> QED
    BY <1>3, <1>4, <1>5, <1>6 DEF RxInv

LEMMA RxInvariant == Spec => []RxInv
  <1>1. RxInv /\ [Next]_vars => RxInv'
    BY NextRing, NextSignal, NextPbuf, NextOrder DEF RxInv
  <1> QED
    BY <1>1, RxInitInv, PTL DEF Spec

\* The frames in the ring are the youngest ones, in order, from the task's
\* descriptor up to the DMA's.
THEOREM RingInOrder == Spec => []RingWindow
  <1>1. RxInv => RingWindow
    BY RingInvWindow DEF RxInv
  <1> QED
    BY <1>1, RxInvariant, PTL

\* Every frame stored is in one place: none is lost without being counted, and
\* none is delivered twice.
THEOREM NoFrameUnaccounted == Spec => []FramesAccounted
  <1>1. RxInv => FramesAccounted
    <2> SUFFICES ASSUME RxInv PROVE FramesAccounted
      OBVIOUS
    <2>1. PICK n \in 0 .. ENET_RXBUF_NUM : RingHolds(n)
      BY DEF RxInv, RingInv
    <2>2. InRing = arrived - n + 1 .. arrived /\ arrived \in Nat /\ n \in Nat
      BY <2>1, RingSet, EthRxAssumption DEF RxInv, RingInv, RingTypes
    <2>3. \A f \in delivered \cup Posted \cup {handling} \cup Lost :
              f \notin InRing
      BY <2>2 DEF RxInv, OrderInv
    <2>4. pc # "release" => p = None \/ p \notin InRing
      BY <2>2 DEF RxInv, PbufInv, SignalInv
    <2>5. InFlight = ({p, handling} \cup Posted) \ {None}
      BY DEF InFlight, Posted
    <2>6. InRing \cap InFlight \subseteq (IF pc = "release" THEN {p} ELSE {})
      BY <2>3, <2>4, <2>5
    <2>7. InFlight \cap delivered = {}
      <3>1. \A f \in delivered : \A g \in InFlight : f < g
        BY DEF RxInv, OrderInv
      <3>2. \A g \in InFlight : g \in 1 .. arrived
        BY DEF RxInv, AccountInv
      <3>3. QED
        BY <2>2, <3>1, <3>2
    <2>8. QED
      BY <2>3, <2>6, <2>7 DEF FramesAccounted, RxInv, AccountInv
  <1> QED
    BY <1>1, RxInvariant, PTL

\* Frames are delivered in the order of their arrival.
THEOREM DeliversInOrder == Spec => DeliveredInOrder
  <1>1. RxInv /\ [Next]_vars =>
           [\A f \in delivered' \ delivered : \A g \in delivered : g < f]_vars
    <2> SUFFICES ASSUME RxInv, [Next]_vars
                 PROVE  \A f \in delivered' \ delivered :
                            \A g \in delivered : g < f
      OBVIOUS
    <2>1. CASE Process
      <3>1. handling \in InFlight
        BY <2>1 DEF Process, InFlight
      <3>2. delivered' = delivered \cup {handling}
        BY <2>1 DEF Process
      <3>3. QED
        BY <3>1, <3>2 DEF RxInv, OrderInv
    <2>2. CASE ~Process
      BY <2>2
         DEF Next, Dma, Irq, Task, TcpipThread, DmaStore, DmaSuspend, IrqGive,
             IrqClear, TakeSemaphore, AllocAndCopy, ReleaseDescriptor,
             ResumeDma, InputOk, InputError, Fetch, AppRead, vars, stackVars
    <2>3. QED
      BY <2>1, <2>2
  <1> QED
    BY <1>1, RxInvariant, PTL DEF Spec, DeliveredInOrder

\* A suspended DMA is never left to a task that nothing will wake.
THEOREM NeverStalls == Spec => []ReceptionNeverStalls
  <1>1. RxInv => ReceptionNeverStalls
    BY DEF RxInv, SignalInv, ReceptionNeverStalls
  <1> QED
    BY <1>1, RxInvariant, PTL
=============================================================================

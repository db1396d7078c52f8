---------------------------- MODULE EthIfProofs ----------------------------
(***************************************************************************)
(* Proofs about the network interface, for any sizes of the rings and any  *)
(* number of frames: what low_level_output promises while reception and    *)
(* the two DMAs go on, and that the interface receives as EthRx says.      *)
(***************************************************************************)
EXTENDS EthIf, EthRxProofs, TLAPS

-----------------------------------------------------------------------------
(* Transmission.                                                            *)

\* The steps of the interface as transmission sees them.
TxNext == Output \/ LowLevelOutput \/ TxDma

LEMMA TxSteps ==
  ASSUME [IfNext]_ifVars
  PROVE  [TxNext]_txVars
  BY DEF IfNext, IfTask, IfThread, IfOutput, IfLowLevelOutput, TxNext, ifVars

\* The frames in the ring: handed over, and not yet sent.
Queued == (IF txpc \in {"take", "dav", "transmit"} THEN outs - 1 ELSE outs)
          - sent[1]

\* How far a descriptor is from the DMA's.
TxOffset(k) == IF k < txdma THEN k - txdma + ENET_TXBUF_NUM ELSE k - txdma

\* TxWindow by descriptor instead of by offset, and without division: the
\* task's descriptor is Queued places after the DMA's, which is the DMA's own
\* when the ring is empty and when it is full.
TxPlaces ==
    /\ Queued \in 0 .. ENET_TXBUF_NUM
    /\ \/ txpc = "poll" /\ Queued > 0 /\ TxOffset(txcur) = Queued - 1
       \/ txpc = "poll" /\ Queued = 0 /\ TxOffset(txcur) = ENET_TXBUF_NUM - 1
       \/ txpc # "poll" /\ Queued < ENET_TXBUF_NUM /\ TxOffset(txcur) = Queued
       \/ txpc # "poll" /\ Queued = ENET_TXBUF_NUM /\ txcur = txdma
    /\ \A k \in TxRing : txdesc[k] = IF TxOffset(k) < Queued
                                     THEN sent[1] + 1 + TxOffset(k) ELSE Free

TxTypes ==
    /\ txdesc \in [TxRing -> Nat] /\ txcur \in TxRing /\ txdma \in TxRing
    /\ outs \in Nat /\ sent = <<sent[1], sent[2]>> /\ sent[1] \in Nat

\* Where low_level_output is, and what it has then: the semaphore, a free
\* descriptor, a frame handed to the DMA.
TxControl ==
    /\ txpc \in {"idle", "take", "dav", "transmit", "poll", "give"}
    /\ s_tx_semaphore = IF txpc \in {"idle", "take"} THEN 1 ELSE 0
    /\ txpc = "transmit" => txdesc[txcur] = Free
    /\ txpc = "give" => reval
    /\ txpc = "poll" => reval

TxInv == TxTypes /\ TxControl /\ TxPlaces /\ sent[2] = TRUE

LEMMA TxInitInv == TxInit => TxInv
  BY EthTxAssumption DEF TxInit, TxInv, TxTypes, TxControl, TxPlaces, Queued,
                         TxOffset, TxRing, Free

\* The arithmetic of the ring: an index runs over its end at most once.
LEMMA TxWrap ==
  ASSUME NEW a \in 0 .. 2 * ENET_TXBUF_NUM - 1
  PROVE  a % ENET_TXBUF_NUM = IF a < ENET_TXBUF_NUM THEN a
                                                    ELSE a - ENET_TXBUF_NUM
  <1> USE EthTxAssumption
  <1>1. CASE a < ENET_TXBUF_NUM
    BY <1>1
  <1>2. CASE a \in ENET_TXBUF_NUM .. 2 * ENET_TXBUF_NUM - 1
    BY <1>2
  <1> QED
    BY <1>1, <1>2

LEMMA TxNxt ==
  ASSUME NEW k \in TxRing
  PROVE  txnxt(k) = IF k = ENET_TXBUF_NUM - 1 THEN 0 ELSE k + 1
  <1> DEFINE a == k + 1
  <1>1. a \in 0 .. 2 * ENET_TXBUF_NUM - 1
    BY EthTxAssumption DEF TxRing
  <1> HIDE DEF a
  <1>2. a % ENET_TXBUF_NUM = IF a < ENET_TXBUF_NUM THEN a
                                                   ELSE a - ENET_TXBUF_NUM
    BY <1>1, TxWrap
  <1>3. /\ a < ENET_TXBUF_NUM <=> k # ENET_TXBUF_NUM - 1
        /\ k = ENET_TXBUF_NUM - 1 => a - ENET_TXBUF_NUM = 0
    BY EthTxAssumption DEF TxRing, a
  <1> QED
    BY <1>2, <1>3 DEF txnxt, a

LEMMA TxNextInv ==
  ASSUME TxInv, [TxNext]_txVars
  PROVE  TxInv'
  <1> USE EthTxAssumption
  <1>1. CASE Output \/ TakeTxSemaphore \/ GiveTxSemaphore \/ WaitDescriptor
             \/ TxDmaSuspend \/ UNCHANGED txVars
    <2>1. UNCHANGED <<txdesc, txcur, txdma, sent>> /\ outs' \in Nat
      BY <1>1 DEF Output, TakeTxSemaphore, GiveTxSemaphore, WaitDescriptor,
                  TxDmaSuspend, txVars, TxInv, TxTypes
    <2>2. /\ TxControl' /\ Queued' = Queued
          /\ txpc = "poll" <=> txpc' = "poll"
      BY <1>1, <2>1 DEF Output, TakeTxSemaphore, GiveTxSemaphore,
                        WaitDescriptor, TxDmaSuspend, txVars, TxInv, TxTypes,
                        TxControl, Queued
    <2>3. QED
      BY <2>1, <2>2 DEF TxInv, TxTypes, TxPlaces, TxOffset
  <1>2. CASE Transmit
    <2>1. /\ txpc = "transmit" /\ txdesc[txcur] = Free
          /\ txdesc' = [txdesc EXCEPT ![txcur] = outs]
          /\ txpc' = "poll" /\ reval'
          /\ UNCHANGED <<txcur, txdma, s_tx_semaphore, outs, sent>>
      BY <1>2 DEF Transmit, TxInv, TxControl
    <2>2. /\ Queued = outs - 1 - sent[1] /\ Queued' = Queued + 1
          /\ Queued < ENET_TXBUF_NUM /\ TxOffset(txcur) = Queued
      BY <2>1 DEF Queued, TxInv, TxTypes, TxPlaces, TxOffset, Free, TxRing
    <2>3. TxTypes' /\ TxControl' /\ sent'[2] = TRUE
      BY <2>1 DEF TxInv, TxTypes, TxControl
    <2>4. \A k \in TxRing : /\ TxOffset(k)' = TxOffset(k)
                            /\ TxOffset(k) \in Nat
                            /\ TxOffset(k) = TxOffset(txcur) <=> k = txcur
      <3>1. txcur \in TxRing /\ txdma \in TxRing /\ txdma' = txdma
        BY <2>1 DEF TxInv, TxTypes
      <3>2. QED
        BY <3>1 DEF TxOffset, TxRing
    <2>5. \A k \in TxRing : txdesc'[k] = IF k = txcur THEN outs ELSE txdesc[k]
      BY <2>1 DEF TxInv, TxTypes
    <2>6. \A k \in TxRing : txdesc'[k] = IF TxOffset(k) < Queued + 1
                                     THEN sent[1] + 1 + TxOffset(k) ELSE Free
      BY <2>2, <2>4, <2>5 DEF TxInv, TxPlaces, TxTypes
    <2>7. QED
      BY <2>1, <2>2, <2>3, <2>4, <2>6 DEF TxInv, TxPlaces, TxTypes
  <1>3. CASE PollDma
    <2>1. /\ txpc = "poll" /\ txcur' = txnxt(txcur) /\ txpc' = "give"
          /\ UNCHANGED <<txdesc, txdma, s_tx_semaphore, reval, outs, sent>>
      BY <1>3 DEF PollDma
    <2>2. txcur' = IF txcur = ENET_TXBUF_NUM - 1 THEN 0 ELSE txcur + 1
      BY <2>1, TxNxt DEF TxInv, TxTypes
    <2>3. TxTypes' /\ TxControl' /\ sent'[2] = TRUE
      BY <2>1, <2>2 DEF TxInv, TxTypes, TxControl, TxRing
    <2>4. /\ Queued' = Queued
          /\ TxOffset(txcur) = IF Queued > 0 THEN Queued - 1
                                             ELSE ENET_TXBUF_NUM - 1
      BY <2>1 DEF Queued, TxInv, TxPlaces
    <2>5. \/ Queued < ENET_TXBUF_NUM /\ TxOffset(txcur)' = Queued
          \/ Queued = ENET_TXBUF_NUM /\ txcur' = txdma
      <3>1. /\ txcur \in TxRing /\ txdma \in TxRing /\ txdma' = txdma
            /\ Queued \in 0 .. ENET_TXBUF_NUM
        BY <2>1 DEF TxInv, TxTypes, TxPlaces
      <3>2. TxOffset(txcur)' = IF TxOffset(txcur) = ENET_TXBUF_NUM - 1 THEN 0
                                                     ELSE TxOffset(txcur) + 1
        BY <2>2, <3>1 DEF TxOffset, TxRing
      <3>3. TxOffset(txcur) = ENET_TXBUF_NUM - 1 => txcur' = txdma
        BY <2>2, <3>1 DEF TxOffset, TxRing
      <3>4. QED
        BY <2>4, <3>1, <3>2, <3>3
    <2>6. \A k \in TxRing : TxOffset(k)' = TxOffset(k)
      BY <2>1 DEF TxOffset
    <2>7. QED
      BY <2>1, <2>3, <2>4, <2>5, <2>6 DEF TxInv, TxPlaces
  <1>4. CASE TxDmaSend
    <2>1. /\ txdesc[txdma] # Free /\ txdma' = txnxt(txdma)
          /\ sent' = <<txdesc[txdma], sent[2] /\ txdesc[txdma] = sent[1] + 1>>
          /\ txdesc' = [txdesc EXCEPT ![txdma] = Free]
          /\ UNCHANGED <<txcur, s_tx_semaphore, txpc, reval, outs>>
      BY <1>4 DEF TxDmaSend
    <2>2. Queued > 0 /\ txdesc[txdma] = sent[1] + 1 /\ Queued \in Int
      BY <2>1 DEF TxInv, TxTypes, TxPlaces, TxOffset, TxRing
    <2>3. sent'[1] = sent[1] + 1 /\ sent'[2] = TRUE
      BY <2>1, <2>2 DEF TxInv
    <2>4. Queued' = Queued - 1
      BY <2>1, <2>3 DEF Queued, TxInv, TxTypes
    <2>5. txdma' = IF txdma = ENET_TXBUF_NUM - 1 THEN 0 ELSE txdma + 1
      BY <2>1, TxNxt DEF TxInv, TxTypes
    <2>6. TxTypes'
      BY <2>1, <2>3, <2>5 DEF TxInv, TxTypes, TxRing, Free
    <2>7. \A k \in TxRing :
             TxOffset(k)' = IF k = txdma THEN ENET_TXBUF_NUM - 1
                                         ELSE TxOffset(k) - 1
      BY <2>5 DEF TxOffset, TxRing, TxInv, TxTypes
    <2>8. \A k \in TxRing : /\ txdesc'[k] = IF k = txdma THEN Free ELSE txdesc[k]
                            /\ TxOffset(k) \in 0 .. ENET_TXBUF_NUM - 1
                            /\ TxOffset(k) = 0 <=> k = txdma
      BY <2>1 DEF TxInv, TxTypes, TxOffset, TxRing
    <2>9. \A k \in TxRing :
             txdesc'[k] = IF TxOffset(k)' < Queued'
                          THEN sent'[1] + 1 + TxOffset(k)' ELSE Free
      BY <2>2, <2>3, <2>4, <2>7, <2>8 DEF TxInv, TxTypes, TxPlaces
    <2>10. TxControl'
      BY <2>1, <2>8 DEF TxInv, TxTypes, TxControl, Free
    <2>11. txcur \in TxRing /\ Queued \in 0 .. ENET_TXBUF_NUM
      BY DEF TxInv, TxTypes, TxPlaces
    <2>12. \/ txpc = "poll" /\ Queued' > 0 /\ TxOffset(txcur)' = Queued' - 1
           \/ /\ txpc = "poll" /\ Queued' = 0
              /\ TxOffset(txcur)' = ENET_TXBUF_NUM - 1
           \/ /\ txpc # "poll" /\ Queued' < ENET_TXBUF_NUM
              /\ TxOffset(txcur)' = Queued'
      <3>1. TxOffset(txcur)' = IF txcur = txdma THEN ENET_TXBUF_NUM - 1
                                                ELSE TxOffset(txcur) - 1
        <4>1. txcur' = txcur
          BY <2>1
        <4>2. QED
          BY <2>7, <2>11, <4>1 DEF TxOffset
      <3>2. TxOffset(txcur) = 0 <=> txcur = txdma
        BY <2>8, <2>11
      <3>3. \/ txpc = "poll" /\ TxOffset(txcur) = Queued - 1
            \/ /\ txpc # "poll" /\ Queued < ENET_TXBUF_NUM
               /\ TxOffset(txcur) = Queued
            \/ txpc # "poll" /\ Queued = ENET_TXBUF_NUM /\ txcur = txdma
        BY <2>2, <2>11 DEF TxInv, TxPlaces
      <3>4. QED
        BY <2>2, <2>4, <2>11, <3>1, <3>2, <3>3
    <2>13. QED
      BY <2>1, <2>2, <2>3, <2>4, <2>6, <2>9, <2>10, <2>11, <2>12
         DEF TxInv, TxPlaces
  <1> QED
    BY <1>1, <1>2, <1>3, <1>4 DEF TxNext, LowLevelOutput, TxDma

LEMMA TxInvariant == IfSpec => []TxInv
  <1>1. IfInit => TxInv
    BY TxInitInv DEF IfInit
  <1>2. TxInv /\ [IfNext]_ifVars => TxInv'
    BY TxSteps, TxNextInv
  <1> QED
    BY <1>1, <1>2, PTL DEF IfSpec

\* TxPlaces says what TxWindow says.
LEMMA TxInvWindow == TxInv => TxWindow
  <1> SUFFICES ASSUME TxInv PROVE TxWindow
    OBVIOUS
  <1> USE EthTxAssumption
  <1> DEFINE N == ENET_TXBUF_NUM
             here == IF txpc = "poll" THEN txnxt(txcur) ELSE txcur
  <1>1. Queued \in 0 .. N /\ txcur \in TxRing /\ txdma \in TxRing
    BY DEF TxInv, TxTypes, TxPlaces
  <1>2. ASSUME NEW i \in 0 .. N
        PROVE  (txdma + i) % N = IF txdma + i < N THEN txdma + i
                                                  ELSE txdma + i - N
    <2> DEFINE a == txdma + i
    <2>1. a \in 0 .. 2 * N - 1
      BY <1>1 DEF TxRing
    <2> HIDE DEF a
    <2>2. a % N = IF a < N THEN a ELSE a - N
      BY <2>1, TxWrap
    <2>3. QED
      BY <1>1, <2>2 DEF a, TxRing
  <1>3. here = (txdma + Queued) % N
    <2>1. txnxt(txcur) = IF txcur = N - 1 THEN 0 ELSE txcur + 1
      BY <1>1, TxNxt
    <2>2. (txdma + Queued) % N = IF txdma + Queued < N THEN txdma + Queued
                                                   ELSE txdma + Queued - N
      BY <1>1, <1>2
    <2>3. \/ txpc = "poll" /\ Queued > 0 /\ TxOffset(txcur) = Queued - 1
          \/ txpc = "poll" /\ Queued = 0 /\ TxOffset(txcur) = N - 1
          \/ txpc # "poll" /\ Queued < N /\ TxOffset(txcur) = Queued
          \/ txpc # "poll" /\ Queued = N /\ txcur = txdma
      BY DEF TxInv, TxPlaces
    <2>4. QED
      BY <1>1, <2>1, <2>2, <2>3 DEF TxOffset, TxRing
  <1>4. ASSUME NEW i \in 0 .. N - 1
        PROVE  txdesc[(txdma + i) % N] = IF i < Queued THEN sent[1] + 1 + i
                                                       ELSE Free
    <2> DEFINE k == (txdma + i) % N
    <2>1. k = IF txdma + i < N THEN txdma + i ELSE txdma + i - N
      BY <1>2
    <2>2. k \in TxRing /\ TxOffset(k) = i
      BY <1>1, <2>1 DEF TxOffset, TxRing
    <2>3. QED
      BY <2>2 DEF TxInv, TxPlaces
  <1>5. QED
    BY <1>1, <1>3, <1>4 DEF TxWindow, TxInv, Queued

\* The frames in the ring are those handed over and not yet sent, in order;
\* what was sent was sent in order, each frame once.
THEOREM TransmitsInOrder == IfSpec => []TxWindow
  BY TxInvariant, TxInvWindow, PTL

\* low_level_output never comes to its endless loop.
THEOREM OutputReturns == IfSpec => []OutputNeverHangs
  <1>1. TxInv => OutputNeverHangs
    BY DEF TxInv, TxControl, OutputNeverHangs
  <1> QED
    BY <1>1, TxInvariant, PTL
-----------------------------------------------------------------------------
(* Reception.                                                               *)

\* The interface receives as module EthRx says: an answer that tcpip_thread
\* sends in between only delays it.
THEOREM InterfaceReceives == IfSpec => Spec
  <1>1. IfInit => Init
    BY DEF IfInit
  <1>2. [IfNext]_ifVars => [Next]_vars
    BY DEF IfNext, IfTask, IfThread, IfOutput, IfLowLevelOutput, ifVars, Next
  <1> QED
    BY <1>1, <1>2, PTL DEF IfSpec, Spec

\* What is proved of reception holds of the interface as a whole.
THEOREM InterfaceSafe ==
    IfSpec => /\ [](RingWindow /\ FramesAccounted /\ ReceptionNeverStalls)
              /\ DeliveredInOrder
  BY InterfaceReceives, RingInOrder, NoFrameUnaccounted, NeverStalls,
     DeliversInOrder, PTL
=============================================================================

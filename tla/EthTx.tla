------------------------------- MODULE EthTx -------------------------------
(***************************************************************************)
(* Transmission of Ethernet frames: low_level_output, called by            *)
(* tcpip_thread, waits for the current descriptor of a ring, copies the    *)
(* frame into its buffer and hands it to the transmit DMA.                 *)
(*                                                                         *)
(* Sources: Lib/LWIP/src/arch/ethernetif.c, and enet_frame_transmit of the *)
(* driver gd32f4xx_enet.c.  The DMA is external: it sends the frames of    *)
(* the ring in turn and suspends itself, in one step, at a descriptor it   *)
(* does not own.  lwIP's frames are never longer than the driver allows.   *)
(*                                                                         *)
(* A frame is its number in the order in which the stack handed it over.   *)
(***************************************************************************)
EXTENDS Integers

CONSTANTS
    ENET_TXBUF_NUM,  \* descriptors in the ring (5)
    MaxOut           \* bound: frames the stack sends

ASSUME EthTxAssumption == ENET_TXBUF_NUM \in Nat \ {0} /\ MaxOut \in Nat

TxRing == 0 .. ENET_TXBUF_NUM - 1
Free == 0

VARIABLES
    txdesc,     \* per descriptor: the frame it holds, Free when DAV is clear
    txcur,      \* dma_current_txdesc
    txdma,      \* the descriptor the DMA uses next
    TBU,        \* ENET_DMA_STAT_TBU: the DMA is suspended
    s_tx_semaphore,
    txpc,       \* where low_level_output is
    reval,      \* what enet_frame_transmit returned
    outs,       \* history: frames handed to low_level_output
    sent        \* history: frames sent, which are the first ones if in order

txVars == <<txdesc, txcur, txdma, TBU, s_tx_semaphore, txpc, reval, outs, sent>>

\* The descriptors are chained in a ring.
txnxt(k) == (k + 1) % ENET_TXBUF_NUM

TxInit ==
    /\ txdesc = [k \in TxRing |-> Free] /\ txcur = 0 /\ txdma = 0
    /\ TBU = FALSE /\ s_tx_semaphore = 1 /\ txpc = "idle" /\ reval = TRUE
    /\ outs = 0 /\ sent = <<0, TRUE>>
-----------------------------------------------------------------------------
\* The stack calls low_level_output.
Output ==
    /\ txpc = "idle" /\ outs < MaxOut
    /\ outs' = outs + 1 /\ txpc' = "take" /\ reval' = FALSE
    /\ UNCHANGED <<txdesc, txcur, txdma, TBU, s_tx_semaphore, sent>>

\* The semaphore is taken; without it reval is still ERROR.
TakeTxSemaphore ==
    /\ txpc = "take"
    /\ IF s_tx_semaphore = 1 THEN s_tx_semaphore' = 0 /\ txpc' = "dav"
                             ELSE txpc' = "hang" /\ UNCHANGED s_tx_semaphore
    /\ UNCHANGED <<txdesc, txcur, txdma, TBU, reval, outs, sent>>

\* Mutant of WaitDescriptor: the descriptor is not waited for.
WaitDescriptor_Not ==
    /\ txpc = "dav"
    /\ txpc' = "transmit"
    /\ UNCHANGED <<txdesc, txcur, txdma, TBU, s_tx_semaphore, reval, outs, sent>>

\* The loop on ENET_TDES0_DAV ends, and the frame is copied to the buffer.
WaitDescriptor ==
    /\ txpc = "dav" /\ txdesc[txcur] = Free
    /\ txpc' = "transmit"
    /\ UNCHANGED <<txdesc, txcur, txdma, TBU, s_tx_semaphore, reval, outs, sent>>

\* enet_frame_transmit: a descriptor of the DMA is an error, any other is
\* handed to it ...
Transmit ==
    /\ txpc = "transmit"
    /\ IF txdesc[txcur] # Free
       THEN txpc' = "give" /\ UNCHANGED <<txdesc, reval>>
       ELSE /\ txdesc' = [txdesc EXCEPT ![txcur] = outs]
            /\ txpc' = "poll" /\ reval' = TRUE
    /\ UNCHANGED <<txcur, txdma, TBU, s_tx_semaphore, outs, sent>>

\* Mutants of PollDma: the suspended DMA is not told; the pointer stays.
PollDma_Not ==
    /\ txpc = "poll"
    /\ txcur' = txnxt(txcur) /\ txpc' = "give"
    /\ UNCHANGED <<txdesc, txdma, TBU, s_tx_semaphore, reval, outs, sent>>
PollDma_Stay ==
    /\ txpc = "poll"
    /\ TBU' = FALSE /\ txpc' = "give"
    /\ UNCHANGED <<txdesc, txcur, txdma, s_tx_semaphore, reval, outs, sent>>

\* ... and a suspended DMA is resumed and the pointer moves on.
PollDma ==
    /\ txpc = "poll"
    /\ TBU' = FALSE
    /\ txcur' = txnxt(txcur) /\ txpc' = "give"
    /\ UNCHANGED <<txdesc, txdma, s_tx_semaphore, reval, outs, sent>>

\* The semaphore is given; after an error the function never returns.
GiveTxSemaphore ==
    /\ txpc = "give"
    /\ s_tx_semaphore' = 1
    /\ txpc' = IF reval THEN "idle" ELSE "hang"
    /\ UNCHANGED <<txdesc, txcur, txdma, TBU, reval, outs, sent>>

\* External: the DMA sends the frame of its descriptor and frees it.
TxDmaSend ==
    /\ ~TBU /\ txdesc[txdma] # Free
    /\ sent' = <<txdesc[txdma], sent[2] /\ txdesc[txdma] = sent[1] + 1>>
    /\ txdesc' = [txdesc EXCEPT ![txdma] = Free]
    /\ txdma' = txnxt(txdma)
    /\ UNCHANGED <<txcur, TBU, s_tx_semaphore, txpc, reval, outs>>

TxDmaSuspend ==
    /\ ~TBU /\ txdesc[txdma] = Free
    /\ TBU' = TRUE
    /\ UNCHANGED <<txdesc, txcur, txdma, s_tx_semaphore, txpc, reval, outs, sent>>

LowLevelOutput == \/ TakeTxSemaphore \/ WaitDescriptor \/ Transmit \/ PollDma
                  \/ GiveTxSemaphore
TxDma == TxDmaSend \/ TxDmaSuspend

TxTypeOK ==
    /\ txdesc \in [TxRing -> 0 .. MaxOut] /\ txcur \in TxRing /\ txdma \in TxRing
    /\ TBU \in BOOLEAN /\ s_tx_semaphore \in {0, 1} /\ reval \in BOOLEAN
    /\ txpc \in {"idle", "take", "dav", "transmit", "poll", "give", "hang"}
    /\ outs \in 0 .. MaxOut /\ sent \in (0 .. MaxOut) \X BOOLEAN

\* low_level_output never ends in its endless loop: the semaphore is free
\* whenever it is called, and the descriptor it waited for is still free when
\* enet_frame_transmit looks at it.
OutputNeverHangs == txpc # "hang"

\* The frames in the ring are the ones handed over and not yet sent, in order,
\* from the DMA's descriptor up to the task's; those sent were sent in order,
\* each once.
TxWindow ==
    LET last == IF txpc \in {"take", "dav", "transmit"} THEN outs - 1 ELSE outs
        here == IF txpc = "poll" THEN txnxt(txcur) ELSE txcur
        n == last - sent[1]
    IN  /\ sent[2]
        /\ n \in 0 .. ENET_TXBUF_NUM
        /\ here = (txdma + n) % ENET_TXBUF_NUM
        /\ \A i \in 0 .. ENET_TXBUF_NUM - 1 :
               txdesc[(txdma + i) % ENET_TXBUF_NUM] =
                   IF i < n THEN sent[1] + 1 + i ELSE Free

\* What was handed over is sent, the last frame too (the stack stops at the
\* bound): a DMA that suspended itself at any moment is resumed.
OutputsSent == (sent[1] < outs) ~> (sent[1] = outs)
=============================================================================

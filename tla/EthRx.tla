------------------------------- MODULE EthRx -------------------------------
(***************************************************************************)
(* Reception of Ethernet frames: the receive DMA fills a ring of           *)
(* descriptors and raises ENET_IRQHandler, which gives a binary semaphore; *)
(* the task ethernetif_input takes it, copies frames out of the ring into  *)
(* pbufs (low_level_input) and posts them to the mailbox of tcpip_thread.  *)
(*                                                                         *)
(* Sources: Lib/LWIP/src/arch/ethernetif.c, Core/src/main.c, and the       *)
(* driver gd32f4xx_enet.c.  The DMA engine, the mailbox and the IP stack   *)
(* behind tcpip_input are external.                                        *)
(***************************************************************************)
EXTENDS Integers, Sequences, FiniteSets

CONSTANTS
    ENET_RXBUF_NUM,  \* descriptors in the ring (5)
    PoolSize,        \* pbufs of the pool (PBUF_POOL_SIZE)
    MboxSize,        \* messages tcpip_input can have under way
    MaxFrames,       \* bound: frames the network sends
    Policies         \* whether the tasks run by priority, as built ({TRUE})

ASSUME EthRxAssumption ==
    /\ ENET_RXBUF_NUM \in Nat \ {0} /\ PoolSize \in Nat \ {0}
    /\ MboxSize \in Nat \ {0} /\ MaxFrames \in Nat
    /\ Policies \subseteq BOOLEAN

Ring == 0 .. ENET_RXBUF_NUM - 1
Frames == 1 .. MaxFrames
None == 0           \* no frame: a descriptor owned by the DMA, a NULL pbuf

VARIABLES
    desc,       \* per descriptor: the frame it holds, None when DAV is set
    dmaPtr,     \* the descriptor the DMA uses next
    suspended,  \* ENET_DMA_STAT_RBU: the DMA met a descriptor it does not own
    arrived,    \* number of frames stored by the DMA so far
    RS,         \* receive-status interrupt flag
    isr,        \* ENET_IRQHandler: "off" or before clearing the flags
    sem,        \* g_rx_semaphore
    pc,         \* ethernetif_input
    cur,        \* dma_current_rxdesc
    p,          \* the pbuf low_level_input returns
    nomem,      \* history: pbuf_alloc failed in the current low_level_input
    mbox,       \* tcpip_mbox
    handling,   \* the frame tcpip_thread works on
    kept,       \* pbufs the stack holds for the application
    delivered,  \* history: frames tcpip_thread has processed
    dropped,    \* history: frames lost, by reason
    byPriority  \* the scheduling policy of the behaviour; never changes

dmaVars == <<desc, dmaPtr, suspended, arrived, RS>>
taskVars == <<pc, cur, p, nomem>>
stackVars == <<mbox, handling, kept, delivered>>
vars == <<dmaVars, isr, sem, taskVars, stackVars, dropped, byPriority>>

\* The descriptors are chained in a ring.
nxt(k) == (k + 1) % ENET_RXBUF_NUM

Reasons == {"nomem", "raced", "input"}

\* pbufs in use: by the task, in the mailbox, in tcpip_thread, kept for later.
PbufsInUse == (IF p # None THEN 1 ELSE 0) + Len(mbox)
              + (IF handling # None THEN 1 ELSE 0) + kept

Init ==
    /\ desc = [k \in Ring |-> None]
    /\ dmaPtr = 0 /\ cur = 0
    /\ suspended = FALSE /\ RS = FALSE
    /\ arrived = 0
    /\ isr = "off" /\ sem = 0
    /\ pc = "wait" /\ p = None /\ nomem = FALSE
    /\ mbox = <<>> /\ handling = None /\ kept = 0
    /\ delivered = {} /\ dropped = [r \in Reasons |-> {}]
    /\ byPriority \in Policies
-----------------------------------------------------------------------------
\* External: the DMA stores a frame in its descriptor and flags it.
DmaStore ==
    /\ arrived < MaxFrames /\ ~suspended /\ desc[dmaPtr] = None
    /\ desc' = [desc EXCEPT ![dmaPtr] = arrived + 1]
    /\ arrived' = arrived + 1
    /\ dmaPtr' = nxt(dmaPtr)
    /\ RS' = TRUE
    /\ UNCHANGED <<byPriority, suspended, isr, sem, taskVars, stackVars,
                   dropped>>

\* External: no descriptor for the frame on the wire; reception is suspended.
DmaSuspend ==
    /\ ~suspended /\ desc[dmaPtr] # None /\ arrived < MaxFrames
    /\ suspended' = TRUE
    /\ UNCHANGED <<byPriority, desc, dmaPtr, arrived, RS, isr, sem, taskVars,
                   stackVars, dropped>>

\* ENET_IRQHandler: the semaphore is given when the receive flag is up ...
IrqGive ==
    /\ isr = "off" /\ RS
    /\ sem' = 1
    /\ isr' = "clear"
    /\ UNCHANGED <<byPriority, dmaVars, taskVars, stackVars, dropped>>

\* ... and only then are the flags cleared.
IrqClear ==
    /\ isr = "clear"
    /\ RS' = FALSE
    /\ isr' = "off"
    /\ UNCHANGED <<byPriority, desc, dmaPtr, suspended, arrived, sem,
                   taskVars, stackVars, dropped>>
-----------------------------------------------------------------------------
\* When ethernetif_input may run: no interrupt handler is active and, with the
\* priorities as built (tcpip_thread 10, ethernetif_input 9), tcpip_thread is
\* blocked on an empty mailbox.
TaskRuns == isr = "off" /\ (byPriority => mbox = <<>> /\ handling = None)

TakeSemaphore ==
    /\ pc = "wait" /\ TaskRuns
    /\ sem = 1
    /\ sem' = 0
    /\ pc' = "alloc"
    /\ UNCHANGED <<byPriority, dmaVars, isr, cur, p, nomem, stackVars,
                   dropped>>

\* low_level_input: the frame length of the current descriptor is read (0 when
\* the DMA owns it), a pbuf is allocated and the frame copied.
AllocAndCopy ==
    /\ pc = "alloc" /\ TaskRuns
    /\ p' = IF PbufsInUse < PoolSize THEN desc[cur] ELSE None
    /\ nomem' = (desc[cur] # None /\ PbufsInUse >= PoolSize)
    /\ pc' = "release"
    /\ UNCHANGED <<byPriority, dmaVars, isr, sem, cur, stackVars, dropped>>

\* Mutant of ReleaseDescriptor: the ownership bit is not looked at.
ReleaseDescriptor_Blind ==
    /\ pc = "release" /\ TaskRuns
    /\ desc' = [desc EXCEPT ![cur] = None]
    /\ pc' = "resume"
    /\ dropped' = IF p # None \/ desc[cur] = None THEN dropped
                  ELSE [dropped EXCEPT ![IF nomem THEN "nomem" ELSE "raced"]
                                           = @ \cup {desc[cur]}]
    /\ UNCHANGED <<byPriority, dmaPtr, suspended, arrived, RS, isr, sem, cur,
                   p, nomem, stackVars>>

\* enet_frame_receive(NULL, 0): a descriptor the DMA owns is left alone;
\* otherwise it is handed back, whether or not its frame was copied.
ReleaseDescriptor ==
    /\ pc = "release" /\ TaskRuns
    /\ IF desc[cur] = None
       THEN pc' = "wait" /\ UNCHANGED <<desc, dropped>>
       ELSE /\ desc' = [desc EXCEPT ![cur] = None]
            /\ pc' = "resume"
            /\ dropped' = IF p # None THEN dropped
                          ELSE [dropped EXCEPT ![IF nomem THEN "nomem"
                                                 ELSE "raced"] = @ \cup {desc[cur]}]
    /\ UNCHANGED <<byPriority, dmaPtr, suspended, arrived, RS, isr, sem, cur,
                   p, nomem, stackVars>>

\* Mutant of ResumeDma: the suspended DMA is not told.
ResumeDma_NoPoll ==
    /\ pc = "resume" /\ TaskRuns
    /\ cur' = nxt(cur)
    /\ pc' = IF p # None THEN "input" ELSE "wait"
    /\ UNCHANGED <<byPriority, dmaVars, isr, sem, p, nomem, stackVars,
                   dropped>>

\* The rest of enet_frame_receive: a suspended DMA is resumed and the current
\* descriptor moves on.  Without a pbuf the task goes back to its semaphore.
ResumeDma ==
    /\ pc = "resume" /\ TaskRuns
    /\ suspended' = FALSE
    /\ cur' = nxt(cur)
    /\ pc' = IF p # None THEN "input" ELSE "wait"
    /\ UNCHANGED <<byPriority, desc, dmaPtr, arrived, RS, isr, sem, p, nomem,
                   stackVars, dropped>>

MboxFull == Len(mbox) + (IF handling # None THEN 1 ELSE 0) >= MboxSize

\* Mutant of InputOk: the task waits for the semaphore after every frame.
InputOk_OnePerSignal ==
    /\ pc = "input" /\ TaskRuns /\ ~MboxFull
    /\ mbox' = Append(mbox, p)
    /\ p' = None
    /\ pc' = "wait"
    /\ UNCHANGED <<byPriority, dmaVars, isr, sem, cur, nomem, handling, kept,
                   delivered, dropped>>

\* Mutant of InputOk: the pbuf handed over is freed as well.
InputOk_Free ==
    /\ pc = "input" /\ TaskRuns /\ ~MboxFull
    /\ mbox' = Append(mbox, p)
    /\ dropped' = [dropped EXCEPT !["input"] = @ \cup {p}]
    /\ p' = None
    /\ pc' = "alloc"
    /\ UNCHANGED <<byPriority, dmaVars, isr, sem, cur, nomem, handling, kept,
                   delivered>>

\* Mutant of InputOk: the message is posted at the front of the mailbox.
InputOk_Front ==
    /\ pc = "input" /\ TaskRuns /\ ~MboxFull
    /\ mbox' = <<p>> \o mbox
    /\ p' = None
    /\ pc' = "alloc"
    /\ UNCHANGED <<byPriority, dmaVars, isr, sem, cur, nomem, handling, kept,
                   delivered, dropped>>

\* low_netif->input accepted the pbuf: the next frame is tried at once.
InputOk ==
    /\ pc = "input" /\ TaskRuns /\ ~MboxFull
    /\ mbox' = Append(mbox, p)
    /\ p' = None
    /\ pc' = "alloc"
    /\ UNCHANGED <<byPriority, dmaVars, isr, sem, cur, nomem, handling, kept,
                   delivered, dropped>>

\* It did not: the pbuf is freed and the task waits for the next interrupt.
InputError ==
    /\ pc = "input" /\ TaskRuns /\ MboxFull
    /\ dropped' = [dropped EXCEPT !["input"] = @ \cup {p}]
    /\ p' = None
    /\ pc' = "wait"
    /\ UNCHANGED <<byPriority, dmaVars, isr, sem, cur, nomem, stackVars>>
-----------------------------------------------------------------------------
\* External: tcpip_thread takes a message and processes the frame; its pbuf is
\* freed or kept until the application has read it.
Fetch ==
    /\ isr = "off" /\ handling = None /\ mbox # <<>>
    /\ handling' = Head(mbox)
    /\ mbox' = Tail(mbox)
    /\ UNCHANGED <<byPriority, dmaVars, isr, sem, taskVars, kept, delivered,
                   dropped>>

Process ==
    /\ isr = "off" /\ handling # None
    /\ delivered' = delivered \cup {handling}
    /\ handling' = None
    /\ kept' \in {kept, kept + 1}
    /\ UNCHANGED <<byPriority, dmaVars, isr, sem, taskVars, mbox, dropped>>

AppRead ==
    /\ isr = "off" /\ kept > 0
    /\ kept' = kept - 1
    /\ UNCHANGED <<byPriority, dmaVars, isr, sem, taskVars, mbox, handling,
                   delivered, dropped>>

Dma == DmaStore \/ DmaSuspend
Irq == IrqGive \/ IrqClear
Task == \/ TakeSemaphore \/ AllocAndCopy \/ ReleaseDescriptor \/ ResumeDma
        \/ InputOk \/ InputError
TcpipThread == Fetch \/ Process

Next == Dma \/ Irq \/ Task \/ TcpipThread \/ AppRead

Spec == Init /\ [][Next]_vars

\* Pending interrupts are served and ready tasks run; the application reads.
FairSpec == Spec /\ WF_vars(Irq) /\ WF_vars(Task) /\ WF_vars(TcpipThread)
                 /\ WF_vars(AppRead)
-----------------------------------------------------------------------------
InRing == {desc[k] : k \in Ring} \ {None}
InFlight == ({p, handling} \cup {mbox[i] : i \in 1 .. Len(mbox)}) \ {None}
Lost == UNION {dropped[r] : r \in Reasons}

TypeOK ==
    /\ desc \in [Ring -> Frames \cup {None}]
    /\ dmaPtr \in Ring /\ cur \in Ring
    /\ arrived \in 0 .. MaxFrames
    /\ suspended \in BOOLEAN /\ RS \in BOOLEAN /\ nomem \in BOOLEAN
    /\ isr \in {"off", "clear"} /\ sem \in {0, 1}
    /\ pc \in {"wait", "alloc", "release", "resume", "input"}
    /\ p \in Frames \cup {None} /\ handling \in Frames \cup {None}
    /\ mbox \in Seq(Frames) /\ Len(mbox) <= MboxSize
    /\ kept \in 0 .. PoolSize
    /\ delivered \subseteq Frames
    /\ dropped \in [Reasons -> SUBSET Frames]
    /\ byPriority \in Policies

\* The frames in the ring are the youngest ones, oldest first from the task's
\* current descriptor up to the DMA's: neither pointer ever runs past the
\* other, also when a frame arrives in the middle of low_level_input.
RingWindow ==
    LET first == IF pc = "resume" THEN nxt(cur) ELSE cur
        n == Cardinality(InRing)
    IN  /\ dmaPtr = (first + n) % ENET_RXBUF_NUM
        /\ \A i \in 0 .. n - 1 :
               desc[(first + i) % ENET_RXBUF_NUM] = arrived - n + 1 + i

\* Every frame the DMA stored is in exactly one place: in the ring, on its way
\* to the stack, delivered, or counted as lost; none is delivered twice.  (A
\* frame copied but not yet released is in the ring and on its way.)
FramesAccounted ==
    /\ 1 .. arrived = InRing \cup InFlight \cup delivered \cup Lost
    /\ InRing \cap (delivered \cup Lost) = {}
    /\ InRing \cap InFlight \subseteq (IF pc = "release" THEN {p} ELSE {})
    /\ InFlight \cap (delivered \cup Lost) = {}
    /\ delivered \cap Lost = {}

\* Frames reach the stack in the order of their arrival.
DeliveredInOrder ==
    [][\A f \in delivered' \ delivered : \A g \in delivered : g < f]_vars

\* No interleaving of interrupt, task and DMA stalls reception: when the task
\* waits and nothing will wake it, the DMA still has a descriptor and is not
\* suspended, so the next frame brings an interrupt.
ReceptionNeverStalls ==
    pc = "wait" /\ sem = 0 /\ ~RS /\ isr = "off"
        => ~suspended \/ arrived = MaxFrames

\* The ring is emptied once the network is quiet (it stops at the bound),
\* however the interrupt races with the task, as long as no allocation fails
\* and no frame is refused.
FramesLeaveRing ==
    (InRing # {}) ~> (InRing = {} \/ dropped["nomem"] \cup dropped["input"] # {})

\* low_level_input returns "a pbuf filled with the received packet", and
\* "NULL on memory error": no received packet is consumed otherwise.
NullOnlyOnMemoryError == dropped["raced"] = {}

\* The task "is processed when a packet is ready to be read from the
\* interface": a packet that stays ready is read.
ReadyPacketProcessed == \A f \in Frames : (f \in InRing) ~> (f \notin InRing)
=============================================================================

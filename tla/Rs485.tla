------------------------------- MODULE Rs485 -------------------------------
(***************************************************************************)
(* Temperature acquisition over RS-485: ReadTemp asks the sensors of one   *)
(* half in turn; MAX485_SendData sends a request by DMA, turns the bus     *)
(* round, and waits for RT_Flag, which the interrupt of the receive DMA    *)
(* (DMA1_Channel1_IRQHandler) or the receiver time-out of the USART        *)
(* (USART5_IRQHandler) sets.  What lies in Re_Buff is then stored.         *)
(*                                                                         *)
(* Source: Core/Peripheral/MAX485.c, compiled with DMA_Send.  The DMA      *)
(* channel, the transceiver and the sensors are external.                  *)
(*                                                                         *)
(* A received byte is represented by its age: how many requests ago the    *)
(* request was sent that it answers (0 is the request under way).  A       *)
(* temperature is represented by the ages its two bytes had when stored.   *)
(***************************************************************************)
EXTENDS Integers

CONSTANTS
    Half,       \* sensors of one half (14)
    AnswerLen,  \* bytes of an answer: address, function, count, 2 data, 2 CRC (7)
    HighByte,   \* offsets of the two bytes of the value in an answer (3, 4);
    LowByte,    \* the address is its byte 0
    DmaLen,     \* bytes the receive channel is programmed for (8)
    AgeCap      \* bound: requests are told apart up to this many back

MAX_TEMP_NUM == 2 * Half

ASSUME Rs485Assumption ==
    /\ Half \in Nat \ {0}
    /\ {HighByte, LowByte, AnswerLen, DmaLen} \subseteq Nat \ {0}
    /\ HighByte < LowByte /\ LowByte < AnswerLen /\ LowByte < DmaLen
    /\ AgeCap \in Nat \ {0}

Ages == 0 .. AgeCap
None == -1

VARIABLES
    pc,           \* ReadTemp and MAX485_SendData
    Aging_Pack,   \* which half ReadTemp asks; AgingPack flips it afterwards
    Temp_Index, RT_Flag, Re_Flag,
    stored,       \* what Temperature[Temp_Index] was last set to; <<>> at start
    driving,      \* MAX485EN: the transceiver sends, its receiver is off
    DENR,         \* the USART asks the receive channel to fetch its bytes
    chan,         \* bytes the receive channel still takes; 0 is switched off
    ftf,          \* the transfer-complete interrupt of the channel is pending
    Re_Buff,      \* the ages of its bytes; AgeCap at start
    known,        \* Re_Buff[0] is the address of a sensor: 1, 2, 100 or 101
    silence,      \* bytes came since the last time-out: it will strike
    rbne,         \* a byte nobody fetches keeps USART5_IRQHandler busy
    pending,      \* age of the request a sensor has yet to answer, or None
    wire,         \* next byte of the answer on the bus, or None
    wireAge,      \* age of that answer, and whether its address is intact
    wireOk,
    mute,         \* the request under way will not be answered
    lost,         \* history: some request was not answered
    late          \* history: a time-out struck while a request was being sent

task == <<pc, Aging_Pack, Temp_Index, stored, Re_Flag>>
bus == <<pending, wire, wireAge, wireOk>>
hist == <<lost, late>>
vars == <<task, RT_Flag, driving, DENR, chan, ftf, Re_Buff, known, silence,
          rbne, bus, mute, hist>>

\* A new request makes all earlier ones one older.
Older(a) == IF a = AgeCap THEN AgeCap ELSE a + 1

\* MAX485_Init and usart_dma_config: both channels are switched on at once.
Init ==
    /\ pc = "send" /\ Aging_Pack = 0 /\ Temp_Index = 0
    /\ stored = <<>>
    /\ RT_Flag = 0 /\ Re_Flag = 0
    /\ driving = FALSE /\ DENR = TRUE /\ chan = DmaLen /\ ftf = FALSE
    /\ Re_Buff = [k \in 0 .. DmaLen - 1 |-> AgeCap] /\ known = FALSE
    /\ silence = FALSE /\ rbne = FALSE
    /\ pending = None /\ wire = None
    /\ wireAge = AgeCap /\ wireOk = FALSE
    /\ mute = FALSE /\ lost = FALSE /\ late = FALSE
-----------------------------------------------------------------------------
\* Mutant of SendRequest: the flag of the last answer is left standing.
SendRequest_NoClear ==
    /\ pc = "send"
    /\ Re_Flag' = 0
    /\ driving' = TRUE /\ DENR' = FALSE
    /\ Re_Buff' = [k \in 0 .. DmaLen - 1 |-> Older(Re_Buff[k])]
    /\ pending' = IF pending = None THEN None ELSE Older(pending)
    /\ mute' = FALSE /\ wire' = None
    /\ pc' = "transmit"
    /\ UNCHANGED <<Aging_Pack, Temp_Index, stored, RT_Flag, chan, ftf,
                   known, silence, rbne,
                   wireAge, wireOk, hist>>

\* ReadTemp starts a request, and MAX485_SendData up to the end of the
\* transmission: the bus is driven and the receive request is switched off.
\* The rest of an answer still on the bus is not heard.
SendRequest ==
    /\ pc = "send"
    /\ Re_Flag' = 0 /\ RT_Flag' = 0
    /\ driving' = TRUE /\ DENR' = FALSE
    /\ Re_Buff' = [k \in 0 .. DmaLen - 1 |-> Older(Re_Buff[k])]
    /\ pending' = IF pending = None THEN None ELSE Older(pending)
    /\ mute' = FALSE /\ wire' = None
    /\ pc' = "transmit"
    /\ UNCHANGED <<Aging_Pack, Temp_Index, stored, chan, ftf, known,
                   silence, rbne, wireAge, wireOk, hist>>

\* Mutant of EnableChannel: dma_channel_enable is left out.
EnableChannel_Never == chan

\* dma_channel_enable: a channel that has finished starts again at the front
\* of Re_Buff; one that has not goes on where it is.
EnableChannel == IF chan = 0 THEN DmaLen ELSE chan

\* The transmission is complete (TC): the bus is turned round and reception
\* enabled.  The sensor will answer, or (external) the request or its answer
\* is lost; a sensor late with its last answer may send that one.
TransmitComplete ==
    /\ pc = "transmit"
    /\ driving' = FALSE
    /\ chan' = EnableChannel
    /\ DENR' = TRUE
    /\ \/ pending' = 0 /\ UNCHANGED <<mute, lost>>
       \/ pending' \in {None, pending} /\ mute' = TRUE /\ lost' = TRUE
    /\ pc' = "wait"
    /\ UNCHANGED <<Aging_Pack, Temp_Index, stored, RT_Flag, Re_Flag, ftf,
                   Re_Buff, known, silence, rbne, wire, wireAge, wireOk, late>>

\* The wait for RT_Flag is over: Re_Buff is stored when it begins with the
\* address of a sensor; otherwise ReadTemp waits for Re_Flag.
StoreAnswer ==
    /\ pc = "wait" /\ RT_Flag = 1
    /\ IF known
       THEN /\ stored' = <<Re_Buff[HighByte], Re_Buff[LowByte]>>
            /\ Re_Flag' = 1
       ELSE UNCHANGED <<stored, Re_Flag>>
    /\ pc' = "next"
    /\ UNCHANGED <<Aging_Pack, Temp_Index, RT_Flag, driving, DENR, chan, ftf,
                   Re_Buff, known, silence, rbne, bus, mute, hist>>

\* The end of ReadTemp's inner loop, at once or after 22 delays of 50 ms (no
\* interrupt sets Re_Flag), and the next sensor of this half.
NextSensor ==
    /\ pc = "next"
    /\ Temp_Index' = Temp_Index + 1
    /\ pc' = IF Temp_Index + 1 < (IF Aging_Pack = 0 THEN Half ELSE MAX_TEMP_NUM)
             THEN "send" ELSE "done"
    /\ UNCHANGED <<Aging_Pack, stored, RT_Flag, Re_Flag, driving, DENR,
                   chan, ftf, Re_Buff, known, silence, rbne, bus, mute, hist>>

\* AgingPack flips the half and the task calls ReadTemp again.
NextRound ==
    /\ pc = "done"
    /\ Aging_Pack' = 1 - Aging_Pack
    /\ Temp_Index' = IF Aging_Pack = 0 THEN Half ELSE 0
    /\ pc' = "send"
    /\ UNCHANGED <<stored, RT_Flag, Re_Flag, driving, DENR, chan, ftf,
                   Re_Buff, known, silence, rbne, bus, mute, hist>>
-----------------------------------------------------------------------------
\* DMA1_Channel1_IRQHandler.
DmaIrq ==
    /\ ftf
    /\ ftf' = FALSE
    /\ RT_Flag' = 1
    /\ UNCHANGED <<task, driving, DENR, chan, Re_Buff, known, silence, rbne,
                   bus, mute, hist>>

\* Mutants of TimeoutIrq: the interrupt flag is not cleared, and the task is
\* not told.
TimeoutIrq_NoClear ==
    /\ silence /\ wire = None
    /\ DENR' = FALSE
    /\ RT_Flag' = 1
    /\ late' = (late \/ pc = "transmit")
    /\ UNCHANGED <<task, driving, chan, ftf, Re_Buff, known, silence, rbne, bus,
                   mute, lost>>
TimeoutIrq_NoFlag ==
    /\ silence /\ wire = None
    /\ silence' = FALSE
    /\ DENR' = FALSE
    /\ late' = (late \/ pc = "transmit")
    /\ UNCHANGED <<task, RT_Flag, driving, chan, ftf, Re_Buff, known, rbne, bus,
                   mute, lost>>

\* USART5_IRQHandler, receiver time-out: the line has been silent for 9600
\* bit times since the last byte.  The task may be anywhere by then.
TimeoutIrq ==
    /\ silence /\ wire = None
    /\ silence' = FALSE
    /\ DENR' = FALSE
    /\ RT_Flag' = 1
    /\ late' = (late \/ pc = "transmit")
    /\ UNCHANGED <<task, driving, chan, ftf, Re_Buff, known, rbne, bus, mute,
                   lost>>

\* External: a sensor begins its answer; the address may arrive damaged.
AnswerStarts ==
    /\ pending # None /\ ~driving /\ wire = None
    /\ wire' = 0
    /\ wireAge' = pending /\ wireOk' \in BOOLEAN
    /\ pending' = None
    /\ UNCHANGED <<task, RT_Flag, driving, DENR, chan, ftf, Re_Buff, known,
                   silence, rbne, mute, hist>>

\* External: a byte of the answer arrives.  The channel stores it and, with
\* its last byte, switches itself off.  A byte the channel does not fetch
\* stays in the USART: the RBNE branch of USART5_IRQHandler does not read it.
ByteArrives ==
    /\ wire # None /\ ~driving
    /\ wire' = IF wire + 1 = AnswerLen THEN None ELSE wire + 1
    /\ silence' = TRUE
    /\ IF DENR /\ chan > 0
       THEN /\ Re_Buff' = [Re_Buff EXCEPT ![DmaLen - chan] = wireAge]
            /\ known' = IF chan = DmaLen THEN wireOk ELSE known
            /\ chan' = chan - 1
            /\ ftf' = (ftf \/ chan = 1)
            /\ UNCHANGED rbne
       ELSE rbne' = TRUE /\ UNCHANGED <<Re_Buff, known, chan, ftf>>
    /\ UNCHANGED <<task, RT_Flag, driving, DENR, pending, wireAge, wireOk,
                   mute, hist>>

Task == \/ SendRequest \/ TransmitComplete \/ StoreAnswer \/ NextSensor
        \/ NextRound
Irq == DmaIrq \/ TimeoutIrq
Sensor == AnswerStarts \/ ByteArrives

\* With rbne the handler is entered again and again and nothing else runs.
Next == ~rbne /\ (Task \/ Irq \/ Sensor)

Spec == Init /\ [][Next]_vars

\* The task runs, interrupts are served, and a sensor that answers finishes.
FairSpec == /\ Spec /\ WF_vars(~rbne /\ Task) /\ WF_vars(~rbne /\ Sensor)
            /\ WF_vars(~rbne /\ DmaIrq) /\ WF_vars(~rbne /\ TimeoutIrq)
-----------------------------------------------------------------------------
\* The state keeps its types and bounds.
TypeOK ==
    /\ pc \in {"send", "transmit", "wait", "next", "done"}
    /\ Aging_Pack \in {0, 1} /\ Temp_Index \in 0 .. MAX_TEMP_NUM
    /\ stored \in {<<>>} \cup (Ages \X Ages)
    /\ RT_Flag \in {0, 1} /\ Re_Flag \in {0, 1}
    /\ {driving, DENR, ftf, silence, rbne, mute, lost, late} \subseteq BOOLEAN
    /\ chan \in 0 .. DmaLen
    /\ Re_Buff \in [0 .. DmaLen - 1 -> Ages]
    /\ pending \in Ages \cup {None} /\ wire \in 0 .. AnswerLen - 1 \cup {None}
    /\ wireAge \in Ages /\ {known, wireOk} \subseteq BOOLEAN

\* The two bytes of a stored temperature come from one answer, however the
\* interrupts cut the bytes into packets, unless a time-out left over from an
\* earlier answer struck while a request was being sent: SendData has cleared
\* RT_Flag by then and takes it for the end of the new answer.
ValueOfOneAnswer ==
    ~late /\ stored # <<>> => stored[1] = stored[2]

\* While the task waits and no interrupt is due, the next byte will be taken:
\* no time-out or early transfer complete of an earlier answer leaves the
\* reception of this one switched off.
ReadyToReceive ==
    pc = "wait" /\ RT_Flag = 0 /\ ~ftf => DENR /\ chan > 0 /\ ~driving

\* A stored temperature is at most two requests old.
AtMostTwoBack ==
    ~late /\ ~lost /\ stored # <<>> => stored[1] <= 2

\* A round ends unless an answer is lost or a byte arrives that nobody takes:
\* the unbounded wait for RT_Flag is no other way to stop the sampling task.
RoundEnds == (pc # "done") ~> (pc = "done" \/ (pc = "wait" /\ mute) \/ rbne)

\* "Two methods to get a complete packet, counting and time-out": what is
\* stored for a request is the answer to this request.
CompletePacket ==
    stored # <<>> => stored = <<0, 0>>
=============================================================================

--------------------------- MODULE CommandProofs ---------------------------
(***************************************************************************)
(* Proofs about the commands of the client, for every number of fields,    *)
(* packets, DACs, words of calibration and commands.                       *)
(***************************************************************************)
EXTENDS Command, TLAPS

-----------------------------------------------------------------------------
(* The two packets implement PacketStore.                                   *)

PacketTypes ==
    /\ Aging_Pack \in {0, 1} /\ source \in {0, 1}
    /\ begun \in Nat
    /\ pack \in [{0, 1} -> [Fields -> Nat]]
    /\ fill \in (0 .. NumFields) \cup {None}
    /\ sendPc \in {"idle", "else", "head", "sum", "copy", "tail"}
    /\ k \in 0 .. NumFields
    /\ SUM \in [Fields -> Nat] /\ ChanData \in [Fields -> Nat]
    /\ asked \in Nat \cup {None}

\* No field is of a packing that has not begun.
NoNewerField ==
    \A f \in Fields : /\ pack[0][f] <= begun /\ pack[1][f] <= begun
                      /\ ChanData[f] <= begun

\* The packing under way fills the packet Aging_Pack names; the other one is
\* the newest complete packet.
NewestPacket ==
    /\ fill # None => begun >= 1 /\ \A f \in 1 .. fill : pack[Aging_Pack][f] = begun
    /\ \A f \in Fields : pack[1 - Aging_Pack][f] = packed
    /\ Aging_Pack = 1 => packed >= 1

\* The packet SendData is going to send.
Sending == IF sendPc = "else" THEN 1 ELSE source

\* The second packing since the call of SendData has not begun.
InTime == begun <= asked + 1

\* A call of SendData works on the packet that was the newest when it began ...
SendingPacket ==
    /\ (sendPc = "idle") <=> (asked = None)
    /\ sendPc # "idle" => asked <= packed /\ answer = None
    /\ sendPc # "idle" /\ InTime =>
          /\ Sending = IF packed = asked THEN 1 - Aging_Pack ELSE Aging_Pack
          /\ \A f \in Fields : pack[Sending][f] = asked

\* ... and, in time, what it has summed and copied is of that packet.
SentFields ==
    /\ sendPc \in {"sum", "copy"} => k \in Fields
    /\ sendPc = "sum" /\ InTime => \A f \in Fields : f < k => SUM[f] = asked
    /\ sendPc \in {"copy", "tail"} /\ InTime => \A f \in Fields : SUM[f] = asked
    /\ sendPc = "copy" /\ InTime =>
          \A f \in Fields : f < k => ChanData[f] = asked
    /\ sendPc = "tail" /\ InTime => \A f \in Fields : ChanData[f] = asked

PacketsInv ==
    PacketTypes /\ NoNewerField /\ NewestPacket /\ SendingPacket /\ SentFields

\* What a step does to the packets.
PacketStep ==
    \/ PackBegin \/ PackField \/ PackFlip
    \/ SendData \/ SendDataElse \/ SendHead \/ SendSum \/ SendCopy \/ SendTail
    \/ PacketsRestart \/ UNCHANGED packetVars

LEMMA NextPackets == [Next]_vars => PacketStep
  <1> SUFFICES ASSUME [Next]_vars PROVE PacketStep
    OBVIOUS
  <1> USE DEF PacketStep
  <1>1. CASE AppTask
    BY <1>1 DEF AppTask, AppReadADC, AppFrame, AppPack, Pack
  <1>2. CASE TcpTask
    BY <1>2
       DEF TcpTask, EthernetInterfaceHandler, PC_DATAHandler, Reply, RunSendData,
           SendDataOn, SendOn, ALE_LED_CTRL, ALE_LED_CTRL_None, SetFan_Speed,
           SetValve, SetValveFrame, WriteKB, ProgramKB
  <1>3. CASE \E c \in Commands, f \in Frames : Receive(c, f)
    BY <1>3 DEF Receive
  <1>4. CASE Restart
    BY <1>4 DEF Restart
  <1>5. CASE UNCHANGED vars
    BY <1>5 DEF vars
  <1> QED
    BY <1>1, <1>2, <1>3, <1>4, <1>5 DEF Next

LEMMA PacketsInvInit == PacketsInit => PacketsInv
  BY PacketsAssumption
     DEF PacketsInit, PacketsInv, PacketTypes, NoNewerField, NewestPacket,
         SendingPacket, SentFields, Sending, packed, Zero, Fields, None

LEMMA PackBeginInv == PacketsInv /\ PackBegin => PacketsInv'
  <1> SUFFICES ASSUME PacketsInv, PackBegin PROVE PacketsInv'
    OBVIOUS
  <1> USE PacketsAssumption DEF PacketsInv, None, Fields
  <1>1. packed' = packed /\ packed = begun
    BY DEF PackBegin, packed, PacketTypes
  <1>2. PacketTypes' /\ NoNewerField'
    BY DEF PackBegin, PacketTypes, NoNewerField, sendVars
  <1>3. NewestPacket'
    BY <1>1 DEF PackBegin, NewestPacket, PacketTypes
  <1>4. SendingPacket' /\ SentFields'
    BY <1>1 DEF PackBegin, SendingPacket, SentFields, InTime, Sending,
                PacketTypes, sendVars
  <1> QED
    BY <1>2, <1>3, <1>4

LEMMA PackFieldInv == PacketsInv /\ PackField => PacketsInv'
  <1> SUFFICES ASSUME PacketsInv, PackField PROVE PacketsInv'
    OBVIOUS
  <1> USE PacketsAssumption DEF PacketsInv, None, Fields
  <1>1. packed' = packed /\ packed = begun - 1
    BY DEF PackField, packed, PacketTypes
  <1>2. /\ fill + 1 \in Fields /\ Aging_Pack \in {0, 1}
        /\ pack' = [pack EXCEPT ![Aging_Pack][fill + 1] = begun]
        /\ pack \in [{0, 1} -> [Fields -> Nat]] /\ begun \in Nat
    BY DEF PackField, PacketTypes
  <1>3. /\ pack' \in [{0, 1} -> [Fields -> Nat]]
        /\ pack'[1 - Aging_Pack] = pack[1 - Aging_Pack]
        /\ \A f \in Fields : pack'[Aging_Pack][f] =
               IF f = fill + 1 THEN begun ELSE pack[Aging_Pack][f]
    BY <1>2
  <1>4. PacketTypes'
    <2>1. fill' \in 0 .. NumFields
      BY DEF PackField
    <2>2. UNCHANGED <<Aging_Pack, begun, source, sendPc, k, SUM, ChanData, asked>>
      BY DEF PackField, sendVars
    <2>3. QED
      BY <1>3, <2>1, <2>2 DEF PacketTypes
  <1>5. NoNewerField'
    <2>1. CASE Aging_Pack = 0
      BY <1>2, <1>3, <2>1 DEF PackField, NoNewerField, sendVars
    <2>2. CASE Aging_Pack = 1
      BY <1>2, <1>3, <2>2 DEF PackField, NoNewerField, sendVars
    <2>3. QED
      BY <1>2, <2>1, <2>2
  <1>6. NewestPacket'
    BY <1>1, <1>3 DEF PackField, NewestPacket, PacketTypes
  <1>7. SendingPacket' /\ SentFields'
    BY <1>1, <1>3 DEF PackField, SendingPacket, SentFields, InTime, Sending,
                      PacketTypes, sendVars
  <1> QED
    BY <1>4, <1>5, <1>6, <1>7

LEMMA PackFlipInv == PacketsInv /\ PackFlip => PacketsInv'
  <1> SUFFICES ASSUME PacketsInv, PackFlip PROVE PacketsInv'
    OBVIOUS
  <1> USE PacketsAssumption DEF PacketsInv, None, Fields
  <1>1. packed' = packed + 1 /\ packed' = begun /\ packed = begun - 1
    BY DEF PackFlip, packed, PacketTypes
  <1>2. PacketTypes' /\ NoNewerField'
    BY DEF PackFlip, PacketTypes, NoNewerField, sendVars
  <1>3. NewestPacket'
    BY <1>1 DEF PackFlip, NewestPacket, PacketTypes
  <1>4. SendingPacket' /\ SentFields'
    BY <1>1 DEF PackFlip, SendingPacket, SentFields, InTime, Sending,
                PacketTypes, sendVars
  <1> QED
    BY <1>2, <1>3, <1>4

\* The steps of SendData leave the packets alone.
LEMMA SendInv ==
  ASSUME PacketsInv,
         SendData \/ SendDataElse \/ SendHead \/ SendSum \/ SendCopy \/ SendTail
  PROVE  PacketsInv'
  <1> USE PacketsAssumption DEF None, Fields
  <1>i. PacketTypes /\ NoNewerField /\ NewestPacket /\ SendingPacket /\ SentFields
    BY DEF PacketsInv
  <1>0. UNCHANGED <<Aging_Pack, pack, begun, fill>>
    BY DEF SendData, SendDataElse, SendHead, SendSum, SendCopy, SendTail, packVars
  <1>1. packed' = packed /\ packed \in Nat /\ packed <= begun /\ begun \in Nat
        /\ begun <= packed + 1
    BY <1>0, <1>i DEF packed, PacketTypes, NewestPacket
  <1>2. NewestPacket'
    BY <1>0, <1>1, <1>i DEF NewestPacket
  <1>3. CASE SendData
    <2>1. PacketTypes' /\ NoNewerField'
      BY <1>0, <1>1, <1>3, <1>i DEF SendData, PacketTypes, NoNewerField
    <2>2. /\ sendPc' \in {"else", "head"} /\ asked' = packed /\ answer' = None
          /\ Sending' = 1 - Aging_Pack
      <3>1. Aging_Pack \in {0, 1}
        BY <1>i DEF PacketTypes
      <3>2. CASE Aging_Pack = 1
        BY <1>3, <3>2 DEF SendData, Sending
      <3>3. CASE Aging_Pack = 0
        BY <1>3, <3>3 DEF SendData, Sending
      <3>4. QED
        BY <3>1, <3>2, <3>3
    <2>3. SendingPacket'
      BY <1>0, <1>1, <1>i, <2>2 DEF SendingPacket, NewestPacket
    <2>4. SentFields'
      BY <2>2 DEF SentFields
    <2>5. QED
      BY <1>2, <2>1, <2>3, <2>4 DEF PacketsInv
  <1>4. CASE SendDataElse
    <2>1. PacketTypes' /\ NoNewerField'
      BY <1>0, <1>4, <1>i DEF SendDataElse, PacketTypes, NoNewerField
    <2>2. SendingPacket' /\ SentFields'
      BY <1>0, <1>1, <1>4, <1>i
         DEF SendDataElse, SendingPacket, SentFields, Sending, InTime
    <2>3. QED
      BY <1>2, <2>1, <2>2 DEF PacketsInv
  <1>5. CASE SendHead
    <2>1. PacketTypes' /\ NoNewerField'
      BY <1>0, <1>5, <1>i DEF SendHead, PacketTypes, NoNewerField
    <2>2. SendingPacket'
      BY <1>0, <1>1, <1>5, <1>i DEF SendHead, SendingPacket, Sending, InTime
    <2>3. SentFields'
      BY <1>5 DEF SendHead, SentFields
    <2>4. QED
      BY <1>2, <2>1, <2>2, <2>3 DEF PacketsInv
  <1>6. CASE SendSum
    <2>1. /\ k \in Fields /\ source \in {0, 1} /\ SUM \in [Fields -> Nat]
          /\ SUM' = [SUM EXCEPT ![k] = pack[source][k]]
          /\ UNCHANGED <<source, ChanData, asked, answer>>
          /\ pack[source][k] \in Nat
          /\ IF k = NumFields THEN sendPc' = "copy" /\ k' = 1
                              ELSE k' = k + 1 /\ sendPc' = "sum"
      BY <1>6, <1>i DEF SendSum, PacketTypes, SentFields
    <2>2. /\ SUM' \in [Fields -> Nat]
          /\ \A f \in Fields : SUM'[f] = IF f = k THEN pack[source][k] ELSE SUM[f]
      BY <2>1
    <2>k. k' \in 0 .. NumFields /\ sendPc' \in {"sum", "copy"}
      BY <2>1
    <2>3. PacketTypes' /\ NoNewerField'
      BY <1>0, <1>i, <2>1, <2>2, <2>k DEF PacketTypes, NoNewerField
    <2>4. SendingPacket'
      BY <1>0, <1>1, <1>6, <1>i, <2>1
         DEF SendSum, SendingPacket, Sending, InTime
    <2>5. SentFields'
      BY <1>0, <1>1, <1>6, <1>i, <2>1, <2>2
         DEF SendSum, SendingPacket, SentFields, Sending, InTime
    <2>6. QED
      BY <1>2, <2>3, <2>4, <2>5 DEF PacketsInv
  <1>7. CASE SendCopy
    <2>1. /\ k \in Fields /\ source \in {0, 1} /\ ChanData \in [Fields -> Nat]
          /\ ChanData' = [ChanData EXCEPT ![k] = pack[source][k]]
          /\ UNCHANGED <<source, SUM, asked, answer>>
          /\ IF k = NumFields THEN sendPc' = "tail" /\ k' = 0
                              ELSE k' = k + 1 /\ sendPc' = "copy"
      BY <1>7, <1>i DEF SendCopy, PacketTypes, SentFields
    <2>2. pack[source][k] \in Nat /\ pack[source][k] <= begun
      BY <1>i, <2>1 DEF PacketTypes, NoNewerField
    <2>3. /\ ChanData' \in [Fields -> Nat]
          /\ \A f \in Fields :
                ChanData'[f] = IF f = k THEN pack[source][k] ELSE ChanData[f]
      BY <2>1, <2>2
    <2>k. k' \in 0 .. NumFields /\ sendPc' \in {"copy", "tail"}
      BY <2>1
    <2>4. PacketTypes'
      BY <1>0, <1>i, <2>1, <2>3, <2>k DEF PacketTypes
    <2>n. NoNewerField'
      BY <1>0, <1>i, <2>2, <2>3 DEF NoNewerField
    <2>5. SendingPacket'
      BY <1>0, <1>1, <1>7, <1>i, <2>1
         DEF SendCopy, SendingPacket, Sending, InTime
    <2>6. SentFields'
      BY <1>0, <1>1, <1>7, <1>i, <2>1, <2>3
         DEF SendCopy, SendingPacket, SentFields, Sending, InTime
    <2>7. QED
      BY <1>2, <2>4, <2>5, <2>6, <2>n DEF PacketsInv
  <1>8. CASE SendTail
    <2>1. PacketTypes' /\ NoNewerField'
      BY <1>0, <1>8, <1>i DEF SendTail, PacketTypes, NoNewerField
    <2>2. SendingPacket' /\ SentFields'
      BY <1>8 DEF SendTail, SendingPacket, SentFields
    <2>3. QED
      BY <1>2, <2>1, <2>2 DEF PacketsInv
  <1> QED
    BY <1>3, <1>4, <1>5, <1>6, <1>7, <1>8

LEMMA PacketsRestartInv == PacketsRestart => PacketsInv'
  BY PacketsAssumption
     DEF PacketsRestart, PacketsInv, PacketTypes, NoNewerField, NewestPacket,
         SendingPacket, SentFields, Sending, packed, Zero, Fields, None

LEMMA PacketsInvStep == PacketsInv /\ PacketStep => PacketsInv'
  <1>1. PacketsInv /\ UNCHANGED packetVars => PacketsInv'
    BY DEF packetVars, packVars, sendVars, PacketsInv, PacketTypes,
           NoNewerField, NewestPacket, SendingPacket, SentFields, InTime, Sending, packed
  <1> QED
    BY <1>1, PackBeginInv, PackFieldInv, PackFlipInv, SendInv,
       PacketsRestartInv DEF PacketStep

LEMMA PacketsInvariant == Spec => []PacketsInv
  <1>1. Init => PacketsInv
    BY PacketsInvInit DEF Init
  <1>2. PacketsInv /\ [Next]_vars => PacketsInv'
    BY NextPackets, PacketsInvStep
  <1> QED
    BY <1>1, <1>2, PTL DEF Spec

\* Every step of the packets is a step of PacketStore or changes nothing of it.
LEMMA PacketStoreStep ==
  ASSUME PacketsInv, PacketStep
  PROVE  [Store!Next]_(Store!vars)
  <1> USE DEF Store!Next, Store!vars, Store!None, Store!Torn, None, Torn
  <1>1. CASE PackBegin
    BY <1>1 DEF PackBegin, packed, Store!Begin, sendVars, PacketsInv, PacketTypes
  <1>2. CASE PackField
    BY <1>2 DEF PackField, packed, sendVars, PacketsInv, PacketTypes
  <1>3. CASE PackFlip
    BY <1>3, PacketsAssumption
       DEF PackFlip, packed, Store!Complete, sendVars, PacketsInv, PacketTypes
  <1>4. CASE SendData
    BY <1>4 DEF SendData, packed, Store!Ask, packVars, PacketsInv, SendingPacket
  <1>5. CASE SendDataElse
    <2>1. packed \in Nat /\ asked \in Nat /\ asked <= packed /\ answer = None
      BY <1>5 DEF SendDataElse, packed, PacketsInv, PacketTypes, SendingPacket,
                  NewestPacket
    <2>2. Aging_Pack = 1 => packed > asked
      <3> SUFFICES ASSUME packed = asked PROVE Aging_Pack # 1
        BY <2>1
      <3>1. begun <= asked + 1
        BY DEF packed, PacketsInv, PacketTypes
      <3>2. QED
        BY <1>5, <3>1
           DEF SendDataElse, PacketsInv, PacketTypes, SendingPacket, Sending, InTime
    <2>3. QED
      BY <1>5, <2>1, <2>2 DEF SendDataElse, Store!Answer, packVars, packed
  <1>6. CASE SendHead \/ SendSum \/ SendCopy
    BY <1>6 DEF SendHead, SendSum, SendCopy, packVars, packed
  <1>7. CASE SendTail
    <2>1. asked \in Nat /\ asked # None /\ begun \in Nat /\ UNCHANGED packed
      BY <1>7 DEF SendTail, packed, packVars, PacketsInv, PacketTypes,
                  SendingPacket
    <2>2. CASE begun <= asked + 1
      <3>1. \A f \in Fields : ChanData[f] = asked /\ SUM[f] = asked
        BY <1>7, <2>2 DEF SendTail, PacketsInv, SentFields, InTime
      <3>2. 1 \in Fields
        BY PacketsAssumption DEF Fields
      <3>3. answer' = asked
        BY <1>7, <3>1, <3>2 DEF SendTail
      <3>4. QED
        BY <1>7, <2>1, <3>3 DEF SendTail, Store!Answer, packVars
    <2>3. CASE begun >= asked + 2
      <3>1. ChanData[1] \in 0 .. begun
        BY PacketsAssumption DEF Fields, PacketsInv, PacketTypes, NoNewerField
      <3>2. answer' \in (0 .. begun) \cup {Torn}
        BY <1>7, <3>1 DEF SendTail
      <3>3. QED
        BY <1>7, <2>1, <2>3, <3>2 DEF SendTail, Store!Answer, packVars
    <2>4. QED
      BY <2>1, <2>2, <2>3
  <1>8. CASE PacketsRestart
    BY <1>8 DEF PacketsRestart, packed, Store!Restart
  <1>9. CASE UNCHANGED packetVars
    BY <1>9 DEF packetVars, packVars, sendVars, packed
  <1> QED
    BY <1>1, <1>2, <1>3, <1>4, <1>5, <1>6, <1>7, <1>8, <1>9 DEF PacketStep

\* The safety part of ImplementsPacketStore: with the two tasks interleaved in
\* any way, every answer to MGETDATA is one PacketStore allows.
THEOREM PacketsImplementStore == Spec => Store!Spec
  <1>1. Init => Store!Init
    BY DEF Init, PacketsInit, packed, Store!Init, None, Store!None
  <1>2. PacketsInv /\ [Next]_vars => [Store!Next]_(Store!vars)
    BY NextPackets, PacketStoreStep
  <1> QED
    BY <1>1, <1>2, PacketsInvariant, PTL DEF Spec, Store!Spec
-----------------------------------------------------------------------------
(* The TCP task: one reply to a command.                                    *)

Running == {"run", "lamps", "valve", "fan", "erase", "program", "send", "reply",
            "fault"}

\* Where the task is says what it knows of the command.
TaskInv ==
    /\ pc \in {"recv", "verify"} \cup Running
    /\ pc # "recv" => cmd \in Commands /\ replies = 0
    /\ pc \in Running => frame # "badsum"
    /\ pc \in {"verify", "run"} => step = 0
    /\ pc = "lamps" => step \in 0 .. 3
    /\ pc = "valve" => step \in 0 .. AMC_DAC_NUM
    /\ pc = "program" => step \in 0 .. KbWords - 1
    /\ pc = "send" => sendPc # "idle" /\ cmd.name = "MGETDATA"

AnswerInv == TaskInv /\ AnsweredOnce

\* Where PC_DATAHandler goes, and the commands it ends at once.
LEMMA HandlerTargets ==
  ASSUME NEW c \in Commands, cmd = c, cmd.name # "MGETDATA", NEW h \in Handler
  PROVE  /\ h \in {"lamps", "valve", "fan", "erase", "recv", "reply", "fault"}
         /\ h = "recv" => \/ cmd.name \in Silent
                          \/ cmd.name = "PCALIBRATION" /\ cmd.arg.Cali_Obj # 1
  <1>1. cmd.name \in Names
    BY CommandAssumption
  <1>2. CASE cmd.name \in Silent
    BY <1>2 DEF Handler, Silent
  <1>3. CASE cmd.name \notin Silent
    BY <1>1, <1>3 DEF Handler, Names
  <1> QED
    BY <1>2, <1>3

\* The sampling task does not disturb the TCP task.
LEMMA AppAnswer ==
  ASSUME AnswerInv, AppTask
  PROVE  AnswerInv'
  <1>1. UNCHANGED tcpVars
    BY DEF AppTask, AppReadADC, AppFrame, AppPack
  <1>2. UNCHANGED sendPc
    BY DEF AppTask, AppReadADC, AppFrame, AppPack, Pack, PackBegin, PackField,
           PackFlip, packetVars, sendVars
  <1> QED
    BY <1>1, <1>2 DEF AnswerInv, TaskInv, AnsweredOnce, tcpVars

\* SendData was asked with Aging_Pack = 0 when it comes to its second test: as
\* long as nothing has been packed since, it still is, and the test succeeds.
LEMMA SendDataAnswer ==
  ASSUME AnswerInv, PacketsInv, SendDataOn
  PROVE  AnswerInv'
  <1>1. CASE sendPc' # "idle"
    BY <1>1 DEF SendDataOn, AnswerInv, TaskInv, AnsweredOnce, Running
  <1>2. CASE sendPc' = "idle"
    <2>1. sendPc = "tail" \/ (sendPc = "else" /\ Aging_Pack = 1)
      BY <1>2 DEF SendDataOn, SendOn, SendDataElse, SendHead, SendSum, SendCopy,
                  SendTail
    <2>2. ASSUME sendPc = "else", Aging_Pack = 1
          PROVE  packed > asked
      <3>1. asked \in Nat /\ begun \in Nat /\ asked <= packed
        BY <2>2 DEF PacketsInv, PacketTypes, SendingPacket
      <3>2. packed \in Int /\ begun <= packed + 1
        BY <3>1 DEF packed
      <3>3. packed # asked
        <4>1. SUFFICES ASSUME packed = asked PROVE FALSE
          OBVIOUS
        <4>2. InTime
          BY <3>1, <3>2, <4>1 DEF InTime
        <4>3. QED
          BY <2>2, <4>1, <4>2 DEF PacketsInv, SendingPacket, Sending
      <3>4. QED
        BY <3>1, <3>2, <3>3
    <2>3. /\ pc' = "recv" /\ cmd' = cmd /\ frame' = frame
          /\ frame # "badsum" /\ cmd.name = "MGETDATA" /\ cmd \in Commands
      BY <1>2 DEF SendDataOn, AnswerInv, TaskInv, Running
    <2>4. CASE sendPc = "tail"
      <3>1. replies' = 1
        BY <1>2, <2>4 DEF SendDataOn
      <3>2. QED
        BY <1>2, <2>3, <3>1 DEF AnswerInv, TaskInv, AnsweredOnce, Running
    <2>5. CASE sendPc = "else" /\ Aging_Pack = 1
      <3>1. packed > asked
        BY <2>2, <2>5
      <3>2. replies' = CASE sendPc = "tail" -> 1
                         [] sendPc # "tail" /\ packed > asked -> Overtaken
                         [] sendPc # "tail" /\ packed = asked -> 0
        BY <1>2 DEF SendDataOn
      <3>3. packed \in Int /\ asked \in Int
        BY <2>5 DEF PacketsInv, PacketTypes, SendingPacket, packed
      <3>4. replies' = Overtaken
        BY <2>5, <3>1, <3>2, <3>3
      <3>5. QED
        BY <1>2, <2>3, <3>4 DEF AnswerInv, TaskInv, AnsweredOnce, Running
    <2>6. QED
      BY <2>1, <2>4, <2>5
  <1> QED
    BY <1>1, <1>2

LEMMA NextAnswer == AnswerInv /\ PacketsInv /\ [Next]_vars => AnswerInv'
  <1> SUFFICES ASSUME AnswerInv, PacketsInv, [Next]_vars PROVE AnswerInv'
    OBVIOUS
  <1> USE DEF AnswerInv, TaskInv, AnsweredOnce, Running
  <1>1. CASE AppTask
    BY <1>1, AppAnswer
  <1>2. CASE EthernetInterfaceHandler
    <2>1. PICK same \in SumsAgree :
              IF same THEN pc' = "run" /\ UNCHANGED replies
                      ELSE pc' = "recv" /\ replies' = replies + 1
      BY <1>2 DEF EthernetInterfaceHandler
    <2>2. frame = "badsum" => ~same
      BY DEF SumsAgree
    <2>3. QED
      BY <1>2, <2>1, <2>2 DEF EthernetInterfaceHandler
  <1>3. CASE PC_DATAHandler
    BY <1>3, HandlerTargets, AmcAssumption DEF PC_DATAHandler, packetVars, sendVars
  <1>4. CASE Reply
    BY <1>4 DEF Reply, packetVars, sendVars
  <1>5. CASE RunSendData
    BY <1>5 DEF RunSendData, SendData
  <1>6. CASE SendDataOn
    BY <1>6, SendDataAnswer
  <1>7. CASE ALE_LED_CTRL \/ ALE_LED_CTRL_None
    BY <1>7 DEF ALE_LED_CTRL, ALE_LED_CTRL_None, packetVars, sendVars
  <1>8. CASE SetFan_Speed
    BY <1>8 DEF SetFan_Speed
  <1>9. CASE SetValve
    BY <1>9, AmcAssumption DEF SetValve
  <1>10. CASE SetValveFrame
    BY <1>10 DEF SetValveFrame, tcpVars
  <1>11. CASE WriteKB
    BY <1>11, CommandAssumption DEF WriteKB
  <1>12. CASE ProgramKB
    BY <1>12, CommandAssumption DEF ProgramKB
  <1>13. CASE \E c \in Commands, f \in Frames : Receive(c, f)
    BY <1>13 DEF Receive
  <1>14. CASE Restart
    BY <1>14 DEF Restart
  <1>15. CASE UNCHANGED vars
    BY <1>15 DEF vars, tcpVars, packetVars, packVars, sendVars, packed
  <1> QED
    BY <1>1, <1>2, <1>3, <1>4, <1>5, <1>6, <1>7, <1>8, <1>9, <1>10, <1>11,
       <1>12, <1>13, <1>14, <1>15 DEF Next, TcpTask

LEMMA AnswerInvariant == Spec => []AnswerInv
  <1>1. Init => AnswerInv
    BY DEF Init, AnswerInv, TaskInv, AnsweredOnce, Running
  <1> QED
    BY <1>1, NextAnswer, PacketsInvariant, PTL DEF Spec

\* A command gets one reply, or none for the reasons AnsweredOnce names: no
\* MGETDATA stays without its answer unless the packets were flipped meanwhile.
THEOREM OneReply == Spec => []AnsweredOnce
  <1>1. AnswerInv => AnsweredOnce
    BY DEF AnswerInv
  <1> QED
    BY <1>1, AnswerInvariant, PTL
-----------------------------------------------------------------------------
(* The calibration in flash.                                                *)

\* While WriteKB programs, the words so far are the new ones, the others are
\* erased, and the interruption is on record.
CalibrationInv ==
    /\ kb = [w \in 1 .. KbWords |-> kb[w]]
    /\ kbCut \in BOOLEAN
    /\ pc = "program" =>
          /\ kbCut
          /\ \A w \in 1 .. KbWords :
                kb[w] = IF w <= step THEN cmd.arg.kb ELSE Erased
    /\ CalibrationKept

\* Only WriteKB comes to the programming loop, and only the loop goes on in it.
LEMMA OtherCalibration ==
  ASSUME TaskInv, [Next]_vars, ~WriteKB, ~ProgramKB
  PROVE  UNCHANGED kbVars /\ (pc' = "program" => UNCHANGED <<pc, step, cmd>>)
  <1>1. CASE AppTask
    BY <1>1 DEF AppTask, AppReadADC, AppFrame, AppPack, tcpVars
  <1>2. CASE PC_DATAHandler
    BY <1>2, HandlerTargets DEF PC_DATAHandler, TaskInv
  <1>3. CASE TcpTask /\ ~PC_DATAHandler
    BY <1>3
       DEF TcpTask, EthernetInterfaceHandler, Reply, RunSendData, SendDataOn,
           ALE_LED_CTRL, ALE_LED_CTRL_None, SetFan_Speed, SetValve,
           SetValveFrame, tcpVars
  <1>4. CASE \E c \in Commands, f \in Frames : Receive(c, f)
    BY <1>4 DEF Receive
  <1>5. CASE Restart
    BY <1>5 DEF Restart
  <1>6. CASE UNCHANGED vars
    BY <1>6 DEF vars, tcpVars
  <1> QED
    BY <1>1, <1>2, <1>3, <1>4, <1>5, <1>6 DEF Next, TcpTask

LEMMA NextCalibration ==
  ASSUME CalibrationInv, TaskInv, [Next]_vars
  PROVE  CalibrationInv'
  <1> USE CommandAssumption
  <1>1. CASE WriteKB
    BY <1>1 DEF WriteKB, CalibrationInv, CalibrationKept
  <1>2. CASE ProgramKB
    <2>1. /\ step \in 0 .. KbWords - 1 /\ pc = "program"
          /\ kb' = [kb EXCEPT ![step + 1] = cmd.arg.kb]
      BY <1>2 DEF ProgramKB, TaskInv, CalibrationInv
    <2>2. /\ kb' = [w \in 1 .. KbWords |-> kb'[w]]
          /\ \A w \in 1 .. KbWords :
                kb'[w] = IF w <= step + 1 THEN cmd.arg.kb ELSE Erased
      <3>1. /\ kb' = [w \in 1 .. KbWords |-> IF w = step + 1 THEN cmd.arg.kb
                                                            ELSE kb[w]]
        BY <2>1 DEF CalibrationInv
      <3>2. \A w \in 1 .. KbWords :
                kb[w] = IF w <= step THEN cmd.arg.kb ELSE Erased
        BY <2>1 DEF CalibrationInv
      <3>3. \A w \in 1 .. KbWords :
                kb'[w] = IF w <= step + 1 THEN cmd.arg.kb ELSE Erased
        BY <2>1, <3>1, <3>2
      <3>4. kb' = [w \in 1 .. KbWords |-> kb'[w]]
        BY <3>1
      <3>5. QED
        BY <3>3, <3>4
    <2>3. CASE step + 1 < KbWords
      BY <1>2, <2>1, <2>2, <2>3 DEF ProgramKB, CalibrationInv, CalibrationKept
    <2>4. CASE ~(step + 1 < KbWords)
      <3>1. \A w \in 1 .. KbWords : kb'[w] = kbSet'
        BY <1>2, <2>1, <2>2, <2>4 DEF ProgramKB
      <3>2. QED
        BY <1>2, <2>2, <2>4, <3>1 DEF ProgramKB, CalibrationInv, CalibrationKept
    <2>5. QED
      BY <2>3, <2>4
  <1>3. CASE ~WriteKB /\ ~ProgramKB
    BY <1>3, OtherCalibration DEF CalibrationInv, CalibrationKept, kbVars
  <1> QED
    BY <1>1, <1>2, <1>3

\* An acknowledged calibration is in the flash, whole, whatever interrupts the
\* board, until WriteKB erases it for the next one.
THEOREM CalibrationSafe == Spec => []CalibrationKept
  <1>1. Init => CalibrationInv
    BY DEF Init, CalibrationInv, CalibrationKept
  <1>2. CalibrationInv => CalibrationKept
    BY DEF CalibrationInv
  <1>3. AnswerInv => TaskInv
    BY DEF AnswerInv
  <1> QED
    BY <1>1, <1>2, <1>3, NextCalibration, AnswerInvariant, PTL DEF Spec
-----------------------------------------------------------------------------
(* The lamps.                                                               *)

\* The shadow and the latch agree on every unit commanded since a restart, and
\* hold what was commanded, but for the lamps ALE_LED_CTRL has yet to reach.
\* Of the other units the shadow knows nothing; they show what the restart left
\* until the shadow is latched.
LampsInv ==
    /\ SwitchUnit \in [Units -> SUBSET Lamps]
    /\ lampsSet \in [Units -> SUBSET Lamps]
    /\ latch \in [Units -> SUBSET Lamps]
    /\ \A u \in Units \ restarted :
          /\ latch[u] = SwitchUnit[u]
          /\ ~(pc = "lamps" /\ step > 0 /\ u = Unit(cmd.arg))
                => SwitchUnit[u] = lampsSet[u]
    /\ pc = "lamps" /\ step > 0 =>
          /\ cmd.arg.LIGHT_CHOSE \in 1 .. 3
          /\ \A j \in 1 .. 4 : j <= step =>
                (Order[j] \in SwitchUnit[Unit(cmd.arg)]
                    <=> Order[j] \in LampsOn(cmd.arg))
    /\ restarted \subseteq Units
    /\ \A u \in restarted :
          /\ SwitchUnit[u] = {}
          /\ latch[u] = IF restarted = Units THEN lampsSet[u] ELSE {}

LEMMA OtherLamps ==
  ASSUME TaskInv, [Next]_vars, ~ALE_LED_CTRL, ~Restart
  PROVE  /\ UNCHANGED lampVars
         /\ pc' = "lamps" /\ step' > 0 => UNCHANGED <<pc, step, cmd>>
         /\ pc = "lamps" /\ step > 0 /\ cmd.arg.LIGHT_CHOSE \in 1 .. 3
                => pc' = "lamps" /\ step' = step /\ cmd' = cmd
  <1>1. CASE AppTask
    BY <1>1 DEF AppTask, AppReadADC, AppFrame, AppPack, tcpVars
  <1>2. CASE PC_DATAHandler
    BY <1>2, HandlerTargets DEF PC_DATAHandler, TaskInv
  <1>3. CASE TcpTask /\ ~PC_DATAHandler
    BY <1>3
       DEF TcpTask, EthernetInterfaceHandler, Reply, RunSendData, SendDataOn,
           ALE_LED_CTRL_None, SetFan_Speed, SetValve, SetValveFrame, WriteKB,
           ProgramKB, tcpVars
  <1>4. CASE \E c \in Commands, f \in Frames : Receive(c, f)
    BY <1>4 DEF Receive
  <1>6. CASE UNCHANGED vars
    BY <1>6 DEF vars, tcpVars
  <1> QED
    BY <1>1, <1>2, <1>3, <1>4, <1>6 DEF Next, TcpTask

LEMMA LampsOnLamps ==
  ASSUME NEW a, a.LIGHT_CHOSE \in 1 .. 3
  PROVE  LampsOn(a) \subseteq Lamps
  BY DEF LampsOn, Lamps

LEMMA NextLamps ==
  ASSUME LampsInv, TaskInv, [Next]_vars
  PROVE  LampsInv'
  <1>1. CASE ALE_LED_CTRL
    <2> DEFINE u == Unit(cmd.arg)
               l == Order[step + 1]
               on == l \in LampsOn(cmd.arg)
    <2>1. /\ pc = "lamps" /\ step \in 0 .. 3 /\ step' = step + 1 /\ cmd' = cmd
          /\ cmd.arg.LIGHT_CHOSE \in 1 .. 3
          /\ SwitchUnit' = [SwitchUnit EXCEPT ![u] = IF on THEN @ \cup {l}
                                                          ELSE @ \ {l}]
          /\ latch' = SwitchUnit'
          /\ pc' = IF step = 3 THEN "reply" ELSE "lamps"
          /\ lampsSet' = IF step = 3
                         THEN [lampsSet EXCEPT ![u] = LampsOn(cmd.arg)]
                         ELSE lampsSet
          /\ restarted' = restarted \ {u}
      BY <1>1 DEF ALE_LED_CTRL, CtrlHC138_Y1, TaskInv
    <2>2. l \in Lamps /\ LampsOn(cmd.arg) \subseteq Lamps
      BY <2>1, LampsOnLamps DEF Order, Lamps
    <2>0. u \in Units
      BY DEF Unit, Units
    <2> HIDE DEF u, l, on
    <2>3. /\ SwitchUnit' \in [Units -> SUBSET Lamps]
          /\ lampsSet' \in [Units -> SUBSET Lamps]
      BY <2>1, <2>2 DEF LampsInv
    <2>4. \A v \in Units : v # u =>
              SwitchUnit'[v] = SwitchUnit[v] /\ lampsSet'[v] = lampsSet[v]
      BY <2>1 DEF LampsInv
    <2>5. \A j \in 1 .. 4 : j <= step + 1 =>
             (Order[j] \in SwitchUnit'[u] <=> Order[j] \in LampsOn(cmd.arg))
      <3>1. SwitchUnit'[u] = IF on THEN SwitchUnit[u] \cup {l}
                                   ELSE SwitchUnit[u] \ {l}
        BY <2>0, <2>1 DEF LampsInv
      <3>2. \A j \in 1 .. 4 : j <= step =>
                    (Order[j] \in SwitchUnit[u] <=> Order[j] \in LampsOn(cmd.arg))
        BY <2>0, <2>1 DEF LampsInv, u
      <3>3. QED
        BY <2>1, <3>1, <3>2 DEF l, on
    <2>6. ASSUME step = 3
          PROVE  SwitchUnit'[u] = LampsOn(cmd.arg)
      <3>1. \A x \in Lamps : x \in SwitchUnit'[u] <=> x \in LampsOn(cmd.arg)
        BY <2>5, <2>6 DEF Lamps, Order
      <3>2. SwitchUnit'[u] \subseteq Lamps
        BY <2>0, <2>3
      <3>3. QED
        BY <2>2, <3>1, <3>2
    <2>7. ASSUME NEW v \in Units \ restarted'
          PROVE  /\ latch'[v] = SwitchUnit'[v]
                 /\ ~(pc' = "lamps" /\ step' > 0 /\ v = Unit(cmd'.arg))
                       => SwitchUnit'[v] = lampsSet'[v]
      <3>1. CASE v = u
        <4>1. ~(pc' = "lamps" /\ step' > 0 /\ u = Unit(cmd'.arg)) => step = 3
          BY <2>1 DEF u
        <4>2. step = 3 => lampsSet'[u] = LampsOn(cmd.arg)
          BY <2>0, <2>1 DEF LampsInv
        <4>3. QED
          BY <2>1, <2>6, <3>1, <4>1, <4>2
      <3>2. CASE v # u
        BY <2>1, <2>4, <3>2 DEF u, LampsInv
      <3>3. QED
        BY <3>1, <3>2
    <2>8. ASSUME NEW v \in restarted'
          PROVE  /\ SwitchUnit'[v] = {}
                 /\ latch'[v] = IF restarted' = Units THEN lampsSet'[v] ELSE {}
      <3>1. v \in restarted /\ v # u /\ v \in Units /\ restarted' # Units
        BY <2>0, <2>1, <2>8 DEF LampsInv
      <3>2. SwitchUnit'[v] = {}
        BY <2>4, <3>1 DEF LampsInv
      <3>3. QED
        BY <2>1, <3>1, <3>2
    <2>9. restarted' \subseteq Units
      BY <2>1 DEF LampsInv
    <2>10. QED
      BY <2>1, <2>3, <2>5, <2>7, <2>8, <2>9 DEF LampsInv, u
  <1>2. CASE Restart
    BY <1>2 DEF Restart, LampsInv, NoLamps
  <1>3. CASE ~ALE_LED_CTRL /\ ~Restart
    <2>1. /\ UNCHANGED <<SwitchUnit, latch, lampsSet, restarted>>
          /\ pc' = "lamps" /\ step' > 0 => UNCHANGED <<pc, step, cmd>>
          /\ pc = "lamps" /\ step > 0 => pc' = "lamps" /\ step' = step /\ cmd' = cmd
      BY <1>3, OtherLamps DEF lampVars, LampsInv
    <2>2. QED
      BY <2>1 DEF LampsInv
  <1> QED
    BY <1>1, <1>2, <1>3

\* Outside a lamp command every unit commanded since a restart shows what was
\* commanded for it, and any other what the restart left it, or nothing.
THEOREM LampsCorrect == Spec => []LampsAsCommanded
  <1>1. Init => LampsInv
    BY DEF Init, LampsInv, NoLamps
  <1>2. LampsInv => LampsAsCommanded
    BY DEF LampsInv, LampsAsCommanded
  <1>3. AnswerInv => TaskInv
    BY DEF AnswerInv
  <1> QED
    BY <1>1, <1>2, <1>3, NextLamps, AnswerInvariant, PTL DEF Spec
-----------------------------------------------------------------------------
(* The valves.                                                              *)

\* The frames SetDAC has left, each time one of them is over.
TcpFrames == {SetDAC, <<"id", "low", "high", "update">>,
              <<"low", "high", "update">>, <<"high", "update">>, <<"update">>,
              <<>>}

AppFrames == Seq({"id", "adcUpdate", "trigger", "adc"})

\* The frames of AMC7836SetDAC are under way.
Setting == frames["Tcp"] # <<>>

\* How many outputs have the value of the command under way.
DacsSet == IF pc # "valve" THEN 0 ELSE IF Setting THEN step - 1 ELSE step

\* The bytes written for the output the command is about to change.
Written == LET old == valves[DacsSet]
               new == cmd.arg[DacsSet]
           IN <<IF Len(frames["Tcp"]) <= 2 THEN new ELSE old,
                IF Len(frames["Tcp"]) <= 1 THEN new ELSE old>>

\* The sampling task's frames neither write nor update a DAC; the outputs the
\* command has reached are its values, those it has not the values before it;
\* the bytes written differ from the outputs in the one being set.
ValveInv ==
    /\ frames = [t \in Users |-> frames[t]]
    /\ frames["App"] \in AppFrames /\ frames["Tcp"] \in TcpFrames
    /\ cs \subseteq Users /\ \A t \in cs : frames[t] # <<>>
    /\ dacOut = [d \in Dacs |-> dacOut[d]]
    /\ dacBuf = [d \in Dacs |-> dacBuf[d]]
    /\ Setting => /\ pc = "valve" /\ step \in 1 .. AMC_DAC_NUM
                  /\ setDac = <<step - 1, cmd.arg[step - 1]>>
    /\ \A d \in Dacs :
          /\ dacOut[d] = IF d < DacsSet THEN <<cmd.arg[d], cmd.arg[d]>>
                                        ELSE <<valves[d], valves[d]>>
          /\ dacBuf[d] = IF Setting /\ d = DacsSet THEN Written ELSE dacOut[d]

\* Which frame of AMC7836SetDAC is the next, by how many are left.
LEMMA TcpFrame ==
  ASSUME NEW f \in TcpFrames, f # <<>>
  PROVE  /\ Tail(f) \in TcpFrames /\ Len(f) \in 1 .. 5
         /\ Tail(f) # <<>> => Len(Tail(f)) = Len(f) - 1
         /\ Tail(f) = <<>> <=> Len(f) = 1
         /\ Head(f) = "update" <=> Len(f) = 1
         /\ Head(f) = "high" <=> Len(f) = 2
         /\ Head(f) = "low" <=> Len(f) = 3
  <1>1. CASE f = SetDAC
    BY <1>1 DEF TcpFrames, SetDAC
  <1>2. CASE f = <<"id", "low", "high", "update">>
    BY <1>2 DEF TcpFrames
  <1>3. CASE f = <<"low", "high", "update">>
    BY <1>3 DEF TcpFrames
  <1>4. CASE f = <<"high", "update">>
    BY <1>4 DEF TcpFrames
  <1>5. CASE f = <<"update">>
    BY <1>5 DEF TcpFrames
  <1> QED
    BY <1>1, <1>2, <1>3, <1>4, <1>5 DEF TcpFrames

LEMMA AppNextFrame ==
  ASSUME NEW f \in AppFrames, f # <<>>
  PROVE  Tail(f) \in AppFrames /\ Head(f) \notin {"low", "high", "update"}
  BY DEF AppFrames

LEMMA OtherValves ==
  ASSUME TaskInv, [Next]_vars, ~AppReadADC, ~AppFrame, ~SetValve,
         ~SetValveFrame, ~Restart
  PROVE  /\ UNCHANGED <<frames, cs, setDac, dacBuf, dacOut, garbled, valves>>
         /\ pc = "valve" => UNCHANGED <<pc, step, cmd>>
         /\ pc # "valve" /\ pc' = "valve" => step' = 0
  <1> USE DEF amcVars
  <1>1. CASE AppTask
    BY <1>1 DEF AppTask, AppPack, tcpVars
  <1>2. CASE PC_DATAHandler
    BY <1>2, HandlerTargets DEF PC_DATAHandler, TaskInv
  <1>3. CASE TcpTask /\ ~PC_DATAHandler
    BY <1>3
       DEF TcpTask, EthernetInterfaceHandler, Reply, RunSendData, SendDataOn,
           ALE_LED_CTRL, ALE_LED_CTRL_None, SetFan_Speed, WriteKB, ProgramKB,
           tcpVars
  <1>4. CASE \E c \in Commands, f \in Frames : Receive(c, f)
    BY <1>4 DEF Receive
  <1>5. CASE UNCHANGED vars
    BY <1>5 DEF vars, tcpVars
  <1> QED
    BY <1>1, <1>2, <1>3, <1>4, <1>5 DEF Next, TcpTask

LEMMA NextValves ==
  ASSUME ValveInv, TaskInv, [Next]_vars
  PROVE  ValveInv'
  <1> USE AmcAssumption
  <1>1. CASE AppReadADC
    <2>1. /\ frames' = [frames EXCEPT !["App"] = ReadADC]
          /\ UNCHANGED <<cs, setDac, dacBuf, dacOut, pc, step, cmd, valves>>
          /\ frames["App"] = <<>>
      BY <1>1 DEF AppReadADC, AMC7836ReadADC, tcpVars
    <2>2. /\ frames' = [t \in Users |-> frames'[t]]
          /\ frames'["App"] = ReadADC /\ frames'["Tcp"] = frames["Tcp"]
      BY <2>1 DEF ValveInv, Users
    <2>3. ReadADC \in AppFrames /\ ReadADC # <<>>
      BY DEF AppFrames, ReadADC
    <2>4. DacsSet' = DacsSet /\ Setting' = Setting /\ Written' = Written
      BY <2>1, <2>2 DEF DacsSet, Setting, Written
    <2>5. QED
      BY <2>1, <2>2, <2>3, <2>4 DEF ValveInv, Users
  <1>2. CASE AppFrame
    <2>1. UNCHANGED <<pc, step, cmd, valves>> /\ (CsLow("App") \/ CsHigh("App"))
      BY <1>2 DEF AppFrame, tcpVars
    <2>2. CASE CsLow("App")
      BY <2>1, <2>2 DEF CsLow, ValveInv, DacsSet, Setting, Written, Users
    <2>3. CASE CsHigh("App")
      <3>1. "App" \in cs /\ frames["App"] # <<>>
        BY <2>3 DEF CsHigh, ValveInv
      <3>2. /\ Tail(frames["App"]) \in AppFrames
            /\ Head(frames["App"]) \notin {"low", "high", "update"}
        BY <3>1, AppNextFrame DEF ValveInv
      <3>3. /\ frames' = [frames EXCEPT !["App"] = Tail(frames["App"])]
            /\ cs' = cs \ {"App"} /\ UNCHANGED <<dacBuf, dacOut, setDac>>
        BY <2>3, <3>2 DEF CsHigh
      <3>4. /\ frames' = [t \in Users |-> frames'[t]]
            /\ frames'["App"] = Tail(frames["App"])
            /\ frames'["Tcp"] = frames["Tcp"]
        BY <3>3 DEF ValveInv, Users
      <3>5. DacsSet' = DacsSet /\ Setting' = Setting /\ Written' = Written
        BY <2>1, <3>4 DEF DacsSet, Setting, Written
      <3>6. QED
        BY <2>1, <3>2, <3>3, <3>4, <3>5 DEF ValveInv, Users
    <2>4. QED
      BY <2>1, <2>2, <2>3
  <1>3. CASE SetValve
    <2>1. pc = "valve" /\ frames["Tcp"] = <<>> /\ step \in 0 .. AMC_DAC_NUM
      BY <1>3 DEF SetValve, TaskInv
    <2>2. ~Setting /\ DacsSet = step
      BY <2>1 DEF Setting, DacsSet
    <2>3. CASE step < AMC_DAC_NUM
      <3>1. /\ frames' = [frames EXCEPT !["Tcp"] = SetDAC]
            /\ setDac' = <<step, cmd.arg[step]>>
            /\ UNCHANGED <<cs, dacBuf, dacOut, pc, cmd, valves>>
            /\ step' = step + 1
        BY <1>3, <2>3 DEF SetValve, AMC7836SetDAC
      <3>2. /\ frames' = [t \in Users |-> frames'[t]]
            /\ frames'["App"] = frames["App"] /\ frames'["Tcp"] = SetDAC
        BY <3>1 DEF ValveInv, Users
      <3>3. SetDAC # <<>> /\ Len(SetDAC) = 5 /\ SetDAC \in TcpFrames
        BY DEF SetDAC, TcpFrames
      <3>4. /\ Setting' /\ DacsSet' = step
            /\ Written' = <<valves[step], valves[step]>>
        BY <2>1, <3>1, <3>2, <3>3 DEF Setting, DacsSet, Written
      <3>5. \A d \in Dacs :
               /\ dacOut'[d] = IF d < step THEN <<cmd.arg[d], cmd.arg[d]>>
                                           ELSE <<valves[d], valves[d]>>
               /\ dacBuf'[d] = dacOut'[d]
        BY <2>2, <3>1 DEF ValveInv
      <3>6. \A d \in Dacs :
               dacBuf'[d] = IF d = step THEN Written' ELSE dacOut'[d]
        <4>1. ASSUME NEW d \in Dacs, d = step
              PROVE  dacBuf'[d] = Written'
          <5>1. ~(d < step)
            BY <2>1, <4>1
          <5>2. QED
            BY <3>4, <3>5, <4>1, <5>1
        <4>2. QED
          BY <3>5, <4>1
      <3>7. step' \in 1 .. AMC_DAC_NUM /\ step' - 1 = step
        BY <2>1, <2>3, <3>1
      <3>8. \A t \in cs' : frames'[t] # <<>>
        BY <3>1, <3>2, <3>3 DEF ValveInv, Users
      <3>9. QED
        BY <2>1, <3>1, <3>2, <3>3, <3>4, <3>5, <3>6, <3>7, <3>8 DEF ValveInv
    <2>4. CASE ~(step < AMC_DAC_NUM)
      <3>1. /\ UNCHANGED <<frames, cs, setDac, dacBuf, dacOut>>
            /\ pc' = "reply" /\ valves' = cmd.arg
        BY <1>3, <2>4 DEF SetValve, amcVars
      <3>2. ~Setting' /\ DacsSet' = 0
        BY <2>1, <3>1 DEF Setting, DacsSet
      <3>3. \A d \in Dacs : d < step
        BY <2>1, <2>4 DEF Dacs
      <3>4. \A d \in Dacs : /\ dacOut'[d] = <<valves'[d], valves'[d]>>
                            /\ dacBuf'[d] = dacOut'[d] /\ ~(d < 0)
        BY <2>2, <3>1, <3>3 DEF ValveInv, Dacs
      <3>5. QED
        BY <3>1, <3>2, <3>4 DEF ValveInv
    <2>5. QED
      BY <2>3, <2>4
  <1>4. CASE SetValveFrame
    <2>1. /\ pc = "valve" /\ UNCHANGED <<pc, step, cmd, valves>>
          /\ CsLow("Tcp") \/ CsHigh("Tcp")
      BY <1>4 DEF SetValveFrame, tcpVars
    <2>2. CASE CsLow("Tcp")
      BY <2>1, <2>2 DEF CsLow, ValveInv, DacsSet, Setting, Written, Users
    <2>3. CASE CsHigh("Tcp")
      <3> DEFINE f == frames["Tcp"]
                 j == step - 1
                 old == valves[j]
                 new == cmd.arg[j]
      <3>1. "Tcp" \in cs /\ f # <<>> /\ f \in TcpFrames
        BY <2>3 DEF CsHigh, ValveInv
      <3>2. /\ Setting /\ DacsSet = j /\ j \in Dacs
            /\ setDac = <<j, new>>
        BY <2>1, <3>1 DEF ValveInv, Setting, DacsSet, Dacs
      <3>3. /\ Tail(f) \in TcpFrames /\ Len(f) \in 1 .. 5
            /\ Tail(f) # <<>> => Len(Tail(f)) = Len(f) - 1
            /\ Tail(f) = <<>> <=> Len(f) = 1
            /\ Head(f) = "update" <=> Len(f) = 1
            /\ Head(f) = "high" <=> Len(f) = 2
            /\ Head(f) = "low" <=> Len(f) = 3
        BY <3>1, TcpFrame
      <3>4. /\ frames' = [frames EXCEPT !["Tcp"] = Tail(f)]
            /\ cs' = cs \ {"Tcp"} /\ setDac' = setDac
        BY <2>3 DEF CsHigh
      <3>5. /\ frames' = [t \in Users |-> frames'[t]]
            /\ frames'["App"] = frames["App"] /\ frames'["Tcp"] = Tail(f)
        BY <3>4 DEF ValveInv, Users
      <3>6. /\ dacBuf' = CASE Head(f) = "low" ->
                                  [dacBuf EXCEPT ![j][1] = new]
                           [] Head(f) = "high" ->
                                  [dacBuf EXCEPT ![j][2] = new]
                           [] OTHER -> dacBuf
            /\ dacOut' = IF Head(f) = "update" THEN dacBuf ELSE dacOut
        <4>1. /\ DOMAIN [low |-> 1, high |-> 2] = {"low", "high"}
              /\ [low |-> 1, high |-> 2]["low"] = 1
              /\ [low |-> 1, high |-> 2]["high"] = 2
          OBVIOUS
        <4>2. setDac[1] = j /\ setDac[2] = new
          BY <3>2
        <4>3. CASE Head(f) = "low"
          BY <2>3, <4>1, <4>2, <4>3, Zenon DEF CsHigh
        <4>4. CASE Head(f) = "high"
          BY <2>3, <4>1, <4>2, <4>4, Zenon DEF CsHigh
        <4>5. CASE Head(f) \notin {"low", "high"}
          BY <2>3, <3>2, <4>5 DEF CsHigh
        <4>6. QED
          BY <4>3, <4>4, <4>5
      <3>7. /\ dacBuf[j] = <<IF Len(f) <= 2 THEN new ELSE old,
                             IF Len(f) <= 1 THEN new ELSE old>>
            /\ \A d \in Dacs : d # j => dacBuf[d] = dacOut[d]
            /\ \A d \in Dacs :
                  dacOut[d] = IF d < j THEN <<cmd.arg[d], cmd.arg[d]>>
                                       ELSE <<valves[d], valves[d]>>
        BY <3>2 DEF ValveInv, Written
      <3>8. /\ dacBuf' = [d \in Dacs |-> dacBuf'[d]]
            /\ dacBuf'[j] = CASE Len(f) = 3 -> <<new, dacBuf[j][2]>>
                              [] Len(f) = 2 -> <<dacBuf[j][1], new>>
                              [] OTHER -> dacBuf[j]
            /\ \A d \in Dacs : d # j => dacBuf'[d] = dacBuf[d]
        <4>1. DOMAIN dacBuf = Dacs
          BY DEF ValveInv
        <4>2. CASE Len(f) = 3
          <5>1. Head(f) = "low"
            BY <3>3, <4>2
          <5>2. dacBuf' = [dacBuf EXCEPT ![j][1] = new]
            BY <3>6, <5>1
          <5>3. [dacBuf[j] EXCEPT ![1] = new] = <<new, dacBuf[j][2]>>
            BY <3>7
          <5>4. QED
            <6>1. dacBuf' = [dacBuf EXCEPT ![j] = <<new, dacBuf[j][2]>>]
              BY <5>2, <5>3
            <6>2. dacBuf' = [d \in Dacs |-> dacBuf'[d]]
              BY <4>1, <6>1
            <6>3. dacBuf'[j] = <<new, dacBuf[j][2]>>
              BY <3>2, <4>1, <6>1
            <6>4. \A d \in Dacs : d # j => dacBuf'[d] = dacBuf[d]
              BY <4>1, <6>1
            <6>5. QED
              BY <4>2, <6>2, <6>3, <6>4
        <4>3. CASE Len(f) = 2
          <5>1. Head(f) = "high"
            BY <3>3, <4>3
          <5>2. dacBuf' = [dacBuf EXCEPT ![j][2] = new]
            BY <3>6, <5>1
          <5>3. [dacBuf[j] EXCEPT ![2] = new] = <<dacBuf[j][1], new>>
            BY <3>7
          <5>4. QED
            <6>1. dacBuf' = [dacBuf EXCEPT ![j] = <<dacBuf[j][1], new>>]
              BY <5>2, <5>3
            <6>2. dacBuf' = [d \in Dacs |-> dacBuf'[d]]
              BY <4>1, <6>1
            <6>3. dacBuf'[j] = <<dacBuf[j][1], new>>
              BY <3>2, <4>1, <6>1
            <6>4. \A d \in Dacs : d # j => dacBuf'[d] = dacBuf[d]
              BY <4>1, <6>1
            <6>5. QED
              BY <4>3, <6>2, <6>3, <6>4
        <4>4. CASE Len(f) \notin {2, 3}
          BY <3>3, <3>6, <4>4 DEF ValveInv
        <4>5. QED
          BY <4>2, <4>3, <4>4
      <3> HIDE DEF f, j, old, new
      <3>9. CASE Len(f) = 1
        <4>1. ~Setting' /\ DacsSet' = step
          BY <2>1, <3>3, <3>5, <3>9 DEF Setting, DacsSet
        <4>2. dacOut' = dacBuf /\ dacBuf' = dacBuf /\ dacBuf[j] = <<new, new>>
          BY <3>3, <3>6, <3>7, <3>9
        <4>3. \A d \in Dacs : d < step <=> (d < j \/ d = j)
          BY <2>1, <3>2 DEF j, Dacs, TaskInv
        <4>4. \A d \in Dacs :
                 /\ dacOut'[d] = IF d < step THEN <<cmd.arg[d], cmd.arg[d]>>
                                             ELSE <<valves[d], valves[d]>>
                 /\ dacBuf'[d] = dacOut'[d]
          BY <3>7, <4>2, <4>3 DEF new
        <4>5. QED
          BY <2>1, <3>3, <3>4, <3>5, <4>1, <4>2, <4>4 DEF ValveInv, Users
      <3>10. CASE Len(f) # 1
        <4>1. Setting' /\ DacsSet' = j /\ Len(Tail(f)) = Len(f) - 1
          BY <2>1, <3>3, <3>5, <3>10 DEF Setting, DacsSet, j
        <4>2. dacOut' = dacOut
          BY <3>3, <3>6, <3>10
        <4>3. Written' = <<IF Len(f) <= 3 THEN new ELSE old,
                           IF Len(f) <= 2 THEN new ELSE old>>
          BY <2>1, <3>3, <3>5, <4>1 DEF Written, new, old
        <4>4. dacBuf'[j] = Written'
          <5>1. CASE Len(f) = 3
            BY <3>7, <3>8, <4>3, <5>1
          <5>2. CASE Len(f) = 2
            BY <3>7, <3>8, <4>3, <5>2
          <5>3. CASE Len(f) \in 4 .. 5
            <6>1. dacBuf'[j] = dacBuf[j]
              BY <3>8, <5>3
            <6>2. ~ Len(f) <= 1 /\ ~ Len(f) <= 2 /\ ~ Len(f) <= 3
              BY <5>3
            <6>3. dacBuf[j] = <<old, old>>
              BY <3>7, <6>2, Zenon
            <6>4. Written' = <<old, old>>
              BY <4>3, <6>2, Zenon
            <6>5. QED
              BY <6>1, <6>3, <6>4
          <5>4. QED
            BY <3>3, <3>10, <5>1, <5>2, <5>3
        <4>5. \A d \in Dacs :
                 dacBuf'[d] = IF d = j THEN Written' ELSE dacOut'[d]
          BY <3>7, <3>8, <4>2, <4>4
        <4>6. QED
          BY <2>1, <3>2, <3>3, <3>4, <3>5, <3>7, <3>8, <4>1, <4>2, <4>5
             DEF ValveInv, Users, j, new
      <3>11. QED
        BY <3>9, <3>10
    <2>4. QED
      BY <2>1, <2>2, <2>3
  <1>5. CASE Restart
    <2>1. /\ frames' = [t \in Users |-> <<>>] /\ cs' = {}
          /\ dacBuf' = AllDacs(FullScale) /\ dacOut' = AllDacs(FullScale)
          /\ pc' = "recv" /\ valves' = [d \in Dacs |-> FullScale]
      BY <1>5 DEF Restart, InitAMC7836
    <2>2. QED
      BY <2>1 DEF ValveInv, AllDacs, Setting, DacsSet, AppFrames, TcpFrames,
                  Users, Dacs
  <1>6. CASE ~AppReadADC /\ ~AppFrame /\ ~SetValve /\ ~SetValveFrame /\ ~Restart
    <2>1. /\ UNCHANGED <<frames, cs, setDac, dacBuf, dacOut, valves>>
          /\ pc = "valve" => UNCHANGED <<pc, step, cmd>>
          /\ pc # "valve" /\ pc' = "valve" => step' = 0
      BY <1>6, OtherValves
    <2>2. CASE pc = "valve"
      <3>1. UNCHANGED <<Setting, DacsSet, Written>>
        BY <2>1, <2>2 DEF Setting, DacsSet, Written
      <3>2. QED
        BY <2>1, <2>2, <3>1 DEF ValveInv
    <2>3. CASE pc # "valve"
      <3>1. ~Setting /\ ~Setting' /\ DacsSet = 0 /\ DacsSet' = 0
        BY <2>1, <2>3 DEF ValveInv, Setting, DacsSet
      <3>2. \A d \in Dacs : ~(d < 0)
        BY DEF Dacs
      <3>3. QED
        BY <2>1, <3>1, <3>2 DEF ValveInv
    <2>4. QED
      BY <2>2, <2>3
  <1> QED
    BY <1>1, <1>2, <1>3, <1>4, <1>5, <1>6

\* An output is never made of two values, and outside a valve command the
\* outputs are the values last acknowledged: for any number of DACs, and for
\* every interleaving of the sampling task's frames with those of the command.
THEOREM ValvesCorrect == Spec => []ValvesAsCommanded
  <1>1. Init => ValveInv
    BY DEF Init, AmcInit, ValveInv, AllDacs, Setting, DacsSet, AppFrames,
           TcpFrames, Users, Dacs
  <1>2. ValveInv => ValvesAsCommanded
    <2>1. ASSUME pc # "valve", ValveInv
          PROVE  ~Setting /\ DacsSet = 0 /\ \A d \in Dacs : ~(d < 0)
      BY <2>1 DEF ValveInv, DacsSet, Dacs
    <2>2. QED
      BY <2>1 DEF ValveInv, ValvesAsCommanded
  <1>3. AnswerInv => TaskInv
    BY DEF AnswerInv
  <1> QED
    BY <1>1, <1>2, <1>3, NextValves, AnswerInvariant, PTL DEF Spec
=============================================================================

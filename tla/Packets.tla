------------------------------ MODULE Packets ------------------------------
(***************************************************************************)
(* The two packets between the sampling task and the TCP task.  AgingPack  *)
(* fills the packet Aging_Pack names, field by field, and then flips it;   *)
(* SendData sends the other one: EthernetReceiveSuccess writes the head,   *)
(* runs over the packet once for the checksum and once more to copy it to  *)
(* ChanData, and writes the copy and the checksum.  Nothing keeps the two  *)
(* tasks apart.                                                            *)
(*                                                                         *)
(* Sources: Core/Peripheral/DataSamp.c (AgingPack), Core/src/              *)
(* ETHCommunication.c (SendData, EthernetReceiveSuccess).                  *)
(*                                                                         *)
(* A field is represented by the number of the packing it was filled in.   *)
(***************************************************************************)
EXTENDS Integers

CONSTANTS
    NumFields,  \* fields of a packet that are told apart
    MaxPacks    \* bound: packets made between two restarts

ASSUME PacketsAssumption == NumFields \in Nat \ {0} /\ MaxPacks \in Nat

Fields == 1 .. NumFields
Zero == [f \in Fields |-> 0]

Torn == -1
None == -2

VARIABLES
    Aging_Pack,  \* the packet being filled: 0 is A, 1 is B
    pack,        \* Aging_Pack_DataA and Aging_Pack_DataB
    begun,       \* packings begun
    fill,        \* fields filled by the packing under way, or None
    sendPc,      \* where SendData is
    source,      \* the packet it sends
    k,           \* the field its loops are at
    SUM,         \* the fields its checksum was made of
    ChanData,    \* the copy
    asked,       \* history: packets complete when SendData was called, or None
    answer       \* history: what the last SendData answered

packVars == <<Aging_Pack, pack, begun, fill>>
sendVars == <<sendPc, source, k, SUM, ChanData, asked, answer>>
packetVars == <<packVars, sendVars>>

packed == IF fill = None THEN begun ELSE begun - 1

PacketsInit ==
    /\ Aging_Pack = 0 /\ pack = [p \in {0, 1} |-> Zero]
    /\ begun = 0 /\ fill = None
    /\ sendPc = "idle" /\ source = 0 /\ k = 0 /\ SUM = Zero /\ ChanData = Zero
    /\ asked = None /\ answer = None

\* A restart zeroes the RAM.
PacketsRestart ==
    /\ Aging_Pack' = 0 /\ pack' = [p \in {0, 1} |-> Zero]
    /\ begun' = 0 /\ fill' = None
    /\ sendPc' = "idle" /\ source' = 0 /\ k' = 0 /\ SUM' = Zero
    /\ ChanData' = Zero /\ asked' = None /\ answer' = None
-----------------------------------------------------------------------------
\* AgingPack is called.
PackBegin ==
    /\ fill = None /\ begun < MaxPacks
    /\ begun' = begun + 1 /\ fill' = 0
    /\ UNCHANGED <<Aging_Pack, pack, sendVars>>

\* Mutant of PackField: the other packet is filled.
PackField_Other ==
    /\ fill \in 0 .. NumFields - 1
    /\ pack' = [pack EXCEPT ![1 - Aging_Pack][fill + 1] = begun]
    /\ fill' = fill + 1
    /\ UNCHANGED <<Aging_Pack, begun, sendVars>>

\* The next field of the packet Aging_Pack names.
PackField ==
    /\ fill \in 0 .. NumFields - 1
    /\ pack' = [pack EXCEPT ![Aging_Pack][fill + 1] = begun]
    /\ fill' = fill + 1
    /\ UNCHANGED <<Aging_Pack, begun, sendVars>>

\* The last assignment of AgingPack.
PackFlip ==
    /\ fill = NumFields
    /\ Aging_Pack' = 1 - Aging_Pack
    /\ fill' = None
    /\ UNCHANGED <<pack, begun, sendVars>>
-----------------------------------------------------------------------------
\* SendData, the test 1 == Aging_Pack.
SendData ==
    /\ sendPc = "idle"
    /\ asked' = packed /\ answer' = None
    /\ IF Aging_Pack = 1 THEN source' = 0 /\ sendPc' = "head"
                         ELSE UNCHANGED source /\ sendPc' = "else"
    /\ UNCHANGED <<packVars, k, SUM, ChanData>>

\* Mutant of SendDataElse: the second test asks for 1 as well.
SendDataElse_One ==
    /\ sendPc = "else"
    /\ IF Aging_Pack = 1
       THEN source' = 1 /\ sendPc' = "head" /\ UNCHANGED asked
       ELSE sendPc' = "idle" /\ asked' = None /\ UNCHANGED source
    /\ UNCHANGED <<packVars, k, SUM, ChanData, answer>>

\* The test 0 == Aging_Pack.  The compiler may use the value it has or read
\* Aging_Pack again; if it has become 1 meanwhile, neither branch is taken
\* and SendData returns without an answer.
SendDataElse ==
    /\ sendPc = "else"
    /\ \/ source' = 1 /\ sendPc' = "head" /\ UNCHANGED asked
       \/ Aging_Pack = 1 /\ sendPc' = "idle" /\ asked' = None /\ UNCHANGED source
    /\ UNCHANGED <<packVars, k, SUM, ChanData, answer>>

\* The head is written; write may block for as long as TCP's window is closed.
SendHead ==
    /\ sendPc = "head"
    /\ sendPc' = "sum" /\ k' = 1
    /\ UNCHANGED <<packVars, source, SUM, ChanData, asked, answer>>

\* Crs over the packet.
SendSum ==
    /\ sendPc = "sum"
    /\ SUM' = [SUM EXCEPT ![k] = pack[source][k]]
    /\ IF k = NumFields THEN sendPc' = "copy" /\ k' = 1
                        ELSE k' = k + 1 /\ UNCHANGED sendPc
    /\ UNCHANGED <<packVars, source, ChanData, asked, answer>>

\* The copy to ChanData.
SendCopy ==
    /\ sendPc = "copy"
    /\ ChanData' = [ChanData EXCEPT ![k] = pack[source][k]]
    /\ IF k = NumFields THEN sendPc' = "tail" /\ k' = 0
                        ELSE k' = k + 1 /\ UNCHANGED sendPc
    /\ UNCHANGED <<packVars, source, SUM, asked, answer>>

\* The copy and the checksum are written.
SendTail ==
    /\ sendPc = "tail"
    /\ answer' = IF \A f \in Fields : ChanData[f] = ChanData[1]
                                   /\ SUM[f] = ChanData[1]
                 THEN ChanData[1] ELSE Torn
    /\ sendPc' = "idle" /\ asked' = None
    /\ UNCHANGED <<packVars, source, k, SUM, ChanData>>

Pack == PackBegin \/ PackField \/ PackFlip
SendOn == SendDataElse \/ SendHead \/ SendSum \/ SendCopy \/ SendTail

PacketsTypeOK ==
    /\ Aging_Pack \in {0, 1} /\ source \in {0, 1}
    /\ pack \in [{0, 1} -> [Fields -> 0 .. MaxPacks]]
    /\ begun \in 0 .. MaxPacks /\ fill \in (0 .. NumFields) \cup {None}
    /\ sendPc \in {"idle", "else", "head", "sum", "copy", "tail"}
    /\ k \in 0 .. NumFields
    /\ {SUM, ChanData} \subseteq [Fields -> 0 .. MaxPacks]
    /\ asked \in (0 .. MaxPacks) \cup {None}
    /\ answer \in (0 .. MaxPacks) \cup {None, Torn}

Store == INSTANCE PacketStore
             WITH begun <- begun, packed <- packed, asked <- asked,
                  answer <- answer

\* The two packets and the two tasks implement PacketStore: an answer, data
\* and checksum, is the newest complete packet at the time of the command
\* unless the sampling task was twice as fast; and the command is finished.
ImplementsPacketStore == Store!FairSpec
=============================================================================

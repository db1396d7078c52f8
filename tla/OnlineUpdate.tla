---------------------------- MODULE OnlineUpdate ----------------------------
(***************************************************************************)
(* Program download over the network: the client announces an image        *)
(* (OnlineFlashProgram), sends it block by block (ProgramUpdata), and the  *)
(* last block makes the board publish a control record in flash and reset  *)
(* into the bootloader.  Power may fail between any two flash operations,  *)
(* commands may be dropped by the framing of the TCP server, and a client  *)
(* may repeat a command whose reply came late.                             *)
(*                                                                         *)
(* Sources: Core/src/ETHCommunication.c, Core/inc/tcpecho.h.  The flash    *)
(* controller, the bootloader and the client are external.                 *)
(***************************************************************************)
EXTENDS Integers

CONSTANTS
    BlockSize,   \* bytes of a block (1024)
    Cap,         \* blocks of the buffer sector, APP_Buff_Sector (128)
    Sizes,       \* image sizes the client announces, in bytes
    MaxLate,     \* bound: commands repeated because their reply was late
    MaxLoss,     \* bound: commands dropped by the framing
    MaxCrash     \* bound: power failures

ASSUME UpdateAssumption ==
    /\ BlockSize \in Nat \ {0} /\ Cap \in Nat \ {0}
    /\ Sizes \subseteq Nat \ {0}
    /\ \A s \in Sizes : s <= Cap * BlockSize
    /\ MaxLate \in Nat /\ MaxLoss \in Nat /\ MaxCrash \in Nat

VARIABLES
    app,        \* App_Ctrl, in RAM
    buf,        \* the block staged at App_Ctrl.Net_Buf
    flash,      \* blocks at APP_Buff_ADDRESS; index Cap is past the sector
    ctrl,       \* the words at Updata_Ctrl_ADDRESS
    word,       \* loop counter of the control-record loop
    pc,         \* where the handler is
    req,        \* the command delivered to the handler
    reply,      \* TRUE: a success reply is on its way to the client
    client,     \* the client's progress
    announced,  \* history: size announced since the last restart, 0 if none
    late, loss, crash   \* counters, bounded by MaxLate, MaxLoss, MaxCrash

ramVars == <<app, buf, word>>
flashVars == <<flash, ctrl>>
bounds == <<late, loss, crash>>
vars == <<app, buf, flash, ctrl, word, pc, req, reply, client, announced, bounds>>

\* A block of flash or RAM: erased, the first `valid` bytes of image block
\* `num` followed by zeros, or something else.
Erased == [kind |-> "erased", num |-> 0, valid |-> 0]
Junk == [kind |-> "junk", num |-> 0, valid |-> 0]
Image(k, n) == [kind |-> "image", num |-> k, valid |-> n]

\* Control record: word 0 is MAX_Byte, word 1 holds MAX_Num, word 6 holds
\* CompeleteFlag; 8 words are written for a structure of 7.
CtrlWords == 8
FlagWord == 6
NoWord == -1
EmptyCtrl == [w \in 0 .. CtrlWords - 1 |-> NoWord]

NoReq == [type |-> "none", arg |-> 0]
StartReq(s) == [type |-> "start", arg |-> s]
BlockReq(k) == [type |-> "block", arg |-> k]

NoApp == [MAX_Byte |-> 0, Num |-> 0, MAX_Num |-> 0, FlashBuff_Length |-> 0,
          Net_Buf |-> FALSE]

\* What the image needs: its number of blocks and the bytes in block k.
BlocksOf(s) == (s + BlockSize - 1) \div BlockSize
BytesIn(s, k) == IF k < BlocksOf(s) THEN BlockSize ELSE s - (k - 1) * BlockSize

Init ==
    /\ app = NoApp
    /\ buf = Junk
    /\ flash = [k \in 0 .. Cap |-> Junk]
    /\ ctrl = EmptyCtrl
    /\ word = 0
    /\ pc = "idle"
    /\ req = NoReq
    /\ reply = FALSE
    /\ client = [phase |-> "off", size |-> 0, num |-> 0]
    /\ announced = 0
    /\ late = 0 /\ loss = 0 /\ crash = 0
-----------------------------------------------------------------------------
\* External: a word programmed over one that is neither erased nor the same
\* keeps only the bits set in both.
Programmed(old, new) == IF old \in {Erased, new} THEN new ELSE Junk

\* Mutant of MaxNum: the division alone, without the block that is not full.
MaxNum_Floor(s) == s \div BlockSize

\* OnlineFlashProgram: blocks of an image of s bytes.
MaxNum(s) == IF s % BlockSize # 0 THEN s \div BlockSize + 1 ELSE s \div BlockSize

\* OnlineFlashProgram: App_Ctrl is cleared and set up, then the buffer sector
\* is erased.
OnlineFlashProgram ==
    /\ pc = "idle" /\ req.type = "start"
    /\ app' = [NoApp EXCEPT !.MAX_Byte = req.arg, !.MAX_Num = MaxNum(req.arg),
                            !.Net_Buf = TRUE]
    /\ announced' = req.arg
    /\ req' = NoReq
    /\ pc' = "erase"
    /\ UNCHANGED <<buf, word, flashVars, reply, client, bounds>>

\* Mutant of EraseBuffer: block 1 is left as it was.
EraseBuffer_Short ==
    /\ pc = "erase"
    /\ flash' = [k \in 0 .. Cap |-> IF k \in {1, Cap} THEN flash[k] ELSE Erased]
    /\ reply' = TRUE
    /\ pc' = "idle"
    /\ UNCHANGED <<ramVars, ctrl, req, client, announced, bounds>>

EraseBuffer ==
    /\ pc = "erase"
    /\ flash' = [k \in 0 .. Cap |-> IF k < Cap THEN Erased ELSE flash[k]]
    /\ reply' = TRUE
    /\ pc' = "idle"
    /\ UNCHANGED <<ramVars, ctrl, req, client, announced, bounds>>

\* ProgramUpdata: bytes of the block's data that are copied to Net_Buf, the
\* rest of the block being zeroed.
CopiedBytes(k) == IF k < app.MAX_Num THEN BlockSize ELSE app.MAX_Byte % BlockSize

\* ProgramUpdata up to the programming loop.  Without a preceding
\* OnlineFlashProgram Net_Buf is 0 and the block read back is what lies there.
ProgramUpdata ==
    /\ pc = "idle" /\ req.type = "block"
    /\ app' = [app EXCEPT !.Num = req.arg]
    /\ buf' = IF app.Net_Buf THEN Image(req.arg, CopiedBytes(req.arg)) ELSE Junk
    /\ req' = NoReq
    /\ pc' = "program"
    /\ UNCHANGED <<word, flashVars, reply, client, announced, bounds>>

\* The zeroing of Net_Buf = 0 is a store to the start of flash, which the
\* core may refuse: HardFault_Handler loops for ever.
NullBufferFault ==
    /\ pc = "idle" /\ req.type = "block" /\ ~app.Net_Buf
    /\ req' = NoReq
    /\ pc' = "fault"
    /\ UNCHANGED <<ramVars, flashVars, reply, client, announced, bounds>>

\* Mutant of Finished: only a block past the last one ends the download.
Finished_Never(a) == a.Num > a.MAX_Num

\* The download is taken to be over.
Finished(a) == a.Num = a.MAX_Num \/ a.FlashBuff_Length > a.MAX_Byte

\* The programming loop and the test that follows it; the reply is sent only
\* when the board does not reset.
ProgramBlock ==
    LET new == [app EXCEPT !.FlashBuff_Length = @ + BlockSize]
    IN  /\ pc = "program"
        /\ flash' = [flash EXCEPT ![app.Num] = Programmed(@, buf)]
        /\ app' = new
        /\ pc' = IF Finished(new) THEN "ctrlErase" ELSE "idle"
        /\ reply' = (reply \/ ~Finished(new))
        /\ UNCHANGED <<buf, word, ctrl, req, client, announced, bounds>>

\* The control sector is erased and the loop over the record begins.
CtrlErase ==
    /\ pc = "ctrlErase"
    /\ ctrl' = EmptyCtrl
    /\ word' = 0
    /\ pc' = "ctrlWords"
    /\ UNCHANGED <<app, buf, flash, req, reply, client, announced, bounds>>

\* Word w of App_Ctrl with CompeleteFlag set; words that no property tells
\* apart are 0.
AppWord(w) ==
    CASE w = 0 -> app.MAX_Byte
      [] w = 1 -> app.MAX_Num
      [] w = FlagWord -> 1
      [] OTHER -> 0

\* Mutant of CtrlWordAt: the record is written from its last word down.
CtrlWordAt_Reversed(n) == CtrlWords - 1 - n

\* The word the n-th turn of the control-record loop programs.
CtrlWordAt(n) == n

CtrlWord ==
    /\ pc = "ctrlWords" /\ word < CtrlWords
    /\ ctrl' = [ctrl EXCEPT ![CtrlWordAt(word)] = AppWord(CtrlWordAt(word))]
    /\ word' = word + 1
    /\ UNCHANGED <<app, buf, flash, pc, req, reply, client, announced, bounds>>

\* A restart: RAM is cleared and the connection is gone; the client goes on
\* with its next command or gives up.  External: the bootloader acts on a set
\* CompeleteFlag and erases the record.
Boot ==
    /\ ctrl' = IF ctrl[FlagWord] = 1 THEN EmptyCtrl ELSE ctrl
    /\ app' = NoApp
    /\ buf' = Junk
    /\ word' = 0
    /\ announced' = 0
    /\ pc' = "idle"
    /\ req' = NoReq
    /\ reply' = FALSE
    /\ client' \in {client, [client EXCEPT !.phase = "off"]}
    /\ UNCHANGED <<late, loss>>

\* NVIC_SystemReset after the record is written.
SystemReset ==
    /\ pc = "ctrlWords" /\ word = CtrlWords
    /\ Boot
    /\ UNCHANGED <<flash, crash>>

\* Power fails.  A block being programmed, or a sector being erased, is left
\* in some state in between.
PowerFailure ==
    /\ crash < MaxCrash
    /\ crash' = crash + 1
    /\ \/ pc # "program" /\ pc # "erase" /\ UNCHANGED flash
       \/ pc = "program" /\ \E c \in {flash[app.Num], Junk} :
                               flash' = [flash EXCEPT ![app.Num] = c]
       \/ pc = "erase" /\ \E torn \in SUBSET (0 .. Cap - 1) :
              flash' = [k \in 0 .. Cap |-> IF k \in torn THEN Junk ELSE flash[k]]
    /\ Boot
-----------------------------------------------------------------------------
\* The client (external): announces an image and sends its blocks in order,
\* each one again until it is answered.
ClientStart(s) ==
    /\ client.phase = "off" /\ req = NoReq /\ pc = "idle"
    /\ client' = [phase |-> "start", size |-> s, num |-> 0]
    /\ req' = StartReq(s)
    /\ UNCHANGED <<ramVars, flashVars, pc, reply, announced, bounds>>

ClientCommand ==
    IF client.phase = "start" THEN StartReq(client.size) ELSE BlockReq(client.num)

\* No answer and nothing under way: the command is sent (again).
ClientSend ==
    /\ client.phase # "off" /\ req = NoReq /\ pc = "idle" /\ ~reply
    /\ req' = ClientCommand
    /\ UNCHANGED <<ramVars, flashVars, pc, reply, client, announced, bounds>>

ClientReply ==
    /\ client.phase # "off" /\ reply
    /\ reply' = FALSE
    /\ client' = IF client.phase = "block" /\ client.num = BlocksOf(client.size)
                 THEN [client EXCEPT !.phase = "off"]
                 ELSE [client EXCEPT !.phase = "block", !.num = @ + 1]
    /\ UNCHANGED <<ramVars, flashVars, pc, req, announced, bounds>>

\* The reply comes after the client's patience: the command is repeated.
LateReply ==
    /\ late < MaxLate /\ reply /\ client.phase # "off" /\ req = NoReq
    /\ late' = late + 1
    /\ reply' = FALSE
    /\ req' = ClientCommand
    /\ UNCHANGED <<ramVars, flashVars, pc, client, announced, loss, crash>>

\* TcpServersTask ignores what recv returns when its length is not the one in
\* the header: no handler runs and nothing is answered.
Dropped ==
    /\ loss < MaxLoss /\ req # NoReq /\ pc = "idle"
    /\ loss' = loss + 1
    /\ req' = NoReq
    /\ UNCHANGED <<ramVars, flashVars, pc, reply, client, announced, late, crash>>

Server ==
    \/ OnlineFlashProgram \/ EraseBuffer \/ ProgramUpdata \/ NullBufferFault
    \/ ProgramBlock \/ CtrlErase \/ CtrlWord \/ SystemReset

Client == (\E s \in Sizes : ClientStart(s)) \/ ClientSend \/ ClientReply

Next == Server \/ Client \/ LateReply \/ Dropped \/ PowerFailure

Spec == Init /\ [][Next]_vars

\* The handler runs to completion in its task and the client keeps sending.
FairSpec == Spec /\ WF_vars(Server) /\ WF_vars(ClientSend \/ ClientReply)
-----------------------------------------------------------------------------
Contents == {Erased, Junk} \cup {Image(k, n) : k \in 1 .. Cap, n \in 0 .. BlockSize}

\* The state keeps its types and bounds.
TypeOK ==
    /\ app \in [MAX_Byte : Sizes \cup {0}, Num : 0 .. Cap, MAX_Num : 0 .. Cap,
                FlashBuff_Length : Nat, Net_Buf : BOOLEAN]
    /\ buf \in Contents
    /\ flash \in [0 .. Cap -> Contents]
    /\ ctrl \in [0 .. CtrlWords - 1 -> Nat \cup {NoWord}]
    /\ word \in 0 .. CtrlWords
    /\ pc \in {"idle", "erase", "program", "ctrlErase", "ctrlWords", "fault"}
    /\ req \in [type : {"none", "start", "block"}, arg : Nat]
    /\ reply \in BOOLEAN
    /\ announced \in Sizes \cup {0}

\* CompeleteFlag as the bootloader will find it.
Published == ctrl[FlagWord] = 1

\* The flash holds all the bytes of an image of s bytes.
Buffered(s) ==
    \A k \in 1 .. BlocksOf(s) :
        /\ flash[k].kind = "image" /\ flash[k].num = k
        /\ flash[k].valid >= BytesIn(s, k)

\* A published record of an image means that every byte of the image is in
\* the buffer, whatever was lost or interrupted on the way, as long as no
\* block was repeated after a late reply (see BufferedLength).
PublishedImageIsBuffered ==
    Published /\ ctrl[0] > 0 /\ late = 0 => Buffered(ctrl[0])

\* The record is published atomically with respect to power failures: once
\* CompeleteFlag is in flash, so are the words it speaks for, and they belong
\* to the download of this session; a record made without one describes no bytes.
PublishedRecordIsWhole ==
    Published => /\ \A w \in 0 .. FlagWord : ctrl[w] # NoWord
                 /\ ctrl[0] = announced
                 /\ ctrl[1] = BlocksOf(ctrl[0])

\* While the record is being written, the words of the turns made are those of
\* App_Ctrl and the rest of the sector is erased; at any other time the flag
\* is not set, because a restart that finds it set erases the record.
RecordInProgress ==
    IF pc = "ctrlWords"
    THEN \A w \in 0 .. CtrlWords - 1 :
            ctrl[w] = IF w < word THEN AppWord(w) ELSE NoWord
    ELSE ctrl[FlagWord] = NoWord

\* Every program operation of the download lands in a block that the start of
\* this download erased, so no block is ever a mixture of two images.
ProgramsErasedBlock ==
    pc = "program" /\ app.Net_Buf /\ app.Num < Cap
        => flash[app.Num] \in {Erased, buf}

\* A client whose commands are finally delivered to a board that stays up gets
\* its image published (and the board restarts into the bootloader).
DownloadCompletes ==
    (client.phase # "off") ~> (Published \/ crash > 0 \/ pc = "fault")

\* CompeleteFlag, "the completion flag": when it is set, the MAX_Byte bytes of
\* the download have been stored.
CompleteFlagMeansComplete == Published => Buffered(ctrl[0])

\* FlashBuff_Length, "the length buffered in flash": what it counts is what
\* the buffer holds of this download.
BufferedLength ==
    pc = "idle" /\ app.Net_Buf =>
        \A k \in 1 .. BlocksOf(app.MAX_Byte) :
            app.FlashBuff_Length >= k * BlockSize => flash[k].kind = "image"
=============================================================================

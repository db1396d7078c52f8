---------------------------- MODULE UpdateProofs ----------------------------
(***************************************************************************)
(* Proofs about the online update, for every block size, sector size,      *)
(* image and number of losses, repetitions and crashes: the control record *)
(* is published atomically, only erased blocks are programmed, and what is *)
(* published is in the buffer.                                             *)
(***************************************************************************)
EXTENDS OnlineUpdate, TLAPS

\* The two ways to count the blocks of an image agree: the test of the
\* remainder in OnlineFlashProgram and rounding up.
LEMMA BlockCount ==
  ASSUME NEW s \in Nat
  PROVE  MaxNum(s) = BlocksOf(s)
  <1> DEFINE q == s \div BlockSize
             r == s % BlockSize
  <1>1. BlockSize \in Nat \ {0}
    BY UpdateAssumption
  <1>2. q \in Int /\ r \in 0 .. BlockSize - 1 /\ s = BlockSize * q + r
    BY <1>1
  <1> HIDE DEF q, r
  <1>3. CASE r = 0
    <2>1. s + BlockSize - 1 = BlockSize * q + (BlockSize - 1)
      BY <1>1, <1>2, <1>3
    <2>2. (s + BlockSize - 1) \div BlockSize = q
      BY <1>1, <1>2, <2>1
    <2>3. QED
      BY <1>3, <2>2 DEF MaxNum, BlocksOf, q, r
  <1>4. CASE r # 0
    <2>1. s + BlockSize - 1 = BlockSize * (q + 1) + (r - 1)
      BY <1>1, <1>2
    <2>2. (s + BlockSize - 1) \div BlockSize = q + 1
      BY <1>1, <1>2, <1>4, <2>1
    <2>3. QED
      BY <1>4, <2>2 DEF MaxNum, BlocksOf, q, r
  <1> QED
    BY <1>3, <1>4

\* The types the argument needs; the commands of the client are numbers.
RecordTypes ==
    /\ app \in [MAX_Byte : Nat, Num : Nat, MAX_Num : Int,
                FlashBuff_Length : Nat, Net_Buf : BOOLEAN]
    /\ ctrl \in [0 .. CtrlWords - 1 -> Int]
    /\ word \in 0 .. CtrlWords
    /\ req.arg \in Nat
    /\ client \in [phase : {"off", "start", "block"}, size : Nat, num : Nat]

\* App_Ctrl describes the image announced since the last restart.
AppDescribesImage ==
    /\ app.MAX_Byte = announced
    /\ app.MAX_Num = MaxNum(announced)

\* The inductive invariant.
UInv == RecordTypes /\ AppDescribesImage /\ RecordInProgress

LEMMA NothingAnnounced == MaxNum(0) = 0
  <1>1. BlockSize \in Nat \ {0}
    BY UpdateAssumption
  <1>2. 0 \div BlockSize = 0 /\ 0 % BlockSize = 0
    BY <1>1
  <1> QED
    BY <1>2 DEF MaxNum

LEMMA InitUInv == Init => UInv
  BY NothingAnnounced
     DEF Init, UInv, RecordTypes, AppDescribesImage, RecordInProgress, NoApp,
         EmptyCtrl, CtrlWords, FlagWord, NoWord, NoReq

\* A restart, from any point of any handler.
LEMMA BootStep ==
  ASSUME UInv, Boot
  PROVE  UInv'
  <1>1. RecordTypes'
    <2>1. ctrl' \in [0 .. CtrlWords - 1 -> Int]
      BY DEF UInv, RecordTypes, Boot, EmptyCtrl, NoWord
    <2>2. client' \in [phase : {"off", "start", "block"}, size : Nat, num : Nat]
      BY DEF UInv, RecordTypes, Boot
    <2>3. QED
      BY <2>1, <2>2 DEF Boot, RecordTypes, NoApp, NoReq, CtrlWords
  <1>2. AppDescribesImage'
    BY NothingAnnounced DEF Boot, AppDescribesImage, NoApp
  <1>3. RecordInProgress'
    <2>1. ctrl[FlagWord] \in {NoWord, 1}
      BY DEF UInv, RecordTypes, RecordInProgress, AppWord, FlagWord,
             CtrlWords, NoWord
    <2>2. ctrl'[FlagWord] = NoWord
      BY <2>1 DEF Boot, EmptyCtrl, FlagWord, CtrlWords, NoWord
    <2>3. QED
      BY <2>2 DEF Boot, RecordInProgress
  <1> QED
    BY <1>1, <1>2, <1>3 DEF UInv

\* One turn of the loop that writes the record.
LEMMA CtrlWordStep ==
  ASSUME UInv, CtrlWord
  PROVE  UInv'
  <1> USE DEF CtrlWordAt, CtrlWords, NoWord
  <1>1. RecordTypes /\ RecordInProgress
    BY DEF UInv
  <1>2. word \in 0 .. 7 /\ pc = "ctrlWords" /\ pc' = "ctrlWords"
    BY <1>1 DEF CtrlWord, RecordTypes
  <1>3. AppWord(word) \in Int
    BY <1>1 DEF AppWord, RecordTypes
  <1>4. RecordTypes'
    BY <1>1, <1>2, <1>3 DEF CtrlWord, RecordTypes
  <1>5. \A w \in 0 .. 7 : AppWord(w)' = AppWord(w)
    BY DEF AppWord, CtrlWord
  <1>6. RecordInProgress'
    BY <1>1, <1>2, <1>5 DEF RecordInProgress, RecordTypes, CtrlWord
  <1> QED
    BY <1>4, <1>6 DEF UInv, AppDescribesImage, CtrlWord

LEMMA NextUInv == UInv /\ [Next]_vars => UInv'
  <1> SUFFICES ASSUME UInv, [Next]_vars
               PROVE  UInv'
    OBVIOUS
  <1> USE UpdateAssumption DEF UInv
  <1>0. CASE UNCHANGED vars
    BY <1>0 DEF vars, bounds, RecordTypes, AppDescribesImage, RecordInProgress, AppWord
  <1>1. CASE OnlineFlashProgram
    <2>1. MaxNum(req.arg) \in Int
      BY DEF MaxNum, RecordTypes
    <2>2. QED
      BY <1>1, <2>1 DEF OnlineFlashProgram, RecordTypes, AppDescribesImage,
         RecordInProgress, NoApp, NoReq, flashVars
  <1>2. CASE EraseBuffer
    BY <1>2 DEF EraseBuffer, ramVars, RecordTypes, AppDescribesImage, RecordInProgress
  <1>3. CASE ProgramUpdata
    BY <1>3 DEF ProgramUpdata, NoReq, flashVars, RecordTypes, AppDescribesImage,
                RecordInProgress
  <1>4. CASE NullBufferFault
    BY <1>4 DEF NullBufferFault, NoReq, ramVars, flashVars, RecordTypes,
                AppDescribesImage, RecordInProgress
  <1>5. CASE ProgramBlock
    BY <1>5 DEF ProgramBlock, RecordTypes, AppDescribesImage, RecordInProgress
  <1>6. CASE CtrlErase
    BY <1>6 DEF CtrlErase, EmptyCtrl, CtrlWords, NoWord, RecordTypes,
                AppDescribesImage, RecordInProgress
  <1>7. CASE CtrlWord
    BY <1>7, CtrlWordStep
  <1>8. CASE SystemReset
    BY <1>8, BootStep DEF SystemReset
  <1>9. CASE PowerFailure
    BY <1>9, BootStep DEF PowerFailure
  <1>10. CASE \E s \in Sizes : ClientStart(s)
    BY <1>10 DEF ClientStart, StartReq, ramVars, flashVars, RecordTypes,
                 AppDescribesImage, RecordInProgress, AppWord
  <1>11. CASE ClientSend
    BY <1>11 DEF ClientSend, ClientCommand, StartReq, BlockReq, ramVars, flashVars,
                 RecordTypes, AppDescribesImage, RecordInProgress, AppWord
  <1>12. CASE ClientReply
    <2>1. client' \in [phase : {"off", "start", "block"}, size : Nat, num : Nat]
      <3> DEFINE C == [phase : {"off", "start", "block"}, size : Nat, num : Nat]
      <3>1. client \in C
        BY DEF RecordTypes
      <3>2. client.num + 1 \in Nat
        BY <3>1
      <3>3. [client EXCEPT !.phase = "off"] \in C
        BY <3>1
      <3>4. [client EXCEPT !.phase = "block", !.num = @ + 1] \in C
        BY <3>1, <3>2
      <3> QED
        BY <1>12, <3>3, <3>4 DEF ClientReply
    <2>2. QED
      BY <1>12, <2>1 DEF ClientReply, ramVars, flashVars, RecordTypes,
         AppDescribesImage, RecordInProgress, AppWord
  <1>13. CASE LateReply
    BY <1>13 DEF LateReply, ClientCommand, StartReq, BlockReq, ramVars, flashVars,
                 RecordTypes, AppDescribesImage, RecordInProgress, AppWord
  <1>14. CASE Dropped
    BY <1>14 DEF Dropped, NoReq, ramVars, flashVars, RecordTypes,
                 AppDescribesImage, RecordInProgress, AppWord
  <1> QED
    BY <1>0, <1>1, <1>2, <1>3, <1>4, <1>5, <1>6, <1>7, <1>8, <1>9, <1>10, <1>11,
       <1>12, <1>13, <1>14 DEF Next, Server, Client

\* The record found by the bootloader is complete and describes the image of
\* this session, whenever the power fails (ProgramUpdata, the loop that writes
\* App_Ctrl with its completion flag last).
THEOREM RecordAtomic == Spec => []PublishedRecordIsWhole
  <1>1. UInv => PublishedRecordIsWhole
    <2> SUFFICES ASSUME UInv, Published
                 PROVE  /\ \A w \in 0 .. FlagWord : ctrl[w] # NoWord
                        /\ ctrl[0] = announced
                        /\ ctrl[1] = BlocksOf(ctrl[0])
      BY DEF PublishedRecordIsWhole
    <2> USE DEF CtrlWords, FlagWord, NoWord
    <2>1. /\ pc = "ctrlWords" /\ word > FlagWord
          /\ \A w \in 0 .. FlagWord : ctrl[w] = AppWord(w)
      BY DEF UInv, RecordInProgress, RecordTypes, Published
    <2>2. announced \in Nat /\ app.MAX_Byte = announced
          /\ app.MAX_Num = BlocksOf(announced) /\ app.MAX_Num \in Int
      BY BlockCount DEF UInv, RecordTypes, AppDescribesImage
    <2>3. ctrl[0] = announced /\ ctrl[1] = BlocksOf(announced)
      BY <2>1, <2>2 DEF AppWord
    <2>4. BlocksOf(announced) >= 0
      BY <2>2, UpdateAssumption DEF BlocksOf
    <2>5. \A w \in 0 .. FlagWord : AppWord(w) # NoWord
      BY <2>2, <2>4 DEF AppWord
    <2> QED
      BY <2>1, <2>3, <2>5
  <1> QED
    BY <1>1, InitUInv, NextUInv, PTL DEF Spec
-----------------------------------------------------------------------------
Block == [kind : {"erased", "junk", "image"}, num : Nat, valid : Int]

\* Block k as this download writes it.
OwnBlock(k) == Image(k, CopiedBytes(k))

\* In a download the blocks of the sector are erased or written by it, and the
\* block staged is the one to be programmed.
SectorInv ==
    /\ app.Net_Buf /\ pc # "erase" =>
           \A k \in 0 .. Cap - 1 : flash[k] \in {Erased, OwnBlock(k)}
    /\ app.Net_Buf /\ pc = "program" => buf = OwnBlock(app.Num)
    /\ flash \in [0 .. Cap -> Block] /\ buf \in Block

\* Nothing is under way while an answer is, and what is under way is the
\* command the client waits for.
RequestInv ==
    /\ client.phase # "off" => client.size \in Sizes
    /\ client.phase = "off" => pc = "idle" /\ ~reply
    /\ client.phase = "start" => client.num = 0
    /\ client.phase = "block" => client.num > 0
    /\ req = NoReq \/ (client.phase # "off" /\ req = ClientCommand)
    /\ pc # "idle" => req = NoReq /\ ~reply
    /\ reply => req = NoReq

\* Blocks of the image that the client knows or will know to be written.
Done == IF reply THEN client.num ELSE client.num - 1

\* The download of the image announced: the blocks done are in the buffer, and
\* the record is written only when all are.
SessionInv ==
    /\ announced = 0 <=> ~app.Net_Buf
    /\ pc = "erase" => announced > 0
    /\ announced > 0 =>
        /\ client.phase # "off" /\ client.size = announced
        /\ pc # "fault"
        /\ client.phase = "start" => /\ app.FlashBuff_Length = 0
                                     /\ pc = "erase" \/ (pc = "idle" /\ reply)
        /\ client.phase = "block" =>
            /\ client.num <= BlocksOf(announced) /\ pc # "erase"
            /\ reply => client.num < BlocksOf(announced)
            /\ \A k \in 1 .. Done : flash[k] = OwnBlock(k)
            /\ pc = "program" => app.Num = client.num
            /\ pc \in {"idle", "program"} =>
                   app.FlashBuff_Length = Done * BlockSize
            /\ pc \in {"ctrlErase", "ctrlWords"} =>
                   \A k \in 1 .. BlocksOf(announced) : flash[k] = OwnBlock(k)

\* The client's part of the argument holds until a reply comes late.
DownloadInv == late \in Nat /\ (late = 0 => RequestInv /\ SessionInv)

\* An image of s bytes fills all its blocks but the last, and the last with
\* the remainder when there is one.
LEMMA BlockBounds ==
  ASSUME NEW s \in Nat \ {0}
  PROVE  /\ BlocksOf(s) \in Nat \ {0}
         /\ (BlocksOf(s) - 1) * BlockSize < s
         /\ s % BlockSize # 0 => s - (BlocksOf(s) - 1) * BlockSize = s % BlockSize
  <1> DEFINE q == s \div BlockSize
             r == s % BlockSize
  <1>1. BlockSize \in Nat \ {0}
    BY UpdateAssumption
  <1>2. q \in Int /\ r \in 0 .. BlockSize - 1 /\ s = BlockSize * q + r
    BY <1>1
  <1>3. BlocksOf(s) = IF r # 0 THEN q + 1 ELSE q
    BY BlockCount DEF MaxNum
  <1> HIDE DEF q, r
  <1>4. q >= 0
    <2> SUFFICES ASSUME q <= -1 PROVE FALSE
      BY <1>2
    <2>1. BlockSize * q <= BlockSize * (-1)
      BY <1>1, <1>2
    <2> QED
      BY <1>1, <1>2, <2>1
  <1>5. CASE r # 0
    <2>1. BlocksOf(s) = q + 1 /\ (q + 1 - 1) * BlockSize = BlockSize * q
      BY <1>1, <1>2, <1>3, <1>5
    <2> QED
      BY <1>1, <1>2, <1>4, <1>5, <2>1 DEF r
  <1>6. CASE r = 0
    <2>1. BlocksOf(s) = q
      BY <1>3, <1>6
    <2>2. s = BlockSize * q
      BY <1>1, <1>2, <1>6
    <2>3. (q - 1) * BlockSize = BlockSize * q - BlockSize
      BY <1>1, <1>2
    <2>4. q # 0
      BY <1>1, <2>2
    <2> QED
      BY <1>1, <1>2, <1>4, <1>6, <2>1, <2>2, <2>3, <2>4 DEF r
  <1> QED
    BY <1>5, <1>6

\* The length counted passes the size only with the last block.
LEMMA LastBlock ==
  ASSUME NEW s \in Nat \ {0}, NEW k \in Nat, k <= BlocksOf(s), k * BlockSize > s
  PROVE  k = BlocksOf(s)
  <1> DEFINE N == BlocksOf(s)
  <1>1. N \in Nat \ {0} /\ (N - 1) * BlockSize < s /\ BlockSize \in Nat \ {0}
    BY BlockBounds, UpdateAssumption
  <1> HIDE DEF N
  <1>2. k <= N - 1 => k * BlockSize <= (N - 1) * BlockSize
    BY <1>1
  <1>3. k * BlockSize \in Nat /\ (N - 1) * BlockSize \in Nat
    BY <1>1
  <1> QED
    BY <1>1, <1>2, <1>3 DEF N

\* What is erased, lost or written is a block.
LEMMA Blocks ==
  ASSUME RecordTypes, NEW k \in Nat
  PROVE  Erased \in Block /\ Junk \in Block /\ OwnBlock(k) \in Block
  <1>1. CopiedBytes(k) \in Int
    BY UpdateAssumption DEF CopiedBytes, RecordTypes
  <1> QED
    BY <1>1 DEF Block, Erased, Junk, OwnBlock, Image

\* Steps that leave App_Ctrl's size alone write the same blocks.
LEMMA SameBlocks ==
  ASSUME app'.MAX_Num = app.MAX_Num, app'.MAX_Byte = app.MAX_Byte, NEW k
  PROVE  OwnBlock(k)' = OwnBlock(k)
  BY DEF OwnBlock, CopiedBytes

\* A step that touches neither flash nor App_Ctrl nor the block staged.
LEMMA SectorFrame ==
  ASSUME SectorInv, UNCHANGED <<flash, app, buf>>,
         pc' = pc \/ pc' \notin {"idle", "program"}, pc' # "program" \/ pc = "program",
         pc # "erase" \/ pc' = "erase"
  PROVE  SectorInv'
  <1>1. \A k \in 0 .. Cap - 1 : OwnBlock(k)' = OwnBlock(k)
    BY SameBlocks
  <1>2. OwnBlock(app.Num)' = OwnBlock(app.Num)
    BY SameBlocks
  <1> QED
    BY <1>1, <1>2 DEF SectorInv

\* The buffer sector holds nothing but blocks of this download.
LEMMA SectorStep ==
  ASSUME UInv, SectorInv, [Next]_vars
  PROVE  SectorInv'
  <1>1. RecordTypes /\ flash \in [0 .. Cap -> Block] /\ buf \in Block
    BY DEF UInv, SectorInv
  <1>2. Erased \in Block /\ Junk \in Block
    BY <1>1, Blocks
  <1>3. ASSUME flash' \in [0 .. Cap -> Block], Boot PROVE SectorInv'
    BY <1>2, <1>3 DEF SectorInv, Boot, NoApp
  <1>4. CASE OnlineFlashProgram
    BY <1>1, <1>4 DEF SectorInv, OnlineFlashProgram, flashVars
  <1>5. CASE EraseBuffer
    <2>1. flash' \in [0 .. Cap -> Block]
      BY <1>1, <1>2, <1>5 DEF EraseBuffer
    <2>2. \A k \in 0 .. Cap - 1 : flash'[k] = Erased
      BY <1>5, UpdateAssumption DEF EraseBuffer
    <2> QED
      BY <1>1, <1>5, <2>1, <2>2 DEF SectorInv, EraseBuffer, ramVars
  <1>6. CASE ProgramUpdata
    <2>1. req.arg \in Nat /\ app'.Num = req.arg /\ app'.Net_Buf = app.Net_Buf
          /\ app'.MAX_Num = app.MAX_Num /\ app'.MAX_Byte = app.MAX_Byte
      BY <1>1, <1>6 DEF RecordTypes, ProgramUpdata
    <2>2. buf' = IF app.Net_Buf THEN OwnBlock(req.arg) ELSE Junk
      BY <1>6 DEF ProgramUpdata, OwnBlock
    <2>3. buf' \in Block
      BY <1>1, <2>1, <2>2, Blocks
    <2>4. \A k \in 0 .. Cap - 1 : OwnBlock(k)' = OwnBlock(k)
      BY <2>1, SameBlocks
    <2>5. app'.Net_Buf => buf' = OwnBlock(app.Num)'
      BY <2>1, <2>2 DEF OwnBlock, CopiedBytes
    <2> QED
      BY <1>1, <1>6, <2>1, <2>3, <2>4, <2>5 DEF SectorInv, ProgramUpdata, flashVars
  <1>7. CASE ProgramBlock
    <2>1. /\ app'.Net_Buf = app.Net_Buf /\ pc' # "program" /\ pc' # "erase"
          /\ app'.MAX_Num = app.MAX_Num /\ app'.MAX_Byte = app.MAX_Byte
      BY <1>1, <1>7 DEF RecordTypes, ProgramBlock
    <2>2. \A k \in 0 .. Cap - 1 : OwnBlock(k)' = OwnBlock(k)
      BY <2>1, SameBlocks
    <2>3. Programmed(flash[app.Num], buf) \in Block
      BY <1>1, <1>2 DEF Programmed
    <2>4. flash' \in [0 .. Cap -> Block]
      BY <1>1, <1>7, <2>3 DEF ProgramBlock
    <2>5. \A k \in 0 .. Cap :
             flash'[k] = IF k = app.Num THEN Programmed(flash[k], buf) ELSE flash[k]
      BY <1>1, <1>7 DEF ProgramBlock
    <2>6. ASSUME app.Net_Buf, NEW k \in 0 .. Cap - 1
          PROVE  flash'[k] \in {Erased, OwnBlock(k)}
      <3>1. flash[k] \in {Erased, OwnBlock(k)} /\ buf = OwnBlock(app.Num)
        BY <1>7, <2>6 DEF SectorInv, ProgramBlock
      <3>2. k \in 0 .. Cap
        BY UpdateAssumption
      <3> QED
        BY <2>5, <3>1, <3>2 DEF Programmed
    <2> QED
      BY <1>1, <1>7, <2>1, <2>2, <2>4, <2>6 DEF SectorInv, ProgramBlock
  <1>8. CASE SystemReset
    BY <1>1, <1>3, <1>8 DEF SystemReset
  <1>9. CASE PowerFailure
    <2>1. flash' \in [0 .. Cap -> Block]
      <3>1. CASE UNCHANGED flash
        BY <1>1, <3>1
      <3>2. CASE \E c \in {flash[app.Num], Junk} :
                    flash' = [flash EXCEPT ![app.Num] = c]
        BY <1>1, <1>2, <3>2
      <3>3. CASE \E torn \in SUBSET (0 .. Cap - 1) :
              flash' = [k \in 0 .. Cap |-> IF k \in torn THEN Junk ELSE flash[k]]
        BY <1>1, <1>2, <3>3
      <3> QED
        BY <1>9, <3>1, <3>2, <3>3 DEF PowerFailure
    <2> QED
      BY <1>3, <1>9, <2>1 DEF PowerFailure
  <1>10. CASE NullBufferFault \/ CtrlErase
    BY <1>10, SectorFrame DEF NullBufferFault, CtrlErase, ramVars, flashVars
  <1>11. CASE CtrlWord \/ Client \/ LateReply \/ Dropped \/ UNCHANGED vars
    <2>1. UNCHANGED <<flash, app, buf, pc>>
      BY <1>11 DEF CtrlWord, Client, ClientStart, ClientSend, ClientReply, LateReply,
         Dropped, ramVars, flashVars, vars
    <2> QED
      BY <2>1, SectorFrame
  <1> QED
    BY <1>4, <1>5, <1>6, <1>7, <1>8, <1>9, <1>10, <1>11 DEF Next, Server

\* Every program operation of a download lands in a block erased for it, or
\* repeats what is there (OnlineFlashProgram's erase, ProgramUpdata's loop).
THEOREM OnlyErasedProgrammed == Spec => []ProgramsErasedBlock
  <1>1. Init => SectorInv
    BY UpdateAssumption DEF Init, SectorInv, NoApp, Junk, Block
  <1>2. UInv /\ SectorInv => ProgramsErasedBlock
    <2> SUFFICES ASSUME UInv, SectorInv, pc = "program", app.Net_Buf, app.Num < Cap
                 PROVE  flash[app.Num] \in {Erased, buf}
      BY DEF ProgramsErasedBlock
    <2>1. app.Num \in 0 .. Cap - 1
      BY UpdateAssumption DEF UInv, RecordTypes
    <2> QED
      BY <2>1 DEF SectorInv
  <1> QED
    BY <1>1, <1>2, InitUInv, NextUInv, SectorStep, PTL DEF Spec
-----------------------------------------------------------------------------
\* The sizes the theorem on the whole image is about: the last block of the
\* image is not full, and it is not the last of the sector.
FittingSizes == \A s \in Sizes : s % BlockSize # 0 /\ BlocksOf(s) < Cap

\* The commands and answers under way.
LEMMA RequestStep ==
  ASSUME UInv, RequestInv, [Next]_vars, late' = late
  PROVE  RequestInv'
  <1> USE DEF RequestInv
  <1>0. client \in [phase : {"off", "start", "block"}, size : Nat, num : Nat]
    BY DEF UInv, RecordTypes
  <1>1. ASSUME Boot PROVE RequestInv'
    BY <1>0, <1>1 DEF Boot, NoReq
  <1>2. CASE OnlineFlashProgram \/ ProgramUpdata \/ NullBufferFault
    BY <1>2 DEF OnlineFlashProgram, ProgramUpdata, NullBufferFault, NoReq,
       ClientCommand, StartReq, BlockReq
  <1>3. CASE EraseBuffer
    BY <1>3 DEF EraseBuffer, ClientCommand
  <1>4. CASE ProgramBlock
    BY <1>4 DEF ProgramBlock, ClientCommand
  <1>5. CASE CtrlErase \/ CtrlWord
    BY <1>5 DEF CtrlErase, CtrlWord, ClientCommand
  <1>6. CASE SystemReset \/ PowerFailure
    BY <1>1, <1>6 DEF SystemReset, PowerFailure
  <1>7. ASSUME NEW s \in Sizes, ClientStart(s) PROVE RequestInv'
    BY <1>7 DEF ClientStart, ClientCommand
  <1>8. CASE ClientSend
    BY <1>8 DEF ClientSend, ClientCommand
  <1>9. CASE ClientReply
    <2>1. /\ client'.size = client.size /\ client'.phase \in {"off", "block"}
          /\ client'.phase = "block" => client'.num = client.num + 1
      BY <1>0, <1>9 DEF ClientReply
    <2> QED
      BY <1>0, <1>9, <2>1 DEF ClientReply
  <1>10. CASE LateReply
    BY <1>10 DEF LateReply
  <1>11. CASE Dropped
    BY <1>11 DEF Dropped
  <1>12. CASE UNCHANGED vars
    BY <1>12 DEF vars, bounds, ClientCommand
  <1> QED
    BY <1>2, <1>3, <1>4, <1>5, <1>6, <1>7, <1>8, <1>9, <1>10, <1>11, <1>12
       DEF Next, Server, Client

\* A restart ends the download.
LEMMA SessionBoot ==
  ASSUME Boot
  PROVE  SessionInv'
  BY DEF Boot, SessionInv, NoApp

\* A block is programmed: it is the next of the image, and the record follows
\* only when it is the last.
LEMMA SessionProgram ==
  ASSUME FittingSizes, UInv, SectorInv, RequestInv, SessionInv, ProgramBlock
  PROVE  SessionInv'
  <1>1. RecordTypes /\ AppDescribesImage /\ flash \in [0 .. Cap -> Block]
    BY DEF UInv, SectorInv
  <1>2. /\ app'.Net_Buf = app.Net_Buf /\ app'.Num = app.Num
        /\ app'.MAX_Num = app.MAX_Num /\ app'.MAX_Byte = app.MAX_Byte
        /\ app'.FlashBuff_Length = app.FlashBuff_Length + BlockSize
    BY <1>1 DEF RecordTypes, ProgramBlock
  <1>3. announced' = announced /\ client' = client /\ pc' \in {"idle", "ctrlErase"}
    BY DEF ProgramBlock
  <1>4. CASE announced = 0
    BY <1>2, <1>3, <1>4 DEF SessionInv
  <1>5. CASE announced # 0
    <2> DEFINE N == BlocksOf(announced)
    <2>1. announced > 0 /\ announced \in Nat \ {0}
      BY <1>1, <1>5 DEF RecordTypes, AppDescribesImage
    <2>2. /\ client.phase = "block" /\ client.size = announced /\ app.Net_Buf
          /\ client.num <= N /\ app.Num = client.num /\ ~reply
          /\ app.FlashBuff_Length = (client.num - 1) * BlockSize
          /\ \A k \in 1 .. client.num - 1 : flash[k] = OwnBlock(k)
      <3>1. pc = "program" /\ ~reply
        BY DEF ProgramBlock, RequestInv
      <3>2. client.phase = "block"
        BY <1>1, <2>1, <3>1 DEF SessionInv, RecordTypes
      <3> QED
        BY <2>1, <3>1, <3>2 DEF SessionInv, Done
    <2>3. N \in Nat \ {0} /\ N < Cap /\ BlockSize \in Nat \ {0} /\ Cap \in Nat
      BY <2>1, <2>2, BlockBounds, UpdateAssumption DEF FittingSizes, RequestInv
    <2>4. client.num \in Nat \ {0} /\ client.num \in 0 .. Cap - 1
      BY <1>1, <2>2, <2>3 DEF RequestInv, RecordTypes
    <2> HIDE DEF N
    <2>5. app'.FlashBuff_Length = client.num * BlockSize
      BY <1>2, <2>2, <2>3, <2>4
    <2>6. \A k \in Nat : OwnBlock(k)' = OwnBlock(k)
      BY <1>2, SameBlocks
    <2>7. flash'[client.num] = OwnBlock(client.num)
      <3>1. flash'[client.num] = Programmed(flash[client.num], buf)
        <4>1. client.num \in 0 .. Cap
          BY <2>3, <2>4
        <4> QED
          BY <1>1, <2>2, <4>1 DEF ProgramBlock
      <3>2. /\ buf = OwnBlock(client.num)
            /\ flash[client.num] \in {Erased, OwnBlock(client.num)}
        BY <2>2, <2>4 DEF SectorInv, ProgramBlock
      <3> QED
        BY <3>1, <3>2 DEF Programmed
    <2>8. \A k \in 1 .. client.num : flash'[k] = OwnBlock(k)
      <3> SUFFICES ASSUME NEW k \in 1 .. client.num, k # client.num
                   PROVE  flash'[k] = OwnBlock(k)
        BY <2>7
      <3>1. \A n \in 0 .. Cap - 1 :
               k \in 1 .. n /\ k # n => k \in 1 .. n - 1 /\ k \in 0 .. Cap
        BY <2>3
      <3>2. k \in 1 .. client.num - 1 /\ k \in 0 .. Cap
        BY <2>4, <3>1
      <3> QED
        BY <1>1, <2>2, <3>2 DEF ProgramBlock
    <2>9. \A k \in 1 .. client.num : flash'[k] = OwnBlock(k)'
      BY <2>4, <2>6, <2>8
    <2>10. app.MAX_Num = N /\ app.MAX_Byte = announced
      BY <1>1, <2>1, BlockCount DEF AppDescribesImage, N
    <2>11. CASE pc' = "idle"
      <3>1. reply' /\ client.num # N
        BY <1>2, <2>2, <2>10, <2>11 DEF ProgramBlock, Finished
      <3>2. Done' = client.num
        BY <1>3, <3>1 DEF Done
      <3>3. client.num < N
        BY <2>2, <2>3, <2>4, <3>1
      <3> QED
        BY <1>2, <1>3, <2>1, <2>2, <2>5, <2>9, <2>11, <3>1, <3>2, <3>3
           DEF SessionInv, N
    <2>12. CASE pc' = "ctrlErase"
      <3>1. Finished(app') /\ ~reply'
        BY <2>2, <2>12 DEF ProgramBlock
      <3>2. client.num = N
        <4>1. CASE app'.Num = app'.MAX_Num
          BY <1>2, <2>2, <2>10, <4>1
        <4>2. CASE app'.FlashBuff_Length > app'.MAX_Byte
          BY <1>2, <2>1, <2>2, <2>4, <2>5, <2>10, <4>2, LastBlock DEF N
        <4> QED
          BY <3>1, <4>1, <4>2 DEF Finished
      <3>3. Done' = client.num - 1
        BY <1>3, <2>2, <3>1 DEF Done
      <3>4. \A k \in 1 .. Done' : flash'[k] = OwnBlock(k)'
        BY <2>4, <2>9, <3>3
      <3> QED
        BY <1>2, <1>3, <2>1, <2>2, <2>9, <2>12, <3>1, <3>2, <3>4
           DEF SessionInv, N
    <2> QED
      BY <1>3, <2>11, <2>12
  <1> QED
    BY <1>4, <1>5

\* The download under way.
LEMMA SessionStep ==
  ASSUME FittingSizes, UInv, SectorInv, RequestInv, SessionInv, [Next]_vars,
         late \in Nat, late' = late
  PROVE  SessionInv'
  <1>1. /\ RecordTypes /\ AppDescribesImage
        /\ client \in [phase : {"off", "start", "block"}, size : Nat, num : Nat]
        /\ announced \in Nat
    BY DEF UInv, RecordTypes, AppDescribesImage
  <1>2. CASE OnlineFlashProgram
    <2>1. client.phase = "start" /\ req.arg = client.size /\ client.size \in Sizes
      BY <1>1, <1>2 DEF OnlineFlashProgram, RequestInv, ClientCommand, NoReq, StartReq,
         BlockReq
    <2>2. client.size > 0
      <3>1. \A s \in Sizes : s > 0
        BY UpdateAssumption
      <3> QED
        BY <2>1, <3>1
    <2> QED
      BY <1>2, <2>1, <2>2 DEF OnlineFlashProgram, SessionInv, NoApp
  <1>3. CASE EraseBuffer
    BY <1>1, <1>3 DEF EraseBuffer, SessionInv, ramVars
  <1>4. CASE ProgramUpdata
    <2>1. client.phase = "block" /\ req.arg = client.num /\ ~reply
      BY <1>1, <1>4 DEF ProgramUpdata, RequestInv, ClientCommand, NoReq, StartReq,
         BlockReq
    <2>2. /\ app'.Net_Buf = app.Net_Buf /\ app'.Num = req.arg
          /\ app'.MAX_Num = app.MAX_Num /\ app'.MAX_Byte = app.MAX_Byte
          /\ app'.FlashBuff_Length = app.FlashBuff_Length
      BY <1>1, <1>4 DEF RecordTypes, ProgramUpdata
    <2>3. \A k \in Nat : OwnBlock(k)' = OwnBlock(k)
      BY <2>2, SameBlocks
    <2>4. Done' = Done /\ Done \in Int
      BY <1>1, <1>4 DEF Done, ProgramUpdata
    <2> QED
      BY <1>1, <1>4, <2>1, <2>2, <2>3, <2>4 DEF ProgramUpdata, SessionInv, flashVars
  <1>5. CASE NullBufferFault
    BY <1>5 DEF NullBufferFault, SessionInv, ramVars
  <1>6. CASE ProgramBlock
    BY <1>6, SessionProgram
  <1>7. CASE SystemReset \/ PowerFailure
    BY <1>7, SessionBoot DEF SystemReset, PowerFailure
  <1>8. CASE CtrlErase \/ CtrlWord
    <2>1. UNCHANGED <<app, flash, reply, client, announced>>
      BY <1>8 DEF CtrlErase, CtrlWord
    <2>2. pc \in {"ctrlErase", "ctrlWords"} /\ pc' = "ctrlWords"
      BY <1>8 DEF CtrlErase, CtrlWord
    <2>3. \A k : OwnBlock(k)' = OwnBlock(k)
      BY <2>1, SameBlocks
    <2>4. Done' = Done
      BY <2>1 DEF Done
    <2> QED
      BY <2>1, <2>2, <2>3, <2>4 DEF SessionInv
  <1>9. ASSUME NEW s \in Sizes, ClientStart(s) PROVE SessionInv'
    <2>1. announced = 0
      BY <1>1, <1>9 DEF SessionInv, ClientStart
    <2> QED
      BY <1>9, <2>1 DEF SessionInv, ClientStart, ramVars
  <1>10. CASE ClientReply
    <2>1. UNCHANGED <<app, flash, pc, announced>> /\ reply /\ ~reply' /\ pc = "idle"
      BY <1>10 DEF ClientReply, ramVars, flashVars, RequestInv
    <2>2. CASE announced = 0
      BY <2>1, <2>2 DEF SessionInv
    <2>3. CASE announced # 0
      <3>1. announced > 0 /\ BlocksOf(announced) \in Nat \ {0}
        BY <1>1, <2>3, BlockBounds
      <3>2. client.size = announced /\ client.phase # "off"
        BY <3>1 DEF SessionInv
      <3>3. \A k : OwnBlock(k)' = OwnBlock(k)
        BY <2>1, SameBlocks
      <3>4. CASE client.phase = "start"
        <4>1. client.num = 0 /\ app.FlashBuff_Length = 0
          BY <3>1, <3>4 DEF SessionInv, RequestInv
        <4>2. client'.phase = "block" /\ client'.num = 1 /\ client'.size = announced
          BY <1>1, <1>10, <3>2, <3>4, <4>1 DEF ClientReply
        <4>3. Done' = 0 /\ Done' * BlockSize = 0
          BY <2>1, <4>2, UpdateAssumption DEF Done
        <4> QED
          BY <2>1, <3>1, <4>1, <4>2, <4>3 DEF SessionInv
      <3>5. CASE client.phase = "block"
        <4>1. client.num < BlocksOf(client.size)
          BY <2>1, <3>1, <3>2, <3>5 DEF SessionInv
        <4>2. /\ client'.phase = "block" /\ client'.num = client.num + 1
              /\ client'.size = announced
          BY <1>1, <1>10, <3>1, <3>2, <3>5, <4>1 DEF ClientReply
        <4>3. Done' = Done
          BY <1>1, <2>1, <4>2 DEF Done
        <4>4. client.num + 1 <= BlocksOf(announced)
          BY <1>1, <3>1, <3>2, <4>1
        <4> QED
          BY <2>1, <3>1, <3>3, <3>5, <4>2, <4>3, <4>4 DEF SessionInv
      <3> QED
        BY <1>1, <3>2, <3>4, <3>5
    <2> QED
      BY <2>2, <2>3
  <1>11. CASE ClientSend \/ Dropped \/ UNCHANGED vars
    <2>1. UNCHANGED <<app, flash, pc, reply, client, announced>>
      BY <1>11 DEF ClientSend, Dropped, vars, ramVars, flashVars
    <2>2. \A k : OwnBlock(k)' = OwnBlock(k)
      BY <2>1, SameBlocks
    <2>3. Done' = Done
      BY <2>1 DEF Done
    <2> QED
      BY <2>1, <2>2, <2>3 DEF SessionInv
  <1>12. CASE LateReply
    BY <1>12 DEF LateReply
  <1> QED
    BY <1>2, <1>3, <1>4, <1>5, <1>6, <1>7, <1>8, <1>9, <1>10, <1>11, <1>12
       DEF Next, Server, Client

\* The invariant of the download holds from the start on.
LEMMA DownloadInvariant ==
  ASSUME FittingSizes
  PROVE  Spec => [](UInv /\ SectorInv /\ DownloadInv)
  <1>1. Init => UInv /\ SectorInv /\ DownloadInv
    <2> SUFFICES ASSUME Init PROVE SectorInv /\ DownloadInv
      BY InitUInv
    <2>1. SectorInv
      BY UpdateAssumption DEF Init, SectorInv, NoApp, Junk, Block
    <2>2. RequestInv /\ SessionInv
      BY DEF Init, RequestInv, SessionInv, NoApp
    <2> QED
      BY <2>1, <2>2 DEF Init, DownloadInv
  <1>2. UInv /\ SectorInv /\ DownloadInv /\ [Next]_vars
          => (UInv /\ SectorInv /\ DownloadInv)'
    <2> SUFFICES ASSUME UInv, SectorInv, DownloadInv, [Next]_vars
                 PROVE  DownloadInv'
      BY NextUInv, SectorStep
    <2>1. late' = late \/ late' = late + 1
      BY DEF Next, Server, Client, OnlineFlashProgram, EraseBuffer, ProgramUpdata,
         NullBufferFault, ProgramBlock, CtrlErase, CtrlWord, SystemReset, Boot,
         PowerFailure, ClientStart, ClientSend, ClientReply, LateReply, Dropped,
         bounds, vars
    <2>2. late \in Nat
      BY DEF DownloadInv
    <2>3. CASE late' = late
      BY <2>2, <2>3, RequestStep, SessionStep DEF DownloadInv
    <2>4. CASE late' = late + 1
      BY <2>2, <2>4 DEF DownloadInv
    <2> QED
      BY <2>1, <2>3, <2>4
  <1> QED
    BY <1>1, <1>2, PTL DEF Spec

\* A published record of an image means that the whole image is in the buffer,
\* whatever commands are lost and whenever the power fails, as long as no
\* answer comes late, if the last block of an image is not full and not the
\* last of the sector: ProgramUpdata copies MAX_Byte % 1024 bytes of the last
\* block and stores blocks, numbered from 1, at offset Num * 1024.
THEOREM ImageBuffered ==
  ASSUME FittingSizes
  PROVE  Spec => []PublishedImageIsBuffered
  <1>1. UInv /\ SectorInv /\ DownloadInv => PublishedImageIsBuffered
    <2> SUFFICES ASSUME UInv, SectorInv, DownloadInv, Published, ctrl[0] > 0, late = 0
                 PROVE  Buffered(ctrl[0])
      BY DEF PublishedImageIsBuffered
    <2>1. /\ pc = "ctrlWords" /\ ctrl[0] = AppWord(0)
      BY DEF UInv, RecordInProgress, RecordTypes, Published, FlagWord, CtrlWords,
         NoWord
    <2>2. /\ app.MAX_Byte = announced /\ announced \in Nat /\ ctrl[0] = announced
          /\ app.MAX_Num = BlocksOf(announced)
      <3>1. app.MAX_Byte = announced /\ announced \in Nat
        BY DEF UInv, AppDescribesImage, RecordTypes
      <3>2. app.MAX_Num = MaxNum(announced) /\ AppWord(0) = app.MAX_Byte
        BY DEF UInv, AppDescribesImage, AppWord, FlagWord
      <3> QED
        BY <2>1, <3>1, <3>2, BlockCount
    <2>3. announced > 0 /\ announced \in Nat \ {0}
      BY <2>2
    <2>4. /\ client.size = announced /\ announced \in Sizes
          /\ \A k \in 1 .. BlocksOf(announced) : flash[k] = OwnBlock(k)
      <3>1. client.phase # "off" /\ client.size = announced
        BY <2>3 DEF DownloadInv, SessionInv
      <3>2. client.phase = "block"
        BY <2>1, <2>3, <3>1 DEF DownloadInv, SessionInv, UInv, RecordTypes
      <3> QED
        BY <2>1, <2>3, <3>1, <3>2 DEF DownloadInv, SessionInv, RequestInv
    <2> DEFINE N == BlocksOf(announced)
    <2>5. /\ N \in Nat \ {0} /\ BlockSize \in Nat \ {0}
          /\ announced - (N - 1) * BlockSize = announced % BlockSize
      BY <2>3, <2>4, BlockBounds, UpdateAssumption DEF FittingSizes
    <2>6. ASSUME NEW k \in 1 .. N
          PROVE  /\ flash[k].kind = "image" /\ flash[k].num = k
                 /\ flash[k].valid >= BytesIn(announced, k)
      <3>1. /\ flash[k].kind = "image" /\ flash[k].num = k
            /\ flash[k].valid = CopiedBytes(k)
        <4>1. flash[k] = [kind |-> "image", num |-> k, valid |-> CopiedBytes(k)]
          BY <2>4 DEF OwnBlock, Image
        <4> QED
          BY <4>1
      <3>2. CopiedBytes(k) = BytesIn(announced, k) /\ CopiedBytes(k) \in Int
        <4>1. CASE k < N
          BY <2>2, <2>5, <4>1 DEF CopiedBytes, BytesIn
        <4>2. CASE k = N
          <5>1. CopiedBytes(k) = announced % BlockSize
            BY <2>2, <2>5, <4>2 DEF CopiedBytes
          <5>2. BytesIn(announced, k) = announced - (N - 1) * BlockSize
            BY <2>5, <4>2 DEF BytesIn
          <5>3. announced % BlockSize \in Int
            BY <2>2, <2>5
          <5> QED
            BY <2>5, <5>1, <5>2, <5>3
        <4> QED
          BY <2>5, <4>1, <4>2
      <3> QED
        BY <3>1, <3>2
    <2> QED
      BY <2>2, <2>6 DEF Buffered
  <1> QED
    BY <1>1, DownloadInvariant, PTL
=============================================================================

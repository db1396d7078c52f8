# Verification of the GD32 cooling and ageing-test control board

TLA+ models, TLC runs and TLAPS proofs for the firmware under `src/GD32_STD`:
a GD32F4xx controller with FreeRTOS and lwIP that samples alarm lines and
temperatures of an ageing rack, cuts its power when there is smoke or a leak,
and is commanded, and updated, over TCP.  Paths below are relative to
`src/GD32_STD`.

## 1. The system

| Component | State | Operations | Interacts with | What is hard | What makes it correct |
|---|---|---|---|---|---|
| Protection: `Core/Peripheral/Alarm.c`, `DataSamp.c`, `Inter_init.c` | `SysData` (RD, AlarmFlag, AlarmCnt, reports), `SysCtrl` (ConnectFlag, DelayProtectCnt), power output | `DataCollect` = `RD_READ`, `Alarm_READ`, `Read_SmokeandWater` | called by AppTask; ConnectFlag comes from the TCP task | a debounce over many samples, a start-up delay in 8 bits, resets | power cut iff smoke or leak confirmed; armed for good; reports are current |
| Online update: `Core/src/ETHCommunication.c`, `Core/inc/tcpecho.h` | `App_Ctrl` in RAM, buffer sector and control sector in flash | `OnlineFlashProgram`, `ProgramUpdata` | client, bootloader (reads the control record) | power failure between flash operations, lost and repeated commands | a published record is whole and its image is buffered |
| Ethernet reception: `Lib/LWIP/src/arch/ethernetif.c`, `gd32f4xx_enet.c`, `ENET_IRQHandler` in `Core/src/main.c` | descriptor ring, current descriptor, semaphore, pbufs | interrupt, `low_level_input`, `enet_frame_receive`, `ethernetif_input` | DMA, `tcpip_thread` | DMA and interrupt against the task; ring, pool and mailbox at their limits | no frame duplicated, reordered or left behind; DMA never stays suspended |
| TCP server: `Core/src/Tcp_Server.c` | listening and connected descriptor, `recv_data`, `Eth_Data` | socket/bind/listen/accept/recv/close life cycle, framing of commands | lwIP, command dispatch | any call may fail; TCP cuts and joins; stale buffers | no descriptor lost, only whole commands taken, clients served |
| Command dispatch and replies: `ETHCommunication.c` | `Eth_Data`, command table | `EthernetInterfaceHandler`, 20 handlers, `EthernetReceiveSuccess`, `Crs` | TCP server, all peripherals | checksums left uninitialised, handlers without reply, reply in three writes, restarts in the middle | each command answered once; devices stay as commanded |
| Ethernet transmission: `ethernetif.c` `low_level_output`, `enet_frame_transmit` | `s_tx_semaphore`, transmit ring | wait, copy, hand over | `tcpip_thread`, DMA | busy wait for a descriptor, an endless loop on any error | the loop is never reached; frames leave in order |
| Temperatures: `MAX485.c` `ReadTemp`, `Alarm.c` `Read_AllTemp` | `Temperature`, `LastTemperature`, `Temp_Cnt` | read one half, compare, restart | protection, packets | the restart undoes the protection's progress | restart iff every sensor is frozen |
| Packets: `DataSamp.c` `AgingPack`, `ETHCommunication.c` `SendData` | two packets and `Aging_Pack` | fill, flip, send | sampling task, TCP task | double buffer between two tasks, read in two passes | an answer is one whole packet, the newest |
| RS-485: `Core/Peripheral/MAX485.c` | `RT_Flag`, `Re_Buff`, receive channel | send, wait, store | sampling task, two interrupts | count and time-out race; unbounded wait | a value is of one answer, and of a recent one |
| Valves and ADC: `AMC7836.c` | registers of the chip | `AMC7836SetDAC`, `AMC7836ReadADC` | sampling task, TCP task | two tasks on one serial interface | outputs are whole, and as commanded |
| Lamps: `Relay_Ctrl.c` | shadow `SwitchUnit`, latch | `CtrlHC138_Y1` | TCP task | shadow lost by a restart | a unit shows what was commanded for it |
| Calibration: `WriteKB`, `SendKB` | flash sector 9 | erase, program, upload | TCP task | restart between words | an acknowledged calibration stays |
| lwIP port: `Lib/LWIP/src/arch/sys_arch.c` | - | wrappers of FreeRTOS objects | lwIP | no lightweight protection | - |
| CPLD outputs, fan, display, AD8688, RTC, water flow | registers, small shadows | register writes, input capture | sampling task, handlers | - | - |
| Network configuration, board set-up, fault handlers | registers | start-up | - | - | - |

Tasks: AppTask and TcpServersTask (priority 15), `tcpip_thread` (10),
`ethernetif_input` (9), preemptive scheduling with a 1 ms tick, and the
interrupts of Ethernet, UART and timers.

The commit under study is a work in progress: in `main.c` AppTask the calls of
the sampling chain are commented out (lines 118-146), `InitAGESysContral` is
called nowhere, `Tcp_Server.c:120` does not call `EthernetInterfaceHandler`,
`NET_REST` is undefined, and `DataSamp.c` is not in the Keil project.  The
models describe these functions as written, called the way the commented-out
lines, the tables and the comments call them.

## 2. Modules

| Module | Contents |
|---|---|
| `Alarm` | the alarm part of `DataCollect`: start-up delay, sampling, debounce, reports, power output, resets |
| `AlarmProofs` | its invariants proved for all parameters |
| `OnlineUpdate` | the two update handlers, split at every flash operation, with flash, client, bootloader, losses and power failures |
| `UpdateProofs` | proofs: atomicity of the control record, programming of erased blocks, the image in the buffer |
| `Collect` | the sampling loop: `ReadTemp`, the protection (`Alarm`, extended), `Read_AllTemp` with its restart, `AgingPack`; implements `Alarm` |
| `CollectProofs` | proofs: the loop implements `Alarm`; fresh halves, restarts, the two limits |
| `Rs485` | `ReadTemp` and `MAX485_SendData` against two interrupts, the receive channel and the bus |
| `Rs485Proofs` | proofs: the wait can end, values are of one answer and of a recent one |
| `PacketStore` | what a client may expect of MGETDATA (abstract) |
| `Packets` | the two packets, `AgingPack` and `SendData`; implements `PacketStore` |
| `Amc7836` | frames of two tasks on the serial interface of the DAC and ADC chip |
| `Command` | the TCP task's command handling with lamps, fan, valves and calibration, next to the sampling task; extends `Packets` and `Amc7836` |
| `CommandProofs` | proofs: `Packets` implements `PacketStore`; replies, calibration, lamps, valves |
| `EthRx` | receive ring, DMA, interrupt handler, input task, mailbox and stack |
| `EthRxProofs` | proofs: ring, account, order, no stall |
| `EthTx` | transmit ring, DMA and `low_level_output` |
| `EthIf` | `EthRx` and `EthTx` composed in `tcpip_thread` |
| `EthIfProofs` | proofs: transmission; the interface receives as `EthRx` says |
| `TcpServer` | `TcpServersTask` with lwIP's descriptor table and clients that send commands over a byte stream |
| `TcpProofs` | proofs: descriptors, sessions, commands |
| `MC*` | instances for TLC |

Definitions called `X_Something` under the comment "Mutant of X" are wrong
variants of `X`, used to see that the properties notice them; no specification
uses them.

### Alarm

`pin` are the levels of the lines `Read_State` reads ({0, 2, 5, 7, 9}; the code
forces the others to 1).  One collection is one step, because `DataCollect`
reads, debounces and acts without another writer of its variables in between;
`ConnectFlag` is read once per collection.  `Delay`, `Protection` and
`NoClient` are its three branches, `Connect` is the assignment in the TCP task
(compiled with `NET_REST`), `Restart` a reset, at any time and any number of
times; that the power output is on after it rests on the reset of the CPLD in
`main` (lines 63-65), as `InitAGESysContral` is called nowhere.  `run` and `collected` are
history variables: consecutive alarm samples per line, and collections since
the client connected, both capped where they tell nothing more.  The macros
`RDi_STATE` of `DataSamp.h` read the output register of pins that are inputs;
the model lets every line change or stay, which covers a register that never
changes.

### Collect

One turn of AppTask's loop is four steps: `ReadTemp` (for every sensor of the
half `Aging_Pack` names any value, or an answer from an unknown address, for
which `MAX485_SendData` stores nothing and the task goes on), the alarm part of `DataCollect` (`CollectAlarms` of
`Alarm`, which the module extends), `Read_AllTemp` or the restart at its end
(`SystemReset`), and `AgingPack`.  `answer` is what the bus last yielded for
each sensor; `same`, `age` and `moved` are history: readings without a change,
collections since a sensor was asked, and whether any reading changed since
start.  `ReStartflag` is never seen set, since the reset
follows in the same function.  `ImplementsAlarm` is `Alarm`'s `FairSpec`
over the protection's variables: a restart in the middle of
`DataCollect` is `Alarm`'s `Restart`.

### Rs485

A received byte is represented by its age, the number of requests sent since
the one it answers; a temperature by the ages of its two bytes.
`MAX485_SendData` is split where an interrupt matters: sending, enabling the
receive channel, turning the transceiver round, waiting for `RT_Flag`, storing.
`DmaIrq` and `TimeoutIrq` are the two ends of a reception.  Answers may be
missing, late, or have a damaged address.  A byte that arrives while the
channel is off is left in the USART, whose handler does not fetch it (`rbne`):
the interrupt then comes back for ever.

### Packets and PacketStore

A field is represented by the number of the packing that filled it.  `SendData`
picks a packet, writes the head (which may block), sums, copies and writes.
`PacketStore` says of an answer that it is the newest packet complete when the
command was executed, with two exceptions that the code has: no answer, if a
packet was completed between the two tests of `Aging_Pack`, and anything, once
the second packet after the one asked for has been begun.

### Amc7836

A frame is CS low and CS high; the chip acts when CS rises.  The frames of
`AMC7836ReadADC` and `AMC7836SetDAC` interleave freely.  Once two frames have
overlapped (`garbled`) nothing is claimed until `InitAMC7836` runs again: the
bits of both reach the chip as frames nobody sent.

### Command

`pc` is where the TCP task is.  A command arrives with a good frame, a wrong
checksum, or without its tail; in the last case both sums are uninitialised and
the comparison may go either way.  Lamps are switched one by one through the
shadow, valves DAC by DAC and frame by frame, the calibration word by word; the
flash operations are single steps.  `Restart` may happen at any step: it clears
the RAM, runs `InitAMC7836` (all DACs to full scale), and keeps the flash; the
lamps' latch is kept or lost.  `replies` counts the replies to a command, and
notes the one case in which `SendData` may return without: a packet was
completed between its two tests.  ANYMETHOD, and MGETDATADEBUG when `malloc`
fails, end in `HardFault_Handler` (`pc = "fault"`), where the sampling task
stops as well.  The length test of `EthernetInterfaceHandler` cannot fail, as
`recv` takes at most 1200 bytes.  In this commit a client's update commands
(`OnlineUpdate`) are the other two entries of the table.

### OnlineUpdate

A block of flash is erased, the first `valid` bytes of image block `num`
followed by zeros, or junk; programming over something else gives junk.
`OnlineFlashProgram`/`EraseBuffer` and `ProgramUpdata`/`ProgramBlock`/
`CtrlErase`/`CtrlWord`/`SystemReset` are the handlers, cut where the power may
fail.  The eight words of the control record are written one by one; the
completion flag is in word 6.  `Boot` clears the RAM; the bootloader (external)
acts on a set flag and erases the record.  A block command after a restart
finds `Net_Buf = 0`: `ProgramUpdata` then goes on with what lies at address 0,
or the core faults (`NullBufferFault`).  The client (external) sends every
command again until it is answered; `Dropped` is a command the TCP server
ignores because its length does not fit, `LateReply` a command repeated
although it was executed.

### EthRx

A frame is its number in the order of arrival.  `low_level_input` is split
where the DMA, the interrupt or another task can come in between: length read
and copy (`AllocAndCopy`), ownership test and release (`ReleaseDescriptor`),
resumption of the DMA and advance (`ResumeDma`).  The interrupt handler is split
between giving the semaphore and clearing the flags.  `byPriority` is fixed in
the initial state: TRUE is the scheduling as built (the input task only runs
when `tcpip_thread` is blocked), FALSE lets the two tasks run in any order, so
that a full mailbox can be met.  Frames with receive errors, and frames of more
than one descriptor, are not modelled; a descriptor owned by the DMA has length
0, as its status word is only the ownership bit.

### EthTx and EthIf

`low_level_output` is split at the semaphore, the wait for the descriptor, the
hand-over (the ownership bit is set) and the resumption of a suspended DMA; an
error leads to `"hang"`, the endless loop.  The DMA suspends itself in one step
when it meets a descriptor it does not own.  In `EthIf` only `tcpip_thread`
transmits; while it does, it takes no message and, by its priority, keeps
`ethernetif_input` from running.

### TcpServer

Every call of the task is an action that succeeds or, within the bound
`MaxFail`, fails.  `table` is lwIP's descriptor table.  A byte has a value, and
its `len` is history: the length of the command whose header it ends.  The
length is two cells, the lower and the upper half, at the end of the header;
payload has any values, so that it may look like a length.  `recv` returns any
part of what has arrived (`cut`) or one command at a time, at most `RECV_DATA`
bytes; it overwrites only the front of `recv_data`, so the two halves that are
compared may be stale, payload, or of two commands.  The front of `recv_data`
starts with whatever the heap holds (`Garbage`).  Closing an accepted connection always succeeds, since lwIP aborts
what it cannot close; closing the listening socket may fail and is tried again.
Delays are not modelled.

## 3. Runs

| Run | Expectation | What it shows |
|---|---|---|
| `Alarm` | passes, 89,024 states | `DebounceExact`, `CutIffReported`, `NoEarlyCut`, `ProtectionStaysArmed`, `PowerLossCurrent`; under fairness `SmokeCutsPower`, `PowerComesBack` |
| `Collect` | passes, 829,004 states | `FreshHalves`, `CutNeedsMovingSensor`, `RestartOnlyWhenFrozen`, the refinement `ImplementsAlarm`; under fairness `FrozenRestarts`, `SmokeCutsOrRestarts` |
| `Rs485` | passes, 1,324,426 states | `ValueOfOneAnswer`, `ReadyToReceive`, `AtMostTwoBack`; under fairness `RoundEnds` |
| `Rs485Stale` | violation of `CompletePacket` | every second sensor gets the value of the one before it |
| `Command` | passes, 989,528 states | the refinement `ImplementsPacketStore`, `ValvesAsCommanded`, `LampsAsCommanded`, `CalibrationKept`, `AnsweredOnce` |
| `Update` | passes, 85,473 states | `PublishedImageIsBuffered`, `PublishedRecordIsWhole`, `ProgramsErasedBlock`; under fairness `DownloadCompletes` |
| `UpdateFullBlocks` | violation of `CompleteFlagMeansComplete` | an image of whole blocks loses its last one |
| `UpdateRepeat` | violation of `BufferedLength` | a repeated block is counted twice |
| `EthIf` | passes, 483,520 states | `RingWindow`, `FramesAccounted`, `ReceptionNeverStalls`, `DeliveredInOrder`, `OutputNeverHangs`, `TxWindow`; under fairness `FramesLeaveRing`, `OutputsSent` |
| `EthRxRace` | violation of `NullOnlyOnMemoryError` | a frame is thrown away by the race in `low_level_input` |
| `EthRxStranded` | violation of `ReadyPacketProcessed` | after a failed allocation frames wait for the next interrupt |
| `Tcp` | passes, 2,665,321 states | `DescriptorsAccounted`, `SessionDescriptors`, `TakenAreCommands`, `CommandsTaken`; under fairness `ClientServed` |

What the less obvious ones say:

- `PowerLossCurrent`: during a cut the report of a lost supply stands still
  (`Alarm.c:58`); the first collection after it reports the debounced line
  again, whatever was reported before.
- `FreshHalves`: a packet has what the bus yielded for each sensor in this
  collection or the one before, where that was a value; a sensor whose answers
  come from an unknown address keeps an old temperature, of any age.
- `TakenAreCommands`: nothing but a whole command is taken, unless the length
  compared is none that a header announces and got there by a cut, a join or a
  command longer than `recv_data`.  The instance reaches these cases.
- `AnsweredOnce`: MGETDATA stays without a reply only if the packets were
  flipped between the two tests of `SendData`; `Silent` commands and a
  calibration of another object have none either.
- `CutNeedsMovingSensor`: with limits that meet as those built do (10 equal
  readings restart, 10 collections of delay plus 3 samples cut) a board whose temperatures never
  change restarts before a power cut lasts; together with
  `SmokeCutsOrRestarts`, frozen sensors are the only thing that defeats the
  protection.
- `AtMostTwoBack`: when every request is answered, and no time-out strikes
  during a transmission, a stored value answers this request or one of the two
  before it.  `Rs485Stale` shows that it is not always this one.
- `RoundEnds`: `ReadTemp` ends unless a request goes unanswered or a byte is
  left in the USART; the code has no bound on either wait.
- `ValvesAsCommanded` holds until two frames overlap on the pins, which nothing
  in the code prevents.
- `LampsAsCommanded` says of a unit that has not been commanded since a restart
  that it shows what it showed until the first command for the other unit, which
  switches all its lamps off.

`DelayPhases`, `RecordInProgress` and the type invariants other than `Alarm`'s
are in no run: they say what the runs' properties need in order to be
inductive, and are used in the proofs.

Bounds and why they suffice:

- `Alarm`: the real delay (10), parking value (20) and debounce (3), all five
  lines, any number of resets.  Nothing is scaled down.
- `Collect`: one sensor in each half, two temperatures and the unknown address,
  the smoke and the leak line.  The debounce is the real one (3); the delay and
  the equal readings that restart are 8 instead of 10 each, so that they meet
  as the real ones do (8 + 2 = 8 + 3 - 1); the proofs are for all limits.  The
  counts of the sensors are independent, so that one per half meets every case
  of "all of them" and "not all of them" by halves.
- `Rs485`: two sensors per half, answers of 4 bytes and a channel programmed
  for 5 (7 and 8 in the code: one byte more than an answer), ages up to 3.
- `Command`: 2 fields, 3 packets, 2 DACs, 2 words of calibration and 2
  commands.  Three packets let the sampling task overtake `SendData`; two
  commands and restarts let one handler meet what another left.
- `Update`: blocks of two bytes, a sector of four blocks, images of one to
  three blocks that do not fill their last one; two losses, one late reply and
  two power failures, so that a failure hits a download that follows an
  interrupted one.  The properties only compare block numbers and a remainder
  that is zero or not.
- `EthIf`: receive and transmit rings of 2, a pool of 3, 2 messages, 4 frames
  in and 3 out: both rings wrap, and rings, pool and mailbox can each be full.
  `EthRxStranded` has a ring of 3 and a pool of 1.
- `Tcp`: headers of 3 bytes, the last two the halves of the length, a buffer of
  4, commands of 3 and 7 bytes, the longer with a payload that ends like a whole
  command and a lower half that is the length of a fragment, 2 clients, 2
  commands, 2 descriptors and 6 failures: the smallest number with which all
  descriptors are lost.  The heap is a static array and its memory zero when the
  task first takes it; the proof is for any contents.  `SetLimit` and `CloseLimit` stand for 200
  and 20.

Deadlock is checked for `Alarm` and `Collect`.  The other passing runs may stop: the network
sends a bounded number of frames, clients a bounded number of commands, and a
faulted board does nothing more.

Fairness: `Alarm` and `Collect` assume that AppTask runs its loop.  `Rs485`
assumes that the task and pending interrupts run and that bytes on the bus
arrive, not that sensors answer.  `Command` assumes only that the TCP task goes
on with its command.
`Update` assumes that the handler runs on and that the client goes on sending.
`EthIf` assumes that pending interrupts are served, that the transmit DMA sends, that a task that can always
run finally runs, and that the application reads what the stack keeps.  `Tcp`
assumes that the task runs and that clients finally leave: the code has no
keep-alive and no receive timeout, so a client that vanishes without closing
keeps the only session for ever.

## 4. Findings

1. `ETHCommunication.c:388` copies `MAX_Byte % 1024` bytes of the last block,
   none for an image of whole blocks, and sets the completion flag
   ("完成标志", `tcpecho.h:147`).
2. `ETHCommunication.c:404` counts a repeated block again in
   `FlashBuff_Length` ("flash 缓存的长度", `tcpecho.h:142`), and line 405 ends
   the download on it.
3. `ethernetif.c:243-262` reads the length before the ownership bit is tested;
   a frame completed in between is released without being copied ("NULL on
   memory error", lines 232-233).
4. `ethernetif.c:290` goes back to the semaphore after a failed allocation
   while frames are in the ring ("is processed when a packet is ready to be
   read from the interface", lines 270-271).
5. `MAX485.c:230` programs the receive channel for 8 bytes, an answer has 7
   ("获取完整数据包的两种方法，计数和超时", line 113: two methods to get a
   complete packet, counting and time-out): every second sensor is given the
   value of the one before it.

Also met, without a run of their own:

- Block `Num` is stored at `APP_Buff_ADDRESS + Num*1024` with `Num` from 1, so
  block 128 of the largest image would be programmed past the buffer sector.
- `Tcp_Server.c:51` declares the counter of bind attempts inside the loop, so
  the limit of 20 (line 55) is never reached.
- `Alarm.c:96` means to replace a reading of 51.2 degrees by the last one, but
  stands in the branch where the two are equal.
- `ETHCommunication.c:131` compares two uninitialised sums when a command has no
  tail.
- `AMC7836.c:39` and `:75` drive the pins of one chip from two tasks of equal
  priority without a lock.
- `DataSamp.h:27-37` read the output register of input pins.
- A restart with lamps on: see `LampsAsCommanded`.
- `Alarm.c:58` does not evaluate the supply line while the board has cut the
  power itself, but `Alarm_READ` goes on sampling it: if the cut takes the line
  down, the collection that ends the cut reports a loss of power.
- `Tcp_Server.c:108` compares the length received with whatever stands at the
  place of the length: a fragment whose payload, or whose stale and new halves
  together, happen to be its length is taken for a command.
- `MAX485.c:151` stores nothing for an answer from an unknown address, and the
  old temperature goes into the packet as if it were new.
- `ETHCommunication.c:381`: a client that goes on after a restart ends the
  download at once, with a record that announces 0 bytes.

## 5. Proofs

`AlarmProofs` (assumption `AlarmAssumption`: the smoke and leak lines are among
those read, `Confirm >= 1`, `1 <= Protect <= Saturated <= 254`):

- `TypeCorrect`, `DebounceCorrect`, `CutCorrect`, `EarlyCutExcluded`,
  `StaysArmed` and `LossCorrect` state the run's `TypeOK`, `DebounceExact`,
  `CutIffReported`, `NoEarlyCut`, `ProtectionStaysArmed` and `PowerLossCurrent`
  for all parameters.
- The inductive invariant `IInv` is `TypeOK /\ DebounceExact /\ CutIffReported
  /\ PowerLossCurrent /\ DelayPhases`.  `CutIffReported` alone is not inductive: the report depends
  on the flag, which depends on the counter (`DebounceExact`), and the
  no-client branch clears the reports without touching the output, which is
  only right because no line can have been sampled before a client connected
  (`DelayPhases`).  `NoEarlyCut` follows from `CutIffReported` and the bound on
  `run` in `DelayPhases`.

`UpdateProofs` (assumption `UpdateAssumption`: positive block and sector sizes,
images that fit the sector):

- `RecordAtomic` states `PublishedRecordIsWhole` for every block size, image,
  and number of losses, repetitions and crashes.  The invariant `UInv` adds to
  `RecordInProgress` that `App_Ctrl` describes the announced image in every
  state.  It is needed because the flag is the last word that counts: the words
  before it must already be those of App_Ctrl, and a record interrupted before
  the flag must be erased before the next one.  Lemma `BlockCount` relates the
  remainder test of `OnlineFlashProgram` to rounding up.
- `OnlyErasedProgrammed` states `ProgramsErasedBlock`.  `SectorInv`: during a
  download each block of the sector is erased or already holds what this
  download writes there, so a repeated command programs the same bytes again.
- `ImageBuffered` states `PublishedImageIsBuffered` under `FittingSizes`: no
  image fills its last block, and none needs the last block of the sector.
  Both limits are the code's and both are necessary: a full last block is
  copied with `MAX_Byte % 1024 = 0` bytes (finding 1), and block `Cap` would be
  stored past the sector.  `DownloadInv` ties the client to the handlers, as
  long as no reply came late: at most one command or reply is under way
  (`RequestInv`), the blocks the client has seen acknowledged, and perhaps one
  more, are in the buffer, and the count in `App_Ctrl` is their length
  (`SessionInv`).

`CollectProofs` (assumptions `AlarmAssumption` and `CollectAssumption`):

- `LoopImplementsAlarm`: `LoopSpec => Spec`, the safety part of the refinement
  `ImplementsAlarm`; `LoopProtects` carries over what `AlarmProofs` shows.
- `HalvesFresh` and `RestartsWhenFrozen` state `FreshHalves` and
  `RestartOnlyWhenFrozen`.  `CountInv` relates the count of equal comparisons,
  which grows at every collection, to the readings of a sensor, which are made
  in every second one; `AgeInv` and `AnswerInv` relate the half that is asked
  and the stored values to what the bus yielded.
- `CutAfterMove` states `CutNeedsMovingSensor` where `FreezeLimit + 2 <= Protect
  + Confirm - 1`, which the code's values meet with equality (10 + 2 and
  10 + 3 - 1).  `MeetInv` says that the counts lag at most two behind the
  collections while nothing moves: the first reading may differ from the zeroed
  RAM, and the second half is first read in the second turn.

`Rs485Proofs` (assumption `Rs485Assumption`: the value's bytes lie within the
answer and the channel):

- `WaitCanEnd` states `ReadyToReceive`, `Rs485TypeCorrect` the types.
- `ValueWhole` and `NeverFurtherBehind` state `ValueOfOneAnswer` and
  `AtMostTwoBack` for channels of `DmaLen = AnswerLen + 1` bytes, as the code
  programs them (8 and 7).  `ChannelInv` is the argument: outside the wait
  reception is off, and a wait begins with the channel at one of three places,
  at its front, at its end or one before it, so that the next answer is either
  aligned with `Re_Buff` or ends the channel with its first byte; in no case
  does an interrupt find the channel between the two bytes of a value.
  `AgeInv` follows the age of the value through these places.  For a channel as
  long as an answer `ValueOfOneAnswer` is false, so that the hypothesis is
  needed.

`CommandProofs` (assumptions `CommandAssumption`: the commands are of the table;
`PacketsAssumption`, `AmcAssumption`: at least one field, one DAC):

- `PacketsImplementStore`: `Spec => Store!Spec`, the safety part of
  `ImplementsPacketStore`.  `PacketsInv` relates the packet that is filled, the
  one that is sent, and the number of packings begun since the command.
- `OneReply` (`AnsweredOnce`), by what the place of the task says about the
  command (`TaskInv`), and by `PacketsInv`: when `SendData` comes to its second
  test and no packet was completed meanwhile, `Aging_Pack` is still 0.
- `CalibrationSafe` (`CalibrationKept`): while `WriteKB` programs, the words so
  far are the new ones and the interruption is on record.
- `LampsCorrect` (`LampsAsCommanded`): the shadow and the latch agree on the
  units commanded since a restart, but for the lamps not reached yet; of the
  others the shadow is empty.
- `ValvesCorrect` (`ValvesAsCommanded`): the frames of the sampling task neither
  write nor update a DAC, and between the frames of a command the bytes written
  differ from the outputs in the one DAC being set.

`EthRxProofs` (assumption `EthRxAssumption`: positive sizes; both policies):

- `RingInOrder`, `NoFrameUnaccounted`, `DeliversInOrder` and `NeverStalls` state
  `RingWindow`, `FramesAccounted`, `DeliveredInOrder` and
  `ReceptionNeverStalls`.
- `RxInv` is their conjunction made inductive.  `RingInv` says which descriptor
  holds which frame, by distance from the oldest (`RingHolds`); `SignalInv` that
  a full ring is being emptied or that a wake-up is on its way, which needs the
  interrupt's two halves; `PbufInv` and `OrderInv` order the frames by where
  they are.

`EthIfProofs` (also `EthTxAssumption`):

- `TransmitsInOrder` and `OutputReturns` state `TxWindow` and
  `OutputNeverHangs`.  In `TxInv`, `TxPlaces` is the transmit ring by distance
  from the DMA's descriptor, and `TxControl` what `low_level_output` holds at
  each of its steps: the endless loop is unreachable because the descriptor it
  has waited for stays free until it is handed over.
- `InterfaceReceives` (`IfSpec => Spec`) and `InterfaceSafe`: the interface as a
  whole receives as `EthRx` does, so that the results above hold of it.

`TcpProofs` (assumption `TcpAssumption`: at least two descriptors, a buffer that
holds a header, commands no shorter than a header that announce their length,
any other bytes):

- `NoDescriptorLost`, `SessionsCorrect`, `OnlyCommandsTaken`, `AllCommandsTaken`
  and `TcpTypeCorrect` state `DescriptorsAccounted`, `SessionDescriptors`,
  `TakenAreCommands`, `CommandsTaken` and the types.
- `ServerInv`: `Places` says which descriptors the task holds at each step;
  `Account` charges `CloseLimit + 1` failures to every leaked descriptor and
  those so far to the one being closed; `Streams` says that a byte announces a
  length exactly where a header of the stream ends, so that an announced length
  met at its place in `recv_data` is that of the command just received, or a
  stale one left behind fewer bytes than a header has, which it therefore does
  not equal; `Settling` that, when TCP
  delivers commands one by one, reception stops inside none that fits.

All these inductive invariants also hold on the instances of the passing runs,
where TLC checked them.

Only model-checked: the liveness properties (`SmokeCutsPower`,
`PowerComesBack`, `FrozenRestarts`, `SmokeCutsOrRestarts`, `RoundEnds`,
`DownloadCompletes`, `FramesLeaveRing`, `OutputsSent`, `ClientServed`), and the
fairness in the refinements `ImplementsAlarm` and `ImplementsPacketStore`:
fairness is out of the prover's reach.  The violated properties of section 4
have counterexamples and no proofs.

## 6. Plan

Done: the models of section 2, and a theorem for every safety property that a
passing run checks.  Left:

1. What holds of an image that fills its last block, and of one that fills the
   sector, instead of the hypothesis `FittingSizes`.
2. `ValueOfOneAnswer` for channels more than one byte longer than an answer,
   where the run's instance with `AnswerLen + 2` and `+ 3` also passes: the
   resting places of the channel are then more than three.
3. Properties of `Amc7836` after two frames have overlapped.

## 7. Not modelled

Vendored code (FreeRTOS, lwIP, the peripheral library, SEGGER RTT, CMSIS), which
is most of the repository's lines, is external and represented by how the
firmware uses it; lwIP's unprotected pools are therefore a hazard without a
property.  `sys_arch.c` wraps FreeRTOS objects one to one.  Register set-up,
clocks, LED output and RTT logging have no control state worth a model; neither
have the CPLD outputs, whose shadow only one task changes, nor the drivers of
the display, the AD8688 and the RTC.  `Water_Valve.c` is not built and not
called.  `Write2Mem`, the formatter of MGETDATADEBUG, is called with constants.
Voltages, speeds and temperatures are not converted in the models: no property
depends on their scale.  Priorities and delays are modelled for the network
tasks only, so that a TCP task that retries without a delay is not seen to
starve the others.  DHCP is not compiled.  `Core/AT91SAM7X/sys_arch.c` and
`interrupt.c` are not built.

# libezsp in TLA+

Specifications of libezsp, the C++ host library that drives a Silicon Labs EZSP
adapter (a ZigBee / Green Power network co-processor, "NCP") over a serial line,
and of the example program that comes with it. Source positions below are given by
the name of the file.

## The system

```
 example: main() and MainStateMachine
   |
 CEzsp (facade)  ->  CLibEzspMain  ->  CGpSink, CZigbeeNetworking, CZigbeeMessaging
                          |                 |
                          v                 v        sendCommand()
                     CEzspDongle  (queue of EZSP commands, one awaited at a time)
                          |       \
                          v        v
                     AshDriver    BootloaderPromptDriver
                     AshCodec          |
                          |            |
                     ITimer  (CppThreadsTimer | RaritanTimer)
                     IUartDriver (SerialUartDriver | RaritanUartDriver | MockUartDriver)
                          |
                     serial line  ---  EZSP adapter (application, or its bootloader)
                                          |
                                       radio  ---  ZigBee nodes, Green Power devices
```

The library is driven from below: `IUartDriver` gives what it read to its observers
(AshDriver and, while it is enabled, BootloaderPromptDriver), AshDriver gives
payloads to CEzspDongle, CEzspDongle notifies its observers (CLibEzspMain, CGpSink)
of every EZSP message, and these issue the next commands, or call the user back,
from within the notification.

Two builds exist. With `USE_RARITAN` one event loop runs input, timers and user
calls, one at a time. With `USE_CPPTHREADS` and the serial driver there is a
thread that reads, a thread for every started timer, and the threads of the user.

### Inventory

| component | state | operations | what makes it correct |
|---|---|---|---|
| CEzspDongle (`ezsp-dongle.cpp`) | `sendingMsgQueue`, `wait_rsp`, `lastKnownMode`, `firstStartup`, `switchToFirmwareUpgradeOnInitTimeout`, `ezspSeqNum`, `version`, three mutexes | `sendCommand`, `sendNextMsg`, `handleInputData`, `handleResponse`, `ashCbInfo`, `reset`, `setMode` | commands are executed in order, once, one at a time; what is awaited is the front of the queue; the queue moves on; no ASH traffic during an upgrade; headers fit the version of the adapter |
| AshDriver (`ash-driver.cpp`) | `enabled`, `ackTimer`, `serialRWMutex` | `sendResetNCPFrame`, `sendDataFrame`, `sendAckFrame`, `handleInputData`, `trigger`, `enable`, `disable` | a timeout is reported when, and only when, the connection does not come up |
| AshCodec (`ashv2-codec.cpp`) | `frmNum`, `nextExpectedFEAckNum`, `lastReceivedByNEAckNum`, `stateConnected`, `in_msg` | `forge*Frame`, `appendIncoming`, `processInterFlagStream`, stuffing, randomisation, CRC | numbers in sequence modulo 8; decoding inverts encoding; bad frames are dropped and the next one is found |
| BootloaderPromptDriver | `state`, `enabled`, `timer`, `accumulatedBytes`, two callbacks | `enable`, `disable`, `reset`, `probe`, `trigger`, `appendIncoming`, `selectMode*` | the prompt is recognised whatever the chunks; the callback asked for is called, once |
| CppThreadsTimer | `started`, `callback`, `duration`, `waitingThread`, `cv` | `start`, `stop`, `isRunning`, `routine` | no callback after `stop()`, none lost, calls return, the process survives |
| CLibEzspMain (`lib-ezsp-main.cpp`) | `lib_state`, scan results and callbacks, `scanInProgress`, `resetDot154ChannelAtInit` | `start`, the handlers of EZSP messages and dongle states, the user's requests | reaches READY, on the network that was asked for, or a final state; a request is refused while another runs; what was accepted is answered |
| CGpSink (`green-power-sink.cpp`) | `sink_state`, `gpds_to_register`, `gpds_to_remove`, `sink_table_index`, `proxy_table_index`, `gpf_comm_frame`, channel-switch state | add, remove, clear all, open and close commissioning, the handlers of responses and of frames | every device asked for is registered or removed; responses go to the operation that asked; a device is steered to the right channel and a switch ends |
| CZigbeeNetworking, CZigbeeMessaging | discovery callback, `form_channel` | form, join, leave, open, close, scan; send | mostly stateless sequences of commands whose bytes are right |
| messages, structures, Green Power frames, AES, versions | | reading, writing, the integrity code, ciphering, comparing | what one side wrote is what the other reads |
| example (`mainEzspStateMachine.h`, `mainEzspTest.cpp`) | `currentState`, the lists of devices, `stop` | one handler of READY; `main()`; options; reports | does what the options ask for, in order, and ends when told to |
| GBL extractor (`get_gbl_version.c`) | | finds the version in an image | |
| CGPDeviceDb | `gpd_list` | lookup (builtin-MIC build only) | |
| SerialUartDriver, Raritan drivers, MockUartDriver | threads, file descriptors | open, read, write | I/O |
| xmodem | | | vendored |

### What is hard

* Interleavings in the threaded build: `sendNextMsg()` decides on unlocked reads,
  sets `wait_rsp` after the write, and takes two mutexes in the order opposite to
  the reader's; `main()` can miss the notification it waits for.
* Messages are matched to commands by frame ID only; retransmissions, NAKs,
  restarts of the adapter and failed writes put responses and queue out of step.
* Chunked input: every frame of a chunk acts on the codec before the first
  payload is delivered, and a frame or a prompt may be cut anywhere.
* Timeouts racing late answers: the reset timeout, the flush timer of the prompt.
* Timer threads: lost notifications, expiry during `stop()`, re-use of the thread
  object.
* Long protocols whose steps are responses: a state is left while responses that
  belong to it are still on their way (sink, network forming, scans).
* Callbacks in the middle of handlers, from which the user makes requests.
* Offsets of optional fields; headers that depend on a version learnt on the way.

`PROJECT.json` lists each hazard at its line, with the properties that catch it.

## Modules

| module | models | how |
|---|---|---|
| `CommandQueue` | abstract: what CEzspDongle promises to its users | `Accept`, `Execute`, `Complete` |
| `Ncp` | the adapter and the two directions of the line (external) | `NcpReceives` (one action per kind of frame), `NcpResponds`, `NcpCallsBack`, and the misfortunes |
| `EzspDongle` (extends `Ncp`) | CEzspDongle, AshDriver, AshCodec in the single-loop build; implements `CommandQueue` | one action per handler, see below |
| `DongleThreads` | `sendCommand`, `sendNextMsg`, `handleResponse` and the mutexes in the threaded build | one action per unlocked access or critical section, per thread |
| `CppThreadsTimer` | the timer of the threaded build | one action per access to shared state, for the caller and each thread |
| `AshFraming` | the byte level of AshCodec over chunks and noise | `AppendIncoming`, `Noise`; operators for CRC, stuffing, randomisation, forging |
| `BootloaderPrompt` | BootloaderPromptDriver with the callbacks of `setMode()` | the caller, the reader, the timer; the bootloader is external |
| `LibEzspMain` | CLibEzspMain with CZigbeeNetworking, on the promise of `CommandQueue` | one action per request and per handler |
| `GpSink` | CGpSink's operations on devices and the READY / SINK_BUSY states, on the promise of `CommandQueue` | one action per request, one per handler of a response |
| `GpReceive` | what CGpSink does by itself with received frames: channel requests and switches | one action per frame, response and report |
| `Example` | MainStateMachine and `main()`, composed with `LibEzspMain` and `GpSink` | one action per branch of the READY handler, and `main()` |
| `ByteManip` | byte-manip.h and bit operations | operators |
| `EzspStructs`, `EzspCmds`, `EzspFrames` | the structures of ezsp-protocol/, the identifiers of ezsp-enum.h, the EZSP header | operators |
| `ZigbeeMessages` | CZigBeeMsg and CZigbeeMessaging | operators |
| `GreenPowerFrame`, `CustomAes` | CGpFrame, its integrity code, the commissioning payload; AES | operators |
| `AdapterVersion` | EzspAdapterVersion | operators |
| `StackConfig` | what is configured, added, formed and scanned, as commands | operators |
| `ExampleOptions`, `ClusterReports`, `GblVersion` | the example's command line and reports; the GBL tool | operators |
| `EzspLayouts` | external: the layouts that EZSP declares | operators |
| `Messages` | both ends of every exchange of bytes | `Done` and one action per kind of exchange |
| `Queues` | lemmas about queues, and induction over the natural numbers | |
| `*Proofs` | theorems about EzspDongle, DongleThreads (with CppThreadsTimer), BootloaderPrompt, LibEzspMain, GpSink, GpReceive and Example | |
| `MC*` | instances for TLC; the `.cfg` files give the constants | |

The two levels meet in the abstract promise: `EzspDongle` is shown to keep
`CommandQueue` on a quiet line, and `LibEzspMain`, `GpSink` and `GpReceive` use a
queue `commands` that is executed from its head. `Example` joins `LibEzspMain` and
`GpSink` on one queue and one `lib_state`, and is shown to use the sink as `GpSink`
specifies (`SinkAsSpecified`), so that what holds of the sink alone holds there.

### EzspDongle

Variables keep the names of the members they stand for; `blp` and
`promptDetectCallback` are the part of BootloaderPromptDriver that the dongle can
see. A command is a pair of the order in which `sendCommand()` accepted it and its
frame ID; its payload does not matter here. `chunk` and `pending` are the local
variables of `AshDriver::appendIncoming()`: how many frames of the current read are
still to be decoded, and the payloads decoded so far. While either is not empty no
timer and no other input is taken, which is what one event loop gives. `SendCommand` is also
enabled between two payloads of a chunk: an observer that is told of the first may issue a
command before the second is handled (ezsp-dongle.cpp:274).

| action | code |
|---|---|
| `SendCommand(c)` | `CEzspDongle::sendCommand`, with `sendNextMsg`, `forgeDataFrame`, `sendAshFrame`, and the timer |
| `Reset` | `CEzspDongle::reset` with `sendResetNCPFrame`, called by `CLibEzspMain::start` |
| `AckTimerExpires` | `AshDriver::trigger` and `ashCbInfo(ASH_RESET_FAILED)` with `setMode` |
| `BlpProbes`, `PromptDetected` | what the prompt driver does, and the callbacks `setMode` left with it |
| `ReadChunk` | `AshDriver::handleInputData` |
| `DecodeData`, `DecodeAck`, `DecodeNak`, `DecodeRstAck`, `DecodeBad` | the cases of `processInterFlagStream` with what `ashCbInfo` does for NAK and RSTACK |
| `Deliver` | `CEzspDongle::handleInputData` with `sendAckFrame`, `handleResponse`, and `setMode` for LAUNCH |

`SendNextMsg(queue, wait, mode, frm, timer, out)` is an operator with the state the
caller has reached so far as parameters, because `sendNextMsg()` runs in the
middle of four handlers. Not in the model: the EZSP sequence number (nothing reads
it) and the cancellation of `ackTimer` between stop and start.

### DongleThreads and CppThreadsTimer

A step is what a thread does between two points where another can get in the way.
In `DongleThreads` `pc` names the point each thread is at: `checkWait` and
`checkQueue` are the unlocked reads of line 303, `front` the first critical section,
`lock` the wait for `ezspWriteMutex`, `write` the wait for `serialRWMutex`, `sent`
the assignment of `wait_rsp`; `handle`, `pop`, `clear` are the steps of
`handleResponse()`. The line has no faults and the dongle is connected.

A command is a frame ID (`cmd`), which may be issued any number of times, and `Pops` compares
nothing else. `tag` is history: the call of `sendCommand()` it comes from, by which the
properties tell commands of one ID apart. `front()` of an empty queue is undefined; where the
process survives it, `Fronts` lets it be any frame ID, with tag 0. A front that is sent by two
threads is answered twice, and the second answer is a surplus one (`Surplus`): where its frame ID
is that of another command, it completes that command, sent or not. `NoMixUp` says that this
cannot be, and the properties about order and completion are stated under it.

In `CppThreadsTimer` `caller` is where the one caller is in `start()` or `stop()`,
`routine[s]` where the thread created by the s-th `start()` is. Reads and writes of
`started`, which is an unsynchronised `bool`, are taken to happen one after the
other; a build may do worse.

### AshFraming and BootloaderPrompt

`AshFraming` has real bytes: the far end sends one of a few sequences of frames, noise
loses, spoils or adds a byte, and the reader takes any prefix of the line as a chunk.
A reader of single bytes (`reference`) runs beside it. `BootloaderPrompt` has text
only as far as the parser tells it apart: the two halves of the header, the end of a
line ("eol"), the prompt ("BL"), a NUL and the ready character; `LF` stands for the new line that
`probe()` types. `Accumulate` keeps what follows the last NUL that is itself followed by
something, which is what the loop of `appendIncoming()` leaves after one character at a time. The reader's test of `RX_FLUSH` and
its restart of the timer are two steps, and the timer thread may fire between them.

### LibEzspMain

The answer of the adapter to a command and its handler are one step; what the adapter
reports by itself waits in `events`, in the order it was reported, and is handled
at any time between responses. `running` is the stack of handlers that wait for a
callback of the user to return; while it is not empty only requests from that
callback happen. `adapter` is external: its network, its channel, what it was told. An adapter
that cuts its answer to VERSION short is accepted whatever its version ("cutVersion", lines 478 to 488).

| action | code |
|---|---|
| `Start`, `HandleDongleReady` | `start()`, `handleDongleState`; a failed `reset()` and DONGLE_NOT_RESPONDING change nothing of the state |
| `VersionAnswered` and others of `ResponseHandled` | the `EZSP_*` cases of `handleEzspRxMessage`, with `stackInit`, `formHaNetwork`, `leaveNetwork` |
| `HandleStackStatus`, `HandleScanResult`, `HandleScanComplete`, `HandleXmodemReady` | the cases for what the adapter reports |
| `StartScan`, `GetNetworkKey`, `SetFirmwareUpgradeMode`, `SinkRequested` | the user's requests |
| `Return` | a callback of the user returns, and the rest of the handler runs |

### GpSink and GpReceive

The default build, without `USE_BUILTIN_MIC_PROCESSING`. An operation of `GpSink` is
a chain of EZSP commands, each sent by the handler of the response to the one before.
The handlers know an operation only by `sink_state`, so a response of one operation
can act on another. One step executes a command in the adapter's tables (`sinkTable`,
`proxyTable`, external) and runs the handler of its response.

| action | code |
|---|---|
| `NetworkUp` | `CLibEzspMain::handleEzspRxMessage_STACK_STATUS_HANDLER` with `CGpSink::init` |
| `AddGPDevices`, `RemoveGPDevices`, `ClearAllGPDevices` | the requests of CLibEzspMain (lines 335 to 371) with `registerGpds`, `removeGpds`, `clearAllGpds` |
| `RequestRefused` | the same when the sink says no: the library stays SINK_BUSY |
| `OpenCommissioningSession`, `CloseCommissioningSession` | as named, whatever the sink is doing |
| `CommissioningFrame` | `handleEzspRxMessage_INCOMING_MESSAGE_HANDLER_NO_SECURITY` |
| `FindOrAllocateAnswered` ... `PairingAnswered` | `handleEzspRxMessage_SINK_TABLE_*`, `_PROXY_TABLE_*` |
| `SetSinkState` | `setSinkState` with the callback that the library registers (lib-ezsp-main.cpp:630) |

A table entry is the source ID it is for; keys, options and frame counters are in
`GreenPowerFrame` and `Messages`. Vectors that the code empties from the back are
sequences whose head is that back. Of the adapter it is assumed, as the code does, that
PROXY_TABLE_GET_ENTRY fails only past the end of the table.

`GpReceive` is the other half of CGpSink: frames that ask for a channel or report on the
wrong one, the answer (sent with handle 0), the switch (sent with a handle of its own), and
`D_GP_SENT_HANDLER`; and `nwk_parameters`, which follow the channel of the network only
when the sink asks. The adapter may refuse to send a frame (`GpSendRefused`: the response to
`D_GP_SEND` is only logged, lines 627 to 632, and no `D_GP_SENT_HANDLER` follows) or give it up.

In all three `mishaps` remembers which of the things happened that the properties are
conditional on; each module lists and explains its own.

### Example

`callback` is what the library has called the program back for; while it is not "none" the
handler that called waits. Each branch of `ezspStateChangeCallback(READY)` is an action, and
`ScansChannels` is one of its own because `setState(READY)` comes back into the same handler
from within it. `mainThread` goes from `checks` (it found `stop` false) to `blocks` to `waits`.
`Stops` is `stop = true; cv.notify_one()`.

### Messages

One exchange at a time: one side's values, the bytes, and what the other side makes of them.
The library's part is made of the operators translated from its classes; the adapter's part
goes by `EzspLayouts`, which declares each structure as a sequence of fields and widths. Each
property says that what comes out is what went in, or that it is refused when it should be.
The integrity code is checked by the library only with `USE_BUILTIN_MIC_PROCESSING`; in the
default build the adapter does it, and `OnlyGenuineAccepted` is about the other.
Numbers of 32 bits are tuples of bytes.

## Runs

| run | instance | shows |
|---|---|---|
| `dongle_quiet` | no faults; 2 commands and LAUNCH, 1 callback, 3 issued, frame numbers modulo 2, chunks of 2; the adapter is found in its application or at its prompt | the dongle implements `CommandQueue` (`KeepsPromise`) and completes every command unless it was told to upgrade |
| `dongle_faults` | any 2 of 7 kinds of misfortune; 2 commands issued | what survives them: the awaited command is the front, commands are executed in order, and once unless a NAK is not due (`NaksAreDue`), the queue is not left waiting for nothing, no ASH in an upgrade |
| `threads_safety` | 2 users, the reader, 2 frame IDs, 3 calls of `sendCommand()` | frame numbers in order; unless a surplus answer has the frame ID of another command, first executions in order, and nothing leaves the queue before it was executed |
| `threads_deadlock` (violated) | 1 user, the reader, 3 calls of `sendCommand()` | user and reader each hold the mutex the other wants |
| `timer` | 4 starts | no stale callback, no `std::terminate`, calls return, the timer fires |
| `framing` | 3 frames with bytes to be stuffed, one hit of noise anywhere, chunks cut anywhere, a buffer of 8 bytes | only frames that were sent are received, in order; at most two are lost to one hit; cutting changes nothing but in the case the property names |
| `upgrade` | 2 calls of `setMode()`, 1 failed write, 2 ready characters, 10 characters in transit | the prompt is answered once, a transfer announced once, the mode asked for is reached |
| `lib` | versions 5, 6, 8, 9, every mishap, 2 requests | the library concludes, on the network it was asked for; scans and keys are answered |
| `sink` | 3 devices, tables of 2 entries, lists of at most 2, 4 operations, every mishap | the sink never waits for nothing, the library gets ready again, operations that do not overlap do what they were asked |
| `gp_receive` | 2 devices, 2 channels, 3 frames, 1 change of channel | one switch at a time, to the channel of the network; each ends unless its frame is refused or given up |
| `messages` | every kind of exchange, values with every byte distinct, fields present and absent, a frame of a real device and its key, two stacks and three firmware versions with whole answers and cut ones, command lines of up to 3 options | each side reads what the other wrote, but for the fields that the properties name as exceptions |
| `example` | 2 devices, known from before or not; `-r` and `-s` with at most one each, every combination of the other options | the program gets through its steps in order, with the devices it was told of, and ends |

`threads_deadlock` is a counterexample to what the source says of itself, quoted in
PROJECT.json under "findings".

Bounds. Frame numbers wrap already at modulo 2, and nothing in the code depends on 8
except the mask. `LinkCap` = 1 keeps the adapter from piling up unsolicited frames:
it may still have two on the line, which is enough for a response and a callback in
one chunk. Two faults are enough for every pair of kinds, in particular a
failed write followed by a reset, and noise during a retransmission; three commands
are enough for one completed, one awaited and one queued. Four starts of a timer are
enough for an expired, a stopped, a replaced and a running one. Two users and the
reader are enough for two threads at every pair of points while a third changes the
queue. Two frame IDs and three commands are enough for two commands of one ID with another
between, before or behind them. `ASH_MAX_LENGTH` = 8 is longer than each frame but shorter than two run
together by a lost flag. Two menus fit into ten characters, so that one may be flushed
while the next comes. Versions 5 and 9 are just outside what the library supports. Two
requests overlap, and one may be made from the callback of the other. Three devices and
tables of two entries let a table be full in the middle of a list; lists of two have a
first, a last and a next device; four operations are enough for two that overlap after
something was added and cleared. Three received frames are a switch, an answer and
another switch. The example does each of its steps once, so one device for each list is
enough to tell whether it was done, and in which order. Runs have
`CHECK_DEADLOCK FALSE` where a system with nothing left to do does stop; in `messages`
there is always another exchange.

Fairness. `EzspDongle!FairSpec`: the event loop keeps serving input and timers, and
`start()` is called once (weak fairness); the adapter keeps reading and answering even
when its own callbacks compete (strong fairness, for these alternate with callbacks
that fill the line). `DongleThreads!FairSpec`: every thread is scheduled and the adapter
answers. `TimerFairSpec` of `CppThreadsTimer`: threads are scheduled and time passes.
`BootloaderPrompt!FairSpec`: the timer expires, the reader reads, the bootloader does what
it has to do. `LibEzspMain`, `GpSink`, `GpReceive`: the handlers run, since CEzspDongle
completes the commands it accepted (`EveryCommandCompletes`), callbacks return, and the
adapter ends a scan and does not keep a frame for ever. `ExampleFair`: the same, and
`main()` runs. Nobody has to issue a command, call `setMode()` or start a timer: requests of
users, frames of devices and misfortunes are never fair.

## Where the code and its words disagree

`threads_deadlock` is run. These are properties of the modules that no run lists and that
TLC refutes when they are put into the `.cfg` named; each quotes the statement it is about.

* `EzspDongle!CompletedWereAnswered` (DongleFaults): a retransmitted response completes the
  next command that has the same frame ID (ezsp-dongle.cpp:446).
* `EzspDongle!FrontIsUnanswered` (DongleQuiet): the answer to LAUNCH_STANDALONE_BOOTLOADER
  leaves it at the front (ezsp-dongle.cpp:269 and 437).
* `DongleThreads!AwaitedIsFront` (ThreadsSafety): `wait_rsp` is set after its response was
  handled (ezsp-dongle.cpp:338).
* `DongleThreads!CompletedWereExecuted` (ThreadsSafety): the second answer to a command that two
  threads sent completes the next one of the same frame ID, which was not sent
  (ezsp-dongle.cpp:446).
* `Messages!ChannelsArrive` (Messages): the channels of the network parameters are read where
  the layout does not have them (ember-network-parameters.cpp:42). `StructsArriveIntact` excepts
  this field.
* `Messages!EndpointsAsMeant` (Messages): endpoint 242 is added with profile 0xA10E
  (zigbee-networking.cpp:151), while the Green Power profile is 0xA1E0 (zclheader.h:19).
  `StructsArriveIntact` excepts this field.
* `GpSink!AddTakesEffect` (Sink): devices added as soon as a removal is over are not all added
  (green-power-sink.cpp:521, ezsp.h:222). The example does that for `-r X -s Y`, which its
  usage text allows (mainEzspTest.cpp:59); `DevicesAsAsked` makes an exception of it.
* `GpSink!ClearTakesEffect` (Sink): a second clear-all leaves devices in the proxy table,
  since `proxy_table_index` is not reset (green-power-sink.cpp:570).

Others are named in the properties as exceptions, or were met while reading:

* RSTACK after the first reset has timed out: `ashCbInfo()` notifies DONGLE_READY before the
  mode is EZSP again (ezsp-dongle.cpp:157), and what an observer sends at once is queued and
  not sent. `WaitingUnlessRefused` excludes it by `firstStartup`.
* `inputError` is forgotten at the end of a chunk (ashv2-codec.cpp): `errorCut`.
* `writtenBytes` is read although a failed write may not have set it
  (bootloader-prompt-driver.cpp:125): the model chooses any outcome.
* A version, or a stack that is not a mesh, that is not supported ends the initialisation
  without INIT_FAILED (lib-ezsp-main.cpp:494). An adapter ready before `start()` returns is not
  initialised (line 58); after a failed `reset()` it registers again with the sink where it was
  to unregister (line 65).
* A scan that is refused leaves the library in SCANNING; a scan asked for from the callback of
  another loses its callback when that returns (lib-ezsp-main.cpp:733 and 776).
* After a channel switch that the adapter gave up (green-power-sink.cpp:635), or whose frame it
  refused to send (lines 627 to 632), no other one is accepted; and the answer to a channel request has handle 0, which may be
  taken for that of a switch (258).
* `main()` may miss the notification of its end (mainEzspTest.cpp:285, also in the handler of
  SIGINT): `missed`.
* The known EZSP version survives `reset()` (ezsp-dongle.cpp:108): an adapter restarted with
  other firmware is spoken to under the old header.
* A DONGLE_NOT_RESPONDING is only logged (lib-ezsp-main.cpp:330), and an adapter that cuts its
  answer to VERSION short is taken to have the version asked for (lines 478 to 488).
* A source ID on the command line that is no number is taken for 0. None is among the command
  lines of the instance.
* -C is read by `std::stoi` into one byte: 256 is 0, and opens no window.
* Temperatures between -0.99 and -0.01 are shown without their sign; humidity is read as a
  signed number. The measurements of the instance are outside these ranges.

## Proofs

The proofs hold for every value of the constants that satisfies the assumptions
`NcpAssumption`, `DongleAssumption`, `ThreadsAssumption`, `TimerAssumption`, `PromptAssumption`,
`SinkAssumption`, `ReceiveAssumption`, `LibAssumption`, `ExampleAssumption`: any sets of commands,
devices, networks or channels, any number of threads, starts or requests, any modulus above 1,
tables of up to 255 entries, any bounds. `Queues` has the lemmas about queues that the proofs
share: which elements of a sequence are in a set, when there is at most one, and what `Tail` and
`Append` make of that; and induction, for sets of numbers (`Induction`) and of queues
(`QueueInduction`), from the least number that a non-empty set of numbers has (`LeastNumber`).

### The dongle (`EzspDongleProofs`)

* `TypeCorrect`. `FrontCorrect`: while `wait_rsp` is set the front of
  the queue is the command written last; the formula is inductive together with the
  type invariant, since the queue only grows at its end, and each action that takes the
  front out also clears `wait_rsp`. `UpgradeSafe`: no ASH frame is written during an
  upgrade; the mode alone does not imply it, so the inductive invariant `UpgradeInv`
  adds that AshDriver is disabled, that no chunk is half decoded and that the callback
  left with the prompt driver is the upgrade's (otherwise a prompt would reset the dongle).
* `QueueMovesOn` (`WaitingUnlessRefused`) needs what the start leaves behind (`StartInv`) and
  that only a failed write makes a later one fail (`FlakyInv`).
* `ExecutedInOrder` (`ExecutedOnceInOrder`). The property speaks of what was executed only; to
  be inductive it has to describe what is still to be executed. `QueueInv`: the queue
  is in the order of acceptance and `lastSent` is its front or was popped. `CleanInv`: as
  long as nothing was spoiled or torn, the line carries nothing for a dongle that is not
  connected, and one RSTACK at most is under way. `NumberedInv`: then, without a
  restart, the frames on the line have the numbers that the receivers expect, so that there
  is no NAK. `OneInv`: when there is one, it is due to the front, which the adapter
  does not have. `FlowInv`: what was executed, what the adapter has still to execute, what is on
  the line and the front of the queue are in this order, with repetitions only where a NAK
  may be undue (`NaksAreDue`).
* `ImplementsQueue`: every step of the dongle is a step of `CommandQueue` or
  stutters, as long as the line is `Undisturbed` (no noise, no torn write, no
  answer to the start later than the dongle waits, no retransmission). `PromiseInv` relates
  the commands completed, the one awaited and where its frame or its response is; from
  it `Execute` and `Complete` find their guards true. `QuietLine` says the same of an instance whose
  `Env` leaves these out, which is what `dongle_quiet` runs; restarts of the adapter,
  resets by the user and commands issued too early are allowed, which that run has not.
  The refinement is of the safety of `CommandQueue`; that commands are completed in the end
  is liveness and left to TLC.

The attempt to prove `ExecutedOnceInOrder` showed that an earlier form of it was too strong:
a retransmitted response may pass for that of the next command, so that two commands are
on their way, and an adapter that then restarts rejects both. The dongle answers each NAK with
the front, and a command is executed twice. `NaksAreDue` therefore excludes a retransmission
together with a restart. It takes two faults and three commands.

### Threads and timer

* `DongleThreadsProofs`: `ThreadsTypeCorrect` needs `QueueInv` (a thread about to send holds
  a command, and only the reader takes one out of the queue). `FramesOrdered` needs
  `SequenceInv`: the thread between forging and writing is the owner of
  `ezspWriteMutex`, and its number is the one the line expects next. `FirstTimesInOrder`
  (`FirstExecutedInOrder`) needs `OrderInv`: as long as `NoMixUp`, a thread holds the front, a
  command that was completed, or none that was issued; and what was completed has been executed
  (`PoppedWereExecuted`, `CompletedUnlessMixedUp`), so that whatever it sends is the next first
  execution or a repetition. `NoMixUp` is about what was written so far, and once false stays false.
* In the same module, about `CppThreadsTimer` and any number of calls of `start()`:
  `NeverTerminated` and `NoLateCallback` from `TimerInv`, which relates `started`, the joinable
  thread, the callback and where the caller is.

### The prompt of the bootloader (`BootloaderPromptProofs`)

`PromptsAnsweredOnce` (`AnswersOnce`) counts. A prompt that may still be answered is on its way
(`Count(toHost)`) or among the characters the parser has kept, and there only where the parser
would still find it: after a header, or anywhere once the header was seen (`Due`). `PromptInv` says
that no more were shown than are counted in this way, and that an upload was asked for as long as
there is a transfer to announce. Each stage of the parser either passes over a prompt or
uses it up (`DueOfParsed`); what a chunk adds to the accumulated text is counted by
induction over where the text is cut, and dropping the text before a NUL can only lower the count.
`PromptTypeCorrect` has the type invariant, which says that no NUL is in the accumulated text.

### The library (`LibEzspMainProofs`)

* `LibTypeCorrect`. `FreshAtFirst`: nothing happens before `start()`. `ScanAwaited`
  (`ScanUnderWay`; after a scan that the adapter refused, the library does stay in SCANNING, and
  the theorem says nothing of that) is inductive with the types and the form of the stack of callbacks: the
  handler of the end of a scan forgets the scan before it calls the user, who may start the next.
* `OnTheNetworkAskedFor` (`ReadyOnWantedNetwork`). The state alone says little, since
  reports of the network going up and down wait in a queue next to the responses. `Beginning` and
  `BeginningOver` (`BeginsOnce`) put the steps up to NETWORK_INIT in order. `Network` is the
  invariant from there: what is queued to leave or form a network, the reports not yet handled, the
  network of the adapter and the state of the library are in one of a few stages
  (`EndpointsFirst`, `Asked`, `LeavesOnce`, `FormsOnce`, `UpOnce`, `OnAsked`, `Left`). It holds unless
  the network drops by itself or a scan is requested before READY (`NetworkHolds`), the
  exceptions of the property.
* `CallbackAfterItsScan` (`ScanCallbackAfterScan`): a scan is in one of the phases of `Phase`
  (queued, scanning, reported, called back), there is one at a time, and the results collected are
  those of this one. `UpgradesOnRequest`: no LAUNCH without a request.

### The sink (`GpSinkProofs`, `GpReceiveProofs`)

* `NeverPopsEmpty` is inductive by itself and `SinkTypeCorrect` rests on it (what
  is taken from a list is a device only if there is one). `NeverStuck` uses the types: a
  response that could have moved the operation on is either replaced by the next command
  of the chain or ends the operation, and any other leaves the queue behind it as it was.
  `LibAgreesWithSink` is inductive because a refusal is remembered.
* `AddsAlone` (`AddTakesEffectAlone`), `RemovesAlone` (`RemovalTakesEffect`), `OneEntryAlways`, from
  `ChainInv`: as long as no operation begins before the commands of an earlier one were executed,
  the commands that concern devices form one chain, one of them queued at a time or two next to
  each other (`Waits`, `BothWait`). Which ones says how far the operation is: for which device, at
  which entry, which devices have still to come, and what the tables hold already
  (`RegisterStage`, `RemoveStage`, `ClearStage`). A device to add is written into its own entry or
  a free one (`SlotFor`), for which it matters that no device has two entries and that nothing else
  writes into the table before. READY means that all is achieved, or that the last pairing of a
  removal is still to be removed (`Rests`), which is why the removal is only promised for
  the proxy table when nothing is left over. That the proxy table is empty after the first clearing
  rests on the entries below `proxy_table_index` being free (`FreeBelow`); a second clearing starts
  from the index at which the first ended, and the stages say nothing then.
* `ReceiveTypeCorrect`; `SteersDevices` (`SteersToNetwork`); `OneSwitch`
  (`OneSwitchUnlessAnswering`) from `OneFrameUnderWay`: a switch is a command in the queue, an
  entry of the adapter's transmit queue, or a report to come, one of these and one only,
  and then `sentChannelSwitchSourceId` is set.

Type invariants and `ListsNotEmpty`, `LibFollowsSink`, `OneEntryEach` are left to the proofs.

### The program and its composition (`ExampleProofs`)

* `ExampleInvariant`: `Control` says where the program, the library and the sink are relative
  to each other: what state the program is in when it is called back and with what (`Asked`,
  `Called`), that the sink is initialised before anything is asked of it (`SinkFirst`), and what
  the lists of the program hold (`Lists`). It needs the invariant of the library, which is
  that of `LibEzspMainProofs` on the library's part of the queue (`LibPart`).
* `SinkImplemented` (`SinkAsSpecified`): with the commands of the others taken out of the queue
  and the states of `lib_state` that do not matter to the sink made one, every step of the program
  is a step of `GpSink` or leaves it alone. What had to be shown is that `CLibEzspMain` lets a
  request through only where `GpSink` has it, and what `Part` makes of a queue that is appended to
  and taken from. `Part` is a recursive function, since the provers know nothing of `SelectSeq`.
* With that, `Own`, an instance of `GpSinkProofs`, gives the sink's theorems to the whole program
  (`SinkPromisesHold`). The library has company in `SinkTurn`, which stands for what the sink does
  to `lib_state`; its invariants survive that, and every step of the program is a step of
  the library, a turn of the sink, or neither (`OnTheNetworkInCompany`, `ScansInCompany`).
* `DevicesAreAsAsked` (`DevicesAsAsked`): when the program runs, the devices of `-s` are in the
  tables and those of `-r` are not. The property speaks of the last state of the program, the
  invariant of all: for each state, how far the sink is with what this state asks of it (`Stage`).
  The stages rest on the sink being initialised once (`SinkOnce`), on the network coming up
  before the first request and the program scanning once (`ScanOnce`), and on
  the commands of a removal standing before the scan in the queue (`ScanInv`), so that the last
  pairing is gone when the scan has been answered. The proof showed that a scan or a network that
  is refused makes no difference to this, and the property no longer excepts it.

Each inductive invariant was checked by TLC on the instances of the runs before it was proved. In
`GpReceive` the handle before the first frame is written 255, which is what the member
initialised with -1 holds: of `%` the provers know nothing when the dividend is negative.

### Only model-checked

* `AshFraming` and `Messages` (`OnlySentInOrder`, `LosesFew`, `ChunksDoNotMatter`,
  `StructsArriveIntact` and the others): CRC, stuffing, structures and AES compute on bytes with
  `Bitwise` and RECURSIVE operators, about which these provers can say nothing.
* All liveness (`EveryCommandCompletes`, `ReaderCanWrite`, `CallReturns`, `Fires`,
  `LibGetsReady`, `InitConcludes`, `AcceptedIsAnswered`, `SwitchEnds`, `ModeIsReached`,
  `GetsThere`, `MainReturns`), which rests on ENABLED.

## Not modelled

The modules stand for about 30 % of the lines of the implementation. The rest is, for the
most part, logging and `toString()` methods, enumerations and accessors, and:

* CGPDeviceDb and the parts of CGpSink and CLibEzspMain under
  `USE_BUILTIN_MIC_PROCESSING`, which are not in the default build.
* `joinNetwork()`, the discovery of devices and the messages of ZigBee nodes that
  CLibEzspMain passes on: what they hold is in `Messages`, what is done with them is the
  user's.
* CEzsp, which forwards; the Raritan, serial and mock drivers, which do I/O or belong to
  another event loop; vendored xmodem.
* `setUart()` and the registries of observers; deciphering in AES, which is not compiled.
* A second caller of a timer: AshDriver's timer has the user and the reader. Their calls
  are taken one after the other.
* Messages too short for the fields the library reads: `at()` throws, and nothing catches it.
* In `Example`, a network that drops while the sink is busy: the library then leaves SINK_BUSY
  behind the back of the sink.

## Plan

1. A second caller in `CppThreadsTimer`: `ackTimer` is stopped by the reader and started by the
   users, without a lock of its own.
2. The build with `USE_BUILTIN_MIC_PROCESSING`, with CGPDeviceDb.
3. A network that drops while the sink is busy, in `Example`.

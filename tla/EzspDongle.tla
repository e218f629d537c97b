----------------------------- MODULE EzspDongle -----------------------------
(***************************************************************************)
(* CEzspDongle with the AshDriver and AshCodec it owns, in the build where *)
(* one event loop runs everything (the Raritan build): the queue of EZSP   *)
(* commands, the ASH connection below it, and the switching between EZSP   *)
(* and bootloader modes.  BootloaderPromptDriver appears here only through *)
(* what the dongle asks of it and what it calls back.                      *)
(*                                                                         *)
(* The host reads the line in chunks.  AshCodec decodes every frame of a   *)
(* chunk before AshDriver passes on the payloads it found, so a chunk is   *)
(* one ReadChunk, one Decode per frame and one Deliver per payload, and no *)
(* other host step comes between them.                                     *)
(***************************************************************************)
EXTENDS Ncp

CONSTANTS
  MaxCommands,   \* bound: the user issues at most this many commands
  MaxChunk       \* bound: frames in one chunk of input

ASSUME DongleAssumption ==
  /\ MaxCommands \in Nat
  /\ MaxChunk \in Nat \ {0}

VARIABLES
  sendingMsgQueue, wait_rsp, lastKnownMode, firstStartup,            \* CEzspDongle
  switchToFirmwareUpgradeOnInitTimeout,
  enabled, ackTimer,                                                \* AshDriver
  frmNum, nextExpectedFEAckNum, lastReceivedByNEAckNum, stateConnected, \* AshCodec
  blp,           \* BootloaderPromptDriver: "off", "flush", "probe" or "xmodem"
  promptDetectCallback, \* which callback setMode() left there: "none", "run", "upgrade"
  chunk,         \* frames of the current chunk still to be decoded
  pending,       \* extractedPayloads: decoded and not yet passed on
  issued,        \* history: commands given to sendCommand()
  lastSent,      \* history: the tag of the last command written in full, or 0
  answered       \* history: the tags whose own response reached the dongle

queueVars == <<sendingMsgQueue, wait_rsp>>
startVars == <<firstStartup, switchToFirmwareUpgradeOnInitTimeout>>
modeVars == <<lastKnownMode, startVars, enabled, blp, promptDetectCallback>>
sendVars == <<frmNum, nextExpectedFEAckNum, ackTimer, lastSent>>
readVars == <<chunk, pending>>
hostVars == <<queueVars, modeVars, sendVars, lastReceivedByNEAckNum, stateConnected,
              readVars, issued, answered>>
vars == <<hostVars, wireVars, ncpOnlyVars>>

-----------------------------------------------------------------------------
EzspModes == {"UNKNOWN", "EZSP_NCP"}
BootloaderModes == {"BOOTLOADER_FIRMWARE_UPGRADE", "BOOTLOADER_EXIT_TO_EZSP_NCP"}

QueueTypeOK ==
  /\ sendingMsgQueue \in Seq(Entries)
  /\ wait_rsp \in BOOLEAN
  /\ issued \in Nat

ModeTypeOK ==
  /\ lastKnownMode \in EzspModes \cup BootloaderModes
  /\ firstStartup \in BOOLEAN
  /\ switchToFirmwareUpgradeOnInitTimeout \in BOOLEAN
  /\ enabled \in BOOLEAN
  /\ blp \in {"off", "flush", "probe", "xmodem"}
  /\ promptDetectCallback \in {"none", "run", "upgrade"}

SendTypeOK ==
  /\ frmNum \in FrmNums
  /\ nextExpectedFEAckNum \in FrmNums
  /\ ackTimer \in BOOLEAN
  /\ lastSent \in Nat

ReadTypeOK ==
  /\ lastReceivedByNEAckNum \in FrmNums
  /\ stateConnected \in BOOLEAN
  /\ chunk \in Nat
  /\ pending \in Seq(Entries)
  /\ answered \in SUBSET Nat

TypeOK == NcpTypeOK /\ QueueTypeOK /\ ModeTypeOK /\ SendTypeOK /\ ReadTypeOK

(* A constructed dongle whose UART is set and whose reset() is not called    *)
(* yet.                                                                      *)
Init ==
  /\ NcpInit
  /\ sendingMsgQueue = <<>> /\ wait_rsp = FALSE
  /\ lastKnownMode = "UNKNOWN" /\ firstStartup = TRUE
  /\ switchToFirmwareUpgradeOnInitTimeout \in BOOLEAN
  /\ enabled = FALSE /\ ackTimer = FALSE
  /\ frmNum = 0 /\ nextExpectedFEAckNum = 0 /\ lastReceivedByNEAckNum = 0
  /\ stateConnected = FALSE
  /\ blp = "off" /\ promptDetectCallback = "none"
  /\ chunk = 0 /\ pending = <<>>
  /\ issued = 0 /\ lastSent = 0 /\ answered = {}

-----------------------------------------------------------------------------
(* Writing.  A write may fail outright or after part of the frame.           *)

Written(out, frame) == Append(out, frame)
FailedWrites(out) == {out, Append(out, Simple("JUNK"))}

(* Mutant: a command is sent while a response is awaited.                    *)
MaySendAnytime(queue, wait, mode) == mode \in EzspModes /\ queue # <<>>

MaySend(queue, wait, mode) == mode \in EzspModes /\ ~wait /\ queue # <<>>

(* sendNextMsg(), called with the queue, wait_rsp, mode, frame number and    *)
(* timer that the calling handler has set so far; `out` is the line with     *)
(* what that handler has written so far.  forgeDataFrame() takes a frame     *)
(* number whether or not the write then succeeds, and a disabled AshDriver   *)
(* writes nothing.                                                           *)
SendNextMsg(queue, wait, mode, frm, timer, out) ==
  IF MaySend(queue, wait, mode)
  THEN /\ frmNum' = SuccFrm(frm)
       /\ nextExpectedFEAckNum' = SuccFrm(frm)
       /\ \/ /\ enabled
             /\ toNcp' = Written(out, Data(frm, lastReceivedByNEAckNum, Head(queue)))
             /\ wait_rsp' = TRUE /\ ackTimer' = TRUE
             /\ lastSent' = Head(queue).tag
          \/ /\ ~enabled \/ flaky
             /\ toNcp' \in IF enabled THEN FailedWrites(out) ELSE {out}
             /\ wait_rsp' = FALSE /\ ackTimer' = FALSE
             /\ UNCHANGED lastSent
  ELSE /\ frmNum' = frm /\ wait_rsp' = wait /\ ackTimer' = timer /\ toNcp' = out
       /\ UNCHANGED <<nextExpectedFEAckNum, lastSent>>

(* sendAckFrame(): the lines that writing an acknowledgement may leave.      *)
AckWrites ==
  IF enabled
  THEN {Written(toNcp, [type |-> "ACK", ack |-> lastReceivedByNEAckNum])}
       \cup (IF flaky THEN FailedWrites(toNcp) ELSE {})
  ELSE {toNcp}

(* CEzspDongle::reset() with sendResetNCPFrame() and forgeResetNCPFrame():   *)
(* the queue and wait_rsp stay as they are.                                  *)
ResetDongle(out) ==
  /\ blp' = "off" /\ enabled' = TRUE
  /\ frmNum' = 0 /\ nextExpectedFEAckNum' = 0 /\ lastReceivedByNEAckNum' = 0
  /\ stateConnected' = FALSE
  /\ \/ toNcp' = Written(out, Simple("RST")) /\ ackTimer' = TRUE
     \/ flaky /\ toNcp' \in FailedWrites(out) /\ ackTimer' = FALSE

(* Mutant: a callback left by an earlier switch is not replaced.             *)
SetModeKeepsCallback(requested) ==
  \/ /\ requested = "BOOTLOADER_EXIT_TO_EZSP_NCP" /\ lastKnownMode # "EZSP_NCP"
     /\ lastKnownMode' = requested
     /\ promptDetectCallback' = "run" /\ blp' = "flush"
     /\ UNCHANGED enabled
  \/ /\ requested = "BOOTLOADER_FIRMWARE_UPGRADE" /\ lastKnownMode \in EzspModes
     /\ lastKnownMode' = requested
     /\ promptDetectCallback' = IF promptDetectCallback = "none" THEN "upgrade"
                                                                ELSE promptDetectCallback
     /\ blp' = "flush" /\ enabled' = FALSE

(* setMode(): only two combinations of modes are implemented.                *)
SetMode(requested) ==
  \/ /\ requested = "BOOTLOADER_EXIT_TO_EZSP_NCP" /\ lastKnownMode # "EZSP_NCP"
     /\ lastKnownMode' = requested
     /\ promptDetectCallback' = "run" /\ blp' = "flush"
     /\ UNCHANGED enabled
  \/ /\ requested = "BOOTLOADER_FIRMWARE_UPGRADE" /\ lastKnownMode \in EzspModes
     /\ lastKnownMode' = requested
     /\ promptDetectCallback' = "upgrade" /\ blp' = "flush"
     /\ enabled' = FALSE
  \/ /\ \/ requested = "BOOTLOADER_EXIT_TO_EZSP_NCP" /\ lastKnownMode = "EZSP_NCP"
        \/ requested = "BOOTLOADER_FIRMWARE_UPGRADE" /\ lastKnownMode \notin EzspModes
     /\ UNCHANGED <<lastKnownMode, promptDetectCallback, blp, enabled>>

-----------------------------------------------------------------------------
(* Calls from the user and from timers: the event loop takes timers only     *)
(* between chunks; an observer calls sendCommand() between the payloads of a *)
(* chunk as well, once the one it is told of has been handled.               *)

HostIdle == chunk = 0 /\ pending = <<>>

(* Mutant: the newest command goes to the front.                             *)
QueuedInFront(c) == <<[tag |-> issued + 1, cmd |-> c]>> \o sendingMsgQueue

(* A command as sendCommand() queues it.                                     *)
Queued(c) == Append(sendingMsgQueue, [tag |-> issued + 1, cmd |-> c])

(* CLibEzspMain issues commands once the dongle is ready; "early" is a call  *)
(* of one of its unguarded entry points at another moment.                   *)
Ready == stateConnected /\ lastKnownMode = "EZSP_NCP"

SendCommand(c) ==
  /\ chunk = 0 /\ issued < MaxCommands
  /\ \/ Ready /\ UNCHANGED faults
     \/ ~Ready /\ Fault("early")
  /\ issued' = issued + 1
  /\ sendingMsgQueue' = Queued(c)
  /\ SendNextMsg(Queued(c), wait_rsp, lastKnownMode, frmNum, ackTimer, toNcp)
  /\ UNCHANGED <<modeVars, lastReceivedByNEAckNum, stateConnected, readVars, toHost,
                 answered, adapterVars, flaky>>

(* CLibEzspMain::start() resets once; "reset" lets the user do it again.     *)
Reset ==
  /\ HostIdle
  /\ \/ lastKnownMode = "UNKNOWN" /\ ~enabled /\ UNCHANGED faults
     \/ Fault("reset")
  /\ ResetDongle(toNcp)
  /\ UNCHANGED <<queueVars, lastKnownMode, startVars, promptDetectCallback, lastSent,
                 readVars, issued, answered, toHost, adapterVars, flaky>>

(* ASH_RESET_FAILED: at the first start the adapter may be in its            *)
(* bootloader; later the observers are told that it does not respond.        *)
ResetFailed ==
  IF firstStartup
  THEN /\ SetMode(IF switchToFirmwareUpgradeOnInitTimeout
                  THEN "BOOTLOADER_FIRMWARE_UPGRADE"
                  ELSE "BOOTLOADER_EXIT_TO_EZSP_NCP")
       /\ firstStartup' = FALSE
       /\ UNCHANGED switchToFirmwareUpgradeOnInitTimeout
  ELSE UNCHANGED modeVars

(* The timer of AshDriver runs out: when nothing is on its way, or           *)
(* ("slowBoot") before an answer that is late.  While connected the expiry   *)
(* is only logged.                                                           *)
AckTimerExpires ==
  /\ HostIdle /\ ackTimer
  /\ IF stateConnected \/ wireVars = <<<<>>, <<>>>> THEN UNCHANGED faults ELSE Fault("slowBoot")
  /\ ackTimer' = FALSE
  /\ IF stateConnected THEN UNCHANGED modeVars ELSE ResetFailed
  /\ UNCHANGED <<queueVars, frmNum, nextExpectedFEAckNum, lastSent,
                 lastReceivedByNEAckNum, stateConnected, readVars, issued, answered,
                 wireVars, adapterVars, flaky>>

(* The bootloader driver's quiet period is over: it probes with a newline.   *)
BlpProbes ==
  /\ HostIdle /\ blp = "flush"
  /\ blp' = "probe"
  /\ toNcp' \in {Append(toNcp, Simple("JUNK"))} \cup (IF flaky THEN {toNcp} ELSE {})
  /\ UNCHANGED <<queueVars, lastKnownMode, startVars, enabled, promptDetectCallback,
                 sendVars, lastReceivedByNEAckNum, stateConnected, readVars, issued,
                 answered, toHost, ncpOnlyVars>>

(* The bootloader driver recognised the prompt and calls back.               *)
MenuChoice(c) ==
  {Append(toNcp, Simple(c))} \cup (IF flaky THEN {toNcp} ELSE {})

PromptDetected ==
  /\ HostIdle /\ blp = "probe" /\ ncpMode = "bootloader" /\ toNcp = <<>>
  /\ \/ /\ promptDetectCallback = "run"
        /\ lastKnownMode' = "EZSP_NCP"
        /\ \E out \in MenuChoice("RUN") : ResetDongle(out)
     \/ /\ promptDetectCallback = "upgrade"
        /\ lastKnownMode' = "BOOTLOADER_FIRMWARE_UPGRADE"
        /\ blp' = "xmodem"
        /\ toNcp' \in MenuChoice("UPGRADE")
        /\ UNCHANGED <<enabled, frmNum, nextExpectedFEAckNum, ackTimer,
                       lastReceivedByNEAckNum, stateConnected>>
  /\ UNCHANGED <<queueVars, startVars, promptDetectCallback, lastSent, readVars, issued,
                 answered, toHost, ncpOnlyVars>>

-----------------------------------------------------------------------------
(* Input.                                                                    *)

(* AshDriver::handleInputData(): a disabled driver drops what it is given.   *)
ReadChunk ==
  /\ HostIdle /\ toHost # <<>>
  /\ IF enabled
     THEN chunk' \in {n \in 1 .. MaxChunk : n <= Len(toHost)} /\ UNCHANGED toHost
     ELSE toHost' = Tail(toHost) /\ UNCHANGED chunk
  /\ UNCHANGED <<queueVars, modeVars, sendVars, lastReceivedByNEAckNum, stateConnected,
                 pending, issued, answered, toNcp, ncpOnlyVars>>

DecodeNext(type) ==
  /\ chunk > 0 /\ toHost # <<>> /\ Head(toHost).type = type
  /\ chunk' = chunk - 1
  /\ toHost' = Tail(toHost)
  /\ UNCHANGED <<startVars, enabled, blp, promptDetectCallback, answered, ncpOnlyVars>>

(* A DATA frame is taken whatever its number; a wrong acknowledgement is     *)
(* only logged.                                                              *)
DecodeData ==
  /\ DecodeNext("DATA")
  /\ LET f == Head(toHost)
     IN /\ ackTimer' = (ackTimer /\ f.ack # nextExpectedFEAckNum)
        /\ lastReceivedByNEAckNum' = SuccFrm(f.frm)
        /\ pending' = Append(pending, f.entry)
  /\ UNCHANGED <<queueVars, lastKnownMode, frmNum, nextExpectedFEAckNum, lastSent,
                 stateConnected, issued, toNcp>>

DecodeAck ==
  /\ DecodeNext("ACK")
  /\ ackTimer' = FALSE
  /\ UNCHANGED <<queueVars, lastKnownMode, frmNum, nextExpectedFEAckNum, lastSent,
                 lastReceivedByNEAckNum, stateConnected, pending, issued, toNcp>>

(* ASH_NACK: the dongle sends the front of its queue, under frame number frm *)
(* that the adapter asked for.                                               *)
Nacked(frm) == SendNextMsg(sendingMsgQueue, FALSE, lastKnownMode, frm, FALSE, toNcp)

(* Mutant: the NAK is noted, nothing is sent.                                *)
DecodeNakNoResend ==
  /\ DecodeNext("NAK")
  /\ wait_rsp' = FALSE /\ ackTimer' = FALSE /\ frmNum' = Head(toHost).num
  /\ UNCHANGED <<sendingMsgQueue, lastKnownMode, lastReceivedByNEAckNum, stateConnected,
                 pending, issued, toNcp, nextExpectedFEAckNum, lastSent>>

DecodeNak ==
  /\ DecodeNext("NAK")
  /\ Nacked(Head(toHost).num)
  /\ UNCHANGED <<sendingMsgQueue, lastKnownMode, lastReceivedByNEAckNum, stateConnected,
                 pending, issued>>

(* ASH_STATE_CONNECTED: the observers learn that the dongle is ready, and    *)
(* may send a command at once, before lastKnownMode is updated.              *)
Connected ==
  /\ lastKnownMode' = "EZSP_NCP"
  /\ \/ /\ ackTimer' = FALSE
        /\ UNCHANGED <<queueVars, frmNum, nextExpectedFEAckNum, lastSent, issued, toNcp>>
     \/ \E c \in Commands :
          /\ issued < MaxCommands
          /\ issued' = issued + 1
          /\ sendingMsgQueue' = Queued(c)
          /\ SendNextMsg(Queued(c), wait_rsp, lastKnownMode, frmNum, FALSE, toNcp)

(* Mutant: on connection the front of the queue is sent again.               *)
DecodeRstAckResends ==
  /\ DecodeNext("RSTACK")
  /\ stateConnected' = TRUE /\ lastKnownMode' = "EZSP_NCP"
  /\ SendNextMsg(sendingMsgQueue, FALSE, lastKnownMode, frmNum, FALSE, toNcp)
  /\ UNCHANGED <<sendingMsgQueue, lastReceivedByNEAckNum, pending, issued>>

(* Only the first RSTACK that gives the right reason connects.               *)
DecodeRstAck ==
  /\ DecodeNext("RSTACK")
  /\ IF stateConnected \/ ~Head(toHost).good
     THEN UNCHANGED <<queueVars, lastKnownMode, sendVars, stateConnected, issued, toNcp>>
     ELSE stateConnected' = TRUE /\ Connected
  /\ UNCHANGED <<lastReceivedByNEAckNum, pending>>

DecodeBad ==
  /\ DecodeNext("BAD")
  /\ UNCHANGED <<queueVars, lastKnownMode, sendVars, lastReceivedByNEAckNum,
                 stateConnected, pending, issued, toNcp>>

(* CEzspDongle::handleInputData() on the first payload of the chunk.         *)
DeliverNext(p) ==
  /\ chunk = 0 /\ pending # <<>> /\ p = Head(pending)
  /\ pending' = Tail(pending)
  /\ UNCHANGED <<chunk, startVars, lastReceivedByNEAckNum, stateConnected, issued, toHost,
                 ncpOnlyVars>>

DeliverInBootloader(p) ==
  /\ DeliverNext(p)
  /\ lastKnownMode \notin EzspModes
  /\ UNCHANGED <<queueVars, lastKnownMode, enabled, blp, promptDetectCallback, sendVars,
                 answered, toNcp>>

(* Neither acknowledged nor taken out of the queue; CLibEzspMain, which asked *)
(* for it, switches to firmware upgrade mode.                                *)
DeliverLaunch(p) ==
  /\ DeliverNext(p)
  /\ lastKnownMode \in EzspModes /\ p.cmd = Launch
  /\ answered' = answered \cup {p.tag}
  /\ SetMode("BOOTLOADER_FIRMWARE_UPGRADE")
  /\ UNCHANGED <<queueVars, sendVars, toNcp>>

(* Mutant: the last command of the queue is never taken out.                 *)
IsResponseUnlessLast(p) == Len(sendingMsgQueue) > 1 /\ Head(sendingMsgQueue).cmd = p.cmd

IsResponse(p) == sendingMsgQueue # <<>> /\ Head(sendingMsgQueue).cmd = p.cmd

(* handleResponse(): the front of the queue is taken out if it has the frame *)
(* ID of the message, whether or not a response was awaited.                 *)
HandleResponse(p, out) ==
  IF IsResponse(p)
  THEN /\ sendingMsgQueue' = Tail(sendingMsgQueue)
       /\ SendNextMsg(Tail(sendingMsgQueue), FALSE, lastKnownMode, frmNum, ackTimer, out)
  ELSE toNcp' = out /\ UNCHANGED <<queueVars, sendVars>>

DeliverMessage(p) ==
  /\ DeliverNext(p)
  /\ lastKnownMode \in EzspModes /\ p.cmd # Launch
  /\ answered' = IF p.tag = 0 THEN answered ELSE answered \cup {p.tag}
  /\ \E out \in AckWrites : HandleResponse(p, out)
  /\ UNCHANGED <<lastKnownMode, enabled, blp, promptDetectCallback>>

Deliver ==
  \E p \in {pending[i] : i \in 1 .. Len(pending)} :
    DeliverInBootloader(p) \/ DeliverLaunch(p) \/ DeliverMessage(p)

-----------------------------------------------------------------------------
UserNext == Reset \/ \E c \in Commands \cup {Launch} : SendCommand(c)

Decode == DecodeData \/ DecodeAck \/ DecodeNak \/ DecodeRstAck \/ DecodeBad

HostNext == AckTimerExpires \/ BlpProbes \/ PromptDetected \/ ReadChunk \/ Decode \/ Deliver

Next == UserNext \/ HostNext \/ (NcpNext /\ UNCHANGED hostVars)

Spec == Init /\ [][Next]_vars

(* The scheduling that the code relies on: the event loop keeps serving      *)
(* input and timers, and the adapter keeps reading and answering.            *)
FairSpec ==
  /\ Spec
  /\ WF_vars(HostNext)
  /\ WF_vars(Reset /\ lastKnownMode = "UNKNOWN")
  /\ SF_vars(NcpReceives /\ UNCHANGED hostVars)
  /\ SF_vars(NcpResponds /\ UNCHANGED hostVars)

-----------------------------------------------------------------------------
(* Properties.                                                               *)

Completed == issued - Len(sendingMsgQueue)

(* While a response is awaited, the command at the front of the queue is the *)
(* one that was written last: what handleResponse() takes out is what was    *)
(* sent, whatever failed in between.                                         *)
FrontIsLastSent ==
  wait_rsp => sendingMsgQueue # <<>> /\ Head(sendingMsgQueue).tag = lastSent

(* A command leaves the queue only once its own response has been received   *)
(* (ezsp-dongle.cpp:446, "Make sure that the EZSP message is a response to   *)
(* the last command we sent").                                               *)
CompletedWereAnswered == \A t \in 1 .. Completed : t \in answered

(* "when sendingMsgQueue is not empty, wait_rsp should be true"              *)
(* (ezsp-dongle.cpp:437): the queue is never left with nothing under way     *)
(* that would make it move on.                                               *)
WaitingWhenQueued == sendingMsgQueue # <<>> => wait_rsp

(* The same whatever the line and the adapter do, as long as no write was    *)
(* lost, no command was issued while the dongle could not send, and the      *)
(* start did not time out (after which an RSTACK finds the dongle in         *)
(* bootloader mode, and the command its observers issue is refused).         *)
WaitingUnlessRefused ==
  firstStartup /\ Happened \cap {"write", "early"} = {} => WaitingWhenQueued

(* "sendingMsgQueue should always contain (at front) the last command sent   *)
(* without reply" (ezsp-dongle.cpp:437): a command that has its reply does   *)
(* not stay at the front.                                                    *)
FrontIsUnanswered ==
  sendingMsgQueue # <<>> => Head(sendingMsgQueue).tag \notin answered

(* A NAK is about the front of the queue, which was not received: without    *)
(* noise and torn writes, and unless a retransmitted response passed for     *)
(* that of the next command, which puts two commands on their way, and the   *)
(* adapter restarted and rejects both.                                       *)
NaksAreDue ==
  /\ Happened \cap {"noise", "write", "slowBoot"} = {}
  /\ ~({"retransmit", "ncpReset"} \subseteq Happened)

(* The adapter never executes a command after a later one, whatever is       *)
(* resent after a NAK, lost or retransmitted.  Retransmissions of the        *)
(* adapter alone, its restarts alone, and resets by the user never make it   *)
(* execute one twice; a NAK that is not due may, because DecodeNak sends the *)
(* front again even if it was received.                                      *)
ExecutedOnceInOrder ==
  \A i, j \in 1 .. Len(executed) : i < j =>
    /\ executed[i] <= executed[j]
    /\ NaksAreDue => executed[i] # executed[j]

(* While a firmware upgrade is under way, nothing but the bootloader         *)
(* driver's own bytes is written until the user resets the dongle: ASH       *)
(* traffic would end in the menu of the bootloader or in the image.          *)
AshWritten ==
  Len(toNcp') > Len(toNcp) /\ toNcp'[Len(toNcp')].type \notin {"JUNK", "UPGRADE"}

Upgrading ==
  lastKnownMode = "BOOTLOADER_FIRMWARE_UPGRADE" /\ "reset" \notin Happened

(* The callback left with the bootloader driver and the state of AshDriver   *)
(* go with the mode, and no chunk is half decoded.                           *)
UpgradeInv ==
  "reset" \notin Happened =>
    /\ lastKnownMode = "BOOTLOADER_FIRMWARE_UPGRADE" <=> promptDetectCallback = "upgrade"
    /\ lastKnownMode = "BOOTLOADER_FIRMWARE_UPGRADE" => ~enabled /\ chunk = 0

NoAshInUpgrade == [][Upgrading /\ "reset" \notin Happened' => ~AshWritten]_vars

(* Neither a late RSTACK nor a timer takes the dongle out of an upgrade.     *)
UpgradeIsFinal == [][Upgrading => lastKnownMode' = lastKnownMode]_vars

(* On a line without faults the dongle keeps the promise of CommandQueue.    *)
Promise == INSTANCE CommandQueue WITH accepted <- issued, completed <- Completed
KeepsPromise == Promise!Spec

(* Every command accepted is completed, unless the user has the adapter      *)
(* upgraded.                                                                 *)
EveryCommandCompletes ==
  \A t \in 1 .. MaxCommands :
    issued >= t ~> (Completed >= t \/ lastKnownMode = "BOOTLOADER_FIRMWARE_UPGRADE")

=============================================================================

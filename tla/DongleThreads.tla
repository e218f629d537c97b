---------------------------- MODULE DongleThreads ----------------------------
(***************************************************************************)
(* CEzspDongle and AshDriver in the build that uses C++11 threads: any     *)
(* number of user threads call sendCommand() while the serial reader       *)
(* thread delivers the adapter's messages and, from the observers it       *)
(* notifies, calls sendCommand() too.  The dongle is connected and the     *)
(* line has no faults: what can go wrong here is the order of the steps.   *)
(*                                                                         *)
(* A step is what a thread does between two points where another thread    *)
(* can get in the way: the unlocked reads of wait_rsp and of the queue,    *)
(* and the three mutexes.  The critical sections of sendingMsgQueueMutex,  *)
(* and the one of serialRWMutex around a write, contain no such point and  *)
(* are one step each; the reader holds serialRWMutex from the moment it    *)
(* has input until its last observer returns.                              *)
(***************************************************************************)
EXTENDS Naturals, Sequences

CONSTANTS
  Commands,   \* the frame IDs of the commands that are issued
  MaxCommands,  \* bound: how often sendCommand() is called
  Users,      \* threads that call sendCommand()
  Reader,     \* the thread of SerialUartDriver::threadreader()
  NoThread,   \* the owner of a free mutex
  FrmMod      \* ASH frame numbers are counted modulo this (8 in the code)

ASSUME ThreadsAssumption ==
  /\ Reader \notin Users
  /\ NoThread \notin Users \cup {Reader}
  /\ FrmMod \in Nat \ {0, 1}
  /\ MaxCommands \in Nat

Threads == Users \cup {Reader}

VARIABLES
  sendingMsgQueue, wait_rsp,       \* CEzspDongle
  ezspWriteMutex, serialRWMutex,   \* the owner of each, or NoThread
  frmNum,                          \* AshCodec
  pc,         \* where each thread is
  ret,        \* where it returns to from sendNextMsg()
  l_msg,      \* the command it took from the front of the queue
  frame,      \* the number of the frame it forged
  accepted,   \* history: the frame IDs given to sendCommand(), in order
  written,    \* history: the DATA frames written to the line
  taken,      \* how many of them the adapter has executed and answered
  received    \* how many of its answers the reader has taken from the line

threadVars == <<pc, ret, l_msg, frame>>
vars == <<sendingMsgQueue, wait_rsp, ezspWriteMutex, serialRWMutex, frmNum, threadVars,
          accepted, written, taken, received>>

Steps == {"idle", "checkWait", "checkQueue", "front", "lock", "write", "sent",
          "handle", "pop", "clear", "notify", "done"}

(* A command as the queue holds it.  The code knows its frame ID only; tag   *)
(* is history: which call of sendCommand() it comes from, or 0 for none.     *)
Msgs == [tag : Nat, cmd : Commands]
Frames == [frm : 0 .. FrmMod - 1, msg : Msgs]

SuccFrm(n) == (n + 1) % FrmMod

TypeOK ==
  /\ sendingMsgQueue \in Seq(Msgs)
  /\ wait_rsp \in BOOLEAN
  /\ ezspWriteMutex \in Threads \cup {NoThread}
  /\ serialRWMutex \in {Reader, NoThread}
  /\ frmNum \in 0 .. FrmMod - 1
  /\ pc \in [Threads -> Steps]
  /\ ret \in [Threads -> {"idle", "notify", "done"}]
  /\ l_msg \in [Threads -> Seq(Msgs)]
  /\ frame \in [Threads -> 0 .. FrmMod - 1]
  /\ accepted \in Seq(Commands)
  /\ written \in Seq(Frames)
  /\ taken \in Nat
  /\ received \in Nat

Init ==
  /\ sendingMsgQueue = <<>> /\ wait_rsp = FALSE
  /\ ezspWriteMutex = NoThread /\ serialRWMutex = NoThread
  /\ frmNum = 0
  /\ pc = [t \in Threads |-> "idle"] /\ ret = [t \in Threads |-> "idle"]
  /\ l_msg = [t \in Threads |-> <<>>] /\ frame = [t \in Threads |-> 0]
  /\ accepted = <<>> /\ written = <<>> /\ taken = 0 /\ received = 0

-----------------------------------------------------------------------------
Goto(t, from, to) == pc[t] = from /\ pc' = [pc EXCEPT ![t] = to]

(* sendCommand(c), up to the call of sendNextMsg().                          *)
Push(t, c, from, return) ==
  /\ Goto(t, from, "checkWait")
  /\ ret' = [ret EXCEPT ![t] = return]
  /\ Len(accepted) < MaxCommands
  /\ accepted' = Append(accepted, c)
  /\ sendingMsgQueue' = Append(sendingMsgQueue, [tag |-> Len(accepted) + 1, cmd |-> c])
  /\ UNCHANGED <<wait_rsp, ezspWriteMutex, serialRWMutex, frmNum, l_msg, frame, written,
                 taken, received>>

UserSends(t) == \E c \in Commands : Push(t, c, "idle", "idle")

(* sendNextMsg() reads wait_rsp and the queue without a mutex.               *)
ChecksWait(t) ==
  /\ Goto(t, "checkWait", IF wait_rsp THEN ret[t] ELSE "checkQueue")
  /\ UNCHANGED <<sendingMsgQueue, wait_rsp, ezspWriteMutex, serialRWMutex, frmNum, ret,
                 l_msg, frame, accepted, written, taken, received>>

ChecksQueue(t) ==
  /\ Goto(t, "checkQueue", IF sendingMsgQueue = <<>> THEN ret[t] ELSE "front")
  /\ UNCHANGED <<sendingMsgQueue, wait_rsp, ezspWriteMutex, serialRWMutex, frmNum, ret,
                 l_msg, frame, accepted, written, taken, received>>

(* front() of a queue that has become empty is undefined; where the process  *)
(* survives it, it reads whatever is there: a command that nobody issued.    *)
Fronts ==
  IF sendingMsgQueue # <<>> THEN {Head(sendingMsgQueue)} ELSE [tag : {0}, cmd : Commands]

TakesFront(t) ==
  /\ Goto(t, "front", "lock")
  /\ \E m \in Fronts : l_msg' = [l_msg EXCEPT ![t] = <<m>>]
  /\ UNCHANGED <<sendingMsgQueue, wait_rsp, ezspWriteMutex, serialRWMutex, frmNum, ret,
                 frame, accepted, written, taken, received>>

(* Mutant: ezspWriteMutex is not taken.                                      *)
ForgesUnlocked(t) ==
  /\ Goto(t, "lock", "write")
  /\ frame' = [frame EXCEPT ![t] = frmNum]
  /\ frmNum' = SuccFrm(frmNum)
  /\ UNCHANGED <<sendingMsgQueue, wait_rsp, ezspWriteMutex, serialRWMutex, ret, l_msg,
                 accepted, written, taken, received>>

(* sendDataFrame() under ezspWriteMutex, up to the forged frame.             *)
Forges(t) ==
  /\ Goto(t, "lock", "write")
  /\ ezspWriteMutex = NoThread
  /\ ezspWriteMutex' = t
  /\ frame' = [frame EXCEPT ![t] = frmNum]
  /\ frmNum' = SuccFrm(frmNum)
  /\ UNCHANGED <<sendingMsgQueue, wait_rsp, serialRWMutex, ret, l_msg, accepted, written,
                 taken, received>>

(* sendAshFrame(): serialRWMutex is recursive, and the reader may own it.    *)
Writes(t) ==
  /\ Goto(t, "write", "sent")
  /\ serialRWMutex \in {NoThread, t}
  /\ written' = Append(written, [frm |-> frame[t], msg |-> Head(l_msg[t])])
  /\ UNCHANGED <<sendingMsgQueue, wait_rsp, ezspWriteMutex, serialRWMutex, frmNum, ret,
                 l_msg, frame, accepted, taken, received>>

(* The end of sendNextMsg().                                                 *)
MarksSent(t) ==
  /\ Goto(t, "sent", ret[t])
  /\ wait_rsp' = TRUE
  /\ ezspWriteMutex' = NoThread
  /\ UNCHANGED <<sendingMsgQueue, serialRWMutex, frmNum, ret, l_msg, frame, accepted,
                 written, taken, received>>

SendNextMsg(t) ==
  \/ ChecksWait(t) \/ ChecksQueue(t) \/ TakesFront(t) \/ Forges(t) \/ Writes(t) \/ MarksSent(t)

-----------------------------------------------------------------------------
(* The reader thread.                                                        *)

(* AshDriver::handleInputData() with a message: serialRWMutex is taken and   *)
(* the acknowledgement written.                                              *)
Reads ==
  /\ received < taken
  /\ Goto(Reader, "idle", "handle")
  /\ serialRWMutex = NoThread /\ serialRWMutex' = Reader
  /\ received' = received + 1
  /\ UNCHANGED <<sendingMsgQueue, wait_rsp, ezspWriteMutex, frmNum, ret, l_msg, frame,
                 accepted, written, taken>>

(* handleResponse() looks at the queue before it locks it.                   *)
Handles ==
  /\ Goto(Reader, "handle", IF sendingMsgQueue = <<>> THEN "notify" ELSE "pop")
  /\ UNCHANGED <<sendingMsgQueue, wait_rsp, ezspWriteMutex, serialRWMutex, frmNum, ret,
                 l_msg, frame, accepted, written, taken, received>>

(* The message that is handled answers the frame written[received].          *)
l_cmd == written[received].msg.cmd

(* Mutant: the front is popped whatever the message is.                      *)
PopsAlways ==
  /\ Goto(Reader, "pop", "clear")
  /\ sendingMsgQueue' = Tail(sendingMsgQueue)
  /\ UNCHANGED <<wait_rsp, ezspWriteMutex, serialRWMutex, frmNum, ret, l_msg, frame,
                 accepted, written, taken, received>>

Pops ==
  /\ pc[Reader] = "pop"
  /\ \/ /\ Head(sendingMsgQueue).cmd = l_cmd
        /\ Goto(Reader, "pop", "clear")
        /\ sendingMsgQueue' = Tail(sendingMsgQueue)
     \/ /\ Head(sendingMsgQueue).cmd # l_cmd
        /\ Goto(Reader, "pop", "notify")
        /\ UNCHANGED sendingMsgQueue
  /\ UNCHANGED <<wait_rsp, ezspWriteMutex, serialRWMutex, frmNum, ret, l_msg, frame,
                 accepted, written, taken, received>>

Clears ==
  /\ Goto(Reader, "clear", "checkWait")
  /\ wait_rsp' = FALSE
  /\ ret' = [ret EXCEPT ![Reader] = "notify"]
  /\ UNCHANGED <<sendingMsgQueue, ezspWriteMutex, serialRWMutex, frmNum, l_msg, frame,
                 accepted, written, taken, received>>

(* The observers are told of the message; one may issue a command.           *)
ObserverSends == \E c \in Commands : Push(Reader, c, "notify", "done")

Finishes ==
  /\ \/ Goto(Reader, "notify", "idle")
     \/ Goto(Reader, "done", "idle")
  /\ serialRWMutex' = NoThread
  /\ UNCHANGED <<sendingMsgQueue, wait_rsp, ezspWriteMutex, frmNum, ret, l_msg, frame,
                 accepted, written, taken, received>>

Handler == Reads \/ Handles \/ Pops \/ Clears \/ ObserverSends \/ Finishes

-----------------------------------------------------------------------------
(* The adapter executes the frames in the order they come, and answers.      *)
Executes ==
  /\ taken < Len(written)
  /\ taken' = taken + 1
  /\ UNCHANGED <<sendingMsgQueue, wait_rsp, ezspWriteMutex, serialRWMutex, frmNum,
                 threadVars, accepted, written, received>>

Next ==
  \/ \E t \in Users : UserSends(t)
  \/ \E t \in Threads : SendNextMsg(t)
  \/ Handler
  \/ Executes

Spec == Init /\ [][Next]_vars

(* Every thread that can go on is scheduled, and the adapter answers.        *)
FairSpec ==
  /\ Spec
  /\ \A t \in Threads : WF_vars(SendNextMsg(t))
  /\ WF_vars(Handler)
  /\ WF_vars(Executes)

-----------------------------------------------------------------------------
(* Properties.                                                               *)

(* DATA frames reach the line in the order of their numbers, whichever       *)
(* threads forged them: the adapter would reject any other ("Mutex allowing  *)
(* exclusive writes to the EZSP adapter", ezsp-dongle.h:235).                *)
FramesInSequence ==
  \A i \in 1 .. Len(written) :
    written[i].frm = IF i = 1 THEN 0 ELSE SuccFrm(written[i - 1].frm)

(* Why: whoever is between forging and writing holds ezspWriteMutex, and the *)
(* number it forged is the one the line expects next.                        *)
NextOnLine == IF written = <<>> THEN 0 ELSE SuccFrm(written[Len(written)].frm)

SequenceInv ==
  /\ \A t \in Threads : pc[t] \in {"write", "sent"} <=> ezspWriteMutex = t
  /\ \A t \in Threads : pc[t] = "write" => frame[t] = NextOnLine /\ frmNum = SuccFrm(frame[t])
  /\ (\A t \in Threads : pc[t] # "write") => frmNum = NextOnLine
  /\ FramesInSequence

(* What the accesses to l_msg and to the queue rely on: a thread that sends  *)
(* has a command, and only the reader takes one out of the queue.            *)
QueueInv ==
  /\ \A t \in Threads : pc[t] \in {"lock", "write"} => l_msg[t] # <<>>
  /\ pc[Reader] = "pop" => sendingMsgQueue # <<>>

(* A message is matched to a command by its frame ID only.  Where a command  *)
(* was sent twice, or one that nobody issued, the surplus answer can pass    *)
(* for that of another command with the same ID; NoMixUp says that there is  *)
(* none.                                                                     *)
Surplus(i) ==
  written[i].msg.tag = 0 \/ \E h \in 1 .. i - 1 : written[h].msg.tag = written[i].msg.tag

NoMixUp ==
  \A i \in 1 .. Len(written), j \in 1 .. Len(accepted) :
    Surplus(i) /\ accepted[j] = written[i].msg.cmd => j = written[i].msg.tag

(* No command is executed for the first time before those accepted ahead of  *)
(* it, even when two threads send the same front or what front() finds in a  *)
(* queue that was emptied, unless NoMixUp fails.                             *)
FirstExecutedInOrder ==
  NoMixUp =>
    \A i \in 1 .. taken : \A j \in 1 .. written[i].msg.tag - 1 :
      \E h \in 1 .. i - 1 : written[h].msg.tag = j

(* The commands that have left the queue.                                    *)
Gone == Len(accepted) - Len(sendingMsgQueue)

(* "Make sure that the EZSP message is a response to the last command we     *)
(* sent" (ezsp-dongle.cpp:446): a command leaves the queue only after the    *)
(* adapter has executed it.                                                  *)
CompletedWereExecuted ==
  \A j \in 1 .. Gone : \E i \in 1 .. taken : written[i].msg.tag = j

(* The same where no surplus answer has the frame ID of another command.     *)
CompletedUnlessMixedUp == NoMixUp => CompletedWereExecuted

(* "sendingMsgQueue should always contain (at front) the last command sent   *)
(* without reply" (ezsp-dongle.cpp:437): when no thread is inside the dongle *)
(* and a response is awaited, it is that of the front of the queue.          *)
AwaitedIsFront ==
  wait_rsp /\ (\A t \in Threads : pc[t] = "idle") =>
    sendingMsgQueue # <<>> /\ Head(sendingMsgQueue) = written[Len(written)].msg

(* "we allow a reading handler to also write" (ash-driver.h:194): a reader   *)
(* that has something to send gets to send it.                               *)
ReaderCanWrite == pc[Reader] = "lock" ~> pc[Reader] = "sent"

=============================================================================

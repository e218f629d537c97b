------------------------- MODULE DongleThreadsProofs -------------------------
(***************************************************************************)
(* The build with C++11 threads: DongleThreads for any number of user      *)
(* threads, of frame IDs and of calls of sendCommand(), and any modulus of *)
(* the frame numbers; and CppThreadsTimer, on its own, for any number of   *)
(* calls of start().                                                       *)
(***************************************************************************)
EXTENDS DongleThreads, CppThreadsTimer, TLAPS

LEMMA FrmFacts ==
  0 \in 0 .. FrmMod - 1 /\ \A n \in 0 .. FrmMod - 1 : SuccFrm(n) \in 0 .. FrmMod - 1
BY ThreadsAssumption DEF SuccFrm

LEMMA ThreadFacts ==
  Reader \in Threads /\ NoThread \notin Threads /\ Users \subseteq Threads
BY ThreadsAssumption DEF Threads

(* Every step keeps the types, given what QueueInv says of the queue.        *)
LEMMA PushKeepsType ==
  ASSUME TypeOK, NEW t \in Threads, NEW c \in Commands, NEW from, NEW return,
         return \in {"idle", "notify", "done"}, Push(t, c, from, return)
  PROVE  TypeOK'
<1> DEFINE m == [tag |-> Len(accepted) + 1, cmd |-> c]
<1>1. m \in Msgs
  BY DEF TypeOK, Msgs
<1>2. sendingMsgQueue' = Append(sendingMsgQueue, m)
  BY DEF Push
<1> HIDE DEF m
<1>3. sendingMsgQueue' \in Seq(Msgs)
  BY <1>1, <1>2 DEF TypeOK
<1> QED BY <1>3 DEF Push, Goto, TypeOK, Steps

LEMMA SendNextMsgKeepsType ==
  ASSUME TypeOK, QueueInv, NEW t \in Threads, SendNextMsg(t)
  PROVE  TypeOK'
<1> USE DEF Goto
<1>1. ret[t] \in Steps
  BY DEF TypeOK, Steps
<1>2. CASE ChecksWait(t)
  BY <1>1, <1>2 DEF ChecksWait, TypeOK, Steps
<1>3. CASE ChecksQueue(t)
  BY <1>1, <1>3 DEF ChecksQueue, TypeOK, Steps
<1>4. CASE TakesFront(t)
  <2>1. Fronts \subseteq Msgs
    <3>1. sendingMsgQueue # <<>> => Head(sendingMsgQueue) \in Msgs
      BY DEF TypeOK
    <3>2. [tag : {0}, cmd : Commands] \subseteq Msgs
      BY DEF Msgs
    <3> QED BY <3>1, <3>2 DEF Fronts
  <2>2. PICK m \in Msgs : l_msg' = [l_msg EXCEPT ![t] = <<m>>]
    BY <1>4, <2>1 DEF TakesFront
  <2>3. l_msg' \in [Threads -> Seq(Msgs)]
    BY <2>2 DEF TypeOK
  <2>4. pc' \in [Threads -> Steps]
    BY <1>4 DEF TakesFront, TypeOK, Steps
  <2> QED BY <1>4, <2>3, <2>4 DEF TakesFront, TypeOK
<1>5. CASE Forges(t)
  <2>1. SuccFrm(frmNum) \in 0 .. FrmMod - 1
    BY FrmFacts DEF TypeOK
  <2>2. pc' \in [Threads -> Steps]
    BY <1>5 DEF Forges, TypeOK, Steps
  <2> QED BY <1>5, <2>1, <2>2 DEF Forges, TypeOK
<1>6. CASE Writes(t)
  <2>1. Head(l_msg[t]) \in Msgs /\ frame[t] \in 0 .. FrmMod - 1
    BY <1>6 DEF Writes, QueueInv, TypeOK
  <2>2. [frm |-> frame[t], msg |-> Head(l_msg[t])] \in Frames
    BY <2>1 DEF Frames
  <2>3. written' \in Seq(Frames)
    BY <1>6, <2>2 DEF Writes, TypeOK
  <2>4. pc' \in [Threads -> Steps]
    BY <1>6 DEF Writes, TypeOK, Steps
  <2> QED BY <1>6, <2>3, <2>4 DEF Writes, TypeOK
<1>7. CASE MarksSent(t)
  BY <1>1, <1>7 DEF MarksSent, TypeOK
<1> QED BY <1>2, <1>3, <1>4, <1>5, <1>6, <1>7 DEF SendNextMsg

LEMMA HandlerKeepsType ==
  ASSUME TypeOK, QueueInv, Handler
  PROVE  TypeOK'
<1> USE ThreadFacts DEF Goto
<1>1. CASE Reads
  BY <1>1 DEF Reads, TypeOK, Steps
<1>2. CASE Handles
  BY <1>2 DEF Handles, TypeOK, Steps
<1>3. CASE Pops
  <2>1. Tail(sendingMsgQueue) \in Seq(Msgs)
    BY <1>3 DEF Pops, QueueInv, TypeOK
  <2> QED BY <1>3, <2>1 DEF Pops, TypeOK, Steps
<1>4. CASE Clears
  BY <1>4 DEF Clears, TypeOK, Steps
<1>5. CASE ObserverSends
  BY <1>5, PushKeepsType DEF ObserverSends
<1>6. CASE Finishes
  BY <1>6 DEF Finishes, TypeOK, Steps
<1> QED BY <1>1, <1>2, <1>3, <1>4, <1>5, <1>6 DEF Handler

LEMMA ExecutesKeepsType ==
  ASSUME TypeOK, Executes
  PROVE  TypeOK'
BY DEF Executes, TypeOK, threadVars

-----------------------------------------------------------------------------
(* Only the reader takes commands out of the queue, so what it saw there it  *)
(* still finds when it has the mutex.                                        *)
LEMMA QueueKept ==
  ASSUME TypeOK, QueueInv, Next
  PROVE  QueueInv'
<1> USE ThreadFacts DEF Goto
<1>1. ASSUME NEW t \in Threads, NEW c \in Commands, NEW from \in {"idle", "notify"},
             NEW return, Push(t, c, from, return)
      PROVE  QueueInv'
  <2>1. /\ \E m : sendingMsgQueue' = Append(sendingMsgQueue, m)
        /\ pc' = [pc EXCEPT ![t] = "checkWait"]
        /\ UNCHANGED l_msg
    BY <1>1 DEF Push
  <2> QED BY <2>1 DEF QueueInv, TypeOK
<1>2. ASSUME NEW t \in Threads, SendNextMsg(t)
      PROVE  QueueInv'
  <2>1. UNCHANGED sendingMsgQueue
    BY <1>2 DEF SendNextMsg, ChecksWait, ChecksQueue, TakesFront, Forges, Writes, MarksSent
  <2>2. (\E to : pc' = [pc EXCEPT ![t] = to]) /\ pc'[t] # "pop"
    BY <1>2
    DEF SendNextMsg, ChecksWait, ChecksQueue, TakesFront, Forges, Writes, MarksSent, TypeOK
  <2>3. /\ \A u \in Threads \ {t} : l_msg'[u] = l_msg[u]
        /\ pc'[t] \in {"lock", "write"} => l_msg'[t] # <<>>
    <3>1. CASE TakesFront(t)
      BY <3>1 DEF TakesFront, TypeOK
    <3>2. CASE ~TakesFront(t)
      BY <1>2, <3>2
      DEF SendNextMsg, ChecksWait, ChecksQueue, Forges, Writes, MarksSent, TypeOK, QueueInv
    <3> QED BY <3>1, <3>2
  <2> QED BY <2>1, <2>2, <2>3 DEF QueueInv, TypeOK
<1>3. CASE \E t \in Users : UserSends(t)
  BY <1>1, <1>3 DEF UserSends
<1>4. CASE Handler
  <2>1. CASE Reads
    BY <2>1 DEF Reads, QueueInv, TypeOK
  <2>2. CASE Handles
    BY <2>2 DEF Handles, QueueInv, TypeOK
  <2>3. CASE Pops
    BY <2>3 DEF Pops, QueueInv, TypeOK
  <2>4. CASE Clears
    BY <2>4 DEF Clears, QueueInv, TypeOK
  <2>5. CASE ObserverSends
    BY <1>1, <2>5 DEF ObserverSends
  <2>6. CASE Finishes
    BY <2>6 DEF Finishes, QueueInv, TypeOK
  <2> QED BY <1>4, <2>1, <2>2, <2>3, <2>4, <2>5, <2>6 DEF Handler
<1>5. CASE Executes
  BY <1>5 DEF Executes, QueueInv, threadVars
<1> QED BY <1>2, <1>3, <1>4, <1>5 DEF Next

LEMMA TypeAndQueue == Spec => [](TypeOK /\ QueueInv)
<1>1. Init => TypeOK /\ QueueInv
  <2> SUFFICES ASSUME Init PROVE TypeOK /\ QueueInv
    OBVIOUS
  <2>1. TypeOK
    <3>1. /\ pc \in [Threads -> Steps] /\ ret \in [Threads -> {"idle", "notify", "done"}]
          /\ l_msg \in [Threads -> Seq(Msgs)] /\ frame \in [Threads -> 0 .. FrmMod - 1]
      BY FrmFacts DEF Init, Steps
    <3>2. /\ sendingMsgQueue \in Seq(Msgs) /\ accepted \in Seq(Commands)
          /\ written \in Seq(Frames) /\ received \in Nat
      BY DEF Init
    <3>3. /\ wait_rsp \in BOOLEAN /\ taken \in Nat /\ frmNum \in 0 .. FrmMod - 1
          /\ ezspWriteMutex \in Threads \cup {NoThread} /\ serialRWMutex \in {Reader, NoThread}
      BY FrmFacts DEF Init
    <3> QED BY <3>1, <3>2, <3>3 DEF TypeOK
  <2>2. QueueInv
    BY ThreadFacts DEF Init, QueueInv
  <2> QED BY <2>1, <2>2
<1>2. TypeOK /\ QueueInv /\ [Next]_vars => (TypeOK /\ QueueInv)'
  <2> SUFFICES ASSUME TypeOK, QueueInv, [Next]_vars PROVE TypeOK' /\ QueueInv'
    OBVIOUS
  <2>1. CASE UNCHANGED vars
    BY <2>1 DEF vars, threadVars, TypeOK, QueueInv
  <2>2. CASE Next
    <3>1. ASSUME \E t \in Users : UserSends(t) PROVE TypeOK'
      <4>1. PICK t \in Users : UserSends(t)
        BY <3>1
      <4>2. PICK c \in Commands : Push(t, c, "idle", "idle")
        BY <4>1 DEF UserSends
      <4>3. t \in Threads
        BY ThreadFacts
      <4> QED BY <4>2, <4>3, PushKeepsType
    <3> QED BY <2>2, <3>1, SendNextMsgKeepsType, HandlerKeepsType, ExecutesKeepsType, QueueKept
        DEF Next
  <2> QED BY <2>1, <2>2
<1> QED BY <1>1, <1>2, PTL DEF Spec

(* Every variable keeps its type; in particular a thread that is about to    *)
(* send has a command to send.                                               *)
THEOREM ThreadsTypeCorrect == Spec => []TypeOK
BY TypeAndQueue, PTL

-----------------------------------------------------------------------------
(* Between forging a frame and marking it sent a thread owns ezspWriteMutex, *)
(* so the steps of other threads leave frmNum and the line alone.            *)

LEMMA OneWriter ==
  ASSUME TypeOK, SequenceInv, NEW t \in Threads, pc[t] \in {"write", "sent"},
         NEW u \in Threads, pc[u] \in {"write", "sent"}
  PROVE  t = u
BY DEF SequenceInv

(* A step that moves one thread between other places than "write" and        *)
(* "sent" disturbs nothing.                                                  *)
LEMMA Elsewhere ==
  ASSUME TypeOK, SequenceInv, NEW t \in Threads, NEW to,
         pc[t] \notin {"write", "sent"}, to \notin {"write", "sent"},
         pc' = [pc EXCEPT ![t] = to],
         UNCHANGED <<ezspWriteMutex, frame, frmNum, written>>
  PROVE  SequenceInv'
<1>1. \A u \in Threads : /\ pc'[u] = "write" <=> pc[u] = "write"
                         /\ pc'[u] = "sent" <=> pc[u] = "sent"
  BY DEF TypeOK
<1>2. NextOnLine' = NextOnLine /\ (FramesInSequence' <=> FramesInSequence)
  BY DEF NextOnLine, FramesInSequence
<1>3. SuccFrm(frame[t])' = SuccFrm(frame[t])
  BY DEF SuccFrm
<1> QED BY <1>1, <1>2 DEF SequenceInv

LEMMA SendNextMsgKeepsSequence ==
  ASSUME TypeOK, TypeOK', SequenceInv, NEW t \in Threads, SendNextMsg(t)
  PROVE  SequenceInv'
<1> USE DEF Goto
<1>1. ret[t] \notin {"write", "sent"}
  BY DEF TypeOK
<1>2. CASE ChecksWait(t) \/ ChecksQueue(t) \/ TakesFront(t)
  <2>1. PICK to : to \notin {"write", "sent"} /\ pc' = [pc EXCEPT ![t] = to]
    BY <1>1, <1>2 DEF ChecksWait, ChecksQueue, TakesFront
  <2>2. /\ pc[t] \notin {"write", "sent"}
        /\ UNCHANGED <<ezspWriteMutex, frame, frmNum, written>>
    BY <1>2 DEF ChecksWait, ChecksQueue, TakesFront
  <2> QED BY <2>1, <2>2, Elsewhere
<1>3. CASE Forges(t)
  <2>1. /\ pc[t] = "lock" /\ pc' = [pc EXCEPT ![t] = "write"]
        /\ ezspWriteMutex = NoThread /\ ezspWriteMutex' = t
        /\ frame' = [frame EXCEPT ![t] = frmNum] /\ frmNum' = SuccFrm(frmNum)
        /\ UNCHANGED written
    BY <1>3 DEF Forges
  <2>2. \A u \in Threads : pc[u] \notin {"write", "sent"}
    BY <2>1, ThreadFacts DEF SequenceInv
  <2>3. pc'[t] = "write" /\ frame'[t] = frmNum
        /\ \A u \in Threads \ {t} : pc'[u] = pc[u]
    BY <2>1 DEF TypeOK
  <2>4. frmNum = NextOnLine
    BY <2>2 DEF SequenceInv
  <2>5. NextOnLine' = NextOnLine /\ FramesInSequence'
    BY <2>1 DEF NextOnLine, FramesInSequence, SequenceInv
  <2>6. \A u \in Threads : pc'[u] \in {"write", "sent"} <=> ezspWriteMutex' = u
    BY <2>1, <2>2, <2>3
  <2>7. \A u \in Threads : pc'[u] = "write" =>
          frame'[u] = NextOnLine' /\ frmNum' = SuccFrm(frame'[u])
    BY <2>1, <2>2, <2>3, <2>4, <2>5
  <2> QED BY <2>3, <2>5, <2>6, <2>7 DEF SequenceInv
<1>4. CASE Writes(t)
  <2> DEFINE f == [frm |-> frame[t], msg |-> Head(l_msg[t])]
  <2>1. /\ pc[t] = "write" /\ pc' = [pc EXCEPT ![t] = "sent"]
        /\ written' = Append(written, f)
        /\ UNCHANGED <<ezspWriteMutex, frame, frmNum>>
    BY <1>4 DEF Writes
  <2>2. frame[t] = NextOnLine /\ frmNum = SuccFrm(frame[t])
    BY <2>1 DEF SequenceInv
  <2>3. pc'[t] = "sent" /\ \A u \in Threads \ {t} : pc'[u] = pc[u] /\ pc'[u] # "write"
    <3>1. \A u \in Threads \ {t} : pc[u] # "write"
      BY <2>1, OneWriter
    <3> QED BY <2>1, <3>1 DEF TypeOK
  <2>4. /\ written \in Seq(Frames) /\ Len(written') = Len(written) + 1
        /\ written'[Len(written) + 1] = f
        /\ \A i \in 1 .. Len(written) : written'[i] = written[i]
    BY <2>1 DEF TypeOK
  <2>5. f.frm = frame[t]
    OBVIOUS
  <2>6. NextOnLine' = SuccFrm(frame[t])
    <3>1. written' # <<>>
      BY <2>4
    <3> QED BY <2>4, <2>5, <3>1 DEF NextOnLine, SuccFrm
  <2>7. FramesInSequence'
    <3> SUFFICES ASSUME NEW i \in 1 .. Len(written')
                 PROVE  written'[i].frm = IF i = 1 THEN 0 ELSE SuccFrm(written'[i - 1].frm)
      BY DEF FramesInSequence, SuccFrm
    <3>1. CASE i \in 1 .. Len(written)
      <4>1. written[i].frm = IF i = 1 THEN 0 ELSE SuccFrm(written[i - 1].frm)
        BY <3>1 DEF SequenceInv, FramesInSequence
      <4>2. i # 1 => i - 1 \in 1 .. Len(written)
        BY <2>4, <3>1
      <4> QED BY <2>4, <3>1, <4>1, <4>2
    <3>2. CASE i = Len(written) + 1
      <4>1. written'[i].frm = NextOnLine
        BY <2>2, <2>4, <2>5, <3>2
      <4>2. CASE written = <<>>
        BY <3>2, <4>1, <4>2 DEF NextOnLine
      <4>3. CASE written # <<>>
        <5>1. Len(written) \in 1 .. Len(written) /\ i - 1 = Len(written) /\ i # 1
          BY <2>4, <3>2, <4>3
        <5> QED BY <2>4, <4>1, <4>3, <5>1 DEF NextOnLine
      <4> QED BY <4>2, <4>3
    <3> QED BY <2>4, <3>1, <3>2
  <2>8. \A u \in Threads : pc'[u] \in {"write", "sent"} <=> ezspWriteMutex' = u
    BY <2>1, <2>3 DEF SequenceInv
  <2> QED BY <2>1, <2>2, <2>3, <2>6, <2>7, <2>8 DEF SequenceInv
<1>5. CASE MarksSent(t)
  <2>1. /\ pc[t] = "sent" /\ pc' = [pc EXCEPT ![t] = ret[t]]
        /\ ezspWriteMutex' = NoThread
        /\ UNCHANGED <<frame, frmNum, written>>
    BY <1>5 DEF MarksSent
  <2>2. \A u \in Threads : pc'[u] \notin {"write", "sent"}
    <3>1. \A u \in Threads \ {t} : pc[u] \notin {"write", "sent"}
      BY <2>1, OneWriter
    <3> QED BY <1>1, <2>1, <3>1 DEF TypeOK
  <2>3. \A u \in Threads : pc[u] # "write"
    BY <2>1, OneWriter
  <2>4. frmNum = NextOnLine
    BY <2>3 DEF SequenceInv
  <2>5. NextOnLine' = NextOnLine /\ FramesInSequence'
    BY <2>1 DEF NextOnLine, FramesInSequence, SequenceInv
  <2> QED BY <2>1, <2>2, <2>4, <2>5, ThreadFacts DEF SequenceInv
<1> QED BY <1>2, <1>3, <1>4, <1>5 DEF SendNextMsg

LEMMA OthersKeepSequence ==
  ASSUME TypeOK, SequenceInv, Handler \/ Executes \/ \E t \in Users : UserSends(t)
  PROVE  SequenceInv'
<1> USE ThreadFacts DEF Goto
<1>1. ASSUME NEW t \in Threads, NEW c, NEW from \in {"idle", "notify"}, NEW return,
             Push(t, c, from, return)
      PROVE  SequenceInv'
  BY <1>1, Elsewhere DEF Push
<1>2. CASE \E t \in Users : UserSends(t)
  <2>1. PICK t \in Users : UserSends(t)
    BY <1>2
  <2>2. PICK c \in Commands : Push(t, c, "idle", "idle")
    BY <2>1 DEF UserSends
  <2> QED BY <1>1, <2>2
<1>3. CASE ObserverSends
  BY <1>1, <1>3 DEF ObserverSends
<1>4. CASE Reads \/ Handles \/ Pops \/ Clears \/ Finishes
  <2>1. /\ \E to : to \notin {"write", "sent"} /\ pc' = [pc EXCEPT ![Reader] = to]
        /\ pc[Reader] \notin {"write", "sent"}
    BY <1>4 DEF Reads, Handles, Pops, Clears, Finishes
  <2>2. UNCHANGED <<ezspWriteMutex, frame, frmNum, written>>
    BY <1>4 DEF Reads, Handles, Pops, Clears, Finishes
  <2> QED BY <2>1, <2>2, Elsewhere
<1>5. CASE Executes
  BY <1>5 DEF Executes, SequenceInv, NextOnLine, FramesInSequence, SuccFrm, threadVars
<1> QED BY <1>2, <1>3, <1>4, <1>5 DEF Handler

(* DATA frames reach the line in the order of their numbers, whichever       *)
(* threads forged them and however many there are.                           *)
THEOREM FramesOrdered == Spec => []FramesInSequence
<1>1. Init => SequenceInv
  <2> SUFFICES ASSUME Init PROVE SequenceInv
    OBVIOUS
  <2>1. \A t \in Threads : pc[t] = "idle" /\ ezspWriteMutex # t
    BY ThreadFacts DEF Init
  <2>2. frmNum = NextOnLine /\ FramesInSequence
    BY DEF Init, NextOnLine, FramesInSequence
  <2> QED BY <2>1, <2>2 DEF SequenceInv
<1>2. TypeOK /\ TypeOK' /\ SequenceInv /\ [Next]_vars => SequenceInv'
  <2> SUFFICES ASSUME TypeOK, TypeOK', SequenceInv, [Next]_vars PROVE SequenceInv'
    OBVIOUS
  <2>1. CASE UNCHANGED vars
    BY <2>1 DEF vars, threadVars, SequenceInv, NextOnLine, FramesInSequence, SuccFrm
  <2>2. CASE Next
    BY <2>2, SendNextMsgKeepsSequence, OthersKeepSequence DEF Next
  <2> QED BY <2>1, <2>2
<1>3. SequenceInv => FramesInSequence
  BY DEF SequenceInv
<1> QED BY <1>1, <1>2, <1>3, ThreadsTypeCorrect, PTL DEF Spec

-----------------------------------------------------------------------------
(* The tags: a thread holds, and the line carries, commands that are not     *)
(* behind the front of the queue, and where no answer is mixed up every      *)
(* command that left the queue is in a frame whose answer was handled.       *)

(* The answers that handleResponse() is done with.                           *)
Handled == IF pc[Reader] \in {"handle", "pop"} THEN received - 1 ELSE received

Sent(n, j) == \E k \in 1 .. n : written[k].msg.tag = j

QueueIsTheRest ==
  /\ Gone \in Nat
  /\ \A i \in 1 .. Len(sendingMsgQueue) :
       sendingMsgQueue[i] = [tag |-> Gone + i, cmd |-> accepted[Gone + i]]

AnswersInOrder ==
  /\ received <= taken /\ taken <= Len(written)
  /\ pc[Reader] \in {"handle", "pop"} => received > 0

(* Accepted, and not behind the front.                                       *)
Known(m) == m.tag <= Gone + 1 /\ m.tag <= Len(accepted)

WrittenKnown == \A i \in 1 .. Len(written) : Known(written[i].msg)
HeldKnown == \A t \in Threads : pc[t] \in {"lock", "write"} => Known(Head(l_msg[t]))

PoppedAnswered == \A j \in 1 .. Gone : Sent(Handled, j)

WrittenInOrder ==
  \A i \in 1 .. Len(written) : \A j \in 1 .. written[i].msg.tag - 1 : Sent(i - 1, j)

HeldInOrder ==
  \A t \in Threads : pc[t] \in {"lock", "write"} =>
    \A j \in 1 .. Head(l_msg[t]).tag - 1 : Sent(Len(written), j)

OrderInv ==
  /\ QueueIsTheRest /\ AnswersInOrder /\ WrittenKnown /\ HeldKnown
  /\ NoMixUp => PoppedAnswered /\ WrittenInOrder /\ HeldInOrder

LEMMA HandledFacts ==
  ASSUME TypeOK, AnswersInOrder
  PROVE  /\ Handled \in Nat /\ received \in Nat /\ taken \in Nat /\ Len(written) \in Nat
         /\ Handled <= received /\ received <= taken /\ taken <= Len(written)
BY DEF TypeOK, AnswersInOrder, Handled

LEMMA MsgFacts ==
  ASSUME TypeOK, QueueInv
  PROVE  /\ \A i \in 1 .. Len(written) :
              written[i].msg \in Msgs /\ written[i].msg.tag \in Nat
         /\ \A t \in Threads : pc[t] \in {"lock", "write"} =>
              Head(l_msg[t]) \in Msgs /\ Head(l_msg[t]).tag \in Nat
<1>1. \A m \in Msgs : m.tag \in Nat
  BY DEF Msgs
<1>2. \A f \in Frames : f.msg \in Msgs
  BY DEF Frames
<1>3. \A i \in 1 .. Len(written) : written[i] \in Frames
  BY DEF TypeOK
<1>4. ASSUME NEW t \in Threads, pc[t] \in {"lock", "write"} PROVE Head(l_msg[t]) \in Msgs
  <2>1. l_msg[t] \in Seq(Msgs) /\ l_msg[t] # <<>>
    BY <1>4 DEF TypeOK, QueueInv
  <2> QED BY <2>1
<1> QED BY <1>1, <1>2, <1>3, <1>4

(* More calls of sendCommand() and more frames can only mix answers up.      *)
LEMMA MixUpStays ==
  ASSUME Len(accepted) \in Nat, Len(accepted') \in Nat, Len(accepted') >= Len(accepted),
         \A j \in 1 .. Len(accepted) : accepted'[j] = accepted[j],
         Len(written) \in Nat, Len(written') \in Nat, Len(written') >= Len(written),
         \A i \in 1 .. Len(written) : written'[i] = written[i],
         NoMixUp'
  PROVE  NoMixUp
<1>1. ASSUME NEW i \in 1 .. Len(written), Surplus(i) PROVE Surplus(i)'
  <2>1. \A h \in 1 .. i - 1 : h \in 1 .. Len(written)
    OBVIOUS
  <2> QED BY <1>1, <2>1 DEF Surplus
<1>2. ASSUME NEW i \in 1 .. Len(written), NEW j \in 1 .. Len(accepted), Surplus(i),
             accepted[j] = written[i].msg.cmd
      PROVE  j = written[i].msg.tag
  <2>1. i \in 1 .. Len(written') /\ j \in 1 .. Len(accepted')
    OBVIOUS
  <2>2. written'[i] = written[i] /\ accepted'[j] = accepted[j] /\ Surplus(i)'
    BY <1>1, <1>2
  <2> QED BY <1>2, <2>1, <2>2 DEF NoMixUp
<1> QED BY <1>2 DEF NoMixUp

LEMMA PushKeepsOrder ==
  ASSUME TypeOK, QueueInv, OrderInv, NEW t \in Threads, NEW c \in Commands,
         NEW from \in {"idle", "notify"}, NEW return, Push(t, c, from, return)
  PROVE  OrderInv'
<1> DEFINE m == [tag |-> Len(accepted) + 1, cmd |-> c]
<1>1. /\ accepted' = Append(accepted, c) /\ sendingMsgQueue' = Append(sendingMsgQueue, m)
      /\ pc[t] = from /\ pc' = [pc EXCEPT ![t] = "checkWait"]
      /\ UNCHANGED <<l_msg, written, taken, received>>
  BY DEF Push, Goto
<1> HIDE DEF m
<1>2. /\ Len(accepted') = Len(accepted) + 1 /\ accepted'[Len(accepted) + 1] = c
      /\ \A j \in 1 .. Len(accepted) : accepted'[j] = accepted[j]
      /\ Len(accepted) \in Nat
  BY <1>1 DEF TypeOK
<1>3. /\ Len(sendingMsgQueue') = Len(sendingMsgQueue) + 1
      /\ sendingMsgQueue'[Len(sendingMsgQueue) + 1] = m
      /\ \A j \in 1 .. Len(sendingMsgQueue) : sendingMsgQueue'[j] = sendingMsgQueue[j]
      /\ Len(sendingMsgQueue) \in Nat
  BY <1>1 DEF TypeOK
<1>4. Gone' = Gone /\ Gone \in Nat /\ Gone + Len(sendingMsgQueue) = Len(accepted)
  BY <1>2, <1>3 DEF Gone, OrderInv, QueueIsTheRest
<1>5. QueueIsTheRest'
  <2>1. ASSUME NEW i \in 1 .. Len(sendingMsgQueue')
        PROVE  sendingMsgQueue'[i] = [tag |-> Gone + i, cmd |-> accepted'[Gone + i]]
    <3>1. CASE i \in 1 .. Len(sendingMsgQueue)
      <4>1. Gone + i \in 1 .. Len(accepted)
        BY <1>3, <1>4, <3>1
      <4>2. accepted'[Gone + i] = accepted[Gone + i] /\ sendingMsgQueue'[i] = sendingMsgQueue[i]
        BY <1>2, <1>3, <3>1, <4>1
      <4> QED BY <3>1, <4>2 DEF OrderInv, QueueIsTheRest
    <3>2. CASE i = Len(sendingMsgQueue) + 1
      <4>1. Gone + i = Len(accepted) + 1
        BY <1>2, <1>3, <1>4, <3>2
      <4> QED BY <1>2, <1>3, <3>2, <4>1 DEF m
    <3> QED BY <1>3, <3>1, <3>2
  <2> QED BY <1>4, <2>1 DEF QueueIsTheRest
<1>6. \A u \in Threads : pc'[u] \in {"lock", "write"} => pc[u] \in {"lock", "write"}
  BY <1>1 DEF TypeOK
<1>7. /\ Handled' = Handled
      /\ pc'[Reader] \in {"handle", "pop"} => pc[Reader] \in {"handle", "pop"}
  BY <1>1, ThreadFacts DEF TypeOK, Handled
<1>8. AnswersInOrder'
  BY <1>1, <1>7 DEF OrderInv, AnswersInOrder
<1>9. \A x \in Msgs : Known(x) => Known(x)'
  BY <1>2, <1>4 DEF Known, Msgs
<1>10. WrittenKnown' /\ HeldKnown'
  BY <1>1, <1>6, <1>9, MsgFacts DEF OrderInv, WrittenKnown, HeldKnown
<1>11. NoMixUp' => NoMixUp
  <2>1. Len(written) \in Nat
    BY DEF TypeOK
  <2> QED BY <1>1, <1>2, <2>1, MixUpStays
<1>12. \A n, j : Sent(n, j)' = Sent(n, j)
  BY <1>1 DEF Sent
<1>13. NoMixUp' => PoppedAnswered' /\ WrittenInOrder' /\ HeldInOrder'
  BY <1>1, <1>4, <1>6, <1>7, <1>11, <1>12
     DEF OrderInv, PoppedAnswered, WrittenInOrder, HeldInOrder
<1> QED BY <1>5, <1>8, <1>10, <1>13 DEF OrderInv

(* A step that leaves queue, line and commands alone, and handles no answer  *)
(* a second time, disturbs nothing.                                          *)
LEMMA GoingOnKeepsOrder ==
  ASSUME TypeOK, OrderInv, NEW t \in Threads, NEW to, pc' = [pc EXCEPT ![t] = to],
         to \in {"lock", "write"} => pc[t] \in {"lock", "write"},
         t = Reader /\ to \in {"handle", "pop"} => pc[t] \in {"handle", "pop"},
         UNCHANGED <<accepted, sendingMsgQueue, written, taken, received, l_msg>>
  PROVE  OrderInv'
<1>1. \A u \in Threads : pc'[u] \in {"lock", "write"} => pc[u] \in {"lock", "write"}
  BY DEF TypeOK
<1>2. pc'[Reader] \in {"handle", "pop"} => pc[Reader] \in {"handle", "pop"}
  BY ThreadFacts DEF TypeOK
<1>3. AnswersInOrder' /\ QueueIsTheRest'
  BY <1>2 DEF OrderInv, AnswersInOrder, QueueIsTheRest, Gone
<1>4. Handled' \in Nat /\ Handled \in Nat /\ Handled <= Handled'
  BY <1>2 DEF OrderInv, AnswersInOrder, Handled, TypeOK
<1>5. WrittenKnown' /\ HeldKnown'
  BY <1>1 DEF OrderInv, WrittenKnown, HeldKnown, Known, Gone
<1>6. NoMixUp' = NoMixUp
  BY DEF NoMixUp, Surplus
<1>7. \A n, j : Sent(n, j)' = Sent(n, j)
  BY DEF Sent
<1>8. \A j : Sent(Handled, j) => Sent(Handled', j)
  BY <1>4 DEF Sent
<1>9. NoMixUp => PoppedAnswered' /\ WrittenInOrder' /\ HeldInOrder'
  BY <1>1, <1>7, <1>8 DEF OrderInv, PoppedAnswered, WrittenInOrder, HeldInOrder, Gone
<1> QED BY <1>3, <1>5, <1>6, <1>9 DEF OrderInv

LEMMA TakesFrontKeepsOrder ==
  ASSUME TypeOK, OrderInv, NEW t \in Threads, TakesFront(t)
  PROVE  OrderInv'
<1>1. PICK m \in Fronts : l_msg' = [l_msg EXCEPT ![t] = <<m>>]
  BY DEF TakesFront
<1>2. /\ pc[t] = "front" /\ pc' = [pc EXCEPT ![t] = "lock"]
      /\ UNCHANGED <<accepted, sendingMsgQueue, written, taken, received>>
  BY DEF TakesFront, Goto
<1>3. Gone \in Nat /\ Len(accepted) \in Nat
  BY DEF OrderInv, QueueIsTheRest, TypeOK
<1>4. m.tag = 0 \/ (m.tag = Gone + 1 /\ Gone + 1 <= Len(accepted))
  <2>1. CASE sendingMsgQueue # <<>>
    <3>1. sendingMsgQueue \in Seq(Msgs)
      BY DEF TypeOK
    <3>2. 1 \in 1 .. Len(sendingMsgQueue) /\ m = sendingMsgQueue[1]
      BY <2>1, <3>1 DEF Fronts
    <3>3. m = [tag |-> Gone + 1, cmd |-> accepted[Gone + 1]]
      BY <3>2 DEF OrderInv, QueueIsTheRest
    <3> QED BY <1>3, <3>1, <3>2, <3>3 DEF Gone
  <2>2. CASE sendingMsgQueue = <<>>
    BY <2>2 DEF Fronts
  <2> QED BY <2>1, <2>2
<1>5. /\ Head(l_msg'[t]) = m /\ pc'[t] = "lock"
      /\ \A u \in Threads \ {t} : pc'[u] = pc[u] /\ l_msg'[u] = l_msg[u]
  BY <1>1, <1>2 DEF TypeOK
<1>6. /\ Handled' = Handled /\ AnswersInOrder' /\ QueueIsTheRest'
      /\ WrittenKnown' /\ NoMixUp' = NoMixUp
  <2>1. pc'[Reader] \in {"handle", "pop"} <=> pc[Reader] \in {"handle", "pop"}
    BY <1>2, ThreadFacts DEF TypeOK
  <2> QED BY <1>2, <2>1 DEF OrderInv, AnswersInOrder, QueueIsTheRest, Gone, Handled,
                          WrittenKnown, Known, NoMixUp, Surplus
<1>7. HeldKnown'
  <2>1. m.tag <= Gone + 1 /\ m.tag <= Len(accepted)
    BY <1>3, <1>4
  <2> QED BY <1>2, <1>5, <2>1 DEF OrderInv, HeldKnown, Known, Gone
<1>8. \A n, j : Sent(n, j)' = Sent(n, j)
  BY <1>2 DEF Sent
<1>9. ASSUME NoMixUp PROVE PoppedAnswered' /\ WrittenInOrder' /\ HeldInOrder'
  <2>1. \A j : Sent(Handled, j) => Sent(Len(written), j)
    BY HandledFacts DEF OrderInv, Sent
  <2>2. \A j \in 1 .. m.tag - 1 : Sent(Len(written), j)
    BY <1>3, <1>4, <1>9, <2>1 DEF OrderInv, PoppedAnswered
  <2>3. HeldInOrder'
    BY <1>2, <1>5, <1>8, <1>9, <2>2 DEF OrderInv, HeldInOrder
  <2> QED BY <1>2, <1>6, <1>8, <1>9, <2>3 DEF OrderInv, PoppedAnswered, WrittenInOrder, Gone
<1> QED BY <1>6, <1>7, <1>9 DEF OrderInv

LEMMA WritesKeepsOrder ==
  ASSUME TypeOK, OrderInv, NEW t \in Threads, Writes(t)
  PROVE  OrderInv'
<1> DEFINE m == Head(l_msg[t])
           f == [frm |-> frame[t], msg |-> m]
<1>1. /\ pc[t] = "write" /\ pc' = [pc EXCEPT ![t] = "sent"]
      /\ written' = Append(written, f)
      /\ UNCHANGED <<accepted, sendingMsgQueue, taken, received, l_msg>>
  BY DEF Writes, Goto
<1>2. f.msg = m
  OBVIOUS
<1>3. Known(m) /\ (NoMixUp => \A j \in 1 .. m.tag - 1 : Sent(Len(written), j))
  BY <1>1 DEF OrderInv, HeldKnown, HeldInOrder
<1> HIDE DEF f, m
<1>4. /\ Len(written') = Len(written) + 1 /\ written'[Len(written) + 1] = f
      /\ \A i \in 1 .. Len(written) : written'[i] = written[i]
  BY <1>1 DEF TypeOK
<1>5. /\ Len(written) \in Nat /\ taken <= Len(written) /\ taken \in Nat
      /\ Handled \in Nat /\ Handled <= Len(written)
  BY HandledFacts DEF OrderInv
<1>6. \A u \in Threads : pc'[u] \in {"lock", "write"} => pc[u] \in {"lock", "write"}
  BY <1>1 DEF TypeOK
<1>7. /\ Handled' = Handled
      /\ pc'[Reader] \in {"handle", "pop"} => pc[Reader] \in {"handle", "pop"}
  BY <1>1, ThreadFacts DEF TypeOK, Handled
<1>8. QueueIsTheRest' /\ AnswersInOrder'
  BY <1>1, <1>4, <1>5, <1>7 DEF OrderInv, QueueIsTheRest, AnswersInOrder, Gone
<1>9. HeldKnown'
  BY <1>1, <1>6 DEF OrderInv, HeldKnown, Known, Gone
<1>10. WrittenKnown'
  <2>1. \A i \in 1 .. Len(written) + 1 : Known(written'[i].msg)
    <3> SUFFICES ASSUME NEW i \in 1 .. Len(written) + 1 PROVE Known(written'[i].msg)
      OBVIOUS
    <3>1. CASE i \in 1 .. Len(written)
      BY <1>4, <3>1 DEF OrderInv, WrittenKnown
    <3>2. CASE i = Len(written) + 1
      BY <1>2, <1>3, <1>4, <3>2
    <3> QED BY <1>5, <3>1, <3>2
  <2> QED BY <1>1, <1>4, <2>1 DEF WrittenKnown, Known, Gone
<1>11. NoMixUp' => NoMixUp
  <2>1. Len(accepted) \in Nat
    BY DEF TypeOK
  <2> QED BY <1>1, <1>4, <1>5, <2>1, MixUpStays
<1>12. \A n \in 0 .. Len(written) : \A j : Sent(n, j) => Sent(n, j)'
  BY <1>4, <1>5 DEF Sent
<1>13. ASSUME NoMixUp' PROVE PoppedAnswered' /\ WrittenInOrder' /\ HeldInOrder'
  <2>1. NoMixUp
    BY <1>11, <1>13
  <2>2. PoppedAnswered'
    BY <1>1, <1>5, <1>7, <1>12, <2>1 DEF OrderInv, PoppedAnswered, Gone
  <2>3. WrittenInOrder'
    <3> SUFFICES ASSUME NEW i \in 1 .. Len(written) + 1, NEW j \in 1 .. written'[i].msg.tag - 1
                 PROVE  Sent(i - 1, j)'
      BY <1>4 DEF WrittenInOrder
    <3>1. CASE i \in 1 .. Len(written)
      <4>1. Sent(i - 1, j)
        BY <1>4, <2>1, <3>1 DEF OrderInv, WrittenInOrder
      <4>2. i - 1 \in 0 .. Len(written)
        BY <1>5, <3>1
      <4> QED BY <1>12, <4>1, <4>2
    <3>2. CASE i = Len(written) + 1
      <4>1. Sent(Len(written), j)
        BY <1>2, <1>3, <1>4, <2>1, <3>2
      <4>2. i - 1 = Len(written) /\ i - 1 \in 0 .. Len(written)
        BY <1>5, <3>2
      <4> QED BY <1>12, <4>1, <4>2
    <3> QED BY <1>5, <3>1, <3>2
  <2>4. HeldInOrder'
    <3>1. \A k \in 1 .. Len(written) : k \in 1 .. Len(written')
      BY <1>4, <1>5
    <3>2. ASSUME NEW u \in Threads, pc'[u] \in {"lock", "write"},
                 NEW j \in 1 .. Head(l_msg[u]).tag - 1
          PROVE  \E k \in 1 .. Len(written') : written'[k].msg.tag = j
      <4>1. \E k \in 1 .. Len(written) : written[k].msg.tag = j
        BY <1>6, <2>1, <3>2 DEF OrderInv, HeldInOrder, Sent
      <4> QED BY <1>4, <3>1, <4>1
    <3> QED BY <1>1, <3>2 DEF HeldInOrder, Sent
  <2> QED BY <2>2, <2>3, <2>4
<1> QED BY <1>8, <1>9, <1>10, <1>13 DEF OrderInv

LEMMA SendNextMsgKeepsOrder ==
  ASSUME TypeOK, OrderInv, NEW t \in Threads, SendNextMsg(t)
  PROVE  OrderInv'
<1>1. ret[t] \notin {"lock", "write", "handle", "pop"}
  BY DEF TypeOK
<1>2. CASE ChecksWait(t) \/ ChecksQueue(t) \/ Forges(t) \/ MarksSent(t)
  <2>1. PICK to : /\ pc' = [pc EXCEPT ![t] = to] /\ to \notin {"handle", "pop"}
                  /\ to \in {"lock", "write"} => pc[t] \in {"lock", "write"}
    BY <1>1, <1>2 DEF ChecksWait, ChecksQueue, Forges, MarksSent, Goto
  <2>2. UNCHANGED <<accepted, sendingMsgQueue, written, taken, received, l_msg>>
    BY <1>2 DEF ChecksWait, ChecksQueue, Forges, MarksSent
  <2> QED BY <2>1, <2>2, GoingOnKeepsOrder
<1> QED BY <1>2, TakesFrontKeepsOrder, WritesKeepsOrder DEF SendNextMsg

LEMMA ReadsKeepsOrder ==
  ASSUME TypeOK, OrderInv, Reads
  PROVE  OrderInv'
<1>1. /\ received < taken /\ received' = received + 1
      /\ pc[Reader] = "idle" /\ pc' = [pc EXCEPT ![Reader] = "handle"]
      /\ UNCHANGED <<accepted, sendingMsgQueue, written, taken, l_msg>>
  BY DEF Reads, Goto
<1>2. \A u \in Threads : pc'[u] \in {"lock", "write"} => pc[u] \in {"lock", "write"}
  BY <1>1 DEF TypeOK
<1>3. Handled' = Handled /\ AnswersInOrder'
  <2>1. pc'[Reader] = "handle" /\ received \in Nat /\ taken \in Nat
    BY <1>1, ThreadFacts DEF TypeOK
  <2> QED BY <1>1, <2>1 DEF OrderInv, AnswersInOrder, Handled
<1>4. /\ QueueIsTheRest' /\ WrittenKnown' /\ HeldKnown' /\ NoMixUp' = NoMixUp
  BY <1>1, <1>2
     DEF OrderInv, QueueIsTheRest, Gone, WrittenKnown, HeldKnown, Known, NoMixUp, Surplus
<1>5. \A n, j : Sent(n, j)' = Sent(n, j)
  BY <1>1 DEF Sent
<1>6. NoMixUp => PoppedAnswered' /\ WrittenInOrder' /\ HeldInOrder'
  BY <1>1, <1>2, <1>3, <1>5 DEF OrderInv, PoppedAnswered, WrittenInOrder, HeldInOrder, Gone
<1> QED BY <1>3, <1>4, <1>6 DEF OrderInv

(* An answer with the frame ID of the front is the first one to the front,   *)
(* or it is a surplus answer to another command of the same ID.              *)
LEMMA PopsKeepsOrder ==
  ASSUME TypeOK, QueueInv, OrderInv, Pops
  PROVE  OrderInv'
<1>1. CASE Head(sendingMsgQueue).cmd # l_cmd
  <2>1. /\ pc' = [pc EXCEPT ![Reader] = "notify"]
        /\ UNCHANGED <<accepted, sendingMsgQueue, written, taken, received, l_msg>>
    BY <1>1 DEF Pops, Goto
  <2> QED BY <2>1, ThreadFacts, GoingOnKeepsOrder
<1>2. CASE Head(sendingMsgQueue).cmd = l_cmd
  <2>1. /\ sendingMsgQueue' = Tail(sendingMsgQueue) /\ pc[Reader] = "pop"
        /\ pc' = [pc EXCEPT ![Reader] = "clear"]
        /\ UNCHANGED <<accepted, written, taken, received, l_msg>>
    BY <1>2 DEF Pops, Goto
  <2>2. /\ Len(sendingMsgQueue) \in Nat \ {0} /\ Len(sendingMsgQueue') = Len(sendingMsgQueue) - 1
        /\ Head(sendingMsgQueue) = sendingMsgQueue[1]
        /\ \A i \in 1 .. Len(sendingMsgQueue') : sendingMsgQueue'[i] = sendingMsgQueue[i + 1]
        /\ Len(accepted) \in Nat
    <3>1. sendingMsgQueue \in Seq(Msgs) /\ sendingMsgQueue # <<>> /\ accepted \in Seq(Commands)
      BY <2>1 DEF TypeOK, QueueInv
    <3> QED BY <2>1, <3>1
  <2>3. Gone' = Gone + 1 /\ Gone \in Nat /\ Gone + 1 <= Len(accepted)
    BY <2>1, <2>2 DEF Gone, OrderInv, QueueIsTheRest
  <2>4. QueueIsTheRest'
    <3>1. \A i \in 1 .. Len(sendingMsgQueue') :
            sendingMsgQueue'[i] = [tag |-> Gone' + i, cmd |-> accepted'[Gone' + i]]
      <4> SUFFICES ASSUME NEW i \in 1 .. Len(sendingMsgQueue')
                   PROVE  sendingMsgQueue'[i]
                            = [tag |-> Gone' + i, cmd |-> accepted'[Gone' + i]]
        OBVIOUS
      <4>1. i + 1 \in 1 .. Len(sendingMsgQueue) /\ Gone' + i = Gone + (i + 1)
        BY <2>2, <2>3
      <4>2. sendingMsgQueue[i + 1] = [tag |-> Gone + (i + 1), cmd |-> accepted[Gone + (i + 1)]]
        BY <4>1 DEF OrderInv, QueueIsTheRest
      <4> QED BY <2>1, <2>2, <4>1, <4>2
    <3> QED BY <2>3, <3>1 DEF QueueIsTheRest
  <2>5. Handled = received - 1 /\ Handled' = received /\ received \in Nat \ {0}
        /\ received <= Len(written)
    <3>1. pc'[Reader] = "clear" /\ received \in Nat /\ received > 0
      BY <2>1, ThreadFacts DEF TypeOK, OrderInv, AnswersInOrder
    <3> QED BY <2>1, <3>1, HandledFacts DEF Handled, OrderInv
  <2>6. AnswersInOrder'
    BY <2>1, ThreadFacts DEF TypeOK, OrderInv, AnswersInOrder
  <2>7. WrittenKnown' /\ HeldKnown'
    <3>1. \A u \in Threads : pc'[u] \in {"lock", "write"} => pc[u] \in {"lock", "write"}
      BY <2>1 DEF TypeOK
    <3>2. \A n \in Nat : n <= Gone + 1 => n <= Gone' + 1
      BY <2>3
    <3> QED BY <2>1, <3>1, <3>2, MsgFacts DEF OrderInv, WrittenKnown, HeldKnown, Known
  <2>8. NoMixUp' = NoMixUp /\ \A n, j : Sent(n, j)' = Sent(n, j)
    BY <2>1 DEF NoMixUp, Surplus, Sent
  <2>9. ASSUME NoMixUp PROVE PoppedAnswered' /\ WrittenInOrder' /\ HeldInOrder'
    <3> DEFINE i == written[received].msg.tag
    <3>1. i \in Nat /\ i <= Gone + 1 /\ received \in 1 .. Len(written)
      BY <2>5, MsgFacts DEF OrderInv, WrittenKnown, Known
    <3>2. Gone + 1 \in 1 .. Len(accepted) /\ accepted[Gone + 1] = written[received].msg.cmd
      <4>1. sendingMsgQueue[1] = [tag |-> Gone + 1, cmd |-> accepted[Gone + 1]]
        BY <2>2 DEF OrderInv, QueueIsTheRest
      <4> QED BY <1>2, <2>2, <2>3, <4>1 DEF l_cmd
    <3>3. Surplus(received) => i = Gone + 1
      BY <2>9, <3>1, <3>2 DEF NoMixUp
    <3>4. i \in 1 .. Gone => Surplus(received)
      <4>1. i \in 1 .. Gone => Sent(received - 1, i)
        BY <2>5, <2>9 DEF OrderInv, PoppedAnswered
      <4> QED BY <4>1 DEF Sent, Surplus
    <3>5. i = 0 => Surplus(received)
      BY DEF Surplus
    <3>6. i = Gone + 1
      BY <2>3, <3>1, <3>3, <3>4, <3>5
    <3>7. Sent(received, Gone + 1)
      BY <2>5, <3>6 DEF Sent
    <3>8. \A j : Sent(Handled, j) => Sent(received, j)
      BY <2>5 DEF Sent
    <3>9. PoppedAnswered'
      BY <2>3, <2>5, <2>8, <2>9, <3>7, <3>8 DEF OrderInv, PoppedAnswered
    <3>10. \A u \in Threads : pc'[u] \in {"lock", "write"} => pc[u] \in {"lock", "write"}
      BY <2>1 DEF TypeOK
    <3> QED BY <2>1, <2>8, <2>9, <3>9, <3>10 DEF OrderInv, WrittenInOrder, HeldInOrder
  <2> QED BY <2>4, <2>6, <2>7, <2>8, <2>9 DEF OrderInv
<1> QED BY <1>1, <1>2

LEMMA ExecutesKeepsOrder ==
  ASSUME TypeOK, OrderInv, Executes
  PROVE  OrderInv'
<1>1. /\ taken < Len(written) /\ taken' = taken + 1
      /\ UNCHANGED <<accepted, sendingMsgQueue, written, received, l_msg, pc>>
  BY DEF Executes, threadVars
<1>2. AnswersInOrder' /\ Handled' = Handled
  BY <1>1 DEF OrderInv, AnswersInOrder, Handled, TypeOK
<1>3. QueueIsTheRest' /\ WrittenKnown' /\ HeldKnown' /\ NoMixUp' = NoMixUp
  BY <1>1 DEF OrderInv, QueueIsTheRest, Gone, WrittenKnown, HeldKnown, Known, NoMixUp, Surplus
<1>4. \A n, j : Sent(n, j)' = Sent(n, j)
  BY <1>1 DEF Sent
<1>5. NoMixUp => PoppedAnswered' /\ WrittenInOrder' /\ HeldInOrder'
  BY <1>1, <1>2, <1>4 DEF OrderInv, PoppedAnswered, WrittenInOrder, HeldInOrder, Gone
<1> QED BY <1>2, <1>3, <1>5 DEF OrderInv

LEMMA HandlerKeepsOrder ==
  ASSUME TypeOK, QueueInv, OrderInv, Handler
  PROVE  OrderInv'
<1> USE ThreadFacts
<1>1. CASE Handles \/ Clears \/ Finishes
  <2>1. PICK to : /\ pc' = [pc EXCEPT ![Reader] = to] /\ to \notin {"lock", "write"}
                  /\ to \in {"handle", "pop"} => pc[Reader] \in {"handle", "pop"}
    BY <1>1 DEF Handles, Clears, Finishes, Goto
  <2>2. UNCHANGED <<accepted, sendingMsgQueue, written, taken, received, l_msg>>
    BY <1>1 DEF Handles, Clears, Finishes
  <2> QED BY <2>1, <2>2, GoingOnKeepsOrder
<1>2. CASE ObserverSends
  BY <1>2, PushKeepsOrder DEF ObserverSends
<1> QED BY <1>1, <1>2, ReadsKeepsOrder, PopsKeepsOrder DEF Handler

LEMMA OrderHolds == Spec => []OrderInv
<1>1. Init => OrderInv
  <2> SUFFICES ASSUME Init PROVE OrderInv
    OBVIOUS
  <2>1. /\ \A t \in Threads : pc[t] = "idle"
        /\ accepted = <<>> /\ sendingMsgQueue = <<>> /\ written = <<>>
        /\ taken = 0 /\ received = 0
    BY DEF Init
  <2> QED BY <2>1, ThreadFacts
          DEF OrderInv, QueueIsTheRest, Gone, AnswersInOrder, WrittenKnown, HeldKnown,
              PoppedAnswered, WrittenInOrder, HeldInOrder
<1>2. TypeOK /\ QueueInv /\ OrderInv /\ [Next]_vars => OrderInv'
  <2> SUFFICES ASSUME TypeOK, QueueInv, OrderInv, [Next]_vars PROVE OrderInv'
    OBVIOUS
  <2>1. CASE UNCHANGED vars
    <3>1. UNCHANGED <<accepted, sendingMsgQueue, written, taken, received, l_msg, pc>>
      BY <2>1 DEF vars, threadVars
    <3>2. pc' = [pc EXCEPT ![Reader] = pc[Reader]]
      BY <3>1, ThreadFacts DEF TypeOK
    <3> QED BY <3>1, <3>2, ThreadFacts, GoingOnKeepsOrder
  <2>2. CASE Next
    <3>1. ASSUME NEW t \in Users, UserSends(t) PROVE OrderInv'
      <4>1. PICK c \in Commands : Push(t, c, "idle", "idle")
        BY <3>1 DEF UserSends
      <4> QED BY <4>1, ThreadFacts, PushKeepsOrder
    <3> QED BY <2>2, <3>1, SendNextMsgKeepsOrder, HandlerKeepsOrder, ExecutesKeepsOrder DEF Next
  <2> QED BY <2>1, <2>2
<1> QED BY <1>1, <1>2, TypeAndQueue, PTL DEF Spec

(* However many threads call sendCommand(), with whatever frame IDs, and     *)
(* whichever of them send the front or what front() finds in a queue that    *)
(* was emptied: no command is executed for the first time before one that    *)
(* was accepted ahead of it, unless a surplus answer has the frame ID of     *)
(* another command.                                                          *)
THEOREM FirstTimesInOrder == Spec => []FirstExecutedInOrder
<1>1. TypeOK /\ OrderInv => FirstExecutedInOrder
  <2> SUFFICES ASSUME TypeOK, OrderInv, NoMixUp, NEW i \in 1 .. taken,
                      NEW j \in 1 .. written[i].msg.tag - 1
               PROVE  \E h \in 1 .. i - 1 : written[h].msg.tag = j
    BY DEF FirstExecutedInOrder
  <2>1. i \in 1 .. Len(written)
    BY HandledFacts DEF OrderInv
  <2> QED BY <2>1 DEF OrderInv, WrittenInOrder, Sent
<1> QED BY <1>1, TypeAndQueue, OrderHolds, PTL

(* Under the same condition a command leaves the queue only after the        *)
(* adapter has executed it.  Without it this is false.                       *)
THEOREM PoppedWereExecuted == Spec => []CompletedUnlessMixedUp
<1>1. TypeOK /\ OrderInv => CompletedUnlessMixedUp
  <2> SUFFICES ASSUME TypeOK, OrderInv, NoMixUp, NEW j \in 1 .. Gone
               PROVE  \E i \in 1 .. taken : written[i].msg.tag = j
    BY DEF CompletedUnlessMixedUp, CompletedWereExecuted
  <2>1. Sent(Handled, j)
    BY DEF OrderInv, PoppedAnswered
  <2> QED BY <2>1, HandledFacts DEF OrderInv, Sent
<1> QED BY <1>1, TypeAndQueue, OrderHolds, PTL

-----------------------------------------------------------------------------
(* CppThreadsTimer, the timer of the same build, is safe for a caller that   *)
(* calls start() and stop() one after the other, however often it does.      *)

(* The thread object is empty while start() prepares the next thread, and    *)
(* otherwise it is there only while the timer is started or being stopped.   *)
CallerInv ==
  /\ caller \in {"set", "assign", "spawn"} => waitingThread = 0
  /\ caller \in {"idle", "clear"} /\ waitingThread # 0 => started
  /\ started \/ caller # "idle" => starts \in Starts
  /\ caller = "spawn" => callback = starts
  /\ caller \in {"assign", "spawn"} => started

TimerInv ==
  /\ TimerTypeOK
  /\ CallerInv
  /\ NoStaleThread
  /\ NeverTerminates
  /\ \A s \in Starts : Live(s) => callback = s

LEMMA TimerStarts ==
  ASSUME TimerInit
  PROVE  TimerInv
<1>1. TimerTypeOK
  <2>1. routine \in [Starts -> {"none", "begin", "dozing", "waiting", "woken", "check",
                                "calling", "done"}]
    BY DEF TimerInit
  <2>2. 0 \in 0 .. MaxStarts
    BY TimerAssumption
  <2> QED BY <2>1, <2>2 DEF TimerInit, TimerTypeOK
<1>2. CallerInv
  BY DEF TimerInit, CallerInv
<1>3. \A s \in Starts : ~Live(s)
  BY DEF TimerInit, Live
<1> QED BY <1>1, <1>2, <1>3
    DEF TimerInit, TimerInv, NoStaleThread, NeverTerminates

(* A step of one thread leaves the caller alone; it cannot bring a thread    *)
(* back to life.                                                             *)
LEMMA RoutineKeeps ==
  ASSUME TimerInv, NEW s \in Starts, Routine(s)
  PROVE  TimerInv'
<1>1. UNCHANGED <<started, unmoved>>
  BY DEF Routine, ReadsStarted, FallsAsleep, Elapses,
         ChecksStarted, CallsBack
<1>2. /\ Live(s)
      /\ \E to \in {"dozing", "waiting", "check", "calling", "done"} :
           routine' = [routine EXCEPT ![s] = to]
  BY DEF Routine, ReadsStarted, FallsAsleep, Elapses,
         ChecksStarted, CallsBack, Moves, Live
<1>3. TimerTypeOK'
  BY <1>1, <1>2 DEF TimerInv, TimerTypeOK, unmoved
<1>4. \A r \in Starts : Live(r)' => Live(r)
  BY <1>2 DEF TimerInv, TimerTypeOK, Live
<1>5. CallerInv'
  BY <1>1 DEF TimerInv, CallerInv, unmoved
<1> QED BY <1>1, <1>3, <1>4, <1>5
    DEF TimerInv, NoStaleThread, NeverTerminates, unmoved

LEMMA CallerKeeps ==
  ASSUME TimerInv,
         StartCalled \/ StopCalled \/ CallerSteps
  PROVE  TimerInv'
<1> USE DEF CallerGoes
<1>1. CASE StartCalled
  BY <1>1, TimerAssumption
  DEF StartCalled, TimerInv, TimerTypeOK, CallerInv, NoStaleThread,
      NeverTerminates, Live, Starts
<1>2. CASE StopCalled
  BY <1>2
  DEF StopCalled, TimerInv, TimerTypeOK, CallerInv, NoStaleThread,
      NeverTerminates, Live
<1>3. CASE StopClears
  BY <1>3
  DEF StopClears, TimerInv, TimerTypeOK, CallerInv, NoStaleThread,
      NeverTerminates, Live
<1>4. CASE StopNotifies
  <2>1. TimerTypeOK' /\ CallerInv'
    BY <1>4 DEF StopNotifies, TimerInv, TimerTypeOK, CallerInv
  <2>2. \A s \in Starts : Live(s)' => Live(s)
    BY <1>4 DEF StopNotifies, Live
  <2>3. UNCHANGED <<waitingThread, callback, terminated>>
    BY <1>4 DEF StopNotifies
  <2> QED BY <2>1, <2>2, <2>3 DEF TimerInv, NoStaleThread, NeverTerminates
<1>5. CASE StopJoins
  <2>1. TimerTypeOK' /\ CallerInv'
    BY <1>5, TimerAssumption DEF StopJoins, TimerInv, TimerTypeOK, CallerInv
  <2>2. \A s \in Starts : ~Live(s)
    BY <1>5 DEF StopJoins, TimerInv, NoStaleThread, Live, Starts
  <2> QED BY <1>5, <2>1, <2>2
      DEF StopJoins, TimerInv, NoStaleThread, NeverTerminates,
          Live
<1>6. CASE StartsNothing
  BY <1>6
  DEF StartsNothing, TimerInv, TimerTypeOK, CallerInv, NoStaleThread,
      NeverTerminates, Live
<1>7. CASE StartSets
  BY <1>7
  DEF StartSets, TimerInv, TimerTypeOK, CallerInv, NoStaleThread,
      NeverTerminates, Live
<1>8. CASE StartAssigns
  <2>1. \A s \in Starts : ~Live(s)
    BY <1>8 DEF StartAssigns, TimerInv, CallerInv, NoStaleThread, Starts
  <2>2. TimerTypeOK' /\ CallerInv'
    BY <1>8 DEF StartAssigns, TimerInv, TimerTypeOK, CallerInv
  <2> QED BY <1>8, <2>1, <2>2
      DEF StartAssigns, TimerInv, NoStaleThread, NeverTerminates,
          Live
<1>9. CASE StartSpawns
  <2>1. waitingThread = 0 /\ starts \in Starts /\ callback = starts
    BY <1>9 DEF StartSpawns, TimerInv, CallerInv
  <2>2. \A s \in Starts : ~Live(s)
    BY <2>1 DEF TimerInv, NoStaleThread, Starts
  <2>3. /\ waitingThread' = starts /\ terminated' = terminated
        /\ routine' = [routine EXCEPT ![starts] = "begin"]
        /\ caller' = "idle" /\ UNCHANGED <<started, callback, restarts, starts>>
    BY <1>9, <2>1 DEF StartSpawns
  <2>4. TimerTypeOK'
    BY <2>1, <2>3 DEF TimerInv, TimerTypeOK, Starts
  <2>5. \A s \in Starts : Live(s)' => s = starts
    BY <2>2, <2>3 DEF TimerInv, TimerTypeOK, Live
  <2>6. started
    BY <1>9 DEF StartSpawns, TimerInv, CallerInv
  <2> QED BY <2>1, <2>3, <2>4, <2>5, <2>6
      DEF TimerInv, CallerInv, NoStaleThread, NeverTerminates
<1> QED BY <1>1, <1>2, <1>3, <1>4, <1>5, <1>6, <1>7, <1>8, <1>9 DEF CallerSteps

LEMMA TimerInvariant == TimerSpec => []TimerInv
<1>1. TimerInit => TimerInv
  BY TimerStarts
<1>2. TimerInv /\ [TimerNext]_timerVars => TimerInv'
  <2> SUFFICES ASSUME TimerInv, [TimerNext]_timerVars PROVE TimerInv'
    OBVIOUS
  <2>1. CASE UNCHANGED timerVars
    BY <2>1
    DEF timerVars, TimerInv, TimerTypeOK, CallerInv, NoStaleThread,
        NeverTerminates, Live
  <2>2. CASE TimerNext
    BY <2>2, RoutineKeeps, CallerKeeps DEF TimerNext
  <2> QED BY <2>1, <2>2
<1> QED BY <1>1, <1>2, PTL DEF TimerSpec

-----------------------------------------------------------------------------
(* start() never overwrites a thread that can be joined: the process is not  *)
(* terminated however often the timer is started, stopped or left to expire. *)
THEOREM NeverTerminated == TimerSpec => []NeverTerminates
<1>1. TimerInv => NeverTerminates
  BY DEF TimerInv
<1> QED BY <1>1, TimerInvariant, PTL

(* When stop() has returned no thread is left, and a thread that calls back  *)
(* calls the callback it was started with.                                   *)
THEOREM NoLateCallback == TimerSpec => [](NoStaleThread /\ OwnCallback)
<1>1. TimerInv => NoStaleThread /\ OwnCallback
  BY DEF TimerInv, OwnCallback, Live
<1> QED BY <1>1, TimerInvariant, PTL

=============================================================================

-------------------------- MODULE EzspDongleProofs --------------------------
(***************************************************************************)
(* Theorems about EzspDongle, for every value of its constants: any number *)
(* of commands, any modulus of the frame numbers, any misfortune.          *)
(***************************************************************************)
EXTENDS EzspDongle, Queues

-----------------------------------------------------------------------------
(* Frame numbers and frames.                                                 *)

LEMMA FrmFacts ==
  0 \in FrmNums /\ \A n \in FrmNums : SuccFrm(n) \in FrmNums
<1>1. FrmMod \in Nat /\ FrmMod > 1
  BY NcpAssumption
<1>2. 0 \in FrmNums
  BY <1>1 DEF FrmNums
<1>3. ASSUME NEW n \in FrmNums PROVE SuccFrm(n) \in FrmNums
  BY <1>1 DEF FrmNums, SuccFrm
<1> QED BY <1>2, <1>3

LEMMA EntryInSeq ==
  ASSUME NEW S, NEW s \in Seq(S), s # <<>>
  PROVE  Head(s) \in S /\ Tail(s) \in Seq(S)
OBVIOUS

LEMMA HostFrameFacts ==
  /\ \A t \in {"RST", "BAD", "JUNK", "RUN", "UPGRADE"} : Simple(t) \in HostFrames
  /\ \A a \in FrmNums : [type |-> "ACK", ack |-> a] \in HostFrames
  /\ \A f, a \in FrmNums, e \in Entries :
       Data(f, a, e) \in DataFrames /\ Data(f, a, e) \in HostFrames /\ Data(f, a, e) \in NcpFrames
BY DEF Simple, Data, HostFrames, NcpFrames, DataFrames

LEMMA NcpFrameFacts ==
  /\ \A t \in {"ACK", "BAD"} : Simple(t) \in NcpFrames
  /\ \A n \in FrmNums : [type |-> "NAK", num |-> n] \in NcpFrames
  /\ \A b \in BOOLEAN : [type |-> "RSTACK", good |-> b] \in NcpFrames
BY DEF Simple, NcpFrames

(* What the fields of a frame are, by its type.                              *)
LEMMA FieldFacts ==
  /\ \A f \in HostFrames : f.type = "DATA" => f.frm \in FrmNums /\ f.entry \in Entries
  /\ \A f \in NcpFrames :
       /\ f.type = "DATA" => f.frm \in FrmNums /\ f.entry \in Entries
       /\ f.type = "NAK" => f.num \in FrmNums
BY DEF HostFrames, NcpFrames, DataFrames

-----------------------------------------------------------------------------
(* The adapter keeps the types of its side.                                  *)

LEMMA NcpReceivesType ==
  ASSUME NcpTypeOK, NcpReceives
  PROVE  NcpTypeOK'
<1> DEFINE f == Head(toNcp)
<1>1. /\ toNcp \in Seq(HostFrames) /\ toHost \in Seq(NcpFrames)
      /\ ncpTodo \in Seq(Entries) /\ ncpUnacked \in Seq(DataFrames)
      /\ ncpMode \in {"ezsp", "bootloader", "xmodem"} /\ ncpConnected \in BOOLEAN
      /\ ncpRx \in FrmNums /\ ncpTx \in FrmNums
  BY DEF NcpTypeOK
<1>2. UNCHANGED <<flaky, executed, faults>>
  BY DEF NcpReceives
<1>3. f \in HostFrames /\ Tail(toNcp) \in Seq(HostFrames)
  BY <1>1, EntryInSeq DEF NcpReceives
<1>4. \A b \in BOOLEAN : StartAsh(b) =>
        /\ ncpConnected' \in BOOLEAN /\ ncpRx' \in FrmNums /\ ncpTx' \in FrmNums
        /\ ncpTodo' \in Seq(Entries) /\ ncpUnacked' \in Seq(DataFrames)
        /\ toHost' \in Seq(NcpFrames)
  BY <1>1, NcpFrameFacts, FrmFacts DEF StartAsh
<1>5. \A a : Acked(a) \in Seq(DataFrames)
  BY <1>1 DEF Acked
<1>6. Nak \in Seq(NcpFrames) /\ Append(toHost, Simple("ACK")) \in Seq(NcpFrames)
  BY <1>1, NcpFrameFacts DEF Nak
<1>7. CASE NcpReadsReset(f)
  BY <1>1, <1>2, <1>3, <1>4, <1>7 DEF NcpReadsReset, NcpTypeOK
<1>8. CASE NcpAcceptsData(f)
  <2>1. f.entry \in Entries
    BY <1>3, <1>8, FieldFacts DEF NcpAcceptsData
  <2>2. ncpTodo' \in Seq(Entries) /\ ncpRx' \in FrmNums /\ ncpUnacked' \in Seq(DataFrames)
    BY <1>1, <1>5, <1>8, <2>1, FrmFacts DEF NcpAcceptsData
  <2>3. toHost' \in Seq(NcpFrames) /\ toNcp' \in Seq(HostFrames)
    BY <1>1, <1>3, <1>6, <1>8 DEF NcpAcceptsData
  <2> QED BY <1>1, <1>2, <1>8, <2>2, <2>3 DEF NcpAcceptsData, NcpTypeOK
<1>9. CASE NcpRejectsFrame(f)
  BY <1>1, <1>2, <1>3, <1>6, <1>9 DEF NcpRejectsFrame, NcpTypeOK
<1>10. CASE NcpReadsAck(f)
  BY <1>1, <1>2, <1>3, <1>5, <1>10 DEF NcpReadsAck, NcpTypeOK
<1>11. CASE NcpReadsJunk(f)
  <2>1. Tail(Tail(toNcp)) \in Seq(HostFrames)
    <3>1. Len(Tail(toNcp)) > 0
      BY <1>1, <1>11 DEF NcpReadsJunk
    <3>2. Tail(toNcp) # <<>>
      BY <3>1
    <3> QED BY <1>3, <3>2, EntryInSeq
  <2>2. <<Simple("BAD")>> \o Tail(Tail(toNcp)) \in Seq(HostFrames)
    BY <2>1, HostFrameFacts
  <2>3. toNcp' \in Seq(HostFrames)
    BY <1>3, <1>11, <2>2 DEF NcpReadsJunk
  <2> QED BY <1>1, <1>2, <1>11, <2>3 DEF NcpReadsJunk, NcpTypeOK
<1>12. CASE NcpReadsRun(f)
  BY <1>1, <1>2, <1>3, <1>4, <1>12 DEF NcpReadsRun, NcpTypeOK
<1>13. CASE NcpReadsUpgrade(f)
  BY <1>1, <1>2, <1>3, <1>13 DEF NcpReadsUpgrade, NcpTypeOK
<1>14. CASE NcpIgnores(f)
  BY <1>1, <1>2, <1>3, <1>14 DEF NcpIgnores, NcpTypeOK
<1> QED
  BY <1>7, <1>8, <1>9, <1>10, <1>11, <1>12, <1>13, <1>14 DEF NcpReceives

LEMMA SendsDataType ==
  ASSUME NcpTypeOK, NEW e \in Entries, SendsData(e)
  PROVE  toHost' \in Seq(NcpFrames) /\ ncpUnacked' \in Seq(DataFrames) /\ ncpTx' \in FrmNums
<1>1. Data(ncpTx, ncpRx, e) \in DataFrames /\ Data(ncpTx, ncpRx, e) \in NcpFrames
  BY HostFrameFacts DEF NcpTypeOK
<1> QED BY <1>1, FrmFacts DEF NcpTypeOK, SendsData

LEMMA FaultType ==
  ASSUME NcpTypeOK, NEW k, Fault(k)
  PROVE  faults' \in Seq(Misfortunes)
BY NcpAssumption DEF Fault, NcpTypeOK

LEMMA NcpNextType ==
  ASSUME NcpTypeOK, NcpNext
  PROVE  NcpTypeOK'
<1>1. CASE NcpReceives
  BY <1>1, NcpReceivesType
<1>2. CASE NcpResponds
  <2>1. Head(ncpTodo) \in Entries /\ Tail(ncpTodo) \in Seq(Entries)
    BY <1>2, EntryInSeq DEF NcpResponds, NcpTypeOK
  <2>2. toHost' \in Seq(NcpFrames) /\ ncpUnacked' \in Seq(DataFrames) /\ ncpTx' \in FrmNums
    BY <1>2, <2>1, SendsDataType DEF NcpResponds
  <2>3. executed' \in Seq(Nat)
    BY <1>2, <2>1 DEF NcpResponds, NcpTypeOK, Entries
  <2> QED BY <1>2, <2>1, <2>2, <2>3 DEF NcpResponds, NcpTypeOK
<1>3. CASE \E c \in Callbacks : NcpCallsBack(c)
  <2>1. PICK c \in Callbacks : NcpCallsBack(c)
    BY <1>3
  <2>2. [tag |-> 0, cmd |-> c] \in Entries
    BY DEF Entries, EzspCmds
  <2>3. toHost' \in Seq(NcpFrames) /\ ncpUnacked' \in Seq(DataFrames) /\ ncpTx' \in FrmNums
    BY <2>1, <2>2, SendsDataType DEF NcpCallsBack
  <2> QED BY <2>1, <2>3 DEF NcpCallsBack, NcpTypeOK
<1>4. CASE NcpRetransmits
  <2>1. Head(ncpUnacked) \in NcpFrames
    BY <1>4, EntryInSeq DEF NcpRetransmits, NcpTypeOK, NcpFrames
  <2>2. faults' \in Seq(Misfortunes)
    BY <1>4, FaultType DEF NcpRetransmits
  <2> QED BY <1>4, <2>1, <2>2 DEF NcpRetransmits, NcpTypeOK, adapterVars
<1>5. CASE NcpResets
  <2>1. faults' \in Seq(Misfortunes)
    BY <1>5, FaultType DEF NcpResets
  <2> QED BY <1>5, <2>1, NcpFrameFacts, FrmFacts DEF NcpResets, StartAsh, NcpTypeOK
<1>6. CASE NoiseToNcp
  <2>1. faults' \in Seq(Misfortunes)
    BY <1>6, FaultType DEF NoiseToNcp
  <2>2. toNcp' \in Seq(HostFrames)
    BY <1>6, HostFrameFacts, EntryInSeq DEF NoiseToNcp, NcpTypeOK
  <2> QED BY <1>6, <2>1, <2>2 DEF NoiseToNcp, NcpTypeOK, adapterVars
<1>7. CASE NoiseToHost
  <2>1. faults' \in Seq(Misfortunes)
    BY <1>7, FaultType DEF NoiseToHost
  <2>2. toHost' \in Seq(NcpFrames)
    BY <1>7, NcpFrameFacts, EntryInSeq DEF NoiseToHost, NcpTypeOK
  <2> QED BY <1>7, <2>1, <2>2 DEF NoiseToHost, NcpTypeOK, adapterVars
<1>8. CASE LineDegrades
  <2>1. faults' \in Seq(Misfortunes)
    BY <1>8, FaultType DEF LineDegrades
  <2> QED BY <1>8, <2>1 DEF LineDegrades, NcpTypeOK, wireVars, adapterVars
<1>9. CASE LineRecovers
  BY <1>9 DEF LineRecovers, NcpTypeOK, wireVars, adapterVars
<1> QED
  BY <1>1, <1>2, <1>3, <1>4, <1>5, <1>6, <1>7, <1>8, <1>9 DEF NcpNext

-----------------------------------------------------------------------------
(* The host keeps the types of its side, and those of the line.              *)

LEMMA WritesType ==
  ASSUME NEW out \in Seq(HostFrames)
  PROVE  /\ \A f \in HostFrames : Written(out, f) \in Seq(HostFrames)
         /\ \A w \in FailedWrites(out) : w \in Seq(HostFrames)
BY HostFrameFacts DEF Written, FailedWrites

(* A step that changes only the line leaves the adapter as it was.           *)
LEMMA LineType ==
  ASSUME NcpTypeOK, UNCHANGED <<adapterVars, flaky>>,
         toNcp' \in Seq(HostFrames), toHost' \in Seq(NcpFrames), faults' \in Seq(Misfortunes)
  PROVE  NcpTypeOK'
BY DEF NcpTypeOK, adapterVars

LEMMA AckWritesType ==
  ASSUME TypeOK
  PROVE  \A w \in AckWrites : w \in Seq(HostFrames)
<1>1. [type |-> "ACK", ack |-> lastReceivedByNEAckNum] \in HostFrames
  BY HostFrameFacts DEF TypeOK, ReadTypeOK
<1>2. toNcp \in Seq(HostFrames)
  BY DEF TypeOK, NcpTypeOK
<1> QED BY <1>1, <1>2, WritesType DEF AckWrites

LEMMA QueuedType ==
  ASSUME QueueTypeOK, NEW c \in Commands \cup {Launch}
  PROVE  Queued(c) \in Seq(Entries)
BY DEF QueueTypeOK, Queued, Entries, EzspCmds

LEMMA SendNextMsgType ==
  ASSUME TypeOK,
         NEW queue \in Seq(Entries), NEW wait \in BOOLEAN, NEW mode, NEW frm \in FrmNums,
         NEW timer \in BOOLEAN, NEW out \in Seq(HostFrames),
         SendNextMsg(queue, wait, mode, frm, timer, out)
  PROVE  SendTypeOK' /\ wait_rsp' \in BOOLEAN /\ toNcp' \in Seq(HostFrames)
<1>1. CASE MaySend(queue, wait, mode)
  <2>1. Head(queue) \in Entries
    BY <1>1, EntryInSeq DEF MaySend
  <2>2. Head(queue).tag \in Nat
    BY <2>1 DEF Entries
  <2>3. Data(frm, lastReceivedByNEAckNum, Head(queue)) \in HostFrames
    BY <2>1, HostFrameFacts DEF TypeOK, ReadTypeOK
  <2>4. toNcp' \in Seq(HostFrames)
    BY <1>1, <2>3, WritesType DEF SendNextMsg
  <2>5. SuccFrm(frm) \in FrmNums
    BY FrmFacts
  <2> QED BY <1>1, <2>2, <2>4, <2>5 DEF SendNextMsg, TypeOK, SendTypeOK
<1>2. CASE ~MaySend(queue, wait, mode)
  BY <1>2 DEF SendNextMsg, TypeOK, SendTypeOK
<1> QED BY <1>1, <1>2

LEMMA ResetDongleType ==
  ASSUME TypeOK, NEW out \in Seq(HostFrames), ResetDongle(out), UNCHANGED lastSent
  PROVE  /\ SendTypeOK' /\ blp' = "off" /\ enabled' \in BOOLEAN
         /\ stateConnected' \in BOOLEAN /\ lastReceivedByNEAckNum' \in FrmNums
         /\ toNcp' \in Seq(HostFrames)
<1>1. toNcp' \in Seq(HostFrames)
  BY HostFrameFacts, WritesType DEF ResetDongle
<1> QED BY <1>1, FrmFacts DEF ResetDongle, TypeOK, SendTypeOK

LEMMA SetModeType ==
  ASSUME TypeOK, NEW requested \in BootloaderModes, SetMode(requested),
         firstStartup' \in BOOLEAN, UNCHANGED switchToFirmwareUpgradeOnInitTimeout
  PROVE  ModeTypeOK'
BY DEF SetMode, TypeOK, ModeTypeOK

LEMMA SendCommandType ==
  ASSUME TypeOK, NEW c \in Commands \cup {Launch}, SendCommand(c)
  PROVE  TypeOK'
<1>1. SendNextMsg(Queued(c), wait_rsp, lastKnownMode, frmNum, ackTimer, toNcp)
  BY DEF SendCommand
<1>2. /\ Queued(c) \in Seq(Entries) /\ toNcp \in Seq(HostFrames)
      /\ wait_rsp \in BOOLEAN /\ frmNum \in FrmNums /\ ackTimer \in BOOLEAN
  BY QueuedType DEF TypeOK, QueueTypeOK, SendTypeOK, NcpTypeOK
<1>3. SendTypeOK' /\ wait_rsp' \in BOOLEAN /\ toNcp' \in Seq(HostFrames)
  BY <1>1, <1>2, SendNextMsgType
<1>4. faults' \in Seq(Misfortunes)
  BY FaultType DEF SendCommand, TypeOK, NcpTypeOK
<1>5. NcpTypeOK'
  BY <1>3, <1>4, LineType DEF SendCommand, TypeOK, NcpTypeOK
<1>6. QueueTypeOK'
  BY <1>2, <1>3 DEF SendCommand, TypeOK, QueueTypeOK
<1>7. ModeTypeOK' /\ ReadTypeOK'
  BY DEF SendCommand, TypeOK, ModeTypeOK, ReadTypeOK, modeVars, startVars, readVars
<1> QED BY <1>3, <1>5, <1>6, <1>7 DEF TypeOK

LEMMA ResetType ==
  ASSUME TypeOK, Reset
  PROVE  TypeOK'
<1>1. ResetDongle(toNcp) /\ toNcp \in Seq(HostFrames) /\ UNCHANGED lastSent
  BY DEF Reset, TypeOK, NcpTypeOK
<1>2. /\ SendTypeOK' /\ blp' = "off" /\ enabled' \in BOOLEAN
      /\ stateConnected' \in BOOLEAN /\ lastReceivedByNEAckNum' \in FrmNums
      /\ toNcp' \in Seq(HostFrames)
  BY <1>1, ResetDongleType
<1>3. faults' \in Seq(Misfortunes)
  BY FaultType DEF Reset, TypeOK, NcpTypeOK
<1>4. NcpTypeOK'
  BY <1>2, <1>3, LineType DEF Reset, TypeOK, NcpTypeOK
<1>5. QueueTypeOK' /\ ModeTypeOK' /\ ReadTypeOK'
  BY <1>2 DEF Reset, TypeOK, QueueTypeOK, ModeTypeOK, ReadTypeOK, queueVars, startVars, readVars
<1> QED BY <1>2, <1>4, <1>5 DEF TypeOK

LEMMA AckTimerExpiresType ==
  ASSUME TypeOK, AckTimerExpires
  PROVE  TypeOK'
<1>1. ModeTypeOK'
  <2>1. CASE ~stateConnected /\ firstStartup
    BY <2>1, SetModeType DEF AckTimerExpires, ResetFailed, BootloaderModes
  <2>2. CASE ~(~stateConnected /\ firstStartup)
    BY <2>2 DEF AckTimerExpires, ResetFailed, TypeOK, ModeTypeOK, modeVars, startVars
  <2> QED BY <2>1, <2>2
<1>2. faults' \in Seq(Misfortunes)
  BY FaultType DEF AckTimerExpires, ResetFailed, TypeOK, NcpTypeOK
<1>3. NcpTypeOK'
  BY <1>2, LineType DEF AckTimerExpires, ResetFailed, TypeOK, NcpTypeOK, wireVars
<1>4. QueueTypeOK' /\ SendTypeOK' /\ ReadTypeOK'
  BY DEF AckTimerExpires, ResetFailed, TypeOK, QueueTypeOK, SendTypeOK, ReadTypeOK, queueVars, readVars
<1> QED BY <1>1, <1>3, <1>4 DEF TypeOK

LEMMA BlpType ==
  ASSUME TypeOK, BlpProbes \/ PromptDetected
  PROVE  TypeOK'
<1>0. /\ toNcp \in Seq(HostFrames) /\ toHost \in Seq(NcpFrames)
      /\ faults \in Seq(Misfortunes)
  BY DEF TypeOK, NcpTypeOK
<1>1. CASE BlpProbes
  <2>1. toNcp' \in Seq(HostFrames)
    BY <1>0, <1>1, HostFrameFacts DEF BlpProbes
  <2>2. NcpTypeOK'
    BY <1>0, <1>1, <2>1, LineType DEF BlpProbes, TypeOK, ncpOnlyVars
  <2>3. QueueTypeOK' /\ ModeTypeOK' /\ SendTypeOK' /\ ReadTypeOK'
    BY <1>1 DEF BlpProbes, TypeOK, QueueTypeOK, ModeTypeOK, SendTypeOK, ReadTypeOK,
                queueVars, startVars, sendVars, readVars
  <2> QED BY <2>2, <2>3 DEF TypeOK
<1>2. CASE PromptDetected
  <2>1. \A c \in {"RUN", "UPGRADE"} : \A w \in MenuChoice(c) : w \in Seq(HostFrames)
    <3>1. \A c \in {"RUN", "UPGRADE"} : Simple(c) \in HostFrames
      BY HostFrameFacts
    <3>2. \A f \in HostFrames : Append(toNcp, f) \in Seq(HostFrames)
      BY <1>0
    <3> QED BY <1>0, <3>1, <3>2 DEF MenuChoice
  <2>2. \/ /\ lastKnownMode' = "EZSP_NCP"
           /\ \E out \in MenuChoice("RUN") : ResetDongle(out)
        \/ /\ lastKnownMode' = "BOOTLOADER_FIRMWARE_UPGRADE" /\ blp' = "xmodem"
           /\ toNcp' \in MenuChoice("UPGRADE")
           /\ UNCHANGED <<enabled, frmNum, nextExpectedFEAckNum, ackTimer,
                          lastReceivedByNEAckNum, stateConnected>>
    BY <1>2 DEF PromptDetected
  <2>3. UNCHANGED <<queueVars, startVars, promptDetectCallback, lastSent, readVars, issued,
                   answered, toHost, ncpOnlyVars>>
    BY <1>2 DEF PromptDetected
  <2>4. /\ SendTypeOK' /\ blp' \in {"off", "xmodem"} /\ enabled' \in BOOLEAN
        /\ stateConnected' \in BOOLEAN /\ lastReceivedByNEAckNum' \in FrmNums
        /\ toNcp' \in Seq(HostFrames)
    <3>1. CASE \E out \in MenuChoice("RUN") : ResetDongle(out)
      BY <2>1, <2>3, <3>1, ResetDongleType
    <3>2. CASE /\ blp' = "xmodem" /\ toNcp' \in MenuChoice("UPGRADE")
               /\ UNCHANGED <<enabled, frmNum, nextExpectedFEAckNum, ackTimer,
                              lastReceivedByNEAckNum, stateConnected>>
      BY <2>1, <2>3, <3>2 DEF TypeOK, SendTypeOK, ModeTypeOK, ReadTypeOK
    <3> QED BY <2>2, <3>1, <3>2
  <2>5. NcpTypeOK'
    BY <1>0, <2>3, <2>4, LineType DEF TypeOK, ncpOnlyVars
  <2>6. QueueTypeOK' /\ ModeTypeOK' /\ ReadTypeOK'
    BY <2>2, <2>3, <2>4 DEF TypeOK, QueueTypeOK, ModeTypeOK, ReadTypeOK, queueVars, startVars,
                            readVars, EzspModes, BootloaderModes
  <2> QED BY <2>4, <2>5, <2>6 DEF TypeOK
<1> QED BY <1>1, <1>2

LEMMA ReadChunkType ==
  ASSUME TypeOK, ReadChunk
  PROVE  TypeOK'
<1>1. toHost' \in Seq(NcpFrames)
  BY EntryInSeq DEF ReadChunk, TypeOK, NcpTypeOK
<1>2. NcpTypeOK'
  BY <1>1, LineType DEF ReadChunk, TypeOK, NcpTypeOK, ncpOnlyVars
<1>3. chunk' \in Nat
  BY DongleAssumption DEF ReadChunk, TypeOK, ReadTypeOK
<1> QED
  BY <1>2, <1>3 DEF ReadChunk, TypeOK, QueueTypeOK, ModeTypeOK, SendTypeOK, ReadTypeOK,
                    queueVars, modeVars, startVars, sendVars

(* What every Decode action keeps.                                           *)
LEMMA DecodeNextType ==
  ASSUME TypeOK, NEW t, DecodeNext(t)
  PROVE  /\ Head(toHost) \in NcpFrames /\ Head(toHost).type = t
         /\ chunk' \in Nat /\ answered' \in SUBSET Nat
         /\ lastKnownMode' \in EzspModes \cup BootloaderModes => ModeTypeOK'
         /\ toNcp' \in Seq(HostFrames) => NcpTypeOK'
<1>1. Head(toHost) \in NcpFrames /\ Tail(toHost) \in Seq(NcpFrames)
  BY EntryInSeq DEF DecodeNext, TypeOK, NcpTypeOK
<1>2. toNcp' \in Seq(HostFrames) => NcpTypeOK'
  BY <1>1, LineType DEF DecodeNext, TypeOK, NcpTypeOK, ncpOnlyVars
<1>3. lastKnownMode' \in EzspModes \cup BootloaderModes => ModeTypeOK'
  BY DEF DecodeNext, TypeOK, ModeTypeOK, startVars
<1> QED BY <1>1, <1>2, <1>3 DEF DecodeNext, TypeOK, ReadTypeOK

LEMMA DecodeType ==
  ASSUME TypeOK, Decode
  PROVE  TypeOK'
<1>0. /\ toNcp \in Seq(HostFrames) /\ lastKnownMode \in EzspModes \cup BootloaderModes
      /\ sendingMsgQueue \in Seq(Entries) /\ wait_rsp \in BOOLEAN /\ frmNum \in FrmNums
  BY DEF TypeOK, NcpTypeOK, ModeTypeOK, QueueTypeOK, SendTypeOK
<1>1. CASE DecodeData
  <2>1. DecodeNext("DATA")
    BY <1>1 DEF DecodeData
  <2>2. Head(toHost) \in NcpFrames /\ Head(toHost).type = "DATA"
    BY <2>1, DecodeNextType
  <2>3. Head(toHost).frm \in FrmNums /\ Head(toHost).entry \in Entries
    BY <2>2, FieldFacts
  <2>4. lastReceivedByNEAckNum' \in FrmNums /\ pending' \in Seq(Entries)
    BY <1>1, <2>3, FrmFacts DEF DecodeData, TypeOK, ReadTypeOK
  <2>5. NcpTypeOK' /\ ModeTypeOK' /\ chunk' \in Nat /\ answered' \in SUBSET Nat
    BY <1>0, <1>1, <2>1, DecodeNextType DEF DecodeData
  <2>6. ackTimer' \in BOOLEAN
    BY <1>1 DEF DecodeData, TypeOK, SendTypeOK
  <2>7. QueueTypeOK' /\ SendTypeOK' /\ ReadTypeOK'
    BY <1>1, <2>4, <2>5, <2>6 DEF DecodeData, TypeOK, QueueTypeOK, SendTypeOK, ReadTypeOK,
                                  queueVars
  <2> QED BY <2>5, <2>7 DEF TypeOK
<1>2. CASE DecodeAck
  <2>1. NcpTypeOK' /\ ModeTypeOK' /\ chunk' \in Nat /\ answered' \in SUBSET Nat
    BY <1>0, <1>2, DecodeNextType DEF DecodeAck
  <2> QED BY <1>2, <2>1 DEF DecodeAck, TypeOK, QueueTypeOK, SendTypeOK, ReadTypeOK, queueVars
<1>3. CASE DecodeNak
  <2>1. DecodeNext("NAK")
    BY <1>3 DEF DecodeNak, Nacked
  <2>2. Head(toHost) \in NcpFrames /\ Head(toHost).type = "NAK"
    BY <2>1, DecodeNextType
  <2>3. Head(toHost).num \in FrmNums
    BY <2>2, FieldFacts
  <2>4. SendNextMsg(sendingMsgQueue, FALSE, lastKnownMode, Head(toHost).num, FALSE, toNcp)
    BY <1>3 DEF DecodeNak, Nacked
  <2>5. SendTypeOK' /\ wait_rsp' \in BOOLEAN /\ toNcp' \in Seq(HostFrames)
    BY <1>0, <2>3, <2>4, SendNextMsgType
  <2>6. NcpTypeOK' /\ ModeTypeOK' /\ chunk' \in Nat /\ answered' \in SUBSET Nat
    BY <1>0, <1>3, <2>1, <2>5, DecodeNextType DEF DecodeNak, Nacked
  <2>7. QueueTypeOK' /\ ReadTypeOK'
    BY <1>3, <2>5, <2>6 DEF DecodeNak, Nacked, TypeOK, QueueTypeOK, ReadTypeOK
  <2> QED BY <2>5, <2>6, <2>7 DEF TypeOK
<1>4. CASE DecodeRstAck
  <2>1. DecodeNext("RSTACK") /\ UNCHANGED <<lastReceivedByNEAckNum, pending>>
    BY <1>4 DEF DecodeRstAck, Connected
  <2>2. CASE stateConnected \/ ~Head(toHost).good
    <3>1. UNCHANGED <<queueVars, lastKnownMode, sendVars, stateConnected, issued, toNcp>>
      BY <1>4, <2>2 DEF DecodeRstAck, Connected
    <3>2. NcpTypeOK' /\ ModeTypeOK' /\ chunk' \in Nat /\ answered' \in SUBSET Nat
      BY <1>0, <2>1, <3>1, DecodeNextType
    <3> QED BY <2>1, <3>1, <3>2 DEF TypeOK, QueueTypeOK, SendTypeOK, ReadTypeOK, queueVars,
                                    sendVars
  <2>3. CASE ~(stateConnected \/ ~Head(toHost).good)
    <3>1. stateConnected' = TRUE /\ lastKnownMode' = "EZSP_NCP"
      BY <1>4, <2>3 DEF DecodeRstAck, Connected
    <3>2. CASE ackTimer' = FALSE /\ UNCHANGED <<queueVars, frmNum, nextExpectedFEAckNum,
                                                lastSent, issued, toNcp>>
      <4>1. NcpTypeOK' /\ ModeTypeOK' /\ chunk' \in Nat /\ answered' \in SUBSET Nat
        BY <1>0, <2>1, <3>1, <3>2, DecodeNextType DEF EzspModes
      <4> QED BY <2>1, <3>1, <3>2, <4>1 DEF TypeOK, QueueTypeOK, SendTypeOK, ReadTypeOK, queueVars
    <3>3. ASSUME NEW c \in Commands, issued' = issued + 1, sendingMsgQueue' = Queued(c),
                 SendNextMsg(Queued(c), wait_rsp, lastKnownMode, frmNum, FALSE, toNcp)
          PROVE  TypeOK'
      <4>1. Queued(c) \in Seq(Entries)
        BY QueuedType DEF TypeOK
      <4>2. SendTypeOK' /\ wait_rsp' \in BOOLEAN /\ toNcp' \in Seq(HostFrames)
        BY <1>0, <3>3, <4>1, SendNextMsgType
      <4>3. NcpTypeOK' /\ ModeTypeOK' /\ chunk' \in Nat /\ answered' \in SUBSET Nat
        BY <2>1, <3>1, <4>2, DecodeNextType DEF EzspModes
      <4>4. QueueTypeOK' /\ ReadTypeOK'
        BY <2>1, <3>1, <3>3, <4>1, <4>2, <4>3 DEF TypeOK, QueueTypeOK, ReadTypeOK
      <4> QED BY <4>2, <4>3, <4>4 DEF TypeOK
    <3>4. \/ ackTimer' = FALSE /\ UNCHANGED <<queueVars, frmNum, nextExpectedFEAckNum,
                                               lastSent, issued, toNcp>>
          \/ \E c \in Commands :
               /\ issued' = issued + 1
               /\ sendingMsgQueue' = Queued(c)
               /\ SendNextMsg(Queued(c), wait_rsp, lastKnownMode, frmNum, FALSE, toNcp)
      BY <1>4, <2>3 DEF DecodeRstAck, Connected
    <3> QED BY <3>2, <3>3, <3>4
  <2> QED BY <2>2, <2>3
<1>5. CASE DecodeBad
  <2>1. NcpTypeOK' /\ ModeTypeOK' /\ chunk' \in Nat /\ answered' \in SUBSET Nat
    BY <1>0, <1>5, DecodeNextType DEF DecodeBad
  <2> QED BY <1>5, <2>1 DEF DecodeBad, TypeOK, QueueTypeOK, SendTypeOK, ReadTypeOK, queueVars,
                            sendVars
<1> QED BY <1>1, <1>2, <1>3, <1>4, <1>5 DEF Decode

LEMMA DeliverType ==
  ASSUME TypeOK, Deliver
  PROVE  TypeOK'
<1>1. PICK p \in {pending[i] : i \in 1 .. Len(pending)} :
        DeliverInBootloader(p) \/ DeliverLaunch(p) \/ DeliverMessage(p)
  BY DEF Deliver
<1>2. DeliverNext(p)
  BY <1>1 DEF DeliverInBootloader, DeliverLaunch, DeliverMessage, HandleResponse
<1>3. p \in Entries /\ pending' \in Seq(Entries)
  BY <1>2, EntryInSeq DEF DeliverNext, TypeOK, ReadTypeOK
<1>4. p.tag \in Nat
  BY <1>3 DEF Entries
<1>5. answered' \in SUBSET Nat => ReadTypeOK'
  BY <1>2, <1>3 DEF DeliverNext, TypeOK, ReadTypeOK
<1>6. toNcp' \in Seq(HostFrames) => NcpTypeOK'
  BY <1>2, LineType DEF DeliverNext, TypeOK, NcpTypeOK, ncpOnlyVars
<1>7. toNcp \in Seq(HostFrames) /\ answered \in SUBSET Nat /\ issued' \in Nat
  BY <1>2 DEF DeliverNext, TypeOK, NcpTypeOK, ReadTypeOK, QueueTypeOK
<1>8. CASE DeliverInBootloader(p)
  <2>1. UNCHANGED <<queueVars, lastKnownMode, enabled, blp, promptDetectCallback, sendVars,
                   answered, toNcp>>
    BY <1>8 DEF DeliverInBootloader
  <2>2. QueueTypeOK' /\ ModeTypeOK' /\ SendTypeOK'
    BY <1>2, <2>1 DEF DeliverNext, TypeOK, QueueTypeOK, ModeTypeOK, SendTypeOK, queueVars,
                      sendVars, startVars
  <2> QED BY <1>5, <1>6, <1>7, <2>1, <2>2 DEF TypeOK
<1>9. CASE DeliverLaunch(p)
  <2>1. UNCHANGED <<queueVars, sendVars, toNcp>> /\ answered' \in SUBSET Nat
    BY <1>4, <1>7, <1>9 DEF DeliverLaunch
  <2>2. ModeTypeOK'
    BY <1>2, <1>9, SetModeType DEF DeliverLaunch, DeliverNext, BootloaderModes, TypeOK,
                                   ModeTypeOK, startVars
  <2>3. QueueTypeOK' /\ SendTypeOK'
    BY <1>2, <2>1 DEF DeliverNext, TypeOK, QueueTypeOK, SendTypeOK, queueVars, sendVars
  <2> QED BY <1>5, <1>6, <1>7, <2>1, <2>2, <2>3 DEF TypeOK
<1>10. CASE DeliverMessage(p)
  <2>1. answered' \in SUBSET Nat
    BY <1>4, <1>7, <1>10 DEF DeliverMessage, HandleResponse
  <2>2. ModeTypeOK'
    BY <1>2, <1>10 DEF DeliverMessage, HandleResponse, DeliverNext, TypeOK, ModeTypeOK, startVars
  <2>3. PICK out \in AckWrites :
          IF IsResponse(p)
          THEN /\ sendingMsgQueue' = Tail(sendingMsgQueue)
               /\ SendNextMsg(Tail(sendingMsgQueue), FALSE, lastKnownMode, frmNum, ackTimer,
                              out)
          ELSE toNcp' = out /\ UNCHANGED <<queueVars, sendVars>>
    BY <1>10 DEF DeliverMessage, HandleResponse
  <2>4. out \in Seq(HostFrames)
    BY AckWritesType
  <2>5. CASE IsResponse(p)
    <3>1. Tail(sendingMsgQueue) \in Seq(Entries)
      BY <2>5, EntryInSeq DEF IsResponse, TypeOK, QueueTypeOK
    <3>2. frmNum \in FrmNums /\ ackTimer \in BOOLEAN
      BY DEF TypeOK, SendTypeOK
    <3>3. SendTypeOK' /\ wait_rsp' \in BOOLEAN /\ toNcp' \in Seq(HostFrames)
      BY <2>3, <2>4, <2>5, <3>1, <3>2, SendNextMsgType
    <3>4. QueueTypeOK'
      BY <1>7, <2>3, <2>5, <3>1, <3>3 DEF QueueTypeOK
    <3> QED BY <1>5, <1>6, <2>1, <2>2, <3>3, <3>4 DEF TypeOK
  <2>6. CASE ~IsResponse(p)
    <3>1. toNcp' = out /\ UNCHANGED <<queueVars, sendVars>>
      BY <2>3, <2>6
    <3>2. QueueTypeOK' /\ SendTypeOK'
      BY <1>7, <3>1 DEF TypeOK, QueueTypeOK, SendTypeOK, queueVars, sendVars
    <3> QED BY <1>5, <1>6, <2>1, <2>2, <2>4, <3>1, <3>2 DEF TypeOK
  <2> QED BY <2>5, <2>6
<1> QED BY <1>1, <1>8, <1>9, <1>10

LEMMA NextType ==
  ASSUME TypeOK, [Next]_vars
  PROVE  TypeOK'
<1>1. CASE UserNext
  BY <1>1, ResetType, SendCommandType DEF UserNext
<1>2. CASE AckTimerExpires
  BY <1>2, AckTimerExpiresType
<1>3. CASE BlpProbes \/ PromptDetected
  BY <1>3, BlpType
<1>4. CASE ReadChunk
  BY <1>4, ReadChunkType
<1>5. CASE Decode
  BY <1>5, DecodeType
<1>6. CASE Deliver
  BY <1>6, DeliverType
<1>7. CASE NcpNext /\ UNCHANGED hostVars
  <2>1. NcpTypeOK'
    BY <1>7, NcpNextType DEF TypeOK
  <2> QED BY <1>7, <2>1 DEF TypeOK, QueueTypeOK, ModeTypeOK, SendTypeOK, ReadTypeOK, hostVars,
                            queueVars, modeVars, startVars, sendVars, readVars
<1>8. CASE UNCHANGED vars
  BY <1>8 DEF TypeOK, NcpTypeOK, QueueTypeOK, ModeTypeOK, SendTypeOK, ReadTypeOK, vars,
              hostVars, queueVars, modeVars, startVars, sendVars, readVars, wireVars,
              ncpOnlyVars, adapterVars
<1> QED
  BY <1>1, <1>2, <1>3, <1>4, <1>5, <1>6, <1>7, <1>8 DEF Next, HostNext

(* Every variable keeps its type: the numbers that AshCodec masks stay below *)
(* the modulus, and what is queued, on the line or pending is well formed.   *)
THEOREM TypeCorrect == Spec => []TypeOK
<1>1. Init => TypeOK
  <2> SUFFICES ASSUME Init PROVE TypeOK
    OBVIOUS
  <2>1. \A S : <<>> \in Seq(S)
    OBVIOUS
  <2>2. NcpTypeOK
    BY <2>1, FrmFacts DEF Init, NcpInit, NcpTypeOK
  <2>3. QueueTypeOK /\ ModeTypeOK
    BY <2>1 DEF Init, QueueTypeOK, ModeTypeOK, EzspModes
  <2>4. SendTypeOK /\ ReadTypeOK
    BY <2>1, FrmFacts DEF Init, SendTypeOK, ReadTypeOK
  <2> QED BY <2>2, <2>3, <2>4 DEF TypeOK
<1>2. TypeOK /\ [Next]_vars => TypeOK'
  BY NextType
<1> QED BY <1>1, <1>2, PTL DEF Spec

-----------------------------------------------------------------------------
(* What is awaited is what was sent last.                                    *)

(* sendNextMsg() establishes the property, or keeps it when it sends         *)
(* nothing.                                                                  *)
LEMMA SendNextMsgSends ==
  ASSUME NEW queue, NEW wait, NEW mode, NEW frm, NEW timer, NEW out,
         SendNextMsg(queue, wait, mode, frm, timer, out),
         wait => queue # <<>> /\ Head(queue).tag = lastSent
  PROVE  wait_rsp' => queue # <<>> /\ Head(queue).tag = lastSent'
<1>1. CASE MaySend(queue, wait, mode)
  BY <1>1 DEF SendNextMsg, MaySend
<1>2. CASE ~MaySend(queue, wait, mode)
  BY <1>2 DEF SendNextMsg
<1> QED BY <1>1, <1>2

(* A command that is queued behind others does not change the front.         *)
LEMMA QueuedFront ==
  ASSUME TypeOK, FrontIsLastSent, NEW c \in Commands \cup {Launch}
  PROVE  wait_rsp => Queued(c) # <<>> /\ Head(Queued(c)).tag = lastSent
<1>1. sendingMsgQueue \in Seq(Entries)
  BY DEF TypeOK, QueueTypeOK
<1>2. sendingMsgQueue # <<>> =>
        Queued(c) # <<>> /\ Head(Queued(c)) = Head(sendingMsgQueue)
  BY <1>1 DEF Queued
<1> QED BY <1>2 DEF FrontIsLastSent

LEMMA NextFront ==
  ASSUME TypeOK, FrontIsLastSent, [Next]_vars
  PROVE  FrontIsLastSent'
<1> USE DEF FrontIsLastSent
<1>1. ASSUME NEW c \in Commands \cup {Launch}, SendCommand(c)
      PROVE  FrontIsLastSent'
  BY <1>1, QueuedFront, SendNextMsgSends DEF SendCommand
<1>2. CASE Reset
  BY <1>2 DEF Reset, queueVars
<1>3. CASE AckTimerExpires
  BY <1>3 DEF AckTimerExpires, ResetFailed, queueVars
<1>4. CASE BlpProbes
  BY <1>4 DEF BlpProbes, queueVars, sendVars
<1>5. CASE PromptDetected
  BY <1>5 DEF PromptDetected, queueVars
<1>6. CASE ReadChunk
  BY <1>6 DEF ReadChunk, queueVars, sendVars
<1>7. CASE DecodeData
  BY <1>7 DEF DecodeData, queueVars
<1>8. CASE DecodeAck
  BY <1>8 DEF DecodeAck, queueVars
<1>9. CASE DecodeNak
  BY <1>9, SendNextMsgSends DEF DecodeNak, Nacked
<1>10. CASE DecodeRstAck
  <2>1. CASE UNCHANGED <<queueVars, lastSent>>
    BY <2>1 DEF queueVars
  <2>2. ASSUME NEW c \in Commands, sendingMsgQueue' = Queued(c),
               SendNextMsg(Queued(c), wait_rsp, lastKnownMode, frmNum, FALSE, toNcp)
        PROVE  FrontIsLastSent'
    BY <2>2, QueuedFront, SendNextMsgSends
  <2> QED BY <1>10, <2>1, <2>2 DEF DecodeRstAck, Connected, sendVars
<1>11. CASE DecodeBad
  BY <1>11 DEF DecodeBad, queueVars, sendVars
<1>12. ASSUME NEW p, DeliverInBootloader(p) \/ DeliverLaunch(p)
       PROVE  FrontIsLastSent'
  BY <1>12 DEF DeliverInBootloader, DeliverLaunch, queueVars, sendVars
<1>13. ASSUME NEW p, DeliverMessage(p)
       PROVE  FrontIsLastSent'
  <2>1. CASE IsResponse(p)
    BY <1>13, <2>1, SendNextMsgSends DEF DeliverMessage, HandleResponse
  <2>2. CASE ~IsResponse(p)
    BY <1>13, <2>2 DEF DeliverMessage, HandleResponse, queueVars, sendVars
  <2> QED BY <2>1, <2>2
<1>14. CASE UNCHANGED hostVars
  BY <1>14 DEF hostVars, queueVars, sendVars
<1>15. UNCHANGED vars => UNCHANGED hostVars
  BY DEF vars
<1> QED
  BY <1>1, <1>2, <1>3, <1>4, <1>5, <1>6, <1>7, <1>8, <1>9, <1>10, <1>11, <1>12, <1>13, <1>14,
     <1>15 DEF Next, UserNext, HostNext, Decode, Deliver

(* Whatever is lost, resent, reset or refused, a response is awaited only    *)
(* for the command at the front of the queue, and only if that command is    *)
(* the last one written in full: handleResponse() never takes out a command  *)
(* that is still to be sent while it believes the previous one is answered.  *)
THEOREM FrontCorrect == Spec => []FrontIsLastSent
<1>1. Init => FrontIsLastSent
  BY DEF Init, FrontIsLastSent
<1>2. TypeOK /\ FrontIsLastSent /\ [Next]_vars => FrontIsLastSent'
  BY NextFront
<1> QED BY <1>1, <1>2, TypeCorrect, PTL DEF Spec

-----------------------------------------------------------------------------
(* No ASH traffic during a firmware upgrade.                                 *)

(* A step adds at most one misfortune, and one that this instance contains.  *)
LEMMA OneFault ==
  ASSUME [Next]_vars
  PROVE  faults' = faults \/ \E k \in Env : faults' = Append(faults, k)
<1> DEFINE Goal == faults' = faults \/ \E k \in Env : faults' = Append(faults, k)
<1>1. UserNext => Goal
  BY DEF UserNext, SendCommand, Reset, Fault
<1>2. HostNext => Goal
  BY DEF HostNext, AckTimerExpires, ResetFailed, BlpProbes, PromptDetected, ReadChunk, Decode, DecodeData,
         DecodeAck, DecodeNak, Nacked, DecodeRstAck, Connected, DecodeBad, DecodeNext, Deliver, DeliverNext,
         DeliverInBootloader, DeliverLaunch, DeliverMessage, HandleResponse, Fault, ncpOnlyVars
<1>3. NcpNext => Goal
  BY DEF NcpNext, NcpReceives, NcpResponds, NcpCallsBack, NcpRetransmits, NcpResets,
         NoiseToNcp, NoiseToHost, LineDegrades, LineRecovers, Fault
<1> QED BY <1>1, <1>2, <1>3 DEF Next, vars, ncpOnlyVars

LEMMA FaultsGrow ==
  ASSUME TypeOK, [Next]_vars
  PROVE  Happened \subseteq Happened'
<1>1. faults \in Seq(Misfortunes)
  BY DEF TypeOK, NcpTypeOK
<1>2. ASSUME NEW k, faults' = Append(faults, k), NEW i \in 1 .. Len(faults)
      PROVE  i \in 1 .. Len(faults') /\ faults'[i] = faults[i]
  BY <1>1, <1>2
<1> QED BY <1>2, OneFault DEF Happened

LEMMA FaultHappens ==
  ASSUME TypeOK, NEW kind, Fault(kind)
  PROVE  kind \in Happened'
<1>1. faults \in Seq(Misfortunes) /\ faults' = Append(faults, kind)
  BY DEF TypeOK, NcpTypeOK, Fault
<1>2. Len(faults') \in 1 .. Len(faults') /\ faults'[Len(faults')] = kind
  BY <1>1
<1> QED BY <1>2 DEF Happened

LEMMA NextUpgrade ==
  ASSUME TypeOK, UpgradeInv, [Next]_vars
  PROVE  UpgradeInv'
<1> SUFFICES ASSUME "reset" \notin Happened'
             PROVE  UpgradeInv'
  BY DEF UpgradeInv
<1>0. /\ "reset" \notin Happened
      /\ lastKnownMode = "BOOTLOADER_FIRMWARE_UPGRADE" <=> promptDetectCallback = "upgrade"
      /\ lastKnownMode = "BOOTLOADER_FIRMWARE_UPGRADE" => ~enabled /\ chunk = 0
  BY FaultsGrow DEF UpgradeInv
<1>1. ASSUME NEW c \in Commands \cup {Launch}, SendCommand(c)
      PROVE  UpgradeInv'
  BY <1>0, <1>1 DEF SendCommand, UpgradeInv, modeVars, readVars
<1>2. CASE Reset
  BY <1>0, <1>2, FaultHappens DEF Reset, UpgradeInv
<1>3. CASE AckTimerExpires
  BY <1>0, <1>3 DEF AckTimerExpires, ResetFailed, SetMode, HostIdle, UpgradeInv, modeVars, readVars, EzspModes
<1>4. CASE BlpProbes
  BY <1>0, <1>4 DEF BlpProbes, UpgradeInv, readVars
<1>5. CASE PromptDetected
  BY <1>0, <1>5 DEF PromptDetected, UpgradeInv, readVars
<1>6. CASE ReadChunk
  BY <1>0, <1>6 DEF ReadChunk, UpgradeInv, modeVars
<1>7. CASE Decode
  <2>1. /\ lastKnownMode' \in {lastKnownMode, "EZSP_NCP"} /\ chunk > 0
        /\ UNCHANGED <<enabled, promptDetectCallback>>
    BY <1>7 DEF Decode, DecodeData, DecodeAck, DecodeNak, Nacked, DecodeRstAck, Connected, DecodeBad, DecodeNext
  <2> QED BY <1>0, <2>1 DEF UpgradeInv
<1>8. ASSUME NEW p, DeliverInBootloader(p) \/ DeliverLaunch(p) \/ DeliverMessage(p)
      PROVE  UpgradeInv'
  BY <1>0, <1>8 DEF DeliverInBootloader, DeliverLaunch, DeliverMessage, HandleResponse, DeliverNext, SetMode,
                    UpgradeInv, EzspModes
<1>9. CASE UNCHANGED hostVars
  BY <1>0, <1>9 DEF hostVars, modeVars, readVars, UpgradeInv
<1>10. UNCHANGED vars => UNCHANGED hostVars
  BY DEF vars
<1> QED
  BY <1>1, <1>2, <1>3, <1>4, <1>5, <1>6, <1>7, <1>8, <1>9, <1>10
     DEF Next, UserNext, HostNext, Deliver

(* Steps of the line and of the adapter add nothing to what the host wrote.  *)
LEMMA NcpNextLength ==
  ASSUME TypeOK, NcpNext
  PROVE  ~(Len(toNcp') > Len(toNcp))
<1>1. toNcp \in Seq(HostFrames)
  BY DEF TypeOK, NcpTypeOK
<1>2. ASSUME toNcp # <<>>, toNcp' = Tail(toNcp)
      PROVE  Len(toNcp') <= Len(toNcp)
  BY <1>1, <1>2
<1>3. ASSUME toNcp # <<>>, toNcp' = <<Simple("BAD")>> \o Tail(toNcp)
      PROVE  Len(toNcp') <= Len(toNcp)
  BY <1>1, <1>3
<1>4. ASSUME Len(toNcp) > 1, toNcp' = <<Simple("BAD")>> \o Tail(Tail(toNcp))
      PROVE  Len(toNcp') <= Len(toNcp)
  <2>1. \A t \in Seq(HostFrames) : Len(t) > 0 =>
          Tail(t) \in Seq(HostFrames) /\ Len(Tail(t)) = Len(t) - 1
    OBVIOUS
  <2>2. PICK t : t = Tail(toNcp)
    OBVIOUS
  <2>3. t \in Seq(HostFrames) /\ Len(t) = Len(toNcp) - 1 /\ Len(t) > 0
    BY <1>1, <1>4, <2>2
  <2>4. Tail(t) \in Seq(HostFrames) /\ Len(Tail(t)) = Len(t) - 1
    BY <2>1, <2>3
  <2>5. Len(toNcp') = Len(Tail(t)) + 1
    BY <1>4, <2>2, <2>4
  <2>6. Len(toNcp) \in Nat
    BY <1>1
  <2> QED BY <2>3, <2>4, <2>5, <2>6
<1>5. \/ toNcp' = toNcp
      \/ toNcp # <<>> /\ toNcp' = Tail(toNcp)
      \/ toNcp # <<>> /\ toNcp' = <<Simple("BAD")>> \o Tail(toNcp)
      \/ Len(toNcp) > 1 /\ toNcp' = <<Simple("BAD")>> \o Tail(Tail(toNcp))
  BY DEF NcpNext, NcpReceives, NcpReadsReset, NcpAcceptsData, NcpRejectsFrame, NcpReadsAck,
         NcpReadsJunk, NcpReadsRun, NcpReadsUpgrade, NcpIgnores, NcpResponds, NcpCallsBack,
         NcpRetransmits, NcpResets, NoiseToNcp, NoiseToHost, LineDegrades, LineRecovers, wireVars
<1>6. Len(toNcp) \in Nat
  BY <1>1
<1> QED BY <1>1, <1>2, <1>3, <1>4, <1>5, <1>6

LEMMA UpgradeStep ==
  ASSUME TypeOK, UpgradeInv, Next, Upgrading, "reset" \notin Happened'
  PROVE  ~AshWritten
<1>0. /\ toNcp \in Seq(HostFrames) /\ lastKnownMode \notin EzspModes
      /\ promptDetectCallback = "upgrade" /\ chunk = 0
  BY DEF TypeOK, NcpTypeOK, Upgrading, UpgradeInv, EzspModes
<1>1. toNcp' = toNcp => ~AshWritten
  BY <1>0 DEF AshWritten
<1>2. \A t : toNcp' = Append(toNcp, Simple(t)) => toNcp'[Len(toNcp')].type = t
  BY <1>0 DEF Simple
<1>3. ASSUME NEW c \in Commands \cup {Launch}, SendCommand(c)
      PROVE  ~AshWritten
  BY <1>0, <1>1, <1>3 DEF SendCommand, SendNextMsg, MaySend
<1>4. ~Reset
  BY FaultHappens DEF Reset, Upgrading
<1>5. CASE AckTimerExpires
  BY <1>1, <1>5 DEF AckTimerExpires, ResetFailed, wireVars
<1>6. CASE BlpProbes
  BY <1>1, <1>2, <1>6 DEF BlpProbes, AshWritten
<1>7. CASE PromptDetected
  BY <1>0, <1>1, <1>2, <1>7 DEF PromptDetected, MenuChoice, AshWritten
<1>8. CASE ReadChunk
  BY <1>1, <1>8 DEF ReadChunk
<1>9. ~Decode
  BY <1>0 DEF Decode, DecodeData, DecodeAck, DecodeNak, Nacked, DecodeRstAck, Connected, DecodeBad, DecodeNext
<1>10. ASSUME NEW p, DeliverInBootloader(p) \/ DeliverLaunch(p) \/ DeliverMessage(p)
       PROVE  ~AshWritten
  BY <1>0, <1>1, <1>10 DEF DeliverInBootloader, DeliverLaunch, DeliverMessage, HandleResponse
<1>11. CASE NcpNext
  BY <1>11, NcpNextLength DEF AshWritten
<1> QED
  BY <1>3, <1>4, <1>5, <1>6, <1>7, <1>8, <1>9, <1>10, <1>11 DEF Next, UserNext, HostNext, Deliver

(* From the request of an upgrade on, and until the user resets the dongle,  *)
(* the host writes nothing that AshDriver forged.                            *)
THEOREM UpgradeSafe == Spec => NoAshInUpgrade
<1>1. Init => UpgradeInv
  BY DEF Init, UpgradeInv
<1>2. TypeOK /\ UpgradeInv /\ [Next]_vars => UpgradeInv'
  BY NextUpgrade
<1>3. TypeOK /\ UpgradeInv /\ [Next]_vars
        => [Upgrading /\ "reset" \notin Happened' => ~AshWritten]_vars
  BY UpgradeStep
<1> QED BY <1>1, <1>2, <1>3, TypeCorrect, PTL DEF Spec, NoAshInUpgrade

-----------------------------------------------------------------------------
(* The queue moves on.  Before the start has timed out nothing starts the    *)
(* application of the adapter from its bootloader, so the response to Launch *)
(* is the last the adapter says, and the dongle that was told it is in       *)
(* bootloader mode decodes nothing anymore.                                  *)

NoRun(s) == \A i \in 1 .. Len(s) : s[i].type # "RUN"

Launches == {f \in NcpFrames : f.type = "DATA" /\ f.entry.cmd = Launch}
HasLaunch(s) == \E i \in 1 .. Len(s) : s[i] \in Launches
LaunchAtEnd(s) == \A i \in 1 .. Len(s) : s[i] \in Launches => i = Len(s)

Silent == ncpMode # "ezsp" /\ ncpTodo = <<>>

LaunchPending == \E i \in 1 .. Len(pending) : pending[i].cmd = Launch
Told ==
  LaunchPending \/ lastKnownMode \in BootloaderModes \/ promptDetectCallback = "upgrade"

LaunchIsLast ==
  /\ LaunchAtEnd(toHost)
  /\ HasLaunch(toHost) \/ HasLaunch(ncpUnacked) \/ Told => Silent
  /\ Told => toHost = <<>>

EnabledToSend ==
  \/ lastKnownMode = "EZSP_NCP"
  \/ lastKnownMode = "UNKNOWN" /\ (chunk > 0 \/ pending # <<>>)
  => enabled

StartInv ==
  firstStartup =>
    promptDetectCallback # "run" /\ NoRun(toNcp) /\ LaunchIsLast /\ EnabledToSend

FlakyInv == flaky => "write" \in Happened

LEMMA NoRunFacts ==
  ASSUME NEW s \in Seq(HostFrames), NoRun(s)
  PROVE  /\ \A f \in HostFrames : f.type # "RUN" => NoRun(Append(s, f))
         /\ s # <<>> => NoRun(Tail(s)) /\ NoRun(<<Simple("BAD")>> \o Tail(s))
<1>1. ASSUME NEW f \in HostFrames, f.type # "RUN" PROVE NoRun(Append(s, f))
  <2>1. /\ Len(Append(s, f)) = Len(s) + 1 /\ Append(s, f)[Len(s) + 1] = f
        /\ \A i \in 1 .. Len(s) : Append(s, f)[i] = s[i]
    BY SeqFacts
  <2> QED BY <1>1, <2>1, SeqFacts DEF NoRun
<1>2. ASSUME s # <<>> PROVE NoRun(Tail(s)) /\ NoRun(<<Simple("BAD")>> \o Tail(s))
  <2> DEFINE t == Tail(s)
             b == Simple("BAD")
             u == <<b>> \o t
  <2>1. /\ t \in Seq(HostFrames) /\ Len(t) = Len(s) - 1 /\ Len(s) \in Nat
        /\ \A i \in 1 .. Len(s) - 1 : t[i] = s[i + 1]
    BY <1>2, SeqFacts
  <2>2. NoRun(t)
    BY <2>1 DEF NoRun
  <2>3. b \in HostFrames /\ b.type # "RUN"
    BY HostFrameFacts DEF Simple
  <2> HIDE DEF t, b
  <2>4. Len(u) = Len(t) + 1 /\ \A i \in 1 .. Len(u) : u[i] = IF i = 1 THEN b ELSE t[i - 1]
    BY <2>1, <2>3
  <2> HIDE DEF u
  <2>5. NoRun(u)
    <3>1. Len(t) \in Nat
      BY <2>1
    <3> QED BY <2>2, <2>3, <2>4, <3>1 DEF NoRun
  <2> QED BY <2>2, <2>5 DEF t, u, b
<1> QED BY <1>1, <1>2

LEMMA WritesNoRun ==
  ASSUME NEW out \in Seq(HostFrames), NoRun(out)
  PROVE  /\ \A f \in HostFrames : f.type # "RUN" => NoRun(Written(out, f))
         /\ \A w \in FailedWrites(out) : NoRun(w)
<1>1. Simple("JUNK") \in HostFrames /\ Simple("JUNK").type # "RUN"
  BY HostFrameFacts DEF Simple
<1> QED BY <1>1, NoRunFacts DEF Written, FailedWrites

LEMMA AckWritesNoRun ==
  ASSUME TypeOK, NoRun(toNcp)
  PROVE  \A w \in AckWrites : NoRun(w)
<1> DEFINE a == [type |-> "ACK", ack |-> lastReceivedByNEAckNum]
<1>1. a \in HostFrames
  BY HostFrameFacts DEF TypeOK, ReadTypeOK
<1>2. a.type # "RUN"
  OBVIOUS
<1>3. toNcp \in Seq(HostFrames)
  BY DEF TypeOK, NcpTypeOK
<1> HIDE DEF a
<1>4. NoRun(Written(toNcp, a)) /\ \A w \in FailedWrites(toNcp) : NoRun(w)
  BY <1>1, <1>2, <1>3, WritesNoRun
<1> QED BY <1>4 DEF AckWrites, a

LEMMA SendNextMsgNoRun ==
  ASSUME TypeOK, NEW queue \in Seq(Entries), NEW wait, NEW mode, NEW frm \in FrmNums,
         NEW timer, NEW out \in Seq(HostFrames), NoRun(out),
         SendNextMsg(queue, wait, mode, frm, timer, out)
  PROVE  NoRun(toNcp')
<1>1. CASE MaySend(queue, wait, mode)
  <2> DEFINE f == Data(frm, lastReceivedByNEAckNum, Head(queue))
  <2>1. Head(queue) \in Entries
    BY <1>1, EntryInSeq DEF MaySend
  <2>2. f \in HostFrames
    BY <2>1, HostFrameFacts DEF TypeOK, ReadTypeOK
  <2>3. f.type # "RUN"
    BY DEF Data
  <2> HIDE DEF f
  <2>4. NoRun(Written(out, f)) /\ \A w \in FailedWrites(out) : NoRun(w)
    BY <2>2, <2>3, WritesNoRun
  <2>5. toNcp' \in {Written(out, f), out} \cup FailedWrites(out)
    BY <1>1 DEF SendNextMsg, f
  <2> QED BY <2>4, <2>5
<1>2. CASE ~MaySend(queue, wait, mode)
  BY <1>2 DEF SendNextMsg
<1> QED BY <1>1, <1>2

LEMMA ResetNoRun ==
  ASSUME NEW out \in Seq(HostFrames), NoRun(out), ResetDongle(out)
  PROVE  NoRun(toNcp')
<1>1. Simple("RST") \in HostFrames /\ Simple("RST").type # "RUN"
  BY HostFrameFacts DEF Simple
<1> QED BY <1>1, WritesNoRun DEF ResetDongle

(* Sequences in which the response to Launch is, or is not.                  *)
LEMMA NoLaunchFacts ==
  ASSUME NEW s \in Seq(NcpFrames), ~HasLaunch(s)
  PROVE  /\ \A f \in NcpFrames : /\ f \notin Launches => ~HasLaunch(Append(s, f))
                                 /\ LaunchAtEnd(Append(s, f))
         /\ LaunchAtEnd(s)
         /\ s # <<>> => ~HasLaunch(Tail(s)) /\ ~HasLaunch(<<Simple("BAD")>> \o Tail(s))
<1>1. ASSUME NEW f \in NcpFrames
      PROVE  /\ f \notin Launches => ~HasLaunch(Append(s, f))
             /\ LaunchAtEnd(Append(s, f))
  <2>1. /\ Len(Append(s, f)) = Len(s) + 1 /\ Append(s, f)[Len(s) + 1] = f
        /\ Len(s) \in Nat /\ \A i \in 1 .. Len(s) : Append(s, f)[i] = s[i]
    BY SeqFacts
  <2>2. \A i \in 1 .. Len(s) + 1 : i \in 1 .. Len(s) \/ i = Len(s) + 1
    BY <2>1
  <2> QED BY <2>1, <2>2 DEF HasLaunch, LaunchAtEnd
<1>2. ASSUME s # <<>> PROVE ~HasLaunch(Tail(s)) /\ ~HasLaunch(<<Simple("BAD")>> \o Tail(s))
  <2> DEFINE t == Tail(s)
             b == Simple("BAD")
             u == <<b>> \o t
  <2>1. /\ t \in Seq(NcpFrames) /\ Len(t) = Len(s) - 1 /\ Len(s) \in Nat
        /\ \A i \in 1 .. Len(s) - 1 : t[i] = s[i + 1]
    BY <1>2, SeqFacts
  <2>2. ~HasLaunch(t)
    <3>1. \A i \in 1 .. Len(t) : i + 1 \in 1 .. Len(s)
      BY <2>1
    <3> QED BY <2>1, <3>1 DEF HasLaunch
  <2>3. b \in NcpFrames /\ b \notin Launches
    BY NcpFrameFacts DEF Simple, Launches
  <2> HIDE DEF t, b
  <2>4. Len(u) = Len(t) + 1 /\ \A i \in 1 .. Len(u) : u[i] = IF i = 1 THEN b ELSE t[i - 1]
    BY <2>1, <2>3
  <2> HIDE DEF u
  <2>5. ~HasLaunch(u)
    <3>1. \A i \in 1 .. Len(u) : i # 1 => i - 1 \in 1 .. Len(t)
      BY <2>1, <2>4
    <3> QED BY <2>2, <2>3, <2>4, <3>1 DEF HasLaunch
  <2> QED BY <2>2, <2>5 DEF t, u, b
<1> QED BY <1>1, <1>2 DEF HasLaunch, LaunchAtEnd

(* What is left of a sequence that ended with it still does.                 *)
LEMMA LaunchAtEndTail ==
  ASSUME NEW s \in Seq(NcpFrames), s # <<>>, LaunchAtEnd(s)
  PROVE  /\ LaunchAtEnd(Tail(s)) /\ LaunchAtEnd(<<Simple("BAD")>> \o Tail(s))
         /\ HasLaunch(Tail(s)) \/ HasLaunch(<<Simple("BAD")>> \o Tail(s)) => HasLaunch(s)
         /\ Head(s) \in Launches => HasLaunch(s) /\ Tail(s) = <<>>
<1> DEFINE t == Tail(s)
           b == Simple("BAD")
           u == <<b>> \o t
<1>1. /\ t \in Seq(NcpFrames) /\ Len(t) = Len(s) - 1 /\ Len(s) \in Nat \ {0} /\ Head(s) = s[1]
      /\ \A i \in 1 .. Len(s) - 1 : t[i] = s[i + 1]
  BY SeqFacts
<1> HIDE DEF t, b
<1>2. \A i \in 1 .. Len(t) : i + 1 \in 1 .. Len(s)
  BY <1>1
<1>3. LaunchAtEnd(t) /\ (HasLaunch(t) => HasLaunch(s))
  <2>1. \A i \in 1 .. Len(t) : i + 1 \in 1 .. Len(s) /\ t[i] = s[i + 1]
    BY <1>1, <1>2
  <2>2. \A i \in 1 .. Len(t) : i + 1 = Len(s) => i = Len(t)
    BY <1>1
  <2> QED BY <2>1, <2>2 DEF HasLaunch, LaunchAtEnd
<1>4. b \in NcpFrames /\ b \notin Launches
  BY NcpFrameFacts DEF Simple, Launches, b
<1>5. Head(s) \in Launches => HasLaunch(s) /\ t = <<>>
  <2>1. 1 \in 1 .. Len(s)
    BY <1>1
  <2>2. Head(s) \in Launches => HasLaunch(s)
    BY <1>1, <2>1 DEF HasLaunch
  <2>3. Head(s) \in Launches => 1 = Len(s)
    BY <1>1, <2>1 DEF LaunchAtEnd
  <2>4. Len(t) = 0 => t = <<>>
    BY <1>1
  <2>5. 1 = Len(s) => Len(t) = 0
    BY <1>1
  <2> QED BY <2>2, <2>3, <2>4, <2>5
<1>6. Len(u) = Len(t) + 1 /\ \A i \in 1 .. Len(u) : u[i] = IF i = 1 THEN b ELSE t[i - 1]
  BY <1>1, <1>4
<1> HIDE DEF u
<1>7. LaunchAtEnd(u) /\ (HasLaunch(u) => HasLaunch(s))
  <2>1. \A i \in 1 .. Len(u) : i # 1 => i - 1 \in 1 .. Len(t)
    BY <1>1, <1>6
  <2>2. \A i \in 1 .. Len(u) : u[i] \in Launches => i - 1 \in 1 .. Len(t) /\ t[i - 1] \in Launches
    BY <1>4, <1>6, <2>1
  <2>3. HasLaunch(u) => HasLaunch(t)
    BY <2>2 DEF HasLaunch
  <2>4. LaunchAtEnd(u)
    BY <1>1, <1>3, <1>6, <2>2 DEF LaunchAtEnd
  <2> QED BY <1>3, <2>3, <2>4
<1> QED BY <1>3, <1>5, <1>7 DEF t, u, b

(* An adapter that restarted in its bootloader says nothing more, unless it  *)
(* is told to run its application.                                           *)
LEMMA AdapterStaysSilent ==
  ASSUME TypeOK, Silent, NoRun(toNcp), NcpNext
  PROVE  /\ Silent' /\ UNCHANGED ncpUnacked
         /\ \/ UNCHANGED toHost
            \/ toHost # <<>> /\ toHost' = <<Simple("BAD")>> \o Tail(toHost)
<1>1. toNcp # <<>> => Head(toNcp).type # "RUN"
  BY SeqFacts DEF NoRun, TypeOK, NcpTypeOK
<1> QED BY <1>1
  DEF Silent, NcpNext, NcpReceives, NcpReadsReset, NcpAcceptsData, NcpRejectsFrame, NcpReadsAck,
      NcpReadsJunk, NcpReadsRun, NcpReadsUpgrade, NcpIgnores, NcpResponds, NcpCallsBack,
      NcpRetransmits, NcpResets, NoiseToNcp, NoiseToHost, LineDegrades, LineRecovers, wireVars,
      adapterVars

LEMMA AckedIs == \A a : Acked(a) \in {<<>>, ncpUnacked}
BY DEF Acked

LEMMA NoLaunchHere ==
  /\ ~HasLaunch(<<>>)
  /\ \A f : f \notin Launches => ~HasLaunch(<<f>>)
<1>1. Len(<<>>) = 0
  OBVIOUS
<1>2. \A f : Len(<<f>>) = 1 /\ <<f>>[1] = f
  OBVIOUS
<1> QED BY <1>1, <1>2 DEF HasLaunch

(* Until it answers Launch, the adapter does not say so.                     *)
LEMMA AdapterSaysLaunch ==
  ASSUME TypeOK, ~HasLaunch(toHost), ~HasLaunch(ncpUnacked), NcpNext
  PROVE  \/ ~HasLaunch(toHost') /\ ~HasLaunch(ncpUnacked')
         \/ Silent' /\ LaunchAtEnd(toHost')
<1>0. toHost \in Seq(NcpFrames) /\ ncpUnacked \in Seq(DataFrames) /\ ncpTodo \in Seq(Entries)
      /\ ncpTx \in FrmNums /\ ncpRx \in FrmNums
  BY DEF TypeOK, NcpTypeOK
<1>1. ASSUME NEW f \in NcpFrames PROVE f.type # "DATA" => ~HasLaunch(Append(toHost, f))
  BY <1>0, NoLaunchFacts DEF Launches
<1>2. /\ ~HasLaunch(Append(toHost, Simple("ACK"))) /\ ~HasLaunch(Nak)
      /\ \A b \in BOOLEAN : ~HasLaunch(Append(toHost, [type |-> "RSTACK", good |-> b]))
  BY <1>0, <1>1, NcpFrameFacts DEF Nak, Simple
<1>3. CASE NcpReceives
  <2> SUFFICES ASSUME NEW f, \/ NcpReadsReset(f) \/ NcpAcceptsData(f) \/ NcpRejectsFrame(f)
                             \/ NcpReadsAck(f) \/ NcpReadsJunk(f) \/ NcpReadsRun(f)
                             \/ NcpReadsUpgrade(f) \/ NcpIgnores(f)
               PROVE  ~HasLaunch(toHost') /\ ~HasLaunch(ncpUnacked')
    BY <1>3 DEF NcpReceives
  <2>1. ncpUnacked' \in {<<>>, ncpUnacked}
    BY AckedIs DEF NcpReadsReset, NcpAcceptsData, NcpRejectsFrame, NcpReadsAck, NcpReadsJunk,
                   NcpReadsRun, NcpReadsUpgrade, NcpIgnores, StartAsh
  <2>2. \/ toHost' \in {toHost, Nak, Append(toHost, Simple("ACK"))}
        \/ \E b \in BOOLEAN : toHost' = Append(toHost, [type |-> "RSTACK", good |-> b])
    BY DEF NcpReadsReset, NcpAcceptsData, NcpRejectsFrame, NcpReadsAck, NcpReadsJunk,
           NcpReadsRun, NcpReadsUpgrade, NcpIgnores, StartAsh
  <2> QED BY <1>2, <2>1, <2>2, NoLaunchHere
<1>4. ASSUME NEW e \in Entries, SendsData(e)
      PROVE  /\ LaunchAtEnd(toHost')
             /\ e.cmd # Launch => ~HasLaunch(toHost') /\ ~HasLaunch(ncpUnacked')
  <2> DEFINE f == Data(ncpTx, ncpRx, e)
  <2>1. f \in NcpFrames /\ (e.cmd # Launch => f \notin Launches)
    BY <1>0, HostFrameFacts DEF Launches, Data
  <2>2. toHost' = Append(toHost, f) /\ ncpUnacked' = <<f>>
    BY <1>4 DEF SendsData
  <2> HIDE DEF f
  <2> QED BY <1>0, <2>1, <2>2, NoLaunchFacts, NoLaunchHere
<1>5. CASE NcpResponds
  <2>1. Head(ncpTodo) \in Entries /\ SendsData(Head(ncpTodo))
    BY <1>0, <1>5, EntryInSeq DEF NcpResponds
  <2>2. Head(ncpTodo).cmd = Launch => Silent'
    BY <1>5 DEF NcpResponds, Silent
  <2> QED BY <1>4, <2>1, <2>2
<1>6. CASE \E c \in Callbacks : NcpCallsBack(c)
  <2>1. PICK c \in Callbacks : NcpCallsBack(c)
    BY <1>6
  <2> DEFINE e == [tag |-> 0, cmd |-> c]
  <2>2. e \in Entries /\ SendsData(e) /\ e.cmd # Launch
    BY <2>1, NcpAssumption DEF NcpCallsBack, Entries, EzspCmds
  <2> HIDE DEF e
  <2> QED BY <1>4, <2>2
<1>7. CASE NcpRetransmits
  <2>1. Head(ncpUnacked) \in NcpFrames /\ Head(ncpUnacked) \notin Launches
    BY <1>0, <1>7, SeqFacts DEF NcpRetransmits, HasLaunch, NcpFrames
  <2> QED BY <1>0, <1>7, <2>1, NoLaunchFacts DEF NcpRetransmits, adapterVars
<1>8. CASE NcpResets
  BY <1>2, <1>8, NoLaunchHere DEF NcpResets, StartAsh
<1>9. CASE NoiseToHost
  BY <1>0, <1>9, NoLaunchFacts DEF NoiseToHost, adapterVars
<1>10. CASE NoiseToNcp \/ LineDegrades \/ LineRecovers
  BY <1>10 DEF NoiseToNcp, LineDegrades, LineRecovers, adapterVars, wireVars
<1> QED BY <1>3, <1>5, <1>6, <1>7, <1>8, <1>9, <1>10 DEF NcpNext

LEMMA StartedOnce ==
  ASSUME TypeOK, [Next]_vars, firstStartup'
  PROVE  firstStartup
<1>1. UserNext => UNCHANGED firstStartup
  BY DEF UserNext, SendCommand, Reset, modeVars, startVars
<1>2. HostNext => firstStartup' \in {firstStartup, FALSE}
  BY DEF HostNext, AckTimerExpires, ResetFailed, BlpProbes, PromptDetected, ReadChunk, Decode,
         DecodeData, DecodeAck, DecodeNak, Nacked, DecodeRstAck, Connected, DecodeBad, DecodeNext,
         Deliver, DeliverNext, DeliverInBootloader, DeliverLaunch, DeliverMessage,
         HandleResponse, modeVars, startVars
<1> QED BY <1>1, <1>2 DEF Next, vars, hostVars, modeVars, startVars

(* Steps that leave alone what the adapter said and what the dongle was told.*)
LEMMA LaunchIsLastKept ==
  ASSUME LaunchIsLast, UNCHANGED <<toHost, ncpUnacked, ncpMode, ncpTodo>>, Told' => Told
  PROVE  LaunchIsLast'
BY DEF LaunchIsLast, Silent

LEMMA StartUser ==
  ASSUME TypeOK, StartInv, firstStartup, UserNext
  PROVE  StartInv'
<1>0. /\ promptDetectCallback # "run" /\ NoRun(toNcp) /\ LaunchIsLast /\ EnabledToSend
      /\ toNcp \in Seq(HostFrames) /\ frmNum \in FrmNums
  BY DEF StartInv, TypeOK, NcpTypeOK, SendTypeOK
<1>1. ASSUME NEW c \in Commands \cup {Launch}, SendCommand(c)
      PROVE  StartInv'
  <2>1. UNCHANGED <<modeVars, readVars, toHost, adapterVars>>
    BY <1>1 DEF SendCommand
  <2>2. LaunchIsLast'
    BY <1>0, <2>1, LaunchIsLastKept DEF Told, LaunchPending, modeVars, readVars, adapterVars
  <2>3. Queued(c) \in Seq(Entries)
    BY QueuedType DEF TypeOK
  <2>4. SendNextMsg(Queued(c), wait_rsp, lastKnownMode, frmNum, ackTimer, toNcp)
    BY <1>1 DEF SendCommand
  <2>5. NoRun(toNcp')
    BY <1>0, <2>3, <2>4, SendNextMsgNoRun
  <2>6. promptDetectCallback' # "run" /\ EnabledToSend'
    BY <1>0, <2>1 DEF EnabledToSend, modeVars, readVars
  <2> QED BY <2>2, <2>5, <2>6 DEF StartInv
<1>2. CASE Reset
  <2>1. /\ ResetDongle(toNcp)
        /\ UNCHANGED <<lastKnownMode, promptDetectCallback, readVars, toHost, adapterVars>>
    BY <1>2 DEF Reset
  <2>2. LaunchIsLast'
    BY <1>0, <2>1, LaunchIsLastKept DEF Told, LaunchPending, readVars, adapterVars
  <2>3. NoRun(toNcp')
    BY <1>0, <2>1, ResetNoRun
  <2>4. promptDetectCallback' # "run" /\ EnabledToSend'
    BY <1>0, <2>1 DEF EnabledToSend, ResetDongle
  <2> QED BY <2>2, <2>3, <2>4 DEF StartInv
<1> QED BY <1>1, <1>2 DEF UserNext

(* The timer and the bootloader driver: an expiry that ends the start ends   *)
(* the claim, and the prompt is only detected for an upgrade.                *)
LEMMA StartTimers ==
  ASSUME TypeOK, StartInv, firstStartup, firstStartup',
         AckTimerExpires \/ BlpProbes \/ PromptDetected
  PROVE  StartInv'
<1>0. /\ promptDetectCallback # "run" /\ NoRun(toNcp) /\ LaunchIsLast /\ EnabledToSend
      /\ toNcp \in Seq(HostFrames)
  BY DEF StartInv, TypeOK, NcpTypeOK
<1>1. CASE AckTimerExpires
  <2>1. UNCHANGED <<modeVars, readVars, wireVars, adapterVars>>
    BY <1>1 DEF AckTimerExpires, ResetFailed
  <2>2. LaunchIsLast'
    BY <1>0, <2>1, LaunchIsLastKept DEF Told, LaunchPending, modeVars, readVars, wireVars,
                                        adapterVars
  <2> QED BY <1>0, <2>1, <2>2 DEF StartInv, EnabledToSend, modeVars, readVars, wireVars
<1>2. CASE BlpProbes
  <2>1. /\ UNCHANGED <<lastKnownMode, enabled, promptDetectCallback, readVars, toHost, adapterVars>>
        /\ toNcp' \in {toNcp, Append(toNcp, Simple("JUNK"))}
    BY <1>2 DEF BlpProbes, ncpOnlyVars
  <2>2. LaunchIsLast'
    BY <1>0, <2>1, LaunchIsLastKept DEF Told, LaunchPending, readVars, adapterVars
  <2>3. NoRun(toNcp')
    BY <1>0, <2>1, NoRunFacts, HostFrameFacts DEF Simple
  <2> QED BY <1>0, <2>1, <2>2, <2>3 DEF StartInv, EnabledToSend, readVars
<1>3. CASE PromptDetected
  <2>1. /\ UNCHANGED <<promptDetectCallback, readVars, toHost, adapterVars>>
        /\ promptDetectCallback = "upgrade"
        /\ lastKnownMode' = "BOOTLOADER_FIRMWARE_UPGRADE"
        /\ toNcp' \in {toNcp, Append(toNcp, Simple("UPGRADE"))}
    BY <1>0, <1>3 DEF PromptDetected, MenuChoice, ncpOnlyVars
  <2>2. LaunchIsLast'
    BY <1>0, <2>1, LaunchIsLastKept DEF Told, readVars, adapterVars
  <2>3. NoRun(toNcp')
    BY <1>0, <2>1, NoRunFacts, HostFrameFacts DEF Simple
  <2> QED BY <1>0, <2>1, <2>2, <2>3 DEF StartInv, EnabledToSend
<1> QED BY <1>1, <1>2, <1>3

LEMMA StartReadChunk ==
  ASSUME TypeOK, StartInv, firstStartup, ReadChunk
  PROVE  StartInv'
<1>0. /\ promptDetectCallback # "run" /\ NoRun(toNcp) /\ LaunchIsLast /\ EnabledToSend
      /\ toHost \in Seq(NcpFrames) /\ toHost # <<>>
  BY DEF StartInv, TypeOK, NcpTypeOK, ReadChunk
<1>1. /\ UNCHANGED <<modeVars, pending, toNcp, adapterVars>>
      /\ ~Told
      /\ \/ enabled /\ UNCHANGED toHost
         \/ ~enabled /\ toHost' = Tail(toHost) /\ UNCHANGED chunk
  BY <1>0 DEF ReadChunk, LaunchIsLast, ncpOnlyVars
<1>2. ~Told'
  BY <1>1 DEF Told, LaunchPending, modeVars
<1>3. /\ LaunchAtEnd(toHost) => LaunchAtEnd(toHost')
      /\ HasLaunch(toHost') => HasLaunch(toHost)
  BY <1>0, <1>1, LaunchAtEndTail DEF LaunchIsLast
<1>4. LaunchIsLast'
  BY <1>0, <1>1, <1>2, <1>3 DEF LaunchIsLast, Silent, adapterVars
<1>5. EnabledToSend'
  BY <1>0, <1>1 DEF EnabledToSend, modeVars
<1> QED BY <1>0, <1>1, <1>4, <1>5 DEF StartInv, modeVars

(* The response to Launch becomes pending when it is decoded.                *)
LEMMA DecodeLaunch ==
  ASSUME TypeOK, Decode
  PROVE  LaunchPending' => LaunchPending \/ Head(toHost) \in Launches
<1>0. toHost \in Seq(NcpFrames) /\ pending \in Seq(Entries)
  BY DEF TypeOK, NcpTypeOK, ReadTypeOK
<1>1. UNCHANGED pending => (LaunchPending' => LaunchPending)
  BY DEF LaunchPending
<1>2. CASE DecodeData
  <2>1. Head(toHost) \in NcpFrames /\ Head(toHost).type = "DATA"
    BY <1>0, <1>2, SeqFacts DEF DecodeData, DecodeNext
  <2>2. Head(toHost).entry \in Entries /\ pending' = Append(pending, Head(toHost).entry)
    BY <1>2, <2>1, FieldFacts DEF DecodeData
  <2> DEFINE e == Head(toHost).entry
  <2>3. e.cmd = Launch => Head(toHost) \in Launches
    BY <2>1 DEF Launches
  <2>4. /\ Len(pending') = Len(pending) + 1 /\ pending'[Len(pending) + 1] = e
        /\ Len(pending) \in Nat /\ \A i \in 1 .. Len(pending) : pending'[i] = pending[i]
    BY <1>0, <2>2, SeqFacts
  <2> HIDE DEF e
  <2>5. \A i \in 1 .. Len(pending') : i \in 1 .. Len(pending) \/ i = Len(pending) + 1
    BY <2>4
  <2>6. LaunchPending' => LaunchPending \/ e.cmd = Launch
    BY <2>4, <2>5 DEF LaunchPending
  <2> QED BY <2>3, <2>6
<1>3. CASE ~DecodeData
  BY <1>1, <1>3 DEF Decode, DecodeAck, DecodeNak, Nacked, DecodeRstAck, Connected, DecodeBad
<1> QED BY <1>2, <1>3

(* A dongle that decodes was not told that the adapter left its application, *)
(* and learns it from the last frame there is to decode.                     *)
LEMMA StartDecode ==
  ASSUME TypeOK, StartInv, firstStartup, Decode
  PROVE  StartInv'
<1>0. /\ promptDetectCallback # "run" /\ NoRun(toNcp) /\ LaunchIsLast /\ EnabledToSend
      /\ toHost \in Seq(NcpFrames) /\ toNcp \in Seq(HostFrames) /\ pending \in Seq(Entries)
      /\ sendingMsgQueue \in Seq(Entries) /\ frmNum \in FrmNums
      /\ lastKnownMode \in EzspModes \cup BootloaderModes
  BY DEF StartInv, TypeOK, NcpTypeOK, ReadTypeOK, QueueTypeOK, SendTypeOK, ModeTypeOK
<1>1. /\ chunk > 0 /\ toHost # <<>> /\ toHost' = Tail(toHost)
      /\ UNCHANGED <<enabled, promptDetectCallback, adapterVars>>
      /\ lastKnownMode' \in {lastKnownMode, "EZSP_NCP"}
  BY DEF Decode, DecodeData, DecodeAck, DecodeNak, Nacked, DecodeRstAck, Connected, DecodeBad,
         DecodeNext, ncpOnlyVars
<1>2. ~Told /\ lastKnownMode \in EzspModes /\ enabled
  BY <1>0, <1>1 DEF LaunchIsLast, Told, EnabledToSend, EzspModes
<1>3. /\ LaunchAtEnd(toHost')
      /\ HasLaunch(toHost') => HasLaunch(toHost)
      /\ Head(toHost) \in Launches => HasLaunch(toHost) /\ toHost' = <<>>
  BY <1>0, <1>1, LaunchAtEndTail DEF LaunchIsLast
<1>4. Told' => Head(toHost) \in Launches
  <2>1. Told' => LaunchPending'
    BY <1>1, <1>2 DEF Told, EzspModes, BootloaderModes
  <2> QED BY <1>2, <2>1, DecodeLaunch DEF Told
<1>5. LaunchIsLast'
  <2>1. UNCHANGED <<ncpUnacked, ncpMode, ncpTodo>>
    BY <1>1 DEF adapterVars
  <2>2. HasLaunch(toHost') \/ HasLaunch(ncpUnacked') \/ Told' => Silent'
    BY <1>0, <1>3, <1>4, <2>1 DEF LaunchIsLast, Silent
  <2> QED BY <1>3, <1>4, <2>2 DEF LaunchIsLast
<1>6. NoRun(toNcp')
  <2>1. CASE DecodeNak
    <3>1. Head(toHost) \in NcpFrames /\ Head(toHost).type = "NAK"
      BY <2>1, DecodeNextType DEF DecodeNak
    <3>2. Head(toHost).num \in FrmNums
      BY <3>1, FieldFacts
    <3> QED BY <1>0, <2>1, <3>2, SendNextMsgNoRun DEF DecodeNak, Nacked
  <2>2. CASE DecodeRstAck
    <3>1. ASSUME NEW c \in Commands,
                 SendNextMsg(Queued(c), wait_rsp, lastKnownMode, frmNum, FALSE, toNcp)
          PROVE  NoRun(toNcp')
      <4>1. Queued(c) \in Seq(Entries)
        BY QueuedType DEF TypeOK
      <4> QED BY <1>0, <3>1, <4>1, SendNextMsgNoRun
    <3> QED BY <1>0, <2>2, <3>1 DEF DecodeRstAck, Connected
  <2>3. CASE DecodeData \/ DecodeAck \/ DecodeBad
    BY <1>0, <2>3 DEF DecodeData, DecodeAck, DecodeBad
  <2> QED BY <2>1, <2>2, <2>3 DEF Decode
<1> QED BY <1>0, <1>1, <1>2, <1>5, <1>6 DEF StartInv, EnabledToSend

LEMMA PendingTail ==
  ASSUME TypeOK, pending # <<>>, pending' = Tail(pending)
  PROVE  /\ LaunchPending' => LaunchPending
         /\ Head(pending).cmd = Launch => LaunchPending
<1>1. pending \in Seq(Entries)
  BY DEF TypeOK, ReadTypeOK
<1>2. /\ Head(pending) = pending[1] /\ 1 \in 1 .. Len(pending)
      /\ \A i \in 1 .. Len(pending') : i + 1 \in 1 .. Len(pending) /\ pending'[i] = pending[i + 1]
  BY <1>1, SeqFacts
<1> QED BY <1>2 DEF LaunchPending

LEMMA StartDeliver ==
  ASSUME TypeOK, StartInv, firstStartup, Deliver
  PROVE  StartInv'
<1>0. /\ promptDetectCallback # "run" /\ NoRun(toNcp) /\ LaunchIsLast /\ EnabledToSend
      /\ toNcp \in Seq(HostFrames) /\ pending \in Seq(Entries)
      /\ sendingMsgQueue \in Seq(Entries) /\ frmNum \in FrmNums
  BY DEF StartInv, TypeOK, NcpTypeOK, ReadTypeOK, QueueTypeOK, SendTypeOK
<1>1. PICK p \in {pending[i] : i \in 1 .. Len(pending)} :
        DeliverInBootloader(p) \/ DeliverLaunch(p) \/ DeliverMessage(p)
  BY DEF Deliver
<1>2. /\ chunk = 0 /\ pending # <<>> /\ p = Head(pending) /\ pending' = Tail(pending)
      /\ UNCHANGED <<chunk, toHost, adapterVars>>
  BY <1>1 DEF DeliverInBootloader, DeliverLaunch, DeliverMessage, HandleResponse, DeliverNext,
              ncpOnlyVars
<1>3. LaunchPending' => LaunchPending
  BY <1>2, PendingTail
<1>4. CASE DeliverInBootloader(p)
  <2>1. UNCHANGED <<lastKnownMode, enabled, promptDetectCallback, toNcp>>
        /\ lastKnownMode \notin EzspModes
    BY <1>4 DEF DeliverInBootloader
  <2>2. LaunchIsLast'
    BY <1>0, <1>2, <1>3, <2>1, LaunchIsLastKept DEF Told, adapterVars
  <2> QED BY <1>0, <2>1, <2>2 DEF StartInv, EnabledToSend, EzspModes
<1>5. CASE DeliverLaunch(p)
  <2>1. LaunchPending
    BY <1>2, <1>5, PendingTail DEF DeliverLaunch
  <2>2. /\ UNCHANGED toNcp /\ lastKnownMode' = "BOOTLOADER_FIRMWARE_UPGRADE"
        /\ promptDetectCallback' = "upgrade"
    BY <1>5 DEF DeliverLaunch, SetMode
  <2>3. LaunchIsLast'
    BY <1>0, <1>2, <2>1, LaunchIsLastKept DEF Told, adapterVars
  <2> QED BY <1>0, <2>2, <2>3 DEF StartInv, EnabledToSend
<1>6. CASE DeliverMessage(p)
  <2>1. UNCHANGED <<lastKnownMode, enabled, promptDetectCallback>> /\ lastKnownMode \in EzspModes
    BY <1>6 DEF DeliverMessage, HandleResponse
  <2>2. LaunchIsLast'
    BY <1>0, <1>2, <1>3, <2>1, LaunchIsLastKept DEF Told, adapterVars
  <2>3. PICK out \in AckWrites :
          IF IsResponse(p)
          THEN SendNextMsg(Tail(sendingMsgQueue), FALSE, lastKnownMode, frmNum, ackTimer, out)
          ELSE toNcp' = out
    BY <1>6 DEF DeliverMessage, HandleResponse
  <2>4. NoRun(out) /\ out \in Seq(HostFrames)
    BY <1>0, AckWritesNoRun, AckWritesType
  <2>5. NoRun(toNcp')
    <3>1. IsResponse(p) => Tail(sendingMsgQueue) \in Seq(Entries)
      BY <1>0, EntryInSeq DEF IsResponse
    <3> QED BY <1>0, <2>3, <2>4, <3>1, SendNextMsgNoRun
  <2>6. EnabledToSend'
    BY <1>0, <1>2, <2>1 DEF EnabledToSend
  <2> QED BY <1>0, <2>1, <2>2, <2>5, <2>6 DEF StartInv
<1> QED BY <1>1, <1>4, <1>5, <1>6

LEMMA StartNcp ==
  ASSUME TypeOK, StartInv, firstStartup, NcpNext, UNCHANGED hostVars
  PROVE  StartInv'
<1>0. /\ promptDetectCallback # "run" /\ NoRun(toNcp) /\ LaunchIsLast /\ EnabledToSend
      /\ toHost \in Seq(NcpFrames) /\ toNcp \in Seq(HostFrames)
  BY DEF StartInv, TypeOK, NcpTypeOK
<1>1. /\ UNCHANGED <<lastKnownMode, enabled, promptDetectCallback, chunk, pending>>
      /\ Told' <=> Told
  BY DEF hostVars, modeVars, readVars, Told, LaunchPending
<1>2. NoRun(toNcp')
  <2>1. \/ toNcp' = toNcp
        \/ toNcp # <<>> /\ toNcp' = Tail(toNcp)
        \/ toNcp # <<>> /\ toNcp' = <<Simple("BAD")>> \o Tail(toNcp)
        \/ Len(toNcp) > 1 /\ toNcp' = <<Simple("BAD")>> \o Tail(Tail(toNcp))
    BY DEF NcpNext, NcpReceives, NcpReadsReset, NcpAcceptsData, NcpRejectsFrame, NcpReadsAck,
           NcpReadsJunk, NcpReadsRun, NcpReadsUpgrade, NcpIgnores, NcpResponds, NcpCallsBack,
           NcpRetransmits, NcpResets, NoiseToNcp, NoiseToHost, LineDegrades, LineRecovers, wireVars
  <2>2. ASSUME Len(toNcp) > 1 PROVE NoRun(<<Simple("BAD")>> \o Tail(Tail(toNcp)))
    <3>1. PICK t : t = Tail(toNcp)
      OBVIOUS
    <3>2. t \in Seq(HostFrames) /\ Len(t) = Len(toNcp) - 1 /\ Len(toNcp) \in Nat
      BY <1>0, <2>2, <3>1, SeqFacts
    <3>3. t # <<>>
      BY <2>2, <3>2
    <3>4. toNcp # <<>>
      BY <2>2
    <3>5. NoRun(t)
      BY <1>0, <3>1, <3>4, NoRunFacts
    <3> QED BY <3>1, <3>2, <3>3, <3>5, NoRunFacts
  <2> QED BY <1>0, <2>1, <2>2, NoRunFacts
<1>3. LaunchIsLast'
  <2>1. CASE Silent
    <3>1. /\ Silent' /\ UNCHANGED ncpUnacked
          /\ \/ UNCHANGED toHost
             \/ toHost # <<>> /\ toHost' = <<Simple("BAD")>> \o Tail(toHost)
      BY <1>0, <2>1, AdapterStaysSilent
    <3>2. LaunchAtEnd(toHost')
      BY <1>0, <3>1, LaunchAtEndTail DEF LaunchIsLast
    <3> QED BY <1>0, <1>1, <3>1, <3>2 DEF LaunchIsLast
  <2>2. CASE ~Silent
    <3>1. ~HasLaunch(toHost) /\ ~HasLaunch(ncpUnacked) /\ ~Told'
      BY <1>0, <1>1, <2>2 DEF LaunchIsLast
    <3>2. \/ ~HasLaunch(toHost') /\ ~HasLaunch(ncpUnacked')
          \/ Silent' /\ LaunchAtEnd(toHost')
      BY <3>1, AdapterSaysLaunch
    <3>3. ~HasLaunch(toHost') => LaunchAtEnd(toHost')
      BY DEF HasLaunch, LaunchAtEnd
    <3> QED BY <3>1, <3>2, <3>3 DEF LaunchIsLast
  <2> QED BY <2>1, <2>2
<1> QED BY <1>0, <1>1, <1>2, <1>3 DEF StartInv, EnabledToSend

LEMMA NextStart ==
  ASSUME TypeOK, StartInv, [Next]_vars
  PROVE  StartInv'
<1> SUFFICES ASSUME firstStartup' PROVE StartInv'
  BY DEF StartInv
<1>0. firstStartup
  BY StartedOnce
<1>1. CASE UNCHANGED vars
  BY <1>1 DEF StartInv, LaunchIsLast, Told, LaunchPending, Silent, EnabledToSend, vars, hostVars,
              modeVars, startVars, readVars, wireVars, ncpOnlyVars, adapterVars
<1> QED
  BY <1>0, <1>1, StartUser, StartTimers, StartReadChunk, StartDecode, StartDeliver, StartNcp
     DEF Next, HostNext

(* A write is lost only after the line degraded.                             *)
LEMMA NextFlaky ==
  ASSUME TypeOK, FlakyInv, [Next]_vars
  PROVE  FlakyInv'
<1>1. CASE LineDegrades
  BY <1>1, FaultHappens DEF LineDegrades, FlakyInv
<1>2. ~LineDegrades => flaky' \in {flaky, FALSE}
  <2>1. UserNext => UNCHANGED flaky
    BY DEF UserNext, SendCommand, Reset
  <2>2. HostNext => UNCHANGED flaky
    BY DEF HostNext, AckTimerExpires, BlpProbes, PromptDetected, ReadChunk, Decode, DecodeData,
           DecodeAck, DecodeNak, Nacked, DecodeRstAck, Connected, DecodeBad, DecodeNext, Deliver,
           DeliverNext, DeliverInBootloader, DeliverLaunch, DeliverMessage, HandleResponse,
           ncpOnlyVars
  <2>3. NcpNext => LineDegrades \/ flaky' \in {flaky, FALSE}
    BY DEF NcpNext, NcpReceives, NcpResponds, NcpCallsBack, NcpRetransmits, NcpResets,
           NoiseToNcp, NoiseToHost, LineRecovers
  <2> QED BY <2>1, <2>2, <2>3 DEF Next, vars, ncpOnlyVars
<1>3. ~LineDegrades => FlakyInv'
  BY <1>2, FaultsGrow DEF FlakyInv
<1> QED BY <1>1, <1>3

(* In an EZSP mode, with AshDriver enabled and a sound line, sendNextMsg()   *)
(* leaves nothing queued that is not under way.                              *)
LEMMA SendNextMsgWaits ==
  ASSUME NEW queue, NEW wait, NEW mode \in EzspModes, NEW frm, NEW timer, NEW out,
         SendNextMsg(queue, wait, mode, frm, timer, out), enabled, ~flaky
  PROVE  queue # <<>> => wait_rsp'
BY DEF SendNextMsg, MaySend

LEMMA NextWaits ==
  ASSUME TypeOK, StartInv, FlakyInv, WaitingUnlessRefused, [Next]_vars
  PROVE  WaitingUnlessRefused'
<1> SUFFICES ASSUME firstStartup', Happened' \cap {"write", "early"} = {}
             PROVE  WaitingWhenQueued'
  BY DEF WaitingUnlessRefused
<1>1. /\ firstStartup /\ Happened \cap {"write", "early"} = {} /\ ~flaky
      /\ sendingMsgQueue # <<>> => wait_rsp
  BY StartedOnce, FaultsGrow DEF FlakyInv, WaitingUnlessRefused, WaitingWhenQueued
<1>2. /\ LaunchIsLast /\ EnabledToSend
      /\ lastKnownMode \in EzspModes \cup BootloaderModes
  BY <1>1 DEF StartInv, TypeOK, ModeTypeOK
<1>3. UNCHANGED queueVars => WaitingWhenQueued'
  BY <1>1 DEF WaitingWhenQueued, queueVars
<1>4. ASSUME NEW c \in Commands \cup {Launch}, SendCommand(c)
      PROVE  WaitingWhenQueued'
  <2>1. Ready
    BY <1>4, FaultHappens DEF SendCommand
  <2>2. enabled /\ lastKnownMode \in EzspModes
    BY <1>2, <2>1 DEF Ready, EnabledToSend, EzspModes
  <2> QED BY <1>1, <1>4, <2>2, SendNextMsgWaits DEF SendCommand, WaitingWhenQueued
<1>5. CASE Decode
  <2>1. chunk > 0 /\ toHost # <<>>
    BY <1>5 DEF Decode, DecodeData, DecodeAck, DecodeNak, Nacked, DecodeRstAck, Connected,
                DecodeBad, DecodeNext
  <2>2. enabled /\ lastKnownMode \in EzspModes
    BY <1>2, <2>1 DEF LaunchIsLast, Told, EnabledToSend, EzspModes
  <2>3. CASE DecodeNak
    BY <1>1, <2>2, <2>3, SendNextMsgWaits DEF DecodeNak, Nacked, WaitingWhenQueued
  <2>4. CASE DecodeRstAck
    <3>1. ASSUME NEW c \in Commands, sendingMsgQueue' = Queued(c),
                 SendNextMsg(Queued(c), wait_rsp, lastKnownMode, frmNum, FALSE, toNcp)
          PROVE  WaitingWhenQueued'
      BY <1>1, <2>2, <3>1, SendNextMsgWaits DEF WaitingWhenQueued
    <3> QED BY <1>3, <2>4, <3>1 DEF DecodeRstAck, Connected
  <2>5. CASE DecodeData \/ DecodeAck \/ DecodeBad
    BY <1>3, <2>5 DEF DecodeData, DecodeAck, DecodeBad
  <2> QED BY <1>5, <2>3, <2>4, <2>5 DEF Decode
<1>6. ASSUME NEW p, DeliverMessage(p)
      PROVE  WaitingWhenQueued'
  <2>1. enabled /\ lastKnownMode \in EzspModes
    BY <1>2, <1>6 DEF DeliverMessage, DeliverNext, EnabledToSend, EzspModes
  <2>2. CASE IsResponse(p)
    BY <1>1, <1>6, <2>1, <2>2, SendNextMsgWaits DEF DeliverMessage, HandleResponse,
                                                    WaitingWhenQueued
  <2>3. CASE ~IsResponse(p)
    BY <1>3, <1>6, <2>3 DEF DeliverMessage, HandleResponse
  <2> QED BY <2>2, <2>3
<1>7. ASSUME NEW p, DeliverInBootloader(p) \/ DeliverLaunch(p)
      PROVE  WaitingWhenQueued'
  BY <1>3, <1>7 DEF DeliverInBootloader, DeliverLaunch
<1>8. CASE Reset \/ AckTimerExpires \/ BlpProbes \/ PromptDetected \/ ReadChunk
  BY <1>3, <1>8 DEF Reset, AckTimerExpires, ResetFailed, BlpProbes, PromptDetected, ReadChunk
<1>9. CASE UNCHANGED hostVars
  BY <1>3, <1>9 DEF hostVars
<1>10. UNCHANGED vars => UNCHANGED hostVars
  BY DEF vars
<1> QED
  BY <1>4, <1>5, <1>6, <1>7, <1>8, <1>9, <1>10 DEF Next, UserNext, HostNext, Deliver

(* "when sendingMsgQueue is not empty, wait_rsp should be true"              *)
(* (ezsp-dongle.cpp:437) holds of every queue, whatever noise, restarts of   *)
(* the adapter, retransmissions and resets do, until the start times out, a  *)
(* write is lost or a command is issued while the dongle is not ready: there *)
(* is always a response under way that makes the queue move on.              *)
THEOREM QueueMovesOn == Spec => []WaitingUnlessRefused
<1>1. Init => StartInv /\ FlakyInv /\ WaitingUnlessRefused
  <2> SUFFICES ASSUME Init PROVE StartInv /\ FlakyInv /\ WaitingUnlessRefused
    OBVIOUS
  <2>1. /\ toNcp = <<>> /\ toHost = <<>> /\ ncpUnacked = <<>> /\ pending = <<>>
        /\ lastKnownMode = "UNKNOWN" /\ promptDetectCallback = "none" /\ chunk = 0
        /\ sendingMsgQueue = <<>> /\ flaky = FALSE
    BY DEF Init, NcpInit
  <2>2. Len(<<>>) = 0
    OBVIOUS
  <2>3. NoRun(<<>>) /\ LaunchAtEnd(<<>>) /\ ~HasLaunch(<<>>)
    BY <2>2 DEF NoRun, LaunchAtEnd, HasLaunch
  <2>4. ~Told
    BY <2>1, <2>2 DEF Told, LaunchPending, BootloaderModes
  <2>5. LaunchIsLast
    BY <2>1, <2>3, <2>4 DEF LaunchIsLast
  <2>6. EnabledToSend
    BY <2>1 DEF EnabledToSend
  <2> QED BY <2>1, <2>3, <2>5, <2>6 DEF StartInv, FlakyInv, WaitingUnlessRefused,
                                        WaitingWhenQueued
<1>2. TypeOK /\ StartInv /\ FlakyInv /\ WaitingUnlessRefused /\ [Next]_vars
        => StartInv' /\ FlakyInv' /\ WaitingUnlessRefused'
  BY NextStart, NextFlaky, NextWaits
<1> QED BY <1>1, <1>2, TypeCorrect, PTL DEF Spec

-----------------------------------------------------------------------------
(* Commands are executed in order.  What was written and not executed yet is *)
(* on the line or in the adapter, in the order it was written; a command     *)
(* that is written is at least as late as all of these, and later than them  *)
(* unless it was written before, and then a NAK says it was not received.    *)

(* A queue q, when n commands were accepted and the last one written has the *)
(* tag `last`.                                                               *)
QueueOf(q, n, last) ==
  /\ Len(q) <= n
  /\ \A i \in 1 .. Len(q) : q[i].tag = n - Len(q) + i /\ q[i].cmd \notin Callbacks
  /\ last <= IF q = <<>> THEN n ELSE q[1].tag

QueueInv == QueueOf(sendingMsgQueue, issued, lastSent)

LEMMA QueueOfLonger ==
  ASSUME NEW q \in Seq(Entries), NEW n \in Nat, NEW last \in Nat, QueueOf(q, n, last),
         NEW c \in Commands \cup {Launch}
  PROVE  QueueOf(Append(q, [tag |-> n + 1, cmd |-> c]), n + 1, last)
<1> DEFINE e == [tag |-> n + 1, cmd |-> c]
           r == Append(q, e)
<1>1. e \in Entries /\ e.tag = n + 1 /\ e.cmd \notin Callbacks
  BY NcpAssumption DEF Entries, EzspCmds
<1> HIDE DEF e
<1>2. /\ Len(q) \in Nat /\ Len(r) = Len(q) + 1 /\ r[Len(q) + 1] = e
      /\ \A i \in 1 .. Len(q) : r[i] = q[i]
  BY <1>1, SeqFacts
<1>3. r # <<>>
  BY <1>1
<1>4. q = <<>> => Len(q) = 0
  OBVIOUS
<1>5. q # <<>> => Len(q) > 0
  BY SeqFacts
<1> HIDE DEF r
<1>6. \A i \in 1 .. Len(r) : i \in 1 .. Len(q) \/ i = Len(q) + 1
  BY <1>2
<1>7. \A i \in 1 .. Len(r) : r[i].tag = (n + 1) - Len(r) + i /\ r[i].cmd \notin Callbacks
  <2>1. \A i \in 1 .. Len(q) : r[i].tag = n - Len(q) + i /\ r[i].cmd \notin Callbacks
    BY <1>2 DEF QueueOf
  <2>2. r[Len(q) + 1].tag = n + 1 /\ r[Len(q) + 1].cmd \notin Callbacks
    BY <1>1, <1>2
  <2>3. \A k \in Nat, i \in Int : (n + 1) - (k + 1) + i = n - k + i
    OBVIOUS
  <2>4. (n + 1) - (Len(q) + 1) + (Len(q) + 1) = n + 1
    BY <1>2
  <2>5. \A i \in 1 .. Len(r) : (n + 1) - Len(r) + i = n - Len(q) + i
    BY <1>2, <2>3
  <2>6. ASSUME NEW i \in 1 .. Len(r)
        PROVE  r[i].tag = (n + 1) - Len(r) + i /\ r[i].cmd \notin Callbacks
    <3>1. CASE i \in 1 .. Len(q)
      BY <2>1, <2>5, <3>1
    <3>2. CASE i = Len(q) + 1
      BY <1>2, <2>2, <2>4, <3>2
    <3> QED BY <1>6, <3>1, <3>2
  <2> QED BY <2>6
<1>8. last <= r[1].tag
  <2>1. CASE q = <<>>
    BY <1>1, <1>2, <1>4, <2>1 DEF QueueOf
  <2>2. CASE q # <<>>
    BY <1>2, <1>5, <2>2 DEF QueueOf
  <2> QED BY <2>1, <2>2
<1> QED BY <1>2, <1>3, <1>7, <1>8 DEF QueueOf, r, e

LEMMA QueueOfTail ==
  ASSUME NEW q \in Seq(Entries), NEW n \in Nat, NEW last \in Nat, QueueOf(q, n, last), q # <<>>
  PROVE  /\ QueueOf(Tail(q), n, last)
         /\ Tail(q) # <<>> => last < Tail(q)[1].tag
<1> DEFINE r == Tail(q)
<1>1. /\ r \in Seq(Entries) /\ Len(q) \in Nat \ {0} /\ Len(r) = Len(q) - 1
      /\ \A i \in 1 .. Len(q) - 1 : r[i] = q[i + 1]
  BY SeqFacts
<1> HIDE DEF r
<1>2. r # <<>> => Len(r) > 0
  BY <1>1, SeqFacts
<1>3. r = <<>> => Len(r) = 0
  OBVIOUS
<1>4. last <= q[1].tag /\ q[1].tag = n - Len(q) + 1 /\ Len(q) <= n
  BY <1>1 DEF QueueOf
<1>5. \A i \in 1 .. Len(r) : r[i].tag = n - Len(r) + i /\ r[i].cmd \notin Callbacks
  <2> SUFFICES ASSUME NEW i \in 1 .. Len(r)
               PROVE  r[i].tag = n - Len(r) + i /\ r[i].cmd \notin Callbacks
    OBVIOUS
  <2>1. i + 1 \in 1 .. Len(q) /\ r[i] = q[i + 1]
    BY <1>1
  <2>2. q[i + 1].tag = n - Len(q) + (i + 1) /\ q[i + 1].cmd \notin Callbacks
    BY <2>1 DEF QueueOf
  <2> QED BY <1>1, <2>1, <2>2
<1>6. r # <<>> => last < r[1].tag
  BY <1>1, <1>2, <1>4, <1>5
<1>7. r = <<>> => last <= n
  BY <1>1, <1>3, <1>4
<1> QED BY <1>1, <1>4, <1>5, <1>6, <1>7 DEF QueueOf, r

(* What sendNextMsg() writes is the front of the queue.                      *)
LEMMA SendNextMsgQueue ==
  ASSUME NEW queue \in Seq(Entries), NEW n \in Nat, QueueOf(queue, n, lastSent),
         NEW wait, NEW mode, NEW frm, NEW timer, NEW out,
         SendNextMsg(queue, wait, mode, frm, timer, out)
  PROVE  QueueOf(queue, n, lastSent')
<1>1. CASE MaySend(queue, wait, mode)
  <2>1. queue # <<>> /\ lastSent' \in {lastSent, Head(queue).tag}
    BY <1>1 DEF SendNextMsg, MaySend
  <2>2. Head(queue) = queue[1] /\ 1 \in 1 .. Len(queue)
    BY <2>1, SeqFacts
  <2>3. queue[1] \in Entries
    BY <2>1, <2>2, EntryInSeq
  <2>4. queue[1].tag \in Nat
    BY <2>3 DEF Entries
  <2> QED BY <2>1, <2>2, <2>4 DEF QueueOf
<1>2. CASE ~MaySend(queue, wait, mode)
  BY <1>2 DEF SendNextMsg
<1> QED BY <1>1, <1>2

LEMMA NextQueue ==
  ASSUME TypeOK, QueueInv, [Next]_vars
  PROVE  QueueInv'
<1>0. sendingMsgQueue \in Seq(Entries) /\ issued \in Nat /\ lastSent \in Nat
  BY DEF TypeOK, QueueTypeOK, SendTypeOK
<1>1. UNCHANGED <<sendingMsgQueue, issued, lastSent>> => QueueInv'
  BY DEF QueueInv, QueueOf
<1>2. ASSUME NEW c \in Commands \cup {Launch}, issued' = issued + 1,
             sendingMsgQueue' = Queued(c), NEW mode, NEW frm, NEW timer, NEW out,
             SendNextMsg(Queued(c), wait_rsp, mode, frm, timer, out)
      PROVE  QueueInv'
  <2>1. Queued(c) \in Seq(Entries)
    BY QueuedType DEF TypeOK
  <2>2. QueueOf(Queued(c), issued + 1, lastSent)
    BY <1>0, QueueOfLonger DEF QueueInv, Queued
  <2>3. QueueOf(Queued(c), issued + 1, lastSent')
    BY <1>0, <1>2, <2>1, <2>2, SendNextMsgQueue
  <2> QED BY <1>2, <2>3 DEF QueueInv
<1>3. ASSUME NEW c \in Commands \cup {Launch}, SendCommand(c)
      PROVE  QueueInv'
  BY <1>2, <1>3 DEF SendCommand
<1>4. CASE Reset \/ AckTimerExpires \/ BlpProbes \/ PromptDetected \/ ReadChunk
  BY <1>1, <1>4 DEF Reset, AckTimerExpires, ResetFailed, BlpProbes, PromptDetected, ReadChunk,
                    queueVars, sendVars
<1>5. CASE DecodeNak
  BY <1>0, <1>5, SendNextMsgQueue DEF DecodeNak, Nacked, QueueInv
<1>6. CASE DecodeRstAck
  BY <1>1, <1>2, <1>6 DEF DecodeRstAck, Connected, queueVars, sendVars
<1>7. CASE DecodeData \/ DecodeAck \/ DecodeBad
  BY <1>1, <1>7 DEF DecodeData, DecodeAck, DecodeBad, queueVars, sendVars
<1>8. ASSUME NEW p, DeliverInBootloader(p) \/ DeliverLaunch(p)
      PROVE  QueueInv'
  BY <1>1, <1>8 DEF DeliverInBootloader, DeliverLaunch, DeliverNext, queueVars, sendVars
<1>9. ASSUME NEW p, DeliverMessage(p)
      PROVE  QueueInv'
  <2>1. UNCHANGED issued
    BY <1>9 DEF DeliverMessage, HandleResponse, DeliverNext
  <2>2. CASE IsResponse(p)
    <3>1. sendingMsgQueue # <<>> /\ Tail(sendingMsgQueue) \in Seq(Entries)
      BY <1>0, <2>2, EntryInSeq DEF IsResponse
    <3>2. QueueOf(Tail(sendingMsgQueue), issued, lastSent)
      BY <1>0, <3>1, QueueOfTail DEF QueueInv
    <3> QED BY <1>0, <1>9, <2>1, <2>2, <3>1, <3>2, SendNextMsgQueue
            DEF DeliverMessage, HandleResponse, QueueInv
  <2>3. CASE ~IsResponse(p)
    BY <1>1, <1>9, <2>1, <2>3 DEF DeliverMessage, HandleResponse, queueVars, sendVars
  <2> QED BY <2>2, <2>3
<1>10. CASE UNCHANGED hostVars
  BY <1>1, <1>10 DEF hostVars, queueVars, sendVars
<1>11. UNCHANGED vars => UNCHANGED hostVars
  BY DEF vars
<1> QED
  BY <1>3, <1>4, <1>5, <1>6, <1>7, <1>8, <1>9, <1>10, <1>11
     DEF Next, UserNext, HostNext, Decode, Deliver

(* The commands executed, those that the adapter accepted and those on the   *)
(* line are in order, strictly if so asked, and none is later than `last`.   *)
DataAt(line) == {i \in 1 .. Len(line) : line[i].type = "DATA"}
Later(strict, x, y) == x <= y /\ (strict => x # y)

InOrder(strict, ex, todo, line, last) ==
  /\ \A i, j \in 1 .. Len(ex) : i < j => Later(strict, ex[i], ex[j])
  /\ \A i, j \in 1 .. Len(todo) : i < j => Later(strict, todo[i].tag, todo[j].tag)
  /\ \A i, j \in DataAt(line) : i < j => Later(strict, line[i].entry.tag, line[j].entry.tag)
  /\ \A i \in 1 .. Len(ex), j \in 1 .. Len(todo) : Later(strict, ex[i], todo[j].tag)
  /\ \A i \in 1 .. Len(ex), j \in DataAt(line) : Later(strict, ex[i], line[j].entry.tag)
  /\ \A i \in 1 .. Len(todo), j \in DataAt(line) :
       Later(strict, todo[i].tag, line[j].entry.tag)
  /\ \A i \in 1 .. Len(ex) : ex[i] <= last
  /\ \A i \in 1 .. Len(todo) : todo[i].tag <= last
  /\ \A i \in DataAt(line) : line[i].entry.tag <= last

(* A command with tag t was not written yet, or rejected and not written     *)
(* again.                                                                    *)
Unsent(ex, todo, line, t) ==
  /\ \A i \in 1 .. Len(ex) : ex[i] < t
  /\ \A i \in 1 .. Len(todo) : todo[i].tag < t
  /\ \A i \in DataAt(line) : line[i].entry.tag < t

LEMMA TagsAreNumbers ==
  ASSUME NEW ex \in Seq(Nat), NEW todo \in Seq(Entries), NEW line \in Seq(HostFrames)
  PROVE  /\ \A i \in 1 .. Len(ex) : ex[i] \in Nat
         /\ \A i \in 1 .. Len(todo) : todo[i].tag \in Nat
         /\ \A i \in DataAt(line) : line[i].entry.tag \in Nat
<1>1. \A e \in Entries : e.tag \in Nat
  BY DEF Entries
<1>2. \A i \in 1 .. Len(todo) : todo[i] \in Entries
  BY SeqFacts
<1>3. \A i \in DataAt(line) : line[i] \in HostFrames /\ line[i].type = "DATA"
  BY SeqFacts DEF DataAt
<1>4. \A i \in DataAt(line) : line[i].entry \in Entries
  BY <1>3, FieldFacts
<1> QED BY <1>1, <1>2, <1>4, SeqFacts

(* A line on which each DATA frame was on another line, k places further     *)
(* back, keeps the order.                                                    *)
LEMMA OrderOfRest ==
  ASSUME NEW strict \in BOOLEAN, NEW ex \in Seq(Nat), NEW todo \in Seq(Entries),
         NEW line \in Seq(HostFrames), NEW last \in Nat, InOrder(strict, ex, todo, line, last),
         NEW rest \in Seq(HostFrames), NEW k \in Nat,
         \A i \in DataAt(rest) : i + k \in DataAt(line) /\ rest[i] = line[i + k]
  PROVE  /\ InOrder(strict, ex, todo, rest, last)
         /\ \A t \in Nat : Unsent(ex, todo, line, t) => Unsent(ex, todo, rest, t)
<1>1. \A i, j \in DataAt(rest) : i < j => i + k < j + k
  BY DEF DataAt
<1> QED BY <1>1 DEF InOrder, Unsent

LEMMA DataInRest ==
  ASSUME NEW line \in Seq(HostFrames)
  PROVE  /\ \A f \in HostFrames : f.type # "DATA" =>
              \A i \in DataAt(Append(line, f)) : i + 0 \in DataAt(line) /\ Append(line, f)[i] = line[i + 0]
         /\ line # <<>> =>
              /\ \A i \in DataAt(Tail(line)) : i + 1 \in DataAt(line) /\ Tail(line)[i] = line[i + 1]
              /\ \A i \in DataAt(<<Simple("BAD")>> \o Tail(line)) :
                   /\ i + 0 \in DataAt(line)
                   /\ (<<Simple("BAD")>> \o Tail(line))[i] = line[i + 0]
<1>1. ASSUME NEW f \in HostFrames, f.type # "DATA", NEW i \in DataAt(Append(line, f))
      PROVE  i + 0 \in DataAt(line) /\ Append(line, f)[i] = line[i + 0]
  <2>1. /\ Len(line) \in Nat /\ Len(Append(line, f)) = Len(line) + 1
        /\ Append(line, f)[Len(line) + 1] = f
        /\ \A j \in 1 .. Len(line) : Append(line, f)[j] = line[j]
    BY SeqFacts
  <2> QED BY <1>1, <2>1 DEF DataAt
<1>2. ASSUME line # <<>>, NEW i \in DataAt(Tail(line))
      PROVE  i + 1 \in DataAt(line) /\ Tail(line)[i] = line[i + 1]
  <2>1. /\ Len(line) \in Nat /\ Len(Tail(line)) = Len(line) - 1
        /\ \A j \in 1 .. Len(line) - 1 : Tail(line)[j] = line[j + 1]
    BY <1>2, SeqFacts
  <2> QED BY <2>1 DEF DataAt
<1>3. ASSUME line # <<>>, NEW i \in DataAt(<<Simple("BAD")>> \o Tail(line))
      PROVE  i + 0 \in DataAt(line) /\ (<<Simple("BAD")>> \o Tail(line))[i] = line[i + 0]
  <2> DEFINE t == Tail(line)
             b == Simple("BAD")
             u == <<b>> \o t
  <2>1. /\ t \in Seq(HostFrames) /\ Len(t) = Len(line) - 1 /\ Len(line) \in Nat
        /\ \A j \in 1 .. Len(line) - 1 : t[j] = line[j + 1]
    BY <1>3, SeqFacts
  <2>2. b \in HostFrames /\ b.type = "BAD"
    BY HostFrameFacts DEF Simple
  <2> HIDE DEF t, b
  <2>3. Len(u) = Len(t) + 1 /\ \A j \in 1 .. Len(u) : u[j] = IF j = 1 THEN b ELSE t[j - 1]
    BY <2>1, <2>2
  <2>4. i \in DataAt(u)
    BY <1>3 DEF t, b, u
  <2> HIDE DEF u
  <2>5. i \in 1 .. Len(u) /\ u[i].type = "DATA" /\ i # 1
    BY <2>2, <2>3, <2>4 DEF DataAt
  <2>6. u[i] = line[i] /\ i \in 1 .. Len(line)
    BY <2>1, <2>3, <2>5
  <2> QED BY <2>5, <2>6 DEF DataAt, t, b, u
<1> QED BY <1>1, <1>2, <1>3

(* Nothing is added to what is in order by a frame that is not DATA, nor by  *)
(* taking the front, which may leave a spoiled frame.                        *)
LEMMA OrderKept ==
  ASSUME NEW strict \in BOOLEAN, NEW ex \in Seq(Nat), NEW todo \in Seq(Entries),
         NEW line \in Seq(HostFrames), NEW last \in Nat, InOrder(strict, ex, todo, line, last),
         NEW rest,
         \/ rest = line
         \/ \E f \in HostFrames : f.type # "DATA" /\ rest = Append(line, f)
         \/ line # <<>> /\ rest = Tail(line)
         \/ line # <<>> /\ rest = <<Simple("BAD")>> \o Tail(line)
  PROVE  /\ InOrder(strict, ex, todo, rest, last)
         /\ \A t \in Nat : Unsent(ex, todo, line, t) => Unsent(ex, todo, rest, t)
<1>1. ASSUME NEW f \in HostFrames, f.type # "DATA", rest = Append(line, f)
      PROVE  /\ InOrder(strict, ex, todo, rest, last)
             /\ \A t \in Nat : Unsent(ex, todo, line, t) => Unsent(ex, todo, rest, t)
  <2>1. rest \in Seq(HostFrames)
    BY <1>1, SeqFacts
  <2>2. \A i \in DataAt(rest) : i + 0 \in DataAt(line) /\ rest[i] = line[i + 0]
    BY <1>1, DataInRest
  <2> QED BY <2>1, <2>2, OrderOfRest
<1>2. ASSUME line # <<>>, rest = Tail(line)
      PROVE  /\ InOrder(strict, ex, todo, rest, last)
             /\ \A t \in Nat : Unsent(ex, todo, line, t) => Unsent(ex, todo, rest, t)
  <2>1. rest \in Seq(HostFrames)
    BY <1>2, SeqFacts
  <2>2. \A i \in DataAt(rest) : i + 1 \in DataAt(line) /\ rest[i] = line[i + 1]
    BY <1>2, DataInRest
  <2> QED BY <2>1, <2>2, OrderOfRest
<1>3. ASSUME line # <<>>, rest = <<Simple("BAD")>> \o Tail(line)
      PROVE  /\ InOrder(strict, ex, todo, rest, last)
             /\ \A t \in Nat : Unsent(ex, todo, line, t) => Unsent(ex, todo, rest, t)
  <2>0. Tail(line) \in Seq(HostFrames) /\ Simple("BAD") \in HostFrames
    BY <1>3, SeqFacts, HostFrameFacts
  <2>1. rest \in Seq(HostFrames)
    BY <1>3, <2>0
  <2>2. \A i \in DataAt(rest) : i + 0 \in DataAt(line) /\ rest[i] = line[i + 0]
    BY <1>3, DataInRest
  <2> QED BY <2>1, <2>2, OrderOfRest
<1> QED BY <1>1, <1>2, <1>3

(* A command is written that is at least as late as the last.                *)
LEMMA OrderWritten ==
  ASSUME NEW strict \in BOOLEAN, NEW ex \in Seq(Nat), NEW todo \in Seq(Entries),
         NEW line \in Seq(HostFrames), NEW last \in Nat, InOrder(strict, ex, todo, line, last),
         NEW f \in HostFrames, f.type = "DATA", last <= f.entry.tag,
         strict => Unsent(ex, todo, line, f.entry.tag)
  PROVE  InOrder(strict, ex, todo, Append(line, f), f.entry.tag)
<1> DEFINE new == Append(line, f)
           t == f.entry.tag
<1>1. /\ Len(line) \in Nat /\ Len(new) = Len(line) + 1 /\ new[Len(line) + 1] = f
      /\ \A i \in 1 .. Len(line) : new[i] = line[i]
  BY SeqFacts
<1>2. t \in Nat
  BY FieldFacts DEF Entries
<1>3. t = f.entry.tag /\ last <= t /\ (strict => Unsent(ex, todo, line, t))
  OBVIOUS
<1> HIDE DEF new, t
<1>4. /\ \A i \in DataAt(new) : i \in DataAt(line) \/ i = Len(line) + 1
      /\ \A i \in DataAt(line) : i < Len(line) + 1 /\ new[i] = line[i]
  BY <1>1 DEF DataAt
<1>5. /\ \A i \in 1 .. Len(ex) : ex[i] \in Nat /\ ex[i] <= last
      /\ \A i \in 1 .. Len(todo) : todo[i].tag \in Nat /\ todo[i].tag <= last
      /\ \A i \in DataAt(line) : line[i].entry.tag \in Nat /\ line[i].entry.tag <= last
  BY TagsAreNumbers DEF InOrder
<1>6. /\ \A i \in 1 .. Len(ex) : Later(strict, ex[i], t)
      /\ \A i \in 1 .. Len(todo) : Later(strict, todo[i].tag, t)
      /\ \A i \in DataAt(line) : Later(strict, line[i].entry.tag, t)
  BY <1>2, <1>3, <1>5 DEF Unsent, Later
<1>7. /\ \A i \in 1 .. Len(ex) : ex[i] <= t
      /\ \A i \in 1 .. Len(todo) : todo[i].tag <= t
      /\ \A i \in DataAt(new) : new[i].entry.tag <= t
  <2>1. /\ \A i \in 1 .. Len(ex) : ex[i] <= t
        /\ \A i \in 1 .. Len(todo) : todo[i].tag <= t
        /\ \A i \in DataAt(line) : line[i].entry.tag <= t
    BY <1>6 DEF Later
  <2>2. \A i \in DataAt(new) : new[i].entry.tag <= t
    <3>1. \A i \in DataAt(line) : new[i].entry.tag <= t
      BY <1>4, <2>1
    <3>2. new[Len(line) + 1].entry.tag = t /\ t <= t
      BY <1>1, <1>2, <1>3
    <3> QED BY <1>4, <3>1, <3>2
  <2> QED BY <2>1, <2>2
<1>8. \A i, j \in DataAt(new) : i < j => i \in DataAt(line)
  BY <1>1, <1>4 DEF DataAt
<1>9. \A i, j \in DataAt(new) : i < j => Later(strict, new[i].entry.tag, new[j].entry.tag)
  BY <1>1, <1>3, <1>4, <1>6, <1>8 DEF InOrder
<1>10. /\ \A i \in 1 .. Len(ex), j \in DataAt(new) : Later(strict, ex[i], new[j].entry.tag)
       /\ \A i \in 1 .. Len(todo), j \in DataAt(new) :
            Later(strict, todo[i].tag, new[j].entry.tag)
  BY <1>1, <1>3, <1>4, <1>6 DEF InOrder
<1> QED BY <1>7, <1>9, <1>10 DEF InOrder, new, t

(* The adapter accepts the command at the front of the line.                 *)
LEMMA OrderAccepted ==
  ASSUME NEW strict \in BOOLEAN, NEW ex \in Seq(Nat), NEW todo \in Seq(Entries),
         NEW line \in Seq(HostFrames), NEW last \in Nat, InOrder(strict, ex, todo, line, last),
         line # <<>>, Head(line).type = "DATA"
  PROVE  /\ InOrder(strict, ex, Append(todo, Head(line).entry), Tail(line), last)
         /\ \A t \in Nat : Unsent(ex, todo, line, t) =>
              Unsent(ex, Append(todo, Head(line).entry), Tail(line), t)
<1> DEFINE e == Head(line).entry
           new == Append(todo, e)
           rest == Tail(line)
<1>1. /\ Len(line) \in Nat \ {0} /\ Head(line) = line[1] /\ Head(line) \in HostFrames
      /\ Len(rest) = Len(line) - 1 /\ \A i \in 1 .. Len(line) - 1 : rest[i] = line[i + 1]
  BY SeqFacts
<1>2. e \in Entries /\ 1 \in DataAt(line) /\ line[1].entry = e
  BY <1>1, FieldFacts DEF DataAt
<1>3. /\ Len(todo) \in Nat /\ Len(new) = Len(todo) + 1 /\ new[Len(todo) + 1] = e
      /\ \A i \in 1 .. Len(todo) : new[i] = todo[i]
  BY <1>2, SeqFacts
<1> HIDE DEF e, new, rest
<1>4. \A i \in DataAt(rest) : i + 1 \in DataAt(line) /\ rest[i] = line[i + 1] /\ 1 < i + 1
  BY <1>1 DEF DataAt
<1>5. \A i, j \in DataAt(rest) : i < j => i + 1 < j + 1
  BY DEF DataAt
<1>6. \A i \in 1 .. Len(new) : i \in 1 .. Len(todo) \/ i = Len(todo) + 1
  BY <1>3
<1>7. \A i, j \in 1 .. Len(new) : i < j => i \in 1 .. Len(todo)
  BY <1>3
<1>8. \A i, j \in 1 .. Len(new) : i < j => Later(strict, new[i].tag, new[j].tag)
  BY <1>2, <1>3, <1>6, <1>7 DEF InOrder
<1>9. \A i, j \in DataAt(rest) : i < j => Later(strict, rest[i].entry.tag, rest[j].entry.tag)
  BY <1>4, <1>5 DEF InOrder
<1>10. \A i \in 1 .. Len(ex), j \in 1 .. Len(new) : Later(strict, ex[i], new[j].tag)
  BY <1>2, <1>3, <1>6 DEF InOrder
<1>11. \A i \in 1 .. Len(ex), j \in DataAt(rest) : Later(strict, ex[i], rest[j].entry.tag)
  BY <1>4 DEF InOrder
<1>12. \A i \in 1 .. Len(new), j \in DataAt(rest) : Later(strict, new[i].tag, rest[j].entry.tag)
  BY <1>2, <1>3, <1>4, <1>6 DEF InOrder
<1>13. /\ \A i \in 1 .. Len(new) : new[i].tag <= last
       /\ \A i \in DataAt(rest) : rest[i].entry.tag <= last
  BY <1>2, <1>3, <1>4, <1>6 DEF InOrder
<1>14. InOrder(strict, ex, new, rest, last)
  BY <1>8, <1>9, <1>10, <1>11, <1>12, <1>13 DEF InOrder
<1>15. ASSUME NEW t \in Nat, Unsent(ex, todo, line, t) PROVE Unsent(ex, new, rest, t)
  BY <1>2, <1>3, <1>4, <1>6, <1>15 DEF Unsent
<1> QED BY <1>14, <1>15 DEF e, new, rest

(* It forgets what it accepted, all or the front of it.                      *)
LEMMA OrderForgotten ==
  ASSUME NEW strict \in BOOLEAN, NEW ex \in Seq(Nat), NEW todo \in Seq(Entries),
         NEW line \in Seq(HostFrames), NEW last \in Nat, InOrder(strict, ex, todo, line, last),
         NEW rest, rest = <<>> \/ (todo # <<>> /\ rest = Tail(todo))
  PROVE  /\ InOrder(strict, ex, rest, line, last)
         /\ \A t \in Nat : Unsent(ex, todo, line, t) => Unsent(ex, rest, line, t)
<1>1. CASE rest = <<>>
  <2>1. Len(rest) = 0
    BY <1>1
  <2> HIDE <1>1
  <2> QED BY <2>1 DEF InOrder, Unsent
<1>2. CASE todo # <<>> /\ rest = Tail(todo)
  <2>1. \A i \in 1 .. Len(rest) : i + 1 \in 1 .. Len(todo) /\ rest[i] = todo[i + 1]
    BY <1>2, SeqFacts
  <2>2. \A i, j \in 1 .. Len(rest) : i < j => i + 1 < j + 1
    OBVIOUS
  <2> QED BY <2>1, <2>2 DEF InOrder, Unsent
<1> QED BY <1>1, <1>2

(* It executes the command at the front of what it accepted.                 *)
LEMMA OrderExecuted ==
  ASSUME NEW strict \in BOOLEAN, NEW ex \in Seq(Nat), NEW todo \in Seq(Entries),
         NEW line \in Seq(HostFrames), NEW last \in Nat, InOrder(strict, ex, todo, line, last),
         todo # <<>>, NEW rest, rest \in {<<>>, Tail(todo)}
  PROVE  /\ InOrder(strict, Append(ex, Head(todo).tag), rest, line, last)
         /\ \A t \in Nat : Unsent(ex, todo, line, t) =>
              Unsent(Append(ex, Head(todo).tag), rest, line, t)
<1> DEFINE n == Head(todo).tag
           new == Append(ex, n)
<1>1. /\ Len(todo) \in Nat \ {0} /\ Head(todo) = todo[1] /\ Head(todo) \in Entries
      /\ Tail(todo) \in Seq(Entries) /\ Len(Tail(todo)) = Len(todo) - 1
      /\ \A i \in 1 .. Len(todo) - 1 : Tail(todo)[i] = todo[i + 1]
  BY SeqFacts
<1>2. n \in Nat /\ 1 \in 1 .. Len(todo) /\ todo[1].tag = n
  BY <1>1 DEF Entries
<1>3. /\ Len(ex) \in Nat /\ Len(new) = Len(ex) + 1 /\ new[Len(ex) + 1] = n
      /\ \A i \in 1 .. Len(ex) : new[i] = ex[i]
  BY <1>2, SeqFacts
<1>4. rest \in Seq(Entries)
  <2>1. <<>> \in Seq(Entries)
    OBVIOUS
  <2> QED BY <1>1, <2>1
<1>5. \A i \in 1 .. Len(rest) : i + 1 \in 1 .. Len(todo) /\ rest[i] = todo[i + 1] /\ 1 < i + 1
  <2>1. CASE rest = <<>>
    <3>1. Len(rest) = 0
      BY <2>1
    <3> QED BY <3>1
  <2>2. CASE rest = Tail(todo)
    BY <1>1, <2>2
  <2> QED BY <2>1, <2>2
<1>6. InOrder(strict, ex, rest, line, last)
  BY OrderForgotten
<1> HIDE DEF n, new
<1>7. \A i \in 1 .. Len(new) : i \in 1 .. Len(ex) \/ i = Len(ex) + 1
  BY <1>3
<1>8. \A i, j \in 1 .. Len(new) : i < j => i \in 1 .. Len(ex)
  BY <1>3
<1>9. \A i, j \in 1 .. Len(new) : i < j => Later(strict, new[i], new[j])
  BY <1>2, <1>3, <1>7, <1>8 DEF InOrder
<1>10. \A i \in 1 .. Len(rest) : Later(strict, n, rest[i].tag)
  BY <1>2, <1>5 DEF InOrder
<1>11. \A i \in 1 .. Len(new), j \in 1 .. Len(rest) : Later(strict, new[i], rest[j].tag)
  BY <1>3, <1>6, <1>7, <1>10 DEF InOrder
<1>12. \A i \in 1 .. Len(new), j \in DataAt(line) : Later(strict, new[i], line[j].entry.tag)
  BY <1>2, <1>3, <1>7 DEF InOrder
<1>13. \A i \in 1 .. Len(new) : new[i] <= last
  BY <1>2, <1>3, <1>7 DEF InOrder
<1>14. InOrder(strict, new, rest, line, last)
  BY <1>6, <1>9, <1>11, <1>12, <1>13 DEF InOrder
<1>15. ASSUME NEW t \in Nat, Unsent(ex, todo, line, t) PROVE Unsent(new, rest, line, t)
  BY <1>2, <1>3, <1>5, <1>7, <1>15 DEF Unsent
<1> QED BY <1>14, <1>15 DEF n, new

LEMMA OrderWeaker ==
  ASSUME NEW strict \in BOOLEAN, NEW ex, NEW todo, NEW line, NEW last,
         InOrder(strict, ex, todo, line, last), NEW less \in BOOLEAN, less => strict
  PROVE  InOrder(less, ex, todo, line, last)
BY DEF InOrder, Later

-----------------------------------------------------------------------------
(* A NAK says that the front of the queue was not received.  Without noise   *)
(* and torn writes the only thing that spoils a frame is the newline of the  *)
(* bootloader driver, which is written only while the adapter is away from   *)
(* its application; so a NAK answers a DATA frame with the wrong number.     *)

Clean == Happened \cap {"noise", "write", "slowBoot"} = {}

HasType(line, type) == \E i \in 1 .. Len(line) : line[i].type = type

(* The adapter does not run its application and is not about to.             *)
Away == ncpMode # "ezsp" /\ NoRun(toNcp)
Probing == blp \in {"flush", "probe"}
RstAck == [type |-> "RSTACK", good |-> TRUE]

AwayInv ==
  /\ ~HasType(toNcp, "BAD")
  /\ HasType(toNcp, "JUNK") \/ Probing \/ HasLaunch(toHost) \/ LaunchPending => Away
  /\ promptDetectCallback = "run" /\ Probing => ~HasLaunch(toHost)

(* Until the dongle is connected, its reset is on the line, or answered, or  *)
(* the adapter is away.                                                      *)
ResetInv ==
  enabled /\ ~stateConnected =>
    ncpMode # "ezsp" \/ HasType(toNcp, "RST") \/ \E i \in 1 .. Len(toHost) : toHost[i] = RstAck

ModeInv ==
  /\ chunk > 0 => enabled
  /\ ~enabled /\ ackTimer => lastKnownMode \in BootloaderModes
  /\ ncpTodo # <<>> => ncpMode = "ezsp" /\ ncpConnected
  /\ HasLaunch(ncpUnacked) => ncpMode # "ezsp"
  /\ \A i \in 1 .. Len(toNcp) : toNcp[i].type = "RUN" => i = 1 /\ ncpMode = "bootloader"

CleanInv == Clean => AwayInv /\ ResetInv /\ ModeInv

(* What the host adds to the line, other than what it says to the            *)
(* bootloader.                                                               *)
Grown(old, new) ==
  /\ \A type \in {"BAD", "JUNK"} : HasType(new, type) => HasType(old, type)
  /\ \A i \in 1 .. Len(new) : new[i].type = "RUN" => i \in 1 .. Len(old) /\ old[i].type = "RUN"
  /\ HasType(old, "RST") => HasType(new, "RST")

LEMMA GrownAppend ==
  ASSUME NEW line \in Seq(HostFrames), NEW f \in HostFrames, f.type \in {"DATA", "ACK", "RST"}
  PROVE  Grown(line, line) /\ Grown(line, Append(line, f))
<1> DEFINE new == Append(line, f)
<1>1. /\ Len(line) \in Nat /\ Len(new) = Len(line) + 1 /\ new[Len(line) + 1] = f
      /\ \A i \in 1 .. Len(line) : new[i] = line[i]
  BY SeqFacts
<1> HIDE DEF new
<1>2. \A i \in 1 .. Len(new) : i \in 1 .. Len(line) \/ i = Len(line) + 1
  BY <1>1
<1>3. \A i \in 1 .. Len(line) : i \in 1 .. Len(new)
  BY <1>1
<1>4. Grown(line, new)
  BY <1>1, <1>2, <1>3 DEF Grown, HasType
<1> QED BY <1>4 DEF Grown, new

LEMMA GrownTwice ==
  ASSUME NEW a, NEW b, NEW c, Grown(a, b), Grown(b, c)
  PROVE  Grown(a, c)
BY DEF Grown

LEMMA SendNextMsgGrown ==
  ASSUME TypeOK, NEW queue \in Seq(Entries), NEW wait, NEW mode, NEW frm \in FrmNums,
         NEW timer, NEW out \in Seq(HostFrames),
         SendNextMsg(queue, wait, mode, frm, timer, out), ~flaky
  PROVE  Grown(out, toNcp') /\ (~enabled /\ ackTimer' => timer)
<1>1. CASE MaySend(queue, wait, mode)
  <2> DEFINE f == Data(frm, lastReceivedByNEAckNum, Head(queue))
  <2>1. Head(queue) \in Entries
    BY <1>1, EntryInSeq DEF MaySend
  <2>2. f \in HostFrames
    BY <2>1, HostFrameFacts DEF TypeOK, ReadTypeOK
  <2>3. f.type = "DATA"
    BY DEF Data
  <2>4. toNcp' = Append(out, f) \/ (toNcp' = out /\ ackTimer' = FALSE)
    BY <1>1 DEF SendNextMsg, Written
  <2>5. ~enabled => ackTimer' = FALSE
    BY <1>1 DEF SendNextMsg
  <2> HIDE DEF f
  <2> QED BY <2>2, <2>3, <2>4, <2>5, GrownAppend
<1>2. CASE ~MaySend(queue, wait, mode)
  <2>1. Grown(out, out)
    BY DEF Grown
  <2> QED BY <1>2, <2>1 DEF SendNextMsg
<1> QED BY <1>1, <1>2

LEMMA AckWritesGrown ==
  ASSUME TypeOK, ~flaky
  PROVE  \A w \in AckWrites : Grown(toNcp, w)
<1> DEFINE a == [type |-> "ACK", ack |-> lastReceivedByNEAckNum]
<1>1. a \in HostFrames /\ a.type = "ACK"
  BY HostFrameFacts DEF TypeOK, ReadTypeOK
<1>2. toNcp \in Seq(HostFrames)
  BY DEF TypeOK, NcpTypeOK
<1>3. AckWrites \subseteq {toNcp, Append(toNcp, a)}
  BY DEF AckWrites, Written
<1> HIDE DEF a
<1>4. Grown(toNcp, toNcp) /\ Grown(toNcp, Append(toNcp, a))
  BY <1>1, <1>2, GrownAppend
<1> QED BY <1>3, <1>4

LEMMA ResetDongleGrown ==
  ASSUME NEW out \in Seq(HostFrames), ResetDongle(out), ~flaky
  PROVE  Grown(out, toNcp') /\ HasType(toNcp', "RST")
<1>1. toNcp' = Append(out, Simple("RST"))
  BY DEF ResetDongle, Written
<1>2. Simple("RST") \in HostFrames /\ Simple("RST").type = "RST"
  BY HostFrameFacts DEF Simple
<1>3. Len(out) + 1 \in 1 .. Len(toNcp') /\ toNcp'[Len(out) + 1].type = "RST"
  BY <1>1, <1>2, SeqFacts
<1> QED BY <1>1, <1>2, <1>3, GrownAppend DEF HasType

(* What stays true of a line that grew, with the adapter as it was.          *)
LEMMA GrownKeeps ==
  ASSUME NEW new, Grown(toNcp, new)
  PROVE  /\ NoRun(toNcp) => NoRun(new)
         /\ HasType(new, "BAD") => HasType(toNcp, "BAD")
         /\ HasType(new, "JUNK") => HasType(toNcp, "JUNK")
         /\ (\A i \in 1 .. Len(toNcp) : toNcp[i].type = "RUN" => i = 1 /\ ncpMode = "bootloader")
            => (\A i \in 1 .. Len(new) : new[i].type = "RUN" => i = 1 /\ ncpMode = "bootloader")
BY DEF Grown, NoRun

LEMMA HasLaunchTail ==
  ASSUME NEW s \in Seq(NcpFrames), s # <<>>
  PROVE  /\ HasLaunch(Tail(s)) => HasLaunch(s)
         /\ Head(s) \in Launches => HasLaunch(s)
<1>1. /\ Len(s) \in Nat \ {0} /\ Head(s) = s[1] /\ Len(Tail(s)) = Len(s) - 1
      /\ \A i \in 1 .. Len(s) - 1 : Tail(s)[i] = s[i + 1]
  BY SeqFacts
<1>2. 1 \in 1 .. Len(s)
  BY <1>1
<1>3. \A i \in 1 .. Len(Tail(s)) : i + 1 \in 1 .. Len(s) /\ Tail(s)[i] = s[i + 1]
  BY <1>1
<1> QED BY <1>1, <1>2, <1>3 DEF HasLaunch

(* In a clean behaviour nothing is lost and no noise happens.                *)
LEMMA CleanStep ==
  ASSUME TypeOK, FlakyInv, [Next]_vars, Clean'
  PROVE  Clean /\ ~flaky /\ \A k \in {"noise", "write", "slowBoot"} : ~Fault(k)
BY FaultsGrow, FaultHappens DEF Clean, FlakyInv

(* What the host does that leaves the adapter and its bootloader alone.      *)
LEMMA AwayKept ==
  ASSUME AwayInv, Grown(toNcp, toNcp'), UNCHANGED ncpMode,
         Probing' => Probing /\ UNCHANGED promptDetectCallback,
         HasLaunch(toHost') => HasLaunch(toHost),
         LaunchPending' => LaunchPending \/ HasLaunch(toHost)
  PROVE  AwayInv'
<1>1. /\ NoRun(toNcp) => NoRun(toNcp')
      /\ HasType(toNcp', "BAD") => HasType(toNcp, "BAD")
      /\ HasType(toNcp', "JUNK") => HasType(toNcp, "JUNK")
  BY GrownKeeps
<1>2. Away => Away'
  BY <1>1 DEF Away
<1> QED BY <1>1, <1>2 DEF AwayInv

LEMMA ModeKept ==
  ASSUME ModeInv, Grown(toNcp, toNcp'), UNCHANGED adapterVars, chunk' > 0 => enabled',
         ~enabled' /\ ackTimer' => lastKnownMode' \in BootloaderModes
  PROVE  ModeInv'
<1>1. \A i \in 1 .. Len(toNcp') : toNcp'[i].type = "RUN" => i = 1 /\ ncpMode = "bootloader"
  BY DEF Grown, ModeInv
<1> QED BY <1>1 DEF ModeInv, adapterVars

LEMMA ResetKept ==
  ASSUME ResetInv, Grown(toNcp, toNcp'), UNCHANGED ncpMode, enabled' => enabled,
         stateConnected => stateConnected',
         ~stateConnected' => \A i \in 1 .. Len(toHost) :
           toHost[i] = RstAck => \E j \in 1 .. Len(toHost') : toHost'[j] = RstAck
  PROVE  ResetInv'
BY DEF ResetInv, Grown

(* What the host does between chunks.                                        *)
LEMMA CleanIdle ==
  ASSUME TypeOK, AwayInv, ResetInv, ModeInv, ~flaky,
         \/ \E c \in Commands \cup {Launch} : SendCommand(c)
         \/ Reset
         \/ BlpProbes
         \/ PromptDetected
         \/ ReadChunk
  PROVE  AwayInv' /\ ResetInv' /\ ModeInv'
<1>0. /\ toNcp \in Seq(HostFrames) /\ toHost \in Seq(NcpFrames) /\ frmNum \in FrmNums
      /\ sendingMsgQueue \in Seq(Entries) /\ chunk \in Nat
  BY DEF TypeOK, NcpTypeOK, SendTypeOK, QueueTypeOK, ReadTypeOK
<1>1. ASSUME NEW c \in Commands \cup {Launch}, SendCommand(c)
      PROVE  AwayInv' /\ ResetInv' /\ ModeInv'
  <2>1. /\ UNCHANGED <<modeVars, stateConnected, readVars, toHost, adapterVars>>
        /\ SendNextMsg(Queued(c), wait_rsp, lastKnownMode, frmNum, ackTimer, toNcp)
    BY <1>1 DEF SendCommand
  <2>2. Queued(c) \in Seq(Entries)
    BY QueuedType DEF TypeOK
  <2>3. Grown(toNcp, toNcp') /\ (~enabled /\ ackTimer' => ackTimer)
    BY <1>0, <2>1, <2>2, SendNextMsgGrown
  <2>4. AwayInv'
    BY <2>1, <2>3, AwayKept DEF Probing, LaunchPending, modeVars, readVars, adapterVars
  <2>5. ResetInv'
    BY <2>1, <2>3, ResetKept DEF modeVars, adapterVars
  <2>6. /\ UNCHANGED adapterVars /\ (chunk' > 0 => enabled')
        /\ ~enabled' /\ ackTimer' => lastKnownMode' \in BootloaderModes
    BY <2>1, <2>3 DEF ModeInv, modeVars, readVars
  <2>7. ModeInv'
    BY <2>3, <2>6, ModeKept
  <2> QED BY <2>4, <2>5, <2>7
<1>2. CASE Reset
  <2>1. /\ ResetDongle(toNcp) /\ chunk = 0
        /\ UNCHANGED <<lastKnownMode, promptDetectCallback, readVars, toHost, adapterVars>>
    BY <1>2 DEF Reset, HostIdle
  <2>2. Grown(toNcp, toNcp') /\ HasType(toNcp', "RST") /\ ~Probing' /\ enabled'
    BY <1>0, <2>1, ResetDongleGrown DEF ResetDongle, Probing
  <2>3. AwayInv'
    BY <2>1, <2>2, AwayKept DEF LaunchPending, readVars, adapterVars
  <2>4. ModeInv'
    BY <2>1, <2>2, ModeKept
  <2> QED BY <2>2, <2>3, <2>4 DEF ResetInv
<1>3. CASE BlpProbes
  <2>1. /\ toNcp' = Append(toNcp, Simple("JUNK")) /\ Probing
        /\ UNCHANGED <<lastKnownMode, enabled, ackTimer, promptDetectCallback, stateConnected,
                       readVars, toHost, adapterVars>>
    BY <1>3 DEF BlpProbes, Probing, sendVars, ncpOnlyVars
  <2>2. /\ Simple("JUNK") \in HostFrames /\ Simple("JUNK").type = "JUNK"
    BY HostFrameFacts DEF Simple
  <2>3. /\ Len(toNcp) \in Nat /\ Len(toNcp') = Len(toNcp) + 1
        /\ toNcp'[Len(toNcp) + 1].type = "JUNK"
        /\ \A i \in 1 .. Len(toNcp) : toNcp'[i] = toNcp[i]
    BY <1>0, <2>1, <2>2, SeqFacts
  <2>4. \A i \in 1 .. Len(toNcp') : i \in 1 .. Len(toNcp) \/ i = Len(toNcp) + 1
    BY <2>3
  <2>5. /\ HasType(toNcp', "BAD") => HasType(toNcp, "BAD")
        /\ HasType(toNcp, "RST") => HasType(toNcp', "RST")
        /\ \A i \in 1 .. Len(toNcp') : toNcp'[i].type = "RUN" =>
             i \in 1 .. Len(toNcp) /\ toNcp[i].type = "RUN"
    <3>1. HasType(toNcp, "RST") => HasType(toNcp', "RST")
      <4>1. \A i \in 1 .. Len(toNcp) : i \in 1 .. Len(toNcp')
        BY <2>3
      <4> QED BY <2>3, <4>1 DEF HasType
    <3> QED BY <2>3, <2>4, <3>1 DEF HasType
  <2>6. Away'
    BY <2>1, <2>5 DEF AwayInv, Away, NoRun, adapterVars
  <2>7. AwayInv'
    BY <2>1, <2>5, <2>6 DEF AwayInv
  <2>8. ResetInv'
    BY <2>1, <2>6 DEF ResetInv, Away
  <2>9. ModeInv'
    BY <2>1, <2>5 DEF ModeInv, readVars, adapterVars
  <2> QED BY <2>7, <2>8, <2>9
<1>4. CASE PromptDetected
  <2>1. /\ toNcp = <<>> /\ ncpMode = "bootloader" /\ Probing /\ chunk = 0
        /\ UNCHANGED <<promptDetectCallback, readVars, toHost, adapterVars>>
    BY <1>4 DEF PromptDetected, HostIdle, Probing, ncpOnlyVars
  <2>2. CASE promptDetectCallback = "run"
    <3>1. ResetDongle(Append(toNcp, Simple("RUN")))
      BY <1>4, <2>2 DEF PromptDetected, MenuChoice
    <3>2. /\ toNcp' = Append(Append(toNcp, Simple("RUN")), Simple("RST"))
          /\ blp' = "off" /\ enabled'
      BY <3>1 DEF ResetDongle, Written
    <3>3. Simple("RUN") \in HostFrames /\ Simple("RST") \in HostFrames
      BY HostFrameFacts DEF Simple
    <3>4. /\ Len(toNcp') = 2 /\ toNcp'[1].type = "RUN" /\ toNcp'[2].type = "RST"
      <4>1. PICK out : out = Append(toNcp, Simple("RUN"))
        OBVIOUS
      <4>2. out \in Seq(HostFrames) /\ Len(out) = 1 /\ out[1] = Simple("RUN")
        BY <2>1, <3>3, <4>1
      <4>3. /\ Len(toNcp') = 2 /\ toNcp'[1] = Simple("RUN") /\ toNcp'[2] = Simple("RST")
        BY <3>2, <3>3, <4>1, <4>2, SeqFacts
      <4> QED BY <4>3 DEF Simple
    <3>5. \A i \in 1 .. Len(toNcp') : i = 1 \/ i = 2
      BY <3>4
    <3>6. ~HasType(toNcp', "BAD") /\ ~HasType(toNcp', "JUNK")
      BY <3>4, <3>5 DEF HasType
    <3>7. AwayInv'
      <4>1. ~HasLaunch(toHost) /\ ~LaunchPending
        <5>1. HostIdle
          BY <1>4 DEF PromptDetected
        <5>2. Len(<<>>) = 0
          OBVIOUS
        <5> QED BY <2>1, <2>2, <5>1, <5>2 DEF AwayInv, HostIdle, LaunchPending
      <4> QED BY <2>1, <3>2, <3>6, <4>1 DEF AwayInv, Probing, LaunchPending, readVars
    <3>8. ResetInv'
      BY <2>1 DEF ResetInv, adapterVars
    <3>9. ModeInv'
      BY <2>1, <3>2, <3>4, <3>5 DEF ModeInv, adapterVars
    <3> QED BY <3>7, <3>8, <3>9
  <2>3. CASE promptDetectCallback # "run"
    <3>1. /\ promptDetectCallback = "upgrade" /\ blp' = "xmodem"
          /\ lastKnownMode' = "BOOTLOADER_FIRMWARE_UPGRADE"
          /\ toNcp' = Append(toNcp, Simple("UPGRADE"))
          /\ UNCHANGED <<enabled, ackTimer, stateConnected>>
      BY <1>4, <2>3 DEF PromptDetected, MenuChoice
    <3>2. toNcp' = <<Simple("UPGRADE")>>
      BY <2>1, <3>1
    <3>3. Len(toNcp') = 1 /\ toNcp'[1].type = "UPGRADE"
      BY <3>2 DEF Simple
    <3>4. \A i \in 1 .. Len(toNcp') : i = 1
      BY <3>3
    <3>5. Away' /\ ~HasType(toNcp', "BAD")
      BY <2>1, <3>3, <3>4 DEF Away, NoRun, HasType, adapterVars
    <3>6. AwayInv'
      BY <3>1, <3>5 DEF AwayInv, Probing
    <3>7. ResetInv'
      BY <2>1 DEF ResetInv, adapterVars
    <3>8. ModeInv'
      BY <2>1, <3>1, <3>3, <3>4 DEF ModeInv, BootloaderModes, adapterVars, readVars
    <3> QED BY <3>6, <3>7, <3>8
  <2> QED BY <2>2, <2>3
<1>5. CASE ReadChunk
  <2>1. /\ UNCHANGED <<modeVars, sendVars, stateConnected, pending, toNcp, adapterVars>>
        /\ toHost # <<>> /\ chunk = 0
        /\ \/ enabled /\ UNCHANGED toHost
           \/ ~enabled /\ toHost' = Tail(toHost) /\ UNCHANGED chunk
    BY <1>5 DEF ReadChunk, HostIdle, ncpOnlyVars
  <2>2. Grown(toNcp, toNcp')
    BY <2>1 DEF Grown
  <2>3. HasLaunch(toHost') => HasLaunch(toHost)
    BY <1>0, <2>1, HasLaunchTail
  <2>4. AwayInv'
    BY <2>1, <2>2, <2>3, AwayKept DEF Probing, LaunchPending, modeVars, adapterVars
  <2>5. ResetInv'
    BY <2>1 DEF ResetInv, modeVars, adapterVars
  <2>6. chunk' > 0 => enabled'
    BY <2>1 DEF modeVars
  <2>7. ModeInv'
    BY <2>1, <2>2, <2>6, ModeKept DEF ModeInv, modeVars, sendVars
  <2> QED BY <2>4, <2>5, <2>7
<1> QED BY <1>1, <1>2, <1>3, <1>4, <1>5

(* Its timer: an expiry ends the start only when the adapter is silent.      *)
LEMMA CleanTimer ==
  ASSUME TypeOK, StartInv, AwayInv, ResetInv, ModeInv, AckTimerExpires, ~Fault("slowBoot")
  PROVE  AwayInv' /\ ResetInv' /\ ModeInv'
<1>1. /\ UNCHANGED <<stateConnected, readVars, wireVars, adapterVars>> /\ chunk = 0
      /\ ackTimer /\ ackTimer' = FALSE
      /\ stateConnected \/ wireVars = <<<<>>, <<>>>>
      /\ IF stateConnected THEN UNCHANGED modeVars ELSE ResetFailed
  BY DEF AckTimerExpires, HostIdle
<1>2. Grown(toNcp, toNcp')
  BY <1>1 DEF Grown, wireVars
<1>3. CASE UNCHANGED modeVars
  <2>1. AwayInv'
    BY <1>1, <1>2, <1>3, AwayKept DEF Probing, LaunchPending, modeVars, readVars, wireVars,
                                      adapterVars
  <2>2. ResetInv'
    BY <1>1, <1>3 DEF ResetInv, modeVars, wireVars, adapterVars
  <2>3. ModeInv'
    BY <1>1, <1>2, <1>3, ModeKept DEF ModeInv, modeVars, readVars
  <2> QED BY <2>1, <2>2, <2>3
<1>4. CASE firstStartup /\ ~stateConnected
  <2>1. toNcp = <<>> /\ toHost = <<>> /\ UNCHANGED <<toNcp, toHost>>
    BY <1>1, <1>4 DEF wireVars
  <2>2. Len(<<>>) = 0
    OBVIOUS
  <2>3. ~HasType(toNcp, "RST") /\ \A i \in 1 .. Len(toHost) : toHost[i] # RstAck
    BY <2>1, <2>2 DEF HasType
  <2>4. NoRun(toNcp) /\ ~HasLaunch(toHost) /\ ~HasType(toNcp, "BAD")
    BY <2>1, <2>2 DEF NoRun, HasLaunch, HasType
  <2>5. ncpMode # "ezsp"
    <3>1. CASE enabled
      BY <1>4, <2>3, <3>1 DEF ResetInv
    <3>2. CASE ~enabled
      BY <1>1, <1>4, <3>2 DEF ModeInv, StartInv, LaunchIsLast, Told, Silent
    <3> QED BY <3>1, <3>2
  <2>6. Away'
    BY <1>1, <2>1, <2>4, <2>5 DEF Away, adapterVars
  <2>7. AwayInv'
    BY <2>1, <2>4, <2>6 DEF AwayInv
  <2>8. ResetInv'
    BY <2>6 DEF ResetInv, Away
  <2>9. ModeInv'
    BY <1>1, <1>2, ModeKept DEF readVars
  <2> QED BY <2>7, <2>8, <2>9
<1> QED BY <1>1, <1>3, <1>4 DEF ResetFailed

LEMMA DecodeGrown ==
  ASSUME TypeOK, Decode, ~flaky
  PROVE  Grown(toNcp, toNcp')
<1>0. /\ toNcp \in Seq(HostFrames) /\ sendingMsgQueue \in Seq(Entries) /\ frmNum \in FrmNums
  BY DEF TypeOK, NcpTypeOK, QueueTypeOK, SendTypeOK
<1>1. Grown(toNcp, toNcp)
  BY DEF Grown
<1>2. CASE DecodeNak
  <2>1. Head(toHost) \in NcpFrames /\ Head(toHost).type = "NAK"
    BY <1>2, DecodeNextType DEF DecodeNak
  <2>2. Head(toHost).num \in FrmNums
    BY <2>1, FieldFacts
  <2> QED BY <1>0, <1>2, <2>2, SendNextMsgGrown DEF DecodeNak, Nacked
<1>3. CASE DecodeRstAck
  <2>1. ASSUME NEW c \in Commands,
               SendNextMsg(Queued(c), wait_rsp, lastKnownMode, frmNum, FALSE, toNcp)
        PROVE  Grown(toNcp, toNcp')
    <3>1. Queued(c) \in Seq(Entries)
      BY QueuedType DEF TypeOK
    <3> QED BY <1>0, <2>1, <3>1, SendNextMsgGrown
  <2> QED BY <1>1, <1>3, <2>1 DEF DecodeRstAck, Connected
<1>4. CASE DecodeData \/ DecodeAck \/ DecodeBad
  BY <1>1, <1>4 DEF DecodeData, DecodeAck, DecodeBad
<1> QED BY <1>2, <1>3, <1>4 DEF Decode

LEMMA CleanDecode ==
  ASSUME TypeOK, AwayInv, ResetInv, ModeInv, ~flaky, Decode
  PROVE  AwayInv' /\ ResetInv' /\ ModeInv'
<1>0. toHost \in Seq(NcpFrames)
  BY DEF TypeOK, NcpTypeOK
<1>1. /\ chunk > 0 /\ toHost # <<>> /\ toHost' = Tail(toHost)
      /\ UNCHANGED <<enabled, blp, promptDetectCallback, adapterVars>>
      /\ stateConnected => stateConnected'
      /\ Head(toHost) = RstAck => stateConnected'
  <2>1. /\ chunk > 0 /\ toHost # <<>> /\ toHost' = Tail(toHost)
        /\ UNCHANGED <<enabled, blp, promptDetectCallback, adapterVars>>
    BY DEF Decode, DecodeData, DecodeAck, DecodeNak, DecodeRstAck, DecodeBad, DecodeNext,
           ncpOnlyVars
  <2>2. ASSUME DecodeRstAck
        PROVE  /\ stateConnected => stateConnected'
               /\ Head(toHost) = RstAck => stateConnected'
    BY <2>2 DEF DecodeRstAck, RstAck
  <2>3. ASSUME ~DecodeRstAck
        PROVE  /\ stateConnected => stateConnected'
               /\ Head(toHost) = RstAck => stateConnected'
    <3>1. UNCHANGED stateConnected /\ Head(toHost).type # "RSTACK"
      BY <2>3 DEF Decode, DecodeData, DecodeAck, DecodeNak, DecodeBad, DecodeNext
    <3> QED BY <3>1 DEF RstAck
  <2> QED BY <2>1, <2>2, <2>3
<1>2. enabled
  BY <1>1 DEF ModeInv
<1>3. Grown(toNcp, toNcp')
  BY DecodeGrown
<1>4. /\ HasLaunch(toHost') => HasLaunch(toHost)
      /\ Head(toHost) \in Launches => HasLaunch(toHost)
  BY <1>0, <1>1, HasLaunchTail
<1>5. AwayInv'
  BY <1>1, <1>3, <1>4, DecodeLaunch, AwayKept DEF Probing, adapterVars
<1>6. ResetInv'
  <2>1. /\ Len(toHost) \in Nat /\ Head(toHost) = toHost[1] /\ Len(toHost') = Len(toHost) - 1
        /\ \A j \in 1 .. Len(toHost) - 1 : toHost'[j] = toHost[j + 1]
    BY <1>0, <1>1, SeqFacts
  <2>2. ASSUME NEW i \in 1 .. Len(toHost), toHost[i] = RstAck, i # 1
        PROVE  \E j \in 1 .. Len(toHost') : toHost'[j] = RstAck
    <3>1. i - 1 \in 1 .. Len(toHost') /\ toHost'[i - 1] = toHost[i]
      BY <2>1, <2>2
    <3> QED BY <2>2, <3>1
  <2> QED BY <1>1, <1>3, <2>1, <2>2, ResetKept DEF adapterVars
<1>7. ModeInv'
  BY <1>1, <1>2, <1>3, ModeKept
<1> QED BY <1>5, <1>6, <1>7

LEMMA MessageGrown ==
  ASSUME TypeOK, NEW p, DeliverMessage(p), ~flaky
  PROVE  Grown(toNcp, toNcp') /\ (~enabled /\ ackTimer' => ackTimer)
<1>0. /\ toNcp \in Seq(HostFrames) /\ sendingMsgQueue \in Seq(Entries) /\ frmNum \in FrmNums
  BY DEF TypeOK, NcpTypeOK, QueueTypeOK, SendTypeOK
<1>1. PICK out \in AckWrites :
        IF IsResponse(p)
        THEN SendNextMsg(Tail(sendingMsgQueue), FALSE, lastKnownMode, frmNum, ackTimer, out)
        ELSE toNcp' = out /\ UNCHANGED sendVars
  BY DEF DeliverMessage, HandleResponse
<1>2. Grown(toNcp, out) /\ out \in Seq(HostFrames)
  BY <1>0, AckWritesGrown, AckWritesType
<1>3. CASE IsResponse(p)
  <2>1. Tail(sendingMsgQueue) \in Seq(Entries)
    BY <1>0, <1>3, EntryInSeq DEF IsResponse
  <2>2. SendNextMsg(Tail(sendingMsgQueue), FALSE, lastKnownMode, frmNum, ackTimer, out)
    BY <1>1, <1>3
  <2>3. Grown(out, toNcp')
    BY <1>0, <1>2, <2>1, <2>2, SendNextMsgGrown
  <2>4. ~enabled /\ ackTimer' => ackTimer
    BY <2>2 DEF SendNextMsg
  <2> QED BY <1>2, <2>3, <2>4, GrownTwice
<1>4. CASE ~IsResponse(p)
  BY <1>1, <1>2, <1>4 DEF sendVars
<1> QED BY <1>3, <1>4

LEMMA CleanDeliver ==
  ASSUME TypeOK, AwayInv, ResetInv, ModeInv, ~flaky, Deliver
  PROVE  AwayInv' /\ ResetInv' /\ ModeInv'
<1>1. PICK p \in {pending[i] : i \in 1 .. Len(pending)} :
        DeliverInBootloader(p) \/ DeliverLaunch(p) \/ DeliverMessage(p)
  BY DEF Deliver
<1>2. /\ chunk = 0 /\ pending # <<>> /\ p = Head(pending) /\ pending' = Tail(pending)
      /\ UNCHANGED <<chunk, stateConnected, toHost, adapterVars>>
  BY <1>1 DEF DeliverInBootloader, DeliverLaunch, DeliverMessage, DeliverNext, ncpOnlyVars
<1>3. /\ LaunchPending' => LaunchPending
      /\ p.cmd = Launch => LaunchPending
  BY <1>2, PendingTail
<1>4. UNCHANGED toNcp => Grown(toNcp, toNcp')
  BY DEF Grown
<1>5. CASE DeliverInBootloader(p) \/ DeliverMessage(p)
  <2>1. /\ UNCHANGED <<lastKnownMode, enabled, blp, promptDetectCallback>>
        /\ Grown(toNcp, toNcp') /\ (~enabled /\ ackTimer' => ackTimer)
    <3>1. CASE DeliverInBootloader(p)
      BY <1>4, <3>1 DEF DeliverInBootloader, sendVars
    <3>2. CASE DeliverMessage(p)
      BY <3>2, MessageGrown DEF DeliverMessage
    <3> QED BY <1>5, <3>1, <3>2
  <2>2. AwayInv'
    BY <1>2, <1>3, <2>1, AwayKept DEF Probing, adapterVars
  <2>3. ResetInv'
    BY <1>2, <2>1, ResetKept DEF adapterVars
  <2>4. ModeInv'
    BY <1>2, <2>1, ModeKept DEF ModeInv
  <2> QED BY <2>2, <2>3, <2>4
<1>6. CASE DeliverLaunch(p)
  <2>1. /\ UNCHANGED <<toNcp, ackTimer>> /\ p.cmd = Launch
        /\ lastKnownMode' = "BOOTLOADER_FIRMWARE_UPGRADE"
        /\ promptDetectCallback' = "upgrade" /\ enabled' = FALSE
    BY <1>6 DEF DeliverLaunch, SetMode, sendVars
  <2>2. Away'
    BY <1>2, <1>3, <2>1 DEF AwayInv, Away, adapterVars
  <2>3. AwayInv'
    BY <1>2, <2>1, <2>2 DEF AwayInv
  <2>4. ResetInv'
    BY <2>1 DEF ResetInv
  <2>5. ModeInv'
    BY <1>2, <1>4, <2>1, ModeKept DEF BootloaderModes
  <2> QED BY <2>3, <2>4, <2>5
<1> QED BY <1>1, <1>5, <1>6

(* The adapter adds one frame at a time, unless noise spoils one.            *)
LEMMA NcpSaysMore ==
  ASSUME TypeOK, NcpNext, ~NoiseToHost
  PROVE  \/ UNCHANGED toHost
         \/ \E f \in NcpFrames : toHost' = Append(toHost, f)
<1>0. /\ toHost \in Seq(NcpFrames) /\ ncpUnacked \in Seq(DataFrames) /\ ncpTodo \in Seq(Entries)
      /\ ncpTx \in FrmNums /\ ncpRx \in FrmNums
  BY DEF TypeOK, NcpTypeOK
<1>1. CASE NcpReceives
  <2>1. /\ Simple("ACK") \in NcpFrames /\ [type |-> "NAK", num |-> ncpRx] \in NcpFrames
        /\ \A b \in BOOLEAN : [type |-> "RSTACK", good |-> b] \in NcpFrames
    BY <1>0, NcpFrameFacts DEF Simple
  <2>2. \/ toHost' \in {toHost, Nak, Append(toHost, Simple("ACK"))}
        \/ \E b \in BOOLEAN : toHost' = Append(toHost, [type |-> "RSTACK", good |-> b])
    BY <1>1 DEF NcpReceives, NcpReadsReset, NcpAcceptsData, NcpRejectsFrame, NcpReadsAck,
           NcpReadsJunk, NcpReadsRun, NcpReadsUpgrade, NcpIgnores, StartAsh
  <2> QED BY <2>1, <2>2 DEF Nak
<1>2. ASSUME NEW e \in Entries, SendsData(e)
      PROVE  \E f \in NcpFrames : toHost' = Append(toHost, f)
  <2>1. Data(ncpTx, ncpRx, e) \in NcpFrames
    BY <1>0, HostFrameFacts
  <2> QED BY <1>2, <2>1 DEF SendsData
<1>3. CASE NcpResponds
  BY <1>0, <1>2, <1>3, EntryInSeq DEF NcpResponds
<1>4. CASE \E c \in Callbacks : NcpCallsBack(c)
  <2>1. PICK c \in Callbacks : NcpCallsBack(c)
    BY <1>4
  <2>2. [tag |-> 0, cmd |-> c] \in Entries
    BY DEF Entries, EzspCmds
  <2> QED BY <1>2, <2>1, <2>2 DEF NcpCallsBack
<1>5. CASE NcpRetransmits
  <2>1. Head(ncpUnacked) \in NcpFrames
    BY <1>0, <1>5, SeqFacts DEF NcpRetransmits, NcpFrames
  <2> QED BY <1>5, <2>1 DEF NcpRetransmits
<1>6. CASE NcpResets
  <2>1. \A b \in BOOLEAN : [type |-> "RSTACK", good |-> b] \in NcpFrames
    BY NcpFrameFacts
  <2> QED BY <1>6, <2>1 DEF NcpResets, StartAsh
<1>7. CASE NoiseToNcp \/ LineDegrades \/ LineRecovers
  BY <1>7 DEF NoiseToNcp, LineDegrades, LineRecovers, wireVars
<1> QED BY <1>1, <1>3, <1>4, <1>5, <1>6, <1>7 DEF NcpNext

LEMMA LineTail ==
  ASSUME NEW line \in Seq(HostFrames), line # <<>>
  PROVE  /\ \A type : HasType(Tail(line), type) => HasType(line, type)
         /\ \A type : HasType(line, type) /\ Head(line).type # type => HasType(Tail(line), type)
         /\ (\A i \in 1 .. Len(line) : line[i].type = "RUN" => i = 1) => NoRun(Tail(line))
<1> DEFINE t == Tail(line)
<1>1. /\ Len(line) \in Nat \ {0} /\ Head(line) = line[1] /\ Len(t) = Len(line) - 1
      /\ \A i \in 1 .. Len(line) - 1 : t[i] = line[i + 1]
  BY SeqFacts
<1> HIDE DEF t
<1>2. \A i \in 1 .. Len(t) : i + 1 \in 1 .. Len(line) /\ t[i] = line[i + 1] /\ i + 1 # 1
  BY <1>1
<1>3. \A i \in 1 .. Len(line) : i # 1 => i - 1 \in 1 .. Len(t) /\ t[i - 1] = line[i]
  BY <1>1
<1>4. /\ \A type : HasType(t, type) => HasType(line, type)
      /\ \A type : HasType(line, type) /\ Head(line).type # type => HasType(t, type)
  BY <1>1, <1>2, <1>3 DEF HasType
<1>5. (\A i \in 1 .. Len(line) : line[i].type = "RUN" => i = 1) => NoRun(t)
  BY <1>2 DEF NoRun
<1> QED BY <1>4, <1>5 DEF t

(* The adapter while it does not run its application.                        *)
LEMMA CleanAway ==
  ASSUME TypeOK, AwayInv, ResetInv, ModeInv, NcpNext, UNCHANGED hostVars, ncpMode # "ezsp",
         ~Fault("noise"), ~Fault("write")
  PROVE  AwayInv' /\ ResetInv' /\ ModeInv'
<1>0. /\ toNcp \in Seq(HostFrames) /\ toHost \in Seq(NcpFrames) /\ ncpTodo = <<>>
      /\ Probing' = Probing /\ LaunchPending' = LaunchPending
      /\ UNCHANGED <<lastKnownMode, enabled, ackTimer, stateConnected, promptDetectCallback, chunk>>
  BY DEF TypeOK, NcpTypeOK, ModeInv, hostVars, modeVars, sendVars, readVars, Probing,
         LaunchPending
<1>1. \/ /\ toNcp # <<>> /\ Head(toNcp).type = "RUN" /\ toNcp' = Tail(toNcp)
         /\ toHost' = Append(toHost, RstAck) /\ ncpUnacked' = <<>> /\ ncpTodo' = <<>>
      \/ /\ UNCHANGED <<toHost, ncpUnacked, ncpTodo>> /\ ncpMode' # "ezsp"
         /\ \/ UNCHANGED <<toNcp, ncpMode>>
            \/ toNcp # <<>> /\ toNcp' = Tail(toNcp)
  <2>1. CASE NcpReceives
    BY <2>1 DEF NcpReceives, NcpReadsReset, NcpAcceptsData, NcpRejectsFrame, NcpReadsAck,
                NcpReadsJunk, NcpReadsRun, NcpReadsUpgrade, NcpIgnores, StartAsh, RstAck
  <2>2. ~NcpReceives => LineRecovers
    BY <1>0 DEF NcpNext, NcpResponds, NcpCallsBack, NcpRetransmits, NcpResets, NoiseToNcp,
                NoiseToHost, LineDegrades
  <2> QED BY <2>1, <2>2 DEF LineRecovers, wireVars, adapterVars
<1>2. /\ \A type : HasType(toNcp', type) => HasType(toNcp, type)
      /\ toNcp # <<>> => NoRun(Tail(toNcp))
  <2>1. toNcp # <<>> => /\ NoRun(Tail(toNcp))
                        /\ \A type : HasType(Tail(toNcp), type) => HasType(toNcp, type)
    BY <1>0, LineTail DEF ModeInv
  <2> QED BY <1>1, <2>1
<1>3. CASE /\ toNcp # <<>> /\ Head(toNcp).type = "RUN" /\ toNcp' = Tail(toNcp)
           /\ toHost' = Append(toHost, RstAck) /\ ncpUnacked' = <<>> /\ ncpTodo' = <<>>
  <2>1. ~Away
    BY <1>0, <1>3, SeqFacts DEF Away, NoRun
  <2>2. RstAck \in NcpFrames /\ RstAck \notin Launches
    BY NcpFrameFacts DEF Launches, RstAck
  <2>3. ~HasLaunch(toHost')
    BY <1>0, <1>3, <2>1, <2>2, NoLaunchFacts DEF AwayInv
  <2>4. AwayInv'
    BY <1>0, <1>2, <2>1, <2>3 DEF AwayInv
  <2>5. \E i \in 1 .. Len(toHost') : toHost'[i] = RstAck
    <3>1. Len(toHost) + 1 \in 1 .. Len(toHost') /\ toHost'[Len(toHost) + 1] = RstAck
      BY <1>0, <1>3, <2>2, SeqFacts
    <3> QED BY <3>1
  <2>6. ResetInv'
    BY <2>5 DEF ResetInv
  <2>7. ModeInv'
    BY <1>0, <1>2, <1>3, NoLaunchHere DEF ModeInv, NoRun
  <2> QED BY <2>4, <2>6, <2>7
<1>4. CASE /\ UNCHANGED <<toHost, ncpUnacked, ncpTodo>> /\ ncpMode' # "ezsp"
           /\ \/ UNCHANGED <<toNcp, ncpMode>>
              \/ toNcp # <<>> /\ toNcp' = Tail(toNcp)
  <2>1. NoRun(toNcp) => NoRun(toNcp')
    BY <1>2, <1>4
  <2>2. AwayInv'
    BY <1>0, <1>2, <1>4, <2>1 DEF AwayInv, Away
  <2>3. ResetInv'
    BY <1>4 DEF ResetInv
  <2>4. ModeInv'
    BY <1>0, <1>2, <1>4 DEF ModeInv, NoRun
  <2> QED BY <2>2, <2>3, <2>4
<1> QED BY <1>1, <1>3, <1>4

(* The adapter while it runs it: no frame is spoilt, and nobody said that it *)
(* left.                                                                     *)
LEMMA Running ==
  ASSUME AwayInv, ModeInv, ncpMode = "ezsp"
  PROVE  /\ NoRun(toNcp) /\ ~HasType(toNcp, "JUNK") /\ ~HasType(toNcp, "BAD")
         /\ ~Probing /\ ~LaunchPending /\ ~HasLaunch(toHost) /\ ~HasLaunch(ncpUnacked)
BY DEF AwayInv, ModeInv, Away, NoRun

LEMMA CleanHead ==
  ASSUME TypeOK, AwayInv, ModeInv, ncpMode = "ezsp", toNcp # <<>>
  PROVE  Head(toNcp).type \in {"RST", "DATA", "ACK", "UPGRADE"}
<1>1. toNcp \in Seq(HostFrames)
  BY DEF TypeOK, NcpTypeOK
<1>2. Head(toNcp) = toNcp[1] /\ 1 \in 1 .. Len(toNcp) /\ Head(toNcp) \in HostFrames
  BY <1>1, SeqFacts
<1>3. Head(toNcp).type \notin {"RUN", "JUNK", "BAD"}
  BY <1>2, Running DEF NoRun, HasType
<1> QED BY <1>2, <1>3 DEF HostFrames, DataFrames

LEMMA CleanRunning ==
  ASSUME TypeOK, AwayInv, ResetInv, ModeInv, NcpNext, UNCHANGED hostVars, ncpMode = "ezsp",
         ~Fault("noise"), ~Fault("write")
  PROVE  AwayInv' /\ ResetInv' /\ ModeInv'
<1>0. /\ toNcp \in Seq(HostFrames) /\ toHost \in Seq(NcpFrames)
      /\ Probing' = Probing /\ LaunchPending' = LaunchPending
      /\ UNCHANGED <<lastKnownMode, enabled, ackTimer, stateConnected, promptDetectCallback, chunk>>
  BY DEF TypeOK, NcpTypeOK, hostVars, modeVars, sendVars, readVars, Probing, LaunchPending
<1>1. toNcp # <<>> => Head(toNcp).type \in {"RST", "DATA", "ACK", "UPGRADE"}
  BY CleanHead
<1>2. \/ toNcp' = toNcp
      \/ toNcp # <<>> /\ toNcp' = Tail(toNcp)
  BY <1>1 DEF NcpNext, NcpReceives, NcpReadsReset, NcpAcceptsData, NcpRejectsFrame, NcpReadsAck,
              NcpReadsJunk, NcpReadsRun, NcpReadsUpgrade, NcpIgnores, NcpResponds, NcpCallsBack,
              NcpRetransmits, NcpResets, NoiseToNcp, NoiseToHost, LineDegrades, LineRecovers,
              wireVars
<1>3. /\ NoRun(toNcp') /\ ~HasType(toNcp', "JUNK") /\ ~HasType(toNcp', "BAD")
      /\ ~Probing' /\ ~LaunchPending'
  <2>1. toNcp # <<>> => /\ NoRun(Tail(toNcp))
                        /\ \A type : HasType(Tail(toNcp), type) => HasType(toNcp, type)
    BY <1>0, LineTail, NoRunFacts, Running
  <2> QED BY <1>0, <1>2, <2>1, Running
<1>4. \/ ~HasLaunch(toHost') /\ ~HasLaunch(ncpUnacked')
      \/ Silent'
  BY AdapterSaysLaunch, Running
<1>5. AwayInv'
  BY <1>3, <1>4 DEF AwayInv, Away, Silent
<1>6. ResetInv'
  <2>1. \/ UNCHANGED toHost
        \/ \E f \in NcpFrames : toHost' = Append(toHost, f)
    BY NcpSaysMore DEF NoiseToHost
  <2>2. ASSUME NEW i \in 1 .. Len(toHost), toHost[i] = RstAck
        PROVE  \E j \in 1 .. Len(toHost') : toHost'[j] = RstAck
    <3>1. i \in 1 .. Len(toHost') /\ toHost'[i] = toHost[i]
      BY <1>0, <2>1, SeqFacts
    <3> QED BY <2>2, <3>1
  <2>3. HasType(toNcp, "RST") =>
          HasType(toNcp', "RST") \/ \E j \in 1 .. Len(toHost') : toHost'[j] = RstAck
    <3>1. CASE toNcp # <<>> /\ toNcp' = Tail(toNcp) /\ toNcp' # toNcp /\ Head(toNcp).type = "RST"
      <4>1. toHost' = Append(toHost, RstAck)
        BY <3>1 DEF NcpNext, NcpReceives, NcpReadsReset, NcpAcceptsData, NcpRejectsFrame,
                    NcpReadsAck, NcpReadsJunk, NcpReadsRun, NcpReadsUpgrade, NcpIgnores,
                    NcpResponds, NcpCallsBack, NcpRetransmits, NcpResets, NoiseToNcp,
                    NoiseToHost, LineDegrades, LineRecovers, wireVars, StartAsh, RstAck
      <4>2. RstAck \in NcpFrames
        BY NcpFrameFacts DEF RstAck
      <4>3. Len(toHost) + 1 \in 1 .. Len(toHost') /\ toHost'[Len(toHost) + 1] = RstAck
        BY <1>0, <4>1, <4>2, SeqFacts
      <4> QED BY <4>3
    <3>2. CASE toNcp # <<>> /\ toNcp' = Tail(toNcp) /\ Head(toNcp).type # "RST"
      BY <1>0, <3>2, LineTail
    <3> QED BY <1>2, <3>1, <3>2
  <2> QED BY <1>0, <2>2, <2>3 DEF ResetInv
<1>7. ModeInv'
  <2>1. ncpTodo' # <<>> => ncpMode' = "ezsp" /\ ncpConnected'
    <3>1. ncpTodo' # <<>> /\ NcpResponds => ncpMode' = "ezsp" /\ ncpConnected'
      BY DEF NcpResponds
    <3>2. ncpTodo' # <<>> /\ ~NcpResponds => ncpMode' = "ezsp" /\ ncpConnected'
      BY DEF ModeInv, NcpNext, NcpReceives, NcpReadsReset, NcpAcceptsData, NcpRejectsFrame,
             NcpReadsAck, NcpReadsJunk, NcpReadsRun, NcpReadsUpgrade, NcpIgnores, NcpCallsBack,
             NcpRetransmits, NcpResets, NoiseToNcp, NoiseToHost, LineDegrades, LineRecovers,
             StartAsh, adapterVars
    <3> QED BY <3>1, <3>2
  <2>2. HasLaunch(ncpUnacked') => ncpMode' # "ezsp"
    BY <1>4 DEF Silent
  <2> QED BY <1>0, <1>3, <2>1, <2>2 DEF ModeInv, NoRun
<1> QED BY <1>5, <1>6, <1>7

LEMMA NextClean ==
  ASSUME TypeOK, StartInv, FlakyInv, CleanInv, [Next]_vars
  PROVE  CleanInv'
<1> SUFFICES ASSUME Clean' PROVE AwayInv' /\ ResetInv' /\ ModeInv'
  BY DEF CleanInv
<1>1. AwayInv /\ ResetInv /\ ModeInv
  BY CleanStep DEF CleanInv
<1>2. ~flaky /\ ~Fault("noise") /\ ~Fault("write") /\ ~Fault("slowBoot")
  BY CleanStep
<1>3. CASE UserNext \/ BlpProbes \/ PromptDetected \/ ReadChunk
  BY <1>1, <1>2, <1>3, CleanIdle DEF UserNext
<1>4. CASE AckTimerExpires
  BY <1>1, <1>2, <1>4, CleanTimer
<1>5. CASE Decode
  BY <1>1, <1>2, <1>5, CleanDecode
<1>6. CASE Deliver
  BY <1>1, <1>2, <1>6, CleanDeliver
<1>7. CASE NcpNext /\ UNCHANGED hostVars
  BY <1>1, <1>2, <1>7, CleanAway, CleanRunning
<1>8. CASE UNCHANGED vars
  <2>1. UNCHANGED <<toNcp, toHost, adapterVars, modeVars, sendVars, stateConnected, readVars>>
    BY <1>8 DEF vars, hostVars, wireVars, ncpOnlyVars
  <2>2. AwayInv' /\ ResetInv' /\ ModeInv'
    BY <1>1, <2>1 DEF AwayInv, ResetInv, ModeInv, Away, Probing, LaunchPending, adapterVars,
                      modeVars, sendVars, readVars
  <2> QED BY <2>2
<1> QED BY <1>3, <1>4, <1>5, <1>6, <1>7, <1>8 DEF Next, HostNext

(* The frame numbers along the line: before and after each frame, what the   *)
(* adapter has to expect when it has read the line up to there.              *)
Counts(f, before, after) ==
  IF f.type = "DATA" THEN f.frm = before /\ after = SuccFrm(before)
  ELSE after = IF f.type \in {"RST", "RUN"} THEN 0 ELSE before

Counted(line, first, last) ==
  \E num \in [0 .. Len(line) -> FrmNums] :
    /\ num[0] = first /\ num[Len(line)] = last
    /\ \A i \in 1 .. Len(line) : Counts(line[i], num[i - 1], num[i])

HasNak == \E i \in 1 .. Len(toHost) : toHost[i].type = "NAK"

Numbered ==
  \E first, last \in FrmNums :
    /\ Counted(toNcp, first, last)
    /\ ncpMode = "ezsp" /\ ncpConnected => first = ncpRx
    /\ enabled => last = frmNum

(* As long as the adapter does not restart by itself it has nothing to       *)
(* reject.                                                                   *)
NumberedInv == Clean /\ "ncpReset" \notin Happened => Numbered /\ ~HasNak

LEMMA CountedEmpty == \A n \in FrmNums : Counted(<<>>, n, n)
<1> SUFFICES ASSUME NEW n \in FrmNums PROVE Counted(<<>>, n, n)
  OBVIOUS
<1>1. PICK line : line = <<>>
  OBVIOUS
<1>2. Len(line) = 0
  BY <1>1
<1> DEFINE num == [i \in 0 .. Len(line) |-> n]
<1>3. num \in [0 .. Len(line) -> FrmNums] /\ num[0] = n /\ num[Len(line)] = n
  BY <1>2
<1> HIDE DEF num
<1>4. Counted(line, n, n)
  BY <1>2, <1>3 DEF Counted
<1> QED BY <1>1, <1>4

LEMMA CountedAppend ==
  ASSUME NEW line \in Seq(HostFrames), NEW first \in FrmNums, NEW last \in FrmNums,
         Counted(line, first, last), NEW f \in HostFrames, NEW next \in FrmNums,
         Counts(f, last, next)
  PROVE  Counted(Append(line, f), first, next)
<1> DEFINE new == Append(line, f)
<1>1. /\ Len(line) \in Nat /\ Len(new) = Len(line) + 1 /\ new[Len(line) + 1] = f
      /\ \A i \in 1 .. Len(line) : new[i] = line[i]
  BY SeqFacts
<1> HIDE DEF new
<1>2. PICK num \in [0 .. Len(line) -> FrmNums] :
        /\ num[0] = first /\ num[Len(line)] = last
        /\ \A i \in 1 .. Len(line) : Counts(line[i], num[i - 1], num[i])
  BY DEF Counted
<1> DEFINE more == [i \in 0 .. Len(new) |-> IF i = Len(new) THEN next ELSE num[i]]
<1>3. more \in [0 .. Len(new) -> FrmNums]
  BY <1>1
<1>4. /\ more[Len(new)] = next
      /\ \A i \in 0 .. Len(line) : more[i] = num[i]
  BY <1>1
<1> HIDE DEF more
<1>5. \A i \in 1 .. Len(new) : Counts(new[i], more[i - 1], more[i])
  <2> SUFFICES ASSUME NEW i \in 1 .. Len(new) PROVE Counts(new[i], more[i - 1], more[i])
    OBVIOUS
  <2>1. CASE i \in 1 .. Len(line)
    <3>1. more[i] = num[i] /\ more[i - 1] = num[i - 1] /\ new[i] = line[i]
      BY <1>1, <1>4, <2>1
    <3> QED BY <1>2, <2>1, <3>1
  <2>2. CASE i = Len(line) + 1
    <3>1. more[i] = next /\ more[i - 1] = last /\ new[i] = f
      BY <1>1, <1>2, <1>4, <2>2
    <3> QED BY <3>1
  <2> QED BY <1>1, <2>1, <2>2
<1>6. more[0] = first
  BY <1>1, <1>2, <1>4
<1> QED BY <1>3, <1>4, <1>5, <1>6 DEF Counted, new

LEMMA CountedTail ==
  ASSUME NEW line \in Seq(HostFrames), line # <<>>, NEW first \in FrmNums, NEW last \in FrmNums,
         Counted(line, first, last)
  PROVE  \E next \in FrmNums : Counts(Head(line), first, next) /\ Counted(Tail(line), next, last)
<1> DEFINE new == Tail(line)
<1>1. /\ Len(line) \in Nat \ {0} /\ Head(line) = line[1] /\ Len(new) = Len(line) - 1
      /\ \A i \in 1 .. Len(line) - 1 : new[i] = line[i + 1]
  BY SeqFacts
<1> HIDE DEF new
<1>2. PICK num \in [0 .. Len(line) -> FrmNums] :
        /\ num[0] = first /\ num[Len(line)] = last
        /\ \A i \in 1 .. Len(line) : Counts(line[i], num[i - 1], num[i])
  BY DEF Counted
<1> DEFINE less == [i \in 0 .. Len(new) |-> num[i + 1]]
<1>3. less \in [0 .. Len(new) -> FrmNums]
  BY <1>1
<1>4. \A i \in 0 .. Len(new) : less[i] = num[i + 1]
  OBVIOUS
<1> HIDE DEF less
<1>5. \A i \in 1 .. Len(new) : Counts(new[i], less[i - 1], less[i])
  <2> SUFFICES ASSUME NEW i \in 1 .. Len(new) PROVE Counts(new[i], less[i - 1], less[i])
    OBVIOUS
  <2>1. i + 1 \in 1 .. Len(line) /\ (i + 1) - 1 = i /\ (i - 1) + 1 = i
    BY <1>1
  <2>2. less[i] = num[i + 1] /\ less[i - 1] = num[i] /\ new[i] = line[i + 1]
    BY <1>1, <1>4, <2>1
  <2>3. Counts(line[i + 1], num[(i + 1) - 1], num[i + 1])
    BY <1>2, <2>1
  <2> QED BY <2>1, <2>2, <2>3
<1>6. less[0] = num[1] /\ less[Len(new)] = last
  BY <1>1, <1>2, <1>4
<1>7. num[1] \in FrmNums
  BY <1>1
<1>8. Counts(Head(line), first, num[1])
  <2>1. 1 \in 1 .. Len(line) /\ 1 - 1 = 0
    BY <1>1
  <2>2. Counts(line[1], num[1 - 1], num[1])
    BY <1>2, <2>1
  <2> QED BY <1>1, <1>2, <2>1, <2>2
<1> QED BY <1>3, <1>5, <1>6, <1>7, <1>8 DEF Counted, new

(* What sendNextMsg() writes has the number that the adapter will expect.    *)
LEMMA SendNextMsgCounted ==
  ASSUME TypeOK, NEW queue \in Seq(Entries), NEW wait, NEW mode, NEW frm \in FrmNums,
         NEW timer, NEW out \in Seq(HostFrames), NEW first \in FrmNums, NEW last \in FrmNums,
         SendNextMsg(queue, wait, mode, frm, timer, out), ~flaky,
         Counted(out, first, last), enabled => last = frm
  PROVE  \E next \in FrmNums : Counted(toNcp', first, next) /\ (enabled => next = frmNum')
<1>1. CASE MaySend(queue, wait, mode) /\ enabled
  <2> DEFINE f == Data(frm, lastReceivedByNEAckNum, Head(queue))
  <2>1. Head(queue) \in Entries
    BY <1>1, EntryInSeq DEF MaySend
  <2>2. f \in HostFrames /\ f.type = "DATA" /\ f.frm = frm
    <3>1. f \in HostFrames
      BY <2>1, HostFrameFacts DEF TypeOK, ReadTypeOK
    <3> QED BY <3>1 DEF Data
  <2>3. toNcp' = Append(out, f) /\ frmNum' = SuccFrm(frm)
    BY <1>1 DEF SendNextMsg, Written
  <2> HIDE DEF f
  <2>4. Counts(f, last, SuccFrm(frm)) /\ SuccFrm(frm) \in FrmNums
    BY <1>1, <2>2, FrmFacts DEF Counts
  <2> QED BY <2>2, <2>3, <2>4, CountedAppend
<1>2. CASE ~(MaySend(queue, wait, mode) /\ enabled)
  <2>1. toNcp' = out /\ (enabled => frmNum' = frm)
    BY <1>2 DEF SendNextMsg
  <2> QED BY <2>1
<1> QED BY <1>1, <1>2

LEMMA AckWritesCounted ==
  ASSUME TypeOK, ~flaky, NEW first \in FrmNums, NEW last \in FrmNums,
         Counted(toNcp, first, last)
  PROVE  \A w \in AckWrites : Counted(w, first, last)
<1> DEFINE a == [type |-> "ACK", ack |-> lastReceivedByNEAckNum]
<1>1. a \in HostFrames /\ a.type = "ACK"
  BY HostFrameFacts DEF TypeOK, ReadTypeOK
<1>2. toNcp \in Seq(HostFrames)
  BY DEF TypeOK, NcpTypeOK
<1>3. AckWrites \subseteq {toNcp, Append(toNcp, a)}
  BY DEF AckWrites, Written
<1> HIDE DEF a
<1>4. Counts(a, last, last)
  BY <1>1 DEF Counts
<1> QED BY <1>1, <1>2, <1>3, <1>4, CountedAppend

(* The host keeps the line counted when no NAK tells it otherwise.           *)
LEMMA HostCounted ==
  ASSUME TypeOK, ~flaky, ~HasNak, UserNext \/ HostNext,
         NEW first \in FrmNums, NEW last \in FrmNums, Counted(toNcp, first, last),
         enabled => last = frmNum
  PROVE  \E next \in FrmNums : Counted(toNcp', first, next) /\ (enabled' => next = frmNum')
<1>0. /\ toNcp \in Seq(HostFrames) /\ frmNum \in FrmNums /\ sendingMsgQueue \in Seq(Entries)
      /\ toHost \in Seq(NcpFrames)
  BY DEF TypeOK, NcpTypeOK, SendTypeOK, QueueTypeOK
<1> DEFINE Goal == \E next \in FrmNums : Counted(toNcp', first, next) /\ (enabled' => next = frmNum')
<1> SUFFICES Goal
  OBVIOUS
<1>1. UNCHANGED <<toNcp, frmNum>> /\ (enabled' => enabled) => Goal
  OBVIOUS
<1>2. ASSUME NEW f \in HostFrames, f.type \in {"RST", "RUN"}, NEW out \in Seq(HostFrames),
             NEW b \in FrmNums, Counted(out, first, b)
      PROVE  Counted(Append(out, f), first, 0)
  <2>1. Counts(f, b, 0) /\ 0 \in FrmNums
    BY <1>2, FrmFacts DEF Counts
  <2> QED BY <1>2, <2>1, CountedAppend
<1>3. ASSUME NEW f \in HostFrames, f.type \in {"JUNK", "UPGRADE"}
      PROVE  Counted(Append(toNcp, f), first, last)
  <2>1. Counts(f, last, last)
    BY <1>3 DEF Counts
  <2> QED BY <1>0, <1>3, <2>1, CountedAppend
<1>4. /\ \A t \in {"RST", "RUN", "JUNK", "UPGRADE"} : Simple(t) \in HostFrames /\ Simple(t).type = t
  BY HostFrameFacts DEF Simple
<1>5. ASSUME NEW out \in Seq(HostFrames), NEW b \in FrmNums, Counted(out, first, b),
             ResetDongle(out)
      PROVE  Goal
  <2>1. toNcp' = Append(out, Simple("RST")) /\ frmNum' = 0
    BY <1>5 DEF ResetDongle, Written
  <2> QED BY <1>2, <1>4, <1>5, <2>1, FrmFacts
<1>6. ASSUME NEW queue \in Seq(Entries), NEW wait, NEW timer, NEW out \in Seq(HostFrames),
             Counted(out, first, last), UNCHANGED enabled,
             SendNextMsg(queue, wait, lastKnownMode, frmNum, timer, out)
      PROVE  Goal
  <2>1. \E next \in FrmNums : Counted(toNcp', first, next) /\ (enabled => next = frmNum')
    BY <1>0, <1>6, SendNextMsgCounted
  <2> QED BY <1>6, <2>1
<1> HIDE DEF Goal
<1>7. ASSUME NEW c \in Commands \cup {Launch}, SendCommand(c)
      PROVE  Goal
  <2>1. Queued(c) \in Seq(Entries)
    BY QueuedType DEF TypeOK
  <2> QED BY <1>0, <1>6, <1>7, <2>1 DEF SendCommand, modeVars
<1>8. CASE Reset
  BY <1>0, <1>5, <1>8 DEF Reset
<1>9. CASE AckTimerExpires
  <2>1. UNCHANGED <<toNcp, frmNum>> /\ (enabled' => enabled)
    BY <1>9 DEF AckTimerExpires, ResetFailed, SetMode, modeVars, wireVars
  <2> QED BY <1>1, <2>1
<1>10. CASE BlpProbes
  <2>1. toNcp' = Append(toNcp, Simple("JUNK")) /\ UNCHANGED <<enabled, frmNum>>
    BY <1>10 DEF BlpProbes, sendVars
  <2> QED BY <1>3, <1>4, <2>1 DEF Goal
<1>11. CASE PromptDetected
  <2>1. CASE ResetDongle(Append(toNcp, Simple("RUN")))
    <3>1. Append(toNcp, Simple("RUN")) \in Seq(HostFrames)
      BY <1>0, <1>4
    <3>2. Counted(Append(toNcp, Simple("RUN")), first, 0)
      BY <1>0, <1>2, <1>4
    <3> QED BY <1>5, <2>1, <3>1, <3>2, FrmFacts
  <2>2. CASE toNcp' = Append(toNcp, Simple("UPGRADE")) /\ UNCHANGED <<enabled, frmNum>>
    BY <1>3, <1>4, <2>2 DEF Goal
  <2> QED BY <1>11, <2>1, <2>2 DEF PromptDetected, MenuChoice
<1>12. CASE ReadChunk
  BY <1>1, <1>12 DEF ReadChunk, modeVars, sendVars
<1>13. CASE DecodeNak
  <2>1. toHost # <<>> /\ Head(toHost).type = "NAK"
    BY <1>13 DEF DecodeNak, DecodeNext
  <2> QED BY <1>0, <2>1, SeqFacts DEF HasNak
<1>14. CASE DecodeRstAck
  <2>1. UNCHANGED enabled
    BY <1>14 DEF DecodeRstAck, DecodeNext
  <2>2. \/ UNCHANGED <<toNcp, frmNum>>
        \/ \E c \in Commands : SendNextMsg(Queued(c), wait_rsp, lastKnownMode, frmNum, FALSE, toNcp)
    BY <1>14 DEF DecodeRstAck, Connected, sendVars
  <2>3. \A c \in Commands : Queued(c) \in Seq(Entries)
    BY QueuedType DEF TypeOK
  <2> QED BY <1>0, <1>1, <1>6, <2>1, <2>2, <2>3
<1>15. CASE DecodeData \/ DecodeAck \/ DecodeBad
  BY <1>1, <1>15 DEF DecodeData, DecodeAck, DecodeBad, DecodeNext, sendVars
<1>16. ASSUME NEW p, DeliverInBootloader(p) \/ DeliverLaunch(p)
       PROVE  Goal
  <2>1. UNCHANGED <<toNcp, frmNum>> /\ (enabled' => enabled)
    BY <1>16 DEF DeliverInBootloader, DeliverLaunch, SetMode, sendVars
  <2> QED BY <1>1, <2>1
<1>17. ASSUME NEW p, DeliverMessage(p)
       PROVE  Goal
  <2>1. UNCHANGED enabled
    BY <1>17 DEF DeliverMessage
  <2>2. PICK out \in AckWrites : HandleResponse(p, out)
    BY <1>17 DEF DeliverMessage
  <2>3. Counted(out, first, last) /\ out \in Seq(HostFrames)
    BY <1>0, AckWritesCounted, AckWritesType
  <2>4. CASE IsResponse(p)
    <3>1. Tail(sendingMsgQueue) \in Seq(Entries)
      BY <1>0, <2>4, EntryInSeq DEF IsResponse
    <3>2. SendNextMsg(Tail(sendingMsgQueue), FALSE, lastKnownMode, frmNum, ackTimer, out)
      BY <2>2, <2>4 DEF HandleResponse
    <3> QED BY <1>6, <2>1, <2>3, <3>1, <3>2
  <2>5. CASE ~IsResponse(p)
    <3>1. toNcp' = out /\ UNCHANGED frmNum
      BY <2>2, <2>5 DEF HandleResponse, sendVars
    <3> QED BY <2>1, <2>3, <3>1 DEF Goal
  <2> QED BY <2>4, <2>5
<1> QED
  BY <1>7, <1>8, <1>9, <1>10, <1>11, <1>12, <1>13, <1>14, <1>15, <1>16, <1>17
     DEF UserNext, HostNext, Decode, Deliver

(* What a step of the host leaves to the adapter, and takes from the line.   *)
LEMMA HostSide ==
  ASSUME UserNext \/ HostNext
  PROVE  /\ UNCHANGED adapterVars
         /\ \/ UNCHANGED toHost
            \/ toHost # <<>> /\ toHost' = Tail(toHost)
<1>1. ASSUME UserNext PROVE UNCHANGED adapterVars /\ UNCHANGED toHost
  BY <1>1 DEF UserNext, SendCommand, Reset
<1>2. ASSUME Decode \/ Deliver \/ ReadChunk
      PROVE  /\ UNCHANGED adapterVars
             /\ \/ UNCHANGED toHost
                \/ toHost # <<>> /\ toHost' = Tail(toHost)
  BY <1>2 DEF ReadChunk, Decode, DecodeData, DecodeAck, DecodeNak, DecodeRstAck, DecodeBad,
              DecodeNext, Deliver, DeliverInBootloader, DeliverLaunch, DeliverMessage,
              DeliverNext, ncpOnlyVars
<1>3. ASSUME AckTimerExpires \/ BlpProbes \/ PromptDetected
      PROVE  UNCHANGED adapterVars /\ UNCHANGED toHost
  BY <1>3 DEF AckTimerExpires, BlpProbes, PromptDetected, wireVars, ncpOnlyVars
<1> QED BY <1>1, <1>2, <1>3 DEF HostNext

LEMMA NakTail ==
  ASSUME TypeOK, toHost # <<>>, toHost' = Tail(toHost)
  PROVE  HasNak' => HasNak
<1>1. toHost \in Seq(NcpFrames)
  BY DEF TypeOK, NcpTypeOK
<1>2. \A i \in 1 .. Len(toHost') : i + 1 \in 1 .. Len(toHost) /\ toHost'[i] = toHost[i + 1]
  BY <1>1, SeqFacts
<1> QED BY <1>2 DEF HasNak

LEMMA NakAppend ==
  ASSUME TypeOK, NEW f \in NcpFrames, f.type # "NAK", toHost' = Append(toHost, f)
  PROVE  HasNak' => HasNak
<1>1. toHost \in Seq(NcpFrames)
  BY DEF TypeOK, NcpTypeOK
<1>2. /\ Len(toHost) \in Nat /\ Len(toHost') = Len(toHost) + 1 /\ toHost'[Len(toHost) + 1] = f
      /\ \A i \in 1 .. Len(toHost) : toHost'[i] = toHost[i]
  BY <1>1, SeqFacts
<1>3. \A i \in 1 .. Len(toHost') : i \in 1 .. Len(toHost) \/ i = Len(toHost) + 1
  BY <1>2
<1> QED BY <1>2, <1>3 DEF HasNak

(* Only a rejection is answered with a NAK.                                  *)
LEMMA NcpSaysNak ==
  ASSUME TypeOK, NcpNext, ~NoiseToHost, ~(NcpReceives /\ NcpRejectsFrame(Head(toNcp)))
  PROVE  HasNak' => HasNak
<1>0. /\ ncpUnacked \in Seq(DataFrames) /\ ncpTodo \in Seq(Entries)
      /\ ncpTx \in FrmNums /\ ncpRx \in FrmNums
  BY DEF TypeOK, NcpTypeOK
<1>1. CASE NcpReceives
  <2>1. /\ Simple("ACK") \in NcpFrames /\ Simple("ACK").type # "NAK"
        /\ \A b \in BOOLEAN : /\ [type |-> "RSTACK", good |-> b] \in NcpFrames
                              /\ [type |-> "RSTACK", good |-> b].type # "NAK"
    BY NcpFrameFacts DEF Simple
  <2>2. \/ toHost' \in {toHost, Append(toHost, Simple("ACK"))}
        \/ \E b \in BOOLEAN : toHost' = Append(toHost, [type |-> "RSTACK", good |-> b])
    BY <1>1 DEF NcpReceives, NcpReadsReset, NcpAcceptsData, NcpReadsAck,
           NcpReadsJunk, NcpReadsRun, NcpReadsUpgrade, NcpIgnores, StartAsh
  <2>3. UNCHANGED toHost => (HasNak' => HasNak)
    BY DEF HasNak
  <2> QED BY <2>1, <2>2, <2>3, NakAppend
<1>2. ASSUME NEW e \in Entries, SendsData(e)
      PROVE  HasNak' => HasNak
  <2>1. Data(ncpTx, ncpRx, e) \in NcpFrames
    BY <1>0, HostFrameFacts
  <2>2. Data(ncpTx, ncpRx, e).type # "NAK"
    BY DEF Data
  <2> QED BY <1>2, <2>1, <2>2, NakAppend DEF SendsData
<1>3. CASE NcpResponds
  BY <1>0, <1>2, <1>3, EntryInSeq DEF NcpResponds
<1>4. CASE \E c \in Callbacks : NcpCallsBack(c)
  <2>1. PICK c \in Callbacks : NcpCallsBack(c)
    BY <1>4
  <2>2. [tag |-> 0, cmd |-> c] \in Entries
    BY DEF Entries, EzspCmds
  <2> QED BY <1>2, <2>1, <2>2 DEF NcpCallsBack
<1>5. CASE NcpRetransmits
  <2>1. Head(ncpUnacked) \in DataFrames
    BY <1>0, <1>5, SeqFacts DEF NcpRetransmits
  <2>2. Head(ncpUnacked) \in NcpFrames /\ Head(ncpUnacked).type # "NAK"
    BY <2>1 DEF NcpFrames, DataFrames
  <2> QED BY <1>5, <2>2, NakAppend DEF NcpRetransmits
<1>6. CASE NcpResets
  <2>1. \A b \in BOOLEAN : /\ [type |-> "RSTACK", good |-> b] \in NcpFrames
                           /\ [type |-> "RSTACK", good |-> b].type # "NAK"
    BY NcpFrameFacts
  <2> QED BY <1>6, <2>1, NakAppend DEF NcpResets, StartAsh
<1>7. CASE NoiseToNcp \/ LineDegrades \/ LineRecovers
  BY <1>7 DEF NoiseToNcp, LineDegrades, LineRecovers, wireVars, HasNak
<1> QED BY <1>1, <1>3, <1>4, <1>5, <1>6, <1>7 DEF NcpNext

(* A running adapter gets the numbers it expects.                            *)
LEMMA NcpCounted ==
  ASSUME TypeOK, AwayInv, ModeInv, NcpNext, ~NcpResets, ~NoiseToNcp, ~NoiseToHost,
         NEW first \in FrmNums, NEW last \in FrmNums, Counted(toNcp, first, last),
         ncpMode = "ezsp" /\ ncpConnected => first = ncpRx
  PROVE  /\ \E next \in FrmNums : /\ Counted(toNcp', next, last)
                                  /\ ncpMode' = "ezsp" /\ ncpConnected' => next = ncpRx'
         /\ HasNak' => HasNak
<1>0. toNcp \in Seq(HostFrames) /\ ncpRx \in FrmNums
  BY DEF TypeOK, NcpTypeOK
<1>1. CASE NcpReceives
  <2>1. PICK f : f = Head(toNcp)
    OBVIOUS
  <2>2. /\ \/ NcpReadsReset(f) \/ NcpAcceptsData(f) \/ NcpRejectsFrame(f) \/ NcpReadsAck(f)
           \/ NcpReadsJunk(f) \/ NcpReadsRun(f) \/ NcpReadsUpgrade(f) \/ NcpIgnores(f)
        /\ toNcp # <<>>
    BY <1>1, <2>1 DEF NcpReceives
  <2>3. PICK next \in FrmNums : Counts(f, first, next) /\ Counted(Tail(toNcp), next, last)
    BY <1>0, <2>1, <2>2, CountedTail
  <2>4. ncpMode = "ezsp" => f.type \in {"RST", "DATA", "ACK", "UPGRADE"}
    BY <2>1, <2>2, CleanHead
  <2>5. ~NcpRejectsFrame(f) /\ ~NcpReadsJunk(f)
    BY <2>3, <2>4 DEF NcpRejectsFrame, NcpReadsJunk, Counts
  <2>6. toNcp' = Tail(toNcp)
    BY <2>2, <2>5 DEF NcpReadsReset, NcpAcceptsData, NcpReadsAck, NcpReadsRun, NcpReadsUpgrade,
                      NcpIgnores
  <2>7. ASSUME ncpMode' = "ezsp", ncpConnected' PROVE next = ncpRx'
    <3>1. CASE NcpReadsReset(f) \/ NcpReadsRun(f)
      BY <2>3, <3>1 DEF NcpReadsReset, NcpReadsRun, StartAsh, Counts
    <3>2. CASE NcpAcceptsData(f)
      BY <2>3, <3>2 DEF NcpAcceptsData, Counts
    <3>3. CASE NcpReadsAck(f)
      BY <2>3, <3>3 DEF NcpReadsAck, Counts
    <3>4. CASE NcpReadsUpgrade(f) \/ NcpIgnores(f)
      BY <2>7, <3>4 DEF NcpReadsUpgrade, NcpIgnores
    <3> QED BY <2>2, <2>5, <3>1, <3>2, <3>3, <3>4
  <2> QED BY <2>1, <2>3, <2>5, <2>6, <2>7, NcpSaysNak
<1>2. CASE ~NcpReceives
  <2>1. UNCHANGED <<toNcp, ncpRx>>
    BY <1>2 DEF NcpNext, NcpResponds, NcpCallsBack, NcpRetransmits, LineDegrades, LineRecovers,
                wireVars, adapterVars
  <2>2. ncpMode' = "ezsp" /\ ncpConnected' => ncpMode = "ezsp" /\ ncpConnected
    <3>1. NcpResponds => (ncpMode' = "ezsp" /\ ncpConnected' => ncpMode = "ezsp" /\ ncpConnected)
      BY DEF NcpResponds, ModeInv
    <3>2. ~NcpResponds => UNCHANGED <<ncpMode, ncpConnected>>
      BY <1>2 DEF NcpNext, NcpCallsBack, NcpRetransmits, LineDegrades, LineRecovers, adapterVars
    <3> QED BY <3>1, <3>2
  <2>3. HasNak' => HasNak
    BY <1>2, NcpSaysNak
  <2> QED BY <2>1, <2>2, <2>3
<1> QED BY <1>1, <1>2

LEMMA NextNumbered ==
  ASSUME TypeOK, FlakyInv, CleanInv, NumberedInv, [Next]_vars
  PROVE  NumberedInv'
<1> SUFFICES ASSUME Clean', "ncpReset" \notin Happened' PROVE Numbered' /\ ~HasNak'
  BY DEF NumberedInv
<1>1. /\ Clean /\ "ncpReset" \notin Happened /\ ~flaky
      /\ ~NoiseToNcp /\ ~NoiseToHost /\ ~NcpResets
  BY CleanStep, FaultsGrow, FaultHappens DEF NoiseToNcp, NoiseToHost, NcpResets
<1>2. AwayInv /\ ModeInv /\ Numbered /\ ~HasNak
  BY <1>1 DEF CleanInv, NumberedInv
<1>3. PICK first \in FrmNums, last \in FrmNums :
        /\ Counted(toNcp, first, last)
        /\ ncpMode = "ezsp" /\ ncpConnected => first = ncpRx
        /\ enabled => last = frmNum
  BY <1>2 DEF Numbered
<1>4. CASE UserNext \/ HostNext
  <2>1. \E next \in FrmNums : Counted(toNcp', first, next) /\ (enabled' => next = frmNum')
    BY <1>1, <1>2, <1>3, <1>4, HostCounted
  <2>2. UNCHANGED <<ncpMode, ncpConnected, ncpRx>>
    BY <1>4, HostSide DEF adapterVars
  <2>3. ~HasNak'
    <3>1. UNCHANGED toHost => ~HasNak'
      BY <1>2 DEF HasNak
    <3> QED BY <1>2, <1>4, <3>1, HostSide, NakTail
  <2> QED BY <1>3, <2>1, <2>2, <2>3 DEF Numbered
<1>5. CASE NcpNext /\ UNCHANGED hostVars
  <2>1. /\ \E next \in FrmNums : /\ Counted(toNcp', next, last)
                                 /\ ncpMode' = "ezsp" /\ ncpConnected' => next = ncpRx'
        /\ HasNak' => HasNak
    BY <1>1, <1>2, <1>3, <1>5, NcpCounted
  <2>2. UNCHANGED <<enabled, frmNum>>
    BY <1>5 DEF hostVars, modeVars, sendVars
  <2> QED BY <1>2, <1>3, <2>1, <2>2 DEF Numbered
<1>6. CASE UNCHANGED vars
  BY <1>2, <1>6 DEF Numbered, HasNak, vars, hostVars, wireVars, modeVars, sendVars, ncpOnlyVars,
                    adapterVars
<1> QED BY <1>4, <1>5, <1>6 DEF Next

(* At most one command is under way as long as the adapter retransmits       *)
(* nothing: on the line, accepted by the adapter, answered, or its response  *)
(* decoded.                                                                  *)
Only(where, place, S, s) ==
  AtMostOne(PlacesOf(S, s)) /\ (where # place => PlacesOf(S, s) = {})

WrittenCommands == {f \in HostFrames : f.type = "DATA"}
Answers ==
  {f \in NcpFrames : f.type = "NAK" \/ (f.type = "DATA" /\ f.entry.cmd \notin Callbacks)}
Responses == {e \in Entries : e.cmd \notin Callbacks}

Places == {"none", "line", "adapter", "answer", "payload"}

UnderWay(where, line, todo, host, payloads) ==
  /\ Only(where, "line", WrittenCommands, line)
  /\ Only(where, "adapter", Entries, todo)
  /\ Only(where, "answer", Answers, host)
  /\ Only(where, "payload", Responses, payloads)

OneInv ==
  Clean /\ "retransmit" \notin Happened =>
    \E where \in Places :
      UnderWay(where, toNcp, ncpTodo, toHost, pending) /\ (where # "none" => wait_rsp)

LEMMA OnlyEmpty == \A where, place, S : Only(where, place, S, <<>>)
<1>1. Len(<<>>) = 0
  OBVIOUS
<1>2. \A S : PlacesOf(S, <<>>) = {}
  BY <1>1 DEF PlacesOf
<1> QED BY <1>2 DEF Only, AtMostOne

LEMMA OnlyTail ==
  ASSUME NEW T, NEW s \in Seq(T), s # <<>>, NEW S, NEW where, NEW place, Only(where, place, S, s)
  PROVE  /\ Only(where, place, S, Tail(s))
         /\ Head(s) \in S => where = place /\ \A v : Only(v, place, S, Tail(s))
<1>1. /\ AtMostOne(PlacesOf(S, Tail(s)))
      /\ PlacesOf(S, s) = {} => PlacesOf(S, Tail(s)) = {}
      /\ Head(s) \in S => PlacesOf(S, s) # {} /\ PlacesOf(S, Tail(s)) = {}
  BY PlacesTail DEF Only
<1> QED BY <1>1 DEF Only

LEMMA OnlyAppend ==
  ASSUME NEW T, NEW s \in Seq(T), NEW S, NEW where, NEW place, Only(where, place, S, s), NEW x \in T
  PROVE  /\ x \notin S => Only(where, place, S, Append(s, x))
         /\ where # place => Only(place, place, S, Append(s, x))
<1>1. PlacesOf(S, Append(s, x)) = PlacesOf(S, s) \cup (IF x \in S THEN {Len(s) + 1} ELSE {})
  BY PlacesAppend
<1>2. x \notin S => PlacesOf(S, Append(s, x)) = PlacesOf(S, s)
  BY <1>1
<1>3. ASSUME PlacesOf(S, s) = {} PROVE AtMostOne(PlacesOf(S, Append(s, x)))
  BY <1>1, <1>3 DEF AtMostOne
<1> QED BY <1>2, <1>3 DEF Only

(* Where nothing is, nothing is either when something is under way elsewhere.*)
LEMMA OnlyElsewhere ==
  ASSUME NEW S, NEW s, NEW where, NEW place, Only(where, place, S, s), where # place
  PROVE  \A v : Only(v, place, S, s)
BY DEF Only

LEMMA SendNextMsgOne ==
  ASSUME TypeOK, ~flaky, NEW queue \in Seq(Entries), NEW wait, NEW mode, NEW frm \in FrmNums,
         NEW timer, NEW out \in Seq(HostFrames), NEW todo, NEW host, NEW payloads,
         NEW where \in Places, UnderWay(where, out, todo, host, payloads),
         where # "none" => wait, SendNextMsg(queue, wait, mode, frm, timer, out)
  PROVE  \E w \in Places :
           UnderWay(w, toNcp', todo, host, payloads) /\ (w # "none" => wait_rsp')
<1>1. CASE MaySend(queue, wait, mode) /\ enabled
  <2> DEFINE f == Data(frm, lastReceivedByNEAckNum, Head(queue))
  <2>1. Head(queue) \in Entries
    BY <1>1, EntryInSeq DEF MaySend
  <2>2. f \in HostFrames
    BY <2>1, HostFrameFacts DEF TypeOK, ReadTypeOK
  <2>3. toNcp' = Append(out, f) /\ wait_rsp' = TRUE
    BY <1>1 DEF SendNextMsg, Written
  <2> HIDE DEF f
  <2>4. where = "none"
    BY <1>1 DEF MaySend
  <2>5. Only("line", "line", WrittenCommands, toNcp')
    BY <2>2, <2>3, <2>4, OnlyAppend DEF UnderWay
  <2>6. UnderWay("line", toNcp', todo, host, payloads)
    BY <2>4, <2>5, OnlyElsewhere DEF UnderWay
  <2> QED BY <2>3, <2>6 DEF Places
<1>2. CASE MaySend(queue, wait, mode) /\ ~enabled
  <2>1. toNcp' = out /\ where = "none"
    BY <1>2 DEF SendNextMsg, MaySend
  <2> QED BY <2>1
<1>3. CASE ~MaySend(queue, wait, mode)
  BY <1>3 DEF SendNextMsg
<1> QED BY <1>1, <1>2, <1>3

LEMMA AckWritesOne ==
  ASSUME TypeOK, ~flaky, NEW where, Only(where, "line", WrittenCommands, toNcp)
  PROVE  \A w \in AckWrites : Only(where, "line", WrittenCommands, w)
<1> DEFINE a == [type |-> "ACK", ack |-> lastReceivedByNEAckNum]
<1>1. a \in HostFrames /\ a \notin WrittenCommands
  BY HostFrameFacts DEF TypeOK, ReadTypeOK, WrittenCommands
<1>2. toNcp \in Seq(HostFrames)
  BY DEF TypeOK, NcpTypeOK
<1>3. AckWrites \subseteq {toNcp, Append(toNcp, a)}
  BY DEF AckWrites, Written
<1> HIDE DEF a
<1>4. Only(where, "line", WrittenCommands, Append(toNcp, a))
  BY <1>1, <1>2, OnlyAppend
<1> QED BY <1>3, <1>4

LEMMA HostOne ==
  ASSUME TypeOK, ~flaky, QueueInv, UserNext \/ HostNext,
         NEW where \in Places, UnderWay(where, toNcp, ncpTodo, toHost, pending),
         where # "none" => wait_rsp
  PROVE  \E w \in Places :
           UnderWay(w, toNcp', ncpTodo, toHost', pending') /\ (w # "none" => wait_rsp')
<1>0. /\ toNcp \in Seq(HostFrames) /\ frmNum \in FrmNums /\ sendingMsgQueue \in Seq(Entries)
      /\ toHost \in Seq(NcpFrames) /\ pending \in Seq(Entries)
  BY DEF TypeOK, NcpTypeOK, SendTypeOK, QueueTypeOK, ReadTypeOK
<1> DEFINE Goal == \E w \in Places :
             UnderWay(w, toNcp', ncpTodo, toHost', pending') /\ (w # "none" => wait_rsp')
<1> SUFFICES Goal
  OBVIOUS
<1>A. toHost' = toHost \/ (toHost # <<>> /\ toHost' = Tail(toHost))
        => Only(where, "answer", Answers, toHost')
  <2>1. Only(where, "answer", Answers, toHost)
    BY DEF UnderWay
  <2>2. toHost # <<>> => Only(where, "answer", Answers, Tail(toHost))
    BY <1>0, <2>1, OnlyTail
  <2> QED BY <2>1, <2>2
<1>1. ASSUME Only(where, "line", WrittenCommands, toNcp'), UNCHANGED <<wait_rsp, pending>>,
             toHost' = toHost \/ (toHost # <<>> /\ toHost' = Tail(toHost))
      PROVE  Goal
  BY <1>A, <1>1 DEF UnderWay
<1>2. ASSUME NEW queue \in Seq(Entries), NEW wait, NEW frm \in FrmNums, NEW timer,
             NEW out \in Seq(HostFrames), NEW w \in Places,
             UnderWay(w, out, ncpTodo, toHost', pending'), w # "none" => wait,
             SendNextMsg(queue, wait, lastKnownMode, frm, timer, out)
      PROVE  Goal
  BY <1>2, SendNextMsgOne
<1> HIDE DEF Goal
<1>3. \A f \in HostFrames : f.type # "DATA" => Only(where, "line", WrittenCommands, Append(toNcp, f))
  BY <1>0, OnlyAppend DEF UnderWay, WrittenCommands
<1>4. \A t \in {"RST", "RUN", "JUNK", "UPGRADE"} : Simple(t) \in HostFrames /\ Simple(t).type = t
  BY HostFrameFacts DEF Simple
<1>5. Only(where, "line", WrittenCommands, toNcp)
  BY DEF UnderWay
<1>6. ASSUME NEW c \in Commands \cup {Launch}, NEW timer, UNCHANGED pending,
             toHost' = toHost \/ (toHost # <<>> /\ toHost' = Tail(toHost)),
             SendNextMsg(Queued(c), wait_rsp, lastKnownMode, frmNum, timer, toNcp)
      PROVE  Goal
  <2>1. Queued(c) \in Seq(Entries)
    BY QueuedType DEF TypeOK
  <2>2. UnderWay(where, toNcp, ncpTodo, toHost', pending')
    BY <1>A, <1>6 DEF UnderWay
  <2> QED BY <1>0, <1>2, <1>6, <2>1, <2>2
<1>7. ASSUME NEW c \in Commands \cup {Launch}, SendCommand(c)
      PROVE  Goal
  BY <1>6, <1>7 DEF SendCommand, readVars
<1>8. CASE Reset
  <2>1. /\ toNcp' = Append(toNcp, Simple("RST")) /\ UNCHANGED <<wait_rsp, pending, toHost>>
    BY <1>8 DEF Reset, ResetDongle, Written, queueVars, readVars
  <2> QED BY <1>1, <1>3, <1>4, <2>1
<1>9. CASE AckTimerExpires
  BY <1>1, <1>5, <1>9 DEF AckTimerExpires, queueVars, readVars, wireVars
<1>10. CASE BlpProbes
  <2>1. /\ toNcp' = Append(toNcp, Simple("JUNK")) /\ UNCHANGED <<wait_rsp, pending, toHost>>
    BY <1>10 DEF BlpProbes, queueVars, readVars
  <2> QED BY <1>1, <1>3, <1>4, <2>1
<1>11. CASE PromptDetected
  <2>1. UNCHANGED <<wait_rsp, pending, toHost>>
    BY <1>11 DEF PromptDetected, queueVars, readVars
  <2>2. CASE toNcp' = Append(Append(toNcp, Simple("RUN")), Simple("RST"))
    <3>1. PICK out : out = Append(toNcp, Simple("RUN"))
      OBVIOUS
    <3>2. out \in Seq(HostFrames) /\ Only(where, "line", WrittenCommands, out)
      BY <1>0, <1>3, <1>4, <3>1
    <3>3. Only(where, "line", WrittenCommands, Append(out, Simple("RST")))
      BY <1>4, <3>2, OnlyAppend DEF WrittenCommands
    <3> QED BY <1>1, <2>1, <2>2, <3>1, <3>3
  <2>3. CASE toNcp' = Append(toNcp, Simple("UPGRADE"))
    BY <1>1, <1>3, <1>4, <2>1, <2>3
  <2> QED BY <1>11, <2>2, <2>3 DEF PromptDetected, MenuChoice, ResetDongle, Written
<1>12. CASE ReadChunk
  BY <1>1, <1>5, <1>12 DEF ReadChunk, queueVars
<1>13. CASE DecodeData
  <2> DEFINE f == Head(toHost)
  <2>1. f \in NcpFrames /\ f.type = "DATA" /\ toHost # <<>> /\ toHost' = Tail(toHost)
    BY <1>0, <1>13, SeqFacts DEF DecodeData, DecodeNext
  <2>2. f.entry \in Entries /\ pending' = Append(pending, f.entry) /\ UNCHANGED <<toNcp, wait_rsp>>
    BY <1>13, <2>1, FieldFacts DEF DecodeData, queueVars
  <2>3. f \in Answers <=> f.entry \in Responses
    BY <2>1, <2>2 DEF Answers, Responses
  <2>4. /\ Only(where, "answer", Answers, toHost')
        /\ f \in Answers => where = "answer" /\ \A v : Only(v, "answer", Answers, toHost')
    BY <1>0, <2>1, OnlyTail DEF UnderWay
  <2>5. /\ f.entry \notin Responses => Only(where, "payload", Responses, pending')
        /\ where # "payload" => Only("payload", "payload", Responses, pending')
    BY <1>0, <2>2, OnlyAppend DEF UnderWay
  <2> HIDE DEF f
  <2>6. CASE f \in Answers
    <3>1. UnderWay("payload", toNcp', ncpTodo, toHost', pending')
      BY <2>2, <2>4, <2>5, <2>6, OnlyElsewhere DEF UnderWay
    <3>2. wait_rsp'
      BY <2>2, <2>4, <2>6
    <3> QED BY <3>1, <3>2 DEF Goal, Places
  <2>7. CASE f \notin Answers
    BY <2>2, <2>3, <2>4, <2>5, <2>7 DEF UnderWay, Goal
  <2> QED BY <2>6, <2>7
<1>14. CASE DecodeAck \/ DecodeBad
  BY <1>1, <1>5, <1>14 DEF DecodeAck, DecodeBad, DecodeNext, queueVars
<1>15. CASE DecodeNak
  <2>1. /\ Head(toHost) \in NcpFrames /\ Head(toHost).type = "NAK"
        /\ toHost # <<>> /\ toHost' = Tail(toHost) /\ UNCHANGED pending
    BY <1>0, <1>15, SeqFacts DEF DecodeNak, DecodeNext
  <2>2. Head(toHost).num \in FrmNums /\ Head(toHost) \in Answers
    BY <2>1, FieldFacts DEF Answers
  <2>3. where = "answer" /\ \A v : Only(v, "answer", Answers, toHost')
    BY <1>0, <2>1, <2>2, OnlyTail DEF UnderWay
  <2>4. UnderWay("none", toNcp, ncpTodo, toHost', pending')
    BY <2>1, <2>3, OnlyElsewhere DEF UnderWay
  <2>5. SendNextMsg(sendingMsgQueue, FALSE, lastKnownMode, Head(toHost).num, FALSE, toNcp)
    BY <1>15 DEF DecodeNak, Nacked
  <2>6. "none" \in Places
    BY DEF Places
  <2> QED BY <1>0, <1>2, <2>2, <2>4, <2>5, <2>6
<1>16. CASE DecodeRstAck
  <2>1. UNCHANGED pending /\ toHost # <<>> /\ toHost' = Tail(toHost)
    BY <1>16 DEF DecodeRstAck, DecodeNext
  <2>2. \/ UNCHANGED <<toNcp, wait_rsp>>
        \/ \E c \in Commands : SendNextMsg(Queued(c), wait_rsp, lastKnownMode, frmNum, FALSE, toNcp)
    BY <1>16 DEF DecodeRstAck, Connected, queueVars
  <2> QED BY <1>1, <1>5, <1>6, <2>1, <2>2
<1>17. ASSUME NEW p, DeliverInBootloader(p) \/ DeliverLaunch(p)
       PROVE  Goal
  <2>1. UNCHANGED <<toNcp, toHost, wait_rsp>> /\ pending # <<>> /\ pending' = Tail(pending)
    BY <1>17 DEF DeliverInBootloader, DeliverLaunch, DeliverNext, queueVars
  <2>2. Only(where, "payload", Responses, pending')
    BY <1>0, <2>1, OnlyTail DEF UnderWay
  <2> QED BY <2>1, <2>2 DEF UnderWay, Goal
<1>18. ASSUME NEW p, DeliverMessage(p)
       PROVE  Goal
  <2>1. UNCHANGED toHost /\ pending # <<>> /\ p = Head(pending) /\ pending' = Tail(pending)
    BY <1>18 DEF DeliverMessage, DeliverNext
  <2>2. PICK out \in AckWrites : HandleResponse(p, out)
    BY <1>18 DEF DeliverMessage
  <2>3. /\ \A v : Only(v, "line", WrittenCommands, toNcp) => Only(v, "line", WrittenCommands, out)
        /\ out \in Seq(HostFrames)
    BY <1>0, AckWritesOne, AckWritesType
  <2>4. /\ Only(where, "payload", Responses, pending')
        /\ p \in Responses => where = "payload" /\ \A v : Only(v, "payload", Responses, pending')
    BY <1>0, <2>1, OnlyTail DEF UnderWay
  <2>5. CASE IsResponse(p)
    <3>1. /\ sendingMsgQueue # <<>> /\ Head(sendingMsgQueue).cmd = p.cmd
          /\ Tail(sendingMsgQueue) \in Seq(Entries)
      BY <1>0, <2>5, EntryInSeq DEF IsResponse
    <3>2. Head(sendingMsgQueue) = sendingMsgQueue[1] /\ 1 \in 1 .. Len(sendingMsgQueue)
      BY <1>0, <3>1, SeqFacts
    <3>3. p \in Responses
      <4>1. p \in Entries
        BY <1>0, <2>1, EntryInSeq
      <4> QED BY <3>1, <3>2, <4>1 DEF QueueInv, QueueOf, Responses
    <3>4. UnderWay("none", out, ncpTodo, toHost', pending')
      BY <2>1, <2>3, <2>4, <3>3, OnlyElsewhere DEF UnderWay
    <3>5. SendNextMsg(Tail(sendingMsgQueue), FALSE, lastKnownMode, frmNum, ackTimer, out)
      BY <2>2, <2>5 DEF HandleResponse
    <3>6. "none" \in Places
      BY DEF Places
    <3> QED BY <1>0, <1>2, <2>3, <3>1, <3>4, <3>5, <3>6
  <2>6. CASE ~IsResponse(p)
    <3>1. toNcp' = out /\ UNCHANGED wait_rsp
      BY <2>2, <2>6 DEF HandleResponse, queueVars
    <3> QED BY <2>1, <2>3, <2>4, <3>1 DEF UnderWay, Goal
  <2> QED BY <2>5, <2>6
<1> QED
  BY <1>7, <1>8, <1>9, <1>10, <1>11, <1>12, <1>13, <1>14, <1>15, <1>16, <1>17, <1>18
     DEF UserNext, HostNext, Decode, Deliver

LEMMA NcpOne ==
  ASSUME TypeOK, AwayInv, ModeInv, NcpNext, UNCHANGED hostVars,
         ~NcpRetransmits, ~NoiseToNcp, ~NoiseToHost,
         NEW where \in Places, UnderWay(where, toNcp, ncpTodo, toHost, pending),
         where # "none" => wait_rsp
  PROVE  \E w \in Places :
           UnderWay(w, toNcp', ncpTodo', toHost', pending') /\ (w # "none" => wait_rsp')
<1>0. /\ toNcp \in Seq(HostFrames) /\ toHost \in Seq(NcpFrames) /\ ncpTodo \in Seq(Entries)
      /\ ncpRx \in FrmNums /\ ncpTx \in FrmNums
  BY DEF TypeOK, NcpTypeOK
<1>1. UNCHANGED <<wait_rsp, pending>>
  BY DEF hostVars, queueVars, readVars
<1>2. /\ Only(where, "line", WrittenCommands, toNcp)
      /\ Only(where, "adapter", Entries, ncpTodo)
      /\ Only(where, "answer", Answers, toHost)
      /\ Only(where, "payload", Responses, pending)
  BY DEF UnderWay
<1> DEFINE Goal == \E w \in Places :
             UnderWay(w, toNcp', ncpTodo', toHost', pending') /\ (w # "none" => wait_rsp')
<1> SUFFICES Goal
  OBVIOUS
<1>3. ASSUME Only(where, "line", WrittenCommands, toNcp'),
             Only(where, "adapter", Entries, ncpTodo'),
             Only(where, "answer", Answers, toHost')
      PROVE  Goal
  BY <1>1, <1>2, <1>3 DEF UnderWay
<1> HIDE DEF Goal
<1>4. ASSUME NEW f \in NcpFrames, f \notin Answers
      PROVE  Only(where, "answer", Answers, Append(toHost, f))
  BY <1>0, <1>2, <1>4, OnlyAppend
<1>5. /\ Simple("ACK") \in NcpFrames /\ Simple("ACK") \notin Answers
      /\ \A b \in BOOLEAN : /\ [type |-> "RSTACK", good |-> b] \in NcpFrames
                            /\ [type |-> "RSTACK", good |-> b] \notin Answers
  BY NcpFrameFacts DEF Simple, Answers
<1>6. CASE NcpReceives
  <2>1. PICK f : f = Head(toNcp)
    OBVIOUS
  <2>2. /\ \/ NcpReadsReset(f) \/ NcpAcceptsData(f) \/ NcpRejectsFrame(f) \/ NcpReadsAck(f)
           \/ NcpReadsJunk(f) \/ NcpReadsRun(f) \/ NcpReadsUpgrade(f) \/ NcpIgnores(f)
        /\ toNcp # <<>>
    BY <1>6, <2>1 DEF NcpReceives
  <2>3. ncpMode = "ezsp" => f.type \in {"RST", "DATA", "ACK", "UPGRADE"}
    BY <2>1, <2>2, CleanHead
  <2>4. /\ Only(where, "line", WrittenCommands, Tail(toNcp))
        /\ f.type = "DATA" => /\ where = "line"
                              /\ \A v : Only(v, "line", WrittenCommands, Tail(toNcp))
    <3>1. f \in HostFrames
      BY <1>0, <2>1, <2>2, SeqFacts
    <3>2. f.type = "DATA" => f \in WrittenCommands
      BY <3>1 DEF WrittenCommands
    <3> QED BY <1>0, <1>2, <2>1, <2>2, <3>2, OnlyTail
  <2>5. toNcp' = Tail(toNcp)
    BY <2>2, <2>3 DEF NcpReadsReset, NcpAcceptsData, NcpRejectsFrame, NcpReadsAck, NcpReadsJunk,
                      NcpReadsRun, NcpReadsUpgrade, NcpIgnores
  <2>6. CASE NcpReadsReset(f) \/ NcpReadsRun(f)
    <3>1. ncpTodo' = <<>> /\ toHost' = Append(toHost, [type |-> "RSTACK", good |-> TRUE])
      BY <2>6 DEF NcpReadsReset, NcpReadsRun, StartAsh
    <3> QED BY <1>3, <1>4, <1>5, <2>4, <2>5, <3>1, OnlyEmpty
  <2>7. CASE NcpAcceptsData(f)
    <3>1. /\ f.type = "DATA" /\ ncpTodo' = Append(ncpTodo, f.entry)
          /\ toHost' \in {toHost, Append(toHost, Simple("ACK"))}
      BY <2>7 DEF NcpAcceptsData
    <3>2. f \in HostFrames
      BY <1>0, <2>1, <2>2, SeqFacts
    <3>3. f.entry \in Entries
      BY <3>1, <3>2, FieldFacts
    <3>4. where = "line" /\ \A v : Only(v, "line", WrittenCommands, toNcp')
      BY <2>4, <2>5, <3>1
    <3>5. Only("adapter", "adapter", Entries, ncpTodo')
      BY <1>0, <1>2, <3>1, <3>3, <3>4, OnlyAppend
    <3>6. Only(where, "answer", Answers, toHost')
      BY <1>2, <1>4, <1>5, <3>1
    <3>7. UnderWay("adapter", toNcp', ncpTodo', toHost', pending')
      BY <1>1, <1>2, <3>4, <3>5, <3>6, OnlyElsewhere DEF UnderWay
    <3> QED BY <1>1, <3>4, <3>7 DEF Goal, Places
  <2>8. CASE NcpRejectsFrame(f)
    <3>1. f.type = "DATA" /\ toHost' = Append(toHost, [type |-> "NAK", num |-> ncpRx])
          /\ UNCHANGED ncpTodo
      BY <2>3, <2>8 DEF NcpRejectsFrame, Nak
    <3>2. where = "line" /\ \A v : Only(v, "line", WrittenCommands, toNcp')
      BY <2>4, <2>5, <3>1
    <3>3. [type |-> "NAK", num |-> ncpRx] \in NcpFrames
      BY <1>0, NcpFrameFacts
    <3>4. Only("answer", "answer", Answers, toHost')
      BY <1>0, <1>2, <3>1, <3>2, <3>3, OnlyAppend
    <3>5. UnderWay("answer", toNcp', ncpTodo', toHost', pending')
      BY <1>1, <1>2, <3>1, <3>2, <3>4, OnlyElsewhere DEF UnderWay
    <3> QED BY <1>1, <3>2, <3>5 DEF Goal, Places
  <2>9. CASE NcpReadsAck(f) \/ NcpReadsUpgrade(f) \/ NcpIgnores(f)
    <3>1. UNCHANGED <<toHost, ncpTodo>>
      BY <2>9 DEF NcpReadsAck, NcpReadsUpgrade, NcpIgnores
    <3> QED BY <1>2, <1>3, <2>4, <2>5, <3>1
  <2>10. ~NcpReadsJunk(f)
    BY <2>3 DEF NcpReadsJunk
  <2> QED BY <2>2, <2>6, <2>7, <2>8, <2>9, <2>10
<1>7. CASE NcpResponds
  <2> DEFINE f == Data(ncpTx, ncpRx, Head(ncpTodo))
  <2>1. /\ UNCHANGED toNcp /\ ncpTodo # <<>> /\ ncpTodo' \in {<<>>, Tail(ncpTodo)}
        /\ toHost' = Append(toHost, f)
    BY <1>7 DEF NcpResponds, SendsData
  <2>2. Head(ncpTodo) \in Entries
    BY <1>0, <2>1, EntryInSeq
  <2>3. f \in NcpFrames
    BY <1>0, <2>2, HostFrameFacts
  <2>4. where = "adapter" /\ \A v : Only(v, "adapter", Entries, Tail(ncpTodo))
    BY <1>0, <1>2, <2>1, <2>2, OnlyTail
  <2>5. \A v : Only(v, "adapter", Entries, ncpTodo')
    BY <2>1, <2>4, OnlyEmpty
  <2> HIDE DEF f
  <2>6. Only("answer", "answer", Answers, toHost')
    BY <1>0, <1>2, <2>1, <2>3, <2>4, OnlyAppend
  <2>7. UnderWay("answer", toNcp', ncpTodo', toHost', pending')
    BY <1>1, <1>2, <2>1, <2>4, <2>5, <2>6, OnlyElsewhere DEF UnderWay
  <2> QED BY <1>1, <2>4, <2>7 DEF Goal, Places
<1>8. CASE \E c \in Callbacks : NcpCallsBack(c)
  <2>1. PICK c \in Callbacks : NcpCallsBack(c)
    BY <1>8
  <2> DEFINE e == [tag |-> 0, cmd |-> c]
             f == Data(ncpTx, ncpRx, e)
  <2>2. e \in Entries /\ e.cmd \in Callbacks
    BY DEF Entries, EzspCmds
  <2>3. UNCHANGED <<toNcp, ncpTodo>> /\ toHost' = Append(toHost, f)
    BY <2>1 DEF NcpCallsBack, SendsData
  <2> HIDE DEF e
  <2>4. f \in NcpFrames /\ f.entry = e /\ f.type = "DATA"
    <3>1. f \in NcpFrames
      BY <1>0, <2>2, HostFrameFacts
    <3> QED BY <3>1 DEF Data
  <2>5. f \notin Answers
    BY <2>2, <2>4 DEF Answers
  <2> HIDE DEF f
  <2> QED BY <1>2, <1>3, <1>4, <2>3, <2>4, <2>5
<1>9. CASE NcpResets
  <2>1. PICK b \in BOOLEAN : StartAsh(b)
    BY <1>9 DEF NcpResets
  <2>2. /\ ncpTodo' = <<>> /\ toHost' = Append(toHost, [type |-> "RSTACK", good |-> b])
        /\ UNCHANGED toNcp
    BY <1>9, <2>1 DEF NcpResets, StartAsh
  <2> QED BY <1>2, <1>3, <1>4, <1>5, <2>2, OnlyEmpty
<1>10. CASE LineDegrades \/ LineRecovers
  BY <1>2, <1>3, <1>10 DEF LineDegrades, LineRecovers, wireVars, adapterVars
<1> QED BY <1>6, <1>7, <1>8, <1>9, <1>10 DEF NcpNext

LEMMA NextOne ==
  ASSUME TypeOK, FlakyInv, QueueInv, CleanInv, OneInv, [Next]_vars
  PROVE  OneInv'
<1> SUFFICES ASSUME Clean', "retransmit" \notin Happened'
             PROVE  \E where \in Places : /\ UnderWay(where, toNcp', ncpTodo', toHost', pending')
                                          /\ where # "none" => wait_rsp'
  BY DEF OneInv
<1>1. /\ Clean /\ "retransmit" \notin Happened /\ ~flaky
      /\ ~NoiseToNcp /\ ~NoiseToHost /\ ~NcpRetransmits
  BY CleanStep, FaultsGrow, FaultHappens DEF NoiseToNcp, NoiseToHost, NcpRetransmits
<1>2. AwayInv /\ ModeInv
  BY <1>1 DEF CleanInv
<1>3. PICK where \in Places :
        UnderWay(where, toNcp, ncpTodo, toHost, pending) /\ (where # "none" => wait_rsp)
  BY <1>1 DEF OneInv
<1>4. CASE UserNext \/ HostNext
  <2>1. \E w \in Places :
          UnderWay(w, toNcp', ncpTodo, toHost', pending') /\ (w # "none" => wait_rsp')
    BY <1>1, <1>3, <1>4, HostOne
  <2> QED BY <1>4, <2>1, HostSide DEF adapterVars
<1>5. CASE NcpNext /\ UNCHANGED hostVars
  BY <1>1, <1>2, <1>3, <1>5, NcpOne
<1>6. CASE UNCHANGED vars
  BY <1>3, <1>6 DEF vars, hostVars, wireVars, queueVars, readVars, ncpOnlyVars, adapterVars
<1> QED BY <1>4, <1>5, <1>6 DEF Next

-----------------------------------------------------------------------------
(* The commands stay in order, and while a NAK is due or nothing is awaited  *)
(* the front of the queue is later than all that is under way or executed.   *)

FreshFront ==
  NaksAreDue /\ (~wait_rsp \/ HasNak) /\ sendingMsgQueue # <<>> =>
    Unsent(executed, ncpTodo, toNcp, Head(sendingMsgQueue).tag)

FlowInv == InOrder(NaksAreDue, executed, ncpTodo, toNcp, lastSent) /\ FreshFront

(* A line to which nothing is added but frames that carry no command.        *)
Quiet(old, new) == new = old \/ \E f \in HostFrames : f.type # "DATA" /\ new = Append(old, f)

(* What is executed, accepted or on the line is not later than `last`.       *)
LEMMA LaterIsUnsent ==
  ASSUME NEW strict \in BOOLEAN, NEW ex \in Seq(Nat), NEW todo \in Seq(Entries),
         NEW line \in Seq(HostFrames), NEW last \in Nat, InOrder(strict, ex, todo, line, last),
         NEW t \in Nat, last < t
  PROVE  Unsent(ex, todo, line, t)
<1>1. /\ \A i \in 1 .. Len(ex) : ex[i] \in Nat /\ ex[i] <= last
      /\ \A i \in 1 .. Len(todo) : todo[i].tag \in Nat /\ todo[i].tag <= last
      /\ \A i \in DataAt(line) : line[i].entry.tag \in Nat /\ line[i].entry.tag <= last
  BY TagsAreNumbers DEF InOrder
<1> QED BY <1>1 DEF Unsent

LEMMA QuietKeeps ==
  ASSUME NEW strict \in BOOLEAN, NEW ex \in Seq(Nat), NEW todo \in Seq(Entries),
         NEW line \in Seq(HostFrames), NEW last \in Nat, InOrder(strict, ex, todo, line, last),
         NEW new, Quiet(line, new)
  PROVE  /\ InOrder(strict, ex, todo, new, last)
         /\ \A t \in Nat : Unsent(ex, todo, line, t) => Unsent(ex, todo, new, t)
BY OrderKept DEF Quiet

LEMMA FailedWritesQuiet ==
  ASSUME NEW line, NEW new \in FailedWrites(line)
  PROVE  Quiet(line, new)
BY HostFrameFacts DEF FailedWrites, Quiet, Simple

(* sendNextMsg() writes a command that is due, or leaves it at the front.    *)
LEMMA SendNextMsgFlow ==
  ASSUME TypeOK, NEW strict \in BOOLEAN, strict => ~flaky,
         NEW queue \in Seq(Entries), NEW n \in Nat, QueueOf(queue, n, lastSent),
         NEW wait, NEW mode, NEW frm \in FrmNums, NEW timer, NEW out \in Seq(HostFrames),
         SendNextMsg(queue, wait, mode, frm, timer, out),
         InOrder(strict, executed, ncpTodo, out, lastSent),
         ~wait /\ strict /\ queue # <<>> => Unsent(executed, ncpTodo, out, Head(queue).tag)
  PROVE  /\ InOrder(strict, executed, ncpTodo, toNcp', lastSent')
         /\ ~wait /\ ~wait_rsp' /\ strict /\ queue # <<>> =>
              Unsent(executed, ncpTodo, toNcp', Head(queue).tag)
         /\ wait => wait_rsp' = wait /\ toNcp' = out
         /\ ~wait /\ wait_rsp' => HasType(toNcp', "DATA")
<1>0. /\ executed \in Seq(Nat) /\ ncpTodo \in Seq(Entries) /\ lastSent \in Nat
  BY DEF TypeOK, NcpTypeOK, SendTypeOK
<1>1. CASE MaySend(queue, wait, mode)
  <2> DEFINE f == Data(frm, lastReceivedByNEAckNum, Head(queue))
  <2>1. queue # <<>> /\ ~wait
    BY <1>1 DEF MaySend
  <2>2. Head(queue) \in Entries /\ Head(queue) = queue[1]
    BY <2>1, SeqFacts
  <2>3. f \in HostFrames
    BY <2>2, HostFrameFacts DEF TypeOK, ReadTypeOK
  <2>4. f.type = "DATA" /\ f.entry = Head(queue)
    BY DEF Data
  <2>5. lastSent <= f.entry.tag
    BY <2>1, <2>2, <2>4 DEF QueueOf
  <2>6. CASE enabled /\ toNcp' = Append(out, f) /\ wait_rsp' = TRUE /\ lastSent' = Head(queue).tag
    <3> HIDE DEF f
    <3>1. InOrder(strict, executed, ncpTodo, Append(out, f), f.entry.tag)
      BY <1>0, <2>1, <2>3, <2>4, <2>5, OrderWritten
    <3>2. Len(out) + 1 \in 1 .. Len(toNcp') /\ toNcp'[Len(out) + 1] = f
      BY <2>3, <2>6, SeqFacts
    <3>3. HasType(toNcp', "DATA")
      BY <2>4, <3>2 DEF HasType
    <3> QED BY <2>1, <2>4, <2>6, <3>1, <3>3
  <2>7. CASE /\ ~enabled \/ flaky
             /\ toNcp' \in IF enabled THEN FailedWrites(out) ELSE {out}
             /\ wait_rsp' = FALSE /\ UNCHANGED lastSent
    <3>1. Quiet(out, toNcp')
      BY <2>7, FailedWritesQuiet DEF Quiet
    <3>2. /\ InOrder(strict, executed, ncpTodo, toNcp', lastSent)
          /\ \A t \in Nat : Unsent(executed, ncpTodo, out, t) => Unsent(executed, ncpTodo, toNcp', t)
      BY <1>0, <3>1, QuietKeeps
    <3>3. Head(queue).tag \in Nat
      BY <2>2 DEF Entries
    <3> QED BY <2>1, <2>7, <3>2, <3>3
  <2>8. \/ enabled /\ toNcp' = Append(out, f) /\ wait_rsp' = TRUE /\ lastSent' = Head(queue).tag
        \/ /\ ~enabled \/ flaky
           /\ toNcp' \in IF enabled THEN FailedWrites(out) ELSE {out}
           /\ wait_rsp' = FALSE /\ UNCHANGED lastSent
    BY <1>1 DEF SendNextMsg, Written
  <2> QED BY <2>6, <2>7, <2>8
<1>2. CASE ~MaySend(queue, wait, mode)
  <2>1. wait_rsp' = wait /\ toNcp' = out /\ UNCHANGED lastSent
    BY <1>2 DEF SendNextMsg
  <2> QED BY <2>1
<1> QED BY <1>1, <1>2

LEMMA AckWritesQuiet ==
  ASSUME TypeOK
  PROVE  \A w \in AckWrites : Quiet(toNcp, w)
<1> DEFINE a == [type |-> "ACK", ack |-> lastReceivedByNEAckNum]
<1>1. a \in HostFrames /\ a.type # "DATA"
  BY HostFrameFacts DEF TypeOK, ReadTypeOK
<1>2. \A w \in AckWrites : w \in {toNcp, Append(toNcp, a)} \cup FailedWrites(toNcp)
  BY DEF AckWrites, Written
<1> HIDE DEF a
<1>3. Quiet(toNcp, toNcp) /\ Quiet(toNcp, Append(toNcp, a))
  BY <1>1 DEF Quiet
<1> QED BY <1>2, <1>3, FailedWritesQuiet

LEMMA ResetDongleQuiet ==
  ASSUME NEW out, ResetDongle(out)
  PROVE  Quiet(out, toNcp')
<1>1. toNcp' = Append(out, Simple("RST")) \/ toNcp' \in FailedWrites(out)
  BY DEF ResetDongle, Written
<1>2. Simple("RST") \in HostFrames /\ Simple("RST").type # "DATA"
  BY HostFrameFacts DEF Simple
<1> QED BY <1>1, <1>2, FailedWritesQuiet DEF Quiet

(* A step of the host keeps the order, and what it leaves at the front is    *)
(* due if nothing is awaited.                                                *)
LEMMA HostFlow ==
  ASSUME TypeOK, FrontIsLastSent, QueueInv, UserNext \/ HostNext,
         NEW strict \in BOOLEAN, strict => ~flaky,
         InOrder(strict, executed, ncpTodo, toNcp, lastSent),
         strict /\ (~wait_rsp \/ HasNak) /\ sendingMsgQueue # <<>> =>
           Unsent(executed, ncpTodo, toNcp, Head(sendingMsgQueue).tag),
         strict /\ HasNak' => ~HasType(toNcp', "DATA")
  PROVE  /\ InOrder(strict, executed, ncpTodo, toNcp', lastSent')
         /\ strict /\ (~wait_rsp' \/ HasNak') /\ sendingMsgQueue' # <<>> =>
              Unsent(executed, ncpTodo, toNcp', Head(sendingMsgQueue').tag)
<1>0. /\ executed \in Seq(Nat) /\ ncpTodo \in Seq(Entries) /\ lastSent \in Nat
      /\ toNcp \in Seq(HostFrames) /\ toHost \in Seq(NcpFrames)
      /\ sendingMsgQueue \in Seq(Entries) /\ issued \in Nat
      /\ frmNum \in FrmNums /\ pending \in Seq(Entries)
  BY DEF TypeOK, NcpTypeOK, SendTypeOK, QueueTypeOK, ReadTypeOK
<1>N. HasNak' => HasNak
  <2>1. UNCHANGED toHost => (HasNak' => HasNak)
    BY DEF HasNak
  <2> QED BY <2>1, HostSide, NakTail
<1>F. sendingMsgQueue # <<>> => Head(sendingMsgQueue).tag \in Nat
  <2>1. sendingMsgQueue # <<>> => Head(sendingMsgQueue) \in Entries
    BY <1>0, EntryInSeq
  <2> QED BY <2>1 DEF Entries
<1> DEFINE Goal ==
      /\ InOrder(strict, executed, ncpTodo, toNcp', lastSent')
      /\ strict /\ (~wait_rsp' \/ HasNak') /\ sendingMsgQueue' # <<>> =>
           Unsent(executed, ncpTodo, toNcp', Head(sendingMsgQueue').tag)
<1> SUFFICES Goal
  OBVIOUS
<1>1. ASSUME UNCHANGED <<sendingMsgQueue, wait_rsp, lastSent>>, Quiet(toNcp, toNcp')
      PROVE  Goal
  <2>1. /\ InOrder(strict, executed, ncpTodo, toNcp', lastSent)
        /\ \A t \in Nat : Unsent(executed, ncpTodo, toNcp, t) => Unsent(executed, ncpTodo, toNcp', t)
    BY <1>0, <1>1, QuietKeeps
  <2>2. InOrder(strict, executed, ncpTodo, toNcp', lastSent')
    BY <1>1, <2>1
  <2>3. ASSUME strict, ~wait_rsp' \/ HasNak', sendingMsgQueue' # <<>>
        PROVE  Unsent(executed, ncpTodo, toNcp', Head(sendingMsgQueue').tag)
    <3>1. sendingMsgQueue' = sendingMsgQueue /\ (~wait_rsp \/ HasNak)
      BY <1>1, <1>N, <2>3
    <3>2. Unsent(executed, ncpTodo, toNcp, Head(sendingMsgQueue).tag)
      BY <2>3, <3>1
    <3>3. Head(sendingMsgQueue).tag \in Nat
      BY <1>F, <2>3, <3>1
    <3> QED BY <2>1, <3>1, <3>2, <3>3
  <2> QED BY <2>2, <2>3
<1>2. ASSUME NEW queue \in Seq(Entries), NEW n \in Nat, QueueOf(queue, n, lastSent),
             NEW wait, NEW frm \in FrmNums, NEW timer, NEW out \in Seq(HostFrames),
             SendNextMsg(queue, wait, lastKnownMode, frm, timer, out),
             sendingMsgQueue' = queue,
             InOrder(strict, executed, ncpTodo, out, lastSent),
             (~wait \/ HasNak) /\ strict /\ queue # <<>> =>
               Unsent(executed, ncpTodo, out, Head(queue).tag)
      PROVE  Goal
  <2>0. ~wait /\ strict /\ queue # <<>> => Unsent(executed, ncpTodo, out, Head(queue).tag)
    BY <1>2
  <2>1. /\ InOrder(strict, executed, ncpTodo, toNcp', lastSent')
        /\ ~wait /\ ~wait_rsp' /\ strict /\ queue # <<>> =>
             Unsent(executed, ncpTodo, toNcp', Head(queue).tag)
        /\ wait => wait_rsp' = wait /\ toNcp' = out
        /\ ~wait /\ wait_rsp' => HasType(toNcp', "DATA")
    BY <1>2, <2>0, SendNextMsgFlow
  <2>2. ASSUME strict, ~wait_rsp' \/ HasNak', sendingMsgQueue' # <<>>
        PROVE  Unsent(executed, ncpTodo, toNcp', Head(sendingMsgQueue').tag)
    <3>1. CASE wait
      <4>1. toNcp' = out /\ HasNak
        BY <1>N, <2>1, <2>2, <3>1
      <4>2. Unsent(executed, ncpTodo, out, Head(queue).tag)
        BY <1>2, <2>2, <4>1
      <4> QED BY <1>2, <4>1, <4>2
    <3>2. CASE ~wait
      <4>1. ~wait_rsp'
        BY <2>1, <2>2, <3>2
      <4> QED BY <1>2, <2>1, <2>2, <3>2, <4>1
    <3> QED BY <3>1, <3>2
  <2> QED BY <2>1, <2>2
<1> HIDE DEF Goal
<1>3. \A f \in HostFrames : f.type # "DATA" => Quiet(toNcp, Append(toNcp, f))
  BY DEF Quiet
<1>4. Quiet(toNcp, toNcp)
  BY DEF Quiet
<1>5. \A t \in {"RST", "RUN", "JUNK", "UPGRADE"} : Simple(t) \in HostFrames /\ Simple(t).type # "DATA"
  BY HostFrameFacts DEF Simple
<1>6. ASSUME NEW c \in Commands \cup {Launch}, NEW timer, sendingMsgQueue' = Queued(c),
             SendNextMsg(Queued(c), wait_rsp, lastKnownMode, frmNum, timer, toNcp)
      PROVE  Goal
  <2>1. Queued(c) \in Seq(Entries)
    BY QueuedType DEF TypeOK
  <2>2. QueueOf(Queued(c), issued + 1, lastSent) /\ issued + 1 \in Nat
    BY <1>0, QueueOfLonger DEF QueueInv, Queued
  <2> PICK q \in Seq(Entries) : q = Queued(c)
    BY <2>1
  <2>5. ASSUME (~wait_rsp \/ HasNak) /\ strict /\ q # <<>> =>
                 Unsent(executed, ncpTodo, toNcp, Head(q).tag)
        PROVE  Goal
    <3>1. /\ SendNextMsg(q, wait_rsp, lastKnownMode, frmNum, timer, toNcp)
          /\ sendingMsgQueue' = q /\ QueueOf(q, issued + 1, lastSent)
      BY <1>6, <2>2
    <3> QED BY <1>0, <1>2, <2>2, <2>5, <3>1
  <2>3. CASE sendingMsgQueue = <<>>
    <3>1. lastSent < issued + 1
      BY <1>0, <2>3 DEF QueueInv, QueueOf
    <3>2. Unsent(executed, ncpTodo, toNcp, issued + 1)
      BY <1>0, <3>1, LaterIsUnsent
    <3>3. Head(Queued(c)).tag = issued + 1
      BY <2>3 DEF Queued
    <3>4. (~wait_rsp \/ HasNak) /\ strict /\ Queued(c) # <<>> =>
            Unsent(executed, ncpTodo, toNcp, Head(Queued(c)).tag)
      BY <3>2, <3>3
    <3> QED BY <2>5, <3>4
  <2>4. CASE sendingMsgQueue # <<>>
    <3>1. Head(Queued(c)) = Head(sendingMsgQueue)
      BY <1>0, <2>4 DEF Queued
    <3>2. (~wait_rsp \/ HasNak) /\ strict /\ Queued(c) # <<>> =>
            Unsent(executed, ncpTodo, toNcp, Head(Queued(c)).tag)
      BY <2>4, <3>1
    <3> QED BY <2>5, <3>2
  <2> QED BY <2>3, <2>4
<1>7. ASSUME NEW c \in Commands \cup {Launch}, SendCommand(c)
      PROVE  Goal
  BY <1>6, <1>7 DEF SendCommand
<1>8. CASE Reset
  <2>1. UNCHANGED <<sendingMsgQueue, wait_rsp, lastSent>> /\ ResetDongle(toNcp)
    BY <1>8 DEF Reset, queueVars
  <2> QED BY <1>1, <2>1, ResetDongleQuiet
<1>9. CASE AckTimerExpires
  <2>1. UNCHANGED <<sendingMsgQueue, wait_rsp, lastSent, toNcp>>
    BY <1>9 DEF AckTimerExpires, queueVars, wireVars
  <2> QED BY <1>1, <1>4, <2>1
<1>10. CASE BlpProbes
  <2>1. /\ UNCHANGED <<sendingMsgQueue, wait_rsp, lastSent>>
        /\ toNcp' \in {toNcp, Append(toNcp, Simple("JUNK"))}
    BY <1>10 DEF BlpProbes, queueVars, sendVars
  <2> QED BY <1>1, <1>3, <1>4, <1>5, <2>1
<1>11. CASE PromptDetected
  <2>1. UNCHANGED <<sendingMsgQueue, wait_rsp, lastSent>>
    BY <1>11 DEF PromptDetected, queueVars
  <2>2. ASSUME NEW out \in MenuChoice("RUN"), ResetDongle(out)
        PROVE  Goal
    <3>1. Quiet(toNcp, out) /\ Quiet(out, toNcp')
      BY <1>3, <1>4, <1>5, <2>2, ResetDongleQuiet DEF MenuChoice
    <3>2. out \in Seq(HostFrames)
      <4>1. out \in {toNcp, Append(toNcp, Simple("RUN"))} /\ Simple("RUN") \in HostFrames
        BY <1>5 DEF MenuChoice
      <4>2. Append(toNcp, Simple("RUN")) \in Seq(HostFrames)
        BY <1>0, <4>1
      <4> QED BY <1>0, <4>1, <4>2
    <3>3. /\ InOrder(strict, executed, ncpTodo, out, lastSent)
          /\ \A t \in Nat : Unsent(executed, ncpTodo, toNcp, t) => Unsent(executed, ncpTodo, out, t)
      BY <1>0, <3>1, QuietKeeps
    <3>4. /\ InOrder(strict, executed, ncpTodo, toNcp', lastSent)
          /\ \A t \in Nat : Unsent(executed, ncpTodo, out, t) => Unsent(executed, ncpTodo, toNcp', t)
      BY <1>0, <3>1, <3>2, <3>3, QuietKeeps
    <3>5. ASSUME strict, ~wait_rsp' \/ HasNak', sendingMsgQueue' # <<>>
          PROVE  Unsent(executed, ncpTodo, toNcp', Head(sendingMsgQueue').tag)
      <4>1. sendingMsgQueue' = sendingMsgQueue /\ (~wait_rsp \/ HasNak)
        BY <1>N, <2>1, <3>5
      <4>2. Unsent(executed, ncpTodo, toNcp, Head(sendingMsgQueue).tag)
        BY <3>5, <4>1
      <4>3. Head(sendingMsgQueue).tag \in Nat
        BY <1>F, <3>5, <4>1
      <4> QED BY <3>3, <3>4, <4>1, <4>2, <4>3
    <3>6. lastSent' = lastSent
      BY <2>1
    <3> QED BY <3>4, <3>5, <3>6 DEF Goal
  <2>3. CASE toNcp' \in MenuChoice("UPGRADE")
    BY <1>1, <1>3, <1>4, <1>5, <2>1, <2>3 DEF MenuChoice
  <2> QED BY <1>11, <2>2, <2>3 DEF PromptDetected
<1>12. CASE ReadChunk
  <2>1. UNCHANGED <<sendingMsgQueue, wait_rsp, lastSent, toNcp>>
    BY <1>12 DEF ReadChunk, queueVars, sendVars
  <2> QED BY <1>1, <1>4, <2>1
<1>13. CASE DecodeData \/ DecodeAck \/ DecodeBad
  <2>1. UNCHANGED <<sendingMsgQueue, wait_rsp, lastSent, toNcp>>
    BY <1>13 DEF DecodeData, DecodeAck, DecodeBad, queueVars, sendVars
  <2> QED BY <1>1, <1>4, <2>1
<1>14. CASE DecodeNak
  <2>1. /\ toHost # <<>> /\ Head(toHost) \in NcpFrames /\ Head(toHost).type = "NAK"
        /\ Head(toHost) = toHost[1] /\ 1 \in 1 .. Len(toHost)
    BY <1>0, <1>14, SeqFacts DEF DecodeNak, DecodeNext
  <2>2. HasNak /\ Head(toHost).num \in FrmNums
    BY <2>1, FieldFacts DEF HasNak
  <2>3. /\ SendNextMsg(sendingMsgQueue, FALSE, lastKnownMode, Head(toHost).num, FALSE, toNcp)
        /\ sendingMsgQueue' = sendingMsgQueue
    BY <1>14 DEF DecodeNak, Nacked
  <2>4. strict /\ sendingMsgQueue # <<>> =>
          Unsent(executed, ncpTodo, toNcp, Head(sendingMsgQueue).tag)
    BY <2>2
  <2> QED BY <1>0, <1>2, <2>2, <2>3, <2>4 DEF QueueInv
<1>15. CASE DecodeRstAck
  <2>1. \/ UNCHANGED <<sendingMsgQueue, wait_rsp, lastSent, toNcp>>
        \/ \E c \in Commands :
             /\ sendingMsgQueue' = Queued(c)
             /\ SendNextMsg(Queued(c), wait_rsp, lastKnownMode, frmNum, FALSE, toNcp)
    BY <1>15 DEF DecodeRstAck, Connected, queueVars, sendVars
  <2> QED BY <1>1, <1>4, <1>6, <2>1
<1>16. ASSUME NEW p, DeliverInBootloader(p) \/ DeliverLaunch(p)
       PROVE  Goal
  <2>1. UNCHANGED <<sendingMsgQueue, wait_rsp, lastSent, toNcp>>
    BY <1>16 DEF DeliverInBootloader, DeliverLaunch, queueVars, sendVars
  <2> QED BY <1>1, <1>4, <2>1
<1>17. ASSUME NEW p, DeliverMessage(p)
       PROVE  Goal
  <2>1. PICK out \in AckWrites : HandleResponse(p, out)
    BY <1>17 DEF DeliverMessage
  <2>2. Quiet(toNcp, out) /\ out \in Seq(HostFrames)
    BY AckWritesQuiet, AckWritesType
  <2>3. CASE IsResponse(p)
    <3>1. sendingMsgQueue # <<>> /\ Tail(sendingMsgQueue) \in Seq(Entries)
      BY <1>0, <2>3, EntryInSeq DEF IsResponse
    <3>2. /\ QueueOf(Tail(sendingMsgQueue), issued, lastSent)
          /\ Tail(sendingMsgQueue) # <<>> => lastSent < Tail(sendingMsgQueue)[1].tag
      BY <1>0, <3>1, QueueOfTail DEF QueueInv
    <3>3. /\ SendNextMsg(Tail(sendingMsgQueue), FALSE, lastKnownMode, frmNum, ackTimer, out)
          /\ sendingMsgQueue' = Tail(sendingMsgQueue)
      BY <2>1, <2>3 DEF HandleResponse
    <3>4. InOrder(strict, executed, ncpTodo, out, lastSent)
      BY <1>0, <2>2, QuietKeeps
    <3>5. ASSUME Tail(sendingMsgQueue) # <<>>
          PROVE  Unsent(executed, ncpTodo, out, Head(Tail(sendingMsgQueue)).tag)
      <4>1. /\ Head(Tail(sendingMsgQueue)) = Tail(sendingMsgQueue)[1]
            /\ Head(Tail(sendingMsgQueue)) \in Entries
        BY <3>1, <3>5, SeqFacts
      <4>2. Head(Tail(sendingMsgQueue)).tag \in Nat
        BY <4>1 DEF Entries
      <4> QED BY <1>0, <2>2, <3>2, <3>4, <3>5, <4>1, <4>2, LaterIsUnsent
    <3> QED BY <1>0, <1>2, <2>2, <3>1, <3>2, <3>3, <3>4, <3>5
  <2>4. CASE ~IsResponse(p)
    <3>1. toNcp' = out /\ UNCHANGED <<sendingMsgQueue, wait_rsp, lastSent>>
      BY <2>1, <2>4 DEF HandleResponse, queueVars, sendVars
    <3> QED BY <1>1, <2>2, <3>1
  <2> QED BY <2>3, <2>4
<1> QED
  BY <1>7, <1>8, <1>9, <1>10, <1>11, <1>12, <1>13, <1>14, <1>15, <1>16, <1>17
     DEF UserNext, HostNext, Decode, Deliver

(* A rejected command is due again: with nothing retransmitted it is the     *)
(* only one under way, and it is the front of the queue.                     *)
LEMMA RejectedIsDue ==
  ASSUME TypeOK, FrontIsLastSent, NEW where, UnderWay(where, toNcp, ncpTodo, toHost, pending),
         where # "none" => wait_rsp,
         toNcp # <<>>, Head(toNcp).type = "DATA",
         InOrder(TRUE, executed, ncpTodo, toNcp, lastSent)
  PROVE  /\ sendingMsgQueue # <<>>
         /\ Unsent(executed, ncpTodo, Tail(toNcp), Head(sendingMsgQueue).tag)
<1>0. /\ executed \in Seq(Nat) /\ ncpTodo \in Seq(Entries) /\ toNcp \in Seq(HostFrames)
      /\ lastSent \in Nat
  BY DEF TypeOK, NcpTypeOK, SendTypeOK
<1>1. /\ Only(where, "line", WrittenCommands, toNcp)
      /\ Only(where, "adapter", Entries, ncpTodo)
  BY DEF UnderWay
<1>2. Head(toNcp) \in WrittenCommands /\ Head(toNcp) = toNcp[1] /\ 1 \in DataAt(toNcp)
  BY <1>0, SeqFacts DEF WrittenCommands, DataAt
<1>3. where = "line" /\ \A v : Only(v, "line", WrittenCommands, Tail(toNcp))
  BY <1>0, <1>1, <1>2, OnlyTail
<1>4. PlacesOf(WrittenCommands, Tail(toNcp)) = {}
  BY <1>3 DEF Only
<1>5. PlacesOf(Entries, ncpTodo) = {}
  BY <1>1, <1>3 DEF Only
<1>6. DataAt(Tail(toNcp)) = {}
  <2>1. \A i \in 1 .. Len(Tail(toNcp)) : Tail(toNcp)[i] \in HostFrames
    BY <1>0, SeqFacts
  <2> QED BY <1>4, <2>1 DEF PlacesOf, WrittenCommands, DataAt
<1>7. 1 .. Len(ncpTodo) = {}
  <2>1. \A i \in 1 .. Len(ncpTodo) : ncpTodo[i] \in Entries
    BY <1>0, SeqFacts
  <2> QED BY <1>5, <2>1 DEF PlacesOf
<1>8. sendingMsgQueue # <<>> /\ Head(sendingMsgQueue).tag = lastSent
  BY <1>3 DEF FrontIsLastSent
<1>9. ASSUME NEW i \in 1 .. Len(executed)
      PROVE  executed[i] < lastSent
  <2>1. /\ executed[i] <= toNcp[1].entry.tag /\ executed[i] # toNcp[1].entry.tag
        /\ toNcp[1].entry.tag <= lastSent
    BY <1>2 DEF InOrder, Later
  <2>2. executed[i] \in Nat /\ toNcp[1].entry.tag \in Nat
    BY <1>0, <1>2, TagsAreNumbers
  <2> QED BY <1>0, <2>1, <2>2
<1> QED BY <1>6, <1>7, <1>8, <1>9 DEF Unsent

(* The adapter takes commands in the order in which they come, executes them *)
(* in the order in which it took them, and says NAK only of one that is due. *)
LEMMA NcpFlow ==
  ASSUME TypeOK, FrontIsLastSent, NcpNext, UNCHANGED hostVars,
         NEW strict \in BOOLEAN, strict => ~NoiseToHost,
         InOrder(strict, executed, ncpTodo, toNcp, lastSent),
         strict /\ (~wait_rsp \/ HasNak) /\ sendingMsgQueue # <<>> =>
           Unsent(executed, ncpTodo, toNcp, Head(sendingMsgQueue).tag),
         strict /\ NcpReceives /\ NcpRejectsFrame(Head(toNcp)) =>
           sendingMsgQueue # <<>> /\ Unsent(executed, ncpTodo, Tail(toNcp), Head(sendingMsgQueue).tag)
  PROVE  /\ InOrder(strict, executed', ncpTodo', toNcp', lastSent')
         /\ strict /\ (~wait_rsp' \/ HasNak') /\ sendingMsgQueue' # <<>> =>
              Unsent(executed', ncpTodo', toNcp', Head(sendingMsgQueue').tag)
<1>0. /\ executed \in Seq(Nat) /\ ncpTodo \in Seq(Entries) /\ toNcp \in Seq(HostFrames)
      /\ lastSent \in Nat /\ sendingMsgQueue \in Seq(Entries)
  BY DEF TypeOK, NcpTypeOK, SendTypeOK, QueueTypeOK
<1>1. UNCHANGED <<sendingMsgQueue, wait_rsp, lastSent>>
  BY DEF hostVars, queueVars, sendVars
<1>F. sendingMsgQueue # <<>> => Head(sendingMsgQueue).tag \in Nat
  <2>1. sendingMsgQueue # <<>> => Head(sendingMsgQueue) \in Entries
    BY <1>0, EntryInSeq
  <2> QED BY <2>1 DEF Entries
<1> DEFINE Order == InOrder(strict, executed', ncpTodo', toNcp', lastSent)
           Kept == \A t \in Nat : Unsent(executed, ncpTodo, toNcp, t)
                                    => Unsent(executed', ncpTodo', toNcp', t)
<1>2. ASSUME Order, Kept, strict => (HasNak' => HasNak)
      PROVE  /\ InOrder(strict, executed', ncpTodo', toNcp', lastSent')
             /\ strict /\ (~wait_rsp' \/ HasNak') /\ sendingMsgQueue' # <<>> =>
                  Unsent(executed', ncpTodo', toNcp', Head(sendingMsgQueue').tag)
  <2>1. ASSUME strict, ~wait_rsp' \/ HasNak', sendingMsgQueue' # <<>>
        PROVE  Unsent(executed', ncpTodo', toNcp', Head(sendingMsgQueue').tag)
    <3>1. sendingMsgQueue' = sendingMsgQueue /\ (~wait_rsp \/ HasNak)
      BY <1>1, <1>2, <2>1
    <3>2. Unsent(executed, ncpTodo, toNcp, Head(sendingMsgQueue).tag)
      BY <2>1, <3>1
    <3> QED BY <1>2, <1>F, <2>1, <3>1, <3>2
  <2>2. InOrder(strict, executed', ncpTodo', toNcp', lastSent')
    BY <1>1, <1>2
  <2> QED BY <2>1, <2>2
<1>3. ASSUME UNCHANGED <<executed, ncpTodo>>,
             \/ toNcp' = toNcp
             \/ toNcp # <<>> /\ toNcp' \in {Tail(toNcp), <<Simple("BAD")>> \o Tail(toNcp)}
      PROVE  Order /\ Kept
  <2>1. /\ InOrder(strict, executed, ncpTodo, toNcp', lastSent)
        /\ \A t \in Nat : Unsent(executed, ncpTodo, toNcp, t) => Unsent(executed, ncpTodo, toNcp', t)
    BY <1>0, <1>3, OrderKept
  <2> QED BY <1>3, <2>1
<1>4. ASSUME ncpTodo' = <<>>, UNCHANGED executed,
             toNcp' = toNcp \/ (toNcp # <<>> /\ toNcp' = Tail(toNcp))
      PROVE  Order /\ Kept
  <2>1. toNcp' \in Seq(HostFrames)
    BY <1>0, <1>4, EntryInSeq
  <2>2. /\ InOrder(strict, executed, ncpTodo, toNcp', lastSent)
        /\ \A t \in Nat : Unsent(executed, ncpTodo, toNcp, t) => Unsent(executed, ncpTodo, toNcp', t)
    BY <1>0, <1>4, OrderKept
  <2>3. /\ InOrder(strict, executed, <<>>, toNcp', lastSent)
        /\ \A t \in Nat : Unsent(executed, ncpTodo, toNcp', t) => Unsent(executed, <<>>, toNcp', t)
    BY <1>0, <2>1, <2>2, OrderForgotten
  <2> QED BY <1>4, <2>2, <2>3
<1>5. CASE NcpReceives /\ NcpRejectsFrame(Head(toNcp))
  <2>1. UNCHANGED <<executed, ncpTodo>> /\ toNcp' = Tail(toNcp) /\ toNcp # <<>>
    BY <1>5 DEF NcpReceives, NcpRejectsFrame
  <2>2. Order
    BY <1>3, <2>1
  <2>3. strict => Unsent(executed', ncpTodo', toNcp', Head(sendingMsgQueue').tag)
    BY <1>1, <1>5, <2>1
  <2> QED BY <1>1, <2>2, <2>3
<1>6. ASSUME ~(NcpReceives /\ NcpRejectsFrame(Head(toNcp)))
      PROVE  strict => (HasNak' => HasNak)
  BY <1>6, NcpSaysNak
<1>7. CASE NcpReceives /\ ~NcpRejectsFrame(Head(toNcp))
  <2>1. PICK f : f = Head(toNcp)
    OBVIOUS
  <2>2. /\ \/ NcpReadsReset(f) \/ NcpAcceptsData(f) \/ NcpReadsAck(f)
           \/ NcpReadsJunk(f) \/ NcpReadsRun(f) \/ NcpReadsUpgrade(f) \/ NcpIgnores(f)
        /\ toNcp # <<>> /\ UNCHANGED executed
    BY <1>7, <2>1 DEF NcpReceives
  <2>3. CASE NcpReadsReset(f) \/ NcpReadsRun(f)
    <3>1. ncpTodo' = <<>> /\ toNcp' = Tail(toNcp)
      BY <2>3 DEF NcpReadsReset, NcpReadsRun, StartAsh
    <3> QED BY <1>2, <1>4, <1>6, <1>7, <2>2, <3>1
  <2>4. CASE NcpAcceptsData(f)
    <3>1. f.type = "DATA" /\ ncpTodo' = Append(ncpTodo, f.entry) /\ toNcp' = Tail(toNcp)
      BY <2>4 DEF NcpAcceptsData
    <3>2. /\ InOrder(strict, executed, ncpTodo', toNcp', lastSent)
          /\ \A t \in Nat : Unsent(executed, ncpTodo, toNcp, t) => Unsent(executed, ncpTodo', toNcp', t)
      BY <1>0, <2>1, <2>2, <3>1, OrderAccepted
    <3>3. Order /\ Kept
      BY <2>2, <3>2
    <3> QED BY <1>2, <1>6, <1>7, <3>3
  <2>5. CASE NcpReadsAck(f) \/ NcpReadsUpgrade(f) \/ NcpIgnores(f)
    <3>1. UNCHANGED ncpTodo /\ toNcp' = Tail(toNcp)
      BY <2>5 DEF NcpReadsAck, NcpReadsUpgrade, NcpIgnores
    <3> QED BY <1>2, <1>3, <1>6, <1>7, <2>2, <3>1
  <2>6. CASE NcpReadsJunk(f)
    <3>1. UNCHANGED ncpTodo /\ Len(toNcp) > 1
          /\ toNcp' \in {Tail(toNcp), <<Simple("BAD")>> \o Tail(Tail(toNcp))}
      BY <2>6 DEF NcpReadsJunk
    <3>2. CASE toNcp' = Tail(toNcp)
      BY <1>2, <1>3, <1>6, <1>7, <2>2, <3>1, <3>2
    <3>3. CASE toNcp' = <<Simple("BAD")>> \o Tail(Tail(toNcp))
      <4>1. Tail(toNcp) \in Seq(HostFrames) /\ Len(Tail(toNcp)) = Len(toNcp) - 1
        BY <1>0, <2>2, SeqFacts
      <4>2. Tail(toNcp) # <<>>
        <5>0. Len(toNcp) \in Nat /\ Len(toNcp) > 1
          BY <1>0, <3>1, SeqFacts
        <5>1. \A n \in Nat : n > 1 => n - 1 # 0
          OBVIOUS
        <5>2. Len(<<>>) = 0
          OBVIOUS
        <5> QED BY <4>1, <5>0, <5>1, <5>2, Zenon
      <4>3. /\ InOrder(strict, executed, ncpTodo, Tail(toNcp), lastSent)
            /\ \A t \in Nat : Unsent(executed, ncpTodo, toNcp, t)
                                => Unsent(executed, ncpTodo, Tail(toNcp), t)
        BY <1>0, <2>2, OrderKept
      <4>4. /\ InOrder(strict, executed, ncpTodo, toNcp', lastSent)
            /\ \A t \in Nat : Unsent(executed, ncpTodo, Tail(toNcp), t)
                                => Unsent(executed, ncpTodo, toNcp', t)
        BY <1>0, <3>3, <4>1, <4>2, <4>3, OrderKept
      <4>5. Order /\ Kept
        BY <2>2, <3>1, <4>3, <4>4
      <4> QED BY <1>2, <1>6, <1>7, <4>5
    <3> QED BY <3>1, <3>2, <3>3
  <2> QED BY <2>2, <2>3, <2>4, <2>5, <2>6
<1>8. CASE NcpResponds /\ ~NcpReceives
  <2>1. /\ ncpTodo # <<>> /\ ncpTodo' \in {<<>>, Tail(ncpTodo)} /\ UNCHANGED toNcp
        /\ executed' = Append(executed, Head(ncpTodo).tag)
    BY <1>8 DEF NcpResponds
  <2>2. /\ InOrder(strict, executed', ncpTodo', toNcp, lastSent)
        /\ \A t \in Nat : Unsent(executed, ncpTodo, toNcp, t) => Unsent(executed', ncpTodo', toNcp, t)
    BY <1>0, <2>1, OrderExecuted
  <2>3. Order /\ Kept
    BY <2>1, <2>2
  <2> QED BY <1>2, <1>6, <1>8, <2>3
<1>9. CASE NcpResets /\ ~NcpReceives
  <2>1. ncpTodo' = <<>> /\ UNCHANGED <<toNcp, executed>>
    BY <1>9 DEF NcpResets, StartAsh
  <2> QED BY <1>2, <1>4, <1>6, <1>9, <2>1
<1>10. CASE /\ NoiseToHost \/ NcpRetransmits \/ LineDegrades \/ LineRecovers
               \/ \E c \in Callbacks : NcpCallsBack(c)
            /\ ~NcpReceives
  <2>1. UNCHANGED <<toNcp, executed, ncpTodo>>
    BY <1>10 DEF NoiseToHost, NcpRetransmits, LineDegrades, LineRecovers, NcpCallsBack,
                 wireVars, adapterVars
  <2> QED BY <1>2, <1>3, <1>6, <1>10, <2>1
<1>11. CASE NoiseToNcp /\ ~NcpReceives
  <2>1. /\ UNCHANGED <<executed, ncpTodo>> /\ toNcp # <<>>
        /\ toNcp' = <<Simple("BAD")>> \o Tail(toNcp)
    BY <1>11 DEF NoiseToNcp, adapterVars
  <2> QED BY <1>2, <1>3, <1>6, <1>11, <2>1
<1> QED BY <1>5, <1>7, <1>8, <1>9, <1>10, <1>11 DEF NcpNext

LEMMA NextFlow ==
  ASSUME TypeOK, FrontIsLastSent, QueueInv, FlakyInv, CleanInv, NumberedInv, OneInv, FlowInv,
         [Next]_vars, TypeOK', NumberedInv', OneInv'
  PROVE  FlowInv'
<1>0. PICK strict \in BOOLEAN : strict = NaksAreDue'
  BY DEF NaksAreDue
<1>1. strict => NaksAreDue
  BY <1>0, FaultsGrow DEF NaksAreDue
<1>2. strict => /\ Clean /\ Clean' /\ ~flaky /\ ~NoiseToHost
                /\ "retransmit" \notin Happened' \/ "ncpReset" \notin Happened'
                /\ "retransmit" \notin Happened \/ "ncpReset" \notin Happened
  <2>1. strict => Clean'
    BY <1>0 DEF NaksAreDue, Clean
  <2>2. Clean' => Clean /\ ~flaky /\ ~NoiseToHost
    BY CleanStep DEF NoiseToHost
  <2>3. strict => /\ "retransmit" \notin Happened' \/ "ncpReset" \notin Happened'
                  /\ "retransmit" \notin Happened \/ "ncpReset" \notin Happened
    BY <1>0, <1>1 DEF NaksAreDue
  <2> QED BY <2>1, <2>2, <2>3
<1>3. InOrder(strict, executed, ncpTodo, toNcp, lastSent)
  <2>1. NaksAreDue \in BOOLEAN
    BY DEF NaksAreDue
  <2> QED BY <1>1, <2>1, OrderWeaker DEF FlowInv
<1>4. strict /\ (~wait_rsp \/ HasNak) /\ sendingMsgQueue # <<>> =>
        Unsent(executed, ncpTodo, toNcp, Head(sendingMsgQueue).tag)
  BY <1>1 DEF FlowInv, FreshFront
<1>5. SUFFICES /\ InOrder(strict, executed', ncpTodo', toNcp', lastSent')
               /\ strict /\ (~wait_rsp' \/ HasNak') /\ sendingMsgQueue' # <<>> =>
                    Unsent(executed', ncpTodo', toNcp', Head(sendingMsgQueue').tag)
  BY <1>0 DEF FlowInv, FreshFront
<1>6. CASE UserNext \/ HostNext
  <2>1. strict /\ HasNak' => ~HasType(toNcp', "DATA")
    <3> SUFFICES ASSUME strict, HasNak', HasType(toNcp', "DATA") PROVE FALSE
      OBVIOUS
    <3>1. "retransmit" \notin Happened'
      BY <1>2 DEF NumberedInv
    <3>2. PICK where : UnderWay(where, toNcp', ncpTodo', toHost', pending')
      BY <1>2, <3>1 DEF OneInv
    <3>3. toNcp' \in Seq(HostFrames) /\ toHost' \in Seq(NcpFrames)
      BY DEF TypeOK, NcpTypeOK
    <3>4. PlacesOf(WrittenCommands, toNcp') # {}
      <4>1. PICK i \in 1 .. Len(toNcp') : toNcp'[i].type = "DATA"
        BY DEF HasType
      <4>2. toNcp'[i] \in HostFrames
        BY <3>3, <4>1, SeqFacts
      <4> QED BY <4>1, <4>2 DEF PlacesOf, WrittenCommands
    <3>5. PlacesOf(Answers, toHost') # {}
      <4>1. PICK i \in 1 .. Len(toHost') : toHost'[i].type = "NAK"
        BY DEF HasNak
      <4>2. toHost'[i] \in NcpFrames
        BY <3>3, <4>1, SeqFacts
      <4> QED BY <4>1, <4>2 DEF PlacesOf, Answers
    <3> QED BY <3>2, <3>4, <3>5 DEF UnderWay, Only
  <2>2. /\ InOrder(strict, executed, ncpTodo, toNcp', lastSent')
        /\ strict /\ (~wait_rsp' \/ HasNak') /\ sendingMsgQueue' # <<>> =>
             Unsent(executed, ncpTodo, toNcp', Head(sendingMsgQueue').tag)
    BY <1>2, <1>3, <1>4, <1>6, <2>1, HostFlow
  <2>3. UNCHANGED <<executed, ncpTodo>>
    BY <1>6, HostSide DEF adapterVars
  <2> QED BY <2>2, <2>3
<1>7. CASE NcpNext /\ UNCHANGED hostVars
  <2>1. ASSUME strict, NcpReceives, NcpRejectsFrame(Head(toNcp))
        PROVE  /\ sendingMsgQueue # <<>>
               /\ Unsent(executed, ncpTodo, Tail(toNcp), Head(sendingMsgQueue).tag)
    <3>1. toNcp # <<>> /\ ncpMode = "ezsp" /\ toHost' = Nak
      BY <2>1 DEF NcpReceives, NcpRejectsFrame
    <3>2. AwayInv /\ ModeInv
      BY <1>2, <2>1 DEF CleanInv
    <3>3. Head(toNcp).type = "DATA"
      BY <2>1, <3>1, <3>2, CleanHead DEF NcpRejectsFrame
    <3>4. HasNak'
      <4>1. ncpRx \in FrmNums /\ toHost \in Seq(NcpFrames)
        BY DEF TypeOK, NcpTypeOK
      <4>2. [type |-> "NAK", num |-> ncpRx] \in NcpFrames
        BY <4>1, NcpFrameFacts
      <4>3. /\ Len(toHost) \in Nat /\ Len(toHost') = Len(toHost) + 1
            /\ toHost'[Len(toHost) + 1] = [type |-> "NAK", num |-> ncpRx]
        BY <3>1, <4>1, <4>2, SeqFacts DEF Nak
      <4>4. Len(toHost) + 1 \in 1 .. Len(toHost') /\ toHost'[Len(toHost) + 1].type = "NAK"
        BY <4>3
      <4> QED BY <4>4 DEF HasNak
    <3>5. "retransmit" \notin Happened
      BY <1>2, <2>1, <3>4, FaultsGrow DEF NumberedInv
    <3>6. PICK where : UnderWay(where, toNcp, ncpTodo, toHost, pending) /\ (where # "none" => wait_rsp)
      BY <1>2, <2>1, <3>5 DEF OneInv
    <3>7. InOrder(TRUE, executed, ncpTodo, toNcp, lastSent)
      BY <1>3, <2>1
    <3> QED BY <3>1, <3>3, <3>6, <3>7, RejectedIsDue
  <2> QED BY <1>2, <1>3, <1>4, <1>7, <2>1, NcpFlow
<1>8. CASE UNCHANGED vars
  <2>1. /\ UNCHANGED <<executed, ncpTodo, toNcp, lastSent, sendingMsgQueue, wait_rsp>>
        /\ HasNak' => HasNak
    BY <1>8 DEF vars, hostVars, queueVars, sendVars, wireVars, ncpOnlyVars, adapterVars, HasNak
  <2> QED BY <1>3, <1>4, <2>1
<1> QED BY <1>6, <1>7, <1>8 DEF Next

LEMMA InitInv ==
  ASSUME Init
  PROVE  StartInv /\ FlakyInv /\ QueueInv /\ CleanInv /\ NumberedInv /\ OneInv /\ FlowInv
<1>1. /\ toNcp = <<>> /\ toHost = <<>> /\ pending = <<>> /\ ncpTodo = <<>> /\ ncpUnacked = <<>>
      /\ executed = <<>> /\ sendingMsgQueue = <<>> /\ faults = <<>>
      /\ lastKnownMode = "UNKNOWN" /\ chunk = 0 /\ blp = "off" /\ promptDetectCallback = "none"
      /\ ~enabled /\ ~ackTimer /\ ~flaky /\ firstStartup /\ ~wait_rsp /\ ~ncpConnected
      /\ frmNum = 0 /\ issued = 0 /\ lastSent = 0
  BY DEF Init, NcpInit
<1>2. Len(toNcp) = 0 /\ Len(toHost) = 0 /\ Len(pending) = 0 /\ Len(ncpTodo) = 0
      /\ Len(ncpUnacked) = 0 /\ Len(executed) = 0 /\ Len(sendingMsgQueue) = 0
  BY <1>1
<1>3. StartInv /\ FlakyInv
  <2>1. NoRun(toNcp) /\ LaunchAtEnd(toHost) /\ ~HasLaunch(toHost) /\ ~HasLaunch(ncpUnacked)
    BY <1>2 DEF NoRun, LaunchAtEnd, HasLaunch
  <2>2. ~Told
    BY <1>1, <1>2 DEF Told, LaunchPending, BootloaderModes
  <2>3. LaunchIsLast
    BY <1>1, <2>1, <2>2 DEF LaunchIsLast
  <2>4. EnabledToSend
    BY <1>1 DEF EnabledToSend
  <2> QED BY <1>1, <2>1, <2>3, <2>4 DEF StartInv, FlakyInv
<1>4. QueueInv
  BY <1>1, <1>2 DEF QueueInv, QueueOf
<1>5. CleanInv
  <2>1. AwayInv
    BY <1>1, <1>2 DEF AwayInv, HasType, Probing, HasLaunch, LaunchPending
  <2>2. ResetInv /\ ModeInv
    BY <1>1, <1>2 DEF ResetInv, ModeInv, HasLaunch
  <2> QED BY <2>1, <2>2 DEF CleanInv
<1>6. NumberedInv
  <2>1. 0 \in FrmNums
    BY FrmFacts
  <2> QED BY <1>1, <1>2, <2>1, CountedEmpty DEF NumberedInv, Numbered, HasNak
<1>7. OneInv
  BY <1>1, OnlyEmpty DEF OneInv, UnderWay, Places
<1>8. FlowInv
  BY <1>1, <1>2 DEF FlowInv, FreshFront, InOrder, DataAt
<1> QED BY <1>3, <1>4, <1>5, <1>6, <1>7, <1>8

(* The adapter never executes a command after a later one, whatever is       *)
(* refused, lost, spoiled, resent or retransmitted and whoever restarts; and *)
(* it executes none twice unless a NAK may concern a command that it had     *)
(* received: DecodeNak resends the front of the queue without asking.        *)
THEOREM ExecutedInOrder == Spec => []ExecutedOnceInOrder
<1> DEFINE IInv == StartInv /\ FlakyInv /\ QueueInv /\ CleanInv /\ NumberedInv /\ OneInv /\ FlowInv
<1>1. Init => IInv
  BY InitInv
<1>2. TypeOK /\ TypeOK' /\ FrontIsLastSent /\ IInv /\ [Next]_vars => IInv'
  <2> SUFFICES ASSUME TypeOK, TypeOK', FrontIsLastSent, IInv, [Next]_vars PROVE IInv'
    OBVIOUS
  <2>1. StartInv' /\ FlakyInv' /\ QueueInv'
    BY NextStart, NextFlaky, NextQueue
  <2>2. CleanInv' /\ NumberedInv' /\ OneInv'
    BY NextClean, NextNumbered, NextOne
  <2>3. FlowInv'
    BY <2>2, NextFlow
  <2> QED BY <2>1, <2>2, <2>3
<1>3. IInv => ExecutedOnceInOrder
  BY DEF FlowInv, InOrder, Later, ExecutedOnceInOrder
<1> QED BY <1>1, <1>2, <1>3, TypeCorrect, FrontCorrect, PTL DEF Spec

-----------------------------------------------------------------------------
(* The promise of CommandQueue.  While nothing is spoiled, torn, given up    *)
(* too early or retransmitted, the adapter has executed exactly the commands *)
(* completed, and the one after them from its execution to its completion.   *)
(* That command is the only one on the line or in the adapter.               *)

Undisturbed == Clean /\ "retransmit" \notin Happened

OnLine(line) == {line[i].entry.tag : i \in DataAt(line)}
TagsOf(todo) == {todo[i].tag : i \in 1 .. Len(todo)}

ResponseFrames == {f \in NcpFrames : f.type = "DATA" /\ f.entry \in Responses}
HasResponse == InQueue(ResponseFrames, toHost) \/ InQueue(Responses, pending)

(* Of the commands `ex` executed, `done` are completed; `sent` are the ones  *)
(* on the line or in the adapter.                                            *)
Pledge(ex, done, sent) ==
  /\ \A i \in 1 .. Len(ex) : ex[i] = i
  /\ Len(ex) \in {done, done + 1}
  /\ sent \subseteq {done + 1}
  /\ sent # {} => Len(ex) = done

PledgeKept ==
  /\ Pledge(executed, Completed, OnLine(toNcp) \cup TagsOf(ncpTodo))
  /\ ~wait_rsp \/ HasNak => Len(executed) = Completed
  /\ HasResponse => Len(executed) = Completed + 1

PromiseInv == Undisturbed => PledgeKept

LEMMA OnLineFacts ==
  ASSUME NEW line \in Seq(HostFrames)
  PROVE  /\ \A f \in HostFrames :
              OnLine(Append(line, f)) \subseteq
                OnLine(line) \cup (IF f.type = "DATA" THEN {f.entry.tag} ELSE {})
         /\ line # <<>> =>
              /\ OnLine(Tail(line)) \subseteq OnLine(line)
              /\ Head(line).type = "DATA" => Head(line).entry.tag \in OnLine(line)
<1>1. ASSUME NEW f \in HostFrames, NEW i \in DataAt(Append(line, f))
      PROVE  Append(line, f)[i].entry.tag \in
               OnLine(line) \cup (IF f.type = "DATA" THEN {f.entry.tag} ELSE {})
  <2> DEFINE new == Append(line, f)
  <2>1. /\ Len(line) \in Nat /\ Len(new) = Len(line) + 1 /\ new[Len(line) + 1] = f
        /\ \A j \in 1 .. Len(line) : new[j] = line[j]
    BY SeqFacts
  <2>2. i \in 1 .. Len(new) /\ new[i].type = "DATA"
    BY <1>1 DEF DataAt
  <2> HIDE DEF new
  <2>3. CASE i = Len(line) + 1
    BY <2>1, <2>2, <2>3 DEF new
  <2>4. CASE i \in 1 .. Len(line)
    <3>1. new[i] = line[i] /\ i \in DataAt(line)
      BY <2>1, <2>2, <2>4 DEF DataAt
    <3> QED BY <3>1 DEF OnLine, new
  <2> QED BY <2>1, <2>2, <2>3, <2>4
<1>2. ASSUME line # <<>>, NEW i \in DataAt(Tail(line))
      PROVE  Tail(line)[i].entry.tag \in OnLine(line)
  BY <1>2, DataInRest DEF OnLine
<1>3. ASSUME line # <<>>, Head(line).type = "DATA"
      PROVE  Head(line).entry.tag \in OnLine(line)
  BY <1>3, SeqFacts DEF OnLine, DataAt
<1>4. ASSUME NEW f \in HostFrames
      PROVE  OnLine(Append(line, f)) \subseteq
               OnLine(line) \cup (IF f.type = "DATA" THEN {f.entry.tag} ELSE {})
  <2> SUFFICES ASSUME NEW i \in DataAt(Append(line, f))
               PROVE  Append(line, f)[i].entry.tag \in
                        OnLine(line) \cup (IF f.type = "DATA" THEN {f.entry.tag} ELSE {})
    BY Zenon DEF OnLine
  <2> QED BY <1>1
<1>5. ASSUME line # <<>> PROVE OnLine(Tail(line)) \subseteq OnLine(line)
  <2> SUFFICES ASSUME NEW i \in DataAt(Tail(line)) PROVE Tail(line)[i].entry.tag \in OnLine(line)
    BY Zenon DEF OnLine
  <2> QED BY <1>2, <1>5
<1> QED BY <1>3, <1>4, <1>5

LEMMA TagsFacts ==
  ASSUME NEW todo \in Seq(Entries)
  PROVE  /\ TagsOf(<<>>) = {}
         /\ todo # <<>> =>
              TagsOf(Tail(todo)) \subseteq TagsOf(todo) /\ Head(todo).tag \in TagsOf(todo)
         /\ \A e \in Entries : TagsOf(Append(todo, e)) \subseteq TagsOf(todo) \cup {e.tag}
<1>1. TagsOf(<<>>) = {}
  <2>1. Len(<<>>) = 0
    OBVIOUS
  <2> QED BY <2>1 DEF TagsOf
<1>2. ASSUME todo # <<>>
      PROVE  TagsOf(Tail(todo)) \subseteq TagsOf(todo) /\ Head(todo).tag \in TagsOf(todo)
  <2>1. /\ Head(todo) = todo[1] /\ 1 \in 1 .. Len(todo)
        /\ \A i \in 1 .. Len(Tail(todo)) : i + 1 \in 1 .. Len(todo) /\ Tail(todo)[i] = todo[i + 1]
    BY <1>2, SeqFacts
  <2> QED BY <2>1 DEF TagsOf
<1>3. ASSUME NEW e \in Entries
      PROVE  TagsOf(Append(todo, e)) \subseteq TagsOf(todo) \cup {e.tag}
  <2> DEFINE new == Append(todo, e)
  <2>1. /\ Len(todo) \in Nat /\ Len(new) = Len(todo) + 1 /\ new[Len(todo) + 1] = e
        /\ \A i \in 1 .. Len(todo) : new[i] = todo[i]
    BY SeqFacts
  <2> HIDE DEF new
  <2>2. \A i \in 1 .. Len(new) : i \in 1 .. Len(todo) \/ i = Len(todo) + 1
    BY <2>1
  <2>3. TagsOf(new) \subseteq TagsOf(todo) \cup {e.tag}
    BY <2>1, <2>2 DEF TagsOf
  <2> QED BY <2>3 DEF new
<1> QED BY <1>1, <1>2, <1>3

LEMMA InRest ==
  ASSUME NEW T, NEW s \in Seq(T), NEW S
  PROVE  /\ s # <<>> => /\ InQueue(S, Tail(s)) => InQueue(S, s)
                        /\ Head(s) \in S => InQueue(S, s)
         /\ \A x \in T : InQueue(S, Append(s, x)) => InQueue(S, s) \/ x \in S
<1>1. ASSUME s # <<>>
      PROVE  /\ InQueue(S, Tail(s)) => InQueue(S, s)
             /\ Head(s) \in S => InQueue(S, s)
  <2>1. /\ Head(s) = s[1] /\ 1 \in 1 .. Len(s)
        /\ \A i \in 1 .. Len(Tail(s)) : i + 1 \in 1 .. Len(s) /\ Tail(s)[i] = s[i + 1]
    BY <1>1, SeqFacts
  <2> QED BY <2>1 DEF InQueue
<1>2. ASSUME NEW x \in T, InQueue(S, Append(s, x))
      PROVE  InQueue(S, s) \/ x \in S
  <2> DEFINE new == Append(s, x)
  <2>1. /\ Len(s) \in Nat /\ Len(new) = Len(s) + 1 /\ new[Len(s) + 1] = x
        /\ \A i \in 1 .. Len(s) : new[i] = s[i]
    BY SeqFacts
  <2>2. PICK i \in 1 .. Len(new) : new[i] \in S
    BY <1>2 DEF InQueue
  <2> HIDE DEF new
  <2>3. i \in 1 .. Len(s) \/ i = Len(s) + 1
    BY <2>1
  <2> QED BY <2>1, <2>2, <2>3 DEF InQueue
<1> QED BY <1>1, <1>2

(* What a set of elements that occurs in a queue says of where commands are. *)
LEMMA UnderWayIs ==
  ASSUME TypeOK, NEW where, UnderWay(where, toNcp, ncpTodo, toHost, pending)
  PROVE  /\ OnLine(toNcp) # {} => where = "line"
         /\ TagsOf(ncpTodo) # {} => where = "adapter"
         /\ HasNak \/ InQueue(ResponseFrames, toHost) => where = "answer"
         /\ InQueue(Responses, pending) => where = "payload"
<1>0. /\ toNcp \in Seq(HostFrames) /\ ncpTodo \in Seq(Entries) /\ toHost \in Seq(NcpFrames)
  BY DEF TypeOK, NcpTypeOK
<1>1. \A i \in DataAt(toNcp) : i \in PlacesOf(WrittenCommands, toNcp)
  BY <1>0, SeqFacts DEF DataAt, PlacesOf, WrittenCommands
<1>2. \A i \in 1 .. Len(ncpTodo) : i \in PlacesOf(Entries, ncpTodo)
  BY <1>0, SeqFacts DEF PlacesOf
<1>3. \A i \in 1 .. Len(toHost) :
        toHost[i].type = "NAK" \/ toHost[i] \in ResponseFrames => i \in PlacesOf(Answers, toHost)
  <2> SUFFICES ASSUME NEW i \in 1 .. Len(toHost),
                      toHost[i].type = "NAK" \/ toHost[i] \in ResponseFrames
               PROVE  i \in PlacesOf(Answers, toHost)
    OBVIOUS
  <2>1. toHost[i] \in NcpFrames
    BY <1>0, SeqFacts
  <2> QED BY <2>1 DEF ResponseFrames, Responses, Answers, PlacesOf
<1> QED BY <1>1, <1>2, <1>3 DEF UnderWay, Only, OnLine, TagsOf, HasNak, InQueue, PlacesOf

LEMMA QuietAddsNoTag ==
  ASSUME NEW line \in Seq(HostFrames), NEW new, Quiet(line, new)
  PROVE  OnLine(new) \subseteq OnLine(line)
<1>1. CASE new = line
  BY <1>1
<1>2. ASSUME NEW f \in HostFrames, f.type # "DATA", new = Append(line, f)
      PROVE  OnLine(new) \subseteq OnLine(line)
  BY <1>2, OnLineFacts
<1> QED BY <1>1, <1>2 DEF Quiet

(* What sendNextMsg() may write, when writing does not fail.                 *)
LEMMA SendNextMsgWrites ==
  ASSUME TypeOK, ~flaky, NEW queue \in Seq(Entries), NEW wait, NEW mode, NEW frm \in FrmNums,
         NEW timer, NEW out \in Seq(HostFrames),
         SendNextMsg(queue, wait, mode, frm, timer, out)
  PROVE  \/ /\ ~wait /\ queue # <<>> /\ wait_rsp' = TRUE
            /\ OnLine(toNcp') \subseteq OnLine(out) \cup {Head(queue).tag}
         \/ toNcp' = out /\ (wait => wait_rsp' = wait)
<1>1. CASE MaySend(queue, wait, mode)
  <2> DEFINE f == Data(frm, lastReceivedByNEAckNum, Head(queue))
  <2>1. queue # <<>> /\ ~wait
    BY <1>1 DEF MaySend
  <2>2. Head(queue) \in Entries
    BY <2>1, EntryInSeq
  <2>3. f \in HostFrames
    BY <2>2, HostFrameFacts DEF TypeOK, ReadTypeOK
  <2>4. f.type = "DATA" /\ f.entry = Head(queue)
    BY DEF Data
  <2>5. (toNcp' = Append(out, f) /\ wait_rsp' = TRUE) \/ toNcp' = out
    BY <1>1 DEF SendNextMsg, Written
  <2> HIDE DEF f
  <2>6. OnLine(Append(out, f)) \subseteq OnLine(out) \cup {Head(queue).tag}
    BY <2>3, <2>4, OnLineFacts
  <2> QED BY <2>1, <2>5, <2>6
<1>2. CASE ~MaySend(queue, wait, mode)
  BY <1>2 DEF SendNextMsg
<1> QED BY <1>1, <1>2

LEMMA HostPromise ==
  ASSUME TypeOK, FrontIsLastSent, QueueInv, ~flaky, UserNext \/ HostNext,
         NEW where, UnderWay(where, toNcp, ncpTodo, toHost, pending), PledgeKept
  PROVE  PledgeKept' /\ [Promise!Next]_(Promise!vars)
<1>0. /\ toNcp \in Seq(HostFrames) /\ toHost \in Seq(NcpFrames) /\ ncpTodo \in Seq(Entries)
      /\ sendingMsgQueue \in Seq(Entries) /\ issued \in Nat /\ lastSent \in Nat
      /\ frmNum \in FrmNums /\ pending \in Seq(Entries) /\ executed \in Seq(Nat)
  BY DEF TypeOK, NcpTypeOK, SendTypeOK, QueueTypeOK, ReadTypeOK
<1>A. UNCHANGED <<executed, ncpTodo>>
  BY HostSide DEF adapterVars
<1>N. HasNak' => HasNak
  <2>1. UNCHANGED toHost => (HasNak' => HasNak)
    BY DEF HasNak
  <2> QED BY <2>1, HostSide, NakTail
<1>R. InQueue(ResponseFrames, toHost') => InQueue(ResponseFrames, toHost)
  <2>1. toHost # <<>> => (InQueue(ResponseFrames, Tail(toHost)) => InQueue(ResponseFrames, toHost))
    BY <1>0, InRest
  <2>2. UNCHANGED toHost \/ (toHost # <<>> /\ toHost' = Tail(toHost))
    BY HostSide
  <2> QED BY <2>1, <2>2
<1>C. Completed \in Nat /\ Len(executed) \in Nat
  <2>1. Len(sendingMsgQueue) <= issued
    BY DEF QueueInv, QueueOf
  <2>2. Len(sendingMsgQueue) \in Nat /\ Len(executed) \in Nat
    BY <1>0, SeqFacts
  <2> QED BY <1>0, <2>1, <2>2 DEF Completed
<1> DEFINE Goal == PledgeKept' /\ [Promise!Next]_(Promise!vars)
<1> SUFFICES Goal
  OBVIOUS
<1>H. UNCHANGED pending => (HasResponse' => HasResponse)
  BY <1>R DEF HasResponse
<1>1. ASSUME UNCHANGED <<sendingMsgQueue, wait_rsp, issued>>, HasResponse' => HasResponse,
             OnLine(toNcp') \subseteq OnLine(toNcp)
      PROVE  Goal
  <2>1. Completed' = Completed
    BY <1>1 DEF Completed
  <2>2. Pledge(executed', Completed', OnLine(toNcp') \cup TagsOf(ncpTodo'))
    BY <1>1, <1>A, <2>1 DEF PledgeKept, Pledge
  <2>3. ~wait_rsp' \/ HasNak' => Len(executed') = Completed'
    BY <1>1, <1>A, <1>N, <2>1 DEF PledgeKept
  <2>4. HasResponse' => Len(executed') = Completed' + 1
    BY <1>1, <1>A, <2>1 DEF PledgeKept
  <2>5. UNCHANGED Promise!vars
    BY <1>1, <1>A, <2>1 DEF Promise!vars
  <2> QED BY <2>2, <2>3, <2>4, <2>5 DEF PledgeKept
<1>2. ASSUME NEW queue \in Seq(Entries), sendingMsgQueue' = queue, NEW done \in Nat,
             Completed' = done, queue # <<>> => Head(queue).tag = done + 1,
             NEW wait, NEW frm \in FrmNums, NEW timer, NEW out \in Seq(HostFrames),
             SendNextMsg(queue, wait, lastKnownMode, frm, timer, out),
             Pledge(executed, done, OnLine(out) \cup TagsOf(ncpTodo)),
             ~wait => Len(executed) = done,
             HasNak' => Len(executed) = done,
             HasResponse' => Len(executed) = done + 1
      PROVE  PledgeKept'
  <2>1. \/ /\ ~wait /\ queue # <<>> /\ wait_rsp' = TRUE
           /\ OnLine(toNcp') \subseteq OnLine(out) \cup {Head(queue).tag}
        \/ toNcp' = out /\ (wait => wait_rsp' = wait)
    BY <1>2, SendNextMsgWrites
  <2>2. Pledge(executed, done, OnLine(toNcp') \cup TagsOf(ncpTodo))
    <3>1. CASE /\ ~wait /\ queue # <<>>
               /\ OnLine(toNcp') \subseteq OnLine(out) \cup {Head(queue).tag}
      BY <1>2, <3>1 DEF Pledge
    <3>2. CASE toNcp' = out
      BY <1>2, <3>2
    <3> QED BY <2>1, <3>1, <3>2
  <2>3. ~wait_rsp' => Len(executed) = done
    BY <1>2, <2>1
  <2> QED BY <1>2, <1>A, <2>2, <2>3 DEF PledgeKept
<1> HIDE DEF Goal
<1>3. ASSUME NEW c \in Commands \cup {Launch}, NEW timer, sendingMsgQueue' = Queued(c),
             issued' = issued + 1, UNCHANGED pending,
             SendNextMsg(Queued(c), wait_rsp, lastKnownMode, frmNum, timer, toNcp)
      PROVE  Goal
  <2>1. PICK q \in Seq(Entries) : q = Queued(c)
    BY QueuedType DEF TypeOK
  <2>2. QueueOf(q, issued + 1, lastSent)
    BY <1>0, <2>1, QueueOfLonger DEF QueueInv, Queued
  <2>3. Len(q) = Len(sendingMsgQueue) + 1 /\ Len(sendingMsgQueue) \in Nat
    <3>1. [tag |-> issued + 1, cmd |-> c] \in Entries
      BY <1>0 DEF Entries, EzspCmds
    <3> QED BY <1>0, <2>1, <3>1, SeqFacts DEF Queued
  <2>4. Completed' = Completed
    BY <1>0, <1>3, <2>1, <2>3 DEF Completed
  <2>5. q # <<>> => Head(q).tag = Completed + 1
    <3>1. 1 \in 1 .. Len(q) /\ (q # <<>> => Head(q) = q[1])
      BY <2>3, SeqFacts
    <3>2. q[1].tag = (issued + 1) - Len(q) + 1
      BY <2>2, <3>1 DEF QueueOf
    <3> QED BY <1>0, <2>3, <3>1, <3>2 DEF Completed
  <2>6. PledgeKept'
    <3>1. /\ SendNextMsg(q, wait_rsp, lastKnownMode, frmNum, timer, toNcp)
          /\ sendingMsgQueue' = q
      BY <1>3, <2>1
    <3>2. /\ Pledge(executed, Completed, OnLine(toNcp) \cup TagsOf(ncpTodo))
          /\ ~wait_rsp => Len(executed) = Completed
          /\ HasNak' => Len(executed) = Completed
          /\ HasResponse' => Len(executed) = Completed + 1
      BY <1>3, <1>H, <1>N DEF PledgeKept
    <3> QED BY <1>0, <1>2, <1>C, <2>4, <2>5, <3>1, <3>2
  <2>7. Promise!Accept
    BY <1>3, <1>A, <2>4 DEF Promise!Accept
  <2> QED BY <2>6, <2>7 DEF Goal, Promise!Next
<1>4. Quiet(toNcp, toNcp) /\ \A f \in HostFrames : f.type # "DATA" => Quiet(toNcp, Append(toNcp, f))
  BY DEF Quiet
<1>5. \A t \in {"RST", "RUN", "JUNK", "UPGRADE"} : Simple(t) \in HostFrames /\ Simple(t).type # "DATA"
  BY HostFrameFacts DEF Simple
<1>6. ASSUME UNCHANGED <<sendingMsgQueue, wait_rsp, issued, pending>>, Quiet(toNcp, toNcp')
      PROVE  Goal
  BY <1>0, <1>1, <1>6, <1>H, QuietAddsNoTag
<1>7. ASSUME NEW c \in Commands \cup {Launch}, SendCommand(c)
      PROVE  Goal
  BY <1>3, <1>7 DEF SendCommand, readVars
<1>8. CASE Reset
  <2>1. UNCHANGED <<sendingMsgQueue, wait_rsp, issued, pending>> /\ ResetDongle(toNcp)
    BY <1>8 DEF Reset, queueVars, readVars
  <2> QED BY <1>6, <2>1, ResetDongleQuiet
<1>9. CASE AckTimerExpires
  <2>1. UNCHANGED <<sendingMsgQueue, wait_rsp, issued, pending, toNcp>>
    BY <1>9 DEF AckTimerExpires, queueVars, wireVars, readVars
  <2> QED BY <1>4, <1>6, <2>1
<1>10. CASE BlpProbes
  <2>1. /\ UNCHANGED <<sendingMsgQueue, wait_rsp, issued, pending>>
        /\ toNcp' \in {toNcp, Append(toNcp, Simple("JUNK"))}
    BY <1>10 DEF BlpProbes, queueVars, readVars
  <2> QED BY <1>4, <1>5, <1>6, <2>1
<1>11. CASE PromptDetected
  <2>1. UNCHANGED <<sendingMsgQueue, wait_rsp, issued, pending>>
    BY <1>11 DEF PromptDetected, queueVars, readVars
  <2>2. ASSUME NEW out \in MenuChoice("RUN"), ResetDongle(out)
        PROVE  Goal
    <3>1. Quiet(toNcp, out) /\ Quiet(out, toNcp')
      BY <1>4, <1>5, <2>2, ResetDongleQuiet DEF MenuChoice
    <3>2. out \in Seq(HostFrames)
      <4>1. out \in {toNcp, Append(toNcp, Simple("RUN"))} /\ Simple("RUN") \in HostFrames
        BY <1>5 DEF MenuChoice
      <4>2. Append(toNcp, Simple("RUN")) \in Seq(HostFrames)
        BY <1>0, <4>1
      <4> QED BY <1>0, <4>1, <4>2
    <3>3. OnLine(toNcp') \subseteq OnLine(toNcp)
      BY <1>0, <3>1, <3>2, QuietAddsNoTag
    <3> QED BY <1>1, <1>H, <2>1, <3>3
  <2>3. CASE toNcp' \in MenuChoice("UPGRADE")
    BY <1>4, <1>5, <1>6, <2>1, <2>3 DEF MenuChoice
  <2> QED BY <1>11, <2>2, <2>3 DEF PromptDetected
<1>12. CASE ReadChunk
  <2>1. UNCHANGED <<sendingMsgQueue, wait_rsp, issued, pending, toNcp>>
    BY <1>12 DEF ReadChunk, queueVars
  <2> QED BY <1>4, <1>6, <2>1
<1>13. CASE DecodeData
  <2>1. /\ UNCHANGED <<sendingMsgQueue, wait_rsp, issued, toNcp>> /\ toHost # <<>>
        /\ Head(toHost).type = "DATA" /\ pending' = Append(pending, Head(toHost).entry)
    BY <1>13 DEF DecodeData, DecodeNext, queueVars
  <2>2. Head(toHost) \in NcpFrames
    BY <1>0, <2>1, EntryInSeq
  <2>3. Head(toHost).entry \in Entries
    BY <2>1, <2>2, FieldFacts
  <2>4. InQueue(Responses, pending') => InQueue(Responses, pending) \/ Head(toHost).entry \in Responses
    BY <1>0, <2>1, <2>3, InRest
  <2>5. Head(toHost).entry \in Responses => InQueue(ResponseFrames, toHost)
    BY <1>0, <2>1, <2>2, InRest DEF ResponseFrames
  <2> QED BY <1>1, <1>R, <2>1, <2>4, <2>5 DEF HasResponse
<1>14. CASE DecodeAck \/ DecodeBad
  <2>1. UNCHANGED <<sendingMsgQueue, wait_rsp, issued, pending, toNcp>>
    BY <1>14 DEF DecodeAck, DecodeBad, queueVars
  <2> QED BY <1>4, <1>6, <2>1
<1>15. CASE DecodeNak
  <2>1. /\ toHost # <<>> /\ Head(toHost) \in NcpFrames /\ Head(toHost).type = "NAK"
        /\ Head(toHost) = toHost[1] /\ 1 \in 1 .. Len(toHost)
    BY <1>0, <1>15, SeqFacts DEF DecodeNak, DecodeNext
  <2>2. HasNak /\ Head(toHost).num \in FrmNums
    BY <2>1, FieldFacts DEF HasNak
  <2>3. /\ SendNextMsg(sendingMsgQueue, FALSE, lastKnownMode, Head(toHost).num, FALSE, toNcp)
        /\ sendingMsgQueue' = sendingMsgQueue /\ UNCHANGED <<issued, pending>>
    BY <1>15 DEF DecodeNak, Nacked
  <2>4. Completed' = Completed
    BY <2>3 DEF Completed
  <2>5. sendingMsgQueue # <<>> => Head(sendingMsgQueue).tag = Completed + 1
    <3>1. sendingMsgQueue # <<>> => 1 \in 1 .. Len(sendingMsgQueue)
                                     /\ Head(sendingMsgQueue) = sendingMsgQueue[1]
      BY <1>0, SeqFacts
    <3> QED BY <3>1 DEF QueueInv, QueueOf, Completed
  <2>6. /\ Pledge(executed, Completed, OnLine(toNcp) \cup TagsOf(ncpTodo))
        /\ Len(executed) = Completed
        /\ HasResponse' => Len(executed) = Completed + 1
    BY <1>H, <2>2, <2>3 DEF PledgeKept
  <2>7. PledgeKept'
    BY <1>0, <1>2, <1>C, <2>2, <2>3, <2>4, <2>5, <2>6
  <2>8. UNCHANGED Promise!vars
    BY <1>A, <2>3, <2>4 DEF Promise!vars
  <2> QED BY <2>7, <2>8 DEF Goal
<1>16. CASE DecodeRstAck
  <2>1. /\ UNCHANGED pending
        /\ \/ UNCHANGED <<sendingMsgQueue, wait_rsp, issued, toNcp>>
           \/ \E c \in Commands :
                /\ sendingMsgQueue' = Queued(c) /\ issued' = issued + 1
                /\ SendNextMsg(Queued(c), wait_rsp, lastKnownMode, frmNum, FALSE, toNcp)
    BY <1>16 DEF DecodeRstAck, Connected, queueVars, sendVars
  <2> QED BY <1>3, <1>4, <1>6, <2>1
<1>17. ASSUME NEW p, DeliverInBootloader(p) \/ DeliverLaunch(p)
       PROVE  Goal
  <2>1. /\ UNCHANGED <<sendingMsgQueue, wait_rsp, issued, toNcp>>
        /\ pending # <<>> /\ pending' = Tail(pending)
    BY <1>17 DEF DeliverInBootloader, DeliverLaunch, DeliverNext, queueVars
  <2>2. InQueue(Responses, pending') => InQueue(Responses, pending)
    BY <1>0, <2>1, InRest
  <2> QED BY <1>1, <1>R, <2>1, <2>2 DEF HasResponse
<1>18. ASSUME NEW p, DeliverMessage(p)
       PROVE  Goal
  <2>1. PICK out \in AckWrites : HandleResponse(p, out)
    BY <1>18 DEF DeliverMessage
  <2>2. OnLine(out) \subseteq OnLine(toNcp) /\ out \in Seq(HostFrames)
    BY <1>0, AckWritesQuiet, AckWritesType, QuietAddsNoTag
  <2>3. UNCHANGED <<issued, toHost>> /\ pending # <<>> /\ p = Head(pending) /\ pending' = Tail(pending)
    BY <1>18 DEF DeliverMessage, DeliverNext
  <2>4. /\ InQueue(Responses, pending') => InQueue(Responses, pending)
        /\ p \in Responses => InQueue(Responses, pending)
    BY <1>0, <2>3, InRest
  <2>5. CASE IsResponse(p)
    <3>1. /\ sendingMsgQueue # <<>> /\ Tail(sendingMsgQueue) \in Seq(Entries)
          /\ Head(sendingMsgQueue).cmd = p.cmd /\ p \in Entries
      BY <1>0, <2>3, <2>5, EntryInSeq DEF IsResponse
    <3>2. /\ 1 \in 1 .. Len(sendingMsgQueue) /\ Head(sendingMsgQueue) = sendingMsgQueue[1]
          /\ Len(sendingMsgQueue) \in Nat /\ Len(Tail(sendingMsgQueue)) = Len(sendingMsgQueue) - 1
      BY <1>0, <3>1, SeqFacts
    <3>3. p \in Responses
      BY <3>1, <3>2 DEF QueueInv, QueueOf, Responses
    <3>4. where = "payload" /\ Len(executed) = Completed + 1
      BY <2>4, <3>3, UnderWayIs DEF PledgeKept, HasResponse
    <3>5. OnLine(toNcp) = {} /\ TagsOf(ncpTodo) = {} /\ ~HasNak /\ ~InQueue(ResponseFrames, toHost)
      BY <3>4, UnderWayIs
    <3>6. ~HasResponse'
      <4>1. Only(where, "payload", Responses, pending)
        BY DEF UnderWay
      <4>2. Only("none", "payload", Responses, pending')
        BY <1>0, <2>3, <3>3, <4>1, OnlyTail
      <4>3. ~InQueue(Responses, pending')
        BY <4>2 DEF Only, PlacesOf, InQueue
      <4> QED BY <1>R, <3>5, <4>3 DEF HasResponse
    <3>7. /\ SendNextMsg(Tail(sendingMsgQueue), FALSE, lastKnownMode, frmNum, ackTimer, out)
          /\ sendingMsgQueue' = Tail(sendingMsgQueue)
      BY <2>1, <2>5 DEF HandleResponse
    <3>8. Completed' = Completed + 1 /\ Completed + 1 \in Nat
      <4>1. Completed' = issued - Len(Tail(sendingMsgQueue))
        BY <2>3, <3>7, Zenon DEF Completed
      <4>2. Completed = issued - Len(sendingMsgQueue)
        BY DEF Completed
      <4>3. \A i, n \in Nat : i - (n - 1) = (i - n) + 1
        OBVIOUS
      <4>4. Completed' = Completed + 1
        BY <1>0, <3>2, <4>1, <4>2, <4>3, Zenon
      <4> QED BY <1>C, <4>4
    <3>9. Tail(sendingMsgQueue) # <<>> => Head(Tail(sendingMsgQueue)).tag = (Completed + 1) + 1
      <4> SUFFICES ASSUME Tail(sendingMsgQueue) # <<>>
                   PROVE  Head(Tail(sendingMsgQueue)).tag = (Completed + 1) + 1
        OBVIOUS
      <4>1. /\ Head(Tail(sendingMsgQueue)) = Tail(sendingMsgQueue)[1]
            /\ Len(Tail(sendingMsgQueue)) > 0
        BY <3>1, SeqFacts
      <4>2. Tail(sendingMsgQueue)[1] = sendingMsgQueue[2] /\ 2 \in 1 .. Len(sendingMsgQueue)
        BY <1>0, <3>1, <3>2, <4>1, SeqFacts
      <4>3. sendingMsgQueue[2].tag = issued - Len(sendingMsgQueue) + 2
        BY <4>2 DEF QueueInv, QueueOf
      <4> QED BY <1>0, <3>2, <4>1, <4>2, <4>3 DEF Completed
    <3>10. Pledge(executed, Completed + 1, OnLine(out) \cup TagsOf(ncpTodo))
      <4>1. OnLine(out) \cup TagsOf(ncpTodo) = {}
        BY <2>2, <3>5
      <4>2. \A i \in 1 .. Len(executed) : executed[i] = i
        BY DEF PledgeKept, Pledge
      <4> QED BY <3>4, <4>1, <4>2 DEF Pledge
    <3>11. PledgeKept'
      BY <1>0, <1>2, <1>N, <2>2, <3>1, <3>4, <3>5, <3>6, <3>7, <3>8, <3>9, <3>10
    <3>12. Promise!Complete
      BY <1>A, <2>3, <3>4, <3>8 DEF Promise!Complete
    <3> QED BY <3>11, <3>12 DEF Goal, Promise!Next
  <2>6. CASE ~IsResponse(p)
    <3>1. toNcp' = out /\ UNCHANGED <<sendingMsgQueue, wait_rsp>>
      BY <2>1, <2>6 DEF HandleResponse, queueVars
    <3> QED BY <1>1, <1>R, <2>2, <2>3, <2>4, <3>1 DEF HasResponse
  <2> QED BY <2>5, <2>6
<1> QED
  BY <1>7, <1>8, <1>9, <1>10, <1>11, <1>12, <1>13, <1>14, <1>15, <1>16, <1>17, <1>18
     DEF UserNext, HostNext, Decode, Deliver

LEMMA NcpPromise ==
  ASSUME TypeOK, FrontIsLastSent, QueueInv, AwayInv, ModeInv, NcpNext, UNCHANGED hostVars,
         ~NcpRetransmits, ~NoiseToNcp, ~NoiseToHost,
         NEW where, UnderWay(where, toNcp, ncpTodo, toHost, pending),
         where # "none" => wait_rsp, PledgeKept
  PROVE  PledgeKept' /\ [Promise!Next]_(Promise!vars)
<1>0. /\ toNcp \in Seq(HostFrames) /\ toHost \in Seq(NcpFrames) /\ ncpTodo \in Seq(Entries)
      /\ sendingMsgQueue \in Seq(Entries) /\ issued \in Nat
      /\ executed \in Seq(Nat) /\ ncpRx \in FrmNums /\ ncpTx \in FrmNums
  BY DEF TypeOK, NcpTypeOK, QueueTypeOK
<1>1. UNCHANGED <<issued, wait_rsp, sendingMsgQueue, pending>> /\ Completed' = Completed
  BY DEF hostVars, queueVars, readVars, Completed
<1> DEFINE Goal == PledgeKept' /\ [Promise!Next]_(Promise!vars)
<1> SUFFICES Goal
  OBVIOUS
<1>2. ASSUME UNCHANGED executed,
             OnLine(toNcp') \cup TagsOf(ncpTodo') \subseteq OnLine(toNcp) \cup TagsOf(ncpTodo),
             HasNak' => HasNak \/ OnLine(toNcp) # {},
             InQueue(ResponseFrames, toHost') => InQueue(ResponseFrames, toHost)
      PROVE  Goal
  <2>1. Pledge(executed', Completed', OnLine(toNcp') \cup TagsOf(ncpTodo'))
    BY <1>1, <1>2 DEF PledgeKept, Pledge
  <2>2. ~wait_rsp' \/ HasNak' => Len(executed') = Completed'
    BY <1>1, <1>2 DEF PledgeKept, Pledge
  <2>3. HasResponse' => Len(executed') = Completed' + 1
    BY <1>1, <1>2 DEF PledgeKept, HasResponse
  <2>4. UNCHANGED Promise!vars
    BY <1>1, <1>2 DEF Promise!vars
  <2> QED BY <2>1, <2>2, <2>3, <2>4 DEF PledgeKept
<1> HIDE DEF Goal
<1>3. ASSUME NEW f \in NcpFrames, f.type # "DATA" \/ f.entry.cmd \in Callbacks
      PROVE  InQueue(ResponseFrames, Append(toHost, f)) => InQueue(ResponseFrames, toHost)
  BY <1>0, <1>3, InRest DEF ResponseFrames, Responses
<1>4. /\ Simple("ACK") \in NcpFrames /\ Simple("ACK").type # "DATA"
      /\ [type |-> "NAK", num |-> ncpRx] \in NcpFrames
      /\ [type |-> "NAK", num |-> ncpRx].type # "DATA"
      /\ \A b \in BOOLEAN : /\ [type |-> "RSTACK", good |-> b] \in NcpFrames
                            /\ [type |-> "RSTACK", good |-> b].type # "DATA"
  BY <1>0, NcpFrameFacts DEF Simple
<1>5. TagsOf(<<>>) = {}
  BY <1>0, TagsFacts
<1>6. CASE NcpReceives
  <2>1. PICK f : f = Head(toNcp)
    OBVIOUS
  <2>2. /\ \/ NcpReadsReset(f) \/ NcpAcceptsData(f) \/ NcpRejectsFrame(f) \/ NcpReadsAck(f)
           \/ NcpReadsJunk(f) \/ NcpReadsRun(f) \/ NcpReadsUpgrade(f) \/ NcpIgnores(f)
        /\ toNcp # <<>> /\ UNCHANGED executed
    BY <1>6, <2>1 DEF NcpReceives
  <2>3. ncpMode = "ezsp" => f.type \in {"RST", "DATA", "ACK", "UPGRADE"}
    BY <2>1, <2>2, CleanHead
  <2>4. toNcp' = Tail(toNcp) /\ ~NcpReadsJunk(f)
    BY <2>2, <2>3 DEF NcpReadsReset, NcpAcceptsData, NcpRejectsFrame, NcpReadsAck, NcpReadsJunk,
                      NcpReadsRun, NcpReadsUpgrade, NcpIgnores
  <2>5. /\ OnLine(toNcp') \subseteq OnLine(toNcp)
        /\ f.type = "DATA" => f.entry.tag \in OnLine(toNcp)
    BY <1>0, <2>1, <2>2, <2>4, OnLineFacts
  <2>6. HasNak' => HasNak \/ OnLine(toNcp) # {}
    <3>1. CASE NcpRejectsFrame(f)
      <4>1. f.type = "DATA"
        BY <2>3, <3>1 DEF NcpRejectsFrame
      <4> QED BY <2>5, <4>1
    <3>2. CASE ~NcpRejectsFrame(f)
      BY <2>1, <3>2, NcpSaysNak
    <3> QED BY <3>1, <3>2
  <2>7. InQueue(ResponseFrames, toHost') => InQueue(ResponseFrames, toHost)
    <3>1. \/ toHost' \in {toHost, Nak, Append(toHost, Simple("ACK"))}
          \/ \E b \in BOOLEAN : toHost' = Append(toHost, [type |-> "RSTACK", good |-> b])
      BY <2>2 DEF NcpReadsReset, NcpAcceptsData, NcpRejectsFrame, NcpReadsAck, NcpReadsJunk,
                  NcpReadsRun, NcpReadsUpgrade, NcpIgnores, StartAsh
    <3> QED BY <1>3, <1>4, <3>1 DEF Nak
  <2>8. TagsOf(ncpTodo') \subseteq OnLine(toNcp) \cup TagsOf(ncpTodo)
    <3>1. CASE NcpReadsReset(f) \/ NcpReadsRun(f)
      BY <1>5, <3>1 DEF NcpReadsReset, NcpReadsRun, StartAsh
    <3>2. CASE NcpAcceptsData(f)
      <4>1. f.type = "DATA" /\ ncpTodo' = Append(ncpTodo, f.entry)
        BY <3>2 DEF NcpAcceptsData
      <4>2. f \in HostFrames
        BY <1>0, <2>1, <2>2, EntryInSeq
      <4>3. f.entry \in Entries
        BY <4>1, <4>2, FieldFacts
      <4>4. TagsOf(ncpTodo') \subseteq TagsOf(ncpTodo) \cup {f.entry.tag}
        BY <1>0, <4>1, <4>3, TagsFacts
      <4> QED BY <2>5, <4>1, <4>4
    <3>3. CASE NcpRejectsFrame(f) \/ NcpReadsAck(f) \/ NcpReadsUpgrade(f) \/ NcpIgnores(f)
      BY <3>3 DEF NcpRejectsFrame, NcpReadsAck, NcpReadsUpgrade, NcpIgnores
    <3> QED BY <2>2, <2>4, <3>1, <3>2, <3>3
  <2> QED BY <1>2, <2>2, <2>5, <2>6, <2>7, <2>8
<1>7. CASE NcpResponds /\ ~NcpReceives
  <2>1. /\ UNCHANGED toNcp /\ ncpTodo # <<>> /\ ncpTodo' \in {<<>>, Tail(ncpTodo)}
        /\ executed' = Append(executed, Head(ncpTodo).tag)
    BY <1>7 DEF NcpResponds
  <2>2. Head(ncpTodo) \in Entries /\ Head(ncpTodo).tag \in TagsOf(ncpTodo)
    BY <1>0, <2>1, EntryInSeq, TagsFacts
  <2>3. where = "adapter" /\ Only("none", "adapter", Entries, Tail(ncpTodo))
    <3>1. Only(where, "adapter", Entries, ncpTodo)
      BY DEF UnderWay
    <3> QED BY <1>0, <2>1, <2>2, <3>1, OnlyTail
  <2>4. OnLine(toNcp') = {} /\ ~HasNak /\ wait_rsp
    BY <2>1, <2>3, UnderWayIs
  <2>5. TagsOf(ncpTodo') = {}
    <3>1. Tail(ncpTodo) \in Seq(Entries)
      BY <1>0, <2>1, EntryInSeq
    <3>2. \A i \in 1 .. Len(Tail(ncpTodo)) : Tail(ncpTodo)[i] \in Entries
      BY <3>1, SeqFacts
    <3>3. TagsOf(Tail(ncpTodo)) = {}
      BY <2>3, <3>2 DEF Only, PlacesOf, TagsOf
    <3> QED BY <1>5, <2>1, <3>3
  <2>6. /\ Head(ncpTodo).tag = Completed + 1 /\ Len(executed) = Completed
        /\ \A i \in 1 .. Len(executed) : executed[i] = i
    BY <2>2 DEF PledgeKept, Pledge
  <2>7. executed' = Append(executed, Completed + 1)
    BY <2>1, <2>6
  <2>8. Completed \in Nat /\ Completed < issued
    <3>1. sendingMsgQueue # <<>>
      BY <2>4 DEF FrontIsLastSent
    <3>2. Len(sendingMsgQueue) \in Nat /\ Len(sendingMsgQueue) > 0
      BY <1>0, <3>1, SeqFacts
    <3>3. Len(sendingMsgQueue) <= issued
      BY DEF QueueInv, QueueOf
    <3> QED BY <1>0, <3>2, <3>3 DEF Completed
  <2>9. Len(executed') = Completed + 1 /\ \A i \in 1 .. Len(executed') : executed'[i] = i
    <3>1. /\ Len(executed') = Len(executed) + 1 /\ executed'[Len(executed) + 1] = Completed + 1
          /\ \A i \in 1 .. Len(executed) : executed'[i] = executed[i]
      BY <1>0, <2>7, <2>8, SeqFacts
    <3>2. \A i \in 1 .. Len(executed') : i \in 1 .. Len(executed) \/ i = Len(executed) + 1
      BY <2>6, <2>8, <3>1
    <3> QED BY <2>6, <3>1, <3>2
  <2>10. ~HasNak'
    <3>1. HasNak' => HasNak
      BY <1>7, NcpSaysNak
    <3> QED BY <2>4, <3>1
  <2>11. PledgeKept'
    <3>1. Pledge(executed', Completed', OnLine(toNcp') \cup TagsOf(ncpTodo'))
      BY <1>1, <2>4, <2>5, <2>9 DEF Pledge
    <3>2. wait_rsp' /\ Len(executed') = Completed' + 1
      BY <1>1, <2>4, <2>9
    <3> QED BY <2>10, <3>1, <3>2 DEF PledgeKept
  <2>12. Promise!Execute
    BY <1>1, <2>6, <2>7, <2>8 DEF Promise!Execute
  <2> QED BY <2>11, <2>12 DEF Goal, Promise!Next
<1>8. CASE (\E c \in Callbacks : NcpCallsBack(c)) /\ ~NcpReceives
  <2>1. PICK c \in Callbacks : NcpCallsBack(c)
    BY <1>8
  <2> DEFINE e == [tag |-> 0, cmd |-> c]
             f == Data(ncpTx, ncpRx, e)
  <2>2. e \in Entries /\ e.cmd \in Callbacks
    BY DEF Entries, EzspCmds
  <2>3. UNCHANGED <<toNcp, ncpTodo, executed>> /\ toHost' = Append(toHost, f)
    BY <2>1 DEF NcpCallsBack, SendsData
  <2> HIDE DEF e
  <2>4. f \in NcpFrames /\ f.entry = e
    <3>1. f \in NcpFrames
      BY <1>0, <2>2, HostFrameFacts
    <3> QED BY <3>1 DEF Data
  <2>5. HasNak' => HasNak
    BY <1>8, NcpSaysNak
  <2> HIDE DEF f
  <2>6. InQueue(ResponseFrames, toHost') => InQueue(ResponseFrames, toHost)
    BY <1>3, <2>2, <2>3, <2>4
  <2> QED BY <1>2, <2>3, <2>5, <2>6
<1>9. CASE NcpResets /\ ~NcpReceives
  <2>1. PICK b \in BOOLEAN : StartAsh(b)
    BY <1>9 DEF NcpResets
  <2>2. /\ ncpTodo' = <<>> /\ UNCHANGED <<toNcp, executed>>
        /\ toHost' = Append(toHost, [type |-> "RSTACK", good |-> b])
    BY <1>9, <2>1 DEF NcpResets, StartAsh
  <2>3. HasNak' => HasNak
    BY <1>9, NcpSaysNak
  <2>4. InQueue(ResponseFrames, toHost') => InQueue(ResponseFrames, toHost)
    BY <1>3, <1>4, <2>2
  <2>5. OnLine(toNcp') \cup TagsOf(ncpTodo') \subseteq OnLine(toNcp) \cup TagsOf(ncpTodo)
    BY <1>5, <2>2
  <2> QED BY <1>2, <2>2, <2>3, <2>4, <2>5
<1>10. CASE LineDegrades \/ LineRecovers
  <2>1. UNCHANGED <<toNcp, toHost, ncpTodo, executed>>
    BY <1>10 DEF LineDegrades, LineRecovers, wireVars, adapterVars
  <2>2. HasNak' => HasNak
    BY <2>1 DEF HasNak
  <2> QED BY <1>2, <2>1, <2>2
<1> QED BY <1>6, <1>7, <1>8, <1>9, <1>10 DEF NcpNext

(* A step in which nothing is disturbed is one of the promise, or none of it. *)
LEMMA NextPromise ==
  ASSUME TypeOK, FrontIsLastSent, FlakyInv, QueueInv, CleanInv, OneInv, PromiseInv, [Next]_vars
  PROVE  PromiseInv' /\ (Undisturbed' => [Promise!Next]_(Promise!vars))
<1> SUFFICES ASSUME Undisturbed' PROVE PledgeKept' /\ [Promise!Next]_(Promise!vars)
  BY DEF PromiseInv
<1>1. /\ Undisturbed /\ Clean /\ "retransmit" \notin Happened /\ ~flaky
      /\ ~NoiseToNcp /\ ~NoiseToHost /\ ~NcpRetransmits
  BY CleanStep, FaultsGrow, FaultHappens DEF Undisturbed, NoiseToNcp, NoiseToHost, NcpRetransmits
<1>2. AwayInv /\ ModeInv /\ PledgeKept
  BY <1>1 DEF CleanInv, PromiseInv
<1>3. PICK where \in Places :
        UnderWay(where, toNcp, ncpTodo, toHost, pending) /\ (where # "none" => wait_rsp)
  BY <1>1 DEF OneInv
<1>4. CASE UserNext \/ HostNext
  BY <1>1, <1>2, <1>3, <1>4, HostPromise
<1>5. CASE NcpNext /\ UNCHANGED hostVars
  BY <1>1, <1>2, <1>3, <1>5, NcpPromise
<1>6. CASE UNCHANGED vars
  <2>1. /\ UNCHANGED <<executed, sendingMsgQueue, issued, ncpTodo, toNcp, wait_rsp, toHost, pending>>
        /\ Completed' = Completed
    BY <1>6 DEF vars, hostVars, wireVars, queueVars, readVars, ncpOnlyVars, adapterVars, Completed
  <2>2. PledgeKept'
    BY <1>2, <2>1 DEF PledgeKept, HasNak, HasResponse
  <2> QED BY <2>1, <2>2 DEF Promise!vars
<1> QED BY <1>4, <1>5, <1>6 DEF Next

(* On a line where nothing is spoiled or torn, no answer to the start is     *)
(* later than the dongle waits for it, and the adapter retransmits nothing,  *)
(* the dongle implements CommandQueue: it accepts commands, the adapter      *)
(* executes each once, in that order, and none before the one ahead of it is *)
(* completed.  Resets by the user, restarts of the adapter and commands      *)
(* issued too early may happen.                                              *)
THEOREM ImplementsQueue == Spec /\ []Undisturbed => KeepsPromise
<1> DEFINE IInv == StartInv /\ FlakyInv /\ QueueInv /\ CleanInv /\ OneInv /\ PromiseInv
<1>1. Init => IInv /\ Promise!Init
  <2> SUFFICES ASSUME Init PROVE IInv /\ Promise!Init
    OBVIOUS
  <2>1. StartInv /\ FlakyInv /\ QueueInv /\ CleanInv /\ OneInv
    BY InitInv
  <2>2. /\ toNcp = <<>> /\ toHost = <<>> /\ pending = <<>> /\ ncpTodo = <<>>
        /\ executed = <<>> /\ sendingMsgQueue = <<>> /\ issued = 0
    BY DEF Init, NcpInit
  <2>3. Len(<<>>) = 0
    OBVIOUS
  <2>4. Completed = 0
    <3>1. issued = 0 /\ Len(sendingMsgQueue) = 0
      BY <2>2, <2>3, Zenon
    <3> QED BY <3>1 DEF Completed
  <2>5. OnLine(toNcp) = {} /\ TagsOf(ncpTodo) = {} /\ ~HasResponse
    BY <2>2, <2>3 DEF OnLine, DataAt, TagsOf, HasResponse, InQueue
  <2>6. PledgeKept
    BY <2>2, <2>3, <2>4, <2>5 DEF PledgeKept, Pledge
  <2>7. Promise!Init
    BY <2>2, <2>4 DEF Promise!Init
  <2> QED BY <2>1, <2>6, <2>7 DEF PromiseInv
<1>2. TypeOK /\ FrontIsLastSent /\ IInv /\ [Next]_vars => IInv'
  <2> SUFFICES ASSUME TypeOK, FrontIsLastSent, IInv, [Next]_vars PROVE IInv'
    OBVIOUS
  <2>1. StartInv' /\ FlakyInv' /\ QueueInv'
    BY NextStart, NextFlaky, NextQueue
  <2>2. CleanInv' /\ OneInv'
    BY NextClean, NextOne
  <2>3. PromiseInv'
    BY NextPromise
  <2> QED BY <2>1, <2>2, <2>3
<1>3. TypeOK /\ FrontIsLastSent /\ IInv /\ [Next]_vars /\ Undisturbed' => [Promise!Next]_(Promise!vars)
  BY NextPromise
<1> QED BY <1>1, <1>2, <1>3, TypeCorrect, FrontCorrect, PTL DEF Spec, KeepsPromise, Promise!Spec

(* So does a dongle on a line where these cannot happen.                     *)
THEOREM QuietLine ==
  Env \cap {"noise", "write", "slowBoot", "retransmit"} = {} => (Spec => KeepsPromise)
<1> SUFFICES ASSUME Env \cap {"noise", "write", "slowBoot", "retransmit"} = {}
             PROVE  Spec => KeepsPromise
  OBVIOUS
<1>1. Init => Happened \subseteq Env
  BY DEF Init, NcpInit, Happened
<1>2. TypeOK /\ Happened \subseteq Env /\ [Next]_vars => (Happened \subseteq Env)'
  <2> SUFFICES ASSUME TypeOK, Happened \subseteq Env, [Next]_vars,
                      NEW i \in 1 .. Len(faults')
               PROVE  faults'[i] \in Env
    BY DEF Happened
  <2>1. faults \in Seq(Misfortunes)
    BY DEF TypeOK, NcpTypeOK
  <2>2. \A j \in 1 .. Len(faults) : faults[j] \in Env
    BY DEF Happened
  <2>3. CASE faults' = faults
    BY <2>2, <2>3
  <2>4. ASSUME NEW k \in Env, faults' = Append(faults, k)
        PROVE  faults'[i] \in Env
    <3>1. k \in Misfortunes
      BY NcpAssumption
    <3>2. /\ Len(faults) \in Nat /\ Len(faults') = Len(faults) + 1
          /\ faults'[Len(faults) + 1] = k /\ \A j \in 1 .. Len(faults) : faults'[j] = faults[j]
      BY <2>1, <2>4, <3>1, SeqFacts
    <3>3. i \in 1 .. Len(faults) \/ i = Len(faults) + 1
      BY <3>2
    <3> QED BY <2>2, <3>2, <3>3
  <2> QED BY <2>3, <2>4, OneFault
<1>3. Happened \subseteq Env => Undisturbed
  BY DEF Undisturbed, Clean
<1> QED BY <1>1, <1>2, <1>3, TypeCorrect, ImplementsQueue, PTL DEF Spec

=============================================================================

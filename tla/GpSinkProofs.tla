---------------------------- MODULE GpSinkProofs ----------------------------
(***************************************************************************)
(* Theorems about GpSink, for every value of its constants: any devices,   *)
(* tables of any size, requests of any length, any mishaps.                *)
(***************************************************************************)
EXTENDS GpSink, TLAPS, Queues

-----------------------------------------------------------------------------
(* Whether a sequence of commands holds one of a kind.                       *)

LEMMA HasCmdConcat ==
  ASSUME NEW X, NEW s \in Seq(X), NEW Y, NEW t \in Seq(Y), NEW C, HasCmd(s, C) \/ HasCmd(t, C)
  PROVE  s \o t \in Seq(X \cup Y) /\ HasCmd(s \o t, C)
<1>1. s \in Seq(X \cup Y) /\ t \in Seq(X \cup Y)
  OBVIOUS
<1>2. s \o t \in Seq(X \cup Y) /\ Len(s \o t) = Len(s) + Len(t)
  BY <1>1
<1>3. CASE HasCmd(s, C)
  <2>1. PICK i \in 1 .. Len(s) : s[i].cmd \in C
    BY <1>3 DEF HasCmd
  <2>2. i \in 1 .. Len(s \o t) /\ (s \o t)[i] = s[i]
    BY <1>1, <1>2
  <2> QED BY <2>1, <2>2 DEF HasCmd
<1>4. CASE HasCmd(t, C)
  <2>1. PICK i \in 1 .. Len(t) : t[i].cmd \in C
    BY <1>4 DEF HasCmd
  <2>2. Len(s) + i \in 1 .. Len(s \o t) /\ (s \o t)[Len(s) + i] = t[i]
    BY <1>1, <1>2
  <2> QED BY <2>1, <2>2 DEF HasCmd
<1> QED BY <1>2, <1>3, <1>4

LEMMA HasCmdTail ==
  ASSUME NEW X, NEW s \in Seq(X), NEW C, s # <<>>, HasCmd(s, C), Head(s).cmd \notin C
  PROVE  HasCmd(Tail(s), C)
<1>1. PICK i \in 1 .. Len(s) : s[i].cmd \in C
  BY DEF HasCmd
<1>2. i # 1
  BY <1>1
<1>3. i - 1 \in 1 .. Len(Tail(s)) /\ Tail(s)[i - 1] = s[i]
  BY <1>2
<1> QED BY <1>1, <1>3 DEF HasCmd

LEMMA HasCmdSingle ==
  ASSUME NEW c, NEW C, c.cmd \in C
  PROVE  <<c>> \in Seq({c}) /\ HasCmd(<<c>>, C)
BY DEF HasCmd

LEMMA AppendConcat ==
  ASSUME NEW X, NEW s \in Seq(X), NEW c
  PROVE  Append(s, c) = s \o <<c>>
<1>1. s \in Seq(X \cup {c}) /\ <<c>> \in Seq(X \cup {c})
  OBVIOUS
<1> QED BY <1>1

-----------------------------------------------------------------------------
(* The vectors that the code empties from the back are not empty then.       *)

(* back() and pop_back() are never called on an empty vector                 *)
(* (green-power-sink.cpp:557 does not check), however many responses come.   *)
THEOREM NeverPopsEmpty == Spec => []ListsNotEmpty
<1>1. Init => ListsNotEmpty
  BY DEF Init, SinkInit, ListsNotEmpty
<1>2. ListsNotEmpty /\ [Next]_vars => ListsNotEmpty'
  <2> SUFFICES ASSUME ListsNotEmpty, [Next]_vars PROVE ListsNotEmpty'
    OBVIOUS
  <2> USE DEF ListsNotEmpty
  <2>1. CASE NetworkUp
    BY <2>1 DEF NetworkUp, SetSinkState
  <2>2. CASE UserRequests
    BY <2>2 DEF UserRequests, AddGPDevices, RemoveGPDevices, RequestRefused, ClearAllGPDevices,
                OpenCommissioningSession, CloseCommissioningSession, RequestAccepted,
                SetSinkState, listVars
  <2>3. ASSUME NEW d \in Devices, CommissioningFrame(d) PROVE ListsNotEmpty'
    BY <2>3 DEF CommissioningFrame, SetSinkState, listVars
  <2>4. CASE FindOrAllocateAnswered
    BY <2>4 DEF FindOrAllocateAnswered, GoesOn, Ends, SetSinkState, listVars
  <2>5. CASE GetEntryAnswered
    BY <2>5 DEF GetEntryAnswered, GoesOn, listVars
  <2>6. CASE SetEntryAnswered
    BY <2>6 DEF SetEntryAnswered, GoesOn, Ends, SetSinkState, listVars
  <2>7. CASE SinkLookupAnswered
    BY <2>7 DEF SinkLookupAnswered, GoesOn, listVars
  <2>8. CASE ProxyLookupAnswered
    BY <2>8 DEF ProxyLookupAnswered, GoesOn, Ends, SetSinkState
  <2>9. CASE ProxyGetEntryAnswered
    BY <2>9 DEF ProxyGetEntryAnswered, GoesOn, Ends, SetSinkState, listVars
  <2>10. CASE PairingAnswered
    BY <2>10 DEF PairingAnswered, RegistersNext, GoesOn, Ends, SetSinkState
  <2>11. CASE OtherAnswered
    BY <2>11 DEF OtherAnswered, GoesOn, listVars
  <2>12. CASE UNCHANGED vars
    BY <2>12 DEF vars, listVars
  <2> QED BY <2>1, <2>2, <2>3, <2>4, <2>5, <2>6, <2>7, <2>8, <2>9, <2>10, <2>11, <2>12
          DEF Next, HandleEzspRxMessage
<1> QED BY <1>1, <1>2, PTL DEF Spec

-----------------------------------------------------------------------------
(* The library is READY only when no request is in progress in the sink, and *)
(* busy only when one is, unless a request was refused: the inductive step   *)
(* needs that the sink only ever becomes ready through the callback, and     *)
(* that a refusal is not forgotten.                                          *)
THEOREM LibAgreesWithSink == Spec => []LibFollowsSink
<1>1. Init => LibFollowsSink
  BY DEF Init, SinkInit, LibFollowsSink, Requested
<1>2. LibFollowsSink /\ [Next]_vars => LibFollowsSink'
  <2> SUFFICES ASSUME LibFollowsSink, [Next]_vars PROVE LibFollowsSink'
    OBVIOUS
  <2> USE DEF LibFollowsSink, Requested, Happens
  <2>1. ASSUME NEW cmds, Ends(cmds) PROVE LibFollowsSink'
    BY <2>1 DEF Ends, SetSinkState
  <2>2. ASSUME NEW cmds, GoesOn(cmds), mishaps \subseteq mishaps' PROVE LibFollowsSink'
    BY <2>2 DEF GoesOn
  <2>3. CASE NetworkUp
    BY <2>3 DEF NetworkUp, SetSinkState
  <2>4. ASSUME NEW state \in Requested, NEW first, RequestAccepted(state, first)
        PROVE  LibFollowsSink'
    BY <2>4 DEF RequestAccepted, SetSinkState
  <2>5. CASE UserRequests
    <3>1. ASSUME NEW list, RequestRefused(list) PROVE LibFollowsSink'
      BY <3>1 DEF RequestRefused
    <3>2. CASE OpenCommissioningSession
      BY <3>2 DEF OpenCommissioningSession, SetSinkState
    <3>3. CASE CloseCommissioningSession
      BY <3>3 DEF CloseCommissioningSession, SetSinkState
    <3> QED BY <2>4, <2>5, <3>1, <3>2, <3>3
            DEF UserRequests, AddGPDevices, RemoveGPDevices, ClearAllGPDevices
  <2>6. ASSUME NEW d \in Devices, CommissioningFrame(d) PROVE LibFollowsSink'
    BY <2>6 DEF CommissioningFrame, Begins, SetSinkState
  <2>7. CASE FindOrAllocateAnswered
    BY <2>1, <2>2, <2>7 DEF FindOrAllocateAnswered
  <2>8. CASE GetEntryAnswered
    BY <2>2, <2>8 DEF GetEntryAnswered
  <2>9. CASE SetEntryAnswered
    BY <2>1, <2>2, <2>9 DEF SetEntryAnswered
  <2>10. CASE SinkLookupAnswered
    BY <2>2, <2>10 DEF SinkLookupAnswered
  <2>11. CASE ProxyLookupAnswered
    BY <2>1, <2>2, <2>11 DEF ProxyLookupAnswered
  <2>12. CASE ProxyGetEntryAnswered
    BY <2>1, <2>2, <2>12 DEF ProxyGetEntryAnswered
  <2>13. CASE PairingAnswered
    <3>1. mishaps \subseteq mishaps'
      BY <2>13 DEF PairingAnswered, PairingExecuted
    <3> QED BY <2>1, <2>2, <2>13, <3>1 DEF PairingAnswered, RegistersNext
  <2>14. CASE OtherAnswered
    BY <2>2, <2>14 DEF OtherAnswered
  <2>15. CASE UNCHANGED vars
    BY <2>15 DEF vars, historyVars
  <2> QED BY <2>3, <2>5, <2>6, <2>7, <2>8, <2>9, <2>10, <2>11, <2>12, <2>13, <2>14, <2>15
          DEF Next, HandleEzspRxMessage
<1> QED BY <1>1, <1>2, PTL DEF Spec

-----------------------------------------------------------------------------
(* Types.                                                                    *)

LEMMA CommandFacts ==
  /\ \A c \in OtherCmds \cup {"SINK_CLEAR_ALL"} : Cmd(c) \in EzspCommands
  /\ \A c \in DeviceCmds, d \in Content : DeviceCmd(c, d) \in EzspCommands
  /\ \A c \in IndexCmds, i \in Indices : IndexCmd(c, i) \in EzspCommands
  /\ \A i \in Indices, d \in Content : SetEntry(i, d) \in EzspCommands
BY DEF Cmd, DeviceCmd, IndexCmd, SetEntry, EzspCommands

(* What the fields of a command are, by its name.                            *)
LEMMA FieldFacts ==
  ASSUME NEW c \in EzspCommands
  PROVE  /\ c.cmd \in DeviceCmds \cup {"SINK_SET_ENTRY"} => c.device \in Content
         /\ c.cmd \in IndexCmds => c.index \in Indices
BY DEF EzspCommands, OtherCmds, DeviceCmds, IndexCmds

(* What is found in a table is one of its entries, and 0xFF is none.         *)
LEMMA FindFacts ==
  ASSUME NEW size \in 1 .. 255, NEW table \in [0 .. size - 1 -> Content], NEW d
  PROVE  /\ Find(table, d) \in Indices
         /\ Find(table, d) # NoIndex => Find(table, d) \in DOMAIN table /\ table[Find(table, d)] = d
<1>1. CASE d \in {table[i] : i \in DOMAIN table}
  <2>1. \E i \in DOMAIN table : table[i] = d
    BY <1>1
  <2>2. PICK i \in DOMAIN table : i = (CHOOSE j \in DOMAIN table : table[j] = d) /\ table[i] = d
    BY <2>1, Zenon
  <2>3. Find(table, d) = i
    BY <1>1, <2>2 DEF Find
  <2>4. i \in 0 .. 255
    <3>1. DOMAIN table = 0 .. size - 1
      OBVIOUS
    <3>2. i \in 0 .. size - 1
      BY <3>1
    <3>3. ASSUME NEW n \in 1 .. 255, NEW k \in 0 .. n - 1 PROVE k \in 0 .. 255
      OBVIOUS
    <3> QED BY <3>2, <3>3
  <2>5. Find(table, d) \in Indices
    BY <2>3, <2>4 DEF Indices, NoIndex
  <2> QED BY <2>2, <2>3, <2>5
<1>2. CASE d \notin {table[i] : i \in DOMAIN table}
  BY <1>2 DEF Find, Indices, NoIndex
<1> QED BY <1>1, <1>2

LEMMA HeadTailFacts ==
  ASSUME NEW S, NEW s \in Seq(S), s # <<>>
  PROVE  Head(s) \in S /\ Tail(s) \in Seq(S)
OBVIOUS

(* A list of devices has the type of the vectors of CGpSink.                 *)
LEMMA ListFacts ==
  ASSUME NEW list \in Lists(MaxList)
  PROVE  list \in Seq(Devices) /\ {list[i] : i \in 1 .. Len(list)} \subseteq Devices
<1>1. PICK k \in 0 .. MaxList : list \in [1 .. k -> Devices]
  BY DEF Lists
<1>2. k \in Nat
  BY SinkAssumption
<1>3. list \in Seq(Devices)
  BY <1>1, <1>2
<1> QED BY <1>3

LEMMA TypeInit == Init => TypeOK
<1> SUFFICES ASSUME Init PROVE TypeOK
  OBVIOUS
<1>1. PICK known \in Lists(MaxList) :
        sinkTable = Filled(SinkSize, known) /\ proxyTable = Filled(ProxySize, known)
  BY DEF Init, SinkInit
<1>2. known \in Seq(Devices)
  BY <1>1, ListFacts
<1>3. ASSUME NEW size \in Nat PROVE Filled(size, known) \in [0 .. size - 1 -> Content]
  BY <1>2 DEF Filled, Content
<1>4. sinkTable \in [0 .. SinkSize - 1 -> Content] /\ proxyTable \in [0 .. ProxySize - 1 -> Content]
  <2>1. SinkSize \in Nat /\ ProxySize \in Nat
    BY SinkAssumption
  <2> HIDE DEF Filled
  <2> QED BY <1>1, <1>3, <2>1
<1> QED BY <1>4 DEF Init, SinkInit, TypeOK, LibStates, SinkStates, Indices, NoIndex, Content, Ops

(* The lists and tables of an operation that begins.                         *)
LEMMA BeginsType ==
  ASSUME TypeOK, NEW op \in {"none", "add", "remove", "clear", "commission"},
         NEW devices \in SUBSET Devices, NEW M, Begins(op, devices, M)
  PROVE  lastOp' \in Ops /\ mishaps' \in SUBSET Mishaps /\ ops' \in Nat
BY SinkAssumption DEF TypeOK, Begins, Happens, Ops

LEMMA SetSinkStateType ==
  ASSUME NEW s \in SinkStates, NEW lib \in LibStates, SetSinkState(s, lib)
  PROVE  sink_state' \in SinkStates /\ lib_state' \in LibStates
BY DEF SetSinkState, LibStates

LEMMA SendsType ==
  ASSUME TypeOK, NEW C, Answered(C), NEW cmds \in Seq(EzspCommands), GoesOn(cmds) \/ Ends(cmds)
  PROVE  /\ commands' \in Seq(EzspCommands)
         /\ sink_state' \in SinkStates /\ lib_state' \in LibStates
         /\ Head(commands) \in EzspCommands
         /\ UNCHANGED <<lastOp, ops>>
<1>1. commands \in Seq(EzspCommands) /\ commands # <<>>
  BY DEF TypeOK, Answered
<1>2. Head(commands) \in EzspCommands /\ Tail(commands) \in Seq(EzspCommands)
  BY <1>1, HeadTailFacts
<1>3. Sends(cmds)
  BY DEF GoesOn, Ends
<1>4. commands' \in Seq(EzspCommands)
  BY <1>2, <1>3 DEF Sends
<1>5. sink_state' \in SinkStates /\ lib_state' \in LibStates
  BY SetSinkStateType DEF TypeOK, GoesOn, Ends, SinkStates
<1> QED BY <1>2, <1>4, <1>5 DEF Answered

LEMMA EmptyAndSingle ==
  /\ <<>> \in Seq(EzspCommands)
  /\ \A c \in EzspCommands : <<c>> \in Seq(EzspCommands)
OBVIOUS

LEMMA NetworkUpType ==
  ASSUME TypeOK, NetworkUp PROVE TypeOK'
<1>1. /\ lastOp' \in Ops /\ mishaps' \in SUBSET Mishaps /\ ops' \in Nat
  BY BeginsType DEF NetworkUp
<1>2. sink_state' \in SinkStates /\ lib_state' \in LibStates
  BY SetSinkStateType DEF NetworkUp, SinkStates, LibStates
<1>3. commands' \in Seq(EzspCommands)
  BY CommandFacts DEF NetworkUp, TypeOK, OtherCmds
<1> QED BY <1>1, <1>2, <1>3 DEF NetworkUp, TypeOK, listVars, entryVars, tableVars

LEMMA RequestAcceptedType ==
  ASSUME TypeOK, NEW state \in Requested, NEW first \in Seq(EzspCommands),
         RequestAccepted(state, first)
  PROVE  /\ sink_state' \in SinkStates /\ lib_state' \in LibStates
         /\ commands' \in Seq(EzspCommands)
<1>1. sink_state' \in SinkStates /\ lib_state' \in LibStates
  BY SetSinkStateType DEF RequestAccepted, SinkStates, LibStates
<1> QED BY <1>1 DEF RequestAccepted, TypeOK

LEMMA UserRequestsType ==
  ASSUME TypeOK, UserRequests PROVE TypeOK'
<1>1. ASSUME NEW list \in Lists(MaxList), AddGPDevices(list) PROVE TypeOK'
  <2>1. list \in Seq(Devices) /\ {list[i] : i \in 1 .. Len(list)} \in SUBSET Devices
    BY ListFacts
  <2>2. Head(list) \in Content
    BY <1>1, <2>1, HeadTailFacts DEF AddGPDevices, Content
  <2>3. <<DeviceCmd("FIND_OR_ALLOCATE_ENTRY", Head(list))>> \in Seq(EzspCommands)
    BY <2>2, CommandFacts, EmptyAndSingle DEF DeviceCmds
  <2>4. lastOp' \in Ops /\ mishaps' \in SUBSET Mishaps /\ ops' \in Nat
    BY <1>1, <2>1, BeginsType DEF AddGPDevices
  <2>5. /\ sink_state' \in SinkStates /\ lib_state' \in LibStates
        /\ commands' \in Seq(EzspCommands)
    BY <1>1, <2>3, RequestAcceptedType DEF AddGPDevices, Requested
  <2> QED BY <1>1, <2>1, <2>4, <2>5 DEF AddGPDevices, RequestAccepted, TypeOK, entryVars, tableVars
<1>2. ASSUME NEW list \in Lists(MaxList), RemoveGPDevices(list) PROVE TypeOK'
  <2>1. list \in Seq(Devices) /\ {list[i] : i \in 1 .. Len(list)} \in SUBSET Devices
    BY ListFacts
  <2>2. Head(list) \in Content
    BY <1>2, <2>1, HeadTailFacts DEF RemoveGPDevices, Content
  <2>3. <<DeviceCmd("SINK_LOOKUP", Head(list))>> \in Seq(EzspCommands)
    BY <2>2, CommandFacts, EmptyAndSingle DEF DeviceCmds
  <2>4. lastOp' \in Ops /\ mishaps' \in SUBSET Mishaps /\ ops' \in Nat
    BY <1>2, <2>1, BeginsType DEF RemoveGPDevices
  <2>5. /\ sink_state' \in SinkStates /\ lib_state' \in LibStates
        /\ commands' \in Seq(EzspCommands)
    BY <1>2, <2>3, RequestAcceptedType DEF RemoveGPDevices, Requested
  <2> QED BY <1>2, <2>1, <2>4, <2>5
          DEF RemoveGPDevices, RequestAccepted, TypeOK, entryVars, tableVars
<1>3. CASE ClearAllGPDevices
  <2>1. <<Cmd("SINK_CLEAR_ALL"), IndexCmd("PROXY_GET_ENTRY", 0)>> \in Seq(EzspCommands)
    BY CommandFacts DEF IndexCmds, Indices, NoIndex
  <2>2. lastOp' \in Ops /\ mishaps' \in SUBSET Mishaps /\ ops' \in Nat
    BY <1>3, BeginsType DEF ClearAllGPDevices
  <2>3. /\ sink_state' \in SinkStates /\ lib_state' \in LibStates
        /\ commands' \in Seq(EzspCommands)
    BY <1>3, <2>1, RequestAcceptedType DEF ClearAllGPDevices, Requested
  <2> QED BY <1>3, <2>2, <2>3
          DEF ClearAllGPDevices, RequestAccepted, TypeOK, listVars, entryVars, tableVars
<1>4. ASSUME NEW list, RequestRefused(list) PROVE TypeOK'
  BY <1>4, SinkAssumption
  DEF RequestRefused, Happens, TypeOK, LibStates, listVars, entryVars, tableVars
<1>5. ASSUME NEW s \in {"SINK_COM_OPEN", "SINK_READY"}, SetSinkState(s, lib_state),
             Begins("none", {}, {}), commands' = Append(commands, Cmd("SEND_UNICAST")),
             UNCHANGED <<listVars, entryVars, proxy_table_index, tableVars>>
      PROVE  TypeOK'
  <2>1. lastOp' \in Ops /\ mishaps' \in SUBSET Mishaps /\ ops' \in Nat
    BY <1>5, BeginsType
  <2>2. sink_state' \in SinkStates /\ lib_state' \in LibStates
    BY <1>5, SetSinkStateType DEF SinkStates, Commissioning, TypeOK
  <2>3. commands' \in Seq(EzspCommands)
    BY <1>5, CommandFacts DEF TypeOK, OtherCmds
  <2> QED BY <1>5, <2>1, <2>2, <2>3 DEF TypeOK, listVars, entryVars, tableVars
<1>6. OpenCommissioningSession => TypeOK'
  BY <1>5 DEF OpenCommissioningSession
<1>7. CloseCommissioningSession => TypeOK'
  BY <1>5 DEF CloseCommissioningSession
<1> QED BY <1>1, <1>2, <1>3, <1>4, <1>6, <1>7 DEF UserRequests

LEMMA CommissioningFrameType ==
  ASSUME TypeOK, NEW d \in Devices, CommissioningFrame(d) PROVE TypeOK'
<1>1. lastOp' \in Ops /\ mishaps' \in SUBSET Mishaps /\ ops' \in Nat
  BY BeginsType DEF CommissioningFrame
<1>2. sink_state' \in SinkStates /\ lib_state' \in LibStates
  BY SetSinkStateType DEF CommissioningFrame, SinkStates, Commissioning, TypeOK
<1>3. d \in Content
  BY DEF Content
<1>4. commands' \in Seq(EzspCommands)
  BY <1>3, CommandFacts DEF CommissioningFrame, TypeOK, DeviceCmds
<1> QED BY <1>1, <1>2, <1>3, <1>4 DEF CommissioningFrame, TypeOK, listVars, tableVars

(* The handlers of responses.                                                *)
LEMMA TableHandlersType ==
  ASSUME TypeOK, ListsNotEmpty
  PROVE  /\ FindOrAllocateAnswered => TypeOK'
         /\ GetEntryAnswered => TypeOK'
         /\ SetEntryAnswered => TypeOK'
         /\ OtherAnswered => TypeOK'
<1>1. ASSUME FindOrAllocateAnswered PROVE TypeOK'
  <2> DEFINE i == FindOrAllocate(Head(commands).device)
  <2>1. i \in Indices
    BY SinkAssumption, FindFacts DEF FindOrAllocate, TypeOK
  <2>2. <<>> \in Seq(EzspCommands) /\ <<IndexCmd("SINK_GET_ENTRY", i)>> \in Seq(EzspCommands)
    BY <2>1, CommandFacts, EmptyAndSingle DEF IndexCmds
  <2>3. /\ commands' \in Seq(EzspCommands) /\ sink_state' \in SinkStates
        /\ lib_state' \in LibStates /\ UNCHANGED <<lastOp, ops>>
    BY <1>1, <2>2, SendsType DEF FindOrAllocateAnswered
  <2>4. sink_table_index' \in Indices /\ mishaps' \in SUBSET Mishaps
    BY <1>1, <2>1, SinkAssumption DEF FindOrAllocateAnswered, TypeOK, Happens
  <2> QED BY <1>1, <2>3, <2>4 DEF FindOrAllocateAnswered, TypeOK, listVars, tableVars
<1>2. ASSUME GetEntryAnswered PROVE TypeOK'
  <2>1. sink_state = "SINK_COM_OFFLINE_IN_PROGRESS" => Head(gpds_to_register) \in Content
    BY HeadTailFacts DEF TypeOK, ListsNotEmpty, Content
  <2>2. \A d \in Content : <<SetEntry(sink_table_index, d)>> \in Seq(EzspCommands)
    BY CommandFacts, EmptyAndSingle DEF TypeOK
  <2>3. /\ commands' \in Seq(EzspCommands) /\ sink_state' \in SinkStates
        /\ lib_state' \in LibStates /\ UNCHANGED <<lastOp, ops>>
    BY <1>2, <2>1, <2>2, EmptyAndSingle, SendsType DEF GetEntryAnswered, TypeOK
  <2>4. sink_table_entry' \in Content
    BY <1>2, <2>1 DEF GetEntryAnswered, TypeOK
  <2> QED BY <1>2, <2>3, <2>4 DEF GetEntryAnswered, TypeOK, listVars, tableVars
<1>3. ASSUME SetEntryAnswered PROVE TypeOK'
  <2>1. <<DeviceCmd("ADD_PAIRING", sink_table_entry)>> \in Seq(EzspCommands)
    BY CommandFacts, EmptyAndSingle DEF TypeOK, DeviceCmds
  <2>2. /\ commands' \in Seq(EzspCommands) /\ sink_state' \in SinkStates
        /\ lib_state' \in LibStates /\ UNCHANGED <<lastOp, ops>>
        /\ Head(commands) \in EzspCommands
    BY <1>3, <2>1, EmptyAndSingle, SendsType DEF SetEntryAnswered
  <2>3. Head(commands).device \in Content
    BY <1>3, <2>2, FieldFacts DEF SetEntryAnswered, Answered
  <2>4. sinkTable' \in [0 .. SinkSize - 1 -> Content] /\ mishaps' \in SUBSET Mishaps
    <3>1. \/ UNCHANGED sinkTable
          \/ sinkTable' = [sinkTable EXCEPT ![Head(commands).index] = Head(commands).device]
      BY <1>3 DEF SetEntryAnswered
    <3>2. UNCHANGED mishaps \/ Happens({"setFails"})
      BY <1>3 DEF SetEntryAnswered
    <3>3. mishaps' \in SUBSET Mishaps
      BY <3>2, SinkAssumption DEF TypeOK, Happens
    <3> QED BY <2>3, <3>1, <3>3 DEF TypeOK
  <2> QED BY <1>3, <2>2, <2>4 DEF SetEntryAnswered, TypeOK, listVars, entryVars
<1>4. ASSUME OtherAnswered PROVE TypeOK'
  <2>1. /\ commands' \in Seq(EzspCommands) /\ sink_state' \in SinkStates
        /\ lib_state' \in LibStates /\ UNCHANGED <<lastOp, ops>>
    BY <1>4, EmptyAndSingle, SendsType DEF OtherAnswered
  <2>2. sinkTable' \in [0 .. SinkSize - 1 -> Content]
    BY <1>4 DEF OtherAnswered, TypeOK, Unused, Content
  <2> QED BY <1>4, <2>1, <2>2 DEF OtherAnswered, TypeOK, listVars, entryVars
<1> QED BY <1>1, <1>2, <1>3, <1>4

LEMMA ListHandlersType ==
  ASSUME TypeOK, ListsNotEmpty
  PROVE  /\ SinkLookupAnswered => TypeOK'
         /\ ProxyLookupAnswered => TypeOK'
<1>1. sink_state = "SINK_REMOVE_IN_PROGRESS" =>
        Head(gpds_to_remove) \in Content /\ Tail(gpds_to_remove) \in Seq(Devices)
  BY HeadTailFacts DEF TypeOK, ListsNotEmpty, Content
<1>2. ASSUME SinkLookupAnswered PROVE TypeOK'
  <2> DEFINE i == Find(sinkTable, Head(commands).device)
             cmds == (IF i # NoIndex THEN <<IndexCmd("SINK_REMOVE_ENTRY", i)>> ELSE <<>>)
                     \o <<DeviceCmd("PROXY_LOOKUP", Head(gpds_to_remove))>>
  <2>1. i \in Indices
    BY SinkAssumption, FindFacts DEF TypeOK
  <2>2. sink_state = "SINK_REMOVE_IN_PROGRESS" => cmds \in Seq(EzspCommands)
    BY <1>1, <2>1, CommandFacts, EmptyAndSingle DEF IndexCmds, DeviceCmds
  <2>3. /\ commands' \in Seq(EzspCommands) /\ sink_state' \in SinkStates
        /\ lib_state' \in LibStates /\ UNCHANGED <<lastOp, ops>>
    BY <1>2, <2>2, EmptyAndSingle, SendsType DEF SinkLookupAnswered
  <2> QED BY <1>2, <2>3 DEF SinkLookupAnswered, TypeOK, listVars, entryVars, tableVars
<1>3. ASSUME ProxyLookupAnswered PROVE TypeOK'
  <2> DEFINE unpair == IF Find(proxyTable, Head(commands).device) # NoIndex
                       THEN <<DeviceCmd("REMOVE_PAIRING", Head(gpds_to_remove))>>
                       ELSE <<>>
             next == Append(unpair, DeviceCmd("SINK_LOOKUP", gpds_to_remove[2]))
  <2>1. sink_state = "SINK_REMOVE_IN_PROGRESS" => unpair \in Seq(EzspCommands)
    BY <1>1, CommandFacts, EmptyAndSingle DEF DeviceCmds
  <2>2. sink_state = "SINK_REMOVE_IN_PROGRESS" /\ Tail(gpds_to_remove) # <<>> =>
          gpds_to_remove[2] \in Content
    BY <1>1 DEF TypeOK, ListsNotEmpty, Content
  <2>3. sink_state = "SINK_REMOVE_IN_PROGRESS" /\ Tail(gpds_to_remove) # <<>> =>
          next \in Seq(EzspCommands)
    BY <2>1, <2>2, CommandFacts DEF DeviceCmds
  <2>4. /\ commands' \in Seq(EzspCommands) /\ sink_state' \in SinkStates
        /\ lib_state' \in LibStates /\ UNCHANGED <<lastOp, ops>>
    BY <1>3, <2>1, <2>3, EmptyAndSingle, SendsType DEF ProxyLookupAnswered
  <2>5. gpds_to_remove' \in Seq(Devices)
    BY <1>1, <1>3 DEF ProxyLookupAnswered, TypeOK
  <2> QED BY <1>3, <2>4, <2>5 DEF ProxyLookupAnswered, TypeOK, entryVars, tableVars
<1> QED BY <1>2, <1>3

LEMMA PairingHandlersType ==
  ASSUME TypeOK, ListsNotEmpty
  PROVE  /\ ProxyGetEntryAnswered => TypeOK'
         /\ PairingAnswered => TypeOK'
<1>1. ASSUME ProxyGetEntryAnswered PROVE TypeOK'
  <2>1. \A i \in DOMAIN proxyTable :
          <<DeviceCmd("REMOVE_PAIRING", proxyTable[i])>> \in Seq(EzspCommands)
    BY CommandFacts, EmptyAndSingle DEF TypeOK, DeviceCmds
  <2>2. /\ commands' \in Seq(EzspCommands) /\ sink_state' \in SinkStates
        /\ lib_state' \in LibStates /\ UNCHANGED <<lastOp, ops>>
    BY <1>1, <2>1, EmptyAndSingle, SendsType DEF ProxyGetEntryAnswered
  <2> QED BY <1>1, <2>2 DEF ProxyGetEntryAnswered, TypeOK, listVars, entryVars, tableVars
<1>2. ASSUME PairingAnswered PROVE TypeOK'
  <2>1. sink_state = "SINK_COM_OFFLINE_IN_PROGRESS" => Tail(gpds_to_register) \in Seq(Devices)
    BY HeadTailFacts DEF TypeOK, ListsNotEmpty
  <2>2. <<Cmd("SEND_UNICAST")>> \in Seq(EzspCommands)
    BY CommandFacts, EmptyAndSingle DEF OtherCmds
  <2>3. \A rest \in Seq(Devices) : rest # <<>> =>
          <<DeviceCmd("FIND_OR_ALLOCATE_ENTRY", Head(rest))>> \in Seq(EzspCommands)
    BY HeadTailFacts, CommandFacts, EmptyAndSingle DEF DeviceCmds, Content
  <2>4. (proxy_table_index + 1) % 256 \in Indices
    BY DEF TypeOK, Indices, NoIndex
  <2>5. <<IndexCmd("PROXY_GET_ENTRY", (proxy_table_index + 1) % 256)>> \in Seq(EzspCommands)
    BY <2>4, CommandFacts, EmptyAndSingle DEF IndexCmds
  <2>6. /\ commands' \in Seq(EzspCommands) /\ sink_state' \in SinkStates
        /\ lib_state' \in LibStates /\ UNCHANGED <<lastOp, ops>>
        /\ Head(commands) \in EzspCommands
    <3>1. CASE sink_state = "SINK_COM_IN_PROGRESS"
      BY <1>2, <2>2, <3>1, SendsType DEF PairingAnswered, Registering
    <3>2. CASE sink_state = "SINK_COM_OFFLINE_IN_PROGRESS"
      <4>1. RegistersNext(Tail(gpds_to_register)) /\ Answered(Pairings)
        BY <1>2, <3>2 DEF PairingAnswered, Registering
      <4>2. CASE Tail(gpds_to_register) = <<>>
        BY <4>1, <4>2, EmptyAndSingle, SendsType DEF RegistersNext
      <4>3. CASE Tail(gpds_to_register) # <<>>
        BY <2>1, <2>3, <3>2, <4>1, <4>3, SendsType DEF RegistersNext
      <4> QED BY <4>2, <4>3
    <3>3. CASE sink_state = "SINK_CLEAR_ALL"
      BY <1>2, <2>5, <3>3, SendsType DEF PairingAnswered, Registering
    <3>4. CASE sink_state \notin Registering \cup {"SINK_CLEAR_ALL"}
      BY <1>2, <3>4, EmptyAndSingle, SendsType DEF PairingAnswered, Registering
    <3> QED BY <3>1, <3>2, <3>3, <3>4 DEF Registering
  <2>7. Head(commands).device \in Content
    BY <1>2, <2>6, FieldFacts DEF PairingAnswered, Answered, Pairings, DeviceCmds
  <2>8. proxyTable' \in [0 .. ProxySize - 1 -> Content]
    BY <1>2, <2>7 DEF PairingAnswered, PairingExecuted, Paired, Unpaired, TypeOK, Content
  <2>9. mishaps' \in SUBSET Mishaps
    BY <1>2, SinkAssumption DEF PairingAnswered, PairingExecuted, Happens, TypeOK
  <2>10. gpds_to_register' \in Seq(Devices) /\ proxy_table_index' \in Indices
    BY <1>2, <2>1, <2>4 DEF PairingAnswered, TypeOK
  <2> QED BY <1>2, <2>6, <2>8, <2>9, <2>10 DEF PairingAnswered, TypeOK, entryVars
<1> QED BY <1>1, <1>2

(* Every variable keeps its type; the vectors only because they are not      *)
(* empty when the code takes their back.                                     *)
THEOREM SinkTypeCorrect == Spec => []TypeOK
<1>1. TypeOK /\ ListsNotEmpty /\ [Next]_vars => TypeOK'
  <2> SUFFICES ASSUME TypeOK, ListsNotEmpty, [Next]_vars PROVE TypeOK'
    OBVIOUS
  <2>1. CASE NetworkUp
    BY <2>1, NetworkUpType
  <2>2. CASE UserRequests
    BY <2>2, UserRequestsType
  <2>3. ASSUME NEW d \in Devices, CommissioningFrame(d) PROVE TypeOK'
    BY <2>3, CommissioningFrameType
  <2>4. CASE HandleEzspRxMessage
    BY <2>4, TableHandlersType, ListHandlersType, PairingHandlersType DEF HandleEzspRxMessage
  <2>5. CASE UNCHANGED vars
    BY <2>5 DEF TypeOK, vars, listVars, entryVars, tableVars, historyVars
  <2> QED BY <2>1, <2>2, <2>3, <2>4, <2>5 DEF Next
<1> QED BY <1>1, TypeInit, NeverPopsEmpty, PTL DEF Spec

-----------------------------------------------------------------------------
(* Something is under way.                                                   *)

RegisteringCmds == {"FIND_OR_ALLOCATE_ENTRY", "SINK_GET_ENTRY", "SINK_SET_ENTRY"} \cup Pairings
RemovingCmds == {"SINK_LOOKUP", "PROXY_LOOKUP"}
ClearingCmds == {"PROXY_GET_ENTRY"} \cup Pairings

(* A step that appends to the queue keeps what was under way.                *)
LEMMA AppendKeeps ==
  ASSUME TypeOK, SomethingUnderWay, NEW X, NEW cmds \in Seq(X), commands' = commands \o cmds,
         /\ sink_state' \in Registering => sink_state \in Registering \/ HasCmd(cmds, RegisteringCmds)
         /\ sink_state' = "SINK_REMOVE_IN_PROGRESS" =>
              sink_state = "SINK_REMOVE_IN_PROGRESS" \/ HasCmd(cmds, RemovingCmds)
         /\ sink_state' = "SINK_CLEAR_ALL" =>
              sink_state = "SINK_CLEAR_ALL" \/ HasCmd(cmds, ClearingCmds)
  PROVE  SomethingUnderWay'
<1>1. ASSUME NEW D, HasCmd(commands, D) \/ HasCmd(cmds, D) PROVE HasCmd(commands', D)
  BY <1>1, HasCmdConcat DEF TypeOK
<1> QED BY <1>1 DEF SomethingUnderWay, RegisteringCmds, RemovingCmds, ClearingCmds

(* So does a response, if its handler replaces what it took from the queue.  *)
LEMMA GoesOnKeeps ==
  ASSUME TypeOK, SomethingUnderWay, NEW C, Answered(C), NEW X, NEW cmds \in Seq(X), GoesOn(cmds),
         /\ sink_state \in Registering /\ Head(commands).cmd \in RegisteringCmds =>
              HasCmd(cmds, RegisteringCmds)
         /\ sink_state = "SINK_REMOVE_IN_PROGRESS" /\ Head(commands).cmd \in RemovingCmds =>
              HasCmd(cmds, RemovingCmds)
         /\ sink_state = "SINK_CLEAR_ALL" /\ Head(commands).cmd \in ClearingCmds =>
              HasCmd(cmds, ClearingCmds)
  PROVE  SomethingUnderWay'
<1>1. commands \in Seq(EzspCommands) /\ commands # <<>>
  BY DEF TypeOK, Answered
<1>2. Tail(commands) \in Seq(EzspCommands)
  BY <1>1, HeadTailFacts
<1>3. ASSUME NEW D, (HasCmd(commands, D) /\ Head(commands).cmd \notin D) \/ HasCmd(cmds, D)
      PROVE  HasCmd(commands', D)
  <2>1. HasCmd(Tail(commands), D) \/ HasCmd(cmds, D)
    BY <1>1, <1>3, HasCmdTail
  <2>2. HasCmd(Tail(commands) \o cmds, D)
    BY <1>2, <2>1, HasCmdConcat
  <2> QED BY <2>2 DEF GoesOn, Sends
<1> QED BY <1>3 DEF SomethingUnderWay, RegisteringCmds, RemovingCmds, ClearingCmds, GoesOn

(* And a response that ends the operation: nothing need be under way then.   *)
LEMMA EndsKeeps ==
  ASSUME NEW cmds, Ends(cmds) PROVE SomethingUnderWay'
BY DEF Ends, SetSinkState, SomethingUnderWay, Registering

LEMMA HandlersKeep ==
  ASSUME TypeOK, SomethingUnderWay, HandleEzspRxMessage PROVE SomethingUnderWay'
<1> USE DEF RegisteringCmds, RemovingCmds, ClearingCmds, Registering, Pairings
<1>1. ASSUME NEW C, Answered(C), GoesOn(<<>>),
             /\ sink_state \in Registering => C \cap RegisteringCmds = {}
             /\ sink_state = "SINK_REMOVE_IN_PROGRESS" => C \cap RemovingCmds = {}
             /\ sink_state = "SINK_CLEAR_ALL" => C \cap ClearingCmds = {}
      PROVE  SomethingUnderWay'
  <2>1. Head(commands).cmd \in C
    BY <1>1 DEF Answered
  <2>2. <<>> \in Seq({})
    OBVIOUS
  <2> QED BY <1>1, <2>1, <2>2, GoesOnKeeps
<1>2. ASSUME NEW C, Answered(C), NEW c, GoesOn(<<c>>),
             /\ sink_state \in Registering => c.cmd \in RegisteringCmds
             /\ sink_state = "SINK_REMOVE_IN_PROGRESS" => c.cmd \in RemovingCmds
             /\ sink_state = "SINK_CLEAR_ALL" => c.cmd \in ClearingCmds
      PROVE  SomethingUnderWay'
  <2>1. <<c>> \in Seq({c})
    OBVIOUS
  <2>2. \A D : c.cmd \in D => HasCmd(<<c>>, D)
    BY HasCmdSingle
  <2> QED BY <1>2, <2>1, <2>2, GoesOnKeeps
<1>3. CASE FindOrAllocateAnswered
  BY <1>1, <1>2, <1>3, EndsKeeps DEF FindOrAllocateAnswered, IndexCmd
<1>4. CASE GetEntryAnswered
  BY <1>1, <1>2, <1>4 DEF GetEntryAnswered, SetEntry
<1>5. CASE SetEntryAnswered
  BY <1>1, <1>2, <1>5, EndsKeeps DEF SetEntryAnswered, DeviceCmd
<1>6. CASE SinkLookupAnswered
  <2> DEFINE c == DeviceCmd("PROXY_LOOKUP", Head(gpds_to_remove))
             d == IndexCmd("SINK_REMOVE_ENTRY", Find(sinkTable, Head(commands).device))
  <2>1. CASE sink_state = "SINK_REMOVE_IN_PROGRESS"
    <3>1. PICK first \in {<<>>, <<d>>} : GoesOn(first \o <<c>>)
      BY <1>6, <2>1 DEF SinkLookupAnswered
    <3>2. first \in Seq({d}) /\ <<c>> \in Seq({c}) /\ HasCmd(<<c>>, RemovingCmds)
      <4>1. c.cmd \in RemovingCmds
        BY DEF DeviceCmd
      <4> HIDE DEF c, d, RemovingCmds
      <4>2. <<>> \in Seq({d}) /\ <<d>> \in Seq({d})
        OBVIOUS
      <4>3. first \in Seq({d})
        BY <3>1, <4>2
      <4>4. <<c>> \in Seq({c}) /\ HasCmd(<<c>>, RemovingCmds)
        BY <4>1, HasCmdSingle
      <4> QED BY <4>3, <4>4
    <3>3. first \o <<c>> \in Seq({d} \cup {c}) /\ HasCmd(first \o <<c>>, RemovingCmds)
      BY <3>2, HasCmdConcat
    <3> QED BY <1>6, <2>1, <3>1, <3>3, GoesOnKeeps DEF SinkLookupAnswered
  <2> QED BY <1>1, <1>6, <2>1 DEF SinkLookupAnswered
<1>7. CASE ProxyLookupAnswered
  <2> DEFINE c == DeviceCmd("SINK_LOOKUP", gpds_to_remove[2])
             d == DeviceCmd("REMOVE_PAIRING", Head(gpds_to_remove))
  <2>1. CASE sink_state = "SINK_REMOVE_IN_PROGRESS" /\ Tail(gpds_to_remove) # <<>>
    <3>1. PICK first \in {<<>>, <<d>>} : GoesOn(Append(first, c))
      BY <1>7, <2>1 DEF ProxyLookupAnswered
    <3>2. first \in Seq({d}) /\ <<c>> \in Seq({c}) /\ HasCmd(<<c>>, RemovingCmds)
      <4>1. c.cmd \in RemovingCmds
        BY DEF DeviceCmd
      <4> HIDE DEF c, d, RemovingCmds
      <4>2. <<>> \in Seq({d}) /\ <<d>> \in Seq({d})
        OBVIOUS
      <4>3. first \in Seq({d})
        BY <3>1, <4>2
      <4>4. <<c>> \in Seq({c}) /\ HasCmd(<<c>>, RemovingCmds)
        BY <4>1, HasCmdSingle
      <4> QED BY <4>3, <4>4
    <3>3. first \o <<c>> \in Seq({d} \cup {c}) /\ HasCmd(first \o <<c>>, RemovingCmds)
      BY <3>2, HasCmdConcat
    <3>4. GoesOn(first \o <<c>>)
      BY <3>1, <3>2, AppendConcat
    <3> QED BY <1>7, <2>1, <3>3, <3>4, GoesOnKeeps DEF ProxyLookupAnswered
  <2> QED BY <1>1, <1>7, <2>1, EndsKeeps DEF ProxyLookupAnswered
<1>8. CASE ProxyGetEntryAnswered
  BY <1>1, <1>2, <1>8, EndsKeeps DEF ProxyGetEntryAnswered, DeviceCmd
<1>9. CASE PairingAnswered
  BY <1>1, <1>2, <1>9, EndsKeeps DEF PairingAnswered, RegistersNext, DeviceCmd, IndexCmd
<1>10. CASE OtherAnswered
  BY <1>1, <1>10 DEF OtherAnswered, Answered, OtherCmds
<1> QED BY <1>3, <1>4, <1>5, <1>6, <1>7, <1>8, <1>9, <1>10 DEF HandleEzspRxMessage

(* While the sink is busy, a command is queued whose response moves it on:   *)
(* it never waits for nothing, even when chains of commands get mixed up.    *)
THEOREM NeverStuck == Spec => []SomethingUnderWay
<1>1. Init => SomethingUnderWay
  BY DEF Init, SinkInit, SomethingUnderWay, Registering
<1>2. TypeOK /\ SomethingUnderWay /\ [Next]_vars => SomethingUnderWay'
  <2> SUFFICES ASSUME TypeOK, SomethingUnderWay, [Next]_vars PROVE SomethingUnderWay'
    OBVIOUS
  <2> USE DEF Registering
  <2>1. CASE NetworkUp
    BY <2>1 DEF NetworkUp, SetSinkState, SomethingUnderWay
  <2>2. CASE UserRequests
    <3>1. ASSUME NEW list, AddGPDevices(list) PROVE SomethingUnderWay'
      <4> DEFINE c == DeviceCmd("FIND_OR_ALLOCATE_ENTRY", Head(list))
      <4>1. <<c>> \in Seq({c}) /\ HasCmd(<<c>>, RegisteringCmds)
        BY HasCmdSingle DEF DeviceCmd, RegisteringCmds
      <4> QED BY <3>1, <4>1, AppendKeeps DEF AddGPDevices, RequestAccepted, SetSinkState
    <3>2. ASSUME NEW list, RemoveGPDevices(list) PROVE SomethingUnderWay'
      <4> DEFINE c == DeviceCmd("SINK_LOOKUP", Head(list))
      <4>1. <<c>> \in Seq({c}) /\ HasCmd(<<c>>, RemovingCmds)
        BY HasCmdSingle DEF DeviceCmd, RemovingCmds
      <4> QED BY <3>2, <4>1, AppendKeeps DEF RemoveGPDevices, RequestAccepted, SetSinkState
    <3>3. CASE ClearAllGPDevices
      <4> DEFINE c == Cmd("SINK_CLEAR_ALL")
                 d == IndexCmd("PROXY_GET_ENTRY", 0)
      <4>1. <<c, d>> \in Seq({c, d}) /\ HasCmd(<<c, d>>, ClearingCmds)
        BY DEF HasCmd, IndexCmd, ClearingCmds
      <4> QED BY <3>3, <4>1, AppendKeeps DEF ClearAllGPDevices, RequestAccepted, SetSinkState
    <3>4. ASSUME NEW list, RequestRefused(list) PROVE SomethingUnderWay'
      BY <3>4 DEF RequestRefused, SomethingUnderWay
    <3>5. CASE OpenCommissioningSession \/ CloseCommissioningSession
      BY <3>5 DEF OpenCommissioningSession, CloseCommissioningSession, SetSinkState,
                  SomethingUnderWay
    <3> QED BY <2>2, <3>1, <3>2, <3>3, <3>4, <3>5 DEF UserRequests
  <2>3. ASSUME NEW d \in Devices, CommissioningFrame(d) PROVE SomethingUnderWay'
    <3> DEFINE c == DeviceCmd("FIND_OR_ALLOCATE_ENTRY", d)
    <3>1. <<c>> \in Seq({c}) /\ HasCmd(<<c>>, RegisteringCmds)
      BY HasCmdSingle DEF DeviceCmd, RegisteringCmds
    <3>2. commands' = commands \o <<c>> /\ sink_state' = "SINK_COM_IN_PROGRESS"
      BY <2>3, AppendConcat DEF CommissioningFrame, SetSinkState, TypeOK
    <3> QED BY <3>1, <3>2, AppendKeeps
  <2> HIDE DEF Registering
  <2>4. CASE HandleEzspRxMessage
    BY <2>4, HandlersKeep
  <2>5. CASE UNCHANGED vars
    BY <2>5 DEF SomethingUnderWay, vars
  <2> QED BY <2>1, <2>2, <2>3, <2>4, <2>5 DEF Next
<1> QED BY <1>1, <1>2, SinkTypeCorrect, PTL DEF Spec

-----------------------------------------------------------------------------
(* What the operations achieve.  As long as none begins before the commands  *)
(* of an earlier one were executed, the commands that concern devices form   *)
(* one chain: one of them is queued at a time, or two next to each other,    *)
(* and which ones, says how far the operation is.                            *)

Chained == {c \in EzspCommands : c.cmd \notin OtherCmds}
Idle == ~InQueue(Chained, commands)
Waits(c) == Alone(Chained, commands, c)
BothWait(c, d) == Pair(Chained, commands, c, d)

OneEntryIn(table) ==
  \A i, j \in DOMAIN table : table[i] = table[j] /\ table[i] # NoDevice => i = j

Elements(list) == {list[i] : i \in 1 .. Len(list)}
InBoth == Contents(sinkTable) \cap Contents(proxyTable)
Succeeds == mishaps \cap {"full", "setFails"} = {}
FirstClear == "secondClear" \notin mishaps

(* The device that is being registered, and all that are still to be.        *)
Current ==
  IF sink_state = "SINK_COM_IN_PROGRESS" THEN gpf_comm_frame ELSE Head(gpds_to_register)
ToRegister ==
  IF sink_state = "SINK_COM_IN_PROGRESS" THEN {gpf_comm_frame} ELSE Elements(gpds_to_register)

(* The entry i of the sink table is that of the device d, or will be.        *)
SlotFor(i, d) ==
  /\ i \in DOMAIN sinkTable
  /\ sinkTable[i] = d \/ (sinkTable[i] = NoDevice /\ d \notin Contents(sinkTable))

RegisterStage(d) ==
  \/ Waits(DeviceCmd("FIND_OR_ALLOCATE_ENTRY", d))
  \/ SlotFor(sink_table_index, d) /\ Waits(IndexCmd("SINK_GET_ENTRY", sink_table_index))
  \/ /\ SlotFor(sink_table_index, d) /\ sink_table_entry = d
     /\ Waits(SetEntry(sink_table_index, d))
  \/ d \in Contents(sinkTable) /\ sink_table_entry = d /\ Waits(DeviceCmd("ADD_PAIRING", d))

Registers ==
  /\ lastOp.op \in {"add", "commission"}
  /\ Current \in Devices
  /\ RegisterStage(Current)
  /\ Succeeds => lastOp.devices \subseteq ToRegister \cup InBoth

(* The devices of the operation that are in no table any more: all but those *)
(* still to be removed, and those whose pairing is about to be.              *)
RemovedBut(unpairs) ==
  /\ lastOp.devices \cap Contents(sinkTable) \subseteq Elements(gpds_to_remove)
  /\ lastOp.devices \cap Contents(proxyTable) \subseteq Elements(gpds_to_remove) \cup unpairs

RemoveStage(d) ==
  \/ RemovedBut({}) /\ Waits(DeviceCmd("SINK_LOOKUP", d))
  \/ \E e \in Devices :
       RemovedBut({e}) /\ BothWait(DeviceCmd("REMOVE_PAIRING", e), DeviceCmd("SINK_LOOKUP", d))
  \/ /\ RemovedBut({}) /\ d \notin Contents(sinkTable)
     /\ Waits(DeviceCmd("PROXY_LOOKUP", d))
  \/ \E i \in DOMAIN sinkTable :
       /\ RemovedBut({}) /\ sinkTable[i] = d
       /\ BothWait(IndexCmd("SINK_REMOVE_ENTRY", i), DeviceCmd("PROXY_LOOKUP", d))

Removes == lastOp.op = "remove" /\ RemoveStage(Head(gpds_to_remove))

FreeBelow(n) == \A i \in DOMAIN proxyTable : i < n => proxyTable[i] = NoDevice

ClearStage ==
  \/ /\ FirstClear => proxy_table_index = 0
     /\ BothWait(Cmd("SINK_CLEAR_ALL"), IndexCmd("PROXY_GET_ENTRY", 0))
  \/ /\ Contents(sinkTable) = {}
     /\ \E i \in Indices :
          /\ Waits(IndexCmd("PROXY_GET_ENTRY", i))
          /\ FirstClear => i = proxy_table_index /\ FreeBelow(i)
  \/ /\ Contents(sinkTable) = {}
     /\ \E d \in Content :
          /\ Waits(DeviceCmd("REMOVE_PAIRING", d))
          /\ FirstClear => /\ proxy_table_index \in DOMAIN proxyTable
                           /\ proxyTable[proxy_table_index] = d
                           /\ FreeBelow(proxy_table_index)

Clears == lastOp.op = "clear" /\ ClearStage

(* The sink is ready, with the last removal perhaps still to be executed.    *)
Achieved ==
  /\ lastOp.op \in {"add", "commission"} /\ Succeeds => lastOp.devices \subseteq InBoth
  /\ lastOp.op = "clear" => Contents(sinkTable) = {} /\ (FirstClear => Contents(proxyTable) = {})
  /\ lastOp.op = "remove" =>
       lastOp.devices \cap (Contents(sinkTable) \cup Contents(proxyTable)) = {}

Unpairs(d) ==
  /\ lastOp.op = "remove"
  /\ lastOp.devices \cap Contents(sinkTable) = {}
  /\ lastOp.devices \cap Contents(proxyTable) \subseteq {d}
  /\ Waits(DeviceCmd("REMOVE_PAIRING", d))

Rests == (Idle /\ Achieved) \/ \E d \in Devices : Unpairs(d)

Chain ==
  /\ OneEntryIn(sinkTable)
  /\ sink_state \in {"SINK_NOT_INIT", "SINK_COM_OPEN"} => Idle
  /\ sink_state = "SINK_READY" => Rests
  /\ sink_state \in Registering => Registers
  /\ sink_state = "SINK_REMOVE_IN_PROGRESS" => Removes
  /\ sink_state = "SINK_CLEAR_ALL" => Clears

ChainInv == "overlap" \notin mishaps => Chain

LEMMA ChainedFacts ==
  /\ \A c \in DeviceCmds, d \in Content : DeviceCmd(c, d) \in Chained
  /\ \A c \in IndexCmds, i \in Indices : IndexCmd(c, i) \in Chained
  /\ \A i \in Indices, d \in Content : SetEntry(i, d) \in Chained
  /\ Cmd("SINK_CLEAR_ALL") \in Chained
  /\ \A c \in OtherCmds : Cmd(c) \in EzspCommands \ Chained
<1>1. \A c \in DeviceCmds, d \in Content : DeviceCmd(c, d).cmd \notin OtherCmds
  BY DEF DeviceCmds, OtherCmds, DeviceCmd
<1>2. \A c \in IndexCmds, i \in Indices : IndexCmd(c, i).cmd \notin OtherCmds
  BY DEF IndexCmds, OtherCmds, IndexCmd
<1>3. \A i \in Indices, d \in Content : SetEntry(i, d).cmd \notin OtherCmds
  BY DEF SetEntry, OtherCmds
<1>4. Cmd("SINK_CLEAR_ALL").cmd \notin OtherCmds /\ \A c \in OtherCmds : Cmd(c).cmd \in OtherCmds
  BY DEF Cmd, OtherCmds
<1> QED BY <1>1, <1>2, <1>3, <1>4, CommandFacts DEF Chained

LEMMA LeftoverIsChained ==
  ASSUME TypeOK, ~Leftover PROVE Idle
<1>1. commands \in Seq(EzspCommands)
  BY DEF TypeOK
<1>2. \A c \in EzspCommands :
        c.cmd \in OtherCmds \cup DeviceCmds \cup IndexCmds \cup {"SINK_CLEAR_ALL", "SINK_SET_ENTRY"}
  BY DEF EzspCommands
<1>3. \A i \in 1 .. Len(commands) : commands[i] \in EzspCommands
  BY <1>1, SeqFacts
<1> QED BY <1>2, <1>3 DEF Leftover, HasCmd, Idle, InQueue, Chained

(* A response is handled: what is left of the chain, and what its handler    *)
(* adds to it.                                                               *)
LEMMA TakenFromChain ==
  ASSUME TypeOK, commands # <<>>, Head(commands) \in Chained
  PROVE  /\ ~Idle
         /\ \A x : Waits(x) => Head(commands) = x /\ ~InQueue(Chained, Tail(commands))
         /\ \A x, y : BothWait(x, y) => Head(commands) = x /\ Alone(Chained, Tail(commands), y)
<1>1. commands \in Seq(EzspCommands)
  BY DEF TypeOK
<1> QED BY <1>1, AtHead, TakenAlone, TakenFirst DEF Idle, Waits, BothWait

LEMMA ChainSends ==
  ASSUME TypeOK, commands # <<>>
  PROVE  /\ \A y : Alone(Chained, Tail(commands), y) /\ Sends(<<>>) => Waits(y)'
         /\ ~InQueue(Chained, Tail(commands)) =>
              /\ Sends(<<>>) => Idle'
              /\ \A c \in Chained : Sends(<<c>>) => Waits(c)'
              /\ \A c \in EzspCommands \ Chained : Sends(<<c>>) => Idle'
              /\ \A c, d \in Chained : Sends(<<c, d>>) => BothWait(c, d)'
<1> DEFINE t == Tail(commands)
<1>1. t \in Seq(EzspCommands)
  BY SeqFacts DEF TypeOK
<1>2. t \o <<>> = t /\ \A c \in EzspCommands : t \o <<c>> = Append(t, c)
  BY <1>1
<1>3. Chained \subseteq EzspCommands
  BY DEF Chained
<1> HIDE DEF t
<1>4. ASSUME ~InQueue(Chained, t), NEW c \in EzspCommands \ Chained
      PROVE  ~InQueue(Chained, Append(t, c))
  <2>1. /\ Len(t) \in Nat /\ Len(Append(t, c)) = Len(t) + 1
        /\ \A i \in 1 .. Len(t) : Append(t, c)[i] = t[i]
        /\ Append(t, c)[Len(t) + 1] = c
    BY <1>1, SeqFacts
  <2> QED BY <1>4, <2>1 DEF InQueue
<1>5. \A c \in Chained : ~InQueue(Chained, t) => Alone(Chained, Append(t, c), c)
  BY <1>1, <1>3, AloneAppend
<1>6. \A c, d \in Chained : ~InQueue(Chained, t) => Pair(Chained, t \o <<c, d>>, c, d)
  BY <1>1, <1>3, PairAppend
<1>7. \A u : Sends(u) => commands' = t \o u
  BY DEF Sends, t
<1>8. ASSUME NEW y, Alone(Chained, t, y), Sends(<<>>) PROVE Waits(y)'
  BY <1>2, <1>7, <1>8 DEF Waits
<1>9. ASSUME ~InQueue(Chained, t)
      PROVE  /\ Sends(<<>>) => Idle'
             /\ \A c \in EzspCommands \ Chained : Sends(<<c>>) => Idle'
  BY <1>2, <1>4, <1>7, <1>9 DEF Idle
<1>10. ASSUME ~InQueue(Chained, t), NEW c \in Chained, Sends(<<c>>) PROVE Waits(c)'
  <2>1. commands' = Append(t, c)
    BY <1>2, <1>3, <1>7, <1>10
  <2> QED BY <1>5, <1>10, <2>1 DEF Waits
<1>11. ASSUME ~InQueue(Chained, t), NEW c \in Chained, NEW d \in Chained, Sends(<<c, d>>)
       PROVE  BothWait(c, d)'
  <2>1. commands' = t \o <<c, d>>
    BY <1>7, <1>11
  <2> QED BY <1>6, <1>11, <2>1 DEF BothWait
<1> QED BY <1>8, <1>9, <1>10, <1>11 DEF t

(* An operation begins while nothing is left of the one before.              *)
LEMMA ChainBegins ==
  ASSUME TypeOK, Idle
  PROVE  /\ \A c \in Chained : commands' = commands \o <<c>> => Waits(c)'
         /\ \A c, d \in Chained : commands' = commands \o <<c, d>> => BothWait(c, d)'
         /\ \A c \in EzspCommands \ Chained : commands' = Append(commands, c) => Idle'
         /\ \A c, d \in EzspCommands \ Chained : commands' = commands \o <<c, d>> => Idle'
<1>1. commands \in Seq(EzspCommands)
  BY DEF TypeOK
<1>2. Chained \subseteq EzspCommands /\ ~InQueue(Chained, commands)
  BY DEF Chained, Idle
<1>3. \A c \in EzspCommands : commands \o <<c>> = Append(commands, c)
  BY <1>1
<1>4. \A c \in Chained : Alone(Chained, commands \o <<c>>, c)
  BY <1>1, <1>2, <1>3, AloneAppend
<1>5. \A c, d \in Chained : Pair(Chained, commands \o <<c, d>>, c, d)
  BY <1>1, <1>2, PairAppend
<1>6. ASSUME NEW c \in EzspCommands \ Chained PROVE ~InQueue(Chained, Append(commands, c))
  <2>1. SameOf(Chained, commands, Append(commands, c)) /\ Append(commands, c) \in Seq(EzspCommands)
    BY <1>1, SameOfAppend, SeqFacts
  <2> QED BY <1>1, <1>2, <2>1, SameKept
<1>7. ASSUME NEW c \in EzspCommands \ Chained, NEW d \in EzspCommands \ Chained
      PROVE  ~InQueue(Chained, commands \o <<c, d>>)
  <2>1. <<c, d>> \in Seq(EzspCommands) /\ \A i \in 1 .. Len(<<c, d>>) : <<c, d>>[i] \notin Chained
    OBVIOUS
  <2>2. commands \o <<c, d>> \in Seq(EzspCommands)
    BY <1>1, <2>1
  <2> QED BY <1>1, <1>2, <2>1, <2>2, SameOfLonger, SameKept
<1>8. \A c \in EzspCommands \ Chained : commands' = Append(commands, c) => Idle'
  BY <1>6 DEF Idle
<1>9. \A c, d \in EzspCommands \ Chained : commands' = commands \o <<c, d>> => Idle'
  BY <1>7 DEF Idle
<1> QED BY <1>4, <1>5, <1>8, <1>9 DEF Waits, BothWait

(* What the commands at the front of the queue say of the operation.         *)
LEMMA HeadTells ==
  ASSUME TypeOK, Chain, commands # <<>>, Head(commands) \in Chained
  PROVE  /\ sink_state \notin {"SINK_NOT_INIT", "SINK_COM_OPEN"}
         /\ sink_state = "SINK_READY" => Head(commands).cmd = "REMOVE_PAIRING"
         /\ sink_state \in Registering =>
              Head(commands).cmd \in {"FIND_OR_ALLOCATE_ENTRY", "SINK_GET_ENTRY", "SINK_SET_ENTRY",
                                      "ADD_PAIRING"}
         /\ sink_state = "SINK_REMOVE_IN_PROGRESS" =>
              Head(commands).cmd \in {"REMOVE_PAIRING", "SINK_LOOKUP", "SINK_REMOVE_ENTRY",
                                      "PROXY_LOOKUP"}
         /\ sink_state = "SINK_CLEAR_ALL" =>
              Head(commands).cmd \in {"SINK_CLEAR_ALL", "PROXY_GET_ENTRY", "REMOVE_PAIRING"}
<1> DEFINE h == Head(commands)
<1>1. ~Idle /\ (\A x : Waits(x) => h = x) /\ (\A x, y : BothWait(x, y) => h = x)
  BY TakenFromChain
<1>2. /\ \A c, d : DeviceCmd(c, d).cmd = c
      /\ \A c, i : IndexCmd(c, i).cmd = c
      /\ \A i, d : SetEntry(i, d).cmd = "SINK_SET_ENTRY"
      /\ Cmd("SINK_CLEAR_ALL").cmd = "SINK_CLEAR_ALL"
  BY DEF DeviceCmd, IndexCmd, SetEntry, Cmd
<1> HIDE DEF h
<1>3. sink_state \notin {"SINK_NOT_INIT", "SINK_COM_OPEN"}
  BY <1>1 DEF Chain
<1>4. ASSUME sink_state = "SINK_READY" PROVE h.cmd = "REMOVE_PAIRING"
  <2>1. PICK d \in Devices : Unpairs(d)
    BY <1>1, <1>4 DEF Chain, Rests
  <2> QED BY <1>1, <1>2, <2>1 DEF Unpairs
<1>5. ASSUME sink_state \in Registering
      PROVE  h.cmd \in {"FIND_OR_ALLOCATE_ENTRY", "SINK_GET_ENTRY", "SINK_SET_ENTRY", "ADD_PAIRING"}
  <2>1. RegisterStage(Current)
    BY <1>5 DEF Chain, Registers
  <2> QED BY <1>1, <1>2, <2>1 DEF RegisterStage
<1>6. ASSUME sink_state = "SINK_REMOVE_IN_PROGRESS"
      PROVE  h.cmd \in {"REMOVE_PAIRING", "SINK_LOOKUP", "SINK_REMOVE_ENTRY", "PROXY_LOOKUP"}
  <2>1. RemoveStage(Head(gpds_to_remove))
    BY <1>6 DEF Chain, Removes
  <2>2. (\E x : Waits(x) /\ x.cmd \in {"SINK_LOOKUP", "PROXY_LOOKUP"})
        \/ \E x, y : BothWait(x, y) /\ x.cmd \in {"REMOVE_PAIRING", "SINK_REMOVE_ENTRY"}
    <3> DEFINE d == Head(gpds_to_remove)
    <3>1. \/ Waits(DeviceCmd("SINK_LOOKUP", d)) \/ Waits(DeviceCmd("PROXY_LOOKUP", d))
          \/ \E e : BothWait(DeviceCmd("REMOVE_PAIRING", e), DeviceCmd("SINK_LOOKUP", d))
          \/ \E i : BothWait(IndexCmd("SINK_REMOVE_ENTRY", i), DeviceCmd("PROXY_LOOKUP", d))
      BY <2>1 DEF RemoveStage
    <3> QED BY <1>2, <3>1
  <2> QED BY <1>1, <2>2
<1>7. ASSUME sink_state = "SINK_CLEAR_ALL"
      PROVE  h.cmd \in {"SINK_CLEAR_ALL", "PROXY_GET_ENTRY", "REMOVE_PAIRING"}
  <2>1. ClearStage
    BY <1>7 DEF Chain, Clears
  <2> QED BY <1>1, <1>2, <2>1 DEF ClearStage
<1> QED BY <1>3, <1>4, <1>5, <1>6, <1>7 DEF h

-----------------------------------------------------------------------------
(* What the commands make of the tables.                                     *)

LEMMA ContentsFacts ==
  /\ \A table, d : d \in Contents(table) <=> d # NoDevice /\ \E i \in DOMAIN table : table[i] = d
BY DEF Contents

(* A device is written into its entry, or into one that is free.             *)
LEMMA WrittenFacts ==
  ASSUME NEW size \in 1 .. 255, NEW table \in [0 .. size - 1 -> Content], NEW d \in Devices,
         NEW i \in DOMAIN table, table[i] \in {d, NoDevice}
  PROVE  /\ Contents([table EXCEPT ![i] = d]) = Contents(table) \cup {d}
         /\ OneEntryIn(table) /\ (table[i] = NoDevice => d \notin Contents(table)) =>
              OneEntryIn([table EXCEPT ![i] = d])
<1> DEFINE new == [table EXCEPT ![i] = d]
<1>1. /\ DOMAIN new = DOMAIN table /\ new[i] = d /\ d # NoDevice
      /\ \A j \in DOMAIN table : j # i => new[j] = table[j]
  BY SinkAssumption
<1> HIDE DEF new
<1>2. Contents(new) = Contents(table) \cup {d}
  <2>1. ASSUME NEW x \in Contents(new) PROVE x \in Contents(table) \cup {d}
    <3>1. PICK j \in DOMAIN new : new[j] = x
      BY ContentsFacts
    <3>2. x # NoDevice
      BY ContentsFacts
    <3>3. CASE j = i
      BY <1>1, <3>1, <3>3
    <3>4. CASE j # i
      BY <1>1, <3>1, <3>2, <3>4, ContentsFacts
    <3> QED BY <3>3, <3>4
  <2>2. ASSUME NEW x \in Contents(table) PROVE x \in Contents(new)
    <3>1. PICK j \in DOMAIN table : table[j] = x
      BY ContentsFacts
    <3>2. x # NoDevice
      BY ContentsFacts
    <3>3. new[j] = x
      BY <1>1, <3>1, <3>2
    <3> QED BY <1>1, <3>2, <3>3, ContentsFacts
  <2>3. d \in Contents(new)
    BY <1>1, ContentsFacts
  <2> QED BY <2>1, <2>2, <2>3
<1>3. ASSUME OneEntryIn(table), table[i] = NoDevice => d \notin Contents(table),
             NEW j \in DOMAIN new, NEW k \in DOMAIN new, new[j] = new[k], new[j] # NoDevice
      PROVE  j = k
  <2>1. \A x \in DOMAIN table : table[x] = d => x = i
    BY <1>1, <1>3, ContentsFacts DEF OneEntryIn
  <2>2. CASE j = i \/ k = i
    BY <1>1, <1>3, <2>1, <2>2
  <2>3. CASE j # i /\ k # i
    BY <1>1, <1>3, <2>3 DEF OneEntryIn
  <2> QED BY <2>2, <2>3
<1> QED BY <1>2, <1>3 DEF OneEntryIn, new

(* The only entry of a device is freed.                                      *)
LEMMA FreedFacts ==
  ASSUME NEW size \in 1 .. 255, NEW table \in [0 .. size - 1 -> Content], OneEntryIn(table),
         NEW i \in DOMAIN table, table[i] # NoDevice
  PROVE  /\ Contents([table EXCEPT ![i] = NoDevice]) = Contents(table) \ {table[i]}
         /\ OneEntryIn([table EXCEPT ![i] = NoDevice])
<1> DEFINE new == [table EXCEPT ![i] = NoDevice]
<1>1. /\ DOMAIN new = DOMAIN table /\ new[i] = NoDevice
      /\ \A j \in DOMAIN table : j # i => new[j] = table[j]
  OBVIOUS
<1> HIDE DEF new
<1>2. \A j \in DOMAIN table : table[j] = table[i] => j = i
  BY DEF OneEntryIn
<1>3. ASSUME NEW x \in Contents(new) PROVE x \in Contents(table) \ {table[i]}
  <2>1. PICK j \in DOMAIN new : new[j] = x
    BY ContentsFacts
  <2>2. x # NoDevice /\ j # i
    BY <1>1, <2>1, ContentsFacts
  <2> QED BY <1>1, <1>2, <2>1, <2>2, ContentsFacts
<1>4. ASSUME NEW x \in Contents(table), x # table[i] PROVE x \in Contents(new)
  <2>1. PICK j \in DOMAIN table : table[j] = x
    BY ContentsFacts
  <2>2. x # NoDevice /\ j # i
    BY <1>4, <2>1, ContentsFacts
  <2> QED BY <1>1, <2>1, <2>2, ContentsFacts
<1>5. OneEntryIn(new)
  BY <1>1 DEF OneEntryIn
<1> QED BY <1>3, <1>4, <1>5 DEF new

LEMMA UnusedFacts ==
  ASSUME NEW size \in 1 .. 255
  PROVE  Contents(Unused(size)) = {} /\ OneEntryIn(Unused(size))
BY DEF Contents, Unused, OneEntryIn

LEMMA NotFound ==
  ASSUME NEW size \in 1 .. 255, NEW table \in [0 .. size - 1 -> Content], NEW d,
         Find(table, d) = NoIndex
  PROVE  d \notin Contents(table)
<1> SUFFICES ASSUME d \in Contents(table) PROVE FALSE
  OBVIOUS
<1>1. d \in {table[i] : i \in DOMAIN table}
  BY DEF Contents
<1>2. \E i \in DOMAIN table : table[i] = d
  BY <1>1
<1>3. Find(table, d) \in DOMAIN table
  BY <1>1, <1>2 DEF Find
<1>4. \A i \in DOMAIN table : i # NoIndex
  BY DEF NoIndex
<1> QED BY <1>3, <1>4

LEMMA SlotFound ==
  ASSUME TypeOK, NEW d \in Devices, FindOrAllocate(d) # NoIndex
  PROVE  SlotFor(FindOrAllocate(d), d)
<1>1. sinkTable \in [0 .. SinkSize - 1 -> Content] /\ SinkSize \in 1 .. 255 /\ d # NoDevice
  BY SinkAssumption DEF TypeOK
<1>2. CASE Find(sinkTable, d) # NoIndex
  BY <1>1, <1>2, FindFacts DEF FindOrAllocate, SlotFor
<1>3. CASE Find(sinkTable, d) = NoIndex
  <2>1. Find(sinkTable, NoDevice) # NoIndex
    BY <1>3 DEF FindOrAllocate
  <2>2. sinkTable[Find(sinkTable, NoDevice)] = NoDevice
        /\ Find(sinkTable, NoDevice) \in DOMAIN sinkTable
    BY <1>1, <2>1, FindFacts
  <2>3. d \notin Contents(sinkTable)
    BY <1>1, <1>3, NotFound
  <2> QED BY <1>3, <2>2, <2>3 DEF FindOrAllocate, SlotFor
<1> QED BY <1>2, <1>3

LEMMA PairedFacts ==
  ASSUME TypeOK, NEW d
  PROVE  Contents(proxyTable) \subseteq Contents(Paired(d))
<1> DEFINE i == Find(proxyTable, NoDevice)
<1>1. proxyTable \in [0 .. ProxySize - 1 -> Content] /\ ProxySize \in 1 .. 255
  BY SinkAssumption DEF TypeOK
<1>2. CASE Paired(d) = proxyTable
  BY <1>2
<1>3. CASE Paired(d) # proxyTable
  <2>1. i # NoIndex /\ Paired(d) = [proxyTable EXCEPT ![i] = d]
    BY <1>3 DEF Paired
  <2>2. i \in DOMAIN proxyTable /\ proxyTable[i] = NoDevice
    BY <1>1, <2>1, FindFacts
  <2> HIDE DEF i
  <2>3. DOMAIN Paired(d) = DOMAIN proxyTable
        /\ \A j \in DOMAIN proxyTable : j # i => Paired(d)[j] = proxyTable[j]
    BY <1>1, <2>1, <2>2
  <2>4. ASSUME NEW x \in Contents(proxyTable) PROVE x \in Contents(Paired(d))
    <3>1. PICK j \in DOMAIN proxyTable : proxyTable[j] = x
      BY ContentsFacts
    <3>2. x # NoDevice /\ j # i
      BY <2>2, <3>1, ContentsFacts
    <3> QED BY <2>3, <3>1, <3>2, ContentsFacts
  <2> QED BY <2>4
<1> QED BY <1>2, <1>3

LEMMA UnpairedFacts ==
  ASSUME TypeOK, NEW d \in Content
  PROVE  /\ Contents(Unpaired(d)) = Contents(proxyTable) \ {d}
         /\ DOMAIN Unpaired(d) = DOMAIN proxyTable
         /\ \A i \in DOMAIN proxyTable :
              /\ proxyTable[i] = NoDevice => Unpaired(d)[i] = NoDevice
              /\ proxyTable[i] = d => Unpaired(d)[i] = NoDevice
<1>1. /\ DOMAIN Unpaired(d) = DOMAIN proxyTable
      /\ \A i \in DOMAIN proxyTable :
           Unpaired(d)[i] = IF proxyTable[i] = d THEN NoDevice ELSE proxyTable[i]
  BY DEF Unpaired
<1>2. ASSUME NEW x \in Contents(Unpaired(d)) PROVE x \in Contents(proxyTable) \ {d}
  <2>1. PICK i \in DOMAIN proxyTable : Unpaired(d)[i] = x
    BY <1>1, ContentsFacts
  <2>2. x # NoDevice
    BY ContentsFacts
  <2> QED BY <1>1, <2>1, <2>2, ContentsFacts
<1>3. ASSUME NEW x \in Contents(proxyTable), x # d PROVE x \in Contents(Unpaired(d))
  <2>1. PICK i \in DOMAIN proxyTable : proxyTable[i] = x
    BY ContentsFacts
  <2>2. x # NoDevice
    BY ContentsFacts
  <2>3. Unpaired(d)[i] = x
    BY <1>1, <1>3, <2>1
  <2> QED BY <1>1, <2>1, <2>2, <2>3, ContentsFacts
<1> QED BY <1>1, <1>2, <1>3

-----------------------------------------------------------------------------
(* Every step keeps the chain.                                               *)

(* Commands that concern no device come and go.                              *)
LEMMA ChainUntouched ==
  ASSUME TypeOK, TypeOK', ListsNotEmpty, Chain, SameOf(Chained, commands, commands'),
         UNCHANGED <<sink_state, listVars, entryVars, proxy_table_index, tableVars, lastOp>>,
         Succeeds' = Succeeds, FirstClear' = FirstClear
  PROVE  Chain'
<1>1. /\ Idle => Idle'
      /\ \A x \in Chained : Waits(x) => Waits(x)'
      /\ \A x, y \in Chained : BothWait(x, y) => BothWait(x, y)'
  BY SameKept DEF TypeOK, Idle, Waits, BothWait, Chained
<1>2. UNCHANGED <<gpds_to_register, gpds_to_remove, sink_table_index, sink_table_entry,
                  gpf_comm_frame, sinkTable, proxyTable, proxy_table_index, sink_state, lastOp>>
  BY DEF listVars, entryVars, tableVars
<1>3. ASSUME sink_state = "SINK_READY" PROVE Rests'
  <2>1. CASE Idle /\ Achieved
    BY <1>1, <1>2, <2>1 DEF Rests, Achieved, InBoth
  <2>2. ASSUME NEW d \in Devices, Unpairs(d) PROVE Rests'
    <3>1. DeviceCmd("REMOVE_PAIRING", d) \in Chained
      BY ChainedFacts DEF DeviceCmds, Content
    <3>2. Unpairs(d)'
      BY <1>1, <1>2, <2>2, <3>1 DEF Unpairs
    <3> QED BY <3>2 DEF Rests
  <2> QED BY <1>3, <2>1, <2>2 DEF Chain, Rests
<1>4. ASSUME sink_state \in Registering PROVE Registers'
  <2>1. Registers /\ Current' = Current /\ ToRegister' = ToRegister /\ InBoth' = InBoth
    BY <1>2, <1>4 DEF Chain, Current, ToRegister, InBoth
  <2>2. /\ DeviceCmd("FIND_OR_ALLOCATE_ENTRY", Current) \in Chained
        /\ DeviceCmd("ADD_PAIRING", Current) \in Chained
        /\ IndexCmd("SINK_GET_ENTRY", sink_table_index) \in Chained
        /\ SetEntry(sink_table_index, Current) \in Chained
    BY <2>1, ChainedFacts DEF Registers, DeviceCmds, IndexCmds, Content, TypeOK
  <2>3. RegisterStage(Current)'
    BY <1>1, <1>2, <2>1, <2>2 DEF Registers, RegisterStage, SlotFor
  <2> QED BY <1>2, <2>1, <2>3 DEF Registers
<1>5. ASSUME sink_state = "SINK_REMOVE_IN_PROGRESS", gpds_to_remove # <<>> PROVE Removes'
  <2> DEFINE d == Head(gpds_to_remove)
  <2>1. lastOp.op = "remove" /\ RemoveStage(d)
    BY <1>5 DEF Chain, Removes
  <2>2. d \in Content
    BY <1>5, HeadTailFacts DEF TypeOK, Content
  <2>3. d' = d
    BY <1>2
  <2> HIDE DEF d
  <2>4. /\ DeviceCmd("SINK_LOOKUP", d) \in Chained /\ DeviceCmd("PROXY_LOOKUP", d) \in Chained
        /\ \A e \in Devices : DeviceCmd("REMOVE_PAIRING", e) \in Chained
        /\ \A i \in DOMAIN sinkTable : IndexCmd("SINK_REMOVE_ENTRY", i) \in Chained
    <3>1. DOMAIN sinkTable \subseteq Indices
      BY SinkAssumption DEF TypeOK, Indices, NoIndex
    <3> QED BY <2>2, <3>1, ChainedFacts DEF DeviceCmds, IndexCmds, Content
  <2>5. \A u : RemovedBut(u)' <=> RemovedBut(u)
    BY <1>2 DEF RemovedBut
  <2>6. RemoveStage(d)'
    <3>1. CASE RemovedBut({}) /\ Waits(DeviceCmd("SINK_LOOKUP", d))
      BY <1>1, <2>3, <2>4, <2>5, <3>1 DEF RemoveStage
    <3>2. ASSUME NEW e \in Devices, RemovedBut({e}),
                 BothWait(DeviceCmd("REMOVE_PAIRING", e), DeviceCmd("SINK_LOOKUP", d))
          PROVE  RemoveStage(d)'
      BY <1>1, <2>3, <2>4, <2>5, <3>2 DEF RemoveStage
    <3>3. CASE /\ RemovedBut({}) /\ d \notin Contents(sinkTable)
               /\ Waits(DeviceCmd("PROXY_LOOKUP", d))
      BY <1>1, <1>2, <2>3, <2>4, <2>5, <3>3 DEF RemoveStage
    <3>4. ASSUME NEW i \in DOMAIN sinkTable, RemovedBut({}), sinkTable[i] = d,
                 BothWait(IndexCmd("SINK_REMOVE_ENTRY", i), DeviceCmd("PROXY_LOOKUP", d))
          PROVE  RemoveStage(d)'
      BY <1>1, <1>2, <2>3, <2>4, <2>5, <3>4 DEF RemoveStage
    <3> QED BY <2>1, <3>1, <3>2, <3>3, <3>4 DEF RemoveStage
  <2> QED BY <1>2, <2>1, <2>6 DEF Removes, d
<1>6. ASSUME sink_state = "SINK_CLEAR_ALL" PROVE Clears'
  <2>1. lastOp.op = "clear" /\ ClearStage
    BY <1>6 DEF Chain, Clears
  <2>2. /\ Cmd("SINK_CLEAR_ALL") \in Chained
        /\ \A i \in Indices : IndexCmd("PROXY_GET_ENTRY", i) \in Chained
        /\ \A e \in Content : DeviceCmd("REMOVE_PAIRING", e) \in Chained
        /\ 0 \in Indices
    BY ChainedFacts DEF DeviceCmds, IndexCmds, Indices, NoIndex
  <2>3. \A i : FreeBelow(i)' <=> FreeBelow(i)
    BY <1>2 DEF FreeBelow
  <2>4. CASE /\ FirstClear => proxy_table_index = 0
             /\ BothWait(Cmd("SINK_CLEAR_ALL"), IndexCmd("PROXY_GET_ENTRY", 0))
    BY <1>1, <1>2, <2>1, <2>2, <2>4 DEF Clears, ClearStage
  <2>5. ASSUME Contents(sinkTable) = {}, NEW i \in Indices, Waits(IndexCmd("PROXY_GET_ENTRY", i)),
               FirstClear => i = proxy_table_index /\ FreeBelow(i)
        PROVE  Clears'
    BY <1>1, <1>2, <2>1, <2>2, <2>3, <2>5 DEF Clears, ClearStage
  <2>6. ASSUME Contents(sinkTable) = {}, NEW e \in Content, Waits(DeviceCmd("REMOVE_PAIRING", e)),
               FirstClear => /\ proxy_table_index \in DOMAIN proxyTable
                             /\ proxyTable[proxy_table_index] = e
                             /\ FreeBelow(proxy_table_index)
        PROVE  Clears'
    BY <1>1, <1>2, <2>1, <2>2, <2>3, <2>6 DEF Clears, ClearStage
  <2> QED BY <2>1, <2>4, <2>5, <2>6 DEF ClearStage
<1>7. sink_state = "SINK_REMOVE_IN_PROGRESS" => gpds_to_remove # <<>>
  BY DEF ListsNotEmpty
<1>8. OneEntryIn(sinkTable)'
  BY <1>2 DEF Chain
<1> QED BY <1>1, <1>2, <1>3, <1>4, <1>5, <1>6, <1>7, <1>8 DEF Chain

(* Nothing of an earlier operation is left when one begins.                  *)
LEMMA BeginsIdle ==
  ASSUME TypeOK, NEW op, NEW devices, NEW M, Begins(op, devices, M), "overlap" \notin mishaps'
  PROVE  Idle /\ lastOp' = [op |-> op, devices |-> devices] /\ mishaps' = mishaps \cup (Overlap \cup M)
<1>1. ~Leftover
  BY DEF Begins, Happens, Overlap
<1> QED BY <1>1, LeftoverIsChained DEF Begins, Happens

LEMMA ChainRequests ==
  ASSUME TypeOK, TypeOK', OneEntryIn(sinkTable), "overlap" \notin mishaps'
  PROVE  /\ \A list \in Lists(MaxList) : AddGPDevices(list) \/ RemoveGPDevices(list) => Chain'
         /\ ClearAllGPDevices => Chain'
<1> USE DEF Registering
<1>1. ASSUME NEW list \in Lists(MaxList), AddGPDevices(list) PROVE Chain'
  <2> DEFINE d == Head(list)
  <2>1. list \in Seq(Devices) /\ list # <<>> /\ d \in Devices
    BY <1>1, ListFacts, HeadTailFacts DEF AddGPDevices
  <2>2. /\ Idle /\ lastOp' = [op |-> "add", devices |-> {list[i] : i \in 1 .. Len(list)}]
        /\ sink_state' = "SINK_COM_OFFLINE_IN_PROGRESS" /\ gpds_to_register' = list
        /\ commands' = commands \o <<DeviceCmd("FIND_OR_ALLOCATE_ENTRY", d)>>
        /\ sinkTable' = sinkTable
    BY <1>1, BeginsIdle DEF AddGPDevices, RequestAccepted, SetSinkState, tableVars
  <2>3. DeviceCmd("FIND_OR_ALLOCATE_ENTRY", d) \in Chained
    BY <2>1, ChainedFacts DEF DeviceCmds, Content
  <2> HIDE DEF d
  <2>4. Waits(DeviceCmd("FIND_OR_ALLOCATE_ENTRY", d))'
    BY <2>2, <2>3, ChainBegins
  <2>5. Current' = d /\ ToRegister' = lastOp.devices'
    BY <2>2 DEF Current, ToRegister, Elements, d
  <2>6. Registers'
    BY <2>1, <2>2, <2>4, <2>5 DEF Registers, RegisterStage
  <2> QED BY <2>2, <2>6 DEF Chain
<1>2. ASSUME NEW list \in Lists(MaxList), RemoveGPDevices(list) PROVE Chain'
  <2> DEFINE d == Head(list)
  <2>1. list \in Seq(Devices) /\ list # <<>> /\ d \in Devices
    BY <1>2, ListFacts, HeadTailFacts DEF RemoveGPDevices
  <2>2. /\ Idle /\ lastOp' = [op |-> "remove", devices |-> {list[i] : i \in 1 .. Len(list)}]
        /\ sink_state' = "SINK_REMOVE_IN_PROGRESS" /\ gpds_to_remove' = list
        /\ commands' = commands \o <<DeviceCmd("SINK_LOOKUP", d)>>
        /\ sinkTable' = sinkTable
    BY <1>2, BeginsIdle DEF RemoveGPDevices, RequestAccepted, SetSinkState, tableVars
  <2>3. DeviceCmd("SINK_LOOKUP", d) \in Chained
    BY <2>1, ChainedFacts DEF DeviceCmds, Content
  <2>4. Head(gpds_to_remove)' = d
    BY <2>2
  <2> HIDE DEF d
  <2>5. Waits(DeviceCmd("SINK_LOOKUP", d))'
    BY <2>2, <2>3, ChainBegins
  <2>6. RemovedBut({})'
    BY <2>2 DEF RemovedBut, Elements
  <2>7. Removes'
    BY <2>2, <2>4, <2>5, <2>6 DEF Removes, RemoveStage
  <2> QED BY <2>2, <2>7 DEF Chain
<1>3. ASSUME ClearAllGPDevices PROVE Chain'
  <2> DEFINE c == Cmd("SINK_CLEAR_ALL")
             e == IndexCmd("PROXY_GET_ENTRY", 0)
  <2>1. /\ Idle /\ lastOp'.op = "clear"
        /\ sink_state' = "SINK_CLEAR_ALL"
        /\ commands' = commands \o <<c, e>>
        /\ sinkTable' = sinkTable /\ proxy_table_index' = proxy_table_index
    BY <1>3, BeginsIdle DEF ClearAllGPDevices, RequestAccepted, SetSinkState, tableVars
  <2>2. FirstClear' => proxy_table_index = 0
    BY <1>3, BeginsIdle DEF ClearAllGPDevices, FirstClear
  <2>3. c \in Chained /\ e \in Chained
    BY ChainedFacts DEF IndexCmds, Indices, NoIndex
  <2> HIDE DEF c, e
  <2>4. BothWait(c, e)'
    BY <2>1, <2>3, ChainBegins
  <2>5. Clears'
    BY <2>1, <2>2, <2>4 DEF Clears, ClearStage, c, e
  <2> QED BY <2>1, <2>5 DEF Chain
<1> QED BY <1>1, <1>2, <1>3

LEMMA ChainBeginsOthers ==
  ASSUME TypeOK, TypeOK', OneEntryIn(sinkTable), "overlap" \notin mishaps'
  PROVE  /\ NetworkUp \/ OpenCommissioningSession \/ CloseCommissioningSession => Chain'
         /\ \A d \in Devices : CommissioningFrame(d) => Chain'
<1> USE DEF Registering
<1>1. \A c \in OtherCmds : Cmd(c) \in EzspCommands \ Chained
  BY ChainedFacts
<1>2. ASSUME NetworkUp \/ CloseCommissioningSession PROVE Chain'
  <2>1. /\ Idle /\ lastOp'.op = "none" /\ sink_state' = "SINK_READY" /\ sinkTable' = sinkTable
        /\ \/ commands' = commands \o <<Cmd("GP_SINK_TABLE_INIT"), Cmd("GET_NETWORK_PARAMETERS")>>
           \/ commands' = Append(commands, Cmd("SEND_UNICAST"))
    BY <1>2, BeginsIdle DEF NetworkUp, CloseCommissioningSession, SetSinkState, tableVars
  <2>2. Idle'
    BY <1>1, <2>1, ChainBegins DEF OtherCmds
  <2> QED BY <2>1, <2>2 DEF Chain, Rests, Achieved
<1>3. ASSUME OpenCommissioningSession PROVE Chain'
  <2>1. /\ Idle /\ sink_state' = "SINK_COM_OPEN" /\ sinkTable' = sinkTable
        /\ commands' = Append(commands, Cmd("SEND_UNICAST"))
    BY <1>3, BeginsIdle DEF OpenCommissioningSession, SetSinkState, tableVars
  <2>2. Idle'
    BY <1>1, <2>1, ChainBegins DEF OtherCmds
  <2> QED BY <2>1, <2>2 DEF Chain
<1>4. ASSUME NEW d \in Devices, CommissioningFrame(d) PROVE Chain'
  <2>1. /\ Idle /\ lastOp' = [op |-> "commission", devices |-> {d}]
        /\ sink_state' = "SINK_COM_IN_PROGRESS" /\ gpf_comm_frame' = d
        /\ commands' = Append(commands, DeviceCmd("FIND_OR_ALLOCATE_ENTRY", d))
        /\ sinkTable' = sinkTable
    BY <1>4, BeginsIdle DEF CommissioningFrame, SetSinkState, tableVars
  <2>2. DeviceCmd("FIND_OR_ALLOCATE_ENTRY", d) \in Chained
    BY ChainedFacts DEF DeviceCmds, Content
  <2>3. commands' = commands \o <<DeviceCmd("FIND_OR_ALLOCATE_ENTRY", d)>>
    BY <2>1, AppendConcat DEF TypeOK
  <2>4. Waits(DeviceCmd("FIND_OR_ALLOCATE_ENTRY", d))'
    BY <2>1, <2>2, <2>3, ChainBegins
  <2>5. Current' = d /\ ToRegister' = {d}
    BY <2>1 DEF Current, ToRegister
  <2>6. Registers'
    BY <2>1, <2>4, <2>5 DEF Registers, RegisterStage
  <2> QED BY <2>1, <2>6 DEF Chain
<1> QED BY <1>2, <1>3, <1>4

(* The handlers.  The command at the front says which step the operation is  *)
(* at, and the rest of the queue has nothing of the chain, or one command.   *)
LEMMA FrontFacts ==
  ASSUME TypeOK, NEW C, Answered(C)
  PROVE  /\ commands # <<>> /\ Head(commands) \in EzspCommands /\ Head(commands).cmd \in C
         /\ C \cap OtherCmds = {} => Head(commands) \in Chained
         /\ lastOp' = lastOp
<1>1. commands \in Seq(EzspCommands) /\ commands # <<>> /\ Head(commands).cmd \in C
  BY DEF TypeOK, Answered
<1>2. Head(commands) \in EzspCommands
  BY <1>1, SeqFacts
<1> QED BY <1>1, <1>2 DEF Chained, Answered

LEMMA RegisterAt ==
  ASSUME TypeOK, Chain, sink_state \in Registering, commands # <<>>, Head(commands) \in Chained
  PROVE  /\ Registers /\ ~InQueue(Chained, Tail(commands))
         /\ Head(commands).cmd = "FIND_OR_ALLOCATE_ENTRY" => Head(commands).device = Current
         /\ Head(commands).cmd = "SINK_GET_ENTRY" => SlotFor(sink_table_index, Current)
         /\ Head(commands).cmd = "SINK_SET_ENTRY" =>
              /\ SlotFor(sink_table_index, Current) /\ sink_table_entry = Current
              /\ Head(commands) = SetEntry(sink_table_index, Current)
         /\ Head(commands).cmd = "ADD_PAIRING" =>
              Current \in Contents(sinkTable) /\ Head(commands).device = Current
<1> DEFINE h == Head(commands)
<1>1. Registers /\ RegisterStage(Current)
  BY DEF Chain, Registers
<1>2. \A x : Waits(x) => h = x /\ ~InQueue(Chained, Tail(commands))
  BY TakenFromChain
<1>3. /\ \A c, d : DeviceCmd(c, d).cmd = c /\ DeviceCmd(c, d).device = d
      /\ \A c, i : IndexCmd(c, i).cmd = c
      /\ \A i, d : SetEntry(i, d).cmd = "SINK_SET_ENTRY"
  BY DEF DeviceCmd, IndexCmd, SetEntry
<1> HIDE DEF h
<1>4. CASE Waits(DeviceCmd("FIND_OR_ALLOCATE_ENTRY", Current))
  BY <1>1, <1>2, <1>3, <1>4 DEF h
<1>5. CASE SlotFor(sink_table_index, Current) /\ Waits(IndexCmd("SINK_GET_ENTRY", sink_table_index))
  BY <1>1, <1>2, <1>3, <1>5 DEF h
<1>6. CASE /\ SlotFor(sink_table_index, Current) /\ sink_table_entry = Current
           /\ Waits(SetEntry(sink_table_index, Current))
  BY <1>1, <1>2, <1>3, <1>6 DEF h
<1>7. CASE /\ Current \in Contents(sinkTable) /\ sink_table_entry = Current
           /\ Waits(DeviceCmd("ADD_PAIRING", Current))
  BY <1>1, <1>2, <1>3, <1>7 DEF h
<1> QED BY <1>1, <1>4, <1>5, <1>6, <1>7 DEF RegisterStage

LEMMA RegisterGoesOn ==
  ASSUME Registers, sink_state \in Registering,
         UNCHANGED <<sink_state, gpf_comm_frame, gpds_to_register, lastOp>>,
         Succeeds' => Succeeds, InBoth \subseteq InBoth', RegisterStage(Current)',
         OneEntryIn(sinkTable)'
  PROVE  Chain'
<1>1. Current' = Current /\ ToRegister' = ToRegister
  BY DEF Current, ToRegister
<1>2. Succeeds' => lastOp'.devices \subseteq ToRegister' \cup InBoth'
  BY <1>1 DEF Registers
<1>3. Registers'
  BY <1>1, <1>2 DEF Registers
<1> QED BY <1>3 DEF Chain, Registering

LEMMA RegisterEnds ==
  ASSUME Registers, sink_state' = "SINK_READY", Idle', lastOp' = lastOp,
         Succeeds' => lastOp.devices \subseteq InBoth', OneEntryIn(sinkTable)'
  PROVE  Chain'
<1>1. Achieved'
  BY DEF Registers, Achieved
<1>2. Rests'
  BY <1>1 DEF Rests
<1> QED BY <1>2 DEF Chain, Registering

LEMMA ChainFinds ==
  ASSUME TypeOK, TypeOK', Chain, FindOrAllocateAnswered
  PROVE  Chain'
<1>1. /\ commands # <<>> /\ Head(commands).cmd = "FIND_OR_ALLOCATE_ENTRY"
      /\ Head(commands) \in Chained /\ lastOp' = lastOp
  BY FrontFacts DEF FindOrAllocateAnswered, OtherCmds
<1>2. sink_state \in Registering
  BY <1>1, HeadTells DEF TypeOK, SinkStates, Commissioning, Requested, Registering
<1>3. /\ Registers /\ ~InQueue(Chained, Tail(commands)) /\ Head(commands).device = Current
      /\ Current \in Devices
  BY <1>1, <1>2, RegisterAt DEF Registers
<1>0. PICK i, d : i = FindOrAllocate(Current) /\ d = Current
  OBVIOUS
<1>4. /\ sinkTable' = sinkTable /\ proxyTable' = proxyTable
      /\ UNCHANGED <<gpf_comm_frame, gpds_to_register>>
  BY DEF FindOrAllocateAnswered, listVars, tableVars
<1>5. OneEntryIn(sinkTable)' /\ InBoth' = InBoth
  BY <1>4 DEF Chain, InBoth
<1>6. CASE i # NoIndex
  <2>1. /\ sink_table_index' = i /\ Sends(<<IndexCmd("SINK_GET_ENTRY", i)>>)
        /\ UNCHANGED <<sink_state, mishaps>>
    BY <1>0, <1>2, <1>3, <1>6 DEF FindOrAllocateAnswered, GoesOn
  <2>2. SlotFor(i, d)
    BY <1>0, <1>3, <1>6, SlotFound
  <2>3. SlotFor(i, d)' /\ Current' = d
    BY <1>0, <1>4, <2>1, <2>2 DEF SlotFor, Current
  <2>4. IndexCmd("SINK_GET_ENTRY", i) \in Chained
    BY <2>1, ChainedFacts DEF IndexCmds, TypeOK
  <2>5. Waits(IndexCmd("SINK_GET_ENTRY", i))'
    BY <1>1, <1>3, <2>1, <2>4, ChainSends
  <2>6. RegisterStage(Current)'
    BY <2>1, <2>3, <2>5 DEF RegisterStage
  <2> QED BY <1>1, <1>2, <1>3, <1>4, <1>5, <2>1, <2>6, RegisterGoesOn DEF Succeeds
<1>7. CASE i = NoIndex
  <2>1. Ends(<<>>) /\ Happens({"full"})
    BY <1>0, <1>2, <1>3, <1>7 DEF FindOrAllocateAnswered
  <2>2. sink_state' = "SINK_READY" /\ Sends(<<>>) /\ ~Succeeds'
    BY <2>1 DEF Ends, SetSinkState, Happens, Succeeds
  <2>3. Idle'
    BY <1>1, <1>3, <2>2, ChainSends
  <2> QED BY <1>1, <1>3, <1>5, <2>2, <2>3, RegisterEnds
<1> QED BY <1>6, <1>7

LEMMA ChainGets ==
  ASSUME TypeOK, TypeOK', Chain, GetEntryAnswered
  PROVE  Chain'
<1>1. /\ commands # <<>> /\ Head(commands).cmd = "SINK_GET_ENTRY"
      /\ Head(commands) \in Chained /\ lastOp' = lastOp
  BY FrontFacts DEF GetEntryAnswered, OtherCmds
<1>2. sink_state \in Registering
  BY <1>1, HeadTells DEF TypeOK, SinkStates, Commissioning, Requested, Registering
<1>3. /\ Registers /\ ~InQueue(Chained, Tail(commands)) /\ SlotFor(sink_table_index, Current)
      /\ Current \in Devices
  BY <1>1, <1>2, RegisterAt DEF Registers
<1>4. /\ sinkTable' = sinkTable /\ proxyTable' = proxyTable
      /\ UNCHANGED <<gpf_comm_frame, gpds_to_register, sink_table_index, mishaps>>
  BY DEF GetEntryAnswered, listVars, tableVars
<1>5. OneEntryIn(sinkTable)' /\ InBoth' = InBoth
  BY <1>4 DEF Chain, InBoth
<1>6. /\ sink_table_entry' = Current /\ Sends(<<SetEntry(sink_table_index, Current)>>)
      /\ UNCHANGED sink_state
  BY <1>2 DEF GetEntryAnswered, GoesOn, Current, Registering
<1>7. Current' = Current /\ SlotFor(sink_table_index, Current)'
  BY <1>3, <1>4, <1>6 DEF Current, SlotFor
<1>8. SetEntry(sink_table_index, Current) \in Chained
  BY <1>3, ChainedFacts DEF TypeOK, Content
<1>9. Waits(SetEntry(sink_table_index, Current))'
  <2>1. \A c \in Chained : Sends(<<c>>) => Alone(Chained, commands', c)
    BY <1>1, <1>3, ChainSends DEF Waits
  <2>2. Alone(Chained, commands', SetEntry(sink_table_index, Current))
    BY <1>6, <1>8, <2>1
  <2> QED BY <1>4, <1>7, <2>2 DEF Waits, SetEntry
<1>10. RegisterStage(Current)'
  BY <1>4, <1>6, <1>7, <1>9 DEF RegisterStage
<1> QED BY <1>1, <1>2, <1>3, <1>4, <1>5, <1>6, <1>10, RegisterGoesOn DEF Succeeds

LEMMA ElementsFacts ==
  ASSUME NEW S, NEW list \in Seq(S), list # <<>>
  PROVE  Elements(list) \subseteq {Head(list)} \cup Elements(Tail(list))
<1> SUFFICES ASSUME NEW i \in 1 .. Len(list), list[i] # Head(list)
             PROVE  list[i] \in Elements(Tail(list))
  BY DEF Elements
<1>1. Head(list) = list[1] /\ Len(list) \in Nat
  BY SeqFacts
<1>2. i # 1
  BY <1>1
<1>3. i - 1 \in 1 .. Len(Tail(list)) /\ Tail(list)[i - 1] = list[i]
  BY <1>1, <1>2, SeqFacts
<1> QED BY <1>3 DEF Elements

LEMMA ChainSets ==
  ASSUME TypeOK, TypeOK', Chain, SetEntryAnswered
  PROVE  Chain'
<1>1. /\ commands # <<>> /\ Head(commands).cmd = "SINK_SET_ENTRY"
      /\ Head(commands) \in Chained /\ lastOp' = lastOp
  BY FrontFacts DEF SetEntryAnswered, OtherCmds
<1>2. sink_state \in Registering
  BY <1>1, HeadTells DEF TypeOK, SinkStates, Commissioning, Requested, Registering
<1>3. PICK i, d : i = sink_table_index /\ d = Current
  OBVIOUS
<1>4. /\ Registers /\ ~InQueue(Chained, Tail(commands)) /\ SlotFor(i, d)
      /\ sink_table_entry = d /\ Head(commands).index = i /\ Head(commands).device = d
      /\ d \in Devices
  BY <1>1, <1>2, <1>3, RegisterAt DEF Registers, SetEntry
<1>5. /\ UNCHANGED <<proxyTable, gpf_comm_frame, gpds_to_register, sink_table_index,
                     sink_table_entry>>
  BY DEF SetEntryAnswered, listVars, entryVars
<1>6. CASE /\ sinkTable' = [sinkTable EXCEPT ![i] = d]
           /\ GoesOn(<<DeviceCmd("ADD_PAIRING", d)>>) /\ UNCHANGED mishaps
  <2>1. sinkTable \in [0 .. SinkSize - 1 -> Content] /\ SinkSize \in 1 .. 255
    BY SinkAssumption DEF TypeOK
  <2>2. /\ i \in DOMAIN sinkTable /\ sinkTable[i] \in {d, NoDevice}
        /\ sinkTable[i] = NoDevice => d \notin Contents(sinkTable)
    BY <1>4 DEF SlotFor, Contents
  <2>3. Contents(sinkTable') = Contents(sinkTable) \cup {d} /\ OneEntryIn(sinkTable')
    BY <1>4, <1>6, <2>1, <2>2, WrittenFacts DEF Chain
  <2>4. Sends(<<DeviceCmd("ADD_PAIRING", d)>>) /\ UNCHANGED sink_state
    BY <1>6 DEF GoesOn
  <2>5. DeviceCmd("ADD_PAIRING", d) \in Chained
    BY <1>4, ChainedFacts DEF DeviceCmds, Content
  <2>6. Waits(DeviceCmd("ADD_PAIRING", d))'
    BY <1>1, <1>4, <2>4, <2>5, ChainSends
  <2>7. Current' = d
    BY <1>3, <1>5, <2>4 DEF Current
  <2>8. RegisterStage(Current)'
    BY <1>4, <1>5, <2>3, <2>6, <2>7 DEF RegisterStage
  <2>9. InBoth \subseteq InBoth'
    BY <1>5, <2>3 DEF InBoth
  <2> QED BY <1>1, <1>2, <1>4, <1>5, <1>6, <2>3, <2>4, <2>8, <2>9, RegisterGoesOn DEF Succeeds
<1>7. CASE Happens({"setFails"}) /\ Ends(<<>>) /\ UNCHANGED sinkTable
  <2>1. sink_state' = "SINK_READY" /\ Sends(<<>>) /\ ~Succeeds'
    BY <1>7 DEF Ends, SetSinkState, Happens, Succeeds
  <2>2. Idle'
    BY <1>1, <1>4, <2>1, ChainSends
  <2>3. OneEntryIn(sinkTable)'
    BY <1>7 DEF Chain
  <2> QED BY <1>1, <1>4, <2>1, <2>2, <2>3, RegisterEnds
<1> QED BY <1>2, <1>4, <1>6, <1>7 DEF SetEntryAnswered

(* A pairing is added: the device is in both tables, unless there is no room.*)
LEMMA ChainPairs ==
  ASSUME TypeOK, TypeOK', ListsNotEmpty, Chain, PairingAnswered, Head(commands).cmd = "ADD_PAIRING"
  PROVE  Chain'
<1>1. /\ commands # <<>> /\ Head(commands) \in Chained /\ lastOp' = lastOp
  BY FrontFacts DEF PairingAnswered, Pairings, OtherCmds
<1>2. sink_state \in Registering
  BY <1>1, HeadTells DEF TypeOK, SinkStates, Commissioning, Requested, Registering
<1>3. PICK d : d = Current
  OBVIOUS
<1>4. /\ Registers /\ ~InQueue(Chained, Tail(commands)) /\ d \in Contents(sinkTable)
      /\ Head(commands).device = d /\ d \in Devices
  BY <1>1, <1>2, <1>3, RegisterAt DEF Registers
<1>5. sinkTable' = sinkTable /\ gpf_comm_frame' = gpf_comm_frame /\ OneEntryIn(sinkTable)'
  BY DEF PairingAnswered, entryVars, Chain
<1>6. /\ proxyTable' = Paired(d)
      /\ IF d \notin Contents(proxyTable') THEN Happens({"full"}) ELSE UNCHANGED mishaps
  BY <1>4 DEF PairingAnswered, PairingExecuted
<1>7. Contents(proxyTable) \subseteq Contents(proxyTable')
  BY <1>6, PairedFacts
<1>8. InBoth \subseteq InBoth' /\ (Succeeds' => Succeeds /\ d \in InBoth')
  BY <1>4, <1>5, <1>6, <1>7 DEF InBoth, Succeeds, Happens
<1>9. CASE sink_state = "SINK_COM_IN_PROGRESS"
  <2>1. sink_state' = "SINK_READY" /\ Sends(<<Cmd("SEND_UNICAST")>>)
    BY <1>9 DEF PairingAnswered, Ends, SetSinkState, Registering
  <2>2. Cmd("SEND_UNICAST") \in EzspCommands \ Chained
    BY ChainedFacts DEF OtherCmds
  <2>3. Idle'
    BY <1>1, <1>4, <2>1, <2>2, ChainSends
  <2>4. ToRegister = {d}
    BY <1>3, <1>9 DEF ToRegister, Current
  <2>5. Succeeds' => lastOp.devices \subseteq InBoth'
    BY <1>4, <1>8, <2>4 DEF Registers
  <2> QED BY <1>1, <1>4, <1>5, <2>1, <2>3, <2>5, RegisterEnds
<1>10. CASE sink_state = "SINK_COM_OFFLINE_IN_PROGRESS"
  <2>1. PICK list, rest : list = gpds_to_register /\ rest = Tail(list)
    OBVIOUS
  <2>2. list \in Seq(Devices) /\ list # <<>> /\ rest \in Seq(Devices) /\ d = Head(list)
    BY <1>3, <1>10, <2>1, HeadTailFacts DEF TypeOK, ListsNotEmpty, Current
  <2>3. Elements(list) \subseteq {d} \cup Elements(rest)
    BY <2>1, <2>2, ElementsFacts
  <2>4. gpds_to_register' = rest /\ RegistersNext(rest)
    BY <1>10, <2>1 DEF PairingAnswered, Registering
  <2>5. Succeeds' => lastOp.devices \subseteq Elements(rest) \cup InBoth'
    <3>1. ToRegister = Elements(list)
      BY <1>10, <2>1 DEF ToRegister
    <3> QED BY <1>4, <1>8, <2>3, <3>1 DEF Registers
  <2>6. CASE rest = <<>>
    <3>1. sink_state' = "SINK_READY" /\ Sends(<<>>)
      BY <2>4, <2>6 DEF RegistersNext, Ends, SetSinkState
    <3>2. Idle'
      BY <1>1, <1>4, <3>1, ChainSends
    <3>3. Elements(rest) = {}
      BY <2>6 DEF Elements
    <3> QED BY <1>1, <1>4, <1>5, <2>5, <3>1, <3>2, <3>3, RegisterEnds
  <2>7. CASE rest # <<>>
    <3>1. PICK e : e = Head(rest)
      OBVIOUS
    <3>2. Sends(<<DeviceCmd("FIND_OR_ALLOCATE_ENTRY", e)>>) /\ UNCHANGED sink_state
      BY <2>4, <2>7, <3>1 DEF RegistersNext, GoesOn
    <3>3. e \in Devices
      BY <2>2, <2>7, <3>1, HeadTailFacts
    <3>4. DeviceCmd("FIND_OR_ALLOCATE_ENTRY", e) \in Chained
      BY <3>3, ChainedFacts DEF DeviceCmds, Content
    <3>5. Waits(DeviceCmd("FIND_OR_ALLOCATE_ENTRY", e))'
      BY <1>1, <1>4, <3>2, <3>4, ChainSends
    <3>6. Current' = e /\ ToRegister' = Elements(rest)
      BY <1>10, <2>4, <3>1, <3>2 DEF Current, ToRegister
    <3>7. Registers'
      BY <1>1, <1>4, <2>5, <3>3, <3>5, <3>6 DEF Registers, RegisterStage
    <3> QED BY <1>5, <1>10, <3>2, <3>7 DEF Chain, Registering
  <2> QED BY <2>6, <2>7
<1> QED BY <1>2, <1>9, <1>10 DEF Registering

(* Devices are removed: the one at the back of the list is looked up in the  *)
(* sink table, then in the proxy table.                                      *)
LEMMA RemoveAt ==
  ASSUME TypeOK, ListsNotEmpty, Chain, sink_state = "SINK_REMOVE_IN_PROGRESS",
         commands # <<>>, Head(commands) \in Chained,
         NEW d, d = Head(gpds_to_remove)
  PROVE  /\ d \in Devices /\ lastOp.op = "remove"
         /\ Head(commands).cmd = "SINK_LOOKUP" =>
              /\ RemovedBut({}) /\ Head(commands).device = d
              /\ ~InQueue(Chained, Tail(commands))
         /\ Head(commands).cmd = "REMOVE_PAIRING" =>
              \E e \in Devices : /\ RemovedBut({e}) /\ Head(commands).device = e
                                 /\ Alone(Chained, Tail(commands), DeviceCmd("SINK_LOOKUP", d))
         /\ Head(commands).cmd = "PROXY_LOOKUP" =>
              /\ RemovedBut({}) /\ Head(commands).device = d /\ d \notin Contents(sinkTable)
              /\ ~InQueue(Chained, Tail(commands))
         /\ Head(commands).cmd = "SINK_REMOVE_ENTRY" =>
              \E i \in DOMAIN sinkTable :
                /\ RemovedBut({}) /\ sinkTable[i] = d /\ Head(commands).index = i
                /\ Alone(Chained, Tail(commands), DeviceCmd("PROXY_LOOKUP", d))
<1>0. d \in Devices
  BY HeadTailFacts DEF TypeOK, ListsNotEmpty
<1> DEFINE h == Head(commands)
           t == Tail(commands)
<1>1. lastOp.op = "remove" /\ RemoveStage(d)
  BY DEF Chain, Removes
<1>2. /\ \A x : Waits(x) => h = x /\ ~InQueue(Chained, t)
      /\ \A x, y : BothWait(x, y) => h = x /\ Alone(Chained, t, y)
  BY TakenFromChain
<1>3. /\ \A c, e : DeviceCmd(c, e).cmd = c /\ DeviceCmd(c, e).device = e
      /\ \A c, i : IndexCmd(c, i).cmd = c /\ IndexCmd(c, i).index = i
  BY DEF DeviceCmd, IndexCmd
<1> HIDE DEF h, t
<1> DEFINE Goal ==
      /\ h.cmd = "SINK_LOOKUP" => RemovedBut({}) /\ h.device = d /\ ~InQueue(Chained, t)
      /\ h.cmd = "REMOVE_PAIRING" =>
           \E e \in Devices : /\ RemovedBut({e}) /\ h.device = e
                              /\ Alone(Chained, t, DeviceCmd("SINK_LOOKUP", d))
      /\ h.cmd = "PROXY_LOOKUP" =>
           /\ RemovedBut({}) /\ h.device = d /\ d \notin Contents(sinkTable)
           /\ ~InQueue(Chained, t)
      /\ h.cmd = "SINK_REMOVE_ENTRY" =>
           \E i \in DOMAIN sinkTable :
             /\ RemovedBut({}) /\ sinkTable[i] = d /\ h.index = i
             /\ Alone(Chained, t, DeviceCmd("PROXY_LOOKUP", d))
<1>4. ASSUME RemovedBut({}), Waits(DeviceCmd("SINK_LOOKUP", d)) PROVE Goal
  BY <1>2, <1>3, <1>4
<1>5. ASSUME NEW e \in Devices, RemovedBut({e}),
             BothWait(DeviceCmd("REMOVE_PAIRING", e), DeviceCmd("SINK_LOOKUP", d))
      PROVE  Goal
  <2>1. h = DeviceCmd("REMOVE_PAIRING", e) /\ Alone(Chained, t, DeviceCmd("SINK_LOOKUP", d))
    BY <1>2, <1>5
  <2>2. h.cmd = "REMOVE_PAIRING" /\ h.device = e
    BY <1>3, <2>1
  <2> QED BY <1>5, <2>1, <2>2
<1>6. ASSUME RemovedBut({}), d \notin Contents(sinkTable), Waits(DeviceCmd("PROXY_LOOKUP", d))
      PROVE  Goal
  BY <1>2, <1>3, <1>6
<1>7. ASSUME NEW i \in DOMAIN sinkTable, RemovedBut({}), sinkTable[i] = d,
             BothWait(IndexCmd("SINK_REMOVE_ENTRY", i), DeviceCmd("PROXY_LOOKUP", d))
      PROVE  Goal
  <2>1. h = IndexCmd("SINK_REMOVE_ENTRY", i) /\ Alone(Chained, t, DeviceCmd("PROXY_LOOKUP", d))
    BY <1>2, <1>7
  <2>2. h.cmd = "SINK_REMOVE_ENTRY" /\ h.index = i
    BY <1>3, <2>1
  <2> QED BY <1>7, <2>1, <2>2
<1> HIDE DEF Goal
<1>8. Goal
  BY <1>1, <1>4, <1>5, <1>6, <1>7 DEF RemoveStage
<1> QED BY <1>0, <1>1, <1>8 DEF Goal, h, t

LEMMA TwoCommands ==
  \A a, b : /\ <<a>> \o <<b>> = <<a, b>> /\ <<>> \o <<b>> = <<b>>
           /\ Append(<<a>>, b) = <<a, b>> /\ Append(<<>>, b) = <<b>>
<1> SUFFICES ASSUME NEW a, NEW b
             PROVE  /\ <<a>> \o <<b>> = <<a, b>> /\ <<>> \o <<b>> = <<b>>
                    /\ Append(<<a>>, b) = <<a, b>> /\ Append(<<>>, b) = <<b>>
  OBVIOUS
<1> DEFINE s == <<a>> \o <<b>>
           t == Append(<<a>>, b)
           u == <<a, b>>
<1>1. <<a>> \in Seq({a, b}) /\ <<b>> \in Seq({a, b}) /\ u \in Seq({a, b}) /\ b \in {a, b}
  OBVIOUS
<1>2. s \in Seq({a, b}) /\ Len(s) = 2 /\ t \in Seq({a, b}) /\ Len(t) = 2 /\ Len(u) = 2
  BY <1>1
<1>3. s[1] = u[1] /\ s[2] = u[2] /\ t[1] = u[1] /\ t[2] = u[2]
  BY <1>1
<1>4. <<>> \o <<b>> = <<b>> /\ Append(<<>>, b) = <<b>>
  <2>1. <<b>> \in Seq({b})
    OBVIOUS
  <2> QED BY <2>1
<1> HIDE DEF s, t, u
<1>5. \A i \in 1 .. 2 : s[i] = u[i] /\ t[i] = u[i]
  BY <1>3
<1>6. s = u /\ t = u
  BY <1>1, <1>2, <1>5
<1> QED BY <1>4, <1>6 DEF s, t, u

LEMMA ChainLooksUp ==
  ASSUME TypeOK, TypeOK', ListsNotEmpty, Chain, SinkLookupAnswered
  PROVE  Chain'
<1>1. /\ commands # <<>> /\ Head(commands).cmd = "SINK_LOOKUP"
      /\ Head(commands) \in Chained /\ lastOp' = lastOp
  BY FrontFacts DEF SinkLookupAnswered, OtherCmds
<1>2. sink_state = "SINK_REMOVE_IN_PROGRESS"
  BY <1>1, HeadTells DEF TypeOK, SinkStates, Commissioning, Requested, Registering
<1>3. PICK d, i : d = Head(gpds_to_remove) /\ i = Find(sinkTable, d)
  OBVIOUS
<1>4. /\ RemovedBut({}) /\ Head(commands).device = d /\ lastOp.op = "remove"
      /\ ~InQueue(Chained, Tail(commands)) /\ d \in Devices
  BY <1>1, <1>2, <1>3, RemoveAt
<1>5. UNCHANGED <<sink_state, gpds_to_remove, sinkTable, proxyTable>>
  BY <1>2 DEF SinkLookupAnswered, GoesOn, listVars, tableVars
<1>6. Sends((IF i # NoIndex THEN <<IndexCmd("SINK_REMOVE_ENTRY", i)>> ELSE <<>>)
            \o <<DeviceCmd("PROXY_LOOKUP", d)>>)
  BY <1>2, <1>3, <1>4 DEF SinkLookupAnswered, GoesOn
<1>7. RemovedBut({})' /\ Head(gpds_to_remove)' = d /\ OneEntryIn(sinkTable)'
  BY <1>1, <1>3, <1>4, <1>5 DEF RemovedBut, Chain
<1>8. DeviceCmd("PROXY_LOOKUP", d) \in Chained
  BY <1>4, ChainedFacts DEF DeviceCmds, Content
<1>9. sinkTable \in [0 .. SinkSize - 1 -> Content] /\ SinkSize \in 1 .. 255
  BY SinkAssumption DEF TypeOK
<1>10. RemoveStage(d)'
  <2>1. CASE i # NoIndex
    <3>1. i \in DOMAIN sinkTable /\ sinkTable[i] = d /\ i \in Indices
      BY <1>3, <1>9, <2>1, FindFacts
    <3>2. Sends(<<IndexCmd("SINK_REMOVE_ENTRY", i), DeviceCmd("PROXY_LOOKUP", d)>>)
      BY <1>6, <2>1, TwoCommands
    <3>3. IndexCmd("SINK_REMOVE_ENTRY", i) \in Chained
      BY <3>1, ChainedFacts DEF IndexCmds
    <3>4. BothWait(IndexCmd("SINK_REMOVE_ENTRY", i), DeviceCmd("PROXY_LOOKUP", d))'
      BY <1>1, <1>4, <1>8, <3>2, <3>3, ChainSends
    <3> QED BY <1>5, <1>7, <3>1, <3>4 DEF RemoveStage
  <2>2. CASE i = NoIndex
    <3>1. Sends(<<DeviceCmd("PROXY_LOOKUP", d)>>)
      BY <1>6, <2>2, TwoCommands
    <3>2. Waits(DeviceCmd("PROXY_LOOKUP", d))'
      BY <1>1, <1>4, <1>8, <3>1, ChainSends
    <3>3. d \notin Contents(sinkTable)
      BY <1>3, <1>9, <2>2, NotFound
    <3> QED BY <1>5, <1>7, <3>2, <3>3 DEF RemoveStage
  <2> QED BY <2>1, <2>2
<1>11. Removes'
  BY <1>1, <1>4, <1>7, <1>10 DEF Removes
<1> QED BY <1>2, <1>5, <1>7, <1>11 DEF Chain, Registering

LEMMA ChainLooksUpPairing ==
  ASSUME TypeOK, TypeOK', ListsNotEmpty, Chain, ProxyLookupAnswered
  PROVE  Chain'
<1>1. /\ commands # <<>> /\ Head(commands).cmd = "PROXY_LOOKUP"
      /\ Head(commands) \in Chained /\ lastOp' = lastOp
  BY FrontFacts DEF ProxyLookupAnswered, OtherCmds
<1>2. sink_state = "SINK_REMOVE_IN_PROGRESS"
  BY <1>1, HeadTells DEF TypeOK, SinkStates, Commissioning, Requested, Registering
<1>3. PICK d, list, rest : d = Head(list) /\ list = gpds_to_remove /\ rest = Tail(list)
  OBVIOUS
<1>4. /\ RemovedBut({}) /\ Head(commands).device = d /\ d \notin Contents(sinkTable)
      /\ ~InQueue(Chained, Tail(commands)) /\ d \in Devices /\ lastOp.op = "remove"
  BY <1>1, <1>2, <1>3, RemoveAt
<1>5. list \in Seq(Devices) /\ list # <<>> /\ rest \in Seq(Devices)
  BY <1>2, <1>3, HeadTailFacts DEF TypeOK, ListsNotEmpty
<1>6. gpds_to_remove' = rest /\ UNCHANGED <<sinkTable, proxyTable>>
  BY <1>2, <1>3 DEF ProxyLookupAnswered, tableVars
<1>7. PICK unpair :
        /\ unpair = IF Find(proxyTable, d) # NoIndex THEN <<DeviceCmd("REMOVE_PAIRING", d)>> ELSE <<>>
        /\ IF rest = <<>> THEN Ends(unpair)
           ELSE GoesOn(Append(unpair, DeviceCmd("SINK_LOOKUP", list[2])))
  BY <1>2, <1>3, <1>4 DEF ProxyLookupAnswered
<1>8. /\ lastOp.devices \cap Contents(sinkTable) \subseteq Elements(rest)
      /\ lastOp.devices \cap Contents(proxyTable) \subseteq {d} \cup Elements(rest)
      /\ unpair = <<>> => lastOp.devices \cap Contents(proxyTable) \subseteq Elements(rest)
  <2>1. Elements(list) \subseteq {d} \cup Elements(rest)
    BY <1>3, <1>5, ElementsFacts
  <2>2. Find(proxyTable, d) = NoIndex => d \notin Contents(proxyTable)
    BY NotFound, SinkAssumption DEF TypeOK
  <2>3. unpair = <<>> => Find(proxyTable, d) = NoIndex
    BY <1>7
  <2> QED BY <1>3, <1>4, <2>1, <2>2, <2>3 DEF RemovedBut
<1>9. DeviceCmd("REMOVE_PAIRING", d) \in Chained /\ OneEntryIn(sinkTable)'
  BY <1>4, <1>6, ChainedFacts DEF DeviceCmds, Content, Chain
<1>10. CASE rest = <<>>
  <2>1. sink_state' = "SINK_READY" /\ Sends(unpair)
    BY <1>7, <1>10 DEF Ends, SetSinkState
  <2>2. Elements(rest) = {}
    BY <1>10 DEF Elements
  <2>3. CASE unpair = <<DeviceCmd("REMOVE_PAIRING", d)>>
    <3>1. Waits(DeviceCmd("REMOVE_PAIRING", d))'
      BY <1>1, <1>4, <1>9, <2>1, <2>3, ChainSends
    <3>2. Unpairs(d)'
      BY <1>1, <1>4, <1>6, <1>8, <2>2, <3>1 DEF Unpairs
    <3> QED BY <1>4, <1>9, <2>1, <3>2 DEF Chain, Rests, Registering
  <2>4. CASE unpair = <<>>
    <3>1. Idle'
      BY <1>1, <1>4, <2>1, <2>4, ChainSends
    <3>2. Achieved'
      BY <1>1, <1>4, <1>6, <1>8, <2>2, <2>4 DEF Achieved
    <3> QED BY <1>9, <2>1, <3>1, <3>2 DEF Chain, Rests, Registering
  <2> QED BY <1>7, <2>3, <2>4
<1>11. CASE rest # <<>>
  <2>1. PICK e : e = Head(rest)
    OBVIOUS
  <2>2. e = list[2] /\ e \in Devices
    BY <1>3, <1>5, <1>11, <2>1
  <2>3. sink_state' = "SINK_REMOVE_IN_PROGRESS" /\ Sends(Append(unpair, DeviceCmd("SINK_LOOKUP", e)))
    BY <1>2, <1>7, <1>11, <2>2 DEF GoesOn
  <2>4. DeviceCmd("SINK_LOOKUP", e) \in Chained
    BY <2>2, ChainedFacts DEF DeviceCmds, Content
  <2>5. Head(gpds_to_remove)' = e
    BY <1>6, <2>1
  <2>6. RemoveStage(e)'
    <3>1. CASE unpair = <<DeviceCmd("REMOVE_PAIRING", d)>>
      <4>1. Sends(<<DeviceCmd("REMOVE_PAIRING", d), DeviceCmd("SINK_LOOKUP", e)>>)
        BY <2>3, <3>1, TwoCommands
      <4>2. BothWait(DeviceCmd("REMOVE_PAIRING", d), DeviceCmd("SINK_LOOKUP", e))'
        BY <1>1, <1>4, <1>9, <2>4, <4>1, ChainSends
      <4>3. RemovedBut({d})'
        BY <1>1, <1>6, <1>8 DEF RemovedBut
      <4> QED BY <1>4, <4>2, <4>3 DEF RemoveStage
    <3>2. CASE unpair = <<>>
      <4>1. Sends(<<DeviceCmd("SINK_LOOKUP", e)>>)
        BY <2>3, <3>2, TwoCommands
      <4>2. Waits(DeviceCmd("SINK_LOOKUP", e))'
        BY <1>1, <1>4, <2>4, <4>1, ChainSends
      <4>3. RemovedBut({})'
        BY <1>1, <1>6, <1>8, <3>2 DEF RemovedBut
      <4> QED BY <4>2, <4>3 DEF RemoveStage
    <3> QED BY <1>7, <3>1, <3>2
  <2>7. Removes'
    BY <1>1, <1>4, <2>5, <2>6 DEF Removes
  <2> QED BY <1>9, <2>3, <2>7 DEF Chain, Registering
<1> QED BY <1>10, <1>11

(* All is cleared: the sink table first, then the pairings one by one.       *)
LEMMA ClearAt ==
  ASSUME TypeOK, Chain, sink_state = "SINK_CLEAR_ALL", commands # <<>>, Head(commands) \in Chained
  PROVE  /\ lastOp.op = "clear"
         /\ Head(commands).cmd = "SINK_CLEAR_ALL" =>
              /\ FirstClear => proxy_table_index = 0
              /\ Alone(Chained, Tail(commands), IndexCmd("PROXY_GET_ENTRY", 0))
         /\ Head(commands).cmd = "PROXY_GET_ENTRY" =>
              /\ Contents(sinkTable) = {} /\ ~InQueue(Chained, Tail(commands))
              /\ FirstClear => /\ Head(commands).index = proxy_table_index
                               /\ FreeBelow(proxy_table_index)
         /\ Head(commands).cmd = "REMOVE_PAIRING" =>
              /\ Contents(sinkTable) = {} /\ ~InQueue(Chained, Tail(commands))
              /\ Head(commands).device \in Content
              /\ FirstClear => /\ proxy_table_index \in DOMAIN proxyTable
                               /\ proxyTable[proxy_table_index] = Head(commands).device
                               /\ FreeBelow(proxy_table_index)
<1> DEFINE h == Head(commands)
           t == Tail(commands)
<1>1. lastOp.op = "clear" /\ ClearStage
  BY DEF Chain, Clears
<1>2. /\ \A x : Waits(x) => h = x /\ ~InQueue(Chained, t)
      /\ \A x, y : BothWait(x, y) => h = x /\ Alone(Chained, t, y)
  BY TakenFromChain
<1>3. /\ \A c, e : DeviceCmd(c, e).cmd = c /\ DeviceCmd(c, e).device = e
      /\ \A c, i : IndexCmd(c, i).cmd = c /\ IndexCmd(c, i).index = i
      /\ Cmd("SINK_CLEAR_ALL").cmd = "SINK_CLEAR_ALL"
  BY DEF DeviceCmd, IndexCmd, Cmd
<1> HIDE DEF h, t
<1>4. CASE /\ FirstClear => proxy_table_index = 0
           /\ BothWait(Cmd("SINK_CLEAR_ALL"), IndexCmd("PROXY_GET_ENTRY", 0))
  BY <1>1, <1>2, <1>3, <1>4 DEF h, t
<1>5. ASSUME Contents(sinkTable) = {}, NEW i \in Indices, Waits(IndexCmd("PROXY_GET_ENTRY", i)),
             FirstClear => i = proxy_table_index /\ FreeBelow(i)
      PROVE  /\ h.cmd = "PROXY_GET_ENTRY" /\ ~InQueue(Chained, t)
             /\ FirstClear => h.index = proxy_table_index /\ FreeBelow(proxy_table_index)
  <2>1. h = IndexCmd("PROXY_GET_ENTRY", i) /\ ~InQueue(Chained, t)
    BY <1>2, <1>5
  <2> QED BY <1>3, <1>5, <2>1
<1>6. ASSUME Contents(sinkTable) = {}, NEW e \in Content, Waits(DeviceCmd("REMOVE_PAIRING", e)),
             FirstClear => /\ proxy_table_index \in DOMAIN proxyTable
                           /\ proxyTable[proxy_table_index] = e
                           /\ FreeBelow(proxy_table_index)
      PROVE  /\ h.cmd = "REMOVE_PAIRING" /\ ~InQueue(Chained, t) /\ h.device \in Content
             /\ FirstClear => /\ proxy_table_index \in DOMAIN proxyTable
                              /\ proxyTable[proxy_table_index] = h.device
                              /\ FreeBelow(proxy_table_index)
  <2>1. h = DeviceCmd("REMOVE_PAIRING", e) /\ ~InQueue(Chained, t)
    BY <1>2, <1>6
  <2> QED BY <1>3, <1>6, <2>1
<1> QED BY <1>1, <1>4, <1>5, <1>6 DEF ClearStage, h, t

(* A pairing is removed: the last step of a removal, or one of several.      *)
LEMMA ChainUnpairs ==
  ASSUME TypeOK, TypeOK', ListsNotEmpty, Chain, PairingAnswered,
         Head(commands).cmd = "REMOVE_PAIRING"
  PROVE  Chain'
<1>1. /\ commands # <<>> /\ Head(commands) \in Chained /\ lastOp' = lastOp
  BY FrontFacts DEF PairingAnswered, Pairings, OtherCmds
<1>2. sink_state \in {"SINK_READY", "SINK_REMOVE_IN_PROGRESS", "SINK_CLEAR_ALL"}
  BY <1>1, HeadTells DEF TypeOK, SinkStates, Commissioning, Requested, Registering
<1>3. /\ sinkTable' = sinkTable /\ gpds_to_remove' = gpds_to_remove
      /\ proxyTable' = Unpaired(Head(commands).device) /\ mishaps' = mishaps
  BY DEF PairingAnswered, PairingExecuted
<1>4. OneEntryIn(sinkTable)'
  BY <1>3 DEF Chain
<1>5. \A c, e : DeviceCmd(c, e).device = e
  BY DEF DeviceCmd
<1>6. CASE sink_state = "SINK_READY"
  <2>1. PICK d \in Devices : Unpairs(d)
    BY <1>1, <1>6, TakenFromChain DEF Chain, Rests
  <2>2. Head(commands) = DeviceCmd("REMOVE_PAIRING", d) /\ ~InQueue(Chained, Tail(commands))
    BY <1>1, <2>1, TakenFromChain DEF Unpairs
  <2>3. Sends(<<>>) /\ sink_state' = sink_state
    BY <1>6 DEF PairingAnswered, GoesOn, Registering
  <2>4. Idle'
    BY <1>1, <2>2, <2>3, ChainSends
  <2>5. Contents(proxyTable') = Contents(proxyTable) \ {d}
    BY <1>3, <1>5, <2>2, UnpairedFacts DEF Content
  <2>6. Achieved'
    BY <1>1, <1>3, <2>1, <2>5 DEF Achieved, Unpairs
  <2> QED BY <1>4, <1>6, <2>3, <2>4, <2>6 DEF Chain, Rests, Registering
<1>7. CASE sink_state = "SINK_REMOVE_IN_PROGRESS"
  <2>1. PICK d : d = Head(gpds_to_remove)
    OBVIOUS
  <2>2. PICK e \in Devices : /\ RemovedBut({e}) /\ Head(commands).device = e
                             /\ Alone(Chained, Tail(commands), DeviceCmd("SINK_LOOKUP", d))
    BY <1>1, <1>7, <2>1, RemoveAt
  <2>3. lastOp.op = "remove"
    BY <1>1, <1>7, <2>1, RemoveAt
  <2>4. Sends(<<>>) /\ sink_state' = sink_state
    BY <1>7 DEF PairingAnswered, GoesOn, Registering
  <2>5. Waits(DeviceCmd("SINK_LOOKUP", d))'
    BY <1>1, <2>2, <2>4, ChainSends
  <2>6. Contents(proxyTable') = Contents(proxyTable) \ {e}
    BY <1>3, <2>2, UnpairedFacts DEF Content
  <2>7. RemovedBut({})'
    BY <1>1, <1>3, <2>2, <2>6 DEF RemovedBut
  <2>8. Head(gpds_to_remove)' = d
    BY <1>3, <2>1
  <2>9. Removes'
    BY <1>1, <2>3, <2>5, <2>7, <2>8 DEF Removes, RemoveStage
  <2> QED BY <1>4, <1>7, <2>4, <2>9 DEF Chain, Registering
<1>8. CASE sink_state = "SINK_CLEAR_ALL"
  <2>1. PICK i, d, n : i = proxy_table_index /\ d = Head(commands).device /\ n = (i + 1) % 256
    OBVIOUS
  <2>2. /\ lastOp.op = "clear" /\ Contents(sinkTable) = {} /\ ~InQueue(Chained, Tail(commands))
        /\ d \in Content
        /\ FirstClear => i \in DOMAIN proxyTable /\ proxyTable[i] = d /\ FreeBelow(i)
    BY <1>1, <1>8, <2>1, ClearAt
  <2>3. /\ proxy_table_index' = n /\ Sends(<<IndexCmd("PROXY_GET_ENTRY", n)>>)
        /\ sink_state' = sink_state
    BY <1>8, <2>1 DEF PairingAnswered, GoesOn, Registering
  <2>4. n \in Indices /\ i \in Indices
    BY <2>1 DEF TypeOK, Indices, NoIndex
  <2>5. IndexCmd("PROXY_GET_ENTRY", n) \in Chained
    BY <2>4, ChainedFacts DEF IndexCmds
  <2>6. Waits(IndexCmd("PROXY_GET_ENTRY", n))'
    BY <1>1, <2>2, <2>3, <2>5, ChainSends
  <2>7. ASSUME FirstClear PROVE FreeBelow(n)'
    <3>1. DOMAIN proxyTable = 0 .. ProxySize - 1 /\ ProxySize \in 1 .. 255
      BY SinkAssumption DEF TypeOK
    <3>2. n = i + 1
      BY <2>1, <2>2, <2>7, <3>1
    <3>3. /\ DOMAIN proxyTable' = DOMAIN proxyTable
          /\ \A j \in DOMAIN proxyTable :
               /\ proxyTable[j] = NoDevice => proxyTable'[j] = NoDevice
               /\ proxyTable[j] = d => proxyTable'[j] = NoDevice
      BY <1>3, <2>1, <2>2, UnpairedFacts
    <3>4. ASSUME NEW j \in DOMAIN proxyTable, j < n PROVE proxyTable'[j] = NoDevice
      <4>1. j < i \/ j = i
        BY <2>4, <3>1, <3>2, <3>4 DEF Indices, NoIndex
      <4> QED BY <2>2, <2>7, <3>3, <4>1 DEF FreeBelow
    <3> QED BY <3>3, <3>4 DEF FreeBelow
  <2>8. FirstClear' = FirstClear /\ Contents(sinkTable)' = {}
    BY <1>3, <2>2 DEF FirstClear
  <2>9. ClearStage'
    BY <2>3, <2>4, <2>6, <2>7, <2>8 DEF ClearStage
  <2>10. Clears'
    BY <1>1, <2>2, <2>9 DEF Clears
  <2> QED BY <1>4, <1>8, <2>3, <2>10 DEF Chain, Registering
<1> QED BY <1>2, <1>6, <1>7, <1>8

LEMMA ChainGetsPairing ==
  ASSUME TypeOK, TypeOK', Chain, ProxyGetEntryAnswered
  PROVE  Chain'
<1>1. /\ commands # <<>> /\ Head(commands).cmd = "PROXY_GET_ENTRY"
      /\ Head(commands) \in Chained /\ lastOp' = lastOp
  BY FrontFacts DEF ProxyGetEntryAnswered, OtherCmds
<1>2. sink_state = "SINK_CLEAR_ALL"
  BY <1>1, HeadTells DEF TypeOK, SinkStates, Commissioning, Requested, Registering
<1>3. PICK i : i = Head(commands).index
  OBVIOUS
<1>4. /\ lastOp.op = "clear" /\ Contents(sinkTable) = {} /\ ~InQueue(Chained, Tail(commands))
      /\ FirstClear => i = proxy_table_index /\ FreeBelow(i)
  BY <1>1, <1>2, <1>3, ClearAt
<1>5. UNCHANGED <<sinkTable, proxyTable, proxy_table_index, mishaps>>
  BY DEF ProxyGetEntryAnswered, tableVars
<1>6. OneEntryIn(sinkTable)' /\ FirstClear' = FirstClear /\ Contents(sinkTable)' = {}
  BY <1>4, <1>5 DEF Chain, FirstClear
<1>7. CASE i \in DOMAIN proxyTable /\ GoesOn(<<DeviceCmd("REMOVE_PAIRING", proxyTable[i])>>)
  <2>1. PICK d : d = proxyTable[i]
    OBVIOUS
  <2>2. d \in Content
    BY <1>7, <2>1 DEF TypeOK
  <2>3. DeviceCmd("REMOVE_PAIRING", d) \in Chained
    BY <2>2, ChainedFacts DEF DeviceCmds
  <2>4. sink_state' = sink_state /\ Sends(<<DeviceCmd("REMOVE_PAIRING", d)>>)
    BY <1>7, <2>1 DEF GoesOn
  <2>5. Waits(DeviceCmd("REMOVE_PAIRING", d))'
    BY <1>1, <1>4, <2>3, <2>4, ChainSends
  <2>6. FirstClear' => /\ (proxy_table_index \in DOMAIN proxyTable)'
                       /\ (proxyTable[proxy_table_index] = d)'
                       /\ FreeBelow(proxy_table_index)'
    BY <1>4, <1>5, <1>6, <1>7, <2>1 DEF FreeBelow
  <2>7. ClearStage'
    BY <1>6, <2>2, <2>5, <2>6 DEF ClearStage, Content
  <2>8. Clears'
    BY <1>1, <1>4, <2>7 DEF Clears
  <2> QED BY <1>2, <1>6, <2>4, <2>8 DEF Chain, Registering
<1>8. CASE i \notin DOMAIN proxyTable /\ Ends(<<>>)
  <2>1. sink_state' = "SINK_READY" /\ Sends(<<>>)
    BY <1>8 DEF Ends, SetSinkState
  <2>2. Idle'
    BY <1>1, <1>4, <2>1, ChainSends
  <2>3. ASSUME FirstClear PROVE Contents(proxyTable) = {}
    <3>1. i \in Indices
      BY <1>4, <2>3 DEF TypeOK
    <3>2. \A j \in DOMAIN proxyTable : j < i
      BY <1>8, <3>1, SinkAssumption DEF TypeOK, Indices, NoIndex
    <3> QED BY <1>4, <2>3, <3>2, ContentsFacts DEF FreeBelow
  <2>4. Achieved'
    BY <1>1, <1>4, <1>5, <1>6, <2>3 DEF Achieved
  <2> QED BY <1>6, <2>1, <2>2, <2>4 DEF Chain, Rests, Registering
<1> QED BY <1>2, <1>3, <1>7, <1>8 DEF ProxyGetEntryAnswered

(* The commands whose response nobody waits for.                             *)
LEMMA ChainOthers ==
  ASSUME TypeOK, TypeOK', ListsNotEmpty, Chain, OtherAnswered
  PROVE  Chain'
<1>1. /\ Sends(<<>>) /\ commands # <<>>
      /\ UNCHANGED <<sink_state, listVars, entryVars, proxy_table_index, proxyTable, mishaps,
                     lastOp>>
  BY DEF OtherAnswered, GoesOn, Answered
<1>2. FirstClear' = FirstClear /\ gpds_to_remove' = gpds_to_remove
  BY <1>1 DEF FirstClear, listVars
<1>3. CASE Answered({"SINK_CLEAR_ALL"}) /\ sinkTable' = Unused(SinkSize)
  <2>1. Head(commands).cmd = "SINK_CLEAR_ALL" /\ Head(commands) \in Chained
    BY <1>3, FrontFacts DEF OtherCmds
  <2>2. sink_state = "SINK_CLEAR_ALL"
    BY <1>1, <2>1, HeadTells DEF TypeOK, SinkStates, Commissioning, Requested, Registering
  <2>3. /\ lastOp.op = "clear" /\ (FirstClear => proxy_table_index = 0)
        /\ Alone(Chained, Tail(commands), IndexCmd("PROXY_GET_ENTRY", 0))
    BY <1>1, <2>1, <2>2, ClearAt
  <2>4. Waits(IndexCmd("PROXY_GET_ENTRY", 0))'
    BY <1>1, <2>3, ChainSends
  <2>5. Contents(sinkTable)' = {} /\ OneEntryIn(sinkTable)'
    BY <1>3, UnusedFacts, SinkAssumption
  <2>6. FirstClear' => 0 = proxy_table_index' /\ FreeBelow(0)'
    <3>1. DOMAIN proxyTable' = 0 .. ProxySize - 1
      BY DEF TypeOK
    <3>2. FreeBelow(0)'
      BY <3>1, SinkAssumption DEF FreeBelow
    <3> QED BY <1>1, <1>2, <2>3, <3>2
  <2>7. 0 \in Indices
    BY DEF Indices, NoIndex
  <2>8. Clears'
    BY <1>1, <2>3, <2>4, <2>5, <2>6, <2>7 DEF Clears, ClearStage
  <2> QED BY <1>1, <2>2, <2>5, <2>8 DEF Chain, Registering
<1>4. CASE /\ Answered({"SINK_REMOVE_ENTRY"})
           /\ sinkTable' = [sinkTable EXCEPT ![Head(commands).index] = NoDevice]
  <2>1. Head(commands).cmd = "SINK_REMOVE_ENTRY" /\ Head(commands) \in Chained
    BY <1>4, FrontFacts DEF OtherCmds
  <2>2. sink_state = "SINK_REMOVE_IN_PROGRESS"
    BY <1>1, <2>1, HeadTells DEF TypeOK, SinkStates, Commissioning, Requested, Registering
  <2>3. PICK d : d = Head(gpds_to_remove)
    OBVIOUS
  <2>4. PICK i \in DOMAIN sinkTable :
          /\ RemovedBut({}) /\ sinkTable[i] = d /\ Head(commands).index = i
          /\ Alone(Chained, Tail(commands), DeviceCmd("PROXY_LOOKUP", d))
    BY <1>1, <2>1, <2>2, <2>3, RemoveAt
  <2>5. d \in Devices /\ lastOp.op = "remove"
    BY <1>1, <2>1, <2>2, <2>3, RemoveAt
  <2>6. /\ sinkTable \in [0 .. SinkSize - 1 -> Content] /\ SinkSize \in 1 .. 255
        /\ sinkTable[i] # NoDevice /\ OneEntryIn(sinkTable)
    BY <2>4, <2>5, SinkAssumption DEF TypeOK, Chain
  <2>7. Contents(sinkTable') = Contents(sinkTable) \ {d} /\ OneEntryIn(sinkTable')
    BY <1>4, <2>4, <2>6, FreedFacts
  <2>8. Waits(DeviceCmd("PROXY_LOOKUP", d))'
    BY <1>1, <2>4, ChainSends
  <2>9. RemovedBut({})' /\ d \notin Contents(sinkTable)' /\ Head(gpds_to_remove)' = d
    BY <1>1, <1>2, <2>3, <2>4, <2>7 DEF RemovedBut
  <2>10. Removes'
    BY <1>1, <2>5, <2>8, <2>9 DEF Removes, RemoveStage
  <2> QED BY <1>1, <2>2, <2>7, <2>10 DEF Chain, Registering
<1>5. CASE Answered(OtherCmds) /\ UNCHANGED sinkTable
  <2>1. Head(commands) \notin Chained
    BY <1>5, FrontFacts DEF Chained
  <2>2. commands' = Tail(commands)
    <3>1. Tail(commands) \in Seq(EzspCommands)
      BY <1>1, SeqFacts DEF TypeOK
    <3> QED BY <1>1, <3>1 DEF Sends
  <2>3. SameOf(Chained, commands, commands')
    BY <1>1, <2>1, <2>2, SameOfTail DEF TypeOK
  <2> QED BY <1>1, <1>2, <1>5, <2>3, ChainUntouched DEF Succeeds, tableVars
<1> QED BY <1>3, <1>4, <1>5 DEF OtherAnswered

LEMMA ChainInit == Init => Chain
<1> SUFFICES ASSUME Init PROVE Chain
  OBVIOUS
<1>1. Idle
  BY DEF Init, Idle, InQueue
<1>2. PICK known \in Lists(MaxList) : /\ \A i, j \in 1 .. Len(known) : known[i] = known[j] => i = j
                                      /\ sinkTable = Filled(SinkSize, known)
  BY DEF Init, SinkInit
<1>3. Len(known) \in Nat
  BY <1>2, ListFacts
<1>4. ASSUME NEW i \in DOMAIN sinkTable, NEW j \in DOMAIN sinkTable, sinkTable[i] = sinkTable[j],
             sinkTable[i] # NoDevice
      PROVE  i = j
  <2>1. /\ i \in Int /\ j \in Int /\ i >= 0 /\ j >= 0
        /\ sinkTable[i] = IF i < Len(known) THEN known[i + 1] ELSE NoDevice
        /\ sinkTable[j] = IF j < Len(known) THEN known[j + 1] ELSE NoDevice
    BY <1>2, SinkAssumption DEF Filled
  <2>2. i < Len(known) /\ j < Len(known)
    BY <1>4, <2>1
  <2>3. i + 1 \in 1 .. Len(known) /\ j + 1 \in 1 .. Len(known)
    BY <1>3, <2>1, <2>2
  <2>4. i + 1 = j + 1
    BY <1>2, <1>4, <2>1, <2>2, <2>3
  <2> QED BY <2>1, <2>4
<1> QED BY <1>1, <1>4 DEF Chain, OneEntryIn, Init, SinkInit, Registering

LEMMA MishapsStay == [Next]_vars => mishaps \subseteq mishaps'
<1> SUFFICES ASSUME [Next]_vars PROVE mishaps \subseteq mishaps'
  OBVIOUS
<1> USE DEF Happens
<1>1. CASE NetworkUp
  BY <1>1 DEF NetworkUp, Begins
<1>2. CASE UserRequests
  BY <1>2 DEF UserRequests, AddGPDevices, RemoveGPDevices, ClearAllGPDevices, RequestRefused,
              OpenCommissioningSession, CloseCommissioningSession, Begins
<1>3. ASSUME NEW d \in Devices, CommissioningFrame(d) PROVE mishaps \subseteq mishaps'
  BY <1>3 DEF CommissioningFrame, Begins
<1>4. CASE HandleEzspRxMessage
  BY <1>4 DEF HandleEzspRxMessage, FindOrAllocateAnswered, GetEntryAnswered, SetEntryAnswered,
              SinkLookupAnswered, ProxyLookupAnswered, ProxyGetEntryAnswered, PairingAnswered,
              PairingExecuted, OtherAnswered
<1>5. CASE UNCHANGED vars
  BY <1>5 DEF vars, historyVars
<1> QED BY <1>1, <1>2, <1>3, <1>4, <1>5 DEF Next

LEMMA ChainStep ==
  ASSUME TypeOK, TypeOK', ListsNotEmpty, ChainInv, [Next]_vars
  PROVE  ChainInv'
<1> SUFFICES ASSUME "overlap" \notin mishaps' PROVE Chain'
  BY DEF ChainInv
<1>1. Chain
  BY MishapsStay DEF ChainInv
<1>2. OneEntryIn(sinkTable)
  BY <1>1 DEF Chain
<1>3. CASE NetworkUp
  BY <1>2, <1>3, ChainBeginsOthers
<1>4. ASSUME NEW list \in Lists(MaxList), RequestRefused(list) PROVE Chain'
  <2>1. SameOf(Chained, commands, commands')
    BY <1>4, SameOfSelf DEF RequestRefused, TypeOK
  <2>2. Succeeds' = Succeeds /\ FirstClear' = FirstClear
    BY <1>4 DEF RequestRefused, Happens, Succeeds, FirstClear
  <2> QED BY <1>1, <1>4, <2>1, <2>2, ChainUntouched DEF RequestRefused
<1>5. CASE UserRequests
  BY <1>2, <1>4, <1>5, ChainRequests, ChainBeginsOthers DEF UserRequests
<1>6. CASE \E d \in Devices : CommissioningFrame(d)
  BY <1>2, <1>6, ChainBeginsOthers
<1>7. CASE PairingAnswered
  <2>1. Head(commands).cmd \in {"ADD_PAIRING", "REMOVE_PAIRING"}
    BY <1>7 DEF PairingAnswered, Answered, Pairings
  <2> QED BY <1>1, <1>7, <2>1, ChainPairs, ChainUnpairs
<1>8. CASE HandleEzspRxMessage
  BY <1>1, <1>7, <1>8, ChainFinds, ChainGets, ChainSets, ChainLooksUp, ChainLooksUpPairing,
     ChainGetsPairing, ChainOthers DEF HandleEzspRxMessage
<1>9. CASE UNCHANGED vars
  <2>1. UNCHANGED <<sink_state, listVars, entryVars, proxy_table_index, commands, tableVars,
                    lastOp, mishaps>>
    BY <1>9 DEF vars, historyVars
  <2>2. SameOf(Chained, commands, commands')
    BY <2>1, SameOfSelf DEF TypeOK
  <2> QED BY <1>1, <2>1, <2>2, ChainUntouched DEF Succeeds, FirstClear
<1> QED BY <1>3, <1>5, <1>6, <1>8, <1>9 DEF Next

LEMMA ChainHolds == Spec => []ChainInv
<1>1. Init => ChainInv
  BY ChainInit DEF ChainInv
<1>2. TypeOK /\ TypeOK' /\ ListsNotEmpty /\ ChainInv /\ [Next]_vars => ChainInv'
  BY ChainStep
<1> QED BY <1>1, <1>2, SinkTypeCorrect, NeverPopsEmpty, PTL DEF Spec

(* No device has two entries in the sink table, unless an operation began    *)
(* before the commands of an earlier one were executed.                      *)
THEOREM OneEntryAlways == Spec => []OneEntryEach
<1>1. ChainInv => OneEntryEach
  BY DEF ChainInv, Chain, OneEntryIn, OneEntryEach
<1> QED BY <1>1, ChainHolds, PTL

(* "After invoking this method, we will start taking into [account] all      *)
(* messages from the GP devices provided as argument" (ezsp.h:222): when the *)
(* sink is ready again, every device that was added or commissioned is in    *)
(* both tables, unless there was no room for it, the adapter refused it, or  *)
(* the operation began before the commands of an earlier one were executed.  *)
THEOREM AddsAlone == Spec => []AddTakesEffectAlone
<1>1. ChainInv => AddTakesEffectAlone
  BY DEF ChainInv, Chain, Rests, Unpairs, Achieved, AddTakesEffectAlone, AddTakesEffect, Reported,
         InBoth, Succeeds
<1> QED BY <1>1, ChainHolds, PTL

(* A device that was removed is in the sink table no more when the sink is   *)
(* ready again, nor in the proxy table once the last command is executed;    *)
(* and no device is in either when all were cleared for the first time.      *)
THEOREM RemovesAlone == Spec => []RemovalTakesEffect
<1>1. TypeOK /\ ChainInv => RemovalTakesEffect
  <2> SUFFICES ASSUME TypeOK, ChainInv, Reported, "overlap" \notin mishaps
               PROVE  /\ lastOp.op = "remove" =>
                           /\ lastOp.devices \cap Contents(sinkTable) = {}
                           /\ ~Leftover => lastOp.devices \cap Contents(proxyTable) = {}
                      /\ "secondClear" \notin mishaps /\ lastOp.op = "clear" =>
                           Contents(sinkTable) = {} /\ Contents(proxyTable) = {}
    BY DEF RemovalTakesEffect, ClearTakesEffect
  <2>1. Rests
    BY DEF ChainInv, Chain, Reported
  <2>2. CASE Idle /\ Achieved
    BY <2>2 DEF Achieved, FirstClear
  <2>3. ASSUME NEW d \in Devices, Unpairs(d) PROVE Leftover
    <3>1. DeviceCmd("REMOVE_PAIRING", d) \in Chained
      BY ChainedFacts DEF DeviceCmds, Content
    <3>2. ~Idle
      BY <2>3, <3>1 DEF Unpairs, Waits, Idle, Alone, InQueue
    <3> QED BY <3>2, LeftoverIsChained
  <2>4. ASSUME NEW d \in Devices, Unpairs(d)
        PROVE  lastOp.op = "remove" /\ lastOp.devices \cap Contents(sinkTable) = {}
    BY <2>4 DEF Unpairs
  <2> QED BY <2>1, <2>2, <2>3, <2>4 DEF Rests
<1> QED BY <1>1, ChainHolds, SinkTypeCorrect, PTL

-----------------------------------------------------------------------------
(* What a response leaves as it was, for those who use the sink.             *)
LEMMA ResponseLeaves ==
  ASSUME HandleEzspRxMessage
  PROVE  /\ lastOp' = lastOp /\ mishaps \subseteq mishaps'
         /\ mishaps' \subseteq mishaps \cup {"full", "setFails"}
         /\ sink_state' \in {sink_state, "SINK_READY"}
         /\ gpds_to_register' # gpds_to_register => gpds_to_register' = Tail(gpds_to_register)
         /\ proxy_table_index' # proxy_table_index => sink_state = "SINK_CLEAR_ALL"
<1> USE DEF Answered, GoesOn, Ends, SetSinkState, Happens, listVars, entryVars
<1>1. CASE FindOrAllocateAnswered
  BY <1>1 DEF FindOrAllocateAnswered
<1>2. CASE GetEntryAnswered
  BY <1>2 DEF GetEntryAnswered
<1>3. CASE SetEntryAnswered
  BY <1>3 DEF SetEntryAnswered
<1>4. CASE SinkLookupAnswered
  BY <1>4 DEF SinkLookupAnswered
<1>5. CASE ProxyLookupAnswered
  BY <1>5 DEF ProxyLookupAnswered
<1>6. CASE ProxyGetEntryAnswered
  BY <1>6 DEF ProxyGetEntryAnswered
<1>7. CASE PairingAnswered
  BY <1>7 DEF PairingAnswered, PairingExecuted, RegistersNext
<1>8. CASE OtherAnswered
  BY <1>8 DEF OtherAnswered
<1> QED BY <1>1, <1>2, <1>3, <1>4, <1>5, <1>6, <1>7, <1>8 DEF HandleEzspRxMessage

LEMMA PairedAtMost ==
  ASSUME TypeOK, NEW d
  PROVE  Contents(Paired(d)) \subseteq Contents(proxyTable) \cup {d}
<1> DEFINE i == Find(proxyTable, NoDevice)
<1>1. proxyTable \in [0 .. ProxySize - 1 -> Content]
  BY DEF TypeOK
<1>2. /\ DOMAIN Paired(d) = DOMAIN proxyTable
      /\ \A j \in DOMAIN proxyTable : Paired(d)[j] \in {proxyTable[j], d}
  BY <1>1 DEF Paired
<1> QED BY <1>2, ContentsFacts

(* A device that nobody is registering enters no table, and while devices    *)
(* are registered, or nothing that concerns devices is queued, none leaves.  *)
LEMMA OnlyCurrentEnters ==
  ASSUME TypeOK, Chain, HandleEzspRxMessage, sink_state \in Registering \/ Idle
  PROVE  /\ InBoth \subseteq InBoth'
         /\ \/ UNCHANGED tableVars
            \/ /\ sink_state \in Registering
               /\ (Contents(sinkTable) \cup Contents(proxyTable))'
                    \subseteq Contents(sinkTable) \cup Contents(proxyTable) \cup {Current}
<1>1. commands # <<>>
  BY DEF HandleEzspRxMessage, FindOrAllocateAnswered, GetEntryAnswered, SetEntryAnswered,
         SinkLookupAnswered, ProxyLookupAnswered, ProxyGetEntryAnswered, PairingAnswered,
         OtherAnswered, Answered
<1>2. CASE UNCHANGED tableVars
  BY <1>2 DEF tableVars, InBoth
<1>3. ASSUME ~UNCHANGED tableVars PROVE SetEntryAnswered \/ PairingAnswered \/ OtherAnswered
  BY <1>3 DEF HandleEzspRxMessage, FindOrAllocateAnswered, GetEntryAnswered, SinkLookupAnswered,
         ProxyLookupAnswered, ProxyGetEntryAnswered
<1>4. ASSUME ~UNCHANGED tableVars
      PROVE  /\ Head(commands) \in Chained /\ sink_state \in Registering
             /\ Head(commands).cmd \in {"FIND_OR_ALLOCATE_ENTRY", "SINK_GET_ENTRY",
                                        "SINK_SET_ENTRY", "ADD_PAIRING"}
  <2>1. Head(commands).cmd \notin OtherCmds
    <3>1. SetEntryAnswered => Head(commands).cmd \notin OtherCmds
      BY DEF SetEntryAnswered, Answered, OtherCmds
    <3>2. PairingAnswered => Head(commands).cmd \notin OtherCmds
      BY DEF PairingAnswered, Answered, OtherCmds, Pairings
    <3>3. OtherAnswered => Head(commands).cmd \notin OtherCmds
      BY <1>4 DEF OtherAnswered, Answered, OtherCmds, tableVars
    <3> QED BY <1>3, <1>4, <3>1, <3>2, <3>3
  <2>2. Head(commands) \in Chained
    BY <1>1, <2>1, SeqFacts DEF TypeOK, Chained
  <2>3. sink_state \in Registering
    BY <1>1, <2>2, TakenFromChain
  <2> QED BY <1>1, <2>2, <2>3, HeadTells
<1>5. CASE ~UNCHANGED tableVars /\ SetEntryAnswered
  <2>1. Head(commands).cmd = "SINK_SET_ENTRY"
    BY <1>5 DEF SetEntryAnswered, Answered
  <2>2. PICK i, d : i = sink_table_index /\ d = Current
    OBVIOUS
  <2>3. /\ SlotFor(i, d) /\ Head(commands).index = i /\ Head(commands).device = d /\ d \in Devices
    BY <1>1, <1>4, <1>5, <2>1, <2>2, RegisterAt DEF Chain, Registers, SetEntry
  <2>4. sinkTable' = [sinkTable EXCEPT ![i] = d] /\ UNCHANGED proxyTable
    BY <1>5, <2>3 DEF SetEntryAnswered, tableVars
  <2>5. sinkTable \in [0 .. SinkSize - 1 -> Content] /\ SinkSize \in 1 .. 255
    BY SinkAssumption DEF TypeOK
  <2>6. i \in DOMAIN sinkTable /\ sinkTable[i] \in {d, NoDevice}
    BY <2>3 DEF SlotFor
  <2>7. Contents(sinkTable') = Contents(sinkTable) \cup {d}
    BY <2>3, <2>4, <2>5, <2>6, WrittenFacts
  <2> QED BY <1>4, <1>5, <2>2, <2>4, <2>7 DEF InBoth
<1>6. CASE ~UNCHANGED tableVars /\ PairingAnswered
  <2>1. Head(commands).cmd = "ADD_PAIRING"
    BY <1>4, <1>6 DEF PairingAnswered, Answered, Pairings
  <2>2. PICK d : d = Current
    OBVIOUS
  <2>3. Head(commands).device = d
    BY <1>1, <1>4, <1>6, <2>1, <2>2, RegisterAt DEF Chain, Registers
  <2>4. proxyTable' = Paired(d) /\ UNCHANGED sinkTable
    BY <1>6, <2>1, <2>3 DEF PairingAnswered, PairingExecuted
  <2>5. /\ Contents(proxyTable) \subseteq Contents(proxyTable')
        /\ Contents(proxyTable') \subseteq Contents(proxyTable) \cup {d}
    BY <2>4, PairedFacts, PairedAtMost
  <2> QED BY <1>4, <1>6, <2>2, <2>4, <2>5 DEF InBoth
<1>7. CASE ~UNCHANGED tableVars /\ OtherAnswered
  BY <1>4, <1>7 DEF OtherAnswered, Answered, tableVars
<1> QED BY <1>2, <1>3, <1>5, <1>6, <1>7

LEMMA IdleIsNoLeftover ==
  ASSUME TypeOK, Idle
  PROVE  ~Leftover
<1>1. commands \in Seq(EzspCommands)
  BY DEF TypeOK
<1>2. \A i \in 1 .. Len(commands) : commands[i].cmd \in OtherCmds
  BY <1>1, SeqFacts DEF Idle, InQueue, Chained
<1>3. \A c \in OtherCmds :
        c \notin DeviceCmds \cup IndexCmds \cup {"SINK_CLEAR_ALL", "SINK_SET_ENTRY"}
  BY DEF OtherCmds, DeviceCmds, IndexCmds
<1> QED BY <1>2, <1>3 DEF Leftover, HasCmd
=============================================================================

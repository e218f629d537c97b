------------------------------- MODULE GpSink -------------------------------
(***************************************************************************)
(* CGpSink, which keeps the Green Power devices in the sink and proxy      *)
(* tables of the EZSP adapter, and the READY / SINK_BUSY states with which *)
(* CLibEzspMain guards it (the default build, without                      *)
(* USE_BUILTIN_MIC_PROCESSING).  An operation is a chain of EZSP commands, *)
(* each issued by the handler of the response to the one before; handlers  *)
(* tell responses apart by frame ID and sink_state only.                   *)
(*                                                                         *)
(* The commands go through CEzspDongle, which keeps the promise of         *)
(* CommandQueue: `commands` is executed from its head, and a step executes *)
(* one command and runs the handler of its response.  A vector that the    *)
(* code empties from its back is a sequence here whose head is that back.  *)
(***************************************************************************)
EXTENDS Naturals, Sequences

CONSTANTS
  Devices,    \* source IDs of Green Power devices
  NoDevice,   \* the content of an unused table entry
  SinkSize,   \* entries of the adapter's sink table
  ProxySize,  \* entries of the adapter's proxy table
  Env,        \* which mishaps this instance contains (see Mishaps)
  MaxList,    \* bound: devices in one request
  MaxOps      \* bound: requests, commissioning frames and NETWORK_UPs

Mishaps == {"overlap", "refused", "full", "setFails", "networkUp", "secondClear"}

ASSUME SinkAssumption ==
  /\ NoDevice \notin Devices
  /\ SinkSize \in 1 .. 255
  /\ ProxySize \in 1 .. 255
  /\ Env \subseteq Mishaps
  /\ MaxList \in Nat
  /\ MaxOps \in Nat

VARIABLES
  lib_state,                                  \* CLibEzspMain
  sink_state, gpds_to_register, gpds_to_remove,
  sink_table_index, sink_table_entry,         \* the device of the entry being written
  gpf_comm_frame,                             \* the device that is commissioning
  proxy_table_index,                          \* all of CGpSink
  commands,                                   \* the queue of CEzspDongle
  sinkTable, proxyTable,                      \* the tables of the adapter
  lastOp,     \* history: the last operation that was begun
  mishaps,    \* history: the mishaps so far
  ops         \* history: how many operations were asked for

listVars == <<gpds_to_register, gpds_to_remove>>
entryVars == <<sink_table_index, sink_table_entry, gpf_comm_frame>>
tableVars == <<sinkTable, proxyTable>>
historyVars == <<lastOp, mishaps, ops>>
vars == <<lib_state, sink_state, listVars, entryVars, proxy_table_index, commands,
          tableVars, historyVars>>

-----------------------------------------------------------------------------
NoIndex == 255                       \* 0xFF
Indices == 0 .. NoIndex
Content == Devices \cup {NoDevice}

LibStates == {"STACK_INIT", "SINK_BUSY", "READY"}
Commissioning == {"SINK_COM_OPEN", "SINK_COM_IN_PROGRESS"}
Registering == {"SINK_COM_IN_PROGRESS", "SINK_COM_OFFLINE_IN_PROGRESS"}
Requested == {"SINK_COM_OFFLINE_IN_PROGRESS", "SINK_CLEAR_ALL", "SINK_REMOVE_IN_PROGRESS"}
SinkStates == {"SINK_NOT_INIT", "SINK_READY"} \cup Commissioning \cup Requested

(* EZSP commands, under the end of their names.  Adding and removing a       *)
(* pairing are one command, EZSP_GP_PROXY_TABLE_PROCESS_GP_PAIRING.          *)
OtherCmds == {"GP_SINK_TABLE_INIT", "GET_NETWORK_PARAMETERS", "SEND_UNICAST"}
DeviceCmds == {"FIND_OR_ALLOCATE_ENTRY", "SINK_LOOKUP", "PROXY_LOOKUP", "ADD_PAIRING",
               "REMOVE_PAIRING"}
IndexCmds == {"SINK_GET_ENTRY", "SINK_REMOVE_ENTRY", "PROXY_GET_ENTRY"}
Pairings == {"ADD_PAIRING", "REMOVE_PAIRING"}

Cmd(c) == [cmd |-> c]
DeviceCmd(c, d) == [cmd |-> c, device |-> d]
IndexCmd(c, i) == [cmd |-> c, index |-> i]
SetEntry(i, d) == [cmd |-> "SINK_SET_ENTRY", index |-> i, device |-> d]

EzspCommands ==
  [cmd : OtherCmds \cup {"SINK_CLEAR_ALL"}] \cup [cmd : DeviceCmds, device : Content]
  \cup [cmd : IndexCmds, index : Indices]
  \cup [cmd : {"SINK_SET_ENTRY"}, index : Indices, device : Content]

HasCmd(s, C) == \E i \in 1 .. Len(s) : s[i].cmd \in C

Ops == [op : {"none", "add", "remove", "clear", "commission"}, devices : SUBSET Devices]

TypeOK ==
  /\ lib_state \in LibStates
  /\ sink_state \in SinkStates
  /\ gpds_to_register \in Seq(Devices)
  /\ gpds_to_remove \in Seq(Devices)
  /\ sink_table_index \in Indices
  /\ sink_table_entry \in Content
  /\ gpf_comm_frame \in Content
  /\ proxy_table_index \in Indices
  /\ commands \in Seq(EzspCommands)
  /\ sinkTable \in [0 .. SinkSize - 1 -> Content]
  /\ proxyTable \in [0 .. ProxySize - 1 -> Content]
  /\ lastOp \in Ops
  /\ mishaps \in SUBSET Mishaps
  /\ ops \in Nat

Contents(table) == {table[i] : i \in DOMAIN table} \ {NoDevice}
Unused(size) == [i \in 0 .. size - 1 |-> NoDevice]
Filled(size, devices) == [i \in 0 .. size - 1 |-> IF i < Len(devices) THEN devices[i + 1]
                                                                     ELSE NoDevice]
Lists(n) == UNION {[1 .. k -> Devices] : k \in 0 .. n}

(* The tables may hold devices of an earlier session.                        *)
SinkInit ==
  /\ sink_state = "SINK_NOT_INIT"
  /\ gpds_to_register = <<>> /\ gpds_to_remove = <<>>
  /\ sink_table_index = NoIndex /\ sink_table_entry = NoDevice
  /\ gpf_comm_frame = NoDevice
  /\ proxy_table_index = 0
  /\ \E known \in Lists(MaxList) :
       /\ Len(known) <= SinkSize /\ Len(known) <= ProxySize
       /\ \A i, j \in 1 .. Len(known) : known[i] = known[j] => i = j
       /\ sinkTable = Filled(SinkSize, known)
       /\ proxyTable = Filled(ProxySize, known)
  /\ lastOp = [op |-> "none", devices |-> {}]
  /\ mishaps = {} /\ ops = 0

(* The network is not up yet.                                                *)
Init == lib_state = "STACK_INIT" /\ commands = <<>> /\ SinkInit

-----------------------------------------------------------------------------
(* The tables, as the adapter keeps them.                                    *)

Find(table, d) ==
  IF d \in {table[i] : i \in DOMAIN table}
  THEN CHOOSE i \in DOMAIN table : table[i] = d ELSE NoIndex

FindOrAllocate(d) ==
  IF Find(sinkTable, d) # NoIndex THEN Find(sinkTable, d) ELSE Find(sinkTable, NoDevice)

Paired(d) ==
  IF d \in Contents(proxyTable) \/ Find(proxyTable, NoDevice) = NoIndex
  THEN proxyTable
  ELSE [proxyTable EXCEPT ![Find(proxyTable, NoDevice)] = d]

Unpaired(d) == [i \in DOMAIN proxyTable |-> IF proxyTable[i] = d THEN NoDevice
                                                                 ELSE proxyTable[i]]

-----------------------------------------------------------------------------
Happens(M) == M \subseteq Env /\ mishaps' = mishaps \cup M

(* An operation begins while commands of an earlier one are still queued.    *)
Leftover ==
  HasCmd(commands, DeviceCmds \cup IndexCmds \cup {"SINK_CLEAR_ALL", "SINK_SET_ENTRY"})
Overlap == IF Leftover THEN {"overlap"} ELSE {}

Begins(op, devices, M) ==
  /\ ops < MaxOps
  /\ ops' = ops + 1
  /\ lastOp' = [op |-> op, devices |-> devices]
  /\ Happens(Overlap \cup M)

(* Mutant: the library is not called back.                                   *)
SetSinkStateSilently(s, lib) == sink_state' = s /\ lib_state' = lib

(* setSinkState(s), with the callback that CLibEzspMain registered, which is *)
(* in state lib.                                                             *)
SetSinkState(s, lib) ==
  /\ sink_state' = s
  /\ lib_state' = IF s = "SINK_READY" /\ lib = "SINK_BUSY" THEN "READY" ELSE lib

(* EMBER_NETWORK_UP: the library initialises the sink, whatever it was doing.*)
NetworkUp ==
  /\ Begins("none", {}, IF sink_state = "SINK_NOT_INIT" THEN {} ELSE {"networkUp"})
  /\ SetSinkState("SINK_READY", "SINK_BUSY")
  /\ commands' = commands \o <<Cmd("GP_SINK_TABLE_INIT"), Cmd("GET_NETWORK_PARAMETERS")>>
  /\ UNCHANGED <<listVars, entryVars, proxy_table_index, tableVars>>

(* A request that the library and the sink accept, which issues `first`.     *)
RequestAccepted(state, first) ==
  /\ lib_state = "READY" /\ sink_state = "SINK_READY"
  /\ SetSinkState(state, "SINK_BUSY")
  /\ commands' = commands \o first
  /\ UNCHANGED <<entryVars, proxy_table_index, tableVars>>

AddGPDevices(list) ==
  /\ list # <<>>
  /\ Begins("add", {list[i] : i \in 1 .. Len(list)}, {})
  /\ RequestAccepted("SINK_COM_OFFLINE_IN_PROGRESS",
                     <<DeviceCmd("FIND_OR_ALLOCATE_ENTRY", Head(list))>>)
  /\ gpds_to_register' = list
  /\ UNCHANGED gpds_to_remove

RemoveGPDevices(list) ==
  /\ list # <<>>
  /\ Begins("remove", {list[i] : i \in 1 .. Len(list)}, {})
  /\ RequestAccepted("SINK_REMOVE_IN_PROGRESS", <<DeviceCmd("SINK_LOOKUP", Head(list))>>)
  /\ gpds_to_remove' = list
  /\ UNCHANGED gpds_to_register

ClearAllGPDevices ==
  /\ Begins("clear", Devices, IF proxy_table_index = 0 THEN {} ELSE {"secondClear"})
  /\ RequestAccepted("SINK_CLEAR_ALL",
                     <<Cmd("SINK_CLEAR_ALL"), IndexCmd("PROXY_GET_ENTRY", 0)>>)
  /\ UNCHANGED listVars

(* The library is busy from here on, although the sink refuses the request:  *)
(* it is not ready, or the list of devices to add or remove is empty.        *)
RequestRefused(list) ==
  /\ lib_state = "READY"
  /\ sink_state # "SINK_READY" \/ list = <<>>
  /\ ops < MaxOps /\ ops' = ops + 1
  /\ Happens({"refused"})
  /\ lib_state' = "SINK_BUSY"
  /\ UNCHANGED <<sink_state, listVars, entryVars, proxy_table_index, commands, tableVars,
                 lastOp>>

OpenCommissioningSession ==
  /\ lib_state = "READY"
  /\ Begins("none", {}, {})
  /\ commands' = Append(commands, Cmd("SEND_UNICAST"))
  /\ SetSinkState("SINK_COM_OPEN", lib_state)
  /\ UNCHANGED <<listVars, entryVars, proxy_table_index, tableVars>>

CloseCommissioningSession ==
  /\ lib_state = "READY"
  /\ Begins("none", {}, {})
  /\ commands' = Append(commands, Cmd("SEND_UNICAST"))
  /\ SetSinkState("SINK_READY", lib_state)
  /\ UNCHANGED <<listVars, entryVars, proxy_table_index, tableVars>>

(* A device asks to be commissioned; in other states nothing comes of it.    *)
CommissioningFrame(d) ==
  /\ sink_state = "SINK_COM_OPEN"
  /\ Begins("commission", {d}, {})
  /\ commands' = Append(commands, DeviceCmd("FIND_OR_ALLOCATE_ENTRY", d))
  /\ gpf_comm_frame' = d
  /\ SetSinkState("SINK_COM_IN_PROGRESS", lib_state)
  /\ UNCHANGED <<listVars, sink_table_index, sink_table_entry, proxy_table_index, tableVars>>

-----------------------------------------------------------------------------
(* Responses.  Answered(C): the response to one of the commands C is         *)
(* handled; Sends: what its handler sends.                                   *)

Answered(C) ==
  /\ commands # <<>> /\ Head(commands).cmd \in C
  /\ UNCHANGED <<lastOp, ops>>

Sends(cmds) == commands' = Tail(commands) \o cmds

GoesOn(cmds) == Sends(cmds) /\ UNCHANGED <<lib_state, sink_state>>
Ends(cmds) == Sends(cmds) /\ SetSinkState("SINK_READY", lib_state)

FindOrAllocateAnswered ==
  /\ Answered({"FIND_OR_ALLOCATE_ENTRY"})
  /\ LET i == FindOrAllocate(Head(commands).device)
     IN \/ /\ sink_state \in Registering /\ i # NoIndex
           /\ sink_table_index' = i
           /\ GoesOn(<<IndexCmd("SINK_GET_ENTRY", i)>>)
           /\ UNCHANGED mishaps
        \/ /\ sink_state \in Registering /\ i = NoIndex
           /\ sink_table_index' = i
           /\ Ends(<<>>)
           /\ Happens({"full"})
        \/ /\ sink_state \notin Registering
           /\ GoesOn(<<>>)
           /\ UNCHANGED <<sink_table_index, mishaps>>
  /\ UNCHANGED <<listVars, sink_table_entry, gpf_comm_frame, proxy_table_index, tableVars>>

(* The entry that is written is that of the device at the back of the list,  *)
(* or of the commissioning frame, at the index that was found last.          *)
GetEntryAnswered ==
  /\ Answered({"SINK_GET_ENTRY"})
  /\ \/ /\ sink_state = "SINK_COM_IN_PROGRESS"
        /\ sink_table_entry' = gpf_comm_frame
        /\ GoesOn(<<SetEntry(sink_table_index, gpf_comm_frame)>>)
     \/ /\ sink_state = "SINK_COM_OFFLINE_IN_PROGRESS"
        /\ sink_table_entry' = Head(gpds_to_register)
        /\ GoesOn(<<SetEntry(sink_table_index, Head(gpds_to_register))>>)
     \/ /\ sink_state \notin Registering
        /\ GoesOn(<<>>)
        /\ UNCHANGED sink_table_entry
  /\ UNCHANGED <<listVars, sink_table_index, gpf_comm_frame, proxy_table_index, tableVars,
                 mishaps>>

SetEntryAnswered ==
  /\ Answered({"SINK_SET_ENTRY"})
  /\ LET c == Head(commands)
     IN \/ /\ c.index \in DOMAIN sinkTable
           /\ sinkTable' = [sinkTable EXCEPT ![c.index] = c.device]
           /\ GoesOn(IF sink_state \in Registering
                     THEN <<DeviceCmd("ADD_PAIRING", sink_table_entry)>> ELSE <<>>)
           /\ UNCHANGED mishaps
        \/ /\ Happens({"setFails"})
           /\ IF sink_state \in Registering THEN Ends(<<>>) ELSE GoesOn(<<>>)
           /\ UNCHANGED sinkTable
  /\ UNCHANGED <<listVars, entryVars, proxy_table_index, proxyTable>>

(* Mutant: the entry that was found stays.                                   *)
SinkLookupAnsweredKeeps ==
  /\ Answered({"SINK_LOOKUP"})
  /\ \/ /\ sink_state = "SINK_REMOVE_IN_PROGRESS"
        /\ GoesOn(<<DeviceCmd("PROXY_LOOKUP", Head(gpds_to_remove))>>)
     \/ sink_state # "SINK_REMOVE_IN_PROGRESS" /\ GoesOn(<<>>)
  /\ UNCHANGED <<listVars, entryVars, proxy_table_index, tableVars, mishaps>>

SinkLookupAnswered ==
  /\ Answered({"SINK_LOOKUP"})
  /\ \/ /\ sink_state = "SINK_REMOVE_IN_PROGRESS"
        /\ LET i == Find(sinkTable, Head(commands).device)
           IN GoesOn((IF i # NoIndex THEN <<IndexCmd("SINK_REMOVE_ENTRY", i)>> ELSE <<>>)
                     \o <<DeviceCmd("PROXY_LOOKUP", Head(gpds_to_remove))>>)
     \/ sink_state # "SINK_REMOVE_IN_PROGRESS" /\ GoesOn(<<>>)
  /\ UNCHANGED <<listVars, entryVars, proxy_table_index, tableVars, mishaps>>

(* Mutant: the device that comes next is not looked up.                      *)
ProxyLookupAnsweredStops ==
  /\ Answered({"PROXY_LOOKUP"})
  /\ \/ /\ sink_state = "SINK_REMOVE_IN_PROGRESS"
        /\ gpds_to_remove' = Tail(gpds_to_remove)
        /\ IF Tail(gpds_to_remove) = <<>> THEN Ends(<<>>) ELSE GoesOn(<<>>)
     \/ sink_state # "SINK_REMOVE_IN_PROGRESS" /\ GoesOn(<<>>) /\ UNCHANGED gpds_to_remove
  /\ UNCHANGED <<gpds_to_register, entryVars, proxy_table_index, tableVars, mishaps>>

(* The sink is ready again while the last pairing is still to be removed.    *)
ProxyLookupAnswered ==
  /\ Answered({"PROXY_LOOKUP"})
  /\ \/ /\ sink_state = "SINK_REMOVE_IN_PROGRESS"
        /\ gpds_to_remove' = Tail(gpds_to_remove)
        /\ LET unpair == IF Find(proxyTable, Head(commands).device) # NoIndex
                         THEN <<DeviceCmd("REMOVE_PAIRING", Head(gpds_to_remove))>>
                         ELSE <<>>
           IN IF Tail(gpds_to_remove) = <<>>
              THEN Ends(unpair)
              ELSE GoesOn(Append(unpair, DeviceCmd("SINK_LOOKUP", gpds_to_remove[2])))
     \/ sink_state # "SINK_REMOVE_IN_PROGRESS" /\ GoesOn(<<>>) /\ UNCHANGED gpds_to_remove
  /\ UNCHANGED <<gpds_to_register, entryVars, proxy_table_index, tableVars, mishaps>>

ProxyGetEntryAnswered ==
  /\ Answered({"PROXY_GET_ENTRY"})
  /\ LET i == Head(commands).index
     IN \/ /\ sink_state = "SINK_CLEAR_ALL" /\ i \in DOMAIN proxyTable
           /\ GoesOn(<<DeviceCmd("REMOVE_PAIRING", proxyTable[i])>>)
        \/ /\ sink_state = "SINK_CLEAR_ALL" /\ i \notin DOMAIN proxyTable
           /\ Ends(<<>>)
        \/ sink_state # "SINK_CLEAR_ALL" /\ GoesOn(<<>>)
  /\ UNCHANGED <<listVars, entryVars, proxy_table_index, tableVars, mishaps>>

(* The table after the pairing; the adapter's word on whether there was room *)
(* for it is not looked at.                                                  *)
PairingExecuted ==
  LET c == Head(commands)
      added == c.cmd = "ADD_PAIRING"
  IN /\ proxyTable' = IF added THEN Paired(c.device) ELSE Unpaired(c.device)
     /\ IF added /\ c.device \notin Contents(proxyTable')
        THEN Happens({"full"}) ELSE UNCHANGED mishaps

(* What the handler of pairings does next with the devices to register.      *)
(* Mutant: it is ready after one device.                                     *)
RegistersNone(rest) == Ends(<<>>)

RegistersNext(rest) ==
  IF rest = <<>>
  THEN Ends(<<>>)
  ELSE GoesOn(<<DeviceCmd("FIND_OR_ALLOCATE_ENTRY", Head(rest))>>)

(* A pairing of any origin moves on whatever operation is in progress.       *)
PairingAnswered ==
  /\ Answered(Pairings)
  /\ PairingExecuted
  /\ \/ /\ sink_state = "SINK_COM_IN_PROGRESS"
        /\ Ends(<<Cmd("SEND_UNICAST")>>)
        /\ UNCHANGED <<gpds_to_register, proxy_table_index>>
     \/ /\ sink_state = "SINK_COM_OFFLINE_IN_PROGRESS"
        /\ gpds_to_register' = Tail(gpds_to_register)
        /\ RegistersNext(Tail(gpds_to_register))
        /\ UNCHANGED proxy_table_index
     \/ /\ sink_state = "SINK_CLEAR_ALL"
        /\ proxy_table_index' = (proxy_table_index + 1) % 256
        /\ GoesOn(<<IndexCmd("PROXY_GET_ENTRY", (proxy_table_index + 1) % 256)>>)
        /\ UNCHANGED gpds_to_register
     \/ /\ sink_state \notin Registering \cup {"SINK_CLEAR_ALL"}
        /\ GoesOn(<<>>)
        /\ UNCHANGED <<gpds_to_register, proxy_table_index>>
  /\ UNCHANGED <<gpds_to_remove, entryVars, sinkTable>>

(* Commands whose response has no handler here.                              *)
OtherAnswered ==
  /\ \/ Answered({"SINK_CLEAR_ALL"}) /\ sinkTable' = Unused(SinkSize)
     \/ /\ Answered({"SINK_REMOVE_ENTRY"})
        /\ sinkTable' = [sinkTable EXCEPT ![Head(commands).index] = NoDevice]
     \/ Answered(OtherCmds) /\ UNCHANGED sinkTable
  /\ GoesOn(<<>>)
  /\ UNCHANGED <<listVars, entryVars, proxy_table_index, proxyTable, mishaps>>

HandleEzspRxMessage ==
  \/ FindOrAllocateAnswered \/ GetEntryAnswered \/ SetEntryAnswered
  \/ SinkLookupAnswered \/ ProxyLookupAnswered \/ ProxyGetEntryAnswered
  \/ PairingAnswered \/ OtherAnswered

-----------------------------------------------------------------------------
UserRequests ==
  \/ \E list \in Lists(MaxList) :
       AddGPDevices(list) \/ RemoveGPDevices(list) \/ RequestRefused(list)
  \/ ClearAllGPDevices \/ OpenCommissioningSession \/ CloseCommissioningSession

Next ==
  \/ NetworkUp
  \/ UserRequests
  \/ \E d \in Devices : CommissioningFrame(d)
  \/ HandleEzspRxMessage

Spec == Init /\ [][Next]_vars

(* CEzspDongle completes the commands it accepted; nobody has to ask for     *)
(* anything.                                                                 *)
FairSpec == Spec /\ WF_vars(HandleEzspRxMessage)

-----------------------------------------------------------------------------
(* Properties.                                                               *)

(* While the sink is busy, a command is queued whose response moves it on:   *)
(* it never waits for nothing, even when chains of commands get mixed up.    *)
SomethingUnderWay ==
  /\ sink_state \in Registering =>
       HasCmd(commands, {"FIND_OR_ALLOCATE_ENTRY", "SINK_GET_ENTRY", "SINK_SET_ENTRY"}
                        \cup Pairings)
  /\ sink_state = "SINK_REMOVE_IN_PROGRESS" => HasCmd(commands, {"SINK_LOOKUP", "PROXY_LOOKUP"})
  /\ sink_state = "SINK_CLEAR_ALL" => HasCmd(commands, {"PROXY_GET_ENTRY"} \cup Pairings)

(* back() and pop_back() are never called on an empty vector                 *)
(* (green-power-sink.cpp:557 does not check), however many responses come.   *)
ListsNotEmpty ==
  /\ sink_state = "SINK_COM_OFFLINE_IN_PROGRESS" => gpds_to_register # <<>>
  /\ sink_state = "SINK_REMOVE_IN_PROGRESS" => gpds_to_remove # <<>>

(* The library is READY only when no request is in progress in the sink, and *)
(* busy only when one is, unless a request was refused.                      *)
LibFollowsSink ==
  /\ lib_state = "READY" => sink_state \notin Requested
  /\ lib_state = "SINK_BUSY" /\ "refused" \notin mishaps => sink_state \in Requested

Reported == lib_state = "READY" /\ sink_state = "SINK_READY"

(* "After invoking this method, we will start taking into [account] all      *)
(* messages from the GP devices provided as argument" (ezsp.h:222): when the *)
(* sink is ready again, every device is in both tables.                      *)
AddTakesEffect ==
  Reported /\ lastOp.op \in {"add", "commission"} /\ mishaps \cap {"full", "setFails"} = {} =>
    lastOp.devices \subseteq Contents(sinkTable) \cap Contents(proxyTable)

(* The same, unless the operation began before the commands of an earlier    *)
(* one were executed.                                                        *)
AddTakesEffectAlone == "overlap" \notin mishaps => AddTakesEffect

(* "Remove all previously configured green power device to this sink"        *)
(* (green-power-sink.h:81).                                                  *)
ClearTakesEffect ==
  Reported /\ lastOp.op = "clear" => Contents(sinkTable) = {} /\ Contents(proxyTable) = {}

(* A device that was removed is in the sink table no more, nor in the proxy  *)
(* table once the last command is executed; and no device is, when all were  *)
(* cleared for the first time; unless it began too early.                    *)
RemovalTakesEffect ==
  /\ Reported /\ lastOp.op = "remove" /\ "overlap" \notin mishaps =>
       /\ lastOp.devices \cap Contents(sinkTable) = {}
       /\ ~Leftover => lastOp.devices \cap Contents(proxyTable) = {}
  /\ mishaps \cap {"overlap", "secondClear"} = {} => ClearTakesEffect

(* No device has two entries in the sink table.                              *)
OneEntryEach ==
  "overlap" \notin mishaps =>
    \A i, j \in DOMAIN sinkTable :
      sinkTable[i] = sinkTable[j] /\ sinkTable[i] # NoDevice => i = j

(* A library that is busy gets ready again, unless a request was refused.    *)
LibGetsReady == lib_state = "SINK_BUSY" ~> (lib_state = "READY" \/ "refused" \in mishaps)

=============================================================================

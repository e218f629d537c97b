---------------------------- MODULE LibEzspMain ----------------------------
(***************************************************************************)
(* CLibEzspMain with CZigbeeNetworking: bringing the adapter up (version,  *)
(* stack, leaving and forming a network), the requests of the user, scans, *)
(* and the switch to a firmware upgrade.                                   *)
(*                                                                         *)
(* Commands go through CEzspDongle, which keeps the promise of             *)
(* CommandQueue: `commands` is executed from its head.  What the adapter   *)
(* reports by itself (`events`) is handled in the order it was reported,   *)
(* but at any time between responses.                                      *)
(*                                                                         *)
(* The library calls its user back in the middle of its handlers, and the  *)
(* user may make requests from there (`running`).                          *)
(***************************************************************************)
EXTENDS Integers, Sequences

CONSTANTS
  Channels,    \* the 802.15.4 channels a network may be requested on
  Versions,    \* the EZSP versions the adapter may speak
  Env,         \* which mishaps this instance contains (see Mishaps)
  MaxOps       \* bound: requests of the user, and unprovoked reports of the adapter

Mishaps == {
  "earlyReady",     \* the adapter is ready before start() returns
  "wrongType",      \* its stack is not a mesh
  "cutVersion",     \* it may cut its answer to VERSION short (not recorded in mishaps)
  "downFirst",      \* NETWORK_DOWN comes before the response to LEAVE_NETWORK
  "leaveRefused", "formRefused", "scanRefused",
  "drops",          \* the network goes down and up again by itself
  "earlyScan",      \* a scan is requested by a user who was never told READY
  "scanInCallback", \* a request is made while the end of a scan is notified
  "keyTwice",       \* the network key is asked for again before it came
  "launch",         \* a firmware upgrade is requested
  "earlyLaunch"}    \* and that by a user who was never told READY

KeepNetwork == 0    \* resetDot154ChannelAtInit: no reset is requested
OnlyLeave == -1     \* leave the network and stop there
DefaultChannel == 11
MinVersion == 6
MaxVersion == 8

ASSUME LibAssumption ==
  /\ Channels \subseteq Nat \ {0}
  /\ Versions \subseteq Nat
  /\ Env \subseteq Mishaps
  /\ MaxOps \in Nat

VARIABLES
  lib_state, exp_ezsp_min_version, resetDot154ChannelAtInit, scanInProgress,
  form_channel,         \* of CZigbeeNetworking
  scanCallback,         \* energyScanCallback and activeScanCallback: whose, 0 if null
  found,                \* the results collected so far: of which scans
  networkKeyCallback,   \* whose, 0 if null
  running,              \* handlers that are waiting for the user's callback to return
  upgrading,            \* the dongle was told to upgrade
  commands,             \* the queue of CEzspDongle
  adapter,              \* the adapter (external)
  events,               \* what the adapter reported and the library did not handle yet
  wanted,     \* history: resetDot154ChannelAtInit at construction
  notified,   \* history: the calls of scan callbacks
  keysGiven,  \* history: the requests of the key that were answered
  mishaps,    \* history: the mishaps so far
  ops         \* history: how many requests and reports were made

scanVars == <<scanInProgress, scanCallback, found>>
initVars == <<exp_ezsp_min_version, resetDot154ChannelAtInit, form_channel>>
historyVars == <<wanted, notified, keysGiven>>
vars == <<lib_state, initVars, scanVars, networkKeyCallback, running, upgrading, commands,
          adapter, events, historyVars, mishaps, ops>>

-----------------------------------------------------------------------------
States == {"UNINITIALIZED", "WAIT_DONGLE_READY", "GETTING_EZSP_VERSION",
  "GETTING_XNCP_INFO", "STACK_INIT", "FORM_NWK_IN_PROGRESS", "LEAVE_NWK_IN_PROGRESS",
  "READY", "SINK_BUSY", "SCANNING", "SWITCHING_TO_BOOTLOADER_MODE", "IN_XMODEM_XFR", "INIT_FAILED",
  "TERMINATING"}
ToldReady == {"READY", "SCANNING"}   \* both are READY for the user
Initialised == ToldReady \cup {"SINK_BUSY"}
Concluded == {"READY", "INIT_FAILED", "TERMINATING"}

Kinds == {"energy", "active"}
Requests == 1 .. MaxOps
NoRequest == 0

(* SINK_WORK stands for the chain of commands of an operation of CGpSink (see  *)
(* GpSink), SET_CONFIGURATION_VALUE for all the values and policies that are   *)
(* set before the endpoints, SET_POLICY for those of formHaNetwork().          *)
PlainCmds == {"GET_XNCP_INFO", "SET_CONFIGURATION_VALUE", "NETWORK_INIT",
  "NETWORK_STATE", "LEAVE_NETWORK", "SET_POLICY", "SET_INITIAL_SECURITY_STATE",
  "JOIN_NETWORK", "GET_NETWORK_PARAMETERS", "SET_RADIO_CHANNEL",
  "GP_SINK_TABLE_INIT", "SINK_WORK", "GET_KEY", "LAUNCH_STANDALONE_BOOTLOADER"}
Cmd(c) == [cmd |-> c]
AddEndpoint(e) == [cmd |-> "ADD_ENDPOINT", endpoint |-> e]
EzspCommands == [cmd : PlainCmds] \cup [cmd : {"VERSION"}, version : Nat]
                \cup [cmd : {"ADD_ENDPOINT"}, endpoint : {1, 242}]
                \cup [cmd : {"FORM_NETWORK"}, channel : Nat]
                \cup [cmd : {"START_SCAN"}, kind : Kinds, scan : Requests]

Status(s) == [event |-> "STACK_STATUS_HANDLER", status |-> s]
ScanEvent(e, k, i) == [event |-> e, kind |-> k, scan |-> i]
Events ==
  [event : {"DONGLE_READY"}] \cup
  [event : {"STACK_STATUS_HANDLER"}, status : {"NETWORK_UP", "NETWORK_DOWN", "CHANNEL_CHANGED"}]
  \cup [event : {"SCAN_RESULT_HANDLER", "SCAN_COMPLETE_HANDLER"}, kind : Kinds, scan : Requests]

Adapters == [version : Versions, mesh : BOOLEAN, app : BOOLEAN,
             network : {"none", "old", "formed"}, channel : Nat, up : BOOLEAN,
             scan : 0 .. MaxOps, kind : Kinds]

Frames == [rest : {"start", "completed", "key"}] \cup [rest : {"called"}, kind : Kinds]
          \cup [rest : {"request"}, kind : Kinds, scan : Requests]

TypeOK ==
  /\ lib_state \in States
  /\ exp_ezsp_min_version \in Nat
  /\ resetDot154ChannelAtInit \in Channels \cup {KeepNetwork, OnlyLeave}
  /\ form_channel \in Nat
  /\ scanInProgress \in BOOLEAN
  /\ scanCallback \in [Kinds -> 0 .. MaxOps]
  /\ found \in [Kinds -> SUBSET Requests]
  /\ networkKeyCallback \in 0 .. MaxOps
  /\ running \in Seq(Frames)
  /\ upgrading \in BOOLEAN
  /\ commands \in Seq(EzspCommands)
  /\ adapter \in Adapters
  /\ events \in Seq(Events)
  /\ wanted \in Channels \cup {KeepNetwork, OnlyLeave}
  /\ notified \subseteq [scan : Requests, over : BOOLEAN, results : SUBSET Requests]
  /\ keysGiven \subseteq Requests
  /\ mishaps \in SUBSET Mishaps
  /\ ops \in 0 .. MaxOps

Init ==
  /\ lib_state = "UNINITIALIZED"
  /\ exp_ezsp_min_version = MinVersion
  /\ wanted \in Channels \cup {KeepNetwork, OnlyLeave}
  /\ resetDot154ChannelAtInit = wanted
  /\ form_channel = DefaultChannel
  /\ scanInProgress = FALSE
  /\ scanCallback = [k \in Kinds |-> NoRequest]
  /\ found = [k \in Kinds |-> {}]
  /\ networkKeyCallback = NoRequest
  /\ running = <<>> /\ upgrading = FALSE
  /\ commands = <<>> /\ events = <<>>
  /\ \E v \in Versions, mesh \in {TRUE, "wrongType" \notin Env}, old \in {"none", "old"} :
       /\ adapter = [version |-> v, mesh |-> mesh, app |-> TRUE, network |-> old,
                     channel |-> 0, up |-> FALSE, scan |-> NoRequest, kind |-> "energy"]
       /\ mishaps = IF mesh THEN {} ELSE {"wrongType"}
  /\ notified = {} /\ keysGiven = {} /\ ops = 0

-----------------------------------------------------------------------------
Happens(M) == M \subseteq Env /\ mishaps' = mishaps \cup M

Note(m, condition) == IF condition THEN {m} ELSE {}

(* A handler of the library runs to its end, or to a callback of the user.   *)
Handling(e) ==
  /\ running = <<>>
  /\ events # <<>> /\ Head(events).event = e
  /\ events' = Tail(events)
  /\ UNCHANGED <<wanted, keysGiven, ops>>

Answered(C) ==
  /\ running = <<>>
  /\ adapter.app
  /\ commands # <<>> /\ Head(commands).cmd \in C
  /\ UNCHANGED <<wanted, ops>>

Sends(cmds) == commands' = Tail(commands) \o cmds

(* start(): the adapter may be ready before reset() has returned.  When      *)
(* reset() fails the state stays UNINITIALIZED, and start() may be called    *)
(* again: nothing of this module changes.                                    *)
Start ==
  /\ lib_state = "UNINITIALIZED" /\ running = <<>>
  /\ running' = <<[rest |-> "start"]>>
  /\ events' = <<[event |-> "DONGLE_READY"]>>
  /\ UNCHANGED <<lib_state, initVars, scanVars, networkKeyCallback, upgrading, commands,
                 adapter, historyVars, mishaps, ops>>

DongleInit(version, queued) ==
  /\ lib_state' = "GETTING_EZSP_VERSION"
  /\ exp_ezsp_min_version' = version
  /\ commands' = Append(queued, [cmd |-> "VERSION", version |-> version])

(* Any other dongle state, DONGLE_NOT_RESPONDING among them, is only logged: *)
(* such an adapter leaves the library in WAIT_DONGLE_READY.                  *)
HandleDongleReady ==
  /\ events # <<>> /\ Head(events).event = "DONGLE_READY"
  /\ events' = Tail(events)
  /\ \/ /\ lib_state = "WAIT_DONGLE_READY"
        /\ DongleInit(exp_ezsp_min_version, commands)
        /\ UNCHANGED mishaps
     \/ /\ lib_state # "WAIT_DONGLE_READY"
        /\ Happens({"earlyReady"})
        /\ UNCHANGED <<lib_state, exp_ezsp_min_version, commands>>
  /\ UNCHANGED <<resetDot154ChannelAtInit, form_channel, scanVars, networkKeyCallback, running,
                 upgrading, adapter, historyVars, ops>>

(* Mutant: the version that was agreed upon is not remembered.               *)
VersionAnsweredForgets ==
  /\ Answered({"VERSION"})
  /\ \/ /\ adapter.mesh /\ exp_ezsp_min_version = adapter.version
        /\ lib_state' = "GETTING_XNCP_INFO"
        /\ Sends(<<Cmd("GET_XNCP_INFO")>>)
     \/ /\ ~(adapter.mesh /\ exp_ezsp_min_version = adapter.version)
        /\ Sends(<<>>)
        /\ UNCHANGED lib_state
  /\ UNCHANGED <<initVars, scanVars, networkKeyCallback, running, upgrading, adapter, events,
                 notified, keysGiven, mishaps>>

(* A version between the bounds is asked for by a second VERSION; one that   *)
(* is not supported, or another stack, leaves the library where it is.  An   *)
(* answer that was cut short holds no version, and is accepted as it is.     *)
VersionAnswered ==
  /\ Answered({"VERSION"})
  /\ \/ /\ adapter.mesh /\ adapter.version \in exp_ezsp_min_version + 1 .. MaxVersion
        /\ DongleInit(adapter.version, Tail(commands))
     \/ /\ \/ adapter.mesh /\ adapter.version = exp_ezsp_min_version
           \/ "cutVersion" \in Env
        /\ lib_state' = "GETTING_XNCP_INFO"
        /\ Sends(<<Cmd("GET_XNCP_INFO")>>)
        /\ UNCHANGED exp_ezsp_min_version
     \/ /\ ~adapter.mesh \/ adapter.version \notin exp_ezsp_min_version .. MaxVersion
        /\ Sends(<<>>)
        /\ UNCHANGED <<lib_state, exp_ezsp_min_version>>
  /\ UNCHANGED <<resetDot154ChannelAtInit, form_channel, scanVars, networkKeyCallback, running,
                 upgrading, adapter, events, notified, keysGiven, mishaps>>

(* stackInit() adds two endpoints, hence two NETWORK_INIT and NETWORK_STATE. *)
XncpInfoAnswered ==
  /\ Answered({"GET_XNCP_INFO"})
  /\ lib_state' = "STACK_INIT"
  /\ Sends(<<Cmd("SET_CONFIGURATION_VALUE"), AddEndpoint(1), AddEndpoint(242)>>)
  /\ UNCHANGED <<initVars, scanVars, networkKeyCallback, running, upgrading, adapter, events,
                 notified, keysGiven, mishaps>>

(* Responses that make CZigbeeNetworking send the next command, and those    *)
(* that nobody acts on.                                                      *)
NextCommand(c) ==
  IF c = "ADD_ENDPOINT" THEN <<Cmd("NETWORK_INIT")>>
  ELSE IF c = "NETWORK_INIT" THEN <<Cmd("NETWORK_STATE")>> ELSE <<>>

Restores(c) == c = "NETWORK_INIT" /\ adapter.network # "none" /\ ~adapter.up

PlainAnswered ==
  /\ Answered({"SET_CONFIGURATION_VALUE", "ADD_ENDPOINT", "NETWORK_INIT", "SET_POLICY",
               "JOIN_NETWORK", "GET_NETWORK_PARAMETERS", "SET_RADIO_CHANNEL",
               "GP_SINK_TABLE_INIT"})
  /\ LET c == Head(commands).cmd
     IN /\ Sends(NextCommand(c))
        /\ adapter' = IF Restores(c) THEN [adapter EXCEPT !.up = TRUE] ELSE adapter
        /\ events' = events \o (IF Restores(c) THEN <<Status("NETWORK_UP")>>
                                ELSE IF c = "SET_RADIO_CHANNEL"
                                     THEN <<Status("CHANNEL_CHANGED")>> ELSE <<>>)
  /\ UNCHANGED <<lib_state, initVars, scanVars, networkKeyCallback, running, upgrading,
                 notified, keysGiven, mishaps>>

(* Mutant: a network is left unasked.                                       *)
LeavesAny == TRUE

LeavesUnwanted == resetDot154ChannelAtInit # KeepNetwork

StopsWithoutNetwork == resetDot154ChannelAtInit \in {OnlyLeave, KeepNetwork}

(* "Ignoring..." is logged for other states, and the rest is done as well.   *)
NetworkStateAnswered ==
  /\ Answered({"NETWORK_STATE"})
  /\ LET none == adapter.network = "none"
         forming == lib_state = "FORM_NWK_IN_PROGRESS"
         reset == resetDot154ChannelAtInit
     IN \/ /\ none /\ ~forming /\ StopsWithoutNetwork
           /\ lib_state' = IF reset = OnlyLeave THEN "TERMINATING" ELSE "INIT_FAILED"
           /\ Sends(<<>>)
           /\ UNCHANGED <<resetDot154ChannelAtInit, form_channel>>
        \/ /\ none /\ lib_state = "STACK_INIT" /\ ~StopsWithoutNetwork
           /\ Sends(<<Cmd("SET_POLICY"), Cmd("SET_INITIAL_SECURITY_STATE")>>)
           /\ form_channel' = reset
           /\ lib_state' = "FORM_NWK_IN_PROGRESS"
           /\ resetDot154ChannelAtInit' = KeepNetwork
        \/ /\ ~none /\ lib_state = "STACK_INIT" /\ LeavesUnwanted
           /\ Sends(<<Cmd("LEAVE_NETWORK")>>)
           /\ lib_state' = "LEAVE_NWK_IN_PROGRESS"
           /\ UNCHANGED <<resetDot154ChannelAtInit, form_channel>>
        \/ /\ \/ none /\ forming
              \/ none /\ ~StopsWithoutNetwork /\ lib_state # "STACK_INIT"
              \/ ~none /\ ~(lib_state = "STACK_INIT" /\ LeavesUnwanted)
           /\ Sends(<<>>)
           /\ UNCHANGED <<lib_state, resetDot154ChannelAtInit, form_channel>>
  /\ UNCHANGED <<exp_ezsp_min_version, scanVars, networkKeyCallback, running, upgrading,
                 adapter, events, notified, keysGiven, mishaps>>

SecurityStateAnswered ==
  /\ Answered({"SET_INITIAL_SECURITY_STATE"})
  /\ \/ Sends(<<[cmd |-> "FORM_NETWORK", channel |-> form_channel]>>) /\ UNCHANGED mishaps
     \/ Sends(<<>>) /\ Happens({"formRefused"})
  /\ UNCHANGED <<lib_state, initVars, scanVars, networkKeyCallback, running, upgrading,
                 adapter, events, notified, keysGiven>>

(* A refusal is only logged.                                                 *)
FormNetworkAnswered ==
  /\ Answered({"FORM_NETWORK"})
  /\ Sends(<<>>)
  /\ \/ /\ adapter' = [adapter EXCEPT !.network = "formed", !.up = TRUE,
                                      !.channel = Head(commands).channel]
        /\ events' = Append(events, Status("NETWORK_UP"))
        /\ UNCHANGED mishaps
     \/ Happens({"formRefused"}) /\ UNCHANGED <<adapter, events>>
  /\ UNCHANGED <<lib_state, initVars, scanVars, networkKeyCallback, running, upgrading,
                 notified, keysGiven>>

(* The adapter has left (see AdapterLeaves), or it refuses to: the library   *)
(* does not look.                                                            *)
LeaveNetworkAnswered ==
  /\ Answered({"LEAVE_NETWORK"})
  /\ Sends(<<>>)
  /\ IF adapter.network = "none" THEN UNCHANGED mishaps ELSE Happens({"leaveRefused"})
  /\ lib_state' = "STACK_INIT"
  /\ UNCHANGED <<initVars, scanVars, networkKeyCallback, running, upgrading, adapter, events,
                 notified, keysGiven>>

(* The operation of the sink is over (see GpSink!LibFollowsSink).            *)
SinkWorkAnswered ==
  /\ Answered({"SINK_WORK"})
  /\ Sends(<<>>)
  /\ lib_state' = IF lib_state = "SINK_BUSY" THEN "READY" ELSE lib_state
  /\ UNCHANGED <<initVars, scanVars, networkKeyCallback, running, upgrading, adapter, events,
                 notified, keysGiven, mishaps>>

LaunchAnswered ==
  /\ Answered({"LAUNCH_STANDALONE_BOOTLOADER"})
  /\ Sends(<<>>)
  /\ adapter' = [adapter EXCEPT !.app = FALSE]
  /\ upgrading' = (lib_state = "SWITCHING_TO_BOOTLOADER_MODE")
  /\ UNCHANGED <<lib_state, initVars, scanVars, networkKeyCallback, running, events,
                 notified, keysGiven, mishaps>>

(* Mutant: the status of the response is not looked at.                      *)
StartedAnyway(accepted) == TRUE

Started(accepted) == accepted

(* The adapter scans for one request at a time.                              *)
StartScanAnswered ==
  /\ Answered({"START_SCAN"})
  /\ Sends(<<>>)
  /\ \/ /\ adapter.scan = NoRequest
        /\ adapter' = [adapter EXCEPT !.scan = Head(commands).scan,
                                      !.kind = Head(commands).kind]
        /\ scanInProgress' = Started(TRUE)
        /\ UNCHANGED mishaps
     \/ /\ Happens({"scanRefused"})
        /\ scanInProgress' = Started(FALSE)
        /\ UNCHANGED adapter
  /\ UNCHANGED <<lib_state, initVars, scanCallback, found, networkKeyCallback, running,
                 upgrading, events, notified, keysGiven>>

(* The callback is forgotten when it has returned: the request it may have   *)
(* made is forgotten with it.                                                *)
CalledKey ==
  /\ running' = Tail(running)
  /\ networkKeyCallback' = NoRequest

GetKeyAnswered ==
  /\ running = <<>> /\ adapter.app
  /\ commands # <<>> /\ Head(commands).cmd = "GET_KEY"
  /\ Sends(<<>>)
  /\ \/ /\ networkKeyCallback # NoRequest
        /\ keysGiven' = keysGiven \cup {networkKeyCallback}
        /\ running' = <<[rest |-> "key"]>>
     \/ networkKeyCallback = NoRequest /\ UNCHANGED <<keysGiven, running>>
  /\ UNCHANGED <<lib_state, initVars, scanVars, networkKeyCallback, upgrading, adapter, events,
                 wanted, notified, mishaps, ops>>

-----------------------------------------------------------------------------
(* What the adapter reports by itself.                                       *)

(* While the network is left, reports are ignored until LEAVE_NETWORK is     *)
(* answered.                                                                 *)
HandleStackStatus ==
  /\ Handling("STACK_STATUS_HANDLER")
  /\ LET s == Head(events).status
         leaving == lib_state = "LEAVE_NWK_IN_PROGRESS"
         sinkInit == s = "NETWORK_UP" /\ resetDot154ChannelAtInit = KeepNetwork
     IN \/ /\ leaving
           /\ IF s = "NETWORK_DOWN" THEN Happens({"downFirst"}) ELSE UNCHANGED mishaps
           /\ UNCHANGED <<lib_state, commands>>
        \/ /\ ~leaving /\ sinkInit
           /\ commands' = commands \o <<Cmd("GP_SINK_TABLE_INIT"), Cmd("GET_NETWORK_PARAMETERS")>>
           /\ lib_state' = "READY"
           /\ UNCHANGED mishaps
        \/ /\ ~leaving /\ ~sinkInit
           /\ commands' = Append(commands, Cmd(IF s = "CHANNEL_CHANGED"
                                               THEN "GET_NETWORK_PARAMETERS"
                                               ELSE "NETWORK_STATE"))
           /\ UNCHANGED <<lib_state, mishaps>>
  /\ UNCHANGED <<initVars, scanVars, networkKeyCallback, running, upgrading, adapter, notified>>

HandleScanResult ==
  /\ Handling("SCAN_RESULT_HANDLER")
  /\ found' = [found EXCEPT ![Head(events).kind] = @ \cup {Head(events).scan}]
  /\ UNCHANGED <<lib_state, initVars, scanInProgress, scanCallback, networkKeyCallback, running,
                 upgrading, commands, adapter, notified, mishaps>>

AwaitsScan == lib_state = "SCANNING"

HandleScanComplete ==
  /\ Handling("SCAN_COMPLETE_HANDLER")
  /\ scanInProgress' = FALSE
  /\ \/ /\ AwaitsScan
        /\ lib_state' = "READY"
        /\ running' = <<[rest |-> "completed"]>>
     \/ ~AwaitsScan /\ UNCHANGED <<lib_state, running>>
  /\ UNCHANGED <<initVars, scanCallback, found, networkKeyCallback, upgrading, commands, adapter,
                 notified, mishaps>>

HandleXmodemReady ==
  /\ upgrading /\ running = <<>> /\ lib_state # "IN_XMODEM_XFR"
  /\ lib_state' = "IN_XMODEM_XFR"
  /\ UNCHANGED <<initVars, scanVars, networkKeyCallback, running, upgrading, commands, adapter,
                 events, historyVars, mishaps, ops>>

-----------------------------------------------------------------------------
(* A callback of the user returns, and the handler goes on.                  *)

(* The adapter is not done with scan i, or the library does not know it is.  *)
UnderWay(i) ==
  \/ adapter.scan = i
  \/ \E j \in 1 .. Len(commands) : commands[j].cmd = "START_SCAN" /\ commands[j].scan = i
  \/ \E j \in 1 .. Len(events) : /\ events[j].event = "SCAN_COMPLETE_HANDLER"
                                 /\ events[j].scan = i

CallsBack(kind, callbacks, frames) ==
  /\ scanCallback' = callbacks
  /\ IF callbacks[kind] = NoRequest
     THEN running' = frames /\ UNCHANGED notified
     ELSE /\ running' = <<[rest |-> "called", kind |-> kind]>> \o frames
          /\ notified' = notified \cup {[scan |-> callbacks[kind],
                                         over |-> ~UnderWay(callbacks[kind]),
                                         results |-> found[kind]]}

FirstToCall(callbacks) == IF callbacks["energy"] # NoRequest THEN "energy" ELSE "active"

Forgotten(kind) == [scanCallback EXCEPT ![kind] = NoRequest]

ReturnsFrom(rest) == running # <<>> /\ Head(running).rest = rest

Return ==
  /\ \/ /\ ReturnsFrom("start")
        /\ running' = Tail(running)
        /\ lib_state' = "WAIT_DONGLE_READY"
        /\ UNCHANGED <<scanCallback, networkKeyCallback, notified, commands>>
     \/ /\ ReturnsFrom("completed")
        /\ CallsBack(FirstToCall(scanCallback), scanCallback, Tail(running))
        /\ UNCHANGED <<lib_state, networkKeyCallback, commands>>
     \/ /\ ReturnsFrom("called") /\ Head(running).kind = "energy"
        /\ CallsBack("active", Forgotten("energy"), Tail(running))
        /\ UNCHANGED <<lib_state, networkKeyCallback, commands>>
     \/ /\ ReturnsFrom("called") /\ Head(running).kind = "active"
        /\ scanCallback' = Forgotten("active")
        /\ running' = Tail(running)
        /\ UNCHANGED <<lib_state, networkKeyCallback, notified, commands>>
     \/ /\ ReturnsFrom("key")
        /\ CalledKey
        /\ UNCHANGED <<lib_state, scanCallback, notified, commands>>
     \/ /\ ReturnsFrom("request")
        /\ LET r == Head(running)
           IN /\ scanCallback' = [k \in Kinds |-> IF k = r.kind THEN r.scan ELSE NoRequest]
              /\ commands' = Append(commands, [cmd |-> "START_SCAN", kind |-> r.kind,
                                               scan |-> r.scan])
        /\ running' = Tail(running)
        /\ UNCHANGED <<lib_state, networkKeyCallback, notified>>
  /\ UNCHANGED <<initVars, scanInProgress, found, upgrading, adapter, events, wanted,
                 keysGiven, mishaps, ops>>

-----------------------------------------------------------------------------
(* Requests of the user, between handlers or from a callback.  The adapter   *)
(* rejects commands before the version is agreed upon; these are left out.   *)
Request ==
  /\ ops < MaxOps /\ ops' = ops + 1
  /\ lib_state \notin {"UNINITIALIZED", "WAIT_DONGLE_READY", "GETTING_EZSP_VERSION",
                       "GETTING_XNCP_INFO"}
  /\ running # <<>> => Head(running).rest # "start"
  /\ UNCHANGED <<initVars, scanInProgress, upgrading, adapter, events, historyVars>>

InCallback == running # <<>> /\ Head(running).rest \in {"completed", "called"}

(* Mutant: a scan that was accepted is not waited for.                       *)
ScanBusyInProgress == scanInProgress

ScanBusy == lib_state = "SCANNING" \/ scanInProgress

(* startEnergyScan(), startActiveScan(): any other state is accepted.  The   *)
(* user is told READY, before the callback is set and the command is sent.   *)
StartScan(kind) ==
  /\ Request
  /\ ~ScanBusy
  /\ Happens(Note("earlyScan", lib_state \notin ToldReady) \cup Note("scanInCallback", InCallback))
  /\ found' = [found EXCEPT ![kind] = {}]
  /\ lib_state' = "SCANNING"
  /\ running' = <<[rest |-> "request", kind |-> kind, scan |-> ops + 1]>> \o running
  /\ UNCHANGED <<scanCallback, networkKeyCallback, commands>>

GetNetworkKey ==
  /\ Request
  /\ Happens(Note("keyTwice", networkKeyCallback # NoRequest))
  /\ networkKeyCallback' = ops + 1
  /\ commands' = Append(commands, Cmd("GET_KEY"))
  /\ UNCHANGED <<lib_state, scanCallback, found, running>>

SetFirmwareUpgradeMode ==
  /\ Request
  /\ Happens({"launch"} \cup Note("earlyLaunch", lib_state \notin Initialised))
  /\ commands' = Append(commands, Cmd("LAUNCH_STANDALONE_BOOTLOADER"))
  /\ lib_state' = "SWITCHING_TO_BOOTLOADER_MODE"
  /\ UNCHANGED <<scanCallback, found, networkKeyCallback, running>>

(* setChannel() and joinNetwork().                                           *)
SetChannelOrJoin(c) ==
  /\ Request
  /\ lib_state = "READY" /\ ~scanInProgress
  /\ commands' = Append(commands, Cmd(c))
  /\ UNCHANGED <<lib_state, scanCallback, found, networkKeyCallback, running, mishaps>>

(* Devices are added, removed or cleared (see GpSink).                       *)
SinkRequested ==
  /\ Request
  /\ lib_state = "READY"
  /\ lib_state' = "SINK_BUSY"
  /\ UNCHANGED <<scanCallback, found, networkKeyCallback, running, mishaps>>

SinkRequest == SinkRequested /\ commands' = Append(commands, Cmd("SINK_WORK"))

UserRequests ==
  \/ \E k \in Kinds : StartScan(k)
  \/ GetNetworkKey \/ SetFirmwareUpgradeMode \/ SinkRequest
  \/ \E c \in {"SET_RADIO_CHANNEL", "JOIN_NETWORK"} : SetChannelOrJoin(c)

-----------------------------------------------------------------------------
(* The adapter (external).                                                   *)

(* It leaves before it answers LEAVE_NETWORK.                                *)
AdapterLeaves ==
  /\ adapter.app /\ adapter.network # "none"
  /\ commands # <<>> /\ Head(commands).cmd = "LEAVE_NETWORK"
  /\ adapter' = [adapter EXCEPT !.network = "none", !.up = FALSE]
  /\ events' = Append(events, Status("NETWORK_DOWN"))
  /\ UNCHANGED <<lib_state, initVars, scanVars, networkKeyCallback, running, upgrading,
                 commands, historyVars, mishaps, ops>>

AdapterScans ==
  /\ adapter.app /\ adapter.scan # NoRequest
  /\ adapter' = [adapter EXCEPT !.scan = NoRequest]
  /\ events' = events \o <<ScanEvent("SCAN_RESULT_HANDLER", adapter.kind, adapter.scan),
                           ScanEvent("SCAN_COMPLETE_HANDLER", adapter.kind, adapter.scan)>>
  /\ UNCHANGED <<lib_state, initVars, scanVars, networkKeyCallback, running, upgrading,
                 commands, historyVars, mishaps, ops>>

(* The network goes down, or up again.                                       *)
AdapterDrops ==
  /\ adapter.app /\ adapter.network # "none"
  /\ adapter.up \/ "drops" \in mishaps
  /\ ops < MaxOps /\ ops' = ops + 1
  /\ Happens({"drops"})
  /\ adapter' = [adapter EXCEPT !.up = ~@]
  /\ events' = Append(events, Status(IF adapter.up THEN "NETWORK_DOWN" ELSE "NETWORK_UP"))
  /\ UNCHANGED <<lib_state, initVars, scanVars, networkKeyCallback, running, upgrading,
                 commands, historyVars>>

-----------------------------------------------------------------------------
ResponseHandled ==
  \/ VersionAnswered \/ XncpInfoAnswered \/ PlainAnswered \/ NetworkStateAnswered
  \/ SecurityStateAnswered \/ FormNetworkAnswered \/ LeaveNetworkAnswered
  \/ SinkWorkAnswered \/ LaunchAnswered \/ StartScanAnswered \/ GetKeyAnswered

HandleEzspRxMessage ==
  \/ ResponseHandled \/ HandleStackStatus \/ HandleScanResult \/ HandleScanComplete

Goes ==
  \/ HandleDongleReady \/ HandleEzspRxMessage \/ HandleXmodemReady \/ Return
  \/ AdapterLeaves \/ AdapterScans

Next == Start \/ Goes \/ UserRequests \/ AdapterDrops

Spec == Init /\ [][Next]_vars

(* The dispatcher runs, callbacks return, CEzspDongle completes commands and *)
(* the adapter finishes what it began.                                       *)
FairSpec == Spec /\ WF_vars(Start) /\ WF_vars(Goes)

-----------------------------------------------------------------------------
(* Properties.                                                               *)

Unless(M) == mishaps \cap M = {}

(* Mishaps that take the library out of a state it should have waited in.    *)
StateTaken == {"drops", "launch", "earlyLaunch", "earlyScan"}

(* READY, with a scan or an operation of the sink or without, is on the      *)
(* network that was there or on the one that was asked for, on its channel;  *)
(* a network is never left nor formed unasked, and none is left behind when  *)
(* the library terminates.                                                   *)
OnWantedNetwork ==
  /\ wanted = KeepNetwork => adapter.network # "formed"
  /\ lib_state \in {"READY", "SINK_BUSY"} =>
       /\ wanted = KeepNetwork => adapter.network = "old"
       /\ wanted \in Channels => adapter.network = "formed" /\ adapter.channel = wanted
       /\ wanted # OnlyLeave
  /\ lib_state = "TERMINATING" => wanted = OnlyLeave /\ adapter.network = "none"

ReadyOnWantedNetwork == Unless({"earlyScan", "drops"}) => OnWantedNetwork

(* A scan callback "will be invoked when the energy scan is finished"        *)
(* (ezsp.h:253): once its scan is over, and with the results of that scan.   *)
CalledWithItsScan == \A n \in notified : n.over /\ n.results = {n.scan}

(* The same, unless another scan was requested from the callback, or while   *)
(* the library had been taken out of SCANNING.                               *)
ScanCallbackAfterScan ==
  Unless({"scanInCallback", "scanRefused"} \cup StateTaken) => CalledWithItsScan

(* A library in SCANNING waits for something that will come, unless the      *)
(* adapter refused to scan, after which it stays there for good; and         *)
(* scanInProgress, for which scans are refused, is set for a scan only.      *)
ScanUnderWay ==
  /\ lib_state = "SCANNING" /\ Unless({"scanRefused"}) =>
       \E i \in Requests :
         \/ UnderWay(i)
         \/ \E j \in 1 .. Len(running) : running[j].rest = "request"
  /\ scanInProgress => \E i \in Requests : UnderWay(i)

(* After start() the library concludes, on what it may go on, once the       *)
(* adapter is ready, unless that was before start() returned, and unless the *)
(* adapter has a version or a stack that the library does not work with.     *)
InitConcludes ==
  lib_state = "WAIT_DONGLE_READY" ~>
    \/ lib_state \in Concluded
    \/ adapter.version \notin MinVersion .. MaxVersion
    \/ ~Unless({"earlyReady", "wrongType", "downFirst", "leaveRefused", "formRefused"}
               \cup StateTaken)

(* Every scan that was accepted, and every request of the network key, is    *)
(* answered by a call of its callback, unless another request was made from  *)
(* a callback, or the key was asked for again.                               *)
AcceptedIsAnswered ==
  \A i \in Requests :
    /\ (\E k \in Kinds : scanCallback[k] = i) ~>
         \/ \E n \in notified : n.scan = i
         \/ ~Unless({"scanInCallback", "scanRefused"} \cup StateTaken)
    /\ networkKeyCallback = i ~>
         i \in keysGiven \/ ~Unless({"keyTwice", "launch", "earlyLaunch"})

=============================================================================

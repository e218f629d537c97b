------------------------------- MODULE Example -------------------------------
(***************************************************************************)
(* The example program: MainStateMachine and main() of mainEzspTest, the   *)
(* user of CLibEzspMain (LibEzspMain) and through it of CGpSink (GpSink).  *)
(*                                                                         *)
(* The two are composed here: they share the state of the library and the  *)
(* commands of CEzspDongle.  A response is handled by the one that knows   *)
(* its command, or by both; NETWORK_UP makes the library initialise the    *)
(* sink; a request of the user is checked by the library and carried out   *)
(* by the sink.                                                            *)
(*                                                                         *)
(* setState() calls the program back at once: while it has something to do *)
(* (`callback`), the handler that called it waits.                         *)
(***************************************************************************)
EXTENDS Integers, Sequences

CONSTANTS Channels, Versions, LibEnv,                           \* of LibEzspMain
          Devices, NoDevice, SinkSize, ProxySize, SinkEnv, MaxList,  \* of GpSink
          MaxOps                                                \* of both

VARIABLES
  lib_state, commands,                                          \* of both
  exp_ezsp_min_version, resetDot154ChannelAtInit, scanInProgress, form_channel, scanCallback,
  found, networkKeyCallback, running, upgrading, adapter, events, wanted, notified, keysGiven,
  libMishaps, libOps,                                           \* of LibEzspMain
  sink_state, gpds_to_register, gpds_to_remove, sink_table_index, sink_table_entry,
  gpf_comm_frame, proxy_table_index, sinkTable, proxyTable, lastOp, sinkMishaps, sinkOps,
                                                                \* of GpSink
  options,          \* the command line
  currentState, removeAllGPDAtStartup, gpdRemoveList, gpdAddList,  \* of MainStateMachine
  window,           \* channelRequestAnswerTimer, and the policy it ends
  callback,         \* what the library called the program back for
  stop, mainThread, \* of main()
  missed            \* history: a notification that found nobody waiting

L == INSTANCE LibEzspMain WITH Env <- LibEnv, mishaps <- libMishaps, ops <- libOps
S == INSTANCE GpSink WITH Env <- SinkEnv, mishaps <- sinkMishaps, ops <- sinkOps

ASSUME ExampleAssumption == L!LibAssumption /\ S!SinkAssumption

libVars == <<exp_ezsp_min_version, resetDot154ChannelAtInit, scanInProgress, form_channel,
             scanCallback, found, networkKeyCallback, running, upgrading, adapter, events, wanted,
             notified, keysGiven, libMishaps, libOps>>
sinkVars == <<sink_state, gpds_to_register, gpds_to_remove, sink_table_index, sink_table_entry,
              gpf_comm_frame, proxy_table_index, sinkTable, proxyTable, lastOp, sinkMishaps,
              sinkOps>>
fsmVars == <<currentState, removeAllGPDAtStartup, gpdRemoveList, gpdAddList, window>>
mainVars == <<stop, mainThread, missed>>
exampleVars == <<lib_state, commands, libVars, sinkVars, options, fsmVars, callback, mainVars>>

-----------------------------------------------------------------------------
MainStates == {"INIT_PENDING", "REMOVE_ALL_GPD", "REMOVE_SPECIFIC_GPD", "ADD_GPD",
               "SCAN_CHANNELS", "GET_NW_KEY", "RUN", "FW_UPGRADE"}

(* -w, -r '*', -r, -s, -G, -C and -k; -C 0 is the same as no -C.  See        *)
(* ExampleOptions for how they are read.                                     *)
Options == {o \in [upgrade : BOOLEAN, removeAll : BOOLEAN, remove : S!Lists(MaxList),
                   add : S!Lists(MaxList), commission : BOOLEAN, answer : BOOLEAN,
                   key : BOOLEAN] :
              o.removeAll => o.remove = <<>>}

ExampleTypeOK ==
  /\ currentState \in MainStates
  /\ options \in Options
  /\ gpdRemoveList \in {<<>>, options.remove} /\ gpdAddList \in {<<>>, options.add}
  /\ window \in {"unopened", "open", "closed"}
  /\ callback \in {"none", "ready", "scan", "scanned", "key"}
  /\ mainThread \in {"starts", "checks", "blocks", "waits", "returned"}
  /\ stop \in BOOLEAN /\ missed \in BOOLEAN

ExampleInit(choices) ==
  /\ L!Init /\ S!SinkInit
  /\ options \in choices
  /\ currentState = "INIT_PENDING"
  /\ removeAllGPDAtStartup = options.removeAll
  /\ gpdRemoveList = options.remove /\ gpdAddList = options.add
  /\ window = "unopened" /\ callback = "none"
  /\ stop = FALSE /\ missed = FALSE /\ mainThread = "starts"

-----------------------------------------------------------------------------
(* The library handles something, and calls the program back.                *)

ToldReady == lib_state' = "READY" /\ lib_state # "READY"

Enters(rest) == running' # <<>> /\ running' # running /\ Head(running').rest = rest

CallsBack ==
  callback' = IF ToldReady THEN "ready"
              ELSE IF Enters("called") THEN "scanned"
              ELSE IF Enters("key") THEN "key" ELSE "none"

(* Mutant: main() is not notified.                                           *)
StopsSilently == stop' = TRUE /\ UNCHANGED <<mainThread, missed>>

(* cv.notify_one() without the mutex of cv.wait(): it is missed by a main()  *)
(* that has found stop false and does not wait yet.                          *)
Stops ==
  /\ stop' = TRUE
  /\ mainThread' = IF mainThread = "waits" THEN "checks" ELSE mainThread
  /\ missed' = (missed \/ mainThread = "blocks")

StopsIfOver ==
  IF lib_state' # lib_state /\ lib_state' \in {"TERMINATING", "IN_XMODEM_XFR"}
  THEN Stops ELSE UNCHANGED mainVars

Free == callback = "none"

LibHandles(handler) ==
  /\ Free /\ handler
  /\ CallsBack /\ StopsIfOver
  /\ UNCHANGED <<sinkVars, options, fsmVars>>

SinkCmds == S!DeviceCmds \cup S!IndexCmds \cup {"SINK_CLEAR_ALL", "SINK_SET_ENTRY", "SEND_UNICAST"}
BothCmds == {"GP_SINK_TABLE_INIT", "GET_NETWORK_PARAMETERS"}

(* A response goes to the observers of CEzspDongle; both may know it.        *)
AnswerLib ==
  /\ commands # <<>> /\ Head(commands).cmd \notin SinkCmds \cup BothCmds
  /\ LibHandles(L!ResponseHandled)

AnswerSink ==
  /\ Free /\ running = <<>> /\ adapter.app
  /\ commands # <<>> /\ Head(commands).cmd \in SinkCmds
  /\ S!HandleEzspRxMessage
  /\ callback' = IF ToldReady THEN "ready" ELSE "none"
  /\ UNCHANGED <<libVars, options, fsmVars, mainVars>>

AnswerBoth ==
  /\ Free
  /\ commands # <<>> /\ Head(commands).cmd \in BothCmds
  /\ L!PlainAnswered /\ S!OtherAnswered
  /\ UNCHANGED <<options, fsmVars, callback, mainVars>>

(* Mutant: the sink is taken for ready, and is not initialised.              *)
InitsNoSink == UNCHANGED sinkVars

InitsSink == S!NetworkUp

(* The network is up: the sink is initialised, then the library is READY,    *)
(* even if it was before.                                                    *)
StatusHandled ==
  /\ Free
  /\ L!HandleStackStatus
  /\ \/ /\ lib_state # "LEAVE_NWK_IN_PROGRESS" /\ resetDot154ChannelAtInit = L!KeepNetwork
        /\ Head(events).status = "NETWORK_UP"
        /\ InitsSink
        /\ callback' = "ready"
     \/ /\ \/ lib_state = "LEAVE_NWK_IN_PROGRESS" \/ resetDot154ChannelAtInit # L!KeepNetwork
           \/ Head(events).status # "NETWORK_UP"
        /\ UNCHANGED <<sinkVars, callback>>
  /\ UNCHANGED <<options, fsmVars, mainVars>>

EventHandled ==
  \/ StatusHandled
  \/ LibHandles(L!HandleDongleReady \/ L!HandleScanResult \/ L!HandleScanComplete
                \/ L!HandleXmodemReady)

(* A callback of the program has returned, and the library goes on.          *)
Resumes == running # <<>> /\ Head(running).rest # "start" /\ LibHandles(L!Return)

(* A device asks to be commissioned, or the adapter reports (external).  A   *)
(* network that drops (see LibEzspMain) takes the library out of SINK_BUSY   *)
(* behind the back of the sink, and is left out.                             *)
Reported ==
  \/ \E d \in Devices :
       /\ Free /\ running = <<>> /\ adapter.app
       /\ S!CommissioningFrame(d)
       /\ UNCHANGED <<libVars, options, fsmVars, callback, mainVars>>
  \/ /\ L!AdapterLeaves \/ L!AdapterScans
     /\ UNCHANGED <<sinkVars, options, fsmVars, callback, mainVars>>

-----------------------------------------------------------------------------
(* ezspStateChangeCallback(READY), and what it goes on with.                 *)

Ready == callback = "ready" /\ UNCHANGED <<options, mainVars>>

Upgrades ==
  /\ Ready /\ currentState = "INIT_PENDING" /\ options.upgrade
  /\ currentState' = "FW_UPGRADE"
  /\ L!SetFirmwareUpgradeMode
  /\ callback' = "none"
  /\ UNCHANGED <<sinkVars, removeAllGPDAtStartup, gpdRemoveList, gpdAddList, window>>

(* A request that the library checks, and the sink carries out.              *)
Requests(request) ==
  /\ L!SinkRequested /\ request
  /\ callback' = "none"
  /\ UNCHANGED window

RemovesAll ==
  /\ Ready /\ currentState = "INIT_PENDING" /\ ~options.upgrade
  /\ removeAllGPDAtStartup
  /\ Requests(S!ClearAllGPDevices)
  /\ currentState' = "REMOVE_ALL_GPD"
  /\ removeAllGPDAtStartup' = FALSE /\ gpdRemoveList' = <<>>
  /\ UNCHANGED gpdAddList

Removes ==
  /\ Ready /\ currentState = "INIT_PENDING" /\ ~options.upgrade
  /\ ~removeAllGPDAtStartup /\ gpdRemoveList # <<>>
  /\ Requests(S!RemoveGPDevices(gpdRemoveList))
  /\ currentState' = "REMOVE_SPECIFIC_GPD"
  /\ gpdRemoveList' = <<>>
  /\ UNCHANGED <<removeAllGPDAtStartup, gpdAddList>>

(* Nothing is left to be removed.                                            *)
Removed ==
  \/ currentState \in {"REMOVE_ALL_GPD", "REMOVE_SPECIFIC_GPD"}
  \/ /\ currentState = "INIT_PENDING" /\ ~options.upgrade
     /\ ~removeAllGPDAtStartup /\ gpdRemoveList = <<>>

Adds ==
  /\ Ready /\ Removed /\ gpdAddList # <<>>
  /\ Requests(S!AddGPDevices(gpdAddList))
  /\ currentState' = "ADD_GPD"
  /\ gpdAddList' = <<>>
  /\ UNCHANGED <<removeAllGPDAtStartup, gpdRemoveList>>

(* Mutant: only the end of an addition is waited for.                        *)
AddedOnly == currentState = "ADD_GPD"

(* Mutant: the windows are opened, and the scan begun, before the addition.  *)
AddedOrNot == currentState = "ADD_GPD" \/ Removed

Added == currentState = "ADD_GPD" \/ (Removed /\ gpdAddList = <<>>)

WantsScan == options.commission \/ options.answer

OpensWindows ==
  /\ Ready /\ Added /\ WantsScan
  /\ IF options.commission
     THEN S!OpenCommissioningSession
     ELSE UNCHANGED <<lib_state, commands, sinkVars>>
  /\ window' = IF options.answer THEN "open" ELSE window
  /\ currentState' = "SCAN_CHANNELS"
  /\ callback' = "scan"
  /\ UNCHANGED <<libVars, removeAllGPDAtStartup, gpdRemoveList, gpdAddList>>

(* The library says READY again when it begins to scan.                      *)
ScansChannels ==
  /\ callback = "scan"
  /\ L!StartScan("energy")
  /\ callback' = "ready"
  /\ UNCHANGED <<sinkVars, options, fsmVars, mainVars>>

Ignores ==
  /\ Ready
  /\ ~(currentState = "INIT_PENDING" /\ (options.upgrade \/ ~Removed))
  /\ ~(Removed /\ gpdAddList # <<>>)
  /\ ~(Added /\ WantsScan)
  /\ callback' = "none"
  /\ UNCHANGED <<lib_state, commands, libVars, sinkVars, fsmVars>>

(* processEnergyScanResults(), hence ezspInitDone(): the key is asked for    *)
(* first, or it runs.                                                        *)
EzspInitDone ==
  /\ callback = "scanned" /\ callback' = "none"
  /\ \/ options.key /\ currentState' = "GET_NW_KEY" /\ L!GetNetworkKey
     \/ ~options.key /\ currentState' = "RUN" /\ UNCHANGED <<lib_state, commands, libVars>>
  /\ UNCHANGED <<sinkVars, options, removeAllGPDAtStartup, gpdRemoveList, gpdAddList, window,
                 mainVars>>

EzspRun ==
  /\ callback = "key" /\ callback' = "none"
  /\ currentState' = "RUN"
  /\ UNCHANGED <<lib_state, commands, libVars, sinkVars, options, removeAllGPDAtStartup,
                 gpdRemoveList, gpdAddList, window, mainVars>>

CallbackRuns ==
  \/ Upgrades \/ RemovesAll \/ Removes \/ Adds \/ OpensWindows \/ ScansChannels
  \/ Ignores \/ EzspInitDone \/ EzspRun

(* channelRequestAnswerTimer.                                                *)
WindowCloses ==
  /\ window = "open" /\ window' = "closed"
  /\ UNCHANGED <<lib_state, commands, libVars, sinkVars, options, currentState,
                 removeAllGPDAtStartup, gpdRemoveList, gpdAddList, callback, mainVars>>

-----------------------------------------------------------------------------
(* main(), which starts the library and waits for stop.                      *)
MainStarts ==
  /\ mainThread = "starts"
  /\ \/ L!Start /\ UNCHANGED mainThread
     \/ running # <<>> /\ L!Return /\ mainThread' = "checks"
  /\ UNCHANGED <<sinkVars, options, fsmVars, callback, stop, missed>>

MainWaits ==
  /\ \/ mainThread = "checks" /\ mainThread' = IF stop THEN "returned" ELSE "blocks"
     \/ mainThread = "blocks" /\ mainThread' = "waits"
  /\ UNCHANGED <<lib_state, commands, libVars, sinkVars, options, fsmVars, callback, stop, missed>>

(* The handler of SIGINT.                                                    *)
Interrupted ==
  /\ ~stop /\ Stops
  /\ UNCHANGED <<lib_state, commands, libVars, sinkVars, options, fsmVars, callback>>

Goes == AnswerLib \/ AnswerSink \/ AnswerBoth \/ EventHandled \/ Resumes \/ CallbackRuns

ExampleNext ==
  /\ mainThread # "returned"
  /\ Goes \/ Reported \/ WindowCloses \/ MainStarts \/ MainWaits \/ Interrupted

ExampleSpec == ExampleInit(Options) /\ [][ExampleNext]_exampleVars

(* The threads of the library and of main() run, and the adapter ends scans. *)
ExampleFair ==
  /\ WF_exampleVars(mainThread # "returned" /\ Goes)
  /\ WF_exampleVars(mainThread # "returned" /\ L!AdapterScans
                    /\ UNCHANGED <<sinkVars, options, fsmVars, callback, mainVars>>)
  /\ WF_exampleVars(MainStarts) /\ WF_exampleVars(MainWaits)

-----------------------------------------------------------------------------
(* Properties.                                                               *)

(* The commands of C in a queue, in their order.                             *)
Part(C, queue) ==
  LET part[n \in 0 .. Len(queue)] ==
        IF n = 0 THEN <<>>
        ELSE IF queue[n].cmd \in C THEN Append(part[n - 1], queue[n]) ELSE part[n - 1]
  IN part[Len(queue)]

(* Composed with the library, the sink does what GpSink allows: the library  *)
(* makes requests only where GpSink says it may, so that what holds of       *)
(* GpSink holds here.                                                        *)
SinkPart(queue) == Part(SinkCmds \cup BothCmds, queue)
Sink == INSTANCE GpSink WITH
  Env <- SinkEnv, mishaps <- sinkMishaps, ops <- sinkOps,
  commands <- SinkPart(commands),
  lib_state <- IF sink_state = "SINK_NOT_INIT" THEN "STACK_INIT"
               ELSE IF lib_state = "SINK_BUSY" THEN "SINK_BUSY" ELSE "READY"
SinkAsSpecified == Sink!Spec

Undisturbed == libMishaps \cap {"scanRefused", "formRefused"} = {}

(* Once the library is READY the program gets to RUN, through every          *)
(* combination of its options, if one of them has it scan; or to the         *)
(* firmware upgrade, after which it stops.                                   *)
GetsThere ==
  lib_state = "READY" ~>
    \/ currentState = "RUN" \/ stop
    \/ ~(options.upgrade \/ WantsScan)
    \/ ~Undisturbed

(* When it runs, the devices of -s are in both tables and those of -r in     *)
(* none, and with -r '*' there is no device but those of -s and those that   *)
(* were commissioned since; unless both -r and -s name devices (see          *)
(* GpSink!AddTakesEffect), or the adapter has no room for an entry, or       *)
(* refuses it.                                                               *)
Given(list) == {list[i] : i \in 1 .. Len(list)}
Excepted ==
  \/ sinkMishaps \cap {"setFails", "full"} # {}
  \/ options.remove # <<>> /\ options.add # <<>>

DevicesAsAsked ==
  currentState = "RUN" /\ ~Excepted =>
    LET Known == S!Contents(sinkTable)
        Heard == S!Contents(proxyTable)
    IN /\ Given(options.add) \subseteq Known \cap Heard
       /\ ~options.commission =>
            /\ Given(options.remove) \cap (Known \cup Heard) = {}
            /\ options.removeAll => Known \cup Heard \subseteq Given(options.add)

(* When the library has terminated, or the user interrupts, main() returns,  *)
(* unless it was about to wait.                                              *)
MainReturns == stop ~> (mainThread = "returned" \/ missed)
=============================================================================

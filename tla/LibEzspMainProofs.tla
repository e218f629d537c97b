------------------------- MODULE LibEzspMainProofs -------------------------
(***************************************************************************)
(* Theorems about LibEzspMain, for any channels, versions and number of    *)
(* requests, and every mishap.                                             *)
(***************************************************************************)
EXTENDS LibEzspMain, Queues, SequenceTheorems

-----------------------------------------------------------------------------
(* Types.                                                                    *)

LEMMA CommandFacts ==
  /\ \A c \in PlainCmds : Cmd(c) \in EzspCommands
  /\ AddEndpoint(1) \in EzspCommands /\ AddEndpoint(242) \in EzspCommands
  /\ \A v \in Nat : [cmd |-> "VERSION", version |-> v] \in EzspCommands
  /\ \A c \in Nat : [cmd |-> "FORM_NETWORK", channel |-> c] \in EzspCommands
  /\ \A k \in Kinds, i \in Requests :
       [cmd |-> "START_SCAN", kind |-> k, scan |-> i] \in EzspCommands
  /\ \A c \in EzspCommands :
       /\ c.cmd = "FORM_NETWORK" => c.channel \in Nat
       /\ c.cmd = "START_SCAN" => c.kind \in Kinds /\ c.scan \in Requests
<1> USE DEF EzspCommands
<1>1. \A c \in PlainCmds : Cmd(c) \in EzspCommands
  BY DEF Cmd
<1>2. AddEndpoint(1) \in EzspCommands /\ AddEndpoint(242) \in EzspCommands
  BY DEF AddEndpoint
<1>3. \A c \in EzspCommands :
        /\ c.cmd = "FORM_NETWORK" => c.channel \in Nat
        /\ c.cmd = "START_SCAN" => c.kind \in Kinds /\ c.scan \in Requests
  BY DEF PlainCmds
<1> QED BY <1>1, <1>2, <1>3

LEMMA EventFacts ==
  /\ [event |-> "DONGLE_READY"] \in Events
  /\ \A s \in {"NETWORK_UP", "NETWORK_DOWN", "CHANNEL_CHANGED"} : Status(s) \in Events
  /\ \A e \in {"SCAN_RESULT_HANDLER", "SCAN_COMPLETE_HANDLER"}, k \in Kinds, i \in Requests :
       ScanEvent(e, k, i) \in Events
  /\ \A e \in Events :
       /\ e.event \in {"SCAN_RESULT_HANDLER", "SCAN_COMPLETE_HANDLER"} =>
            e.kind \in Kinds /\ e.scan \in Requests
       /\ e.event = "STACK_STATUS_HANDLER" =>
            e.status \in {"NETWORK_UP", "NETWORK_DOWN", "CHANNEL_CHANGED"}
BY DEF Events, Status, ScanEvent

LEMMA FrameFacts ==
  /\ \A r \in {"start", "completed", "key"} : [rest |-> r] \in Frames
  /\ \A k \in Kinds : [rest |-> "called", kind |-> k] \in Frames
  /\ \A k \in Kinds, i \in Requests : [rest |-> "request", kind |-> k, scan |-> i] \in Frames
  /\ \A f \in Frames : /\ f.rest = "called" => f.kind \in Kinds
                       /\ f.rest = "request" => f.kind \in Kinds /\ f.scan \in Requests
BY DEF Frames

LEMMA SendsType ==
  ASSUME TypeOK, commands # <<>>, NEW cmds \in Seq(EzspCommands), Sends(cmds)
  PROVE  commands' \in Seq(EzspCommands)
BY SeqFacts, TailConcat DEF Sends, TypeOK

LEMMA HappensType ==
  ASSUME TypeOK, NEW M, Happens(M)
  PROVE  mishaps' \in SUBSET Mishaps
BY LibAssumption DEF Happens, TypeOK

LEMMA NoRequestType == NoRequest \in 0 .. MaxOps /\ Requests \subseteq 0 .. MaxOps
BY LibAssumption DEF NoRequest, Requests

LEMMA AdapterFacts ==
  /\ adapter \in Adapters => /\ adapter.version \in Nat /\ adapter.version \in Versions
                             /\ adapter.up \in BOOLEAN /\ adapter.app \in BOOLEAN
                             /\ adapter.network \in {"none", "old", "formed"}
                             /\ adapter.channel \in Nat /\ adapter.scan \in 0 .. MaxOps
                             /\ adapter.kind \in Kinds /\ adapter.mesh \in BOOLEAN
  /\ adapter \in Adapters =>
       /\ [adapter EXCEPT !.up = ~@] \in Adapters
       /\ [adapter EXCEPT !.app = FALSE] \in Adapters
       /\ [adapter EXCEPT !.scan = NoRequest] \in Adapters
BY LibAssumption, NoRequestType DEF Adapters

LEMMA InitType == Init => TypeOK
<1> SUFFICES ASSUME Init PROVE TypeOK
  OBVIOUS
<1>1. /\ lib_state \in States /\ exp_ezsp_min_version \in Nat /\ form_channel \in Nat
      /\ resetDot154ChannelAtInit \in Channels \cup {KeepNetwork, OnlyLeave}
      /\ wanted \in Channels \cup {KeepNetwork, OnlyLeave}
      /\ scanInProgress \in BOOLEAN /\ upgrading \in BOOLEAN /\ networkKeyCallback \in 0 .. MaxOps
      /\ notified = {} /\ keysGiven = {} /\ ops \in 0 .. MaxOps
  <2>1. 0 \in 0 .. MaxOps
    BY LibAssumption
  <2>2. scanInProgress \in BOOLEAN /\ upgrading \in BOOLEAN
    BY Zenon DEF Init
  <2> QED BY <2>1, <2>2 DEF Init, States, MinVersion, DefaultChannel, NoRequest
<1>2. scanCallback \in [Kinds -> 0 .. MaxOps] /\ found \in [Kinds -> SUBSET Requests]
  BY LibAssumption DEF Init, NoRequest
<1>3. running \in Seq(Frames) /\ commands \in Seq(EzspCommands) /\ events \in Seq(Events)
  BY DEF Init
<1>4. adapter \in Adapters /\ mishaps \in SUBSET Mishaps
  <2>1. PICK v \in Versions, mesh \in {TRUE, "wrongType" \notin Env}, old \in {"none", "old"} :
          /\ adapter = [version |-> v, mesh |-> mesh, app |-> TRUE, network |-> old,
                        channel |-> 0, up |-> FALSE, scan |-> NoRequest, kind |-> "energy"]
          /\ mishaps = IF mesh THEN {} ELSE {"wrongType"}
    BY DEF Init
  <2>2. mesh \in BOOLEAN
    BY Zenon
  <2>3. adapter \in Adapters
    BY <2>1, <2>2, NoRequestType DEF Adapters, Kinds
  <2>4. mishaps \in SUBSET Mishaps
    BY <2>1 DEF Mishaps
  <2> QED BY <2>3, <2>4
<1> QED BY <1>1, <1>2, <1>3, <1>4 DEF TypeOK

LEMMA StartType ==
  ASSUME TypeOK, Start
  PROVE  TypeOK'
<1>1. running' \in Seq(Frames) /\ events' \in Seq(Events)
  BY FrameFacts, EventFacts DEF Start
<1> QED BY <1>1 DEF Start, TypeOK, initVars, scanVars, historyVars

LEMMA DongleReadyType ==
  ASSUME TypeOK, HandleDongleReady
  PROVE  TypeOK'
<1>1. events' \in Seq(Events)
  BY SeqFacts DEF HandleDongleReady, TypeOK
<1>2. mishaps' \in SUBSET Mishaps
  BY HappensType DEF HandleDongleReady, TypeOK
<1>3. lib_state' \in States /\ commands' \in Seq(EzspCommands) /\ exp_ezsp_min_version' \in Nat
  <2>1. /\ commands \in Seq(EzspCommands) /\ lib_state \in States
        /\ exp_ezsp_min_version \in Nat /\ exp_ezsp_min_version' \in Nat
    BY DEF HandleDongleReady, DongleInit, TypeOK
  <2>2. lib_state' \in States
    BY <2>1 DEF HandleDongleReady, DongleInit, States
  <2>3. commands' \in Seq(EzspCommands)
    BY <2>1, CommandFacts DEF HandleDongleReady, DongleInit
  <2> QED BY <2>1, <2>2, <2>3
<1> QED BY <1>1, <1>2, <1>3 DEF HandleDongleReady, TypeOK, scanVars, historyVars

LEMMA NothingSent == <<>> \in Seq(EzspCommands)
OBVIOUS

LEMMA BringUpType ==
  ASSUME TypeOK, VersionAnswered \/ XncpInfoAnswered
  PROVE  TypeOK'
<1>1. CASE VersionAnswered
  <2>1. commands # <<>> /\ Tail(commands) \in Seq(EzspCommands)
    BY <1>1, SeqFacts DEF VersionAnswered, Answered, TypeOK
  <2>2. adapter.version \in Nat
    BY AdapterFacts DEF TypeOK
  <2>3. <<Cmd("GET_XNCP_INFO")>> \in Seq(EzspCommands)
    BY CommandFacts DEF PlainCmds
  <2>4. [cmd |-> "VERSION", version |-> adapter.version] \in EzspCommands
    BY <2>2, CommandFacts
  <2>5. commands' \in Seq(EzspCommands)
    <3>1. Append(Tail(commands), [cmd |-> "VERSION", version |-> adapter.version])
            \in Seq(EzspCommands)
      BY <2>1, <2>4
    <3>2. Sends(<<Cmd("GET_XNCP_INFO")>>) \/ Sends(<<>>) => commands' \in Seq(EzspCommands)
      BY <2>1, <2>3, SendsType, NothingSent
    <3> QED BY <1>1, <3>1, <3>2 DEF VersionAnswered, DongleInit
  <2>6. lib_state' \in States /\ exp_ezsp_min_version' \in Nat
    BY <1>1, <2>2 DEF VersionAnswered, DongleInit, TypeOK, States
  <2> QED BY <1>1, <2>5, <2>6 DEF VersionAnswered, Answered, TypeOK, scanVars
<1>2. CASE XncpInfoAnswered
  <2>1. <<Cmd("SET_CONFIGURATION_VALUE"), AddEndpoint(1), AddEndpoint(242)>> \in Seq(EzspCommands)
    BY CommandFacts DEF PlainCmds
  <2>2. lib_state' \in States /\ commands' \in Seq(EzspCommands)
    BY <1>2, <2>1, SendsType DEF XncpInfoAnswered, Answered, States
  <2> QED BY <1>2, <2>2 DEF XncpInfoAnswered, Answered, TypeOK, scanVars, initVars
<1> QED BY <1>1, <1>2

LEMMA NextCommandType == \A c : NextCommand(c) \in Seq(EzspCommands)
BY CommandFacts DEF NextCommand, PlainCmds

LEMMA PlainType ==
  ASSUME TypeOK, PlainAnswered
  PROVE  TypeOK'
<1> DEFINE c == Head(commands).cmd
<1>1. commands' \in Seq(EzspCommands)
  BY SendsType, NextCommandType DEF PlainAnswered, Answered
<1>2. adapter' \in Adapters
  BY DEF PlainAnswered, TypeOK, Adapters
<1>3. events' \in Seq(Events)
  BY EventFacts DEF PlainAnswered, TypeOK
<1> QED BY <1>1, <1>2, <1>3 DEF PlainAnswered, Answered, TypeOK, initVars, scanVars

LEMMA NetworkStateType ==
  ASSUME TypeOK, NetworkStateAnswered
  PROVE  TypeOK'
<1>1. /\ <<Cmd("SET_POLICY"), Cmd("SET_INITIAL_SECURITY_STATE")>> \in Seq(EzspCommands)
      /\ <<Cmd("LEAVE_NETWORK")>> \in Seq(EzspCommands)
  BY CommandFacts DEF PlainCmds
<1>2. commands' \in Seq(EzspCommands)
  BY <1>1, SendsType, NothingSent DEF NetworkStateAnswered, Answered
<1>3. /\ lib_state' \in States /\ form_channel' \in Nat
      /\ resetDot154ChannelAtInit' \in Channels \cup {KeepNetwork, OnlyLeave}
  BY LibAssumption DEF NetworkStateAnswered, StopsWithoutNetwork, TypeOK, States
<1> QED BY <1>2, <1>3 DEF NetworkStateAnswered, Answered, TypeOK, scanVars

LEMMA NetworkAnswersType ==
  ASSUME TypeOK, SecurityStateAnswered \/ FormNetworkAnswered \/ LeaveNetworkAnswered
  PROVE  TypeOK'
<1> USE DEF initVars, scanVars, Answered
<1>1. CASE SecurityStateAnswered
  <2>1. <<[cmd |-> "FORM_NETWORK", channel |-> form_channel]>> \in Seq(EzspCommands)
    BY CommandFacts DEF TypeOK
  <2>2. commands' \in Seq(EzspCommands) /\ mishaps' \in SUBSET Mishaps
    BY <1>1, <2>1, SendsType, NothingSent, HappensType DEF SecurityStateAnswered, TypeOK
  <2> QED BY <1>1, <2>2 DEF SecurityStateAnswered, TypeOK
<1>2. CASE FormNetworkAnswered
  <2>1. commands' \in Seq(EzspCommands) /\ mishaps' \in SUBSET Mishaps
    BY <1>2, SendsType, NothingSent, HappensType DEF FormNetworkAnswered, TypeOK
  <2>2. Head(commands).channel \in Nat
    BY <1>2, SeqFacts, CommandFacts DEF FormNetworkAnswered, TypeOK
  <2>3. adapter' \in Adapters
    BY <1>2, <2>2 DEF FormNetworkAnswered, TypeOK, Adapters
  <2>4. events' \in Seq(Events)
    <3>1. Status("NETWORK_UP") \in Events /\ events \in Seq(Events)
      BY EventFacts DEF TypeOK
    <3>2. events' \in {events, Append(events, Status("NETWORK_UP"))}
      BY <1>2 DEF FormNetworkAnswered
    <3> QED BY <3>1, <3>2, SeqFacts
  <2> QED BY <1>2, <2>1, <2>3, <2>4 DEF FormNetworkAnswered, TypeOK
<1>3. CASE LeaveNetworkAnswered
  <2>1. commands' \in Seq(EzspCommands) /\ mishaps' \in SUBSET Mishaps /\ lib_state' \in States
    BY <1>3, SendsType, NothingSent, HappensType DEF LeaveNetworkAnswered, TypeOK, States
  <2> QED BY <1>3, <2>1 DEF LeaveNetworkAnswered, TypeOK
<1> QED BY <1>1, <1>2, <1>3

LEMMA OtherAnswersType ==
  ASSUME TypeOK, SinkWorkAnswered \/ LaunchAnswered \/ StartScanAnswered \/ GetKeyAnswered
  PROVE  TypeOK'
<1> USE DEF initVars, scanVars, Answered
<1>1. CASE SinkWorkAnswered
  <2>1. commands' \in Seq(EzspCommands) /\ lib_state' \in States
    BY <1>1, SendsType, NothingSent DEF SinkWorkAnswered, TypeOK, States
  <2> QED BY <1>1, <2>1 DEF SinkWorkAnswered, TypeOK
<1>2. CASE LaunchAnswered
  <2>1. commands' \in Seq(EzspCommands) /\ adapter' \in Adapters /\ upgrading' \in BOOLEAN
    BY <1>2, SendsType, NothingSent DEF LaunchAnswered, TypeOK, Adapters
  <2> QED BY <1>2, <2>1 DEF LaunchAnswered, TypeOK
<1>3. CASE StartScanAnswered
  <2>1. commands' \in Seq(EzspCommands) /\ mishaps' \in SUBSET Mishaps
    BY <1>3, SendsType, NothingSent, HappensType DEF StartScanAnswered, TypeOK
  <2>2. Head(commands).scan \in 0 .. MaxOps /\ Head(commands).kind \in Kinds
    BY <1>3, SeqFacts, CommandFacts, LibAssumption DEF StartScanAnswered, TypeOK, Requests
  <2>3. adapter' \in Adapters /\ scanInProgress' \in BOOLEAN
    BY <1>3, <2>2 DEF StartScanAnswered, TypeOK, Adapters, Started
  <2> QED BY <1>3, <2>1, <2>3 DEF StartScanAnswered, TypeOK
<1>4. CASE GetKeyAnswered
  <2>1. commands' \in Seq(EzspCommands)
    BY <1>4, SendsType, NothingSent DEF GetKeyAnswered
  <2>2. keysGiven' \subseteq Requests /\ running' \in Seq(Frames)
    <3>1. networkKeyCallback # NoRequest => networkKeyCallback \in Requests
      BY LibAssumption DEF TypeOK, NoRequest, Requests
    <3>2. <<[rest |-> "key"]>> \in Seq(Frames)
      BY FrameFacts
    <3> QED BY <1>4, <3>1, <3>2 DEF GetKeyAnswered, TypeOK
  <2> QED BY <1>4, <2>1, <2>2 DEF GetKeyAnswered, TypeOK
<1> QED BY <1>1, <1>2, <1>3, <1>4

LEMMA EventsType ==
  ASSUME TypeOK, \/ HandleStackStatus \/ HandleScanResult \/ HandleScanComplete
                 \/ HandleXmodemReady
  PROVE  TypeOK'
<1> USE DEF initVars, scanVars, historyVars, Handling
<1>1. CASE HandleStackStatus
  <2>1. events' \in Seq(Events) /\ mishaps' \in SUBSET Mishaps
    BY <1>1, SeqFacts, HappensType DEF HandleStackStatus, TypeOK
  <2>2. <<Cmd("GP_SINK_TABLE_INIT"), Cmd("GET_NETWORK_PARAMETERS")>> \in Seq(EzspCommands)
        /\ Cmd("GET_NETWORK_PARAMETERS") \in EzspCommands /\ Cmd("NETWORK_STATE") \in EzspCommands
    BY CommandFacts DEF PlainCmds
  <2>3. commands' \in Seq(EzspCommands)
    <3>1. /\ commands \in Seq(EzspCommands)
          /\ commands \o <<Cmd("GP_SINK_TABLE_INIT"), Cmd("GET_NETWORK_PARAMETERS")>>
               \in Seq(EzspCommands)
          /\ Append(commands, Cmd("GET_NETWORK_PARAMETERS")) \in Seq(EzspCommands)
          /\ Append(commands, Cmd("NETWORK_STATE")) \in Seq(EzspCommands)
      BY <2>2 DEF TypeOK
    <3> QED BY <1>1, <3>1 DEF HandleStackStatus
  <2>4. lib_state' \in States
    BY <1>1 DEF HandleStackStatus, TypeOK, States
  <2> QED BY <1>1, <2>1, <2>3, <2>4 DEF HandleStackStatus, TypeOK
<1>2. CASE HandleScanResult
  <2>1. events' \in Seq(Events) /\ Head(events).kind \in Kinds /\ Head(events).scan \in Requests
    BY <1>2, SeqFacts, EventFacts DEF HandleScanResult, TypeOK
  <2>2. found' \in [Kinds -> SUBSET Requests]
    BY <1>2, <2>1 DEF HandleScanResult, TypeOK
  <2> QED BY <1>2, <2>1, <2>2 DEF HandleScanResult, TypeOK
<1>3. CASE HandleScanComplete
  <2>0. <<[rest |-> "completed"]>> \in Seq(Frames)
    BY FrameFacts
  <2>1. events' \in Seq(Events) /\ running' \in Seq(Frames)
    BY <1>3, <2>0, SeqFacts DEF HandleScanComplete, TypeOK
  <2> QED BY <1>3, <2>1 DEF HandleScanComplete, TypeOK, States
<1>4. CASE HandleXmodemReady
  BY <1>4 DEF HandleXmodemReady, TypeOK, States
<1> QED BY <1>1, <1>2, <1>3, <1>4

LEMMA CallsBackType ==
  ASSUME TypeOK, NEW k \in Kinds, NEW callbacks \in [Kinds -> 0 .. MaxOps],
         NEW frames \in Seq(Frames), CallsBack(k, callbacks, frames)
  PROVE  /\ scanCallback' \in [Kinds -> 0 .. MaxOps]
         /\ running' \in Seq(Frames)
         /\ notified' \subseteq [scan : Requests, over : BOOLEAN, results : SUBSET Requests]
<1>1. running' \in Seq(Frames)
  BY FrameFacts DEF CallsBack
<1>2. callbacks[k] # NoRequest => callbacks[k] \in Requests
  BY LibAssumption DEF NoRequest, Requests
<1>3. notified' \subseteq [scan : Requests, over : BOOLEAN, results : SUBSET Requests]
  <2>1. callbacks[k] \in Requests =>
          [scan |-> callbacks[k], over |-> ~UnderWay(callbacks[k]), results |-> found[k]]
            \in [scan : Requests, over : BOOLEAN, results : SUBSET Requests]
    BY SMT DEF UnderWay, TypeOK
  <2>2. CASE callbacks[k] = NoRequest
    BY <2>2 DEF CallsBack, TypeOK
  <2>3. CASE callbacks[k] # NoRequest
    BY <1>2, <2>1, <2>3 DEF CallsBack, TypeOK
  <2> QED BY <2>2, <2>3
<1> QED BY <1>1, <1>3 DEF CallsBack

LEMMA ReturnType ==
  ASSUME TypeOK, Return
  PROVE  TypeOK'
<1> USE DEF initVars, ReturnsFrom
<1>1. running # <<>> /\ Tail(running) \in Seq(Frames) /\ Head(running) \in Frames
  BY SeqFacts DEF Return, TypeOK
<1>2. \A k \in Kinds : Forgotten(k) \in [Kinds -> 0 .. MaxOps]
  BY LibAssumption DEF Forgotten, TypeOK, NoRequest
<1>3. /\ scanCallback' \in [Kinds -> 0 .. MaxOps]
      /\ running' \in Seq(Frames)
      /\ notified' \subseteq [scan : Requests, over : BOOLEAN, results : SUBSET Requests]
      /\ lib_state' \in States /\ networkKeyCallback' \in 0 .. MaxOps
      /\ commands' \in Seq(EzspCommands)
  <2>1. CASE \/ ReturnsFrom("start") /\ running' = Tail(running) /\ lib_state' = "WAIT_DONGLE_READY"
                /\ UNCHANGED <<scanCallback, networkKeyCallback, notified, commands>>
             \/ ReturnsFrom("key") /\ CalledKey
                /\ UNCHANGED <<lib_state, scanCallback, notified, commands>>
    BY <1>1, <2>1, NoRequestType DEF CalledKey, TypeOK, States
  <2>2. CASE /\ ReturnsFrom("completed")
             /\ CallsBack(FirstToCall(scanCallback), scanCallback, Tail(running))
             /\ UNCHANGED <<lib_state, networkKeyCallback, commands>>
    <3>1. FirstToCall(scanCallback) \in Kinds
      BY DEF FirstToCall, Kinds
    <3> QED BY <1>1, <2>2, <3>1, CallsBackType DEF TypeOK
  <2>3. CASE /\ ReturnsFrom("called") /\ Head(running).kind = "energy"
             /\ CallsBack("active", Forgotten("energy"), Tail(running))
             /\ UNCHANGED <<lib_state, networkKeyCallback, commands>>
    <3>1. "active" \in Kinds /\ "energy" \in Kinds
      BY DEF Kinds
    <3> QED BY <1>1, <1>2, <2>3, <3>1, CallsBackType DEF TypeOK
  <2>4. CASE /\ ReturnsFrom("called") /\ Head(running).kind = "active"
             /\ scanCallback' = Forgotten("active")
             /\ running' = Tail(running)
             /\ UNCHANGED <<lib_state, networkKeyCallback, notified, commands>>
    BY <1>1, <1>2, <2>4 DEF TypeOK, Kinds
  <2>5. CASE /\ ReturnsFrom("request")
             /\ LET r == Head(running)
                IN /\ scanCallback' = [k \in Kinds |-> IF k = r.kind THEN r.scan ELSE NoRequest]
                   /\ commands' = Append(commands, [cmd |-> "START_SCAN", kind |-> r.kind,
                                                    scan |-> r.scan])
             /\ running' = Tail(running)
             /\ UNCHANGED <<lib_state, networkKeyCallback, notified>>
    <3>1. Head(running).kind \in Kinds /\ Head(running).scan \in Requests
      BY <1>1, <2>5, FrameFacts
    <3>2. [cmd |-> "START_SCAN", kind |-> Head(running).kind, scan |-> Head(running).scan]
            \in EzspCommands
      BY <3>1, CommandFacts
    <3>3. scanCallback' \in [Kinds -> 0 .. MaxOps]
      BY <2>5, <3>1, LibAssumption DEF NoRequest, Requests
    <3> QED BY <1>1, <2>5, <3>2, <3>3, SeqFacts DEF TypeOK
  <2> QED BY <2>1, <2>2, <2>3, <2>4, <2>5 DEF Return
<1> QED BY <1>3 DEF Return, TypeOK

LEMMA UserType ==
  ASSUME TypeOK, UserRequests
  PROVE  TypeOK'
<1> USE DEF initVars, historyVars, Request
<1>1. ops + 1 \in Requests /\ ops' \in 0 .. MaxOps /\ Requests \subseteq 0 .. MaxOps
  <2>1. ops < MaxOps /\ ops' = ops + 1
    BY DEF UserRequests, StartScan, GetNetworkKey, SetFirmwareUpgradeMode, SinkRequest,
           SinkRequested, SetChannelOrJoin
  <2> QED BY <2>1, LibAssumption DEF TypeOK, Requests
<1>2. ASSUME NEW k \in Kinds, StartScan(k) PROVE TypeOK'
  <2>1. [rest |-> "request", kind |-> k, scan |-> ops + 1] \in Frames
    BY <1>1, FrameFacts
  <2>2. running' \in Seq(Frames)
    BY <1>2, <2>1 DEF StartScan, TypeOK
  <2>3. found' \in [Kinds -> SUBSET Requests] /\ mishaps' \in SUBSET Mishaps
    BY <1>2, HappensType DEF StartScan, TypeOK
  <2> QED BY <1>1, <1>2, <2>2, <2>3 DEF StartScan, TypeOK, States
<1>3. CASE GetNetworkKey
  <2>1. commands' \in Seq(EzspCommands) /\ mishaps' \in SUBSET Mishaps
    BY <1>3, CommandFacts, SeqFacts, HappensType DEF GetNetworkKey, TypeOK, PlainCmds
  <2> QED BY <1>1, <1>3, <2>1 DEF GetNetworkKey, TypeOK
<1>4. CASE SetFirmwareUpgradeMode
  <2>1. commands' \in Seq(EzspCommands) /\ mishaps' \in SUBSET Mishaps
    BY <1>4, CommandFacts, SeqFacts, HappensType DEF SetFirmwareUpgradeMode, TypeOK, PlainCmds
  <2> QED BY <1>1, <1>4, <2>1 DEF SetFirmwareUpgradeMode, TypeOK, States
<1>5. CASE SinkRequest
  <2>1. commands' \in Seq(EzspCommands)
    BY <1>5, CommandFacts, SeqFacts DEF SinkRequest, TypeOK, PlainCmds
  <2> QED BY <1>1, <1>5, <2>1 DEF SinkRequest, SinkRequested, TypeOK, States
<1>6. ASSUME NEW c \in {"SET_RADIO_CHANNEL", "JOIN_NETWORK"}, SetChannelOrJoin(c) PROVE TypeOK'
  <2>1. commands' \in Seq(EzspCommands)
    BY <1>6, CommandFacts, SeqFacts DEF SetChannelOrJoin, TypeOK, PlainCmds
  <2> QED BY <1>1, <1>6, <2>1 DEF SetChannelOrJoin, TypeOK
<1> QED BY <1>2, <1>3, <1>4, <1>5, <1>6 DEF UserRequests

LEMMA AdapterType ==
  ASSUME TypeOK, AdapterLeaves \/ AdapterScans \/ AdapterDrops
  PROVE  TypeOK'
<1> USE DEF initVars, scanVars, historyVars
<1>1. CASE AdapterLeaves
  <2>1. events' \in Seq(Events) /\ adapter' \in Adapters
    BY <1>1, EventFacts, SeqFacts DEF AdapterLeaves, TypeOK, Adapters
  <2> QED BY <1>1, <2>1 DEF AdapterLeaves, TypeOK
<1>2. CASE AdapterScans
  <2>1. adapter.scan \in Requests /\ adapter.kind \in Kinds
    BY <1>2, LibAssumption DEF AdapterScans, TypeOK, Adapters, NoRequest, Requests
  <2>2. events' \in Seq(Events)
    BY <1>2, <2>1, EventFacts DEF AdapterScans, TypeOK
  <2>3. adapter' \in Adapters
    BY <1>2, AdapterFacts DEF AdapterScans, TypeOK
  <2> QED BY <1>2, <2>2, <2>3 DEF AdapterScans, TypeOK
<1>3. CASE AdapterDrops
  <2>1. events' \in Seq(Events)
    BY <1>3, EventFacts, SeqFacts DEF AdapterDrops, TypeOK
  <2>3. adapter' \in Adapters /\ ops' \in 0 .. MaxOps
    BY <1>3, AdapterFacts, LibAssumption DEF AdapterDrops, TypeOK
  <2>2. mishaps' \in SUBSET Mishaps
    BY <1>3, HappensType DEF AdapterDrops
  <2> QED BY <1>3, <2>1, <2>2, <2>3 DEF AdapterDrops, TypeOK
<1> QED BY <1>1, <1>2, <1>3

LEMMA TypeStep ==
  ASSUME TypeOK, [Next]_vars
  PROVE  TypeOK'
<1>1. CASE UNCHANGED vars
  BY <1>1 DEF vars, initVars, scanVars, historyVars, TypeOK
<1> QED BY <1>1, StartType, DongleReadyType, BringUpType, PlainType, NetworkStateType,
           NetworkAnswersType, OtherAnswersType, EventsType, ReturnType, UserType, AdapterType
        DEF Next, Goes, HandleEzspRxMessage, ResponseHandled

(* Every variable of the library, of the command queue and of the adapter    *)
(* keeps its type: in particular a handler that reads the kind or the        *)
(* request of a scan only does so where there is one.                        *)
THEOREM LibTypeCorrect == Spec => []TypeOK
BY InitType, TypeStep, PTL DEF Spec

-----------------------------------------------------------------------------
(* The steps that have nothing to do with scans.                             *)

ScanCommands == {c \in EzspCommands : c.cmd = "START_SCAN"}
ScanReports ==
  {e \in Events : e.event \in {"SCAN_RESULT_HANDLER", "SCAN_COMPLETE_HANDLER"}}

StartFrame == [rest |-> "start"]
KeyFrame == [rest |-> "key"]

(* They leave all that belongs to scans as it was, and do not enter SCANNING.*)
AsideFromScans ==
  /\ SameOf(ScanCommands, commands, commands')
  /\ SameOf(ScanReports, events, events')
  /\ adapter'.scan = adapter.scan /\ adapter'.kind = adapter.kind
  /\ UNCHANGED scanVars
  /\ lib_state' = "SCANNING" => lib_state = "SCANNING"
  /\ \/ UNCHANGED running
     \/ running = <<>> /\ running' \in {<<StartFrame>>, <<KeyFrame>>}
     \/ /\ running # <<>> /\ Head(running).rest \in {"start", "key"}
        /\ running' = Tail(running)

ScanReturns ==
  \/ ReturnsFrom("completed") \/ ReturnsFrom("called") \/ ReturnsFrom("request")

ScanStep ==
  \/ StartScanAnswered \/ HandleScanResult \/ HandleScanComplete
  \/ Return /\ ScanReturns
  \/ \E k \in Kinds : StartScan(k)
  \/ AdapterScans

LEMMA MishapsStay == ASSUME TypeOK, [Next]_vars PROVE mishaps \subseteq mishaps'
<1> SUFFICES ASSUME ~UNCHANGED mishaps PROVE \E M : Happens(M)
  BY DEF Happens
<1> QED
  BY DEF vars, Next, Goes, HandleEzspRxMessage, ResponseHandled, UserRequests, Start,
         HandleDongleReady, VersionAnswered, XncpInfoAnswered, PlainAnswered,
         NetworkStateAnswered, SecurityStateAnswered, FormNetworkAnswered,
         LeaveNetworkAnswered, SinkWorkAnswered, LaunchAnswered, StartScanAnswered,
         GetKeyAnswered, HandleStackStatus, HandleScanResult, HandleScanComplete,
         HandleXmodemReady, Return, StartScan, GetNetworkKey, SetFirmwareUpgradeMode,
         SinkRequest, SinkRequested, SetChannelOrJoin, AdapterLeaves, AdapterScans, AdapterDrops

(* Ways in which commands and events are not about scans.                    *)
LEMMA SendsNoScan ==
  ASSUME TypeOK, commands # <<>>, Head(commands).cmd # "START_SCAN",
         NEW cmds \in Seq(EzspCommands), \A i \in 1 .. Len(cmds) : cmds[i].cmd # "START_SCAN"
  PROVE  Sends(cmds) => SameOf(ScanCommands, commands, commands')
<1>1. commands \in Seq(EzspCommands) /\ Head(commands) \notin ScanCommands
  BY DEF TypeOK, ScanCommands
<1>2. \A i \in 1 .. Len(cmds) : cmds[i] \notin ScanCommands
  BY DEF ScanCommands
<1> QED BY <1>1, <1>2, SameOfTailLonger DEF Sends

LEMMA SendsOneNoScan ==
  ASSUME TypeOK, commands # <<>>, Head(commands).cmd # "START_SCAN"
  PROVE  /\ Sends(<<>>) => SameOf(ScanCommands, commands, commands')
         /\ \A c \in EzspCommands : c.cmd # "START_SCAN" /\ Sends(<<c>>)
                                      => SameOf(ScanCommands, commands, commands')
         /\ \A c, d \in EzspCommands :
              c.cmd # "START_SCAN" /\ d.cmd # "START_SCAN" /\ Sends(<<c, d>>)
                => SameOf(ScanCommands, commands, commands')
<1>1. Sends(<<>>) => SameOf(ScanCommands, commands, commands')
  <2>1. \A i \in 1 .. Len(<<>>) : <<>>[i].cmd # "START_SCAN"
    OBVIOUS
  <2> QED BY <2>1, SendsNoScan, NothingSent
<1>2. ASSUME NEW c \in EzspCommands, c.cmd # "START_SCAN", Sends(<<c>>)
      PROVE  SameOf(ScanCommands, commands, commands')
  <2>1. <<c>> \in Seq(EzspCommands) /\ \A i \in 1 .. Len(<<c>>) : <<c>>[i].cmd # "START_SCAN"
    BY <1>2
  <2> QED BY <1>2, <2>1, SendsNoScan
<1>3. ASSUME NEW c \in EzspCommands, NEW d \in EzspCommands,
             c.cmd # "START_SCAN", d.cmd # "START_SCAN", Sends(<<c, d>>)
      PROVE  SameOf(ScanCommands, commands, commands')
  <2>1. <<c, d>> \in Seq(EzspCommands)
        /\ \A i \in 1 .. Len(<<c, d>>) : <<c, d>>[i].cmd # "START_SCAN"
    BY <1>3
  <2> QED BY <1>3, <2>1, SendsNoScan
<1> QED BY <1>1, <1>2, <1>3

LEMMA AddsNoScan ==
  ASSUME TypeOK
  PROVE  /\ UNCHANGED commands => SameOf(ScanCommands, commands, commands')
         /\ \A c \in EzspCommands : c.cmd # "START_SCAN" /\ commands' = Append(commands, c)
                                      => SameOf(ScanCommands, commands, commands')
<1>1. commands \in Seq(EzspCommands)
  BY DEF TypeOK
<1>2. ASSUME NEW c \in EzspCommands, c.cmd # "START_SCAN"
      PROVE  SameOf(ScanCommands, commands, Append(commands, c))
  BY <1>1, <1>2, SameOfAppend DEF ScanCommands
<1> QED BY <1>1, <1>2, SameOfSelf

LEMMA ReportsNoScan ==
  ASSUME TypeOK
  PROVE  /\ UNCHANGED events => SameOf(ScanReports, events, events')
         /\ \A s \in {"NETWORK_UP", "NETWORK_DOWN", "CHANNEL_CHANGED"} :
              events' = Append(events, Status(s)) => SameOf(ScanReports, events, events')
         /\ /\ events # <<>> /\ events' = Tail(events)
            /\ Head(events).event \notin {"SCAN_RESULT_HANDLER", "SCAN_COMPLETE_HANDLER"}
            => SameOf(ScanReports, events, events')
<1>1. events \in Seq(Events)
  BY DEF TypeOK
<1>2. ASSUME NEW s \in {"NETWORK_UP", "NETWORK_DOWN", "CHANNEL_CHANGED"}
      PROVE  SameOf(ScanReports, events, Append(events, Status(s)))
  <2>1. Status(s) \in Events /\ Status(s) \notin ScanReports
    BY EventFacts DEF Status, ScanReports
  <2> QED BY <1>1, <2>1, SameOfAppend
<1>3. ASSUME events # <<>>, Head(events).event \notin {"SCAN_RESULT_HANDLER", "SCAN_COMPLETE_HANDLER"}
      PROVE  SameOf(ScanReports, events, Tail(events))
  BY <1>1, <1>3, SameOfTail DEF ScanReports
<1> QED BY <1>1, <1>2, <1>3, SameOfSelf

(* Before start() there is nothing to be done; after it, only the report     *)
(* that the adapter is ready.                                                *)
Fresh ==
  lib_state = "UNINITIALIZED" =>
    /\ commands = <<>> /\ adapter.scan = NoRequest /\ ~adapter.up /\ "drops" \notin mishaps
    /\ ~upgrading
    /\ \/ running = <<>> /\ events = <<>>
       \/ running = <<StartFrame>> /\ events \in {<<>>, <<[event |-> "DONGLE_READY"]>>}

LEMMA FreshStep ==
  ASSUME TypeOK, Fresh, Next
  PROVE  Fresh'
<1> SUFFICES ASSUME lib_state' = "UNINITIALIZED" PROVE Fresh'
  BY DEF Fresh
<1>1. lib_state = "UNINITIALIZED"
  BY DEF Next, Goes, HandleEzspRxMessage, ResponseHandled, UserRequests, Start,
         HandleDongleReady, DongleInit, VersionAnswered, XncpInfoAnswered, PlainAnswered,
         NetworkStateAnswered, SecurityStateAnswered, FormNetworkAnswered,
         LeaveNetworkAnswered, SinkWorkAnswered, LaunchAnswered, StartScanAnswered,
         GetKeyAnswered, HandleStackStatus, HandleScanResult, HandleScanComplete,
         HandleXmodemReady, Return, StartScan, GetNetworkKey, SetFirmwareUpgradeMode,
         SinkRequest, SinkRequested, SetChannelOrJoin, AdapterLeaves, AdapterScans, AdapterDrops
<1>2. /\ commands = <<>> /\ adapter.scan = NoRequest /\ ~adapter.up /\ "drops" \notin mishaps
      /\ ~upgrading
      /\ \/ running = <<>> /\ events = <<>>
         \/ running = <<StartFrame>> /\ events \in {<<>>, <<[event |-> "DONGLE_READY"]>>}
  BY <1>1 DEF Fresh
<1>3. CASE Start
  BY <1>2, <1>3 DEF Start, Fresh, StartFrame
<1>4. CASE HandleDongleReady
  <2>1. running = <<StartFrame>> /\ events = <<[event |-> "DONGLE_READY"]>>
    BY <1>2, <1>4 DEF HandleDongleReady
  <2>2. events' = <<>>
    <3>1. Tail(<<[event |-> "DONGLE_READY"]>>) = <<>>
      OBVIOUS
    <3> QED BY <1>4, <2>1, <3>1 DEF HandleDongleReady
  <2>3. UNCHANGED <<commands, adapter, running, upgrading>> /\ "drops" \notin mishaps'
    BY <1>1, <1>2, <1>4 DEF HandleDongleReady, Happens
  <2> QED BY <1>2, <2>1, <2>2, <2>3 DEF Fresh
<1>5. ~HandleEzspRxMessage
  <2>1. ~ResponseHandled
    BY <1>2 DEF ResponseHandled, VersionAnswered, XncpInfoAnswered, PlainAnswered,
         NetworkStateAnswered, SecurityStateAnswered, FormNetworkAnswered, LeaveNetworkAnswered,
         SinkWorkAnswered, LaunchAnswered, StartScanAnswered, GetKeyAnswered, Answered
  <2>2. ~(running = <<>> /\ events # <<>>)
    BY <1>2
  <2> QED BY <2>1, <2>2 DEF HandleEzspRxMessage, HandleStackStatus, HandleScanResult,
                            HandleScanComplete, Handling
<1>6. ~HandleXmodemReady /\ ~AdapterLeaves /\ ~AdapterScans /\ ~AdapterDrops
  BY <1>2 DEF HandleXmodemReady, AdapterLeaves, AdapterScans, AdapterDrops
<1>7. ~Return
  <2>1. running # <<>> => Head(running).rest = "start"
    BY <1>2 DEF StartFrame
  <2> QED BY <1>1, <2>1 DEF Return, ReturnsFrom
<1>8. ~UserRequests
  BY <1>1 DEF UserRequests, StartScan, GetNetworkKey, SetFirmwareUpgradeMode, SinkRequest,
              SinkRequested, SetChannelOrJoin, Request
<1> QED BY <1>3, <1>4, <1>5, <1>6, <1>7, <1>8 DEF Next, Goes

(* A library that was not started has sent nothing and heard of nothing but  *)
(* the readiness of the dongle.                                              *)
THEOREM FreshAtFirst == Spec => []Fresh
<1>1. Init => Fresh
  BY DEF Init, Fresh
<1>2. TypeOK /\ Fresh /\ [Next]_vars => Fresh'
  <2> SUFFICES ASSUME TypeOK, Fresh, UNCHANGED vars PROVE Fresh'
    BY FreshStep
  <2> QED BY DEF vars, Fresh
<1> QED BY <1>1, <1>2, LibTypeCorrect, PTL DEF Spec

LEMMA OthersStandAside ==
  ASSUME TypeOK, Fresh, Next
  PROVE  AsideFromScans \/ ScanStep
<1> USE DEF scanVars
<1>1. CASE Start
  <2>1. events = <<>> /\ running' = <<StartFrame>> /\ running = <<>>
    BY <1>1 DEF Start, Fresh, StartFrame
  <2>2. events' = Append(events, [event |-> "DONGLE_READY"])
    BY <1>1, <2>1 DEF Start
  <2>3. [event |-> "DONGLE_READY"] \in Events /\ [event |-> "DONGLE_READY"] \notin ScanReports
    BY EventFacts DEF ScanReports
  <2>4. SameOf(ScanReports, events, events')
    BY <2>2, <2>3, SameOfAppend DEF TypeOK
  <2> QED BY <1>1, <2>1, <2>4, AddsNoScan DEF Start, AsideFromScans
<1>2. CASE HandleDongleReady
  <2>1. SameOf(ScanReports, events, events')
    BY <1>2, ReportsNoScan DEF HandleDongleReady
  <2>2. [cmd |-> "VERSION", version |-> exp_ezsp_min_version] \in EzspCommands
    BY CommandFacts DEF TypeOK
  <2>3. SameOf(ScanCommands, commands, commands')
    BY <1>2, <2>2, AddsNoScan DEF HandleDongleReady, DongleInit
  <2> QED BY <1>2, <2>1, <2>3 DEF HandleDongleReady, DongleInit, AsideFromScans
<1>3. CASE VersionAnswered
  <2>1. commands # <<>> /\ Head(commands).cmd # "START_SCAN"
    BY <1>3 DEF VersionAnswered, Answered
  <2>2. [cmd |-> "VERSION", version |-> adapter.version] \in EzspCommands
        /\ Cmd("GET_XNCP_INFO") \in EzspCommands
    BY AdapterFacts, CommandFacts DEF TypeOK, PlainCmds
  <2>5. DongleInit(adapter.version, Tail(commands)) =>
          Sends(<<[cmd |-> "VERSION", version |-> adapter.version]>>)
    <3>1. Tail(commands) \in Seq(EzspCommands)
      BY <2>1, SeqFacts DEF TypeOK
    <3> QED BY <2>2, <3>1 DEF DongleInit, Sends
  <2>6. SameOf(ScanCommands, commands, commands')
    BY <1>3, <2>1, <2>2, <2>5, SendsOneNoScan DEF VersionAnswered, Cmd
  <2> QED BY <1>3, <2>6, ReportsNoScan DEF VersionAnswered, DongleInit, AsideFromScans
<1>4. CASE XncpInfoAnswered
  <2>1. DEFINE cmds == <<Cmd("SET_CONFIGURATION_VALUE"), AddEndpoint(1), AddEndpoint(242)>>
  <2>2. cmds \in Seq(EzspCommands) /\ \A i \in 1 .. Len(cmds) : cmds[i].cmd # "START_SCAN"
    BY CommandFacts DEF PlainCmds, Cmd, AddEndpoint
  <2>3. SameOf(ScanCommands, commands, commands')
    BY <1>4, <2>2, SendsNoScan DEF XncpInfoAnswered, Answered
  <2> QED BY <1>4, <2>3, ReportsNoScan DEF XncpInfoAnswered, AsideFromScans
<1>5. CASE PlainAnswered
  <2>1. Head(commands).cmd # "START_SCAN" /\ commands # <<>>
    BY <1>5 DEF PlainAnswered, Answered
  <2>2. \A c : \A i \in 1 .. Len(NextCommand(c)) : NextCommand(c)[i].cmd # "START_SCAN"
    BY DEF NextCommand, Cmd
  <2>3. SameOf(ScanCommands, commands, commands')
    BY <1>5, <2>1, <2>2, NextCommandType, SendsNoScan DEF PlainAnswered
  <2>4. SameOf(ScanReports, events, events')
    <3>1. events \o <<>> = events /\ \A e \in Events : events \o <<e>> = Append(events, e)
      BY DEF TypeOK
    <3>2. \/ UNCHANGED events
          \/ \E s \in {"NETWORK_UP", "CHANNEL_CHANGED"} : events' = Append(events, Status(s))
      BY <1>5, <3>1, EventFacts DEF PlainAnswered
    <3> QED BY <3>2, ReportsNoScan
  <2>5. adapter'.scan = adapter.scan /\ adapter'.kind = adapter.kind
    BY <1>5 DEF PlainAnswered, TypeOK, Adapters
  <2> QED BY <1>5, <2>3, <2>4, <2>5 DEF PlainAnswered, AsideFromScans
<1>6. CASE NetworkStateAnswered
  <2>1. Head(commands).cmd # "START_SCAN" /\ commands # <<>>
    BY <1>6 DEF NetworkStateAnswered, Answered
  <2>2. \A c \in {"SET_POLICY", "SET_INITIAL_SECURITY_STATE", "LEAVE_NETWORK"} :
          Cmd(c) \in EzspCommands /\ Cmd(c).cmd # "START_SCAN"
    BY CommandFacts DEF PlainCmds, Cmd
  <2>3. SameOf(ScanCommands, commands, commands')
    BY <1>6, <2>1, <2>2, SendsOneNoScan DEF NetworkStateAnswered
  <2> QED BY <1>6, <2>3, ReportsNoScan DEF NetworkStateAnswered, AsideFromScans
<1>7. CASE SecurityStateAnswered
  <2>1. Head(commands).cmd # "START_SCAN" /\ commands # <<>>
    BY <1>7 DEF SecurityStateAnswered, Answered
  <2>2. [cmd |-> "FORM_NETWORK", channel |-> form_channel] \in EzspCommands
    BY CommandFacts DEF TypeOK
  <2>3. SameOf(ScanCommands, commands, commands')
    BY <1>7, <2>1, <2>2, SendsOneNoScan DEF SecurityStateAnswered
  <2> QED BY <1>7, <2>3, ReportsNoScan DEF SecurityStateAnswered, AsideFromScans
<1>8. ASSUME Sends(<<>>), commands # <<>>, Head(commands).cmd # "START_SCAN"
      PROVE  SameOf(ScanCommands, commands, commands')
  BY <1>8, SendsOneNoScan
<1>9. CASE FormNetworkAnswered
  <2>1. adapter'.scan = adapter.scan /\ adapter'.kind = adapter.kind
    BY <1>9 DEF FormNetworkAnswered, TypeOK, Adapters
  <2>2. SameOf(ScanReports, events, events')
    BY <1>9, ReportsNoScan DEF FormNetworkAnswered
  <2> QED BY <1>8, <1>9, <2>1, <2>2 DEF FormNetworkAnswered, Answered, AsideFromScans
<1>10. CASE LeaveNetworkAnswered \/ SinkWorkAnswered
  BY <1>8, <1>10, ReportsNoScan DEF LeaveNetworkAnswered, SinkWorkAnswered, Answered, AsideFromScans
<1>11. CASE LaunchAnswered
  <2>1. adapter'.scan = adapter.scan /\ adapter'.kind = adapter.kind
    BY <1>11 DEF LaunchAnswered, TypeOK, Adapters
  <2> QED BY <1>8, <1>11, <2>1, ReportsNoScan DEF LaunchAnswered, Answered, AsideFromScans
<1>12. CASE GetKeyAnswered
  BY <1>8, <1>12, ReportsNoScan DEF GetKeyAnswered, AsideFromScans, KeyFrame
<1>13. CASE HandleStackStatus
  <2>1. SameOf(ScanReports, events, events')
    BY <1>13, ReportsNoScan DEF HandleStackStatus, Handling
  <2>2. /\ <<Cmd("GP_SINK_TABLE_INIT"), Cmd("GET_NETWORK_PARAMETERS")>> \in Seq(EzspCommands)
        /\ Cmd("GET_NETWORK_PARAMETERS") \in EzspCommands /\ Cmd("NETWORK_STATE") \in EzspCommands
    BY CommandFacts DEF PlainCmds
  <2>3. SameOf(ScanCommands, commands, commands \o <<Cmd("GP_SINK_TABLE_INIT"), Cmd("GET_NETWORK_PARAMETERS")>>)
    <3>1. \A i \in 1 .. 2 :
            <<Cmd("GP_SINK_TABLE_INIT"), Cmd("GET_NETWORK_PARAMETERS")>>[i] \notin ScanCommands
      BY DEF Cmd, ScanCommands
    <3>2. Len(<<Cmd("GP_SINK_TABLE_INIT"), Cmd("GET_NETWORK_PARAMETERS")>>) = 2
      OBVIOUS
    <3> QED BY <2>2, <3>1, <3>2, SameOfLonger DEF TypeOK
  <2>4. SameOf(ScanCommands, commands, commands')
    BY <1>13, <2>2, <2>3, AddsNoScan DEF HandleStackStatus, Cmd
  <2> QED BY <1>13, <2>1, <2>4 DEF HandleStackStatus, AsideFromScans
<1>14. CASE HandleXmodemReady
  BY <1>14, AddsNoScan, ReportsNoScan DEF HandleXmodemReady, AsideFromScans
<1>15. CASE Return /\ ~ScanReturns
  BY <1>15, AddsNoScan, ReportsNoScan
     DEF Return, ScanReturns, ReturnsFrom, CalledKey, AsideFromScans
<1>16. CASE GetNetworkKey \/ SetFirmwareUpgradeMode \/ SinkRequest
            \/ \E c \in {"SET_RADIO_CHANNEL", "JOIN_NETWORK"} : SetChannelOrJoin(c)
  <2>1. \E c \in PlainCmds : commands' = Append(commands, Cmd(c))
    BY <1>16 DEF GetNetworkKey, SetFirmwareUpgradeMode, SinkRequest, SetChannelOrJoin, PlainCmds
  <2>2. SameOf(ScanCommands, commands, commands')
    BY <2>1, CommandFacts, AddsNoScan DEF Cmd, PlainCmds
  <2> QED BY <1>16, <2>2, ReportsNoScan
          DEF GetNetworkKey, SetFirmwareUpgradeMode, SinkRequest, SinkRequested,
              SetChannelOrJoin, Request, AsideFromScans
<1>17. CASE AdapterLeaves \/ AdapterDrops
  <2>1. adapter'.scan = adapter.scan /\ adapter'.kind = adapter.kind
    BY <1>17 DEF AdapterLeaves, AdapterDrops, TypeOK, Adapters
  <2>2. SameOf(ScanReports, events, events')
    BY <1>17, ReportsNoScan DEF AdapterLeaves, AdapterDrops
  <2> QED BY <1>17, <2>1, <2>2, AddsNoScan DEF AdapterLeaves, AdapterDrops, AsideFromScans
<1> QED BY <1>1, <1>2, <1>3, <1>4, <1>5, <1>6, <1>7, <1>9, <1>10, <1>11, <1>12, <1>13, <1>14,
           <1>15, <1>16, <1>17
        DEF Next, Goes, HandleEzspRxMessage, ResponseHandled, UserRequests, ScanStep

-----------------------------------------------------------------------------
(* A scan that is waited for is under way.                                   *)

RequestPending == \E j \in 1 .. Len(running) : running[j].rest = "request"

LEMMA UnderWayStays ==
  ASSUME NEW i, UnderWay(i), adapter'.scan = adapter.scan,
         \A j \in 1 .. Len(commands) : commands[j].cmd = "START_SCAN" =>
           \E k \in 1 .. Len(commands') : commands'[k] = commands[j],
         \A j \in 1 .. Len(events) : events[j].event = "SCAN_COMPLETE_HANDLER" =>
           \E k \in 1 .. Len(events') : events'[k] = events[j]
  PROVE  UnderWay(i)'
<1>1. CASE adapter.scan = i
  BY <1>1 DEF UnderWay
<1>2. CASE \E j \in 1 .. Len(commands) : commands[j].cmd = "START_SCAN" /\ commands[j].scan = i
  <2>1. \E k \in 1 .. Len(commands') : commands'[k].cmd = "START_SCAN" /\ commands'[k].scan = i
    BY <1>2
  <2> QED BY <2>1 DEF UnderWay
<1>3. CASE \E j \in 1 .. Len(events) : /\ events[j].event = "SCAN_COMPLETE_HANDLER"
                                       /\ events[j].scan = i
  <2>1. \E k \in 1 .. Len(events') : /\ events'[k].event = "SCAN_COMPLETE_HANDLER"
                                     /\ events'[k].scan = i
    BY <1>3
  <2> QED BY <2>1 DEF UnderWay
<1> QED BY <1>1, <1>2, <1>3 DEF UnderWay

LEMMA AsideUnderWay ==
  ASSUME TypeOK, AsideFromScans, NEW i, UnderWay(i)
  PROVE  UnderWay(i)'
<1>1. \A j \in 1 .. Len(commands) : commands[j].cmd = "START_SCAN" =>
        \E k \in 1 .. Len(commands') : commands'[k] = commands[j]
  <2>1. \A j \in 1 .. Len(commands) : commands[j].cmd = "START_SCAN" => commands[j] \in ScanCommands
    BY SeqFacts DEF TypeOK, ScanCommands
  <2> QED BY <2>1 DEF AsideFromScans, SameOf
<1>2. \A j \in 1 .. Len(events) : events[j].event = "SCAN_COMPLETE_HANDLER" =>
        \E k \in 1 .. Len(events') : events'[k] = events[j]
  <2>1. \A j \in 1 .. Len(events) :
          events[j].event = "SCAN_COMPLETE_HANDLER" => events[j] \in ScanReports
    BY SeqFacts DEF TypeOK, ScanReports
  <2> QED BY <2>1 DEF AsideFromScans, SameOf
<1> QED BY <1>1, <1>2, UnderWayStays DEF AsideFromScans

(* Frames of a stack, by whatever is done at its top.                        *)
LEMMA RequestStays ==
  ASSUME TypeOK, RequestPending,
         \/ UNCHANGED running
         \/ \E f \in Frames : running' = <<f>> \o running
         \/ /\ running # <<>> /\ Head(running).rest # "request"
            /\ \/ running' = Tail(running)
               \/ \E f \in Frames : running' = <<f>> \o Tail(running)
  PROVE  RequestPending'
<1>1. PICK j \in 1 .. Len(running) : running[j].rest = "request"
  BY DEF RequestPending
<1>2. running \in Seq(Frames)
  BY DEF TypeOK
<1>3. CASE UNCHANGED running
  BY <1>3 DEF RequestPending
<1>4. ASSUME NEW f \in Frames, running' = <<f>> \o running PROVE RequestPending'
  <2>1. j + 1 \in 1 .. Len(running') /\ running'[j + 1] = running[j]
    BY <1>2, <1>4
  <2> QED BY <1>1, <2>1 DEF RequestPending
<1>5. ASSUME running # <<>>, Head(running).rest # "request"
      PROVE  j - 1 \in 1 .. Len(Tail(running)) /\ Tail(running)[j - 1] = running[j]
  BY <1>1, <1>2, <1>5, SeqFacts
<1>6. ASSUME running # <<>>, Head(running).rest # "request", running' = Tail(running)
      PROVE  RequestPending'
  <2>1. j - 1 \in 1 .. Len(running') /\ running'[j - 1].rest = "request"
    BY <1>1, <1>5, <1>6
  <2> QED BY <2>1 DEF RequestPending
<1>7. ASSUME running # <<>>, Head(running).rest # "request",
             NEW f \in Frames, running' = <<f>> \o Tail(running)
      PROVE  RequestPending'
  <2>1. Tail(running) \in Seq(Frames)
    BY <1>2, <1>7, SeqFacts
  <2>2. j \in 1 .. Len(running') /\ running'[j] = Tail(running)[j - 1]
    BY <1>5, <1>7, <2>1
  <2>3. running'[j].rest = "request"
    BY <1>1, <1>5, <1>7, <2>2
  <2> QED BY <2>2, <2>3 DEF RequestPending
<1> QED BY <1>3, <1>4, <1>6, <1>7

LEMMA RequestHasScan ==
  ASSUME TypeOK, RequestPending
  PROVE  Requests # {}
<1>1. PICK j \in 1 .. Len(running) : running[j].rest = "request"
  BY DEF RequestPending
<1>2. running[j] \in Frames
  BY SeqFacts DEF TypeOK
<1> QED BY <1>1, <1>2, FrameFacts

LEMMA ScanUnderWayIs ==
  ASSUME TypeOK
  PROVE  ScanUnderWay <=> /\ lib_state = "SCANNING" /\ Unless({"scanRefused"}) =>
                               RequestPending \/ \E i \in Requests : UnderWay(i)
                          /\ scanInProgress => \E i \in Requests : UnderWay(i)
BY RequestHasScan DEF ScanUnderWay, RequestPending

LEMMA ScanUnderWayIsNext ==
  ASSUME TypeOK'
  PROVE  ScanUnderWay' <=> /\ lib_state' = "SCANNING" /\ Unless({"scanRefused"})' =>
                                RequestPending' \/ \E i \in Requests : UnderWay(i)'
                           /\ scanInProgress' => \E i \in Requests : UnderWay(i)'
<1>1. RequestPending' => Requests # {}
  <2> SUFFICES ASSUME RequestPending' PROVE Requests # {}
    OBVIOUS
  <2>1. PICK j \in 1 .. Len(running') : running'[j].rest = "request"
    BY DEF RequestPending
  <2>2. running'[j] \in Frames
    <3>1. running' \in Seq(Frames)
      BY DEF TypeOK
    <3> QED BY <3>1, SeqFacts
  <2> QED BY <2>1, <2>2, FrameFacts
<1> QED BY <1>1 DEF ScanUnderWay, RequestPending

(* What is under way stays so unless it is a scan that ends.                 *)
LEMMA KeepsUnderWay ==
  ASSUME TypeOK, TypeOK', ScanUnderWay, mishaps \subseteq mishaps',
         \A i \in Requests : UnderWay(i) => UnderWay(i)',
         RequestPending => RequestPending',
         lib_state' = "SCANNING" => lib_state = "SCANNING",
         scanInProgress' => scanInProgress
  PROVE  ScanUnderWay'
BY ScanUnderWayIs, ScanUnderWayIsNext DEF Unless

LEMMA ScanUnderWayStep ==
  ASSUME TypeOK, TypeOK', Fresh, ScanUnderWay, Next
  PROVE  ScanUnderWay'
<1>m. mishaps \subseteq mishaps'
  BY MishapsStay
<1>1. CASE AsideFromScans
  <2>1. RequestPending => RequestPending'
    <3>1. running = <<>> => ~RequestPending
      BY DEF RequestPending
    <3> QED BY <1>1, <3>1, RequestStays DEF AsideFromScans
  <2> QED BY <1>1, <1>m, <2>1, AsideUnderWay, KeepsUnderWay DEF AsideFromScans, scanVars
<1>2. CASE StartScanAnswered
  <2>1. CASE Happens({"scanRefused"}) /\ scanInProgress' = Started(FALSE)
    BY <2>1, ScanUnderWayIsNext DEF Happens, Started, Unless
  <2>2. CASE adapter' = [adapter EXCEPT !.scan = Head(commands).scan, !.kind = Head(commands).kind]
    <3>1. Head(commands).scan \in Requests
      BY <1>2, SeqFacts, CommandFacts DEF StartScanAnswered, Answered, TypeOK
    <3>2. PICK i \in Requests : i = Head(commands).scan
      BY <3>1
    <3>3. adapter'.scan = i
      BY <2>2, <3>2 DEF TypeOK, Adapters
    <3>4. UnderWay(i)'
      BY <3>3 DEF UnderWay
    <3> QED BY <3>4, ScanUnderWayIsNext
  <2> QED BY <1>2, <2>1, <2>2 DEF StartScanAnswered
<1>3. CASE HandleScanResult
  <2>1. \A j \in 1 .. Len(events) : events[j].event = "SCAN_COMPLETE_HANDLER" =>
          \E k \in 1 .. Len(events') : events'[k] = events[j]
    <3>1. events \in Seq(Events) /\ events # <<>> /\ events' = Tail(events)
          /\ Head(events).event = "SCAN_RESULT_HANDLER"
      BY <1>3 DEF HandleScanResult, Handling, TypeOK
    <3>2. ASSUME NEW j \in 1 .. Len(events), events[j].event = "SCAN_COMPLETE_HANDLER"
          PROVE  \E k \in 1 .. Len(events') : events'[k] = events[j]
      <4>1. events[j] # Head(events)
        BY <3>1, <3>2
      <4>2. \E k \in 1 .. Len(Tail(events)) : Tail(events)[k] = events[j]
        <5>1. PICK s \in Seq(Events) : s = events
          BY <3>1
        <5>2. j \in 1 .. Len(s) /\ s[j] # Head(s)
          BY <4>1, <5>1
        <5>3. j - 1 \in 1 .. Len(Tail(s)) /\ Tail(s)[j - 1] = s[j]
          BY <5>2, SeqFacts
        <5> QED BY <5>1, <5>3
      <4> QED BY <3>1, <4>2
    <3> QED BY <3>2
  <2>2. UNCHANGED <<commands, adapter, running, lib_state, scanInProgress>>
    BY <1>3 DEF HandleScanResult
  <2>3. \A i \in Requests : UnderWay(i) => UnderWay(i)'
    BY <2>1, <2>2, UnderWayStays
  <2> QED BY <1>m, <2>2, <2>3, KeepsUnderWay DEF RequestPending
<1>4. CASE HandleScanComplete
  <2>1. scanInProgress' = FALSE /\ lib_state' # "SCANNING"
    BY <1>4 DEF HandleScanComplete, AwaitsScan
  <2> QED BY <2>1, ScanUnderWayIsNext
<1>5. CASE Return /\ ScanReturns
  <2>1. UNCHANGED <<events, adapter, scanInProgress>>
    BY <1>5 DEF Return
  <2>2. running # <<>>
    BY <1>5 DEF ScanReturns, ReturnsFrom
  <2>3. \A j \in 1 .. Len(events) : \E k \in 1 .. Len(events') : events'[k] = events[j]
    BY <2>1
  <2>4. CASE ReturnsFrom("request")
    <3> DEFINE r == Head(running)
    <3>1. r.kind \in Kinds /\ r.scan \in Requests
      BY <2>2, <2>4, SeqFacts, FrameFacts DEF ReturnsFrom, TypeOK
    <3>2. commands' = Append(commands, [cmd |-> "START_SCAN", kind |-> r.kind, scan |-> r.scan])
      BY <1>5, <2>4 DEF Return, ReturnsFrom
    <3>3. Len(commands) + 1 \in 1 .. Len(commands')
          /\ commands'[Len(commands) + 1] = [cmd |-> "START_SCAN", kind |-> r.kind, scan |-> r.scan]
      BY <3>2 DEF TypeOK
    <3>4. PICK i \in Requests : i = r.scan
      BY <3>1
    <3>5. UnderWay(i)'
      <4>1. \E j \in 1 .. Len(commands') : commands'[j].cmd = "START_SCAN" /\ commands'[j].scan = i
        BY <3>3, <3>4
      <4> QED BY <4>1 DEF UnderWay
    <3> QED BY <3>5, ScanUnderWayIsNext
  <2>5. CASE ReturnsFrom("completed") \/ ReturnsFrom("called")
    <3>1. UNCHANGED <<commands, lib_state>>
      BY <1>5, <2>5 DEF Return, ReturnsFrom
    <3>2. \A i \in Requests : UnderWay(i) => UnderWay(i)'
      BY <2>1, <2>3, <3>1, UnderWayStays
    <3>3. \/ running' = Tail(running)
          \/ \E f \in Frames : running' = <<f>> \o Tail(running)
      <4>1. \A callbacks : \A k \in Kinds : CallsBack(k, callbacks, Tail(running)) =>
              \/ running' = Tail(running)
              \/ \E f \in Frames : running' = <<f>> \o Tail(running)
        BY FrameFacts DEF CallsBack
      <4>2. "active" \in Kinds /\ FirstToCall(scanCallback) \in Kinds
        BY DEF Kinds, FirstToCall
      <4> QED BY <1>5, <2>5, <4>1, <4>2 DEF Return, ReturnsFrom
    <3>4. RequestPending => RequestPending'
      BY <2>2, <2>5, <3>3, RequestStays DEF ReturnsFrom
    <3> QED BY <1>m, <2>1, <3>1, <3>2, <3>4, KeepsUnderWay
  <2> QED BY <1>5, <2>4, <2>5 DEF ScanReturns
<1>6. ASSUME NEW k \in Kinds, StartScan(k) PROVE ScanUnderWay'
  <2> DEFINE r == [rest |-> "request", kind |-> k, scan |-> ops + 1]
  <2>1. running' = <<r>> \o running /\ UNCHANGED <<commands, adapter, events, scanInProgress>>
    BY <1>6 DEF StartScan, Request
  <2>2. 1 \in 1 .. Len(running') /\ running'[1] = r
    BY <2>1 DEF TypeOK
  <2>3. RequestPending'
    BY <2>2 DEF RequestPending
  <2>4. \A i \in Requests : UnderWay(i) => UnderWay(i)'
    BY <2>1, UnderWayStays
  <2> QED BY <2>1, <2>3, <2>4, ScanUnderWayIs, ScanUnderWayIsNext
<1>7. CASE AdapterScans
  <2> DEFINE e == ScanEvent("SCAN_RESULT_HANDLER", adapter.kind, adapter.scan)
             f == ScanEvent("SCAN_COMPLETE_HANDLER", adapter.kind, adapter.scan)
  <2>1. events \in Seq(Events) /\ events' = events \o <<e, f>>
    BY <1>7 DEF AdapterScans, TypeOK
  <2>2. /\ Len(events) + 2 \in 1 .. Len(events') /\ events'[Len(events) + 2] = f
        /\ \A j \in 1 .. Len(events) : j \in 1 .. Len(events') /\ events'[j] = events[j]
    <3> HIDE DEF e, f
    <3> QED BY <2>1
  <2>3. UNCHANGED <<commands, running, lib_state, scanInProgress, mishaps>>
    BY <1>7 DEF AdapterScans, scanVars
  <2>4. PICK i \in Requests : i = adapter.scan
    <3>1. adapter.scan \in 0 .. MaxOps /\ adapter.scan # NoRequest
      BY <1>7, AdapterFacts DEF AdapterScans, TypeOK
    <3> QED BY <3>1, LibAssumption DEF NoRequest, Requests
  <2>5. \E j \in 1 .. Len(events') : /\ events'[j].event = "SCAN_COMPLETE_HANDLER"
                                     /\ events'[j].scan = i
    BY <2>2, <2>4 DEF ScanEvent
  <2>6. UnderWay(i)'
    BY <2>5 DEF UnderWay
  <2> QED BY <2>6, ScanUnderWayIsNext
<1> QED BY <1>1, <1>2, <1>3, <1>4, <1>5, <1>6, <1>7, OthersStandAside DEF ScanStep

(* However many requests overlap, and from wherever they are made: the       *)
(* library does not stay in SCANNING for nothing, as long as the adapter     *)
(* refused no scan.  The command is queued, or the adapter scans, or the     *)
(* report that ends the scan is about to be handled.  A scan that is refused *)
(* is not noticed (lib-ezsp-main.cpp:733): the library then does stay in     *)
(* SCANNING, and nothing is claimed.  Refused or not, scanInProgress is only *)
(* set while there is a scan.                                                *)
THEOREM ScanAwaited == Spec => []ScanUnderWay
<1>1. Init => ScanUnderWay
  BY DEF Init, ScanUnderWay
<1>2. TypeOK /\ TypeOK' /\ Fresh /\ ScanUnderWay /\ [Next]_vars => ScanUnderWay'
  <2> SUFFICES ASSUME TypeOK, ScanUnderWay, UNCHANGED vars PROVE ScanUnderWay'
    BY ScanUnderWayStep
  <2> QED BY DEF vars, scanVars, ScanUnderWay, UnderWay, Unless
<1> QED BY <1>1, <1>2, LibTypeCorrect, FreshAtFirst, PTL DEF Spec

-----------------------------------------------------------------------------
(* Steps that have nothing to do with the network.                           *)

NetworkNames ==
  {"VERSION", "GET_XNCP_INFO", "ADD_ENDPOINT", "NETWORK_INIT", "NETWORK_STATE",
   "LEAVE_NETWORK", "SET_INITIAL_SECURITY_STATE", "FORM_NETWORK"}
NetworkCommands == {c \in EzspCommands : c.cmd \in NetworkNames}

IsUp(e) == e.event = "STACK_STATUS_HANDLER" /\ e.status = "NETWORK_UP"
IsUpDown(e) == e.event = "STACK_STATUS_HANDLER" /\ e.status \in {"NETWORK_UP", "NETWORK_DOWN"}
NetworkReports == {e \in Events : e.event = "DONGLE_READY" \/ IsUpDown(e)}

NoStart(frames) == \A i \in 1 .. Len(frames) : frames[i].rest # "start"

AsideFromNetwork ==
  /\ \E d \in {0, 1} : ComesFrom(NetworkCommands, commands, commands', d, {})
  /\ \E d \in {0, 1} : ComesFrom(NetworkReports, events, events', d, {})
  /\ adapter'.network = adapter.network /\ adapter'.up = adapter.up
  /\ adapter'.channel = adapter.channel
  /\ UNCHANGED <<initVars, wanted>>
  /\ \/ UNCHANGED lib_state
     \/ lib_state' \in Initialised \cup {"SWITCHING_TO_BOOTLOADER_MODE", "IN_XMODEM_XFR"}
  /\ lib_state' \in Initialised => lib_state \in Initialised \/ "earlyScan" \in mishaps'
  /\ NoStart(running) => NoStart(running')

Endpoints == PlainAnswered /\ Head(commands).cmd \in {"ADD_ENDPOINT", "NETWORK_INIT"}

(* NETWORK_UP or NETWORK_DOWN is acted upon.                                 *)
StatusActedOn ==
  /\ HandleStackStatus /\ lib_state # "LEAVE_NWK_IN_PROGRESS"
  /\ Head(events).status # "CHANNEL_CHANGED"

NetworkStep ==
  \/ Start \/ HandleDongleReady \/ VersionAnswered \/ XncpInfoAnswered
  \/ Endpoints \/ NetworkStateAnswered \/ SecurityStateAnswered \/ FormNetworkAnswered
  \/ LeaveNetworkAnswered \/ StatusActedOn \/ AdapterLeaves \/ AdapterDrops
  \/ Return /\ ReturnsFrom("start")

LEMMA CommandsAside ==
  ASSUME TypeOK
  PROVE  /\ UNCHANGED commands =>
              \E d \in {0, 1} : ComesFrom(NetworkCommands, commands, commands', d, {})
         /\ \A c \in EzspCommands : c.cmd \notin NetworkNames /\ commands' = Append(commands, c) =>
              \E d \in {0, 1} : ComesFrom(NetworkCommands, commands, commands', d, {})
         /\ commands # <<>> /\ Sends(<<>>) =>
              ComesFrom(NetworkCommands, commands, commands', 1, {})
<1>1. commands \in Seq(EzspCommands)
  BY DEF TypeOK
<1>2. ASSUME NEW c \in EzspCommands, c.cmd \notin NetworkNames
      PROVE  \E d \in {0, 1} : ComesFrom(NetworkCommands, commands, Append(commands, c), d, {})
  BY <1>1, <1>2, SameOfAppend, ComesFromSame DEF NetworkCommands
<1>3. ASSUME commands # <<>>, Sends(<<>>)
      PROVE  ComesFrom(NetworkCommands, commands, commands', 1, {})
  <2>1. commands' = Tail(commands)
    BY <1>1, <1>3, SeqFacts DEF Sends
  <2> QED BY <1>1, <1>3, <2>1, ComesFromTail
<1> QED BY <1>1, <1>2, <1>3, SameOfSelf, ComesFromSame

LEMMA ReportsAside ==
  ASSUME TypeOK
  PROVE  /\ UNCHANGED events =>
              \E d \in {0, 1} : ComesFrom(NetworkReports, events, events', d, {})
         /\ events # <<>> /\ events' = Tail(events) =>
              ComesFrom(NetworkReports, events, events', 1, {})
         /\ \A e \in Events : e \notin NetworkReports /\ events' = Append(events, e) =>
              \E d \in {0, 1} : ComesFrom(NetworkReports, events, events', d, {})
<1>1. events \in Seq(Events)
  BY DEF TypeOK
<1>2. SameOf(NetworkReports, events, events)
  BY <1>1, SameOfSelf
<1>3. ASSUME NEW e \in Events, e \notin NetworkReports
      PROVE  SameOf(NetworkReports, events, Append(events, e))
  BY <1>1, <1>3, SameOfAppend
<1>4. events # <<>> => ComesFrom(NetworkReports, events, Tail(events), 1, {})
  BY <1>1, ComesFromTail
<1>5. ASSUME NEW t, SameOf(NetworkReports, events, t)
      PROVE  \E d \in {0, 1} : ComesFrom(NetworkReports, events, t, d, {})
  BY <1>1, <1>5, ComesFromSame
<1> QED BY <1>2, <1>3, <1>4, <1>5

LEMMA FramesAside ==
  ASSUME TypeOK
  PROVE  /\ UNCHANGED running => (NoStart(running) => NoStart(running'))
         /\ running # <<>> /\ running' = Tail(running) => (NoStart(running) => NoStart(running'))
         /\ \A f \in Frames : f.rest # "start" =>
              /\ running' = <<f>> => (NoStart(running) => NoStart(running'))
              /\ running' = <<f>> \o running => (NoStart(running) => NoStart(running'))
              /\ running # <<>> /\ running' = <<f>> \o Tail(running) =>
                   (NoStart(running) => NoStart(running'))
<1>1. running \in Seq(Frames)
  BY DEF TypeOK
<1>2. ASSUME running # <<>>, NoStart(running)
      PROVE  Tail(running) \in Seq(Frames) /\ NoStart(Tail(running))
  BY <1>1, <1>2, SeqFacts DEF NoStart
<1>3. ASSUME NEW f \in Frames, f.rest # "start", NEW s \in Seq(Frames), NoStart(s)
      PROVE  NoStart(<<f>> \o s)
  BY <1>3 DEF NoStart
<1>4. ASSUME NEW f \in Frames, f.rest # "start"
      PROVE  NoStart(<<f>>)
  BY <1>4 DEF NoStart
<1> QED BY <1>1, <1>2, <1>3, <1>4

LEMMA OthersLeaveNetwork ==
  ASSUME TypeOK, Next
  PROVE  AsideFromNetwork \/ NetworkStep
<1> USE DEF initVars
<1>1. CASE PlainAnswered /\ ~Endpoints
  <2>1. Head(commands).cmd \notin {"ADD_ENDPOINT", "NETWORK_INIT"} /\ commands # <<>>
    BY <1>1 DEF PlainAnswered, Answered, Endpoints
  <2>2. Sends(<<>>)
    BY <1>1, <2>1 DEF PlainAnswered, NextCommand
  <2>3. UNCHANGED events \/ events' = Append(events, Status("CHANNEL_CHANGED"))
    <3>1. events \o <<>> = events /\ \A e \in Events : events \o <<e>> = Append(events, e)
      BY DEF TypeOK
    <3> QED BY <1>1, <2>1, <3>1, EventFacts DEF PlainAnswered, Restores
  <2>4. \E d \in {0, 1} : ComesFrom(NetworkReports, events, events', d, {})
    <3>1. Status("CHANNEL_CHANGED") \in Events /\ Status("CHANNEL_CHANGED") \notin NetworkReports
      BY EventFacts DEF Status, NetworkReports, IsUpDown
    <3> QED BY <2>3, <3>1, ReportsAside
  <2>5. UNCHANGED adapter
    BY <1>1, <2>1 DEF PlainAnswered, Restores
  <2> QED BY <1>1, <2>1, <2>2, <2>4, <2>5, CommandsAside, FramesAside
          DEF PlainAnswered, Answered, AsideFromNetwork
<1>2. CASE SinkWorkAnswered
  BY <1>2, CommandsAside, ReportsAside, FramesAside
     DEF SinkWorkAnswered, Answered, AsideFromNetwork, Initialised, ToldReady
<1>3. CASE LaunchAnswered
  <2>1. adapter'.network = adapter.network /\ adapter'.up = adapter.up
        /\ adapter'.channel = adapter.channel
    BY <1>3 DEF LaunchAnswered, TypeOK, Adapters
  <2> QED BY <1>3, <2>1, CommandsAside, ReportsAside, FramesAside
          DEF LaunchAnswered, Answered, AsideFromNetwork
<1>4. CASE StartScanAnswered
  <2>1. adapter'.network = adapter.network /\ adapter'.up = adapter.up
        /\ adapter'.channel = adapter.channel
    BY <1>4 DEF StartScanAnswered, TypeOK, Adapters
  <2> QED BY <1>4, <2>1, CommandsAside, ReportsAside, FramesAside
          DEF StartScanAnswered, Answered, AsideFromNetwork
<1>5. CASE GetKeyAnswered
  BY <1>5, CommandsAside, ReportsAside, FramesAside, FrameFacts DEF GetKeyAnswered, AsideFromNetwork
<1>6. CASE HandleStackStatus /\ ~StatusActedOn
  <2>1. CASE lib_state = "LEAVE_NWK_IN_PROGRESS"
    BY <1>6, <2>1, CommandsAside, ReportsAside, FramesAside
       DEF HandleStackStatus, Handling, AsideFromNetwork
  <2>2. CASE lib_state # "LEAVE_NWK_IN_PROGRESS"
    <3>1. Head(events).status = "CHANNEL_CHANGED"
      BY <1>6, <2>2 DEF StatusActedOn
    <3>2. Cmd("GET_NETWORK_PARAMETERS") \in EzspCommands
          /\ Cmd("GET_NETWORK_PARAMETERS").cmd \notin NetworkNames
      BY CommandFacts DEF PlainCmds, Cmd, NetworkNames
    <3> QED BY <1>6, <2>2, <3>1, <3>2, CommandsAside, ReportsAside, FramesAside
            DEF HandleStackStatus, Handling, AsideFromNetwork
  <2> QED BY <2>1, <2>2
<1>7. CASE HandleScanResult
  BY <1>7, CommandsAside, ReportsAside, FramesAside DEF HandleScanResult, Handling, AsideFromNetwork
<1>8. CASE HandleScanComplete
  BY <1>8, CommandsAside, ReportsAside, FramesAside, FrameFacts
     DEF HandleScanComplete, Handling, AsideFromNetwork, AwaitsScan, Initialised, ToldReady
<1>9. CASE HandleXmodemReady
  BY <1>9, CommandsAside, ReportsAside, FramesAside
     DEF HandleXmodemReady, AsideFromNetwork, historyVars, Initialised, ToldReady
<1>10. CASE Return /\ ~ReturnsFrom("start")
  <2>1. running # <<>> /\ Head(running) \in Frames
    BY <1>10, SeqFacts DEF Return, ReturnsFrom, TypeOK
  <2>2. UNCHANGED lib_state
    BY <1>10 DEF Return
  <2>3. \E d \in {0, 1} : ComesFrom(NetworkCommands, commands, commands', d, {})
    <3>1. ReturnsFrom("request") =>
            [cmd |-> "START_SCAN", kind |-> Head(running).kind, scan |-> Head(running).scan]
              \in EzspCommands
      BY <2>1, FrameFacts, CommandFacts DEF ReturnsFrom
    <3> QED BY <1>10, <3>1, CommandsAside DEF Return, NetworkNames
  <2>4. NoStart(running) => NoStart(running')
    <3>1. \A callbacks : \A k \in Kinds : CallsBack(k, callbacks, Tail(running)) =>
            \/ running' = Tail(running)
            \/ \E f \in Frames : f.rest # "start" /\ running' = <<f>> \o Tail(running)
      BY FrameFacts DEF CallsBack
    <3>2. "active" \in Kinds /\ FirstToCall(scanCallback) \in Kinds
      BY DEF Kinds, FirstToCall
    <3>3. \/ running' = Tail(running)
          \/ \E f \in Frames : f.rest # "start" /\ running' = <<f>> \o Tail(running)
      BY <1>10, <3>1, <3>2 DEF Return, CalledKey
    <3> QED BY <2>1, <3>3, FramesAside
  <2> QED BY <1>10, <2>2, <2>3, <2>4, ReportsAside DEF Return, AsideFromNetwork
<1>11. ASSUME NEW k \in Kinds, StartScan(k) PROVE AsideFromNetwork
  <2>1. NoStart(running) => NoStart(running')
    <3>1. ops + 1 \in Requests
      BY <1>11, LibAssumption DEF StartScan, Request, TypeOK, Requests
    <3> QED BY <1>11, <3>1, FramesAside, FrameFacts DEF StartScan
  <2>2. lib_state \in Initialised \/ "earlyScan" \in mishaps'
    BY <1>11 DEF StartScan, Note, Happens, Initialised
  <2> QED BY <1>11, <2>1, <2>2, CommandsAside, ReportsAside
          DEF StartScan, Request, AsideFromNetwork, historyVars, Initialised, ToldReady
<1>12. CASE GetNetworkKey \/ SetFirmwareUpgradeMode \/ SinkRequest
            \/ \E c \in {"SET_RADIO_CHANNEL", "JOIN_NETWORK"} : SetChannelOrJoin(c)
  <2>1. \E c \in {"GET_KEY", "LAUNCH_STANDALONE_BOOTLOADER", "SINK_WORK", "SET_RADIO_CHANNEL",
                  "JOIN_NETWORK"} : commands' = Append(commands, Cmd(c))
    BY <1>12 DEF GetNetworkKey, SetFirmwareUpgradeMode, SinkRequest, SetChannelOrJoin
  <2>2. \E d \in {0, 1} : ComesFrom(NetworkCommands, commands, commands', d, {})
    BY <2>1, CommandFacts, CommandsAside DEF Cmd, PlainCmds, NetworkNames
  <2> QED BY <1>12, <2>2, ReportsAside, FramesAside
          DEF GetNetworkKey, SetFirmwareUpgradeMode, SinkRequest, SinkRequested,
              SetChannelOrJoin, Request, AsideFromNetwork, historyVars, Initialised, ToldReady
<1>13. CASE AdapterScans
  <2>1. adapter'.network = adapter.network /\ adapter'.up = adapter.up
        /\ adapter'.channel = adapter.channel
    BY <1>13 DEF AdapterScans, TypeOK, Adapters
  <2>2. \E d \in {0, 1} : ComesFrom(NetworkReports, events, events', d, {})
    <3> DEFINE e == ScanEvent("SCAN_RESULT_HANDLER", adapter.kind, adapter.scan)
               f == ScanEvent("SCAN_COMPLETE_HANDLER", adapter.kind, adapter.scan)
    <3>1. adapter.scan \in Requests /\ adapter.kind \in Kinds
      BY <1>13, AdapterFacts, LibAssumption DEF AdapterScans, TypeOK, NoRequest, Requests
    <3>2. e \in Events /\ f \in Events
      BY <3>1, EventFacts
    <3>3. e \notin NetworkReports /\ f \notin NetworkReports
      BY DEF ScanEvent, NetworkReports, IsUpDown
    <3>4. events' = events \o <<e, f>>
      BY <1>13 DEF AdapterScans
    <3> HIDE DEF e, f
    <3>5. <<e, f>> \in Seq(Events) /\ \A i \in 1 .. Len(<<e, f>>) : <<e, f>>[i] \notin NetworkReports
      BY <3>2, <3>3
    <3>6. events \in Seq(Events)
      BY DEF TypeOK
    <3>7. SameOf(NetworkReports, events, events')
      BY <3>4, <3>5, <3>6, SameOfLonger
    <3> QED BY <3>6, <3>7, ComesFromSame
  <2> QED BY <1>13, <2>1, <2>2, CommandsAside, FramesAside
          DEF AdapterScans, AsideFromNetwork, historyVars
<1>14. CASE ResponseHandled
  BY <1>1, <1>2, <1>3, <1>4, <1>5, <1>14 DEF ResponseHandled, NetworkStep
<1>15. CASE HandleEzspRxMessage
  BY <1>6, <1>7, <1>8, <1>14, <1>15 DEF HandleEzspRxMessage, NetworkStep
<1>16. CASE Goes
  BY <1>9, <1>10, <1>13, <1>15, <1>16 DEF Goes, NetworkStep
<1>17. CASE UserRequests
  BY <1>11, <1>12, <1>17 DEF UserRequests
<1> QED BY <1>16, <1>17 DEF Next, NetworkStep

-----------------------------------------------------------------------------
(* The beginning: until the stack is initialised, the library does one thing *)
(* at a time, and none of these things is done later.                        *)

Early ==
  lib_state \in {"UNINITIALIZED", "WAIT_DONGLE_READY", "GETTING_EZSP_VERSION",
                 "GETTING_XNCP_INFO"}

ReadyOrNothing == {<<>>, <<[event |-> "DONGLE_READY"]>>}

Beginning ==
  Early =>
    /\ resetDot154ChannelAtInit = wanted /\ adapter.network # "formed" /\ ~adapter.up
    /\ adapter.scan = NoRequest /\ ~upgrading /\ "drops" \notin mishaps
    /\ \/ lib_state = "UNINITIALIZED" /\ commands = <<>> /\ running = <<>> /\ events = <<>>
       \/ /\ lib_state = "UNINITIALIZED" /\ commands = <<>> /\ running = <<StartFrame>>
          /\ events \in ReadyOrNothing
       \/ /\ lib_state = "WAIT_DONGLE_READY" /\ commands = <<>> /\ running = <<>>
          /\ events \in ReadyOrNothing
       \/ /\ lib_state = "GETTING_EZSP_VERSION" /\ running = <<>> /\ events = <<>>
          /\ commands = <<>> \/ \E v \in Nat : commands = <<[cmd |-> "VERSION", version |-> v]>>
       \/ /\ lib_state = "GETTING_XNCP_INFO" /\ running = <<>> /\ events = <<>>
          /\ commands = <<Cmd("GET_XNCP_INFO")>>

BeginningOver ==
  ~Early => /\ \A i \in 1 .. Len(commands) : commands[i].cmd \notin {"VERSION", "GET_XNCP_INFO"}
            /\ \A i \in 1 .. Len(events) : events[i].event # "DONGLE_READY"
            /\ NoStart(running)

(* While it lasts, only these steps are possible.                            *)
BeginningStep ==
  Start \/ HandleDongleReady \/ VersionAnswered \/ XncpInfoAnswered \/ Return

LEMMA OnlyBeginningSteps ==
  ASSUME TypeOK, Beginning, Early, Next
  PROVE  BeginningStep
<1>1. /\ adapter.scan = NoRequest /\ ~upgrading /\ "drops" \notin mishaps /\ ~adapter.up
      /\ commands # <<>> => Head(commands).cmd \in {"VERSION", "GET_XNCP_INFO"}
      /\ events # <<>> => Head(events).event = "DONGLE_READY"
  BY DEF Beginning, ReadyOrNothing, Cmd
<1>2. ~UserRequests
  BY DEF Early, UserRequests, StartScan, GetNetworkKey, SetFirmwareUpgradeMode, SinkRequest,
         SinkRequested, SetChannelOrJoin, Request
<1>3. ~(\/ PlainAnswered \/ NetworkStateAnswered \/ SecurityStateAnswered
        \/ FormNetworkAnswered \/ LeaveNetworkAnswered \/ SinkWorkAnswered \/ LaunchAnswered
        \/ StartScanAnswered \/ GetKeyAnswered)
  BY <1>1 DEF PlainAnswered, NetworkStateAnswered, SecurityStateAnswered, FormNetworkAnswered,
              LeaveNetworkAnswered, SinkWorkAnswered, LaunchAnswered, StartScanAnswered,
              GetKeyAnswered, Answered
<1>4. ~(HandleStackStatus \/ HandleScanResult \/ HandleScanComplete \/ HandleXmodemReady)
  BY <1>1 DEF HandleStackStatus, HandleScanResult, HandleScanComplete, HandleXmodemReady, Handling
<1>5. ~(AdapterLeaves \/ AdapterScans \/ AdapterDrops)
  BY <1>1 DEF AdapterLeaves, AdapterScans, AdapterDrops
<1> QED BY <1>2, <1>3, <1>4, <1>5
        DEF BeginningStep, Next, Goes, HandleEzspRxMessage, ResponseHandled

LEMMA BeginningGoesOn ==
  ASSUME TypeOK, Beginning, Early, Next
  PROVE  Beginning' /\ BeginningOver'
<1> USE DEF initVars, scanVars, historyVars
<1>1. CASE Start
  <2>1. lib_state = "UNINITIALIZED" /\ commands = <<>> /\ running' = <<StartFrame>>
    BY <1>1 DEF Start, Beginning, StartFrame
  <2>2. events' \in ReadyOrNothing
    BY <1>1 DEF Start, ReadyOrNothing
  <2> QED BY <1>1, <2>1, <2>2 DEF Start, Beginning, BeginningOver, Early
<1>2. CASE HandleDongleReady
  <2>1. events' = <<>> /\ lib_state \in {"UNINITIALIZED", "WAIT_DONGLE_READY"} /\ commands = <<>>
    BY <1>2 DEF HandleDongleReady, Beginning, ReadyOrNothing
  <2>2. CASE lib_state = "WAIT_DONGLE_READY"
    <3>1. commands' = <<[cmd |-> "VERSION", version |-> exp_ezsp_min_version]>>
      BY <1>2, <2>1, <2>2 DEF HandleDongleReady, DongleInit
    <3> QED BY <1>2, <2>1, <2>2, <3>1
            DEF HandleDongleReady, DongleInit, Beginning, BeginningOver, Early, TypeOK
  <2>3. CASE lib_state = "UNINITIALIZED"
    BY <1>2, <2>1, <2>3
       DEF HandleDongleReady, Happens, Beginning, BeginningOver, Early, ReadyOrNothing
  <2> QED BY <2>1, <2>2, <2>3
<1>3. CASE VersionAnswered
  <2>1. lib_state = "GETTING_EZSP_VERSION" /\ events = <<>> /\ running = <<>>
        /\ Tail(commands) = <<>>
    <3>1. commands # <<>> /\ Head(commands).cmd = "VERSION"
      BY <1>3 DEF VersionAnswered, Answered
    <3>2. /\ lib_state = "GETTING_EZSP_VERSION" /\ events = <<>> /\ running = <<>>
          /\ \E v \in Nat : commands = <<[cmd |-> "VERSION", version |-> v]>>
      BY <3>1 DEF Beginning, Cmd
    <3>3. \A c : Tail(<<c>>) = <<>>
      OBVIOUS
    <3> QED BY <3>2, <3>3
  <2>2. \/ lib_state' = "GETTING_EZSP_VERSION" /\ commands' = <<>>
        \/ /\ lib_state' = "GETTING_EZSP_VERSION"
           /\ \E v \in Nat : commands' = <<[cmd |-> "VERSION", version |-> v]>>
        \/ lib_state' = "GETTING_XNCP_INFO" /\ commands' = <<Cmd("GET_XNCP_INFO")>>
    <3>1. adapter.version \in Nat
      BY AdapterFacts DEF TypeOK
    <3>2. /\ \A c : Append(<<>>, c) = <<c>>
          /\ <<>> \o <<>> = <<>> /\ \A c : <<>> \o <<c>> = <<c>>
      OBVIOUS
    <3> QED BY <1>3, <2>1, <3>1, <3>2 DEF VersionAnswered, DongleInit, Sends
  <2> QED BY <1>3, <2>1, <2>2 DEF VersionAnswered, Answered, Beginning, BeginningOver, Early
<1>4. CASE XncpInfoAnswered
  <2>1. lib_state' = "STACK_INIT" /\ events' = <<>> /\ running' = <<>>
        /\ commands = <<Cmd("GET_XNCP_INFO")>>
    BY <1>4 DEF XncpInfoAnswered, Answered, Beginning, Cmd
  <2>2. commands' = <<Cmd("SET_CONFIGURATION_VALUE"), AddEndpoint(1), AddEndpoint(242)>>
    BY <1>4, <2>1 DEF XncpInfoAnswered, Sends
  <2>3. \A i \in 1 .. Len(commands') : commands'[i].cmd \notin {"VERSION", "GET_XNCP_INFO"}
    BY <2>2 DEF Cmd, AddEndpoint
  <2> QED BY <2>1, <2>3 DEF Beginning, BeginningOver, Early, NoStart
<1>5. CASE Return
  <2>1. lib_state = "UNINITIALIZED" /\ running = <<StartFrame>> /\ commands = <<>>
        /\ events \in ReadyOrNothing
    BY <1>5 DEF Return, ReturnsFrom, Beginning
  <2>2. lib_state' = "WAIT_DONGLE_READY" /\ running' = <<>> /\ UNCHANGED commands
    BY <1>5, <2>1 DEF Return, ReturnsFrom, StartFrame
  <2> QED BY <1>5, <2>1, <2>2 DEF Return, Beginning, BeginningOver, Early
<1> QED BY <1>1, <1>2, <1>3, <1>4, <1>5, OnlyBeginningSteps DEF BeginningStep

-----------------------------------------------------------------------------
(* Where commands and reports about the network stand in their queues, and   *)
(* what a step makes of that: it takes the first one or not, and adds one or *)
(* none ("nothing").                                                         *)

Named(c) == {x \in EzspCommands : x.cmd = c}
Reports(s) == {e \in Events : e.event = "STACK_STATUS_HANDLER" /\ e.status = s}
UpAndDown == {"NETWORK_UP", "NETWORK_DOWN"}

Queued(c) == InQueue(Named(c), commands)
OneQueued(c) == AtMostOne(PlacesOf(Named(c), commands))
QueuedAfter(c, e) == After(Named(c), Named(e), commands)

Reported(s) == InQueue(Reports(s), events)
OneReported(s) == AtMostOne(PlacesOf(Reports(s), events))
ReportedAfter(s, r) == After(Reports(s), Reports(r), events)

CommandsMove(d, c) == ComesFrom(NetworkCommands, commands, commands', d, Named(c))
ReportsMove(d, s) == ComesFrom(NetworkReports, events, events', d, Reports(s))

LEMMA CommandsMoved ==
  ASSUME TypeOK, TypeOK', NEW d \in {0, 1}, NEW n, CommandsMove(d, n)
  PROVE  /\ \A c \in NetworkNames : Queued(c)' => Queued(c) \/ c = n
         /\ \A c \in NetworkNames : OneQueued(c) /\ (Queued(c) => c # n) => OneQueued(c)'
         /\ \A c, e \in NetworkNames :
              QueuedAfter(c, e) /\ c # e /\ (Queued(c) => e # n) => QueuedAfter(c, e)'
<1>1. commands \in Seq(EzspCommands) /\ commands' \in Seq(EzspCommands)
  BY DEF TypeOK
<1>2. \A c \in NetworkNames : Named(c) \subseteq NetworkCommands
  BY DEF Named, NetworkCommands
<1>3. \A c, e : c # e => \A x \in Named(c) : x \notin Named(e)
  BY DEF Named
<1>4. ComesFrom(NetworkCommands, commands, commands', d, Named(n))
  BY DEF CommandsMove
<1>5. ASSUME NEW c \in NetworkNames, Queued(c)' PROVE Queued(c) \/ c = n
  BY <1>2, <1>3, <1>4, <1>5, InFrom DEF Queued
<1>6. ASSUME NEW c \in NetworkNames, OneQueued(c), Queued(c) => c # n PROVE OneQueued(c)'
  BY <1>1, <1>2, <1>3, <1>4, <1>6, OneFrom DEF Queued, OneQueued
<1>7. ASSUME NEW c \in NetworkNames, NEW e \in NetworkNames, QueuedAfter(c, e), c # e,
             Queued(c) => e # n
      PROVE  QueuedAfter(c, e)'
  BY <1>1, <1>2, <1>3, <1>4, <1>7, AfterFrom DEF Queued, QueuedAfter
<1> QED BY <1>5, <1>6, <1>7

LEMMA ReportsMoved ==
  ASSUME TypeOK, TypeOK', NEW d \in {0, 1}, NEW n, ReportsMove(d, n)
  PROVE  /\ \A s \in UpAndDown : Reported(s)' => Reported(s) \/ s = n
         /\ \A s \in UpAndDown : OneReported(s) /\ (Reported(s) => s # n) => OneReported(s)'
         /\ \A s, r \in UpAndDown :
              ReportedAfter(s, r) /\ s # r /\ (Reported(s) => r # n) => ReportedAfter(s, r)'
<1>1. events \in Seq(Events) /\ events' \in Seq(Events)
  BY DEF TypeOK
<1>2. \A s \in UpAndDown : Reports(s) \subseteq NetworkReports
  BY DEF Reports, NetworkReports, IsUpDown, UpAndDown
<1>3. \A s, r : s # r => \A x \in Reports(s) : x \notin Reports(r)
  BY DEF Reports
<1>4. ComesFrom(NetworkReports, events, events', d, Reports(n))
  BY DEF ReportsMove
<1>5. ASSUME NEW s \in UpAndDown, Reported(s)' PROVE Reported(s) \/ s = n
  BY <1>2, <1>3, <1>4, <1>5, InFrom DEF Reported
<1>6. ASSUME NEW s \in UpAndDown, OneReported(s), Reported(s) => s # n PROVE OneReported(s)'
  BY <1>1, <1>2, <1>3, <1>4, <1>6, OneFrom DEF Reported, OneReported
<1>7. ASSUME NEW s \in UpAndDown, NEW r \in UpAndDown, ReportedAfter(s, r), s # r,
             Reported(s) => r # n
      PROVE  ReportedAfter(s, r)'
  BY <1>1, <1>2, <1>3, <1>4, <1>7, AfterFrom DEF Reported, ReportedAfter
<1> QED BY <1>5, <1>6, <1>7

LEMMA CommandAtHead ==
  ASSUME TypeOK, TypeOK', commands # <<>>, NEW c \in NetworkNames, Head(commands).cmd = c
  PROVE  /\ Queued(c)
         /\ \A e : QueuedAfter(c, e) => ~Queued(e)
         /\ \A n : OneQueued(c) /\ n # c /\ CommandsMove(1, n) => ~Queued(c)'
<1>1. commands \in Seq(EzspCommands) /\ commands' \in Seq(EzspCommands)
  BY DEF TypeOK
<1>2. Head(commands) \in Named(c)
  BY <1>1, SeqFacts DEF Named
<1>3. Named(c) \subseteq NetworkCommands /\ \A n : n # c => \A x \in Named(n) : x \notin Named(c)
  BY DEF Named, NetworkCommands
<1>4. ASSUME NEW n, OneQueued(c), n # c, CommandsMove(1, n) PROVE ~Queued(c)'
  BY <1>1, <1>2, <1>3, <1>4, HeadWasOnlyOne DEF Queued, OneQueued, CommandsMove
<1> QED BY <1>1, <1>2, <1>4, AtHead DEF Queued, QueuedAfter

LEMMA ReportAtHead ==
  ASSUME TypeOK, TypeOK', events # <<>>, NEW s \in UpAndDown,
         Head(events).event = "STACK_STATUS_HANDLER", Head(events).status = s
  PROVE  /\ Reported(s)
         /\ \A r : ReportedAfter(s, r) => ~Reported(r)
         /\ \A n : OneReported(s) /\ n # s /\ ReportsMove(1, n) => ~Reported(s)'
<1>1. events \in Seq(Events) /\ events' \in Seq(Events)
  BY DEF TypeOK
<1>2. Head(events) \in Reports(s)
  BY <1>1, SeqFacts DEF Reports
<1>3. /\ Reports(s) \subseteq NetworkReports
      /\ \A n : n # s => \A x \in Reports(n) : x \notin Reports(s)
  BY DEF Reports, NetworkReports, IsUpDown, UpAndDown
<1>4. ASSUME NEW n, OneReported(s), n # s, ReportsMove(1, n) PROVE ~Reported(s)'
  BY <1>1, <1>2, <1>3, <1>4, HeadWasOnlyOne DEF Reported, OneReported, ReportsMove
<1> QED BY <1>1, <1>2, <1>4, AtHead DEF Reported, ReportedAfter

(* The ways in which commands are sent and answered, and reports arrive and  *)
(* are handled.                                                              *)
LEMMA HowCommandsMove ==
  ASSUME TypeOK
  PROVE  /\ \A n : UNCHANGED commands => CommandsMove(0, n)
         /\ \A n : \A c \in Named(n) : commands' = Append(commands, c) => CommandsMove(0, n)
         /\ \A n : commands # <<>> /\ Sends(<<>>) => CommandsMove(1, n)
         /\ \A n : \A c \in Named(n) :
              commands # <<>> /\ Sends(<<c>>) => CommandsMove(1, n)
         /\ \A n : \A b \in EzspCommands, c \in Named(n) :
              commands # <<>> /\ b.cmd \notin NetworkNames /\ Sends(<<b, c>>)
                => CommandsMove(1, n)
<1>1. commands \in Seq(EzspCommands)
  BY DEF TypeOK
<1>2. \A n : UNCHANGED commands => CommandsMove(0, n)
  BY <1>1 DEF CommandsMove, ComesFrom
<1>3. ASSUME NEW n, NEW c \in Named(n), commands' = Append(commands, c)
      PROVE  CommandsMove(0, n)
  <2>1. c \in EzspCommands
    BY DEF Named
  <2> QED BY <1>1, <1>3, <2>1, ComesFromAppend DEF CommandsMove, ComesFrom
<1>4. ASSUME NEW n, commands # <<>>, Sends(<<>>) PROVE CommandsMove(1, n)
  <2>1. commands' = Tail(commands)
    BY <1>1, <1>4, SeqFacts DEF Sends
  <2> QED BY <1>1, <1>4, <2>1, ComesFromTail DEF CommandsMove, ComesFrom
<1>5. ASSUME NEW n, NEW c \in Named(n), commands # <<>>, Sends(<<c>>)
      PROVE  CommandsMove(1, n)
  <2>1. <<c>> \in Seq(EzspCommands) /\ Len(<<c>>) = 1 /\ <<c>>[1] = c
    BY DEF Named
  <2>2. \A i \in 1 .. Len(<<c>>) - 1 : <<c>>[i] \notin NetworkCommands
    BY <2>1
  <2>3. ComesFrom(NetworkCommands, commands, Tail(commands) \o <<c>>, 1, {c})
    <3>1. PICK u \in Seq(EzspCommands) : u = <<c>>
      BY <2>1
    <3>2. Len(u) = 1 /\ u[Len(u)] = c /\ \A i \in 1 .. Len(u) - 1 : u[i] \notin NetworkCommands
      BY <2>1, <2>2, <3>1
    <3>3. Len(u) > 0
      BY <3>2
    <3>4. ComesFrom(NetworkCommands, commands, Tail(commands) \o u, 1, {u[Len(u)]})
      BY <1>1, <1>5, <3>2, <3>3, ComesFromTailAppend
    <3> QED BY <3>1, <3>2, <3>4
  <2> QED BY <1>5, <2>3 DEF CommandsMove, ComesFrom, Sends
<1>6. ASSUME NEW n, NEW b \in EzspCommands, NEW c \in Named(n), commands # <<>>,
             b.cmd \notin NetworkNames, Sends(<<b, c>>)
      PROVE  CommandsMove(1, n)
  <2>1. <<b, c>> \in Seq(EzspCommands) /\ Len(<<b, c>>) = 2 /\ <<b, c>>[1] = b /\ <<b, c>>[2] = c
    BY DEF Named
  <2>2. \A i \in 1 .. Len(<<b, c>>) - 1 : <<b, c>>[i] \notin NetworkCommands
    BY <1>6, <2>1 DEF NetworkCommands
  <2>3. ComesFrom(NetworkCommands, commands, Tail(commands) \o <<b, c>>, 1, {c})
    <3>1. PICK u \in Seq(EzspCommands) : u = <<b, c>>
      BY <2>1
    <3>2. Len(u) = 2 /\ u[Len(u)] = c /\ \A i \in 1 .. Len(u) - 1 : u[i] \notin NetworkCommands
      BY <2>1, <2>2, <3>1
    <3>3. Len(u) > 0
      BY <3>2
    <3>4. ComesFrom(NetworkCommands, commands, Tail(commands) \o u, 1, {u[Len(u)]})
      BY <1>1, <1>6, <3>2, <3>3, ComesFromTailAppend
    <3> QED BY <3>1, <3>2, <3>4
  <2> QED BY <1>6, <2>3 DEF CommandsMove, ComesFrom, Sends
<1> QED BY <1>2, <1>3, <1>4, <1>5, <1>6

LEMMA HowReportsMove ==
  ASSUME TypeOK
  PROVE  /\ \A n : UNCHANGED events => ReportsMove(0, n)
         /\ \A s \in UpAndDown : events' = Append(events, Status(s)) => ReportsMove(0, s)
         /\ \A n : events # <<>> /\ events' = Tail(events) => ReportsMove(1, n)
<1>1. events \in Seq(Events)
  BY DEF TypeOK
<1>2. \A n : UNCHANGED events => ReportsMove(0, n)
  BY <1>1 DEF ReportsMove, ComesFrom
<1>3. ASSUME NEW s \in UpAndDown, events' = Append(events, Status(s)) PROVE ReportsMove(0, s)
  <2>1. Status(s) \in Reports(s)
    BY EventFacts DEF UpAndDown, Reports, Status
  <2>2. Status(s) \in Events
    BY <2>1 DEF Reports
  <2> QED BY <1>1, <1>3, <2>1, <2>2, ComesFromAppend DEF ReportsMove, ComesFrom
<1>4. ASSUME NEW n, events # <<>>, events' = Tail(events) PROVE ReportsMove(1, n)
  BY <1>1, <1>4, ComesFromTail DEF ReportsMove, ComesFrom
<1> QED BY <1>2, <1>3, <1>4

LEMMA NetworkMoves ==
  ASSUME TypeOK
  PROVE  /\ Endpoints /\ Head(commands).cmd = "ADD_ENDPOINT" =>
              CommandsMove(1, "NETWORK_INIT") /\ UNCHANGED <<adapter, events>>
         /\ Endpoints /\ Head(commands).cmd = "NETWORK_INIT" =>
              /\ CommandsMove(1, "NETWORK_STATE")
              /\ \/ ~Restores("NETWORK_INIT") /\ UNCHANGED <<adapter, events>>
                 \/ /\ Restores("NETWORK_INIT") /\ ReportsMove(0, "NETWORK_UP")
                    /\ adapter' = [adapter EXCEPT !.up = TRUE]
         /\ NetworkStateAnswered =>
              /\ \E n \in {"SET_INITIAL_SECURITY_STATE", "LEAVE_NETWORK", "nothing"} :
                   CommandsMove(1, n)
              /\ UNCHANGED events
         /\ SecurityStateAnswered => CommandsMove(1, "FORM_NETWORK") /\ UNCHANGED events
         /\ FormNetworkAnswered => CommandsMove(1, "nothing") /\ ReportsMove(0, "NETWORK_UP")
         /\ LeaveNetworkAnswered => CommandsMove(1, "nothing") /\ UNCHANGED events
         /\ StatusActedOn => CommandsMove(0, "NETWORK_STATE") /\ ReportsMove(1, "nothing")
         /\ AdapterLeaves => UNCHANGED commands /\ ReportsMove(0, "NETWORK_DOWN")
<1>1. /\ Cmd("NETWORK_INIT") \in Named("NETWORK_INIT")
      /\ Cmd("NETWORK_STATE") \in Named("NETWORK_STATE")
      /\ Cmd("LEAVE_NETWORK") \in Named("LEAVE_NETWORK")
      /\ Cmd("SET_INITIAL_SECURITY_STATE") \in Named("SET_INITIAL_SECURITY_STATE")
      /\ Cmd("SET_POLICY") \in EzspCommands /\ Cmd("SET_POLICY").cmd \notin NetworkNames
      /\ [cmd |-> "FORM_NETWORK", channel |-> form_channel] \in Named("FORM_NETWORK")
  BY CommandFacts DEF Named, Cmd, PlainCmds, NetworkNames, TypeOK
<1>2. /\ events \o <<>> = events
      /\ events \o <<Status("NETWORK_UP")>> = Append(events, Status("NETWORK_UP"))
  <2>1. Status("NETWORK_UP") \in Events
    BY EventFacts
  <2> QED BY <2>1 DEF TypeOK
<1>3. "NETWORK_UP" \in UpAndDown /\ "NETWORK_DOWN" \in UpAndDown
  BY DEF UpAndDown
<1>4. ASSUME Endpoints, Head(commands).cmd = "ADD_ENDPOINT"
      PROVE  CommandsMove(1, "NETWORK_INIT") /\ UNCHANGED <<adapter, events>>
  <2>1. commands # <<>> /\ Sends(<<Cmd("NETWORK_INIT")>>) /\ UNCHANGED <<adapter, events>>
    BY <1>2, <1>4 DEF Endpoints, PlainAnswered, Answered, NextCommand, Restores
  <2> QED BY <1>1, <2>1, HowCommandsMove
<1>5. ASSUME Endpoints, Head(commands).cmd = "NETWORK_INIT"
      PROVE  /\ CommandsMove(1, "NETWORK_STATE")
             /\ \/ ~Restores("NETWORK_INIT") /\ UNCHANGED <<adapter, events>>
                \/ /\ Restores("NETWORK_INIT") /\ ReportsMove(0, "NETWORK_UP")
                   /\ adapter' = [adapter EXCEPT !.up = TRUE]
  <2>1. commands # <<>> /\ Sends(<<Cmd("NETWORK_STATE")>>)
    BY <1>5 DEF Endpoints, PlainAnswered, Answered, NextCommand
  <2>2. \/ ~Restores("NETWORK_INIT") /\ UNCHANGED <<adapter, events>>
        \/ /\ Restores("NETWORK_INIT") /\ events' = Append(events, Status("NETWORK_UP"))
           /\ adapter' = [adapter EXCEPT !.up = TRUE]
    BY <1>2, <1>5 DEF Endpoints, PlainAnswered
  <2> QED BY <1>1, <1>3, <2>1, <2>2, HowCommandsMove, HowReportsMove
<1>6. ASSUME NetworkStateAnswered
      PROVE  \E n \in {"SET_INITIAL_SECURITY_STATE", "LEAVE_NETWORK", "nothing"} :
               CommandsMove(1, n)
  BY <1>1, <1>6, HowCommandsMove DEF NetworkStateAnswered, Answered
<1>7. ASSUME SecurityStateAnswered PROVE CommandsMove(1, "FORM_NETWORK")
  BY <1>1, <1>7, HowCommandsMove DEF SecurityStateAnswered, Answered
<1>8. ASSUME FormNetworkAnswered
      PROVE  CommandsMove(1, "nothing") /\ ReportsMove(0, "NETWORK_UP")
  BY <1>3, <1>8, HowCommandsMove, HowReportsMove DEF FormNetworkAnswered, Answered
<1>9. ASSUME LeaveNetworkAnswered PROVE CommandsMove(1, "nothing")
  BY <1>9, HowCommandsMove DEF LeaveNetworkAnswered, Answered
<1>10. ASSUME StatusActedOn
       PROVE  CommandsMove(0, "NETWORK_STATE") /\ ReportsMove(1, "nothing")
  <2>1. ReportsMove(1, "nothing")
    BY <1>10, HowReportsMove DEF StatusActedOn, HandleStackStatus, Handling
  <2>2. CASE commands' = Append(commands, Cmd("NETWORK_STATE"))
    BY <1>1, <2>1, <2>2, HowCommandsMove
  <2>3. CASE commands' = commands \o <<Cmd("GP_SINK_TABLE_INIT"), Cmd("GET_NETWORK_PARAMETERS")>>
    <3>1. Cmd("GP_SINK_TABLE_INIT") \in EzspCommands /\ Cmd("GET_NETWORK_PARAMETERS") \in EzspCommands
      BY CommandFacts DEF PlainCmds
    <3>2. PICK u \in Seq(EzspCommands) :
            u = <<Cmd("GP_SINK_TABLE_INIT"), Cmd("GET_NETWORK_PARAMETERS")>>
      <4>1. <<Cmd("GP_SINK_TABLE_INIT"), Cmd("GET_NETWORK_PARAMETERS")>> \in Seq(EzspCommands)
        BY <3>1
      <4> QED BY <4>1, Zenon
    <3>3. \A i \in 1 .. Len(u) : u[i] \notin NetworkCommands
      BY <3>2 DEF Cmd, NetworkCommands, NetworkNames
    <3>4. ComesFrom(NetworkCommands, commands, commands \o u, 0, {})
      BY <3>3, ComesFromLonger DEF TypeOK
    <3> QED BY <2>1, <2>3, <3>2, <3>4 DEF CommandsMove, ComesFrom
  <2> QED BY <1>10, <2>2, <2>3 DEF StatusActedOn, HandleStackStatus
<1>11. ASSUME AdapterLeaves PROVE ReportsMove(0, "NETWORK_DOWN")
  BY <1>3, <1>11, HowReportsMove DEF AdapterLeaves
<1> QED BY <1>4, <1>5, <1>6, <1>7, <1>8, <1>9, <1>10, <1>11
        DEF NetworkStateAnswered, SecurityStateAnswered, LeaveNetworkAnswered, AdapterLeaves

-----------------------------------------------------------------------------
(* After the beginning.                                                      *)

CommandsMoveOn ==
  \E n : n \notin {"VERSION", "GET_XNCP_INFO"} /\ \E d \in {0, 1} : CommandsMove(d, n)
ReportsMoveOn == \E s : \E d \in {0, 1} : ReportsMove(d, s)

LEMMA NetworkStepMoves ==
  ASSUME TypeOK, BeginningOver, ~Early, NetworkStep, ~AdapterDrops
  PROVE  /\ CommandsMoveOn
         /\ ReportsMoveOn
         /\ UNCHANGED running
         /\ ~Early'
         /\ \/ Endpoints \/ NetworkStateAnswered \/ SecurityStateAnswered \/ FormNetworkAnswered
            \/ LeaveNetworkAnswered \/ StatusActedOn \/ AdapterLeaves
<1>1. ~Start /\ ~(Return /\ ReturnsFrom("start"))
  <2>1. running # <<>> => Head(running) = running[1] /\ 1 \in 1 .. Len(running)
    BY SeqFacts DEF TypeOK
  <2> QED BY <2>1 DEF Start, Early, ReturnsFrom, BeginningOver, NoStart
<1>2. ~HandleDongleReady
  <2>1. events # <<>> => Head(events) = events[1] /\ 1 \in 1 .. Len(events)
    BY SeqFacts DEF TypeOK
  <2> QED BY <2>1 DEF HandleDongleReady, BeginningOver
<1>3. ~VersionAnswered /\ ~XncpInfoAnswered
  <2>1. commands # <<>> => Head(commands) = commands[1] /\ 1 \in 1 .. Len(commands)
    BY SeqFacts DEF TypeOK
  <2> QED BY <2>1 DEF VersionAnswered, XncpInfoAnswered, Answered, BeginningOver
<1>4. \/ Endpoints \/ NetworkStateAnswered \/ SecurityStateAnswered \/ FormNetworkAnswered
      \/ LeaveNetworkAnswered \/ StatusActedOn \/ AdapterLeaves
  BY <1>1, <1>2, <1>3 DEF NetworkStep
<1>5. CommandsMoveOn
  <2>1. CASE Endpoints
    <3>1. CommandsMove(1, "NETWORK_INIT") \/ CommandsMove(1, "NETWORK_STATE")
      BY <2>1, NetworkMoves DEF Endpoints
    <3> QED BY <3>1 DEF CommandsMoveOn
  <2>2. CASE NetworkStateAnswered
    BY <2>2, NetworkMoves DEF CommandsMoveOn
  <2>3. CASE SecurityStateAnswered
    BY <2>3, NetworkMoves DEF CommandsMoveOn
  <2>4. CASE FormNetworkAnswered \/ LeaveNetworkAnswered
    <3>1. CommandsMove(1, "nothing")
      BY <2>4, NetworkMoves
    <3> QED BY <3>1 DEF CommandsMoveOn
  <2>5. CASE StatusActedOn
    BY <2>5, NetworkMoves DEF CommandsMoveOn
  <2>6. CASE AdapterLeaves
    <3>1. CommandsMove(0, "nothing")
      BY <2>6, NetworkMoves, HowCommandsMove
    <3> QED BY <3>1 DEF CommandsMoveOn
  <2> QED BY <1>4, <2>1, <2>2, <2>3, <2>4, <2>5, <2>6
<1>6. ReportsMoveOn
  <2>1. UNCHANGED events => ReportsMove(0, "nothing")
    BY HowReportsMove
  <2>2. ReportsMove(0, "nothing") \/ ReportsMove(0, "NETWORK_UP") \/ ReportsMove(0, "NETWORK_DOWN")
        \/ ReportsMove(1, "nothing")
    BY <1>4, <2>1, NetworkMoves DEF Endpoints
  <2> QED BY <2>2 DEF ReportsMoveOn
<1>7. UNCHANGED running
  BY <1>4 DEF Endpoints, PlainAnswered, NetworkStateAnswered, SecurityStateAnswered,
              FormNetworkAnswered, LeaveNetworkAnswered, StatusActedOn, HandleStackStatus,
              AdapterLeaves
<1>8. ~Early'
  BY <1>4 DEF Early, Endpoints, PlainAnswered, NetworkStateAnswered, SecurityStateAnswered,
              FormNetworkAnswered, LeaveNetworkAnswered, StatusActedOn, HandleStackStatus,
              AdapterLeaves
<1> QED BY <1>4, <1>5, <1>6, <1>7, <1>8

LEMMA BeginningStaysOver ==
  ASSUME TypeOK, TypeOK', BeginningOver, ~Early, Next
  PROVE  BeginningOver' /\ ~Early'
<1>1. /\ CommandsMoveOn
      /\ ReportsMoveOn
      /\ NoStart(running) => NoStart(running')
      /\ ~Early'
  <2>1. CASE AdapterDrops
    <3>1. CommandsMove(0, "nothing") /\ \E s : ReportsMove(0, s)
      BY <2>1, HowCommandsMove, HowReportsMove DEF AdapterDrops, UpAndDown
    <3> QED BY <2>1, <3>1 DEF AdapterDrops, Early, CommandsMoveOn, ReportsMoveOn
  <2>2. CASE NetworkStep /\ ~AdapterDrops
    BY <2>2, NetworkStepMoves
  <2>3. CASE AsideFromNetwork
    <3>1. /\ \E d \in {0, 1} : CommandsMove(d, "nothing")
          /\ \E d \in {0, 1} : ReportsMove(d, "nothing")
      BY <2>3 DEF AsideFromNetwork, CommandsMove, ReportsMove, ComesFrom
    <3>2. ~Early'
      BY <2>3 DEF AsideFromNetwork, Early, Initialised, ToldReady
    <3> QED BY <2>3, <3>1, <3>2 DEF AsideFromNetwork, CommandsMoveOn, ReportsMoveOn
  <2> QED BY <2>1, <2>2, <2>3, OthersLeaveNetwork
<1>2. commands' \in Seq(EzspCommands) /\ events' \in Seq(Events)
  BY DEF TypeOK
<1>3. ASSUME NEW i \in 1 .. Len(commands') PROVE commands'[i].cmd \notin {"VERSION", "GET_XNCP_INFO"}
  <2> SUFFICES ASSUME commands'[i].cmd \in {"VERSION", "GET_XNCP_INFO"} PROVE FALSE
    OBVIOUS
  <2>1. commands'[i] \in NetworkCommands
    BY <1>2, SeqFacts DEF NetworkCommands, NetworkNames
  <2>2. PICK n, d : n \notin {"VERSION", "GET_XNCP_INFO"} /\ CommandsMove(d, n)
    BY <1>1 DEF CommandsMoveOn
  <2> QED BY <2>1, <2>2 DEF CommandsMove, ComesFrom, Named, BeginningOver
<1>4. ASSUME NEW i \in 1 .. Len(events') PROVE events'[i].event # "DONGLE_READY"
  <2> SUFFICES ASSUME events'[i].event = "DONGLE_READY" PROVE FALSE
    OBVIOUS
  <2>1. events'[i] \in NetworkReports
    BY <1>2, SeqFacts DEF NetworkReports
  <2>2. PICK s, d : ReportsMove(d, s)
    BY <1>1 DEF ReportsMoveOn
  <2> QED BY <2>1, <2>2 DEF ReportsMove, ComesFrom, Reports, BeginningOver
<1> QED BY <1>1, <1>3, <1>4 DEF BeginningOver

LEMMA BeginningStays ==
  ASSUME TypeOK, TypeOK', Beginning, BeginningOver, [Next]_vars
  PROVE  (Beginning /\ BeginningOver)'
<1>1. CASE UNCHANGED vars
  BY <1>1 DEF vars, initVars, historyVars, Beginning, BeginningOver, Early
<1>2. CASE Next /\ Early
  BY <1>2, BeginningGoesOn
<1>3. CASE Next /\ ~Early
  <2>1. BeginningOver' /\ ~Early'
    BY <1>3, BeginningStaysOver
  <2> QED BY <2>1 DEF Beginning
<1> QED BY <1>1, <1>2, <1>3

(* The library brings the adapter up one step at a time, and never goes back *)
(* to these steps, whatever is requested of it and whatever happens.         *)
THEOREM BeginsOnce == Spec => [](Beginning /\ BeginningOver)
<1>1. Init => Beginning /\ BeginningOver
  BY DEF Init, Beginning, BeginningOver, Early
<1> QED BY <1>1, BeginningStays, LibTypeCorrect, PTL DEF Spec

-----------------------------------------------------------------------------
(* What is inductive about the network.  What the handlers decide on (which  *)
(* reset is requested, which network the adapter is on) is only right        *)
(* because of the order in which commands and reports are still waiting: a   *)
(* NETWORK_UP that was not handled, or a NETWORK_STATE that was not          *)
(* answered, would make the library leave a network that it formed, or       *)
(* believe in one that it left.                                              *)

Keep == resetDot154ChannelAtInit = KeepNetwork
Forms == Queued("SET_INITIAL_SECURITY_STATE") \/ Queued("FORM_NETWORK")
FormsElsewhere == {x \in Named("FORM_NETWORK") : x.channel # wanted}

(* A network is formed, and kept, only if a channel was asked for.           *)
Asked ==
  /\ resetDot154ChannelAtInit = wanted \/ (Keep /\ wanted \in Channels)
  /\ adapter.network = "formed" \/ Forms => Keep /\ wanted \in Channels
  /\ Keep => ~Queued("LEAVE_NETWORK")

(* From then on it is that channel, and the old network is forgotten.        *)
OnAsked ==
  Keep /\ wanted \in Channels =>
    /\ form_channel = wanted /\ ~InQueue(FormsElsewhere, commands)
    /\ adapter.network # "old"
    /\ adapter.network = "formed" => adapter.channel = wanted
    /\ ~Queued("ADD_ENDPOINT") /\ ~Queued("NETWORK_INIT")

(* The endpoints come first, then NETWORK_INIT, then NETWORK_STATE.          *)
EndpointsFirst ==
  /\ Queued("ADD_ENDPOINT") =>
       /\ ~Queued("NETWORK_STATE") /\ ~adapter.up
       /\ ~Reported("NETWORK_UP") /\ QueuedAfter("NETWORK_INIT", "ADD_ENDPOINT")
  /\ Queued("ADD_ENDPOINT") \/ Queued("NETWORK_INIT") =>
       /\ ~Queued("LEAVE_NETWORK") /\ ~Reported("NETWORK_DOWN")
       /\ QueuedAfter("NETWORK_STATE", "NETWORK_INIT")

(* It is left once; what NETWORK_STATE will say agrees with the reports.     *)
LeavesOnce ==
  /\ OneQueued("LEAVE_NETWORK")
  /\ Queued("LEAVE_NETWORK") => lib_state # "STACK_INIT"
  /\ ~Keep => ReportedAfter("NETWORK_DOWN", "NETWORK_UP")
  /\ ~Keep /\ Reported("NETWORK_UP") =>
       /\ QueuedAfter("LEAVE_NETWORK", "NETWORK_STATE")
       /\ adapter.network = "none" =>
            ~Queued("NETWORK_STATE") /\ ~Queued("ADD_ENDPOINT") /\ ~Queued("NETWORK_INIT")

(* A network that never was up did not report anything; one that is kept and *)
(* reported up still is.                                                     *)
UpOnce ==
  /\ OneReported("NETWORK_UP")
  /\ ~adapter.up /\ adapter.network # "none" =>
       ~Reported("NETWORK_UP") /\ ~Reported("NETWORK_DOWN")
  /\ adapter.up => adapter.network # "none"
  /\ Keep /\ Reported("NETWORK_UP") => adapter.up

FormsOnce ==
  /\ OneQueued("SET_INITIAL_SECURITY_STATE") /\ OneQueued("FORM_NETWORK")
  /\ ~(Queued("SET_INITIAL_SECURITY_STATE") /\ Queued("FORM_NETWORK"))
  /\ Forms => adapter.network = "none"

Left == lib_state = "TERMINATING" => wanted = OnlyLeave /\ adapter.network = "none"

Settled ==
  lib_state \in Initialised /\ Unless({"earlyScan"}) =>
    Keep /\ adapter.up /\ ~Reported("NETWORK_UP")

Network ==
  Asked /\ OnAsked /\ EndpointsFirst /\ LeavesOnce /\ UpOnce /\ FormsOnce /\ Left /\ Settled

NetworkUnlessDrops == Unless({"drops"}) => Network

LEMMA Names ==
  /\ {"ADD_ENDPOINT", "NETWORK_INIT", "NETWORK_STATE", "LEAVE_NETWORK",
      "SET_INITIAL_SECURITY_STATE", "FORM_NETWORK"} \subseteq NetworkNames
  /\ {"NETWORK_UP", "NETWORK_DOWN"} \subseteq UpAndDown
  /\ "nothing" \notin NetworkNames /\ "nothing" \notin UpAndDown
BY DEF NetworkNames, UpAndDown

LEMMA FormsElsewhereMoved ==
  ASSUME TypeOK, NEW d \in {0, 1}, NEW n, n # "FORM_NETWORK", CommandsMove(d, n),
         UNCHANGED wanted, ~InQueue(FormsElsewhere, commands)
  PROVE  ~InQueue(FormsElsewhere, commands)'
<1>1. FormsElsewhere \subseteq NetworkCommands /\ FormsElsewhere' = FormsElsewhere
      /\ \A x \in Named(n) : x \notin FormsElsewhere
  BY DEF FormsElsewhere, Named, NetworkCommands, NetworkNames
<1> QED BY <1>1, InFrom DEF CommandsMove

(* Nothing that the invariant speaks of is changed, but for commands and     *)
(* reports that are taken away.                                              *)
LEMMA NetworkKept ==
  ASSUME TypeOK, TypeOK', Network, mishaps \subseteq mishaps',
         NEW d \in {0, 1}, CommandsMove(d, "nothing"),
         NEW e \in {0, 1}, ReportsMove(e, "nothing"),
         adapter'.network = adapter.network, adapter'.up = adapter.up,
         adapter'.channel = adapter.channel,
         UNCHANGED <<resetDot154ChannelAtInit, form_channel, wanted>>,
         Queued("LEAVE_NETWORK")' => lib_state' # "STACK_INIT",
         Left',
         lib_state' \in Initialised => lib_state \in Initialised \/ "earlyScan" \in mishaps'
  PROVE  Network'
<1> USE Names, CommandsMoved, ReportsMoved
<1>1. Asked'
  BY DEF Network, Asked, Keep, Forms
<1>2. OnAsked'
  BY FormsElsewhereMoved DEF Network, OnAsked, Keep
<1>3. EndpointsFirst'
  BY DEF Network, EndpointsFirst
<1>4. LeavesOnce'
  BY DEF Network, LeavesOnce, Keep
<1>5. UpOnce'
  BY DEF Network, UpOnce, Keep
<1>6. FormsOnce'
  BY DEF Network, FormsOnce, Forms
<1>7. Settled'
  BY DEF Network, Settled, Keep, Unless
<1> QED BY <1>1, <1>2, <1>3, <1>4, <1>5, <1>6, <1>7 DEF Network

LEMMA EndpointsKeepNetwork ==
  ASSUME TypeOK, TypeOK', Network, mishaps \subseteq mishaps', Endpoints
  PROVE  Network'
<1> USE Names, CommandsMoved, ReportsMoved
<1>1. UNCHANGED <<lib_state, resetDot154ChannelAtInit, form_channel, wanted>> /\ commands # <<>>
  BY DEF Endpoints, PlainAnswered, Answered, initVars
<1>2. CASE Head(commands).cmd = "ADD_ENDPOINT"
  <2>1. /\ CommandsMove(1, "NETWORK_INIT") /\ ReportsMove(0, "nothing")
        /\ UNCHANGED <<adapter, events>> /\ Queued("ADD_ENDPOINT")
    BY <1>1, <1>2, NetworkMoves, HowReportsMove, CommandAtHead
  <2>2. Asked' /\ LeavesOnce' /\ UpOnce' /\ FormsOnce'
    BY <1>1, <2>1 DEF Network, Asked, LeavesOnce, EndpointsFirst, UpOnce, FormsOnce, Keep, Forms
  <2>3. OnAsked'
    BY <1>1, <2>1 DEF Network, OnAsked, Keep
  <2>4. EndpointsFirst'
    BY <1>1, <2>1 DEF Network, EndpointsFirst
  <2>5. Left' /\ Settled'
    BY <1>1, <2>1 DEF Network, Left, Settled, Keep, Unless
  <2> QED BY <2>2, <2>3, <2>4, <2>5 DEF Network
<1>3. CASE Head(commands).cmd = "NETWORK_INIT"
  <2>1. /\ CommandsMove(1, "NETWORK_STATE")
        /\ \/ UNCHANGED <<adapter, events>>
           \/ /\ adapter.network # "none" /\ ~adapter.up /\ ReportsMove(0, "NETWORK_UP")
              /\ adapter' = [adapter EXCEPT !.up = TRUE]
    BY <1>3, NetworkMoves DEF Restores
  <2>2. /\ Queued("NETWORK_INIT")
        /\ QueuedAfter("NETWORK_INIT", "ADD_ENDPOINT") => ~Queued("ADD_ENDPOINT")
    BY <1>1, <1>3, CommandAtHead
  <2>3. ~Queued("ADD_ENDPOINT")
    BY <2>2 DEF Network, EndpointsFirst
  <2>4. \E e \in {0, 1} : ReportsMove(e, "NETWORK_UP")
    BY <2>1, HowReportsMove
  <2>5. /\ adapter'.network = adapter.network /\ adapter'.channel = adapter.channel
        /\ adapter.up => adapter'.up
        /\ adapter.up \/ adapter.network = "none" => UNCHANGED <<adapter, events>>
        /\ adapter'.up => adapter.up \/ adapter.network # "none"
        /\ adapter'.up \/ UNCHANGED <<adapter, events>>
    BY <2>1 DEF TypeOK, Adapters
  <2>6. /\ \A r \in UpAndDown : UNCHANGED events => (Reported(r)' <=> Reported(r))
        /\ Reported("NETWORK_DOWN")' => Reported("NETWORK_DOWN")
    BY <2>4 DEF Reported
  <2>7. Asked'
    BY <1>1, <2>1, <2>5 DEF Network, Asked, Keep, Forms
  <2>8. OnAsked'
    BY <1>1, <2>2 DEF Network, OnAsked, Asked, Keep
  <2>9. EndpointsFirst'
    BY <2>1, <2>2, <2>3, <2>6 DEF Network, EndpointsFirst
  <2>10. LeavesOnce'
    <3>1. ~Queued("LEAVE_NETWORK") /\ ~Reported("NETWORK_DOWN")
      BY <2>2 DEF Network, EndpointsFirst
    <3>2. OneQueued("LEAVE_NETWORK")' /\ ~Queued("LEAVE_NETWORK")'
          /\ QueuedAfter("LEAVE_NETWORK", "NETWORK_STATE")'
      BY <2>1, <3>1 DEF Network, LeavesOnce, Queued, QueuedAfter, InQueue, After
    <3>3. ~Reported("NETWORK_DOWN")' /\ ReportedAfter("NETWORK_DOWN", "NETWORK_UP")'
      BY <2>6, <3>1 DEF Reported, ReportedAfter, InQueue, After
    <3>4. Keep' \/ ~Reported("NETWORK_UP")' \/ adapter'.network # "none"
      BY <1>1, <2>2, <2>5, <2>6 DEF Network, LeavesOnce, Keep
    <3> QED BY <3>2, <3>3, <3>4 DEF LeavesOnce
  <2>11. UpOnce'
    <3>1. OneReported("NETWORK_UP")'
      BY <2>1 DEF Network, UpOnce, OneReported
    <3> QED BY <1>1, <2>5, <2>6, <3>1 DEF Network, UpOnce, Keep
  <2>12. FormsOnce' /\ Left' /\ Settled'
    <3>1. FormsOnce' /\ Left'
      BY <1>1, <2>1, <2>5 DEF Network, FormsOnce, Forms, Left
    <3>2. Settled'
      BY <1>1, <2>5, <2>6 DEF Network, Settled, Keep, Unless
    <3> QED BY <3>1, <3>2
  <2> QED BY <2>7, <2>8, <2>9, <2>10, <2>11, <2>12 DEF Network
<1> QED BY <1>2, <1>3 DEF Endpoints

(* When NETWORK_STATE is answered, no endpoint is being added and no         *)
(* NETWORK_INIT is waiting, and a NETWORK_UP is not still to be handled      *)
(* although the network is gone.                                             *)
LEMMA NetworkStateKeepsNetwork ==
  ASSUME TypeOK, TypeOK', Network, mishaps \subseteq mishaps', NetworkStateAnswered
  PROVE  Network'
<1> USE Names, CommandsMoved, ReportsMoved
<1>1. /\ commands # <<>> /\ Head(commands).cmd = "NETWORK_STATE"
      /\ UNCHANGED <<wanted, adapter, events>>
  BY DEF NetworkStateAnswered, Answered
<1>2. /\ Queued("NETWORK_STATE") /\ ~Queued("ADD_ENDPOINT") /\ ~Queued("NETWORK_INIT")
  BY <1>1, CommandAtHead DEF Network, EndpointsFirst
<1>3. ReportsMove(0, "nothing")
      /\ \A n \in {"SET_INITIAL_SECURITY_STATE", "LEAVE_NETWORK", "nothing"} :
           CommandsMove(1, n) => ~Queued("ADD_ENDPOINT")' /\ ~Queued("NETWORK_INIT")'
                                 /\ (Queued("FORM_NETWORK")' => Queued("FORM_NETWORK"))
  BY <1>1, <1>2, HowReportsMove
<1>4. ASSUME lib_state' \in {"TERMINATING", "INIT_FAILED"} \/ UNCHANGED lib_state,
             lib_state' = "TERMINATING" => wanted = OnlyLeave /\ adapter.network = "none",
             Sends(<<>>), UNCHANGED <<resetDot154ChannelAtInit, form_channel>>
      PROVE  Network'
  <2>1. CommandsMove(1, "nothing")
    BY <1>1, <1>4, HowCommandsMove
  <2>2. Left'
    BY <1>1, <1>4 DEF Network, Left
  <2>3. Queued("LEAVE_NETWORK")' => lib_state' # "STACK_INIT"
    BY <1>4, <2>1 DEF Network, LeavesOnce
  <2>4. lib_state' \in Initialised => lib_state \in Initialised
    BY <1>4 DEF Initialised, ToldReady
  <2> QED BY <1>1, <1>3, <1>4, <2>1, <2>2, <2>3, <2>4, NetworkKept
<1>5. CASE /\ adapter.network = "none" /\ StopsWithoutNetwork /\ Sends(<<>>)
           /\ lib_state' = IF resetDot154ChannelAtInit = OnlyLeave
                           THEN "TERMINATING" ELSE "INIT_FAILED"
           /\ UNCHANGED <<resetDot154ChannelAtInit, form_channel>>
  <2>1. resetDot154ChannelAtInit = OnlyLeave => wanted = OnlyLeave
    BY DEF Network, Asked, Keep, KeepNetwork, OnlyLeave
  <2> QED BY <1>4, <1>5, <2>1
<1>6. CASE /\ adapter.network = "none" /\ lib_state = "STACK_INIT" /\ ~StopsWithoutNetwork
           /\ Sends(<<Cmd("SET_POLICY"), Cmd("SET_INITIAL_SECURITY_STATE")>>)
           /\ form_channel' = resetDot154ChannelAtInit
           /\ lib_state' = "FORM_NWK_IN_PROGRESS"
           /\ resetDot154ChannelAtInit' = KeepNetwork
  <2>1. /\ CommandsMove(1, "SET_INITIAL_SECURITY_STATE")
    <3>1. Cmd("SET_POLICY") \in EzspCommands /\ Cmd("SET_POLICY").cmd \notin NetworkNames
          /\ Cmd("SET_INITIAL_SECURITY_STATE") \in Named("SET_INITIAL_SECURITY_STATE")
      BY CommandFacts DEF Cmd, PlainCmds, NetworkNames, Named
    <3> QED BY <1>1, <1>6, <3>1, HowCommandsMove
  <2>2. ~Keep /\ wanted = resetDot154ChannelAtInit /\ wanted \in Channels /\ Keep'
    BY <1>6 DEF Network, Asked, Keep, StopsWithoutNetwork, TypeOK
  <2>3. ~Forms /\ ~Queued("LEAVE_NETWORK") /\ ~Reported("NETWORK_UP")
    BY <1>2, <1>6, <2>2 DEF Network, Asked, LeavesOnce
  <2>4. ~Queued("LEAVE_NETWORK")' /\ ~Queued("FORM_NETWORK")' /\ ~Reported("NETWORK_UP")'
    BY <1>3, <2>1, <2>3 DEF Forms
  <2>5. Asked' /\ Left' /\ Settled'
    BY <1>1, <1>6, <2>2, <2>4 DEF Asked, Left, Settled, Keep, Initialised, ToldReady
  <2>6. OnAsked'
    <3>1. ~InQueue(FormsElsewhere, commands)'
      BY <2>4 DEF Queued, FormsElsewhere, InQueue
    <3> QED BY <1>1, <1>3, <1>6, <2>1, <2>2, <3>1 DEF OnAsked
  <2>7. EndpointsFirst'
    BY <1>3, <2>1 DEF EndpointsFirst
  <2>8. LeavesOnce'
    BY <1>6, <2>1, <2>2, <2>3, <2>4 DEF Network, LeavesOnce
  <2>9. UpOnce'
    BY <1>1, <1>3, <2>4 DEF Network, UpOnce
  <2>10. FormsOnce'
    BY <1>1, <1>6, <2>1, <2>3, <2>4 DEF Network, FormsOnce, Forms
  <2> QED BY <2>5, <2>6, <2>7, <2>8, <2>9, <2>10 DEF Network
<1>7. CASE /\ adapter.network # "none" /\ lib_state = "STACK_INIT" /\ LeavesUnwanted
           /\ Sends(<<Cmd("LEAVE_NETWORK")>>)
           /\ lib_state' = "LEAVE_NWK_IN_PROGRESS"
           /\ UNCHANGED <<resetDot154ChannelAtInit, form_channel>>
  <2>1. CommandsMove(1, "LEAVE_NETWORK")
    <3>1. Cmd("LEAVE_NETWORK") \in Named("LEAVE_NETWORK")
      BY CommandFacts DEF Cmd, PlainCmds, Named
    <3> QED BY <1>1, <1>7, <3>1, HowCommandsMove
  <2>2. ~Keep /\ ~Keep' /\ ~Queued("LEAVE_NETWORK")
    BY <1>7 DEF Network, LeavesOnce, Keep, LeavesUnwanted
  <2>3. Asked' /\ OnAsked' /\ FormsOnce'
    BY <1>1, <1>7, <2>1, <2>2 DEF Network, Asked, OnAsked, FormsOnce, Forms, Keep
  <2>4. EndpointsFirst'
    BY <1>3, <2>1 DEF EndpointsFirst
  <2>5. LeavesOnce'
    BY <1>1, <1>3, <1>7, <2>1, <2>2 DEF Network, LeavesOnce, Keep
  <2>6. UpOnce' /\ Left' /\ Settled'
    BY <1>1, <1>3, <1>7, <2>2 DEF Network, UpOnce, Left, Settled, Keep, Initialised, ToldReady
  <2> QED BY <2>3, <2>4, <2>5, <2>6 DEF Network
<1> QED BY <1>4, <1>5, <1>6, <1>7 DEF NetworkStateAnswered, Network, Left

LEMMA FormingKeepsNetwork ==
  ASSUME TypeOK, TypeOK', Network, mishaps \subseteq mishaps',
         SecurityStateAnswered \/ FormNetworkAnswered
  PROVE  Network'
<1> USE Names, CommandsMoved, ReportsMoved
<1>1. CASE SecurityStateAnswered
  <2>1. /\ commands # <<>> /\ Head(commands).cmd = "SET_INITIAL_SECURITY_STATE"
        /\ UNCHANGED <<wanted, adapter, events, lib_state, resetDot154ChannelAtInit, form_channel>>
        /\ CommandsMove(1, "FORM_NETWORK")
    BY <1>1, NetworkMoves DEF SecurityStateAnswered, Answered, initVars
  <2>2. ReportsMove(0, "nothing")
    BY <2>1, HowReportsMove
  <2>3. Queued("SET_INITIAL_SECURITY_STATE") /\ ~Queued("SET_INITIAL_SECURITY_STATE")'
    BY <2>1, CommandAtHead DEF Network, FormsOnce
  <2>4. /\ Keep /\ wanted \in Channels /\ ~Queued("LEAVE_NETWORK") /\ ~Queued("FORM_NETWORK")
        /\ ~Queued("ADD_ENDPOINT") /\ ~Queued("NETWORK_INIT") /\ form_channel = wanted
        /\ adapter.network = "none" /\ ~InQueue(FormsElsewhere, commands)
    BY <2>3 DEF Network, Asked, OnAsked, FormsOnce, Forms
  <2>5. Asked' /\ UpOnce' /\ FormsOnce' /\ Left' /\ Settled'
    BY <2>1, <2>2, <2>3, <2>4
       DEF Network, Asked, UpOnce, FormsOnce, Left, Settled, Keep, Forms, Unless
  <2>6. EndpointsFirst' /\ LeavesOnce'
    BY <2>1, <2>2, <2>4 DEF Network, EndpointsFirst, LeavesOnce, Keep
  <2>7. ~InQueue(FormsElsewhere, commands)'
    <3>1. \/ Sends(<<[cmd |-> "FORM_NETWORK", channel |-> form_channel]>>)
          \/ Sends(<<>>)
      BY <1>1 DEF SecurityStateAnswered
    <3>2. CASE Sends(<<>>)
      <4>1. CommandsMove(1, "nothing")
        BY <2>1, <3>2, HowCommandsMove
      <4> QED BY <2>1, <2>4, <4>1, FormsElsewhereMoved
    <3>3. CASE Sends(<<[cmd |-> "FORM_NETWORK", channel |-> form_channel]>>)
      <4> DEFINE c == [cmd |-> "FORM_NETWORK", channel |-> form_channel]
      <4>1. c \notin FormsElsewhere /\ c \in EzspCommands
        BY <2>4, CommandFacts DEF FormsElsewhere, TypeOK
      <4>2. FormsElsewhere' = FormsElsewhere
        BY <2>1 DEF FormsElsewhere
      <4>3. Sends(<<c>>) /\ commands \in Seq(EzspCommands)
        BY <3>3 DEF TypeOK
      <4> HIDE DEF c
      <4>4. ~InQueue(FormsElsewhere, Tail(commands) \o <<c>>)
        <5>1. <<c>> \in Seq(EzspCommands) /\ Len(<<c>>) = 1 /\ <<c>>[1] = c
          BY <4>1
        <5> SUFFICES ASSUME NEW i \in 1 .. Len(Tail(commands) \o <<c>>),
                            (Tail(commands) \o <<c>>)[i] \in FormsElsewhere
                     PROVE  FALSE
          BY DEF InQueue
        <5>2. (Tail(commands) \o <<c>>)[i] = IF i <= Len(commands) - 1 THEN commands[i + 1] ELSE c
          BY <2>1, <4>3, <5>1, TailConcat
        <5>3. i <= Len(commands) - 1 => i + 1 \in 1 .. Len(commands)
          BY <4>3
        <5> QED BY <2>4, <4>1, <5>2, <5>3 DEF InQueue
      <4> QED BY <4>2, <4>3, <4>4 DEF Sends
    <3> QED BY <3>1, <3>2, <3>3
  <2>8. OnAsked'
    BY <2>1, <2>4, <2>7 DEF OnAsked
  <2> QED BY <2>5, <2>6, <2>7, <2>8 DEF Network
<1>2. CASE FormNetworkAnswered
  <2>1. /\ commands # <<>> /\ Head(commands).cmd = "FORM_NETWORK" /\ Sends(<<>>)
        /\ UNCHANGED <<wanted, lib_state, resetDot154ChannelAtInit, form_channel>>
        /\ CommandsMove(1, "nothing") /\ ReportsMove(0, "NETWORK_UP")
    BY <1>2, NetworkMoves DEF FormNetworkAnswered, Answered, initVars
  <2>2. CASE UNCHANGED <<adapter, events>>
    <3>1. ReportsMove(0, "nothing")
      BY <2>2, HowReportsMove
    <3>2. Left' /\ (Queued("LEAVE_NETWORK")' => lib_state' # "STACK_INIT")
      BY <2>1, <2>2 DEF Network, Left, LeavesOnce
    <3> QED BY <2>1, <2>2, <3>1, <3>2, NetworkKept
  <2>3. CASE adapter' = [adapter EXCEPT !.network = "formed", !.up = TRUE,
                                        !.channel = Head(commands).channel]
    <3>1. adapter'.network = "formed" /\ adapter'.up /\ adapter'.channel = Head(commands).channel
      BY <2>3 DEF TypeOK, Adapters
    <3>2. Queued("FORM_NETWORK") /\ ~Queued("FORM_NETWORK")'
      BY <2>1, CommandAtHead DEF Network, FormsOnce
    <3>3. /\ Keep /\ wanted \in Channels /\ ~Queued("LEAVE_NETWORK")
          /\ ~Queued("SET_INITIAL_SECURITY_STATE")
          /\ ~Queued("ADD_ENDPOINT") /\ ~Queued("NETWORK_INIT") /\ form_channel = wanted
          /\ adapter.network = "none" /\ ~InQueue(FormsElsewhere, commands)
      BY <3>2 DEF Network, Asked, OnAsked, FormsOnce, Forms
    <3>4. Head(commands).channel = wanted
      <4>1. Head(commands) \in Named("FORM_NETWORK") /\ commands \in Seq(EzspCommands)
        BY <2>1, SeqFacts DEF Named, TypeOK
      <4>2. Head(commands) \notin FormsElsewhere
        BY <2>1, <3>3, <4>1, AtHead
      <4> QED BY <4>1, <4>2 DEF FormsElsewhere
    <3>5. ~adapter.up /\ ~Reported("NETWORK_UP")
      BY <3>3 DEF Network, UpOnce, TypeOK, Adapters
    <3>6. Asked' /\ FormsOnce'
      BY <2>1, <3>2, <3>3 DEF Network, Asked, FormsOnce, Forms, Keep
    <3>7. OnAsked'
      BY <2>1, <3>1, <3>3, <3>4, FormsElsewhereMoved DEF OnAsked
    <3>8. EndpointsFirst' /\ LeavesOnce'
      BY <2>1, <3>1, <3>3 DEF Network, EndpointsFirst, LeavesOnce, Keep
    <3>9. UpOnce'
      BY <2>1, <3>1, <3>3, <3>5 DEF Network, UpOnce, Keep
    <3>10. Left' /\ Settled'
      <4>1. wanted # OnlyLeave
        BY <3>3, LibAssumption DEF OnlyLeave
      <4> QED BY <2>1, <3>3, <3>5, <4>1 DEF Network, Left, Settled, Unless
    <3> QED BY <3>6, <3>7, <3>8, <3>9, <3>10 DEF Network
  <2> QED BY <1>2, <2>2, <2>3 DEF FormNetworkAnswered
<1> QED BY <1>1, <1>2

LEMMA LeavingKeepsNetwork ==
  ASSUME TypeOK, TypeOK', Network, mishaps \subseteq mishaps',
         LeaveNetworkAnswered \/ AdapterLeaves
  PROVE  Network'
<1> USE Names, CommandsMoved, ReportsMoved
<1>1. CASE LeaveNetworkAnswered
  <2>1. /\ commands # <<>> /\ Head(commands).cmd = "LEAVE_NETWORK"
        /\ UNCHANGED <<wanted, resetDot154ChannelAtInit, form_channel, adapter, events>>
        /\ CommandsMove(1, "nothing") /\ lib_state' = "STACK_INIT"
    BY <1>1, NetworkMoves DEF LeaveNetworkAnswered, Answered, initVars
  <2>2. ReportsMove(0, "nothing")
    BY <2>1, HowReportsMove
  <2>3. ~Queued("LEAVE_NETWORK")'
    BY <2>1, CommandAtHead DEF Network, LeavesOnce
  <2>4. Left' /\ lib_state' \notin Initialised
    BY <2>1 DEF Left, Initialised, ToldReady
  <2> QED BY <2>1, <2>2, <2>3, <2>4, NetworkKept
<1>2. CASE AdapterLeaves
  <2>1. /\ commands # <<>> /\ Head(commands).cmd = "LEAVE_NETWORK"
        /\ UNCHANGED <<wanted, lib_state, resetDot154ChannelAtInit, form_channel, commands>>
        /\ ReportsMove(0, "NETWORK_DOWN")
    BY <1>2, NetworkMoves DEF AdapterLeaves, initVars, historyVars
  <2>2. adapter'.network = "none" /\ ~adapter'.up
    BY <1>2 DEF AdapterLeaves, TypeOK, Adapters
  <2>3. CommandsMove(0, "nothing")
    BY <2>1, HowCommandsMove
  <2>4. /\ Queued("LEAVE_NETWORK")
        /\ QueuedAfter("LEAVE_NETWORK", "NETWORK_STATE") => ~Queued("NETWORK_STATE")
    BY <2>1, CommandAtHead
  <2>5. ~Keep /\ ~Queued("ADD_ENDPOINT") /\ ~Queued("NETWORK_INIT") /\ ~Forms
    BY <2>4 DEF Network, Asked, EndpointsFirst
  <2>6. Asked' /\ OnAsked' /\ FormsOnce'
    BY <2>1, <2>2, <2>3, <2>5 DEF Network, Asked, OnAsked, FormsOnce, Forms, Keep
  <2>7. EndpointsFirst' /\ UpOnce'
    BY <2>1, <2>2, <2>3, <2>5 DEF Network, EndpointsFirst, UpOnce, Keep
  <2>8. LeavesOnce'
    BY <2>1, <2>3, <2>4, <2>5 DEF Network, LeavesOnce, Keep
  <2>9. Left' /\ Settled'
    BY <2>1, <2>2, <2>5 DEF Network, Left, Settled, Unless
  <2> QED BY <2>6, <2>7, <2>8, <2>9 DEF Network
<1> QED BY <1>1, <1>2

LEMMA StatusKeepsNetwork ==
  ASSUME TypeOK, TypeOK', Network, mishaps \subseteq mishaps', StatusActedOn
  PROVE  Network'
<1> USE Names, CommandsMoved, ReportsMoved
<1>1. /\ UNCHANGED <<wanted, resetDot154ChannelAtInit, form_channel, adapter>>
      /\ CommandsMove(0, "NETWORK_STATE") /\ ReportsMove(1, "nothing")
      /\ events # <<>> /\ Head(events).event = "STACK_STATUS_HANDLER"
      /\ Head(events).status \in UpAndDown
  <2>1. /\ UNCHANGED <<wanted, resetDot154ChannelAtInit, form_channel, adapter>>
        /\ events # <<>> /\ Head(events).event = "STACK_STATUS_HANDLER"
        /\ Head(events).status # "CHANNEL_CHANGED"
    BY DEF StatusActedOn, HandleStackStatus, Handling, initVars
  <2>2. Head(events) \in Events
    BY <2>1, SeqFacts DEF TypeOK
  <2> QED BY <2>1, <2>2, EventFacts, NetworkMoves DEF UpAndDown
<1>2. /\ Head(events).status = "NETWORK_UP" => Reported("NETWORK_UP") /\ ~Reported("NETWORK_UP")'
      /\ Head(events).status = "NETWORK_DOWN" =>
           /\ Reported("NETWORK_DOWN")
           /\ ReportedAfter("NETWORK_DOWN", "NETWORK_UP") => ~Reported("NETWORK_UP")
  BY <1>1, ReportAtHead DEF Network, UpOnce
<1>3. Asked' /\ FormsOnce'
  BY <1>1 DEF Network, Asked, FormsOnce, Keep, Forms
<1>4. OnAsked'
  BY <1>1, FormsElsewhereMoved DEF Network, OnAsked, Keep
<1>5. EndpointsFirst'
  BY <1>1, <1>2 DEF Network, EndpointsFirst, UpOnce, UpAndDown
<1>6. UpOnce'
  BY <1>1 DEF Network, UpOnce, Keep
<1>7. CASE lib_state' = "READY" /\ Head(events).status = "NETWORK_UP" /\ Keep
  <2>1. LeavesOnce' /\ Left' /\ Settled'
    BY <1>1, <1>2, <1>7 DEF Network, Asked, LeavesOnce, Left, Settled, Keep, UpOnce
  <2> QED BY <1>3, <1>4, <1>5, <1>6, <2>1 DEF Network
<1>8. CASE UNCHANGED lib_state
  <2>1. ~Keep => ~Reported("NETWORK_UP")'
    BY <1>1, <1>2 DEF Network, LeavesOnce, UpAndDown
  <2>2. LeavesOnce' /\ Left' /\ Settled'
    BY <1>1, <1>8, <2>1 DEF Network, LeavesOnce, Left, Settled, Keep, Unless
  <2> QED BY <1>3, <1>4, <1>5, <1>6, <2>2 DEF Network
<1> QED BY <1>7, <1>8 DEF StatusActedOn, HandleStackStatus, Keep

LEMMA NetworkBegins ==
  ASSUME TypeOK, TypeOK', Beginning, Early, XncpInfoAnswered
  PROVE  Network'
<1>1. /\ lib_state' = "STACK_INIT" /\ events' = <<>> /\ commands = <<Cmd("GET_XNCP_INFO")>>
      /\ resetDot154ChannelAtInit' = wanted' /\ adapter'.network # "formed" /\ ~adapter'.up
  BY DEF XncpInfoAnswered, Answered, Beginning, Cmd, Early, initVars
<1>2. commands' = <<Cmd("SET_CONFIGURATION_VALUE"), AddEndpoint(1), AddEndpoint(242)>>
  BY <1>1 DEF XncpInfoAnswered, Sends
<1>3. \A i \in 1 .. Len(commands') : commands'[i].cmd \in {"SET_CONFIGURATION_VALUE", "ADD_ENDPOINT"}
  BY <1>2 DEF Cmd, AddEndpoint
<1>4. \A c : c \notin {"SET_CONFIGURATION_VALUE", "ADD_ENDPOINT"} => ~Queued(c)'
  BY <1>3 DEF Queued, InQueue, Named
<1>5. /\ OneQueued("LEAVE_NETWORK")' /\ OneQueued("SET_INITIAL_SECURITY_STATE")'
      /\ OneQueued("FORM_NETWORK")' /\ QueuedAfter("NETWORK_INIT", "ADD_ENDPOINT")'
      /\ QueuedAfter("NETWORK_STATE", "NETWORK_INIT")'
      /\ QueuedAfter("LEAVE_NETWORK", "NETWORK_STATE")'
  BY <1>3 DEF OneQueued, QueuedAfter, After, AtMostOne, PlacesOf, Named
<1>6. /\ \A s : ~Reported(s)' /\ OneReported(s)'
      /\ ReportedAfter("NETWORK_DOWN", "NETWORK_UP")'
  BY <1>1 DEF Reported, OneReported, ReportedAfter, InQueue, After, AtMostOne, PlacesOf
<1>7. Keep' => wanted' \notin Channels
  BY <1>1, LibAssumption DEF Keep, KeepNetwork
<1>8. Asked' /\ OnAsked' /\ FormsOnce'
  BY <1>1, <1>4, <1>5, <1>7 DEF Asked, OnAsked, FormsOnce, Forms
<1>9. EndpointsFirst' /\ LeavesOnce' /\ UpOnce'
  BY <1>1, <1>4, <1>5, <1>6 DEF EndpointsFirst, LeavesOnce, UpOnce
<1>10. Left' /\ Settled'
  BY <1>1 DEF Left, Settled, Initialised, ToldReady
<1> QED BY <1>8, <1>9, <1>10 DEF Network

LEMMA NetworkStays ==
  ASSUME TypeOK, TypeOK', Beginning, BeginningOver, ~Early', NetworkUnlessDrops, Next
  PROVE  NetworkUnlessDrops'
<1>1. mishaps \subseteq mishaps'
  BY MishapsStay
<1> SUFFICES ASSUME Unless({"drops"})' PROVE Network'
  BY DEF NetworkUnlessDrops
<1>2. Network /\ ~AdapterDrops
  BY <1>1 DEF NetworkUnlessDrops, Unless, AdapterDrops, Happens
<1>3. CASE Early
  <2>1. XncpInfoAnswered
    BY <1>3, OnlyBeginningSteps
       DEF BeginningStep, Early, Start, HandleDongleReady, DongleInit, VersionAnswered, Return,
           Beginning, ReturnsFrom
  <2> QED BY <1>3, <2>1, NetworkBegins
<1>4. CASE ~Early /\ NetworkStep
  BY <1>1, <1>2, <1>4, NetworkStepMoves, EndpointsKeepNetwork, NetworkStateKeepsNetwork,
     FormingKeepsNetwork, LeavingKeepsNetwork, StatusKeepsNetwork
<1>5. CASE ~Early /\ AsideFromNetwork
  <2>1. /\ \E d \in {0, 1} : CommandsMove(d, "nothing")
        /\ \E d \in {0, 1} : ReportsMove(d, "nothing")
    BY <1>5 DEF AsideFromNetwork, CommandsMove, ReportsMove, ComesFrom
  <2>2. Queued("LEAVE_NETWORK")' => lib_state' # "STACK_INIT"
    <3>1. Queued("LEAVE_NETWORK")' => Queued("LEAVE_NETWORK")
      BY <2>1, Names, CommandsMoved
    <3> QED BY <1>2, <1>5, <3>1
            DEF AsideFromNetwork, Network, LeavesOnce, Initialised, ToldReady
  <2>3. Left'
    BY <1>2, <1>5 DEF AsideFromNetwork, Network, Left, Initialised, ToldReady
  <2> QED BY <1>1, <1>2, <1>5, <2>1, <2>2, <2>3, NetworkKept DEF AsideFromNetwork, initVars
<1> QED BY <1>3, <1>4, <1>5, OthersLeaveNetwork

LEMMA NetworkAtFirst == Beginning /\ Early => Network
<1> SUFFICES ASSUME Beginning, Early PROVE Network
  OBVIOUS
<1>1. /\ resetDot154ChannelAtInit = wanted /\ adapter.network # "formed" /\ ~adapter.up
      /\ \A i \in 1 .. Len(commands) : commands[i].cmd \in {"VERSION", "GET_XNCP_INFO"}
      /\ \A i \in 1 .. Len(events) : events[i].event = "DONGLE_READY"
  BY DEF Beginning, ReadyOrNothing, Cmd
<1>2. \A c : c \notin {"VERSION", "GET_XNCP_INFO"} =>
        ~Queued(c) /\ OneQueued(c) /\ \A e : QueuedAfter(c, e)
  BY <1>1 DEF Queued, OneQueued, QueuedAfter, InQueue, After, AtMostOne, PlacesOf, Named
<1>3. \A s : ~Reported(s) /\ OneReported(s) /\ \A r : ReportedAfter(s, r)
  BY <1>1 DEF Reported, OneReported, ReportedAfter, InQueue, After, AtMostOne, PlacesOf, Reports
<1>4. Keep => wanted \notin Channels
  BY <1>1, LibAssumption DEF Keep, KeepNetwork
<1>5. Asked /\ OnAsked /\ FormsOnce
  BY <1>1, <1>2, <1>4 DEF Asked, OnAsked, FormsOnce, Forms
<1>6. EndpointsFirst /\ LeavesOnce /\ UpOnce
  BY <1>1, <1>2, <1>3 DEF EndpointsFirst, LeavesOnce, UpOnce
<1>7. Left /\ Settled
  BY DEF Left, Settled, Initialised, ToldReady, Early
<1> QED BY <1>5, <1>6, <1>7 DEF Network

LEMMA NetworkInit == Init => NetworkUnlessDrops
<1>1. Init => Beginning /\ Early
  BY DEF Init, Beginning, Early
<1> QED BY <1>1, NetworkAtFirst DEF NetworkUnlessDrops

LEMMA NetworkUnlessDropsStep ==
  ASSUME TypeOK, TypeOK', Beginning, Beginning', BeginningOver, NetworkUnlessDrops, [Next]_vars
  PROVE  NetworkUnlessDrops'
<1>1. CASE UNCHANGED vars
  BY <1>1 DEF vars, initVars, historyVars, NetworkUnlessDrops, Unless, Network, Asked, OnAsked,
              EndpointsFirst, LeavesOnce, UpOnce, FormsOnce, Left, Settled, Keep, Forms,
              Queued, OneQueued, QueuedAfter, Reported, OneReported, ReportedAfter,
              FormsElsewhere
<1>2. CASE Next /\ ~Early'
  BY <1>2, NetworkStays
<1>3. CASE Early'
  <2>1. (Beginning /\ Early => Network)'
    BY NetworkAtFirst, PTL
  <2> QED BY <1>3, <2>1 DEF NetworkUnlessDrops
<1> QED BY <1>1, <1>2, <1>3

(* The invariant of the network, unless the network goes down by itself.     *)
THEOREM NetworkHolds == Spec => []NetworkUnlessDrops
BY NetworkInit, NetworkUnlessDropsStep, LibTypeCorrect, BeginsOnce, PTL DEF Spec

(* On such a network the library is where it was asked to be.                *)
LEMMA NetworkAsked == TypeOK /\ NetworkUnlessDrops => ReadyOnWantedNetwork
<1> SUFFICES ASSUME TypeOK, Network, Unless({"earlyScan"}) PROVE OnWantedNetwork
  BY DEF NetworkUnlessDrops, ReadyOnWantedNetwork, Unless
<1>1. wanted = KeepNetwork => wanted \notin Channels
  BY LibAssumption DEF KeepNetwork
<1>2. wanted = KeepNetwork => adapter.network # "formed"
  BY <1>1 DEF Network, Asked
<1>3. ASSUME lib_state \in {"READY", "SINK_BUSY"}
      PROVE  /\ wanted = KeepNetwork => adapter.network = "old"
             /\ wanted \in Channels => adapter.network = "formed" /\ adapter.channel = wanted
             /\ wanted # OnlyLeave
  <2>1. Keep /\ adapter.network # "none"
    BY <1>3 DEF Network, Settled, UpOnce, Initialised, ToldReady
  <2>2. adapter.network \in {"old", "formed"}
    BY <2>1, AdapterFacts DEF TypeOK
  <2>3. wanted # OnlyLeave
    BY <2>1, LibAssumption DEF Network, Asked, Keep, KeepNetwork, OnlyLeave
  <2> QED BY <1>2, <2>1, <2>2, <2>3 DEF Network, OnAsked
<1> QED BY <1>2, <1>3 DEF OnWantedNetwork, Network, Left

(* A library that is READY, or busy with the sink, is on the network that    *)
(* was there or on the one that was asked for and on its channel, one that   *)
(* terminates left what there was, and no network is formed unasked -        *)
(* whatever the adapter refuses and in whatever order its reports and its    *)
(* responses come, unless the network goes down by itself or a scan is       *)
(* requested before the user was told READY.                                 *)
THEOREM OnTheNetworkAskedFor == Spec => []ReadyOnWantedNetwork
BY NetworkAsked, LibTypeCorrect, NetworkHolds, PTL

-----------------------------------------------------------------------------
(* No upgrade without a request.                                             *)

LaunchCommands == {c \in EzspCommands : c.cmd = "LAUNCH_STANDALONE_BOOTLOADER"}
NoLaunch == ~InQueue(LaunchCommands, commands)
NotUpgrading == "launch" \notin mishaps => NoLaunch /\ ~upgrading

LEMMA WaysOfNoLaunch ==
  ASSUME TypeOK, NoLaunch
  PROVE  /\ UNCHANGED commands => NoLaunch'
         /\ \A c \in EzspCommands :
              commands' = Append(commands, c) /\ c.cmd # "LAUNCH_STANDALONE_BOOTLOADER" => NoLaunch'
         /\ \A u \in Seq(EzspCommands) : ~InQueue(LaunchCommands, u) =>
              /\ commands # <<>> /\ Sends(u) => NoLaunch'
              /\ commands' = commands \o u => NoLaunch'
<1>1. commands \in Seq(EzspCommands)
  BY DEF TypeOK
<1>2. ASSUME NEW c \in EzspCommands, commands' = Append(commands, c),
             c.cmd # "LAUNCH_STANDALONE_BOOTLOADER"
      PROVE  NoLaunch'
  <2>1. ComesFrom(LaunchCommands, commands, commands', 0, {c})
    BY <1>1, <1>2, ComesFromAppend
  <2>2. c \notin LaunchCommands
    BY <1>2 DEF LaunchCommands
  <2> QED BY <2>1, <2>2, InFrom DEF NoLaunch
<1>3. ASSUME NEW u \in Seq(EzspCommands), ~InQueue(LaunchCommands, u), commands' = commands \o u
      PROVE  NoLaunch'
  <2>1. \A i \in 1 .. Len(u) : u[i] \notin LaunchCommands
    BY <1>3 DEF InQueue
  <2>2. ComesFrom(LaunchCommands, commands, commands', 0, {})
    BY <1>1, <1>3, <2>1, ComesFromLonger
  <2> QED BY <2>2, InFrom DEF NoLaunch
<1>4. ASSUME NEW u \in Seq(EzspCommands), ~InQueue(LaunchCommands, u), commands # <<>>, Sends(u)
      PROVE  NoLaunch'
  <2>1. Tail(commands) \in Seq(EzspCommands) /\ ~InQueue(LaunchCommands, Tail(commands))
    <3>1. Tail(commands) \in Seq(EzspCommands)
      BY <1>1, <1>4, SeqFacts
    <3>2. ComesFrom(LaunchCommands, commands, Tail(commands), 1, {})
      BY <1>1, <1>4, ComesFromTail
    <3> QED BY <3>1, <3>2, InFrom DEF NoLaunch
  <2>2. \A i \in 1 .. Len(u) : u[i] \notin LaunchCommands
    BY <1>4 DEF InQueue
  <2>3. ComesFrom(LaunchCommands, Tail(commands), Tail(commands) \o u, 0, {})
    BY <2>1, <2>2, ComesFromLonger
  <2> QED BY <1>4, <2>1, <2>3, InFrom DEF NoLaunch, Sends
<1>5. UNCHANGED commands => NoLaunch'
  BY DEF NoLaunch
<1> QED BY <1>2, <1>3, <1>4, <1>5

LEMMA ShortQueues ==
  /\ <<>> \in Seq(EzspCommands) /\ ~InQueue(LaunchCommands, <<>>)
  /\ \A a \in EzspCommands \ LaunchCommands :
       <<a>> \in Seq(EzspCommands) /\ ~InQueue(LaunchCommands, <<a>>)
  /\ \A a, b \in EzspCommands \ LaunchCommands :
       <<a, b>> \in Seq(EzspCommands) /\ ~InQueue(LaunchCommands, <<a, b>>)
  /\ \A a, b, c \in EzspCommands \ LaunchCommands :
       <<a, b, c>> \in Seq(EzspCommands) /\ ~InQueue(LaunchCommands, <<a, b, c>>)
  /\ \A c \in PlainCmds \ {"LAUNCH_STANDALONE_BOOTLOADER"} : Cmd(c) \in EzspCommands \ LaunchCommands
  /\ AddEndpoint(1) \in EzspCommands \ LaunchCommands
  /\ AddEndpoint(242) \in EzspCommands \ LaunchCommands
<1>1. /\ \A a \in EzspCommands \ LaunchCommands : ~InQueue(LaunchCommands, <<a>>)
      /\ \A a, b \in EzspCommands \ LaunchCommands : ~InQueue(LaunchCommands, <<a, b>>)
      /\ \A a, b, c \in EzspCommands \ LaunchCommands : ~InQueue(LaunchCommands, <<a, b, c>>)
  BY DEF InQueue
<1>2. /\ \A c \in PlainCmds \ {"LAUNCH_STANDALONE_BOOTLOADER"} : Cmd(c) \in EzspCommands \ LaunchCommands
      /\ AddEndpoint(1) \in EzspCommands \ LaunchCommands
      /\ AddEndpoint(242) \in EzspCommands \ LaunchCommands
  BY CommandFacts DEF Cmd, AddEndpoint, LaunchCommands
<1>3. <<>> \in Seq(EzspCommands) /\ ~InQueue(LaunchCommands, <<>>)
  BY DEF InQueue
<1> QED BY <1>1, <1>2, <1>3

LEMMA NoLaunchUnasked ==
  ASSUME TypeOK, NoLaunch, Next, ~SetFirmwareUpgradeMode
  PROVE  NoLaunch'
<1> USE WaysOfNoLaunch, ShortQueues
<1>1. /\ Cmd("GET_XNCP_INFO") \in EzspCommands \ LaunchCommands
      /\ Cmd("SET_CONFIGURATION_VALUE") \in EzspCommands \ LaunchCommands
      /\ Cmd("NETWORK_INIT") \in EzspCommands \ LaunchCommands
      /\ Cmd("NETWORK_STATE") \in EzspCommands \ LaunchCommands
      /\ Cmd("LEAVE_NETWORK") \in EzspCommands \ LaunchCommands
      /\ Cmd("SET_POLICY") \in EzspCommands \ LaunchCommands
      /\ Cmd("SET_INITIAL_SECURITY_STATE") \in EzspCommands \ LaunchCommands
      /\ Cmd("GP_SINK_TABLE_INIT") \in EzspCommands \ LaunchCommands
      /\ Cmd("GET_NETWORK_PARAMETERS") \in EzspCommands \ LaunchCommands
      /\ \A c \in {"GET_KEY", "SINK_WORK", "SET_RADIO_CHANNEL", "JOIN_NETWORK"} :
           Cmd(c) \in EzspCommands \ LaunchCommands
  BY DEF PlainCmds
<1>2. \A c \in EzspCommands \ LaunchCommands : c.cmd # "LAUNCH_STANDALONE_BOOTLOADER"
  BY DEF LaunchCommands
<1>3. CASE HandleDongleReady \/ VersionAnswered
  <2>1. \A v \in Nat : [cmd |-> "VERSION", version |-> v] \in EzspCommands \ LaunchCommands
    BY CommandFacts DEF LaunchCommands
  <2>2. CASE HandleDongleReady
    BY <1>2, <2>1, <2>2 DEF HandleDongleReady, DongleInit, TypeOK
  <2>3. CASE VersionAnswered
    <3>1. adapter.version \in Nat /\ commands # <<>>
      BY <2>3, AdapterFacts DEF TypeOK, VersionAnswered, Answered
    <3>2. Append(Tail(commands), [cmd |-> "VERSION", version |-> adapter.version])
            = Tail(commands) \o <<[cmd |-> "VERSION", version |-> adapter.version]>>
      <4>1. Tail(commands) \in Seq(EzspCommands)
        BY <3>1, SeqFacts DEF TypeOK
      <4>2. [cmd |-> "VERSION", version |-> adapter.version] \in EzspCommands
        BY <2>1, <3>1
      <4>3. ASSUME NEW s \in Seq(EzspCommands), NEW c \in EzspCommands
            PROVE  Append(s, c) = s \o <<c>>
        OBVIOUS
      <4> QED BY <4>1, <4>2, <4>3
    <3>3. PICK v : v = [cmd |-> "VERSION", version |-> adapter.version]
      OBVIOUS
    <3>4. Sends(<<v>>) \/ Sends(<<Cmd("GET_XNCP_INFO")>>) \/ Sends(<<>>)
      BY <2>3, <3>2, <3>3 DEF VersionAnswered, DongleInit, Sends
    <3>5. v \in EzspCommands \ LaunchCommands
      BY <2>1, <3>1, <3>3
    <3>6. ASSUME NEW c \in EzspCommands \ LaunchCommands, Sends(<<c>>) PROVE NoLaunch'
      <4>1. <<c>> \in Seq(EzspCommands) /\ ~InQueue(LaunchCommands, <<c>>)
        OBVIOUS
      <4> QED BY <3>1, <3>6, <4>1
    <3>7. CASE Sends(<<>>)
      BY <3>1, <3>7
    <3>8. CASE Sends(<<v>>)
      BY <3>5, <3>6, <3>8
    <3>9. CASE Sends(<<Cmd("GET_XNCP_INFO")>>)
      BY <1>1, <3>6, <3>9
    <3> QED BY <3>4, <3>7, <3>8, <3>9
  <2> QED BY <1>3, <2>2, <2>3
<1>4. CASE ResponseHandled /\ ~VersionAnswered
  <2>1. CASE XncpInfoAnswered
    <3>1. PICK u : u = <<Cmd("SET_CONFIGURATION_VALUE"), AddEndpoint(1), AddEndpoint(242)>>
      OBVIOUS
    <3>2. u \in Seq(EzspCommands) /\ ~InQueue(LaunchCommands, u)
      BY <1>1, <3>1
    <3>3. commands # <<>> /\ Sends(u)
      BY <2>1, <3>1 DEF XncpInfoAnswered, Answered
    <3> QED BY <3>2, <3>3
  <2>2. CASE PlainAnswered
    BY <1>1, <2>2 DEF PlainAnswered, Answered, NextCommand
  <2>3. CASE NetworkStateAnswered
    BY <1>1, <2>3 DEF NetworkStateAnswered, Answered
  <2>4. CASE SecurityStateAnswered
    <3>1. [cmd |-> "FORM_NETWORK", channel |-> form_channel] \in EzspCommands \ LaunchCommands
      BY CommandFacts DEF LaunchCommands, TypeOK
    <3> QED BY <2>4, <3>1 DEF SecurityStateAnswered, Answered
  <2>5. CASE \/ FormNetworkAnswered \/ LeaveNetworkAnswered \/ SinkWorkAnswered
             \/ LaunchAnswered \/ StartScanAnswered \/ GetKeyAnswered
    BY <2>5 DEF FormNetworkAnswered, LeaveNetworkAnswered, SinkWorkAnswered, LaunchAnswered,
                StartScanAnswered, GetKeyAnswered, Answered
  <2> QED BY <1>4, <2>1, <2>2, <2>3, <2>4, <2>5 DEF ResponseHandled
<1>5. CASE HandleStackStatus
  BY <1>1, <1>2, <1>5 DEF HandleStackStatus
<1>6. CASE Return
  <2>1. ReturnsFrom("request") =>
          [cmd |-> "START_SCAN", kind |-> Head(running).kind, scan |-> Head(running).scan]
            \in EzspCommands
    <3>1. ReturnsFrom("request") => Head(running) \in Frames /\ Head(running).rest = "request"
      BY SeqFacts DEF ReturnsFrom, TypeOK
    <3> QED BY <3>1, FrameFacts, CommandFacts
  <2> QED BY <1>6, <2>1 DEF Return
<1>7. CASE UserRequests
  BY <1>1, <1>2, <1>7
     DEF UserRequests, StartScan, GetNetworkKey, SinkRequest, SetChannelOrJoin
<1>8. CASE \/ Start \/ HandleScanResult \/ HandleScanComplete \/ HandleXmodemReady
           \/ AdapterLeaves \/ AdapterScans \/ AdapterDrops
  BY <1>8 DEF Start, HandleScanResult, HandleScanComplete, HandleXmodemReady, AdapterLeaves,
              AdapterScans, AdapterDrops
<1> QED BY <1>3, <1>4, <1>5, <1>6, <1>7, <1>8 DEF Next, Goes, HandleEzspRxMessage, ResponseHandled

LEMMA NotUpgradingStep ==
  ASSUME TypeOK, NotUpgrading, [Next]_vars
  PROVE  NotUpgrading'
<1> SUFFICES ASSUME "launch" \notin mishaps' PROVE (NoLaunch /\ ~upgrading)'
  BY DEF NotUpgrading
<1>1. NoLaunch /\ ~upgrading
  BY MishapsStay DEF NotUpgrading
<1>2. CASE UNCHANGED vars
  BY <1>1, <1>2 DEF vars, NoLaunch
<1>3. CASE Next
  <2>1. ~SetFirmwareUpgradeMode
    BY DEF SetFirmwareUpgradeMode, Happens
  <2>2. ~LaunchAnswered
    <3>1. LaunchAnswered => commands # <<>> /\ Head(commands) \in LaunchCommands
      BY SeqFacts DEF LaunchAnswered, Answered, LaunchCommands, TypeOK
    <3> QED BY <1>1, <3>1, AtHead DEF NoLaunch, TypeOK
  <2>3. UNCHANGED upgrading
    BY <1>3, <2>1, <2>2
       DEF Next, Goes, HandleEzspRxMessage, ResponseHandled, UserRequests, Start,
       HandleDongleReady, VersionAnswered, XncpInfoAnswered, PlainAnswered,
       NetworkStateAnswered, SecurityStateAnswered, FormNetworkAnswered,
       LeaveNetworkAnswered, SinkWorkAnswered, StartScanAnswered,
       GetKeyAnswered, HandleStackStatus, HandleScanResult, HandleScanComplete,
       HandleXmodemReady, Return, StartScan, GetNetworkKey, Request,
       SinkRequest, SinkRequested, SetChannelOrJoin, AdapterLeaves, AdapterScans, AdapterDrops
  <2> QED BY <1>1, <1>3, <2>1, <2>3, NoLaunchUnasked
<1> QED BY <1>2, <1>3

(* The dongle is not told to upgrade unless the user asked for it.           *)
THEOREM UpgradesOnRequest == Spec => []NotUpgrading
<1>1. Init => NotUpgrading
  BY DEF Init, NotUpgrading, NoLaunch, InQueue
<1>2. TypeOK /\ NotUpgrading /\ [Next]_vars => NotUpgrading'
  BY NotUpgradingStep
<1> QED BY <1>1, <1>2, LibTypeCorrect, PTL DEF Spec

-----------------------------------------------------------------------------
(* One scan at a time, and its phases: unless a mishap lets another scan be  *)
(* requested, everything that belongs to scans belongs to this one.          *)

OneScan == Unless({"scanInCallback", "scanRefused"} \cup StateTaken)

StartCommand(k, i) == [cmd |-> "START_SCAN", kind |-> k, scan |-> i]
NoneQueued == ~InQueue(ScanCommands, commands)
NoneReported == ~InQueue(ScanReports, events)
NobodyCalled == scanCallback = [x \in Kinds |-> NoRequest]
Calls(k, i) == scanCallback = [x \in Kinds |-> IF x = k THEN i ELSE NoRequest]
Calm == running \in {<<>>, <<StartFrame>>, <<KeyFrame>>}
RequestFrame(k, i) == [rest |-> "request", kind |-> k, scan |-> i]
Result(k, i) == ScanEvent("SCAN_RESULT_HANDLER", k, i)
Complete(k, i) == ScanEvent("SCAN_COMPLETE_HANDLER", k, i)

NoScan ==
  /\ lib_state # "SCANNING" /\ Calm /\ NobodyCalled
  /\ NoneQueued /\ adapter.scan = NoRequest /\ NoneReported

Requested(k, i) ==
  /\ lib_state = "SCANNING" /\ NobodyCalled /\ found[k] = {}
  /\ running \in {<<RequestFrame(k, i)>>, <<RequestFrame(k, i)>> \o <<KeyFrame>>}
  /\ NoneQueued /\ adapter.scan = NoRequest /\ NoneReported

Sent(k, i) ==
  /\ lib_state = "SCANNING" /\ Calm /\ Calls(k, i) /\ found[k] = {}
  /\ Alone(ScanCommands, commands, StartCommand(k, i))
  /\ adapter.scan = NoRequest /\ NoneReported

Accepted(k, i) ==
  /\ lib_state = "SCANNING" /\ Calm /\ Calls(k, i) /\ found[k] = {}
  /\ NoneQueued /\ adapter.scan = i /\ adapter.kind = k /\ NoneReported

Found(k, i) ==
  /\ lib_state = "SCANNING" /\ Calm /\ Calls(k, i) /\ found[k] = {}
  /\ NoneQueued /\ adapter.scan = NoRequest
  /\ Pair(ScanReports, events, Result(k, i), Complete(k, i))

Ending(k, i) ==
  /\ lib_state = "SCANNING" /\ Calm /\ Calls(k, i) /\ found[k] = {i}
  /\ NoneQueued /\ adapter.scan = NoRequest
  /\ Alone(ScanReports, events, Complete(k, i))

Ended(k, i) ==
  /\ lib_state # "SCANNING" /\ Calls(k, i)
  /\ \/ running = <<[rest |-> "completed"]>> /\ found[k] = {i}
     \/ running = <<[rest |-> "called", kind |-> k]>>
  /\ NoneQueued /\ adapter.scan = NoRequest /\ NoneReported

Phase(k, i) ==
  \/ Requested(k, i) \/ Sent(k, i) \/ Accepted(k, i) \/ Found(k, i) \/ Ending(k, i)
  \/ Ended(k, i)

APhase == NoScan \/ \E k \in Kinds, i \in Requests : Phase(k, i)

LEMMA ScanFacts ==
  \A k \in Kinds, i \in Requests :
    /\ StartCommand(k, i) \in ScanCommands
    /\ Result(k, i) \in ScanReports /\ Complete(k, i) \in ScanReports
    /\ i # NoRequest
<1> SUFFICES ASSUME NEW k \in Kinds, NEW i \in Requests
             PROVE  /\ StartCommand(k, i) \in ScanCommands
                    /\ Result(k, i) \in ScanReports /\ Complete(k, i) \in ScanReports
                    /\ i # NoRequest
  OBVIOUS
<1>1. StartCommand(k, i) \in ScanCommands
  BY CommandFacts DEF StartCommand, ScanCommands
<1>2. Result(k, i) \in Events /\ Complete(k, i) \in Events
  BY EventFacts DEF Result, Complete
<1>3. Result(k, i) \in ScanReports /\ Complete(k, i) \in ScanReports
  BY <1>2 DEF Result, Complete, ScanEvent, ScanReports
<1> QED BY <1>1, <1>3, LibAssumption DEF Requests, NoRequest

LEMMA RequestedTop ==
  ASSUME NEW k \in Kinds, NEW i \in Requests, Requested(k, i)
  PROVE  /\ running # <<>> /\ Head(running) = RequestFrame(k, i)
         /\ Tail(running) = <<>> \/ Tail(running) = <<KeyFrame>>
<1>1. \A f : /\ <<f>> # <<>> /\ Head(<<f>>) = f /\ Tail(<<f>>) = <<>>
  OBVIOUS
<1>2. ASSUME NEW f \in Frames, NEW g \in Frames
      PROVE  /\ <<f>> \o <<g>> # <<>> /\ Head(<<f>> \o <<g>>) = f
             /\ Tail(<<f>> \o <<g>>) = <<g>>
  <2>1. <<f>> \in Seq(Frames) /\ <<g>> \in Seq(Frames) /\ <<f>> # <<>>
    OBVIOUS
  <2> DEFINE s == <<f>> \o <<g>>
  <2>2. s \in Seq(Frames) /\ Len(s) = 2 /\ s[1] = f /\ s[2] = g
    BY <2>1
  <2>3. s # <<>> /\ Head(s) = f
    BY <2>2
  <2>4. Tail(s) \in Seq(Frames) /\ Len(Tail(s)) = 1 /\ Tail(s)[1] = g
    BY <2>2, <2>3
  <2>5. Tail(s) = <<g>>
    <3>1. <<g>> \in Seq(Frames) /\ Len(<<g>>) = 1 /\ <<g>>[1] = g
      OBVIOUS
    <3>2. \A j \in 1 .. Len(Tail(s)) : Tail(s)[j] = <<g>>[j]
      BY <2>4, <3>1
    <3> HIDE DEF s
    <3> QED BY <2>4, <3>1, <3>2, SeqEqual
  <2> QED BY <2>3, <2>5
<1>3. RequestFrame(k, i) \in Frames /\ KeyFrame \in Frames
  BY FrameFacts DEF RequestFrame, KeyFrame
<1> QED BY <1>1, <1>2, <1>3 DEF Requested

(* SCANNING is only left by the end of the scan.                             *)
LEMMA ScanningStays ==
  ASSUME TypeOK, BeginningOver, NetworkUnlessDrops, NotUpgrading, OneScan', Next,
         lib_state = "SCANNING", ~HandleScanComplete
  PROVE  lib_state' = "SCANNING"
<1>1. OneScan
  BY MishapsStay DEF OneScan, Unless
<1>2. /\ Keep /\ adapter.network # "none" /\ ~Reported("NETWORK_UP") /\ ~upgrading
      /\ ~Queued("LEAVE_NETWORK")
  BY <1>1 DEF OneScan, StateTaken, Unless, NetworkUnlessDrops, Network, Settled, Asked, UpOnce,
              Initialised, ToldReady, NotUpgrading
<1>3. ~LeaveNetworkAnswered
  BY <1>2, AtHead, SeqFacts DEF LeaveNetworkAnswered, Answered, TypeOK, Queued, Named
<1>4. ~XncpInfoAnswered /\ ~VersionAnswered
  <2>1. commands # <<>> => Head(commands) = commands[1] /\ 1 \in 1 .. Len(commands)
    BY SeqFacts DEF TypeOK
  <2> QED BY <2>1 DEF VersionAnswered, XncpInfoAnswered, Answered, BeginningOver, Early
<1>5. ~(Return /\ ReturnsFrom("start"))
  <2>1. running # <<>> => Head(running) = running[1] /\ 1 \in 1 .. Len(running)
    BY SeqFacts DEF TypeOK
  <2> QED BY <2>1 DEF Early, ReturnsFrom, BeginningOver, NoStart
<1>6. HandleStackStatus => UNCHANGED lib_state
  <2> SUFFICES ASSUME HandleStackStatus, Head(events).status = "NETWORK_UP" PROVE FALSE
    BY DEF HandleStackStatus
  <2>1. events # <<>> /\ Head(events) \in Reports("NETWORK_UP")
    BY SeqFacts DEF HandleStackStatus, Handling, Reports, TypeOK
  <2> QED BY <1>2, <2>1, AtHead DEF Reported, TypeOK
<1>7. ~SetFirmwareUpgradeMode
  BY DEF SetFirmwareUpgradeMode, Happens, OneScan, StateTaken, Unless
<1> QED
  BY <1>2, <1>3, <1>4, <1>5, <1>6, <1>7
     DEF Next, Goes, HandleEzspRxMessage, ResponseHandled, UserRequests, Start,
         HandleDongleReady, PlainAnswered, NetworkStateAnswered, SecurityStateAnswered,
         FormNetworkAnswered, SinkWorkAnswered, LaunchAnswered, StartScanAnswered,
         GetKeyAnswered, HandleScanResult, HandleXmodemReady, Return, StartScan, GetNetworkKey,
         SinkRequest, SinkRequested, SetChannelOrJoin, AdapterLeaves, AdapterScans, AdapterDrops

LEMMA AsideKeepsPhase ==
  ASSUME TypeOK, TypeOK', AsideFromScans, lib_state = "SCANNING" => lib_state' = "SCANNING"
  PROVE  /\ NoScan => NoScan'
         /\ \A k \in Kinds, i \in Requests : Phase(k, i) => Phase(k, i)'
<1>1. /\ commands \in Seq(EzspCommands) /\ commands' \in Seq(EzspCommands)
      /\ events \in Seq(Events) /\ events' \in Seq(Events)
  BY DEF TypeOK
<1>2. /\ NoneQueued => NoneQueued'
      /\ \A x \in ScanCommands : Alone(ScanCommands, commands, x) => Alone(ScanCommands, commands', x)
  BY <1>1, SameKept DEF AsideFromScans, NoneQueued
<1>3. /\ NoneReported => NoneReported'
      /\ \A x \in ScanReports : Alone(ScanReports, events, x) => Alone(ScanReports, events', x)
      /\ \A x, y \in ScanReports :
           Pair(ScanReports, events, x, y) => Pair(ScanReports, events', x, y)
  BY <1>1, SameKept DEF AsideFromScans, NoneReported
<1>4. /\ (lib_state = "SCANNING") <=> (lib_state' = "SCANNING")
      /\ UNCHANGED <<scanCallback, found>>
      /\ adapter'.scan = adapter.scan /\ adapter'.kind = adapter.kind
  BY DEF AsideFromScans, scanVars
<1>5. Calm => Calm'
  <2>1. \A f : Tail(<<f>>) = <<>> /\ <<f>> # <<>>
    OBVIOUS
  <2> QED BY <2>1 DEF AsideFromScans, Calm
<1>6. running # <<>> /\ Head(running).rest \notin {"start", "key"} => UNCHANGED running
  BY DEF AsideFromScans
<1>7. NoScan => NoScan'
  BY <1>2, <1>3, <1>4, <1>5 DEF NoScan, NobodyCalled
<1>8. ASSUME NEW k \in Kinds, NEW i \in Requests, Phase(k, i) PROVE Phase(k, i)'
  <2>1. Requested(k, i) => Requested(k, i)'
    <3>1. Requested(k, i) => running # <<>> /\ Head(running).rest = "request"
      BY RequestedTop DEF RequestFrame
    <3> QED BY <1>2, <1>3, <1>4, <1>6, <3>1 DEF Requested, NobodyCalled
  <2>2. Sent(k, i) => Sent(k, i)'
    BY <1>2, <1>3, <1>4, <1>5, ScanFacts DEF Sent, Calls
  <2>3. Accepted(k, i) => Accepted(k, i)'
    BY <1>2, <1>3, <1>4, <1>5 DEF Accepted, Calls
  <2>4. Found(k, i) => Found(k, i)'
    BY <1>2, <1>3, <1>4, <1>5, ScanFacts DEF Found, Calls
  <2>5. Ending(k, i) => Ending(k, i)'
    BY <1>2, <1>3, <1>4, <1>5, ScanFacts DEF Ending, Calls
  <2>6. Ended(k, i) => Ended(k, i)'
    BY <1>2, <1>3, <1>4, <1>6 DEF Ended, Calls
  <2> QED BY <1>8, <2>1, <2>2, <2>3, <2>4, <2>5, <2>6 DEF Phase
<1> QED BY <1>7, <1>8

LEMMA RequestsPhase ==
  ASSUME TypeOK, TypeOK', OneScan', APhase, NEW k \in Kinds, StartScan(k)
  PROVE  APhase'
<1>1. lib_state # "SCANNING" /\ ops + 1 \in Requests
  BY LibAssumption DEF StartScan, ScanBusy, Request, TypeOK, Requests
<1>2. ~InCallback
  BY DEF StartScan, Happens, Note, OneScan, Unless
<1>3. NoScan
  <2>1. \A x \in Kinds, i \in Requests : ~Ended(x, i)
    BY <1>2 DEF Ended, InCallback
  <2> QED BY <1>1, <2>1 DEF APhase, Phase, Requested, Sent, Accepted, Found, Ending
<1>4. running \in {<<>>, <<KeyFrame>>}
  BY <1>3 DEF NoScan, Calm, StartScan, Request, StartFrame
<1>5. PICK i \in Requests : i = ops + 1
  BY <1>1
<1>6. running' = <<RequestFrame(k, i)>> \/ running' = <<RequestFrame(k, i)>> \o <<KeyFrame>>
  <2>1. running' = <<RequestFrame(k, i)>> \o running
    BY <1>5 DEF StartScan, RequestFrame
  <2>2. \A f : <<f>> \o <<>> = <<f>>
    OBVIOUS
  <2> QED BY <1>4, <2>1, <2>2
<1>7. found'[k] = {}
  BY DEF StartScan, TypeOK
<1>8. Requested(k, i)'
  BY <1>3, <1>6, <1>7
     DEF Requested, NoScan, StartScan, Request, NobodyCalled, NoneQueued, NoneReported
<1> QED BY <1>8 DEF APhase, Phase

LEMMA SentPhase ==
  ASSUME TypeOK, TypeOK', APhase, Return, ReturnsFrom("request")
  PROVE  APhase'
<1>1. PICK k \in Kinds, i \in Requests : Requested(k, i)
  BY DEF APhase, Phase, NoScan, Sent, Accepted, Found, Ending, Ended, Calm, StartFrame, KeyFrame,
         ReturnsFrom
<1>2. /\ Head(running) = RequestFrame(k, i)
      /\ Tail(running) = <<>> \/ Tail(running) = <<KeyFrame>>
  BY <1>1, RequestedTop
<1>3. /\ commands' = Append(commands, StartCommand(k, i)) /\ running' = Tail(running)
      /\ scanCallback' = [x \in Kinds |-> IF x = k THEN i ELSE NoRequest]
      /\ UNCHANGED <<lib_state, found, adapter, events>>
  BY <1>2 DEF Return, ReturnsFrom, RequestFrame, StartCommand
<1>4. Alone(ScanCommands, commands', StartCommand(k, i))
  <2>1. StartCommand(k, i) \in EzspCommands /\ commands \in Seq(EzspCommands)
    BY ScanFacts DEF ScanCommands, TypeOK
  <2>2. ~InQueue(ScanCommands, commands)
    BY <1>1 DEF Requested, NoneQueued
  <2> QED BY <1>3, <2>1, <2>2, AloneAppend
<1>5. Sent(k, i)'
  BY <1>1, <1>2, <1>3, <1>4 DEF Sent, Requested, Calm, Calls, NoneReported
<1> QED BY <1>5 DEF APhase, Phase

LEMMA AcceptedPhase ==
  ASSUME TypeOK, TypeOK', OneScan', APhase, StartScanAnswered
  PROVE  APhase'
<1>1. /\ commands # <<>> /\ commands \in Seq(EzspCommands) /\ Head(commands) \in ScanCommands
      /\ commands' = Tail(commands)
  <2>1. /\ commands # <<>> /\ commands \in Seq(EzspCommands) /\ Sends(<<>>)
        /\ Head(commands).cmd = "START_SCAN"
    BY DEF StartScanAnswered, Answered, TypeOK
  <2> QED BY <2>1, SeqFacts DEF Sends, ScanCommands
<1>2. PICK k \in Kinds, i \in Requests : Sent(k, i)
  <2>1. ~NoneQueued
    BY <1>1, AtHead DEF NoneQueued
  <2> QED BY <2>1 DEF APhase, Phase, NoScan, Requested, Accepted, Found, Ending, Ended
<1>3. Head(commands) = StartCommand(k, i) /\ ~InQueue(ScanCommands, Tail(commands))
  BY <1>1, <1>2, TakenAlone DEF Sent
<1>4. adapter' = [adapter EXCEPT !.scan = Head(commands).scan, !.kind = Head(commands).kind]
  BY DEF StartScanAnswered, Happens, OneScan, Unless
<1>5. adapter'.scan = i /\ adapter'.kind = k
  <2>1. Head(commands).scan = i /\ Head(commands).kind = k
    BY <1>3 DEF StartCommand
  <2>2. adapter' = [adapter EXCEPT !.scan = i, !.kind = k]
    BY <1>4, <2>1, Zenon
  <2> QED BY <2>2 DEF TypeOK, Adapters
<1>6. UNCHANGED <<lib_state, running, scanCallback, found, events>>
  BY DEF StartScanAnswered
<1>7. Accepted(k, i)'
  BY <1>1, <1>2, <1>3, <1>5, <1>6 DEF Accepted, Sent, Calm, Calls, NoneQueued, NoneReported
<1> QED BY <1>7 DEF APhase, Phase

LEMMA FoundPhase ==
  ASSUME TypeOK, TypeOK', APhase, AdapterScans
  PROVE  APhase'
<1>1. PICK k \in Kinds, i \in Requests : Accepted(k, i)
  BY DEF AdapterScans, APhase, Phase, NoScan, Requested, Sent, Found, Ending, Ended
<1>2. events' = events \o <<Result(k, i), Complete(k, i)>>
  BY <1>1 DEF AdapterScans, Accepted, Result, Complete
<1>3. Pair(ScanReports, events', Result(k, i), Complete(k, i))
  <2>1. Result(k, i) \in Events /\ Complete(k, i) \in Events /\ events \in Seq(Events)
    BY ScanFacts DEF ScanReports, TypeOK
  <2>2. ~InQueue(ScanReports, events)
    BY <1>1 DEF Accepted, NoneReported
  <2> QED BY <1>2, <2>1, <2>2, PairAppend
<1>4. adapter'.scan = NoRequest
  BY DEF AdapterScans, TypeOK, Adapters
<1>5. UNCHANGED <<lib_state, running, scanCallback, found, commands>>
  BY DEF AdapterScans, scanVars
<1>6. Found(k, i)'
  BY <1>1, <1>3, <1>4, <1>5 DEF Found, Accepted, Calm, Calls, NoneQueued
<1> QED BY <1>6 DEF APhase, Phase

LEMMA EndingPhase ==
  ASSUME TypeOK, TypeOK', APhase, HandleScanResult
  PROVE  APhase'
<1>1. /\ events # <<>> /\ events \in Seq(Events) /\ events' = Tail(events)
      /\ Head(events).event = "SCAN_RESULT_HANDLER"
  BY DEF HandleScanResult, Handling, TypeOK
<1>2. Head(events) \in ScanReports
  BY <1>1, SeqFacts DEF ScanReports
<1>3. PICK k \in Kinds, i \in Requests : Found(k, i)
  <2>1. ~NoneReported
    BY <1>1, <1>2, AtHead DEF NoneReported
  <2>2. \A k \in Kinds, i \in Requests : ~Ending(k, i)
    <3> SUFFICES ASSUME NEW k \in Kinds, NEW i \in Requests, Ending(k, i) PROVE FALSE
      OBVIOUS
    <3>1. Head(events) = Complete(k, i)
      BY <1>1, <1>2, TakenAlone DEF Ending
    <3> QED BY <1>1, <3>1 DEF Complete, ScanEvent
  <2> QED BY <2>1, <2>2 DEF APhase, Phase, NoScan, Requested, Sent, Accepted, Ended
<1>4. Head(events) = Result(k, i) /\ Alone(ScanReports, Tail(events), Complete(k, i))
  BY <1>1, <1>2, <1>3, TakenFirst DEF Found
<1>5. found'[k] = {i}
  <2>1. Head(events).kind = k /\ Head(events).scan = i
    BY <1>4 DEF Result, ScanEvent
  <2> QED BY <1>3, <2>1 DEF HandleScanResult, Found, TypeOK
<1>6. UNCHANGED <<lib_state, running, scanCallback, commands, adapter>>
  BY DEF HandleScanResult
<1>7. Ending(k, i)'
  BY <1>1, <1>3, <1>4, <1>5, <1>6 DEF Ending, Found, Calm, Calls, NoneQueued
<1> QED BY <1>7 DEF APhase, Phase

LEMMA EndedPhase ==
  ASSUME TypeOK, TypeOK', APhase, HandleScanComplete
  PROVE  APhase'
<1>1. /\ events # <<>> /\ events \in Seq(Events) /\ events' = Tail(events)
      /\ Head(events).event = "SCAN_COMPLETE_HANDLER"
  BY DEF HandleScanComplete, Handling, TypeOK
<1>2. Head(events) \in ScanReports
  BY <1>1, SeqFacts DEF ScanReports
<1>3. PICK k \in Kinds, i \in Requests : Ending(k, i)
  <2>1. ~NoneReported
    BY <1>1, <1>2, AtHead DEF NoneReported
  <2>2. \A k \in Kinds, i \in Requests : ~Found(k, i)
    <3> SUFFICES ASSUME NEW k \in Kinds, NEW i \in Requests, Found(k, i) PROVE FALSE
      OBVIOUS
    <3>1. Head(events) = Result(k, i)
      BY <1>1, <1>2, TakenFirst DEF Found
    <3> QED BY <1>1, <3>1 DEF Result, ScanEvent
  <2> QED BY <2>1, <2>2 DEF APhase, Phase, NoScan, Requested, Sent, Accepted, Ended
<1>4. ~InQueue(ScanReports, Tail(events))
  BY <1>1, <1>2, <1>3, TakenAlone DEF Ending
<1>5. /\ lib_state' = "READY" /\ running' = <<[rest |-> "completed"]>>
      /\ UNCHANGED <<scanCallback, found, commands, adapter>>
  BY <1>3 DEF HandleScanComplete, AwaitsScan, Ending
<1>6. Ended(k, i)'
  BY <1>1, <1>3, <1>4, <1>5 DEF Ended, Ending, Calls, NoneQueued, NoneReported
<1> QED BY <1>6 DEF APhase, Phase

(* The callback is called when nothing is left of its scan, with what was    *)
(* found for it.                                                             *)
LEMMA CalledPhase ==
  ASSUME TypeOK, TypeOK', APhase, CalledWithItsScan, Return,
         ReturnsFrom("completed") \/ ReturnsFrom("called")
  PROVE  APhase' /\ CalledWithItsScan'
<1>1. PICK k \in Kinds, i \in Requests : Ended(k, i)
  <2>1. \A k \in Kinds, i \in Requests : ~Requested(k, i)
    BY RequestedTop DEF RequestFrame, ReturnsFrom
  <2> QED BY <2>1 DEF APhase, Phase, NoScan, Sent, Accepted, Found, Ending, Calm, StartFrame,
             KeyFrame, ReturnsFrom
<1>2. /\ scanCallback[k] = i /\ \A x \in Kinds : x # k => scanCallback[x] = NoRequest
      /\ i # NoRequest
  BY <1>1, ScanFacts DEF Ended, Calls
<1>3. UNCHANGED <<lib_state, commands, adapter, events, found>>
  BY DEF Return, ReturnsFrom
<1>4. NoneQueued' /\ NoneReported'
  BY <1>1, <1>3 DEF Ended, NoneQueued, NoneReported
<1>5. \A f : Head(<<f>>) = f /\ Tail(<<f>>) = <<>> /\ <<f>> \o <<>> = <<f>>
  OBVIOUS
<1>6. CASE ReturnsFrom("completed")
  <2>1. running = <<[rest |-> "completed"]>> /\ found[k] = {i}
    BY <1>1, <1>5, <1>6 DEF Ended, ReturnsFrom
  <2>2. FirstToCall(scanCallback) = k
    BY <1>2 DEF FirstToCall, Kinds
  <2>3. CallsBack(k, scanCallback, <<>>)
    BY <1>5, <1>6, <2>1, <2>2 DEF Return, ReturnsFrom
  <2>4. /\ running' = <<[rest |-> "called", kind |-> k]>> /\ UNCHANGED scanCallback
        /\ notified' = notified \cup {[scan |-> i, over |-> ~UnderWay(i), results |-> {i}]}
    BY <1>2, <1>5, <2>1, <2>3 DEF CallsBack
  <2>5. ~UnderWay(i)
    <3>1. adapter.scan # i
      BY <1>1, <1>2 DEF Ended
    <3>2. \A j \in 1 .. Len(commands) : commands[j].cmd # "START_SCAN"
      BY <1>1, SeqFacts DEF Ended, NoneQueued, InQueue, ScanCommands, TypeOK
    <3>3. \A j \in 1 .. Len(events) : events[j].event # "SCAN_COMPLETE_HANDLER"
      BY <1>1, SeqFacts DEF Ended, NoneReported, InQueue, ScanReports, TypeOK
    <3> QED BY <3>1, <3>2, <3>3 DEF UnderWay
  <2>6. CalledWithItsScan'
    <3>1. (~UnderWay(i)) = TRUE
      BY <2>5 DEF UnderWay
    <3>2. notified' = notified \cup {[scan |-> i, over |-> TRUE, results |-> {i}]}
      BY <2>4, <3>1
    <3> QED BY <3>2 DEF CalledWithItsScan
  <2>7. Ended(k, i)'
    BY <1>1, <1>3, <1>4, <2>4 DEF Ended, Calls
  <2> QED BY <2>6, <2>7 DEF APhase, Phase
<1>7. CASE ReturnsFrom("called")
  <2>1. running = <<[rest |-> "called", kind |-> k]>>
    BY <1>1, <1>5, <1>7 DEF Ended, ReturnsFrom
  <2>2. Forgotten(k) = [x \in Kinds |-> NoRequest]
    BY <1>1 DEF Forgotten, Ended, Calls
  <2>3. running' = <<>> /\ NobodyCalled' /\ UNCHANGED notified
    <3>1. CASE k = "energy"
      <4>1. CallsBack("active", Forgotten("energy"), <<>>)
        BY <1>5, <1>7, <2>1, <3>1 DEF Return, ReturnsFrom
      <4>2. Forgotten("energy")["active"] = NoRequest
        BY <2>2, <3>1 DEF Kinds
      <4> QED BY <2>2, <3>1, <4>1, <4>2 DEF CallsBack, NobodyCalled
    <3>2. CASE k = "active"
      BY <1>5, <1>7, <2>1, <2>2, <3>2 DEF Return, ReturnsFrom, NobodyCalled
    <3> QED BY <3>1, <3>2 DEF Kinds
  <2>4. NoScan'
    BY <1>1, <1>3, <1>4, <2>3 DEF NoScan, Ended, Calm
  <2> QED BY <2>3, <2>4 DEF APhase, CalledWithItsScan
<1> QED BY <1>6, <1>7

LEMMA NotifiedStays ==
  ASSUME Next, ~(Return /\ (ReturnsFrom("completed") \/ ReturnsFrom("called")))
  PROVE  UNCHANGED notified
BY DEF Next, Goes, HandleEzspRxMessage, ResponseHandled, UserRequests, Start,
       HandleDongleReady, VersionAnswered, XncpInfoAnswered, PlainAnswered,
       NetworkStateAnswered, SecurityStateAnswered, FormNetworkAnswered,
       LeaveNetworkAnswered, SinkWorkAnswered, LaunchAnswered, StartScanAnswered,
       GetKeyAnswered, HandleStackStatus, HandleScanResult, HandleScanComplete,
       HandleXmodemReady, Return, StartScan, GetNetworkKey, SetFirmwareUpgradeMode,
       SinkRequest, SinkRequested, SetChannelOrJoin, AdapterLeaves, AdapterScans, AdapterDrops,
       Request, historyVars

ScanPhases == OneScan => APhase /\ CalledWithItsScan

LEMMA ScanPhasesStep ==
  ASSUME TypeOK, TypeOK', Fresh, BeginningOver, NetworkUnlessDrops, NotUpgrading, ScanPhases, Next
  PROVE  ScanPhases'
<1> SUFFICES ASSUME OneScan' PROVE (APhase /\ CalledWithItsScan)'
  BY DEF ScanPhases
<1>1. APhase /\ CalledWithItsScan
  BY MishapsStay DEF OneScan, Unless, ScanPhases
<1>2. CASE Return /\ (ReturnsFrom("completed") \/ ReturnsFrom("called"))
  BY <1>1, <1>2, CalledPhase
<1>3. CASE ~(Return /\ (ReturnsFrom("completed") \/ ReturnsFrom("called")))
  <2>1. CalledWithItsScan'
    BY <1>1, <1>3, NotifiedStays DEF CalledWithItsScan
  <2>2. CASE HandleScanComplete
    BY <1>1, <2>1, <2>2, EndedPhase
  <2>3. CASE AsideFromScans /\ ~HandleScanComplete
    <3>1. lib_state = "SCANNING" => lib_state' = "SCANNING"
      BY <2>3, ScanningStays
    <3> QED BY <1>1, <2>1, <2>3, <3>1, AsideKeepsPhase DEF APhase
  <2>4. CASE StartScanAnswered
    BY <1>1, <2>1, <2>4, AcceptedPhase
  <2>5. CASE HandleScanResult
    BY <1>1, <2>1, <2>5, EndingPhase
  <2>6. CASE Return /\ ReturnsFrom("request")
    BY <1>1, <2>1, <2>6, SentPhase
  <2>7. CASE \E k \in Kinds : StartScan(k)
    BY <1>1, <2>1, <2>7, RequestsPhase
  <2>8. CASE AdapterScans
    BY <1>1, <2>1, <2>8, FoundPhase
  <2> QED BY <1>3, <2>2, <2>3, <2>4, <2>5, <2>6, <2>7, <2>8, OthersStandAside
          DEF ScanStep, ScanReturns
<1> QED BY <1>2, <1>3

LEMMA ScanPhasesInit == Init => ScanPhases
BY DEF Init, ScanPhases, APhase, NoScan, Calm, NobodyCalled, NoneQueued, NoneReported, InQueue,
       CalledWithItsScan

LEMMA ScanPhasesIdle ==
  ASSUME ScanPhases,
         UNCHANGED <<scanCallback, found, running, commands, adapter, events, notified, mishaps>>,
         lib_state = "SCANNING" <=> lib_state' = "SCANNING"
  PROVE  ScanPhases'
<1>1. APhase => APhase'
  BY DEF APhase, NoScan, Phase, Requested, Sent, Accepted, Found, Ending, Ended, Calm,
         NobodyCalled, Calls, NoneQueued, NoneReported
<1> QED BY <1>1 DEF ScanPhases, OneScan, Unless, CalledWithItsScan

(* Unless another scan is requested from a callback, or the adapter refuses  *)
(* one, or the stack or the user takes the library out of its scan, every    *)
(* call of a scan callback comes after all of its own scan, with all that    *)
(* scan found and with nothing of another.                                   *)
THEOREM CallbackAfterItsScan == Spec => []ScanCallbackAfterScan
<1>1. Init => ScanPhases
  BY ScanPhasesInit
<1>2. TypeOK /\ TypeOK' /\ Fresh /\ BeginningOver /\ NetworkUnlessDrops /\ NotUpgrading
      /\ ScanPhases /\ [Next]_vars => ScanPhases'
  <2> SUFFICES ASSUME TypeOK, ScanPhases, UNCHANGED vars PROVE ScanPhases'
    BY ScanPhasesStep
  <2> QED BY ScanPhasesIdle DEF vars, scanVars, historyVars
<1>3. ScanPhases => ScanCallbackAfterScan
  BY DEF ScanPhases, ScanCallbackAfterScan, OneScan
<1> QED BY <1>1, <1>2, <1>3, LibTypeCorrect, FreshAtFirst, BeginsOnce, NetworkHolds,
           UpgradesOnRequest, PTL DEF Spec

-----------------------------------------------------------------------------
(* The library beside others that share its state and its queue: a turn of   *)
(* the sink, which GpSink has in place of SINK_WORK.                         *)

SinkTurn ==
  /\ {lib_state, lib_state'} \subseteq {"READY", "SINK_BUSY"}
  /\ ops' \in 0 .. MaxOps
  /\ UNCHANGED <<initVars, scanVars, networkKeyCallback, running, upgrading, commands, adapter,
                 events, historyVars, mishaps>>

LibInvariant == TypeOK /\ Beginning /\ BeginningOver /\ NetworkUnlessDrops

LEMMA LibInvariantInit == Init => LibInvariant
<1>1. Init => Beginning /\ BeginningOver
  BY DEF Init, Beginning, BeginningOver, Early
<1> QED BY <1>1, InitType, NetworkInit DEF LibInvariant

LEMMA SinkTurnKeeps ==
  ASSUME LibInvariant, SinkTurn
  PROVE  LibInvariant'
<1> USE DEF LibInvariant, SinkTurn, initVars, scanVars, historyVars
<1>1. TypeOK'
  BY DEF TypeOK, States
<1>2. ~Early /\ ~Early'
  BY DEF Early
<1>3. Beginning' /\ BeginningOver'
  BY <1>2 DEF Beginning, BeginningOver
<1>4. ASSUME Unless({"drops"}) PROVE Network'
  <2>1. Network
    BY <1>4 DEF NetworkUnlessDrops
  <2>2. /\ Asked' /\ OnAsked' /\ EndpointsFirst' /\ UpOnce' /\ FormsOnce'
    BY <2>1 DEF Network, Asked, OnAsked, EndpointsFirst, UpOnce, FormsOnce, Keep, Forms, Queued,
                OneQueued, QueuedAfter, Reported, OneReported, ReportedAfter, FormsElsewhere
  <2>3. LeavesOnce'
    BY <2>1 DEF Network, LeavesOnce, Keep, Queued, OneQueued, QueuedAfter, Reported, ReportedAfter
  <2>4. Left' /\ Settled'
    BY <2>1 DEF Network, Left, Settled, Keep, Reported, Unless, Initialised, ToldReady
  <2> QED BY <2>2, <2>3, <2>4 DEF Network
<1> QED BY <1>1, <1>3, <1>4 DEF NetworkUnlessDrops, Unless

LEMMA LibInvariantStep ==
  ASSUME LibInvariant, [Next \/ SinkTurn]_vars
  PROVE  LibInvariant'
<1>1. CASE SinkTurn
  BY <1>1, SinkTurnKeeps
<1>2. CASE [Next]_vars
  <2>1. TypeOK'
    BY <1>2, TypeStep DEF LibInvariant
  <2>2. Beginning' /\ BeginningOver'
    BY <1>2, <2>1, BeginningStays DEF LibInvariant
  <2> QED BY <1>2, <2>1, <2>2, NetworkUnlessDropsStep DEF LibInvariant
<1> QED BY <1>1, <1>2

(* The invariants about scans and upgrades, in the same company.             *)
ScanInvariant == Fresh /\ ScanUnderWay /\ NotUpgrading /\ ScanPhases

LEMMA ScanInvariantInit == Init => ScanInvariant
<1>1. Init => Fresh /\ ScanUnderWay /\ NotUpgrading
  BY DEF Init, Fresh, ScanUnderWay, NotUpgrading, NoLaunch, InQueue
<1> QED BY <1>1, ScanPhasesInit DEF ScanInvariant

LEMMA ScanInvariantStep ==
  ASSUME LibInvariant, LibInvariant', ScanInvariant, [Next \/ SinkTurn]_vars
  PROVE  ScanInvariant'
<1> USE DEF ScanInvariant
<1>1. CASE SinkTurn \/ UNCHANGED vars
  <2>1. /\ UNCHANGED <<scanCallback, found, scanInProgress, running, upgrading, commands, adapter,
                       events, notified, mishaps>>
        /\ UNCHANGED vars \/ {lib_state, lib_state'} \subseteq {"READY", "SINK_BUSY"}
    BY <1>1 DEF SinkTurn, vars, scanVars, historyVars
  <2>2. Fresh'
    BY <2>1 DEF Fresh, vars
  <2>3. ScanUnderWay'
    BY <2>1 DEF ScanUnderWay, UnderWay, Unless, vars
  <2>4. NotUpgrading'
    BY <2>1 DEF NotUpgrading, NoLaunch
  <2>5. lib_state = "SCANNING" <=> lib_state' = "SCANNING"
    BY <2>1 DEF vars
  <2> QED BY <2>1, <2>2, <2>3, <2>4, <2>5, ScanPhasesIdle
<1>2. CASE Next
  <2>1. TypeOK /\ TypeOK' /\ BeginningOver /\ NetworkUnlessDrops
    BY DEF LibInvariant
  <2> QED BY <1>2, <2>1, FreshStep, ScanUnderWayStep, NotUpgradingStep, ScanPhasesStep
<1> QED BY <1>1, <1>2

(* What the invariant says of a library that is busy with the sink: the      *)
(* steps that would take it elsewhere are over.                              *)
LEMMA BusyIsSettled ==
  ASSUME LibInvariant, lib_state = "SINK_BUSY", mishaps \cap {"drops", "earlyScan"} = {}
  PROVE  /\ adapter.network # "none"
         /\ commands # <<>> =>
              Head(commands).cmd \notin {"VERSION", "GET_XNCP_INFO", "LEAVE_NETWORK"}
<1>1. Network /\ ~Early /\ TypeOK /\ BeginningOver
  BY DEF LibInvariant, NetworkUnlessDrops, Unless, Early
<1>2. Keep /\ adapter.up
  BY <1>1 DEF Network, Settled, Unless, Initialised
<1>3. adapter.network # "none" /\ ~Queued("LEAVE_NETWORK")
  BY <1>1, <1>2 DEF Network, Asked, UpOnce
<1>4. ASSUME commands # <<>>
      PROVE  Head(commands).cmd \notin {"VERSION", "GET_XNCP_INFO", "LEAVE_NETWORK"}
  <2>1. commands \in Seq(EzspCommands) /\ 1 \in 1 .. Len(commands) /\ Head(commands) = commands[1]
        /\ Head(commands) \in EzspCommands
    BY <1>1, <1>4, SeqFacts DEF TypeOK
  <2>2. Head(commands).cmd \notin {"VERSION", "GET_XNCP_INFO"}
    BY <1>1, <2>1 DEF BeginningOver
  <2>3. Head(commands).cmd # "LEAVE_NETWORK"
    BY <1>3, <2>1 DEF Queued, InQueue, Named
  <2> QED BY <2>2, <2>3
<1> QED BY <1>3, <1>4

(* A library that is told that the network it keeps is up is not told again. *)
UpForGood == Keep /\ adapter.up /\ ~Reported("NETWORK_UP")

LEMMA UpAtLast ==
  ASSUME LibInvariant, TypeOK', Unless({"drops"}), HandleStackStatus,
         lib_state # "LEAVE_NWK_IN_PROGRESS", Keep, Head(events).status = "NETWORK_UP"
  PROVE  ~UpForGood /\ UpForGood'
<1> USE Names, ReportsMoved
<1>1. Network /\ TypeOK
  BY DEF LibInvariant, NetworkUnlessDrops
<1>2. /\ UNCHANGED <<resetDot154ChannelAtInit, adapter>> /\ ReportsMove(1, "nothing")
      /\ events # <<>> /\ Head(events).event = "STACK_STATUS_HANDLER"
  BY <1>1, NetworkMoves DEF StatusActedOn, HandleStackStatus, Handling, initVars
<1>3. Reported("NETWORK_UP") /\ ~Reported("NETWORK_UP")'
  BY <1>1, <1>2, ReportAtHead DEF Network, UpOnce
<1> QED BY <1>1, <1>2, <1>3 DEF UpForGood, Network, UpOnce, Keep

LEMMA StaysUp ==
  ASSUME LibInvariant, LibInvariant', Unless({"drops"})', [Next \/ SinkTurn]_vars, UpForGood
  PROVE  UpForGood'
<1> USE Names, CommandsMoved, ReportsMoved
<1>1. TypeOK /\ TypeOK' /\ BeginningOver /\ ~Early
  BY DEF LibInvariant, Beginning, UpForGood
<1>2. CASE UNCHANGED vars \/ SinkTurn
  <2>1. UNCHANGED <<resetDot154ChannelAtInit, adapter, events>>
    BY <1>2 DEF vars, SinkTurn, initVars
  <2> QED BY <2>1 DEF UpForGood, Keep, Reported
<1> SUFFICES ASSUME Next PROVE UpForGood'
  BY <1>2
<1>3. Network /\ ~AdapterDrops
  BY MishapsStay DEF LibInvariant, NetworkUnlessDrops, Unless, AdapterDrops, Happens
<1>4. adapter.network # "none" /\ ~Queued("LEAVE_NETWORK") /\ ~Forms
  BY <1>3 DEF Network, Asked, UpOnce, FormsOnce, UpForGood
<1>5. CASE AsideFromNetwork
  <2>1. PICK d \in {0, 1} : ReportsMove(d, "nothing")
    BY <1>5 DEF AsideFromNetwork, ReportsMove, ComesFrom
  <2> QED BY <1>1, <1>5, <2>1 DEF AsideFromNetwork, UpForGood, Keep, initVars
<1>6. CASE NetworkStep
  <2>1. \/ Endpoints \/ NetworkStateAnswered \/ SecurityStateAnswered \/ FormNetworkAnswered
        \/ LeaveNetworkAnswered \/ StatusActedOn \/ AdapterLeaves
    BY <1>1, <1>3, <1>6, NetworkStepMoves
  <2>2. ~SecurityStateAnswered /\ ~FormNetworkAnswered /\ ~LeaveNetworkAnswered /\ ~AdapterLeaves
    BY <1>1, <1>4, CommandAtHead
       DEF SecurityStateAnswered, FormNetworkAnswered, LeaveNetworkAnswered, AdapterLeaves, Answered,
           Forms
  <2>3. CASE Endpoints
    <3>1. UNCHANGED <<adapter, events, resetDot154ChannelAtInit>>
      BY <1>1, <2>3, NetworkMoves DEF Endpoints, PlainAnswered, Restores, UpForGood, initVars
    <3> QED BY <3>1 DEF UpForGood, Keep, Reported
  <2>4. CASE NetworkStateAnswered
    <3>1. UNCHANGED <<adapter, events>> /\ (Keep => Keep')
      BY <1>4, <2>4 DEF NetworkStateAnswered, Keep
    <3> QED BY <3>1 DEF UpForGood, Reported
  <2>5. CASE StatusActedOn
    <3>1. UNCHANGED <<adapter, resetDot154ChannelAtInit>> /\ ReportsMove(1, "nothing")
      BY <1>1, <2>5, NetworkMoves DEF StatusActedOn, HandleStackStatus, initVars
    <3> QED BY <1>1, <3>1 DEF UpForGood, Keep
  <2> QED BY <2>1, <2>2, <2>3, <2>4, <2>5
<1> QED BY <1>1, <1>5, <1>6, OthersLeaveNetwork
=============================================================================

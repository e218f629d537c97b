-------------------------- MODULE GpReceiveProofs --------------------------
(***************************************************************************)
(* Theorems about GpReceive, for any devices and channels and any number   *)
(* of frames and changes of the channel.                                   *)
(***************************************************************************)
EXTENDS GpReceive, Queues

-----------------------------------------------------------------------------
(* Types.                                                                    *)

LEMMA HandleFacts ==
  /\ DefaultHandle \in Handles
  /\ \A h \in Handles : (h + 1) % 256 \in Handles /\ (h - 1) % 256 \in Handles
  /\ 255 \in Handles
<1>1. \A h \in Handles : (h + 1) % 256 \in Handles
  BY DEF Handles
<1>2. \A h \in Handles : (h - 1) % 256 \in Handles
  BY DEF Handles
<1> QED BY <1>1, <1>2 DEF Handles, DefaultHandle

LEMMA CommandFacts ==
  /\ AsksParameters[1] \in EzspCommands
  /\ \A c \in Channels : [cmd |-> "SET_RADIO_CHANNEL", channel |-> c] \in EzspCommands
  /\ \A c \in EzspCommands : c.cmd = "SET_RADIO_CHANNEL" => c.channel \in Channels
  /\ \A c \in EzspCommands : c.cmd = "D_GP_SEND" => c \in GpdCommand
  /\ \A c \in GpdCommand : c.handle \in Handles
  /\ [event |-> "CHANNEL_CHANGED"] \in Events
  /\ \A b \in BOOLEAN, h \in Handles :
       [event |-> "D_GP_SENT_HANDLER", success |-> b, handle |-> h] \in Events
BY DEF EzspCommands, GpdCommand, Events, AsksParameters

LEMMA GpSendType ==
  ASSUME TypeOK, frames < MaxFrames, NEW gpd \in Devices, NEW h \in Handles, NEW b \in BOOLEAN,
         GpSend(gpd, h, b)
  PROVE  commands' \in Seq(EzspCommands)
<1> DEFINE c == [cmd |-> "D_GP_SEND", gpd |-> gpd, channel |-> nwk_channel,
                 handle |-> h, number |-> frames + 1, switch |-> b]
<1>1. frames + 1 \in 1 .. MaxFrames
  BY ReceiveAssumption DEF TypeOK
<1>2. c \in EzspCommands
  BY <1>1 DEF TypeOK, EzspCommands, GpdCommand
<1>3. commands' = Append(commands, c)
  BY DEF GpSend
<1> QED BY <1>2, <1>3 DEF TypeOK

LEMMA HappensType ==
  ASSUME TypeOK, NEW M, Happens(M)
  PROVE  mishaps' \subseteq Mishaps
BY ReceiveAssumption DEF TypeOK, Happens

LEMMA InitType == Init => TypeOK
<1> SUFFICES ASSUME Init PROVE TypeOK
  OBVIOUS
<1>1. commands \in Seq(EzspCommands) /\ events \in Seq(Events)
  BY CommandFacts DEF Init, AsksParameters
<1>2. gpdSentLastHandlerNb \in Handles
  BY HandleFacts DEF Init
<1>3. nwk_channel \in Channels /\ radioChannel \in Channels
  BY ReceiveAssumption DEF Init
<1>4. frames \in 0 .. MaxFrames /\ changes \in 0 .. MaxChanges
  BY ReceiveAssumption DEF Init
<1> QED BY <1>1, <1>2, <1>3, <1>4 DEF Init, TypeOK

LEMMA IncomingType ==
  ASSUME TypeOK, NEW f \in Frame, HandleIncomingMessage(f)
  PROVE  TypeOK'
<1>1. f.gpd \in Devices
  BY DEF Frame
<1>2. frames < MaxFrames /\ frames' \in 0 .. MaxFrames
  BY ReceiveAssumption DEF TypeOK, HandleIncomingMessage
<1>3. UNCHANGED <<rxVars, adapterVars, events, changes>>
  BY DEF HandleIncomingMessage
<1>4. CASE ~f.secure /\ NoSecurity(f)
  <2>1. commands' \in Seq(EzspCommands) /\ mishaps' \subseteq Mishaps
    BY <1>1, <1>2, <1>4, GpSendType, HappensType, HandleFacts DEF NoSecurity, TypeOK
  <2> QED BY <1>2, <1>3, <1>4, <2>1 DEF NoSecurity, TypeOK, rxVars, adapterVars, switchVars
<1>5. CASE f.secure /\ KeyValid(f) /\ Security(f)
  <2>1. CASE f.is = "channel_switch" /\ MaySwitch
    <3>1. gpdSentLastHandlerNb' \in Handles
      BY <1>5, <2>1, HandleFacts DEF Security, NextHandle, TypeOK
    <3>2. GpSend(f.gpd, gpdSentLastHandlerNb', TRUE)
      BY <1>5, <2>1 DEF Security
    <3>3. commands' \in Seq(EzspCommands)
      BY <1>1, <1>2, <3>1, <3>2, GpSendType
    <3> QED BY <1>1, <1>2, <1>3, <1>5, <2>1, <3>1, <3>3
            DEF Security, TypeOK, rxVars, adapterVars, switchVars
  <2>2. CASE ~(f.is = "channel_switch" /\ MaySwitch)
    BY <1>2, <1>3, <1>5, <2>2 DEF Security, TypeOK, rxVars, adapterVars, switchVars
  <2> QED BY <2>1, <2>2
<1>6. CASE f.secure /\ ~KeyValid(f) /\ UNCHANGED <<switchVars, commands, mishaps>>
  BY <1>2, <1>3, <1>6 DEF TypeOK, rxVars, adapterVars, switchVars
<1> QED BY <1>4, <1>5, <1>6 DEF HandleIncomingMessage

LEMMA HandlersType ==
  ASSUME TypeOK, HandleEzspRxMessage
  PROVE  TypeOK'
<1> USE DEF rxVars, adapterVars, switchVars, counts
<1>1. CASE HandleGpSent
  <2>1. events' \in Seq(Events)
    BY <1>1, SeqFacts DEF HandleGpSent, HandleEvent, TypeOK
  <2>2. gpdSentLastHandlerNb' \in Handles
    BY <1>1, HandleFacts DEF HandleGpSent, TypeOK
  <2> QED BY <1>1, <2>1, <2>2 DEF HandleGpSent, TypeOK
<1>2. CASE HandleChannelChanged
  <2>1. events' \in Seq(Events)
    BY <1>2, SeqFacts DEF HandleChannelChanged, HandleEvent, TypeOK
  <2>2. commands' \in Seq(EzspCommands)
    BY <1>2, CommandFacts DEF HandleChannelChanged, TypeOK, AsksParameters
  <2> QED BY <1>2, <2>1, <2>2 DEF HandleChannelChanged, TypeOK
<1>3. CASE HandleNetworkParameters
  <2>1. commands' \in Seq(EzspCommands)
    BY <1>3, SeqFacts DEF HandleNetworkParameters, TypeOK
  <2>2. nwk_channel' \in Channels /\ mishaps' \subseteq Mishaps
    BY <1>3, HappensType DEF HandleNetworkParameters, TypeOK
  <2> QED BY <1>3, <2>1, <2>2 DEF HandleNetworkParameters, TypeOK
<1>4. CASE GpSendRefused
  <2>1. commands' \in Seq(EzspCommands) /\ mishaps' \subseteq Mishaps
    BY <1>4, SeqFacts, HappensType DEF GpSendRefused, NotSent, TypeOK
  <2> QED BY <1>4, <2>1 DEF GpSendRefused, TypeOK
<1> QED BY <1>1, <1>2, <1>3, <1>4 DEF HandleEzspRxMessage

LEMMA AdapterType ==
  ASSUME TypeOK,
         \/ AdapterExecutes
         \/ \E c \in gpTxQueue : AdapterTransmits(c) \/ AdapterGivesUp(c)
  PROVE  TypeOK'
<1> USE DEF rxVars, switchVars, counts
<1>1. CASE AdapterExecutes
  <2> DEFINE c == Head(commands)
  <2>1. c \in EzspCommands /\ commands' \in Seq(EzspCommands)
    BY <1>1, SeqFacts DEF AdapterExecutes, TypeOK
  <2>2. CASE c.cmd = "SET_RADIO_CHANNEL"
    <3>1. radioChannel' \in Channels /\ gpTxQueue' \subseteq GpdCommand
      BY <1>1, <2>1, <2>2, CommandFacts DEF AdapterExecutes, TypeOK
    <3>2. events' = Append(events, [event |-> "CHANNEL_CHANGED"])
      BY <1>1, <2>2 DEF AdapterExecutes
    <3>3. events' \in Seq(Events)
      BY <3>2, CommandFacts DEF TypeOK
    <3> QED BY <1>1, <2>1, <3>1, <3>3 DEF AdapterExecutes, TypeOK
  <2>3. CASE c.cmd = "D_GP_SEND"
    <3>1. gpTxQueue' \subseteq GpdCommand /\ radioChannel' \in Channels /\ events' \in Seq(Events)
      BY <1>1, <2>1, <2>3, CommandFacts DEF AdapterExecutes, TypeOK
    <3> QED BY <1>1, <2>1, <3>1 DEF AdapterExecutes, TypeOK
  <2> QED BY <1>1, <2>2, <2>3 DEF AdapterExecutes
<1>2. ASSUME NEW c \in gpTxQueue, AdapterTransmits(c) \/ AdapterGivesUp(c)
      PROVE  TypeOK'
  <2>1. c.handle \in Handles
    BY CommandFacts DEF TypeOK
  <2>2. \A b \in BOOLEAN :
          Append(events, [event |-> "D_GP_SENT_HANDLER", success |-> b, handle |-> c.handle])
            \in Seq(Events)
    BY <2>1, CommandFacts DEF TypeOK
  <2>4. events' \in Seq(Events)
    BY <1>2, <2>2 DEF AdapterTransmits, AdapterGivesUp, Reports
  <2>3. mishaps' \subseteq Mishaps
    BY <1>2, HappensType DEF AdapterTransmits, AdapterGivesUp, NotSent, TypeOK
  <2> QED BY <1>2, <2>3, <2>4 DEF AdapterTransmits, AdapterGivesUp, TypeOK
<1> QED BY <1>1, <1>2

LEMMA SetChannelType ==
  ASSUME TypeOK, NEW c \in Channels, SetChannel(c)
  PROVE  TypeOK'
<1>1. commands' \in Seq(EzspCommands)
  BY CommandFacts DEF SetChannel, TypeOK
<1> QED BY <1>1, ReceiveAssumption DEF SetChannel, TypeOK, rxVars, switchVars, adapterVars

(* Every variable of the sink's receiving side, of the command queue and of  *)
(* the adapter keeps its type; in particular the handle wraps within 0..255. *)
THEOREM ReceiveTypeCorrect == Spec => []TypeOK
<1>1. TypeOK /\ [Next]_vars => TypeOK'
  <2> SUFFICES ASSUME TypeOK, [Next]_vars PROVE TypeOK'
    OBVIOUS
  <2>1. CASE UNCHANGED vars
    BY <2>1 DEF vars, rxVars, switchVars, adapterVars, counts, TypeOK
  <2>2. CASE SetAnswerToGpfChannelRqstPolicy
    BY <2>2 DEF SetAnswerToGpfChannelRqstPolicy, switchVars, adapterVars, counts, TypeOK
  <2> QED BY <2>1, <2>2, IncomingType, HandlersType, AdapterType, SetChannelType DEF Next, Goes
<1> QED BY <1>1, InitType, PTL DEF Spec

-----------------------------------------------------------------------------
(* A change of the channel under way stays under way until the parameters    *)
(* are told.                                                                 *)

Changes(c) == c.cmd \in {"SET_RADIO_CHANNEL", "GET_NETWORK_PARAMETERS"}
Tells(e) == e.event = "CHANNEL_CHANGED"

LEMMA UnderWayIs ==
  ChangeUnderWay <=> \/ \E i \in 1 .. Len(commands) : Changes(commands[i])
                     \/ \E i \in 1 .. Len(events) : Tells(events[i])
BY DEF ChangeUnderWay, Changes, Tells

LEMMA UnderWayIsNext ==
  ChangeUnderWay' <=> \/ \E i \in 1 .. Len(commands') : Changes(commands'[i])
                      \/ \E i \in 1 .. Len(events') : Tells(events'[i])
BY DEF ChangeUnderWay, Changes, Tells

LEMMA ChangeKept ==
  ASSUME TypeOK, ChangeUnderWay,
         \/ UNCHANGED commands
         \/ \E x \in EzspCommands : commands' = Append(commands, x)
         \/ commands # <<>> /\ commands' = Tail(commands) /\ ~Changes(Head(commands)),
         \/ UNCHANGED events
         \/ \E x \in Events : events' = Append(events, x)
         \/ events # <<>> /\ events' = Tail(events) /\ ~Tells(Head(events))
  PROVE  ChangeUnderWay'
<1>1. CASE \E i \in 1 .. Len(commands) : Changes(commands[i])
  <2>1. PICK i \in 1 .. Len(commands) : Changes(commands[i])
    BY <1>1
  <2>2. ~Changes(Head(commands)) => commands[i] # Head(commands)
    BY <2>1
  <2>3. commands \in Seq(EzspCommands)
    BY DEF TypeOK
  <2>4. \E j \in 1 .. Len(commands') : commands'[j] = commands[i]
    BY <2>2, <2>3, StaysInQueue
  <2> QED BY <2>1, <2>4, UnderWayIsNext DEF Changes
<1>2. CASE \E i \in 1 .. Len(events) : Tells(events[i])
  <2>1. PICK i \in 1 .. Len(events) : Tells(events[i])
    BY <1>2
  <2>2. ~Tells(Head(events)) => events[i] # Head(events)
    BY <2>1
  <2>3. events \in Seq(Events)
    BY DEF TypeOK
  <2>4. \E j \in 1 .. Len(events') : events'[j] = events[i]
    BY <2>2, <2>3, StaysInQueue
  <2> QED BY <2>1, <2>4, UnderWayIsNext DEF Tells
<1> QED BY <1>1, <1>2, UnderWayIs

LEMMA MishapsStay == ASSUME TypeOK, Next PROVE mishaps \subseteq mishaps'
<1> SUFFICES ASSUME ~UNCHANGED mishaps PROVE \E M : Happens(M)
  BY DEF Happens
<1> QED
  BY DEF Next, Goes, HandleIncomingMessage, NoSecurity, Security, HandleEzspRxMessage,
         HandleGpSent, GpSendRefused, NotSent, HandleChannelChanged, HandleNetworkParameters,
         AdapterExecutes, AdapterTransmits, AdapterGivesUp, SetAnswerToGpfChannelRqstPolicy, SetChannel

LEMMA GpSendAppends ==
  ASSUME TypeOK, frames < MaxFrames, NEW gpd \in Devices, NEW h \in Handles, NEW b \in BOOLEAN,
         GpSend(gpd, h, b)
  PROVE  \E x \in EzspCommands : x.cmd = "D_GP_SEND" /\ commands' = Append(commands, x)
<1>1. frames + 1 \in 1 .. MaxFrames
  BY ReceiveAssumption DEF TypeOK
<1> QED BY <1>1 DEF GpSend, TypeOK, EzspCommands, GpdCommand

(* A frame from a device makes the sink queue at most one frame for it; a    *)
(* switch only if none was pending, and anything else is an answer.          *)
LEMMA IncomingSends ==
  ASSUME TypeOK, NEW f \in Frame, HandleIncomingMessage(f)
  PROVE  /\ UNCHANGED <<rxVars, adapterVars, events>>
         /\ \/ UNCHANGED <<commands, switchVars>>
            \/ /\ \E x \in EzspCommands : x.cmd = "D_GP_SEND" /\ commands' = Append(commands, x)
               /\ \/ "answers" \in mishaps'
                  \/ sentChannelSwitchSourceId = NoDevice /\ sentChannelSwitchSourceId' # NoDevice
<1>1. f.gpd \in Devices /\ f.gpd # NoDevice /\ frames < MaxFrames
  BY ReceiveAssumption DEF Frame, HandleIncomingMessage
<1>2. CASE ~f.secure /\ NoSecurity(f)
  <2>1. CASE GpSend(f.gpd, DefaultHandle, FALSE) /\ Happens({"answers"})
    BY <1>1, <2>1, HandleFacts, GpSendAppends DEF HandleIncomingMessage, Happens
  <2> QED BY <1>2, <2>1 DEF NoSecurity, HandleIncomingMessage
<1>3. CASE f.secure /\ KeyValid(f) /\ Security(f)
  <2>1. CASE f.is = "channel_switch" /\ MaySwitch
    <3>1. NextHandle \in Handles
      BY HandleFacts DEF NextHandle, TypeOK
    <3>2. gpdSentLastHandlerNb' \in Handles /\ GpSend(f.gpd, gpdSentLastHandlerNb', TRUE)
      BY <1>3, <2>1, <3>1 DEF Security
    <3>3. \E x \in EzspCommands : x.cmd = "D_GP_SEND" /\ commands' = Append(commands, x)
      BY <1>1, <3>2, GpSendAppends
    <3> QED BY <1>1, <1>3, <2>1, <3>3 DEF Security, MaySwitch, HandleIncomingMessage
  <2> QED BY <1>3, <2>1 DEF Security, HandleIncomingMessage
<1>4. CASE f.secure /\ ~KeyValid(f) /\ UNCHANGED <<switchVars, commands, mishaps>>
  BY <1>4 DEF HandleIncomingMessage
<1> QED BY <1>2, <1>3, <1>4 DEF HandleIncomingMessage

LEMMA Steers ==
  ASSUME TypeOK, SteersToNetwork, Next
  PROVE  SteersToNetwork'
<1>1. mishaps \subseteq mishaps'
  BY MishapsStay
<1>2. ASSUME \/ UNCHANGED commands
             \/ \E x \in EzspCommands : commands' = Append(commands, x)
             \/ commands # <<>> /\ commands' = Tail(commands) /\ ~Changes(Head(commands)),
             \/ UNCHANGED events
             \/ \E x \in Events : events' = Append(events, x)
             \/ events # <<>> /\ events' = Tail(events) /\ ~Tells(Head(events)),
             UNCHANGED <<nwk_channel, radioChannel>>
      PROVE  SteersToNetwork'
  BY <1>1, <1>2, ChangeKept DEF SteersToNetwork, Unless
<1>3. ASSUME NEW f \in Frame, HandleIncomingMessage(f) PROVE SteersToNetwork'
  BY <1>2, <1>3, IncomingSends DEF rxVars, adapterVars
<1>4. CASE HandleGpSent
  BY <1>2, <1>4 DEF HandleGpSent, HandleEvent, Tells, rxVars, adapterVars
<1>refused. CASE GpSendRefused
  BY <1>2, <1>refused DEF GpSendRefused, Changes, rxVars, adapterVars
<1>5. CASE HandleChannelChanged
  <2>1. commands' = Append(commands, [cmd |-> "GET_NETWORK_PARAMETERS"])
    BY <1>5 DEF HandleChannelChanged, AsksParameters, TypeOK
  <2>2. Changes(commands'[Len(commands) + 1]) /\ Len(commands) + 1 \in 1 .. Len(commands')
    BY <2>1 DEF Changes, TypeOK
  <2> QED BY <2>2, UnderWayIsNext DEF SteersToNetwork
<1>6. CASE HandleNetworkParameters
  BY <1>6 DEF HandleNetworkParameters, Happens, SteersToNetwork, Unless, adapterVars
<1>7. CASE SetAnswerToGpfChannelRqstPolicy
  BY <1>2, <1>7 DEF SetAnswerToGpfChannelRqstPolicy, adapterVars
<1>8. ASSUME NEW c \in Channels, SetChannel(c) PROVE SteersToNetwork'
  BY <1>2, <1>8, CommandFacts DEF SetChannel, rxVars, adapterVars
<1>9. CASE AdapterExecutes
  <2>1. CASE Head(commands).cmd = "SET_RADIO_CHANNEL"
    <3>1. events' = Append(events, [event |-> "CHANNEL_CHANGED"])
      BY <1>9, <2>1 DEF AdapterExecutes
    <3>2. Tells(events'[Len(events) + 1]) /\ Len(events) + 1 \in 1 .. Len(events')
      BY <3>1 DEF Tells, TypeOK
    <3> QED BY <3>2, UnderWayIsNext DEF SteersToNetwork
  <2>2. CASE Head(commands).cmd = "D_GP_SEND"
    BY <1>2, <1>9, <2>2 DEF AdapterExecutes, Changes, rxVars
  <2> QED BY <1>9, <2>1, <2>2 DEF AdapterExecutes
<1>10. ASSUME NEW c \in gpTxQueue, AdapterTransmits(c) \/ AdapterGivesUp(c)
       PROVE  SteersToNetwork'
  <2>1. c.handle \in Handles
    BY CommandFacts DEF TypeOK
  <2>2. \E x \in Events : events' = Append(events, x)
    BY <1>10, <2>1, CommandFacts DEF AdapterTransmits, AdapterGivesUp, Reports
  <2> QED BY <1>2, <1>10, <2>2 DEF AdapterTransmits, AdapterGivesUp, rxVars
<1> QED
  BY <1>3, <1>4, <1>refused, <1>5, <1>6, <1>7, <1>8, <1>9, <1>10 DEF Next, Goes, HandleEzspRxMessage

(* On any network, however often its channel changes and in whatever order   *)
(* the reports and answers come, the sink either believes in the channel of  *)
(* the network or is about to be told: no device is steered elsewhere for    *)
(* good (handleEzspRxMessage_STACK_STATUS_HANDLER).                          *)
THEOREM SteersDevices == Spec => []SteersToNetwork
<1>1. Init => SteersToNetwork
  <2> SUFFICES ASSUME Init PROVE SteersToNetwork
    OBVIOUS
  <2>1. 1 \in 1 .. Len(commands) /\ Changes(commands[1])
    BY DEF Init, Changes
  <2> QED BY <2>1, UnderWayIs DEF SteersToNetwork
<1>2. TypeOK /\ SteersToNetwork /\ [Next]_vars => SteersToNetwork'
  <2> SUFFICES ASSUME TypeOK, SteersToNetwork, [Next]_vars PROVE SteersToNetwork'
    OBVIOUS
  <2>1. CASE UNCHANGED vars
    BY <2>1 DEF vars, rxVars, adapterVars, SteersToNetwork, ChangeUnderWay, Unless
  <2> QED BY <2>1, Steers
<1> QED BY <1>1, <1>2, ReceiveTypeCorrect, PTL DEF Spec


-----------------------------------------------------------------------------
(* One frame for a device is under way at a time, unless a channel request   *)
(* is answered.                                                              *)

Reported == [event : {"D_GP_SENT_HANDLER"}, success : BOOLEAN, handle : Handles]

GpSends == PlacesOf(GpdCommand, commands)
GpSents == PlacesOf(Reported, events)

(* The inductive invariant: a frame for a device waits in the queue of       *)
(* CEzspDongle, or in the adapter, or its report waits to be handled; only   *)
(* one of these, and while one is, the sink remembers the device: it is this *)
(* that makes MaySwitch keep a second switch out.                            *)
OneFrameUnderWay ==
  /\ AtMostOne(GpSends) /\ AtMostOne(gpTxQueue) /\ AtMostOne(GpSents)
  /\ GpSends = {} \/ gpTxQueue = {}
  /\ GpSends = {} \/ GpSents = {}
  /\ gpTxQueue = {} \/ GpSents = {}
  /\ sentChannelSwitchSourceId = NoDevice => GpSends = {} /\ gpTxQueue = {} /\ GpSents = {}

LEMMA WhichOnes ==
  /\ \A c \in EzspCommands : c \in GpdCommand <=> c.cmd = "D_GP_SEND"
  /\ \A e \in Events : e \in Reported <=> e.event = "D_GP_SENT_HANDLER"
BY DEF EzspCommands, GpdCommand, Events, Reported

(* The queue of commands, after each way in which a step changes it.         *)
LEMMA CommandsAfter ==
  ASSUME TypeOK, AtMostOne(GpSends)
  PROVE  /\ \A x \in EzspCommands : commands' = Append(commands, x) =>
              IF x.cmd = "D_GP_SEND"
              THEN GpSends = {} => AtMostOne(GpSends') /\ GpSends' # {}
              ELSE GpSends' = GpSends
         /\ commands # <<>> /\ commands' = Tail(commands) =>
              /\ AtMostOne(GpSends')
              /\ GpSends = {} => GpSends' = {}
              /\ Head(commands).cmd = "D_GP_SEND" => GpSends # {} /\ GpSends' = {}
<1>1. commands \in Seq(EzspCommands)
  BY DEF TypeOK
<1>2. ASSUME NEW x \in EzspCommands, commands' = Append(commands, x)
      PROVE  GpSends' = GpSends \cup (IF x.cmd = "D_GP_SEND" THEN {Len(commands) + 1} ELSE {})
  <2>1. PlacesOf(GpdCommand, Append(commands, x))
          = PlacesOf(GpdCommand, commands) \cup (IF x \in GpdCommand THEN {Len(commands) + 1} ELSE {})
    BY <1>1, PlacesAppend
  <2> QED BY <1>2, <2>1, WhichOnes DEF GpSends
<1>3. ASSUME commands # <<>>, commands' = Tail(commands)
      PROVE  /\ AtMostOne(GpSends')
             /\ GpSends = {} => GpSends' = {}
             /\ Head(commands).cmd = "D_GP_SEND" => GpSends # {} /\ GpSends' = {}
  <2>1. Head(commands) \in EzspCommands
    BY <1>1, <1>3, SeqFacts
  <2> QED BY <1>1, <1>3, <2>1, WhichOnes, PlacesTail DEF GpSends
<1> QED BY <1>2, <1>3 DEF AtMostOne

(* The same of the reports of the adapter.                                   *)
LEMMA EventsAfter ==
  ASSUME TypeOK, AtMostOne(GpSents)
  PROVE  /\ \A x \in Events : events' = Append(events, x) =>
              IF x.event = "D_GP_SENT_HANDLER"
              THEN GpSents = {} => AtMostOne(GpSents') /\ GpSents' # {}
              ELSE GpSents' = GpSents
         /\ events # <<>> /\ events' = Tail(events) =>
              /\ AtMostOne(GpSents')
              /\ GpSents = {} => GpSents' = {}
              /\ Head(events).event = "D_GP_SENT_HANDLER" => GpSents # {} /\ GpSents' = {}
<1>1. events \in Seq(Events)
  BY DEF TypeOK
<1>2. ASSUME NEW x \in Events, events' = Append(events, x)
      PROVE  GpSents' = GpSents \cup (IF x.event = "D_GP_SENT_HANDLER" THEN {Len(events) + 1} ELSE {})
  <2>1. PlacesOf(Reported, Append(events, x))
          = PlacesOf(Reported, events) \cup (IF x \in Reported THEN {Len(events) + 1} ELSE {})
    BY <1>1, PlacesAppend
  <2> QED BY <1>2, <2>1, WhichOnes DEF GpSents
<1>3. ASSUME events # <<>>, events' = Tail(events)
      PROVE  /\ AtMostOne(GpSents')
             /\ GpSents = {} => GpSents' = {}
             /\ Head(events).event = "D_GP_SENT_HANDLER" => GpSents # {} /\ GpSents' = {}
  <2>1. Head(events) \in Events
    BY <1>1, <1>3, SeqFacts
  <2> QED BY <1>1, <1>3, <2>1, WhichOnes, PlacesTail DEF GpSents
<1> QED BY <1>2, <1>3 DEF AtMostOne

LEMMA OneFrameStep ==
  ASSUME TypeOK, OneFrameUnderWay, Next, "answers" \notin mishaps'
  PROVE  OneFrameUnderWay'
<1>0. AtMostOne(GpSends) /\ AtMostOne(GpSents)
  BY DEF OneFrameUnderWay
<1>same. /\ UNCHANGED commands => UNCHANGED GpSends
         /\ UNCHANGED events => UNCHANGED GpSents
  BY DEF GpSends, GpSents
<1>1. ASSUME NEW f \in Frame, HandleIncomingMessage(f) PROVE OneFrameUnderWay'
  <2>1. UNCHANGED <<gpTxQueue, events>>
    BY <1>1, IncomingSends DEF adapterVars
  <2>2. CASE UNCHANGED <<commands, switchVars>>
    BY <2>1, <2>2, <1>same DEF OneFrameUnderWay, switchVars, AtMostOne
  <2>3. ASSUME NEW x \in EzspCommands, x.cmd = "D_GP_SEND", commands' = Append(commands, x),
               sentChannelSwitchSourceId = NoDevice, sentChannelSwitchSourceId' # NoDevice
        PROVE  OneFrameUnderWay'
    <3>1. GpSends = {} /\ gpTxQueue = {} /\ GpSents = {}
      BY <2>3 DEF OneFrameUnderWay
    <3>2. AtMostOne(GpSends') /\ gpTxQueue' = {} /\ GpSents' = {}
      BY <1>0, <1>same, <2>1, <2>3, <3>1, CommandsAfter
    <3> QED BY <2>3, <3>2 DEF OneFrameUnderWay, AtMostOne
  <2> QED BY <1>1, <2>2, <2>3, IncomingSends
<1>2. CASE HandleGpSent
  <2>1. GpSents # {} /\ GpSents' = {}
    BY <1>0, <1>2, EventsAfter DEF HandleGpSent, HandleEvent
  <2>2. UNCHANGED <<GpSends, gpTxQueue>>
    BY <1>2, <1>same DEF HandleGpSent, adapterVars
  <2> QED BY <2>1, <2>2 DEF OneFrameUnderWay, AtMostOne
<1>refused. CASE GpSendRefused
  <2>1. AtMostOne(GpSends') /\ (GpSends = {} => GpSends' = {})
    BY <1>0, <1>refused, CommandsAfter DEF GpSendRefused
  <2> QED BY <1>refused, <1>same, <2>1
          DEF GpSendRefused, OneFrameUnderWay, adapterVars, switchVars, AtMostOne
<1>3. CASE HandleChannelChanged
  <2>1. AtMostOne(GpSents') /\ (GpSents = {} => GpSents' = {})
    BY <1>0, <1>3, EventsAfter DEF HandleChannelChanged, HandleEvent
  <2>2. commands' = Append(commands, AsksParameters[1])
    BY <1>3 DEF HandleChannelChanged, AsksParameters, TypeOK
  <2>3. AsksParameters[1] \in EzspCommands /\ AsksParameters[1].cmd # "D_GP_SEND"
    BY CommandFacts DEF AsksParameters
  <2>4. UNCHANGED GpSends
    BY <1>0, <2>2, <2>3, CommandsAfter
  <2> QED BY <1>3, <2>1, <2>4 DEF HandleChannelChanged, OneFrameUnderWay, adapterVars, switchVars, AtMostOne
<1>4. CASE HandleNetworkParameters
  <2>1. AtMostOne(GpSends') /\ (GpSends = {} => GpSends' = {})
    BY <1>0, <1>4, CommandsAfter DEF HandleNetworkParameters
  <2> QED BY <1>4, <1>same, <2>1
          DEF HandleNetworkParameters, OneFrameUnderWay, adapterVars, switchVars, AtMostOne
<1>5. CASE SetAnswerToGpfChannelRqstPolicy
  BY <1>5, <1>same DEF SetAnswerToGpfChannelRqstPolicy, adapterVars, switchVars, OneFrameUnderWay, AtMostOne
<1>6. ASSUME NEW c \in Channels, SetChannel(c) PROVE OneFrameUnderWay'
  <2>1. UNCHANGED GpSends
    BY <1>0, <1>6, CommandFacts, CommandsAfter DEF SetChannel
  <2> QED BY <1>6, <1>same, <2>1 DEF SetChannel, adapterVars, switchVars, OneFrameUnderWay, AtMostOne
<1>7. CASE AdapterExecutes
  <2>0. UNCHANGED sentChannelSwitchSourceId
    BY <1>7 DEF AdapterExecutes, switchVars
  <2>1. CASE Head(commands).cmd = "SET_RADIO_CHANNEL"
    <3>1. AtMostOne(GpSends') /\ (GpSends = {} => GpSends' = {})
      BY <1>0, <1>7, CommandsAfter DEF AdapterExecutes
    <3>2. UNCHANGED <<GpSents, gpTxQueue>>
      BY <1>0, <1>7, <2>1, CommandFacts, EventsAfter DEF AdapterExecutes
    <3> QED BY <2>0, <3>1, <3>2 DEF OneFrameUnderWay, AtMostOne
  <2>2. CASE Head(commands).cmd = "D_GP_SEND"
    <3>1. GpSends # {} /\ GpSends' = {}
      BY <1>0, <1>7, <2>2, CommandsAfter DEF AdapterExecutes
    <3>2. gpTxQueue' = {Head(commands)} /\ UNCHANGED GpSents
      BY <1>7, <1>same, <2>2, <3>1 DEF AdapterExecutes, OneFrameUnderWay
    <3> QED BY <2>0, <3>1, <3>2 DEF OneFrameUnderWay, AtMostOne
  <2> QED BY <1>7, <2>1, <2>2 DEF AdapterExecutes
<1>8. ASSUME NEW c \in gpTxQueue, AdapterTransmits(c) \/ AdapterGivesUp(c)
      PROVE  OneFrameUnderWay'
  <2>1. c.handle \in Handles
    BY CommandFacts DEF TypeOK
  <2>2. GpSents = {} /\ GpSends = {} /\ sentChannelSwitchSourceId # NoDevice
    BY DEF OneFrameUnderWay
  <2>3. AtMostOne(GpSents')
    BY <1>0, <1>8, <2>1, <2>2, CommandFacts, EventsAfter DEF AdapterTransmits, AdapterGivesUp, Reports
  <2>4. gpTxQueue' = {}
    BY <1>8 DEF AdapterTransmits, AdapterGivesUp, OneFrameUnderWay, AtMostOne
  <2> QED BY <1>8, <1>same, <2>2, <2>3, <2>4
          DEF AdapterTransmits, AdapterGivesUp, OneFrameUnderWay, switchVars, AtMostOne
<1> QED
  BY <1>1, <1>2, <1>refused, <1>3, <1>4, <1>5, <1>6, <1>7, <1>8
  DEF Next, Goes, HandleEzspRxMessage

LEMMA OneFrameIsOneSwitch ==
  ASSUME TypeOK, OneFrameUnderWay
  PROVE  OneSwitchAtATime
<1>1. \A c \in Switching : \/ c \in gpTxQueue
                           \/ \E i \in GpSends : c = commands[i]
  <2>1. \A i \in 1 .. Len(commands) : IsSwitch(commands[i]) => i \in GpSends
    BY SeqFacts, WhichOnes DEF TypeOK, IsSwitch, GpSends, PlacesOf
  <2> QED BY <2>1 DEF Switching
<1> QED BY <1>1 DEF OneSwitchAtATime, OneFrameUnderWay, AtMostOne

(* "EZSP adapters cannot handle two requests simultaneously": whatever the   *)
(* devices ask for, the adapter gives up on, and the host changes, a channel *)
(* switch is given to the adapter only when no other is under way, as long   *)
(* as no channel request was answered (that frame has another handle, and    *)
(* the sink does not wait for it).                                           *)
THEOREM OneSwitch == Spec => []OneSwitchUnlessAnswering
<1> DEFINE IInv == Unless({"answers"}) => OneFrameUnderWay
<1>1. Init => IInv
  <2> SUFFICES ASSUME Init PROVE OneFrameUnderWay
    OBVIOUS
  <2>1. GpSends = {} /\ GpSents = {}
    BY DEF Init, GpSends, GpSents, PlacesOf, GpdCommand
  <2> QED BY <2>1 DEF Init, OneFrameUnderWay, AtMostOne
<1>2. TypeOK /\ IInv /\ [Next]_vars => IInv'
  <2> SUFFICES ASSUME TypeOK, IInv, [Next]_vars, "answers" \notin mishaps'
               PROVE  OneFrameUnderWay'
    BY DEF Unless
  <2>1. CASE UNCHANGED vars
    BY <2>1 DEF vars, switchVars, adapterVars, Unless, OneFrameUnderWay, AtMostOne, GpSends, GpSents
  <2>2. CASE Next
    BY <2>2, MishapsStay, OneFrameStep DEF Unless
  <2> QED BY <2>1, <2>2
<1>3. TypeOK /\ IInv => OneSwitchUnlessAnswering
  BY OneFrameIsOneSwitch DEF OneSwitchUnlessAnswering
<1> QED BY <1>1, <1>2, <1>3, ReceiveTypeCorrect, PTL DEF Spec

=============================================================================

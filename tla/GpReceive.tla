----------------------------- MODULE GpReceive -----------------------------
(***************************************************************************)
(* What CGpSink does by itself with Green Power frames in the default      *)
(* build: it steers devices to the channel of the network.  (What it tells *)
(* its observers changes nothing here; commissioning is in GpSink.)        *)
(*                                                                         *)
(* Commands go through CEzspDongle (see CommandQueue); the adapter         *)
(* transmits what it was given when the device listens, gives up on it, or *)
(* refuses it.                                                             *)
(***************************************************************************)
EXTENDS Integers, Sequences

CONSTANTS
  Devices,      \* source IDs
  Channels,     \* 802.15.4 channels, the one of CEmberNetworkParameters() among them
  Env,          \* which mishaps this instance contains
  MaxFrames,    \* bound: frames that come from devices
  MaxChanges    \* bound: changes of the channel

NoDevice == 0            \* sentChannelSwitchSourceId
DefaultChannel == 11     \* of CEmberNetworkParameters()
Handles == 0 .. 255
DefaultHandle == 0       \* of gpSend()

Mishaps == {
  "answers",    \* an answer to a channel request is given to the adapter
  "givesUp",    \* no device listens for as long as the frame of a switch is kept
  "refusesSend",  \* the adapter refuses the frame of a switch (D_GP_SEND)
  "refuses"}    \* the adapter refuses to tell its parameters

ASSUME ReceiveAssumption ==
  /\ NoDevice \notin Devices
  /\ DefaultChannel \in Channels /\ Channels \subseteq 11 .. 26
  /\ Env \subseteq Mishaps
  /\ MaxFrames \in Nat /\ MaxChanges \in Nat

VARIABLES
  nwk_channel,                \* nwk_parameters.getRadioChannel()
  authorizeGpfChannelRqst,
  sentChannelSwitchSourceId,
  gpdSentLastHandlerNb,
  commands,                   \* the queue of CEzspDongle
  events,                     \* what the adapter reported and was not handled yet
  radioChannel,               \* of the adapter (external)
  gpTxQueue,                  \* of the adapter: frames for devices (external)
  mishaps,    \* history: the mishaps so far
  frames, changes    \* history: how many frames and changes so far

rxVars == <<nwk_channel, authorizeGpfChannelRqst>>
switchVars == <<sentChannelSwitchSourceId, gpdSentLastHandlerNb>>
adapterVars == <<radioChannel, gpTxQueue>>
counts == <<frames, changes>>
vars == <<rxVars, switchVars, adapterVars, commands, events, mishaps, counts>>

-----------------------------------------------------------------------------
(* A frame as CGpFrame and handleEzspRxMessage_INCOMING_MESSAGE_HANDLER see  *)
(* it; `next` is the channel on which the sender of a channel request will   *)
(* listen.                                                                   *)
Frame == [gpd : Devices, secure : BOOLEAN,
          status : {"SUCCESS", "WRONG_MIC", "OTHER"},
          is : {"channel_request", "channel_switch", "report"}, next : Channels]

(* A frame for a device: `number` tells transmissions apart.                 *)
GpdCommand == [cmd : {"D_GP_SEND"}, gpd : Devices, channel : Channels,
               handle : Handles, number : 1 .. MaxFrames, switch : BOOLEAN]

EzspCommands == GpdCommand \cup [cmd : {"GET_NETWORK_PARAMETERS"}]
                \cup [cmd : {"SET_RADIO_CHANNEL"}, channel : Channels]

Events == [event : {"CHANNEL_CHANGED"}]
          \cup [event : {"D_GP_SENT_HANDLER"}, success : BOOLEAN, handle : Handles]

TypeOK ==
  /\ nwk_channel \in Channels /\ radioChannel \in Channels
  /\ authorizeGpfChannelRqst \in BOOLEAN
  /\ sentChannelSwitchSourceId \in Devices \cup {NoDevice}
  /\ gpdSentLastHandlerNb \in Handles
  /\ commands \in Seq(EzspCommands)
  /\ events \in Seq(Events)
  /\ gpTxQueue \subseteq GpdCommand
  /\ mishaps \subseteq Mishaps
  /\ frames \in 0 .. MaxFrames /\ changes \in 0 .. MaxChanges

(* After CGpSink::init(), on a network that may be on any channel.           *)
Init ==
  /\ nwk_channel = DefaultChannel
  /\ authorizeGpfChannelRqst = FALSE
  /\ sentChannelSwitchSourceId = NoDevice
  /\ gpdSentLastHandlerNb = 255    \* -1 in a uint8_t
  /\ commands = <<[cmd |-> "GET_NETWORK_PARAMETERS"]>>
  /\ events = <<>>
  /\ radioChannel \in Channels
  /\ gpTxQueue = {}
  /\ mishaps = {}
  /\ frames = 0 /\ changes = 0

-----------------------------------------------------------------------------
Happens(M) == M \subseteq Env /\ mishaps' = mishaps \cup M

GpSend(gpd, handle, switch) ==
  commands' = Append(commands, [cmd |-> "D_GP_SEND", gpd |-> gpd, channel |-> nwk_channel,
                                handle |-> handle, number |-> frames + 1, switch |-> switch])

(* Without security only a channel request matters here (a commissioning     *)
(* frame is in GpSink); it is answered if its sender will listen on our      *)
(* channel.                                                                  *)
NoSecurity(f) ==
  /\ IF f.is = "channel_request" /\ authorizeGpfChannelRqst /\ f.next = nwk_channel
     THEN GpSend(f.gpd, DefaultHandle, FALSE) /\ Happens({"answers"})
     ELSE UNCHANGED <<commands, mishaps>>
  /\ UNCHANGED switchVars

NextHandle == (gpdSentLastHandlerNb + 1) % 256

(* Mutant: a switch is not refused while another one is under way.           *)
SwitchesAlways == TRUE

MaySwitch == sentChannelSwitchSourceId = NoDevice

Security(f) ==
  /\ IF f.is = "channel_switch" /\ MaySwitch
     THEN /\ gpdSentLastHandlerNb' = NextHandle
          /\ sentChannelSwitchSourceId' = f.gpd
          /\ GpSend(f.gpd, gpdSentLastHandlerNb', TRUE)
     ELSE UNCHANGED <<switchVars, commands>>
  /\ UNCHANGED mishaps

KeyValid(f) == f.status = "SUCCESS"

HandleIncomingMessage(f) ==
  /\ frames < MaxFrames /\ frames' = frames + 1
  /\ \/ ~f.secure /\ NoSecurity(f)
     \/ f.secure /\ KeyValid(f) /\ Security(f)
     \/ f.secure /\ ~KeyValid(f) /\ UNCHANGED <<switchVars, commands, mishaps>>
  /\ UNCHANGED <<rxVars, adapterVars, events, changes>>

HandleEvent(e) == events # <<>> /\ Head(events).event = e /\ events' = Tail(events)

(* Mutant: the handle of the next transmission is expected.                  *)
OursNext(handle) == handle = (gpdSentLastHandlerNb + 1) % 256

Ours(handle) == handle = gpdSentLastHandlerNb

(* A failure is logged only.                                                 *)
HandleGpSent ==
  /\ HandleEvent("D_GP_SENT_HANDLER")
  /\ LET e == Head(events)
     IN IF e.success /\ Ours(e.handle) /\ sentChannelSwitchSourceId # NoDevice
        THEN /\ sentChannelSwitchSourceId' = NoDevice
             /\ gpdSentLastHandlerNb' = (gpdSentLastHandlerNb - 1) % 256
        ELSE UNCHANGED switchVars
  /\ UNCHANGED <<rxVars, adapterVars, commands, mishaps, counts>>

(* Mutant: a change of the channel is not followed.                          *)
AsksNothing == <<>>

AsksParameters == <<[cmd |-> "GET_NETWORK_PARAMETERS"]>>

HandleChannelChanged ==
  /\ HandleEvent("CHANNEL_CHANGED")
  /\ commands' = commands \o AsksParameters
  /\ UNCHANGED <<rxVars, switchVars, adapterVars, mishaps, counts>>

HandleNetworkParameters ==
  /\ commands # <<>> /\ Head(commands).cmd = "GET_NETWORK_PARAMETERS"
  /\ commands' = Tail(commands)
  /\ \/ nwk_channel' = radioChannel /\ UNCHANGED mishaps
     \/ Happens({"refuses"}) /\ UNCHANGED nwk_channel
  /\ UNCHANGED <<authorizeGpfChannelRqst, switchVars, adapterVars, events, counts>>

SetAnswerToGpfChannelRqstPolicy ==
  /\ ~authorizeGpfChannelRqst
  /\ authorizeGpfChannelRqst' = TRUE
  /\ UNCHANGED <<nwk_channel, switchVars, adapterVars, commands, events, mishaps, counts>>

SetChannel(c) ==
  /\ changes < MaxChanges /\ changes' = changes + 1
  /\ commands' = Append(commands, [cmd |-> "SET_RADIO_CHANNEL", channel |-> c])
  /\ UNCHANGED <<rxVars, switchVars, adapterVars, events, mishaps, frames>>

-----------------------------------------------------------------------------
(* The adapter (external).                                                   *)
AdapterExecutes ==
  /\ commands # <<>> /\ commands' = Tail(commands)
  /\ LET c == Head(commands)
     IN \/ /\ c.cmd = "SET_RADIO_CHANNEL"
           /\ radioChannel' = c.channel
           /\ events' = Append(events, [event |-> "CHANNEL_CHANGED"])
           /\ UNCHANGED gpTxQueue
        \/ /\ c.cmd = "D_GP_SEND"
           /\ gpTxQueue' = gpTxQueue \cup {c}
           /\ UNCHANGED <<radioChannel, events>>
  /\ UNCHANGED <<rxVars, switchVars, mishaps, counts>>

(* A frame that the adapter does not transmit; history if it is a switch.    *)
NotSent(how, c) == how \in Env /\ Happens(IF c.switch THEN {how} ELSE {})

(* The status of the response to D_GP_SEND is logged only.                   *)
GpSendRefused ==
  /\ commands # <<>> /\ Head(commands).cmd = "D_GP_SEND"
  /\ NotSent("refusesSend", Head(commands))
  /\ commands' = Tail(commands)
  /\ UNCHANGED <<rxVars, switchVars, adapterVars, events, counts>>

Reports(success, handle) ==
  events' = Append(events, [event |-> "D_GP_SENT_HANDLER", success |-> success,
                            handle |-> handle])

AdapterTransmits(c) ==
  /\ gpTxQueue' = gpTxQueue \ {c}
  /\ Reports(TRUE, c.handle)
  /\ UNCHANGED <<rxVars, switchVars, radioChannel, commands, mishaps, counts>>

AdapterGivesUp(c) ==
  /\ NotSent("givesUp", c)
  /\ gpTxQueue' = gpTxQueue \ {c}
  /\ Reports(FALSE, c.handle)
  /\ UNCHANGED <<rxVars, switchVars, radioChannel, commands, counts>>

-----------------------------------------------------------------------------
HandleEzspRxMessage ==
  HandleGpSent \/ GpSendRefused \/ HandleChannelChanged \/ HandleNetworkParameters

Goes ==
  \/ HandleEzspRxMessage \/ AdapterExecutes
  \/ \E c \in gpTxQueue : AdapterTransmits(c) \/ AdapterGivesUp(c)

Next ==
  \/ Goes
  \/ \E f \in Frame : HandleIncomingMessage(f)
  \/ SetAnswerToGpfChannelRqstPolicy
  \/ \E c \in Channels : SetChannel(c)

(* CEzspDongle completes commands, and the adapter does not keep a frame     *)
(* longer than its life time.                                                *)
Spec == Init /\ [][Next]_vars
FairSpec == Spec /\ WF_vars(Goes)

-----------------------------------------------------------------------------
(* Properties.                                                               *)

Unless(M) == mishaps \cap M = {}

IsSwitch(c) == c.cmd = "D_GP_SEND" /\ c.switch

(* The channel switches that the adapter has, or will be given.              *)
Switching == {c \in gpTxQueue : c.switch}
             \cup {commands[i] : i \in {j \in 1 .. Len(commands) : IsSwitch(commands[j])}}

(* "EZSP adapters cannot handle two requests simultaneously"                 *)
(* (green-power-sink.cpp:272): never two channel switches at once.           *)
OneSwitchAtATime == \A c, d \in Switching : c = d

(* So it is, as long as no channel request was answered.                     *)
OneSwitchUnlessAnswering == Unless({"answers"}) => OneSwitchAtATime

(* "There is already a channel switch ongoing" (green-power-sink.cpp:272):    *)
(* so it says of sentChannelSwitchSourceId, and the switch ends, unless the  *)
(* adapter gave up on the frame of a switch or refused to take one: the code *)
(* logs both only, and no switch is ever accepted again.                     *)
SwitchEnds ==
  sentChannelSwitchSourceId # NoDevice ~>
    sentChannelSwitchSourceId = NoDevice \/ ~Unless({"givesUp", "refusesSend"})

(* Nothing tells the sink of another channel than the one it believes in:    *)
(* devices are then steered to the channel the network is on.                *)
ChangeUnderWay ==
  \/ \E i \in 1 .. Len(commands) : commands[i].cmd \in {"SET_RADIO_CHANNEL",
                                                        "GET_NETWORK_PARAMETERS"}
  \/ \E i \in 1 .. Len(events) : events[i].event = "CHANNEL_CHANGED"

SteersToNetwork == ChangeUnderWay \/ nwk_channel = radioChannel \/ ~Unless({"refuses"})

=============================================================================

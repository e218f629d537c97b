\* Two devices, two channels, three frames: a switch, an answer to a channel
\* request, and another switch.
CONSTANTS
  Devices = {1, 2}
  Channels = {11, 15}
  Env = {"answers", "givesUp", "refusesSend", "refuses"}
  MaxFrames = 3
  MaxChanges = 1
SPECIFICATION FairSpec
INVARIANTS OneSwitchUnlessAnswering SteersToNetwork
PROPERTY SwitchEnds
CHECK_DEADLOCK FALSE

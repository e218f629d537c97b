SPECIFICATION Spec
CONSTANTS
  old = old
  new = new
  Channels = {26}
  Versions = {8}
  LibEnv = {"launch", "scanRefused"}
  Devices = {old, new}
  NoDevice = NoDevice
  SinkSize = 2
  ProxySize = 2
  SinkEnv = {"overlap", "setFails"}
  MaxList = 2
  MaxOps = 5
INVARIANT DevicesAsAsked
PROPERTIES SinkAsSpecified GetsThere MainReturns
CHECK_DEADLOCK FALSE

\* Every mishap, in any order.
CONSTANTS
  Devices = {d1, d2, d3}
  NoDevice = none
  SinkSize = 2
  ProxySize = 2
  Env = {"overlap", "refused", "full", "setFails", "networkUp", "secondClear"}
  MaxList = 2
  MaxOps = 4
SPECIFICATION FairSpec
INVARIANTS SomethingUnderWay AddTakesEffectAlone RemovalTakesEffect
PROPERTY LibGetsReady
CHECK_DEADLOCK FALSE

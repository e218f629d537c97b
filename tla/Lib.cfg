\* Every mishap, in any order.
CONSTANTS
  Channels = {15}
  Versions = {5, 6, 8, 9}
  Env = {"earlyReady", "wrongType", "cutVersion", "downFirst", "leaveRefused", "formRefused", "scanRefused", "drops", "earlyScan", "scanInCallback", "keyTwice", "launch", "earlyLaunch"}
  MaxOps = 2
SPECIFICATION FairSpec
INVARIANTS ReadyOnWantedNetwork ScanCallbackAfterScan ScanUnderWay
PROPERTIES InitConcludes AcceptedIsAnswered
CHECK_DEADLOCK FALSE

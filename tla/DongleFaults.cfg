\* Any two misfortunes, in any order and at any moment.
CONSTANTS
  Commands = {c1}
  Callbacks = {h1}
  Launch = launch
  Env = {"write", "noise", "retransmit", "ncpReset", "reset", "early", "slowBoot"}
  FrmMod = 2
  LinkCap = 1
  MaxExecuted = 3
  MaxFaults = 2
  MaxCommands = 2
  MaxChunk = 2
SPECIFICATION Spec
INVARIANTS FrontIsLastSent WaitingUnlessRefused ExecutedOnceInOrder
PROPERTY NoAshInUpgrade
CHECK_DEADLOCK FALSE

\* A line without faults, two kinds of commands and the one that launches the
\* bootloader; the adapter is found running its application or at its prompt.
CONSTANTS
  Commands = {c1, c2}
  Callbacks = {h1}
  Launch = launch
  Env = {}
  FrmMod = 2
  LinkCap = 1
  MaxExecuted = 3
  MaxFaults = 0
  MaxCommands = 3
  MaxChunk = 2
SPECIFICATION FairSpec
PROPERTIES KeepsPromise EveryCommandCompletes
CHECK_DEADLOCK FALSE

\* One user thread and the reader.
CONSTANTS
  Commands = {a, b}
  MaxCommands = 3
  Users = {u1}
  Reader = reader
  NoThread = none
  FrmMod = 2
SPECIFICATION FairSpec
PROPERTY ReaderCanWrite
CHECK_DEADLOCK FALSE

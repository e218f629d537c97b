\* Two user threads and the reader issue three commands of two frame IDs.
CONSTANTS
  Commands = {a, b}
  MaxCommands = 3
  Users = {u1, u2}
  Reader = reader
  NoThread = none
  FrmMod = 2
SPECIFICATION Spec
INVARIANTS FramesInSequence FirstExecutedInOrder CompletedUnlessMixedUp
CHECK_DEADLOCK FALSE

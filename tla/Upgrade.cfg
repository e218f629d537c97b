\* Up to two calls of setMode(), a write that fails, uploads of two 'C's, room for
\* two menus in transit.
CONSTANTS
  MaxSetModes = 2
  MaxWriteFails = 1
  MaxReadyChars = 2
  MaxLine = 10
SPECIFICATION FairSpec
INVARIANT AnswersOnce
PROPERTY ModeIsReached
CHECK_DEADLOCK FALSE

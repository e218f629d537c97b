\* Three frames, one hit of noise, chunks cut anywhere, a buffer that two frames
\* run together overflow.
CONSTANTS
  Sendable <- MCSendable
  ASH_MAX_LENGTH = 8
  MaxNoise = 1
SPECIFICATION Spec
INVARIANTS OnlySentInOrder LosesFew ChunksDoNotMatter
CHECK_DEADLOCK FALSE

\* A timer that is started four times.
CONSTANT MaxStarts = 4
SPECIFICATION TimerFairSpec
INVARIANTS NoStaleThread NeverTerminates
PROPERTIES CallReturns Fires
CHECK_DEADLOCK FALSE

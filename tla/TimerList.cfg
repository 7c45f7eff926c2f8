CONSTANTS
  Timers = {t1, t2, t3, t4}
  NULL = NULL
  Times <- MCTimes
SPECIFICATION ListSpec
INVARIANTS ListWellFormed
PROPERTIES ImplementsTimerQueue
CHECK_DEADLOCK FALSE

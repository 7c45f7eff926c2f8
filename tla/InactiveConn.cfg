CONSTANTS
  c1 = c1
  c2 = c2
  Conns = {c1, c2}
  TIMESLOT = 1
  ReadSize = 2
  Listen = Listen
  Pipe = Pipe
  MaxBacklog = 2
  MaxUnread <- MCMaxUnread
  Orphans = {o1}
SPECIFICATION Spec
INVARIANTS TimerPerConnection AlarmIsUnderWay
PROPERTIES NoneOverdueAfterTick SilentIsClosed TermStops
CHECK_DEADLOCK FALSE

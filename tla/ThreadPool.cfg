CONSTANTS
  Producers = {p1, p2}
  Workers = {w1, w2}
  Requests = {a, b}
  Null = Null
  NoThread = NoThread
  MaxRequests = 2
  Destroyed = TRUE
SPECIFICATION Spec
INVARIANTS TypeOK WakeupsMatchRequests WokenFindsRequest
PROPERTIES ImplementsTaskPool AppendReturns
CHECK_DEADLOCK FALSE

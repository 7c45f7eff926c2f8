CONSTANTS
  NoThread = NoThread
  Producers = {p1, p2}
  Consumers = {c1, c2}
  workA = p1
  workB = c1
  Places = 2
  Rounds = 2
  Tickets = 3
  MaxNodes = 3
SPECIFICATION AnySpec
INVARIANTS NodesAreAccountedFor SemaphoresAccount NoUpdateIsLost OnlyCrossedLocksBlock
PROPERTIES ImplementsStack EveryThreadGoesOn
CHECK_DEADLOCK FALSE

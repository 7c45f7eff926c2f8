CONSTANTS
  Children = {c1, c2, c3}
  Forks = 3
  FdLimit = 5
  MaxBacklog = 2
SPECIFICATION SafeSpec
INVARIANTS ChildrenDoNotEndServer
CHECK_DEADLOCK FALSE

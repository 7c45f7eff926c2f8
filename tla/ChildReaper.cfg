CONSTANTS
  Children = {c1, c2, c3}
  Forks = 3
  FdLimit = 5
  MaxBacklog = 2
SPECIFICATION Spec
INVARIANTS TypeOK ParentEndsLast ZombieIsAnnounced
PROPERTIES ZombiesAreReaped ConnectionsAreAccepted
CHECK_DEADLOCK FALSE

CONSTANTS
  lfd = 1
  LastFd = 4
  ReadSize <- MCReadSize
  RequestSize = 2
  MaxBacklog = 2
  MaxUnread = 3
SPECIFICATION Spec
INVARIANTS ReadsAreReady UnreadIsAnnounced
PROPERTIES ClientsAreServed
CHECK_DEADLOCK FALSE

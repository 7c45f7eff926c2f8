CONSTANTS
  Workers = {w1}
  MaxRequests = 2
  MaxFd = 3
  MaxEvents = 3
  BufferSize = 3
  FirstFd = 2
  OpenFiles = 4
  MaxBacklog = 1
  MaxClients = 3
  MaxUnread = 1
SPECIFICATION Spec
INVARIANTS UserCountCovers SlotsMatchSockets EventsAreFresh DisabledIsPending
PROPERTIES ClientsAreHeard
CHECK_DEADLOCK FALSE

CONSTANTS
  Workers = {w1, w2}
  MaxRequests = 2
  MaxFd = 3
  MaxEvents = 2
  BufferSize = 3
  FirstFd = 1
  OpenFiles = 3
  MaxBacklog = 1
  MaxClients = 2
  MaxUnread = 3
SPECIFICATION SafeSpec
INVARIANTS OneWorkerPerConnection

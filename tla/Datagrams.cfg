CONSTANTS
  Clients = {c1, c2}
  Broadcasters = {b}
  Multicasters = {m}
  Ports = {p1, p2}
  NoPort = NoPort
  NoProgram = NoProgram
  NoDatagram = NoDatagram
  QueueLength = 2
  MaxNum = 2
SPECIFICATION Spec
INVARIANTS RequestsAccount AnswersFit
PROPERTIES AnsweredOrLost
CHECK_DEADLOCK FALSE

----------------------------- MODULE EchoServers -----------------------------
(***************************************************************************)
(* The echo servers of one process, with the clients of their lessons,     *)
(* which send a request and wait for the answer.  Five serve all clients   *)
(* from one loop: select.c and poll.c (lesson46), epoll.c (lesson47),      *)
(* epoll_lt.c (lesson48) and epoll_ET.c (lesson49).  They differ in the    *)
(* list of descriptors they wait on: a bit per descriptor up to maxfd      *)
(* (select), an array of pollfd up to nfds (poll), or the list of an epoll *)
(* instance, level- or edge-triggered.  Three accept one client and end    *)
(* with it: server.c and myserver.c (lesson42), tcp_server.c (lesson45).   *)
(* The variable program says which one runs.                               *)
(***************************************************************************)
EXTENDS Integers, FiniteSets, FiniteSetsExt

CONSTANTS
  lfd,           \* the descriptor of the listening socket
  LastFd,        \* the highest descriptor that the process may have
  ReadSize,      \* per program: bytes that one read() takes at most
  RequestSize,   \* bytes of a request
  \* Bounds of the environment.
  MaxBacklog,    \* connections that wait to be accepted
  MaxUnread      \* bytes of a client that the kernel holds

LevelTriggered == {"select.c", "poll.c", "epoll.c", "epoll_lt.c"}
OneClient == {"server.c", "myserver.c", "tcp_server.c"}
Programs == LevelTriggered \cup {"epoll_ET.c"} \cup OneClient

ASSUME EchoAssumption ==
  /\ lfd \in Nat \ {0} /\ LastFd \in Nat /\ lfd < LastFd
  /\ ReadSize \in [Programs -> Nat \ {0}]
  /\ RequestSize \in Nat \ {0}
  /\ MaxBacklog \in Nat /\ MaxUnread \in Nat

NoFd == -1
Listen == 0                  \* the place of lfd, in every list
Fds == lfd + 1 .. LastFd     \* the descriptors of clients
Slots == 1 .. LastFd

VARIABLES
  program,
  \* The kernel.
  backlog,    \* connections that wait on lfd
  peer,       \* per descriptor: none, or what its client did
  unread,     \* per descriptor: bytes that wait to be read
  edges,      \* descriptors with news that epoll has not reported
  waiting,    \* the clients that wait for an answer
  \* The server.
  list,       \* per place: the descriptor the server waits on, or NoFd
  last,       \* maxfd or nfds: the last place that is looked at
  garbage,    \* places whose revents, never written, have the bit POLLIN
  mainpc,     \* where it is
  todo,       \* places that were reported and are still to be handled
  cur         \* the descriptor whose bytes are read in a loop, or NoFd

kernel == <<backlog, peer, unread, edges, waiting>>
server == <<list, last, garbage, mainpc, todo, cur>>
vars == <<program, kernel, server>>

Open == {fd \in Fds : peer[fd] # "none"}
Running == mainpc # "exited"

\* read() would not block: there are bytes, the end, or an error.
Readable(fd) == fd \in Open /\ (unread[fd] > 0 \/ peer[fd] # "open")

-----------------------------------------------------------------------------
\* pollfd fds[1024] lies on the stack; of its revents nothing is written.
Init ==
  /\ program \in Programs
  /\ backlog = 0
  /\ peer = [fd \in Fds |-> "none"]
  /\ unread = [fd \in Fds |-> 0]
  /\ edges = {} /\ waiting = {}
  /\ list = [i \in Slots |-> NoFd]
  /\ last = CASE program = "select.c" -> lfd
              [] program = "poll.c" -> 0
              [] OTHER -> LastFd
  /\ garbage \in SUBSET (IF program = "poll.c" THEN Slots ELSE {})
  /\ mainpc = IF program \in OneClient THEN "accept" ELSE "wait"
  /\ todo = {} /\ cur = NoFd

-----------------------------------------------------------------------------
(* The clients.                                                            *)

Connect ==
  /\ Running
  /\ backlog < MaxBacklog
  /\ backlog' = backlog + 1
  /\ UNCHANGED <<program, peer, unread, edges, waiting, server>>

Request(fd) ==
  /\ Running
  /\ peer[fd] = "open"
  /\ fd \notin waiting
  /\ unread[fd] + RequestSize <= MaxUnread
  /\ unread' = [unread EXCEPT ![fd] = @ + RequestSize]
  /\ edges' = edges \cup {fd}
  /\ waiting' = waiting \cup {fd}
  /\ UNCHANGED <<program, backlog, peer, server>>

\* The client ends, or is ended while it waits for an answer.
Close(fd) ==
  /\ Running
  /\ peer[fd] = "open"
  /\ peer' = [peer EXCEPT ![fd] = "closed"]
  /\ edges' = edges \cup {fd}
  /\ waiting' = waiting \ {fd}
  /\ UNCHANGED <<program, backlog, unread, server>>

\* The client ends with an answer unread: the connection is reset.
Reset(fd) ==
  /\ Running
  /\ peer[fd] = "open"
  /\ peer' = [peer EXCEPT ![fd] = "reset"]
  /\ unread' = [unread EXCEPT ![fd] = 0]
  /\ edges' = edges \cup {fd}
  /\ waiting' = waiting \ {fd}
  /\ UNCHANGED <<program, backlog, server>>

-----------------------------------------------------------------------------
(* select(), poll() and epoll_wait(): the places up to last that are ready *)
(* and, for epoll_ET.c, that have news.                                    *)

Reported ==
  {i \in 1 .. last : /\ list[i] # NoFd
                     /\ Readable(list[i])
                     /\ program = "epoll_ET.c" => list[i] \in edges}
  \cup (IF backlog > 0 THEN {Listen} ELSE {})

Wait ==
  /\ mainpc = "wait"
  /\ Reported # {}
  /\ todo' = Reported
  /\ edges' = edges \ {list[i] : i \in Reported \ {Listen}}
  /\ mainpc' = "events"
  /\ UNCHANGED <<program, backlog, peer, unread, waiting, list, last, garbage, cur>>

RoundEnds ==
  /\ mainpc = "events" /\ cur = NoFd /\ todo = {}
  /\ mainpc' = "wait"
  /\ UNCHANGED <<program, kernel, list, last, garbage, todo, cur>>

-----------------------------------------------------------------------------
(* accept().                                                               *)

\* poll.c takes the first place that is free, the others the place of the
\* descriptor's own number.
Place(cfd) ==
  IF program = "poll.c" THEN Min({i \in Slots : list[i] = NoFd}) ELSE cfd

\* Seeded bug: the last place is that of the newest connection.
ExtendTo(cfd) == last' = cfd

\* maxfd = maxfd > cfd ? maxfd : cfd, and the same for nfds, which bounds
\* places and is compared with a descriptor.
Extend(cfd) == last' = Max({last, cfd})

Accepting == mainpc = "events" /\ cur = NoFd /\ Listen \in todo

\* The loop that follows in poll.c goes as far as the new nfds.
Accept ==
  /\ Accepting
  /\ Fds \ Open # {}
  /\ LET cfd == Min(Fds \ Open) IN
       /\ backlog' = backlog - 1
       /\ peer' = [peer EXCEPT ![cfd] = "open"]
       /\ list' = [list EXCEPT ![Place(cfd)] = cfd]
       /\ Extend(cfd)
       /\ todo' = (todo \ {Listen}) \cup (garbage \cap (last + 1 .. last'))
  /\ UNCHANGED <<program, unread, edges, waiting, garbage, mainpc, cur>>

\* No descriptor is left: accept() returns -1, which nobody tests, and the
\* connection goes on waiting, so that lfd is reported in every round.  For -1,
\* epoll_ctl() fails and a place of poll.c stays free.  FD_SET(-1) of select.c is
\* undefined: it sets the bit of descriptor 63, which is in use or above maxfd,
\* or a checked FD_SET() ends the program.
AcceptFails ==
  /\ Accepting
  /\ Fds \ Open = {}
  /\ todo' = todo \ {Listen}
  /\ \/ UNCHANGED mainpc
     \/ program = "select.c" /\ mainpc' = "exited"
  /\ UNCHANGED <<program, kernel, list, last, garbage, cur>>

\* The one accept() of a server of OneClient; whoever connects later waits in
\* the backlog until the server has ended.
AcceptOne ==
  /\ mainpc = "accept" /\ backlog > 0
  /\ LET cfd == Min(Fds \ Open) IN
       /\ backlog' = backlog - 1
       /\ peer' = [peer EXCEPT ![cfd] = "open"]
       /\ cur' = cfd
  /\ mainpc' = "events"
  /\ UNCHANGED <<program, unread, edges, waiting, list, last, garbage, todo>>

-----------------------------------------------------------------------------
(* read() and write().                                                     *)

\* Place i is the next to be handled; select.c and poll.c accept first.
Turn(i) ==
  /\ mainpc = "events" /\ cur = NoFd
  /\ i \in todo \ {Listen}
  /\ program \in {"select.c", "poll.c"} => Listen \notin todo

\* Seeded bug: one read() for an edge.
ReadOnce(fd) == FALSE

\* The loop of these programs goes on until the client has left.
ReadOn(fd) == program \in {"epoll_ET.c", "server.c", "tcp_server.c"}

\* read() returns bytes and write() answers, once in myserver.c.  A client that
\* has closed answers with a reset, after which a write() may end the server
\* with SIGPIPE.
Echo(fd) ==
  /\ unread[fd] > 0
  /\ unread' = [unread EXCEPT ![fd] = @ - Min({@, ReadSize[program]})]
  /\ waiting' = waiting \ {fd}
  /\ peer' = IF peer[fd] = "closed" THEN [peer EXCEPT ![fd] = "broken"] ELSE peer
  /\ \/ /\ program # "myserver.c"
        /\ mainpc' = "events" /\ cur' = IF ReadOn(fd) THEN fd ELSE NoFd
     \/ /\ program = "myserver.c" \/ peer[fd] = "broken"
        /\ mainpc' = "exited" /\ cur' = NoFd

ReadData(i) ==
  /\ Turn(i) /\ list[i] # NoFd
  /\ Echo(list[i])
  /\ todo' = todo \ {i}
  /\ UNCHANGED <<program, backlog, edges, list, last, garbage>>

\* A server of OneClient blocks in read() until there are bytes.  In epoll_ET.c
\* read() returns -1 instead, which does not end the loop either: it goes round
\* until there are bytes or the end.
ReadMore ==
  /\ mainpc = "events" /\ cur # NoFd
  /\ Echo(cur)
  /\ UNCHANGED <<program, backlog, edges, list, last, garbage, todo>>

\* Seeded bug: close() without FD_CLR() or EPOLL_CTL_DEL and the like.
ForgetNot(i) == UNCHANGED list

Forget(i) == list' = [list EXCEPT ![i] = NoFd]

\* read() returns 0: close() the connection and forget it.
ReadEnd(i) ==
  /\ Turn(i) /\ list[i] # NoFd
  /\ program # "epoll_ET.c"
  /\ LET fd == list[i] IN
       /\ unread[fd] = 0 /\ peer[fd] \in {"closed", "broken"}
       /\ peer' = [peer EXCEPT ![fd] = "none"]
       /\ edges' = edges \ {fd}
  /\ Forget(i)
  /\ todo' = todo \ {i}
  /\ UNCHANGED <<program, backlog, unread, waiting, last, garbage, mainpc, cur>>

\* epoll_ET.c leaves its loop, and the connection open.  The error of a reset
\* is reported once, and is followed by the end.
LoopEnds(fd) ==
  /\ unread[fd] = 0 /\ peer[fd] # "open"
  /\ cur' = NoFd
  /\ UNCHANGED <<program, kernel, list, last, garbage, mainpc>>

ReadNoMore ==
  /\ mainpc = "events"
  /\ program = "epoll_ET.c"
  /\ \/ cur # NoFd /\ LoopEnds(cur) /\ UNCHANGED todo
     \/ \E i \in todo : Turn(i) /\ LoopEnds(list[i]) /\ todo' = todo \ {i}

\* The one client has left, or read() fails: the server ends too.
ClientLeft ==
  /\ mainpc = "events" /\ cur # NoFd
  /\ program \in OneClient
  /\ unread[cur] = 0 /\ peer[cur] # "open"
  /\ peer' = [peer EXCEPT ![cur] = "none"]
  /\ mainpc' = "exited"
  /\ cur' = NoFd
  /\ UNCHANGED <<program, backlog, unread, edges, waiting, list, last, garbage, todo>>

\* read() returns -1: exit(-1).
ReadFails(i) ==
  /\ Turn(i)
  /\ program # "epoll_ET.c"
  /\ list[i] # NoFd => peer[list[i]] = "reset"
  /\ mainpc' = "exited"
  /\ UNCHANGED <<program, kernel, list, last, garbage, todo, cur>>

-----------------------------------------------------------------------------
Client == Connect \/ \E fd \in Fds : Request(fd) \/ Close(fd) \/ Reset(fd)

Server ==
  \/ Wait \/ RoundEnds \/ Accept \/ AcceptFails \/ AcceptOne
  \/ ReadMore \/ ReadNoMore \/ ClientLeft
  \/ \E i \in Slots : ReadData(i) \/ ReadEnd(i) \/ ReadFails(i)

Next == Client \/ Server

SafeSpec == Init /\ [][Next]_vars

\* The server runs while it can; clients need not do anything.
Spec == SafeSpec /\ WF_vars(Server)
-----------------------------------------------------------------------------
(* Properties.                                                             *)

\* read() never blocks, which would stop the service of everybody: what was
\* reported is still there when its turn comes.  (With garbage, poll.c blocks in
\* read(), or reads from descriptor -1 and ends.)
ReadsAreReady ==
  garbage = {} =>
    \A i \in todo \ {Listen} : list[i] # NoFd /\ Readable(list[i])

\* What waits to be read will be reported: epoll_ET.c does not use up the edge
\* of bytes that it leaves unread, and a server of one client reads from it alone.
UnreadIsAnnounced ==
  Running => \A fd \in Open :
    unread[fd] > 0 => \/ program \in LevelTriggered
                      \/ fd = cur
                      \/ program = "epoll_ET.c" /\ fd \in edges
                      \/ \E i \in todo \ {Listen} : list[i] = fd

\* Every request is answered and every connection whose client has gone is
\* closed, whatever the other clients do or omit, unless the server ends.
\* (epoll_ET.c does neither; poll.c not with garbage.)
ClientsAreServed ==
  \A fd \in Fds :
    LET fair == program # "epoll_ET.c" /\ garbage = {} IN
    /\ fd \in waiting /\ fair ~> fd \notin waiting \/ ~Running
    /\ peer[fd] \in {"closed", "broken"} /\ fair ~> peer[fd] = "none" \/ ~Running
=============================================================================

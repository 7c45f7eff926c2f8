------------------------------ MODULE WebServer ------------------------------
(***************************************************************************)
(* The web server: the event loop of main() (main.cpp), the connection     *)
(* objects http_conn (http_conn.cpp) in the array users, which is indexed  *)
(* by file descriptor, the epoll instance, and the thread pool, which is   *)
(* used through what it promises (TaskPool, implemented by ThreadPool).    *)
(*                                                                         *)
(* The main thread is the only one that reads, accepts and closes.  A      *)
(* worker's task is a pointer into users: by the time the worker uses it   *)
(* the connection may be closed, and the slot and the descriptor taken by  *)
(* another client.                                                         *)
(***************************************************************************)
EXTENDS Integers, Sequences, FiniteSets, FiniteSetsExt

CONSTANTS
  Workers,       \* the threads of the pool
  MaxRequests,   \* m_max_requests
  MaxFd,         \* MAX_FD: the size of users and the limit of m_user_count
  MaxEvents,     \* MAX_EVENT_NUM
  BufferSize,    \* READ_BUFFER_SIZE
  FirstFd,       \* the lowest descriptor that is free once the loop runs
  OpenFiles,     \* RLIMIT_NOFILE: descriptors are smaller
  \* Bounds of the environment.
  MaxBacklog,    \* connections that wait to be accepted
  MaxClients,    \* clients connected at a time, waiting or accepted
  MaxUnread      \* bytes of a client that the kernel holds

NoFd == -1
Listen == 0   \* stands for lfd among the descriptors of a batch

\* The descriptors accept() can return.
ConnFds == FirstFd .. OpenFiles - 1

ASSUME ServerAssumption ==
  /\ IsFiniteSet(Workers) /\ Workers # {}
  /\ MaxRequests \in Nat \ {0}
  /\ MaxFd \in Nat \ {0}
  /\ MaxEvents \in Nat \ {0}
  /\ BufferSize \in Nat \ {0}
  /\ FirstFd \in Nat \ {0}
  /\ OpenFiles \in Nat
  /\ MaxBacklog \in Nat /\ MaxClients \in Nat /\ MaxUnread \in Nat

VARIABLES
  \* The kernel.
  backlog,        \* connections that wait on lfd
  peer,           \* per descriptor: free, or what its client did
  unread,         \* per descriptor: bytes that wait to be read
  epoll,          \* per descriptor: how epoll watches it
  \* The objects of users and http_conn::m_user_count.
  m_sockfd,
  m_read_idx,
  m_user_count,
  \* The main thread.
  mainpc,         \* where it is
  batch,          \* events of this batch that are still to be handled
  sockfd,         \* the descriptor it is handling, or NoFd
  \* The pool (TaskPool); refused holds the connections whose request was
  \* turned away, until epoll watches them again.
  m_workqueue, running, refused, m_stop,
  sock            \* per worker: the m_sockfd that process() has read

kernel == <<backlog, peer, unread>>
slots == <<m_sockfd, m_read_idx, m_user_count>>
main == <<mainpc, batch, sockfd>>
pool == <<m_workqueue, running, refused, m_stop>>
vars == <<kernel, epoll, slots, main, pool, sock>>

Pool == INSTANCE TaskPool WITH
  Clients <- ConnFds,
  Tasks <- ConnFds,
  Null <- NoFd,
  Capacity <- MaxRequests,
  pending <- m_workqueue,
  closed <- m_stop

\* A descriptor is watched until it is reported again and again ("level"),
\* until it is reported once ("oneshot"), or no more ("disabled").
EpollStates == {"none", "level", "oneshot", "disabled"}
PeerStates == {"none", "open", "closed"}
MainStates == {"loop", "init", "append", "close", "closed", "crashed"}

Running == mainpc # "crashed"
OpenFds == {fd \in ConnFds : peer[fd] # "none"}

-----------------------------------------------------------------------------
\* new http_conn[MAX_FD], new threadpool, socket(), listen(), epoll_create()
\* and addfd(epollfd, lfd, false).  The pages of users come from the kernel
\* and hold zeros, which is what m_read_idx starts from.
Init ==
  /\ backlog = 0
  /\ peer = [fd \in ConnFds |-> "none"]
  /\ unread = [fd \in ConnFds |-> 0]
  /\ epoll = [fd \in ConnFds |-> "none"]
  /\ m_sockfd = [fd \in ConnFds |-> NoFd]
  /\ m_read_idx = [fd \in ConnFds |-> 0]
  /\ m_user_count = 0
  /\ mainpc = "loop" /\ batch = {} /\ sockfd = NoFd
  /\ Pool!Init
  /\ sock = [w \in Workers |-> NoFd]

-----------------------------------------------------------------------------
(* The clients.                                                            *)

Connect ==
  /\ Running
  /\ backlog < MaxBacklog
  /\ backlog + Cardinality(OpenFds) < MaxClients
  /\ backlog' = backlog + 1
  /\ UNCHANGED <<peer, unread, epoll, slots, main, pool, sock>>

Send(fd) ==
  /\ Running
  /\ peer[fd] = "open"
  /\ unread[fd] < MaxUnread
  /\ unread' = [unread EXCEPT ![fd] = @ + 1]
  /\ UNCHANGED <<backlog, peer, epoll, slots, main, pool, sock>>

\* The client closes or resets the connection.
Leave(fd) ==
  /\ Running
  /\ peer[fd] = "open"
  /\ peer' = [peer EXCEPT ![fd] = "closed"]
  /\ UNCHANGED <<backlog, unread, epoll, slots, main, pool, sock>>

-----------------------------------------------------------------------------
(* epoll_wait().                                                           *)

Ready ==
  {fd \in ConnFds : /\ epoll[fd] \in {"level", "oneshot"}
                    /\ unread[fd] > 0 \/ peer[fd] = "closed"}
  \cup (IF backlog > 0 THEN {Listen} ELSE {})

Hup(fd) == fd \in ConnFds /\ peer[fd] = "closed"

\* At most MaxEvents descriptors that are ready, in an order that the kernel
\* chooses; what was to be reported once is not watched any more.
EpollWait ==
  /\ mainpc = "loop" /\ batch = {}
  /\ \E S \in SUBSET Ready :
       /\ S # {}
       /\ S = Ready \/ Cardinality(S) = MaxEvents
       /\ Cardinality(S) <= MaxEvents
       /\ batch' = {[fd |-> fd, hup |-> Hup(fd)] : fd \in S}
       /\ epoll' = [fd \in ConnFds |->
                      IF fd \in S /\ epoll[fd] = "oneshot" THEN "disabled"
                      ELSE epoll[fd]]
  /\ UNCHANGED <<kernel, slots, mainpc, sockfd, pool, sock>>

-----------------------------------------------------------------------------
(* The event is on lfd: accept() one connection.                           *)

\* Seeded bug: the loop comes back to the event of a client.
EventRepeated(e) ==
  mainpc = "loop" /\ e \in batch /\ batch' = IF e.fd = Listen THEN batch \ {e} ELSE batch

\* The main thread takes event e out of the batch.
Event(e) ==
  /\ mainpc = "loop"
  /\ e \in batch
  /\ batch' = batch \ {e}

FreeFds == ConnFds \ OpenFds

\* MAX_FD users: accept the connection and close it at once.
AcceptBusy(e) ==
  /\ Event(e) /\ e.fd = Listen
  /\ m_user_count >= MaxFd
  /\ backlog' = IF FreeFds # {} THEN backlog - 1 ELSE backlog
  /\ UNCHANGED <<peer, unread, epoll, slots, mainpc, sockfd, pool, sock>>

\* users[cfd].init(): m_sockfd is set.  cfd is the lowest descriptor that is
\* free; a slot beyond the array may be memory that faults.
Accept(e) ==
  /\ Event(e) /\ e.fd = Listen
  /\ m_user_count < MaxFd
  /\ FreeFds # {}
  /\ LET cfd == Min(FreeFds) IN
       /\ backlog' = backlog - 1
       /\ peer' = [peer EXCEPT ![cfd] = "open"]
       /\ sockfd' = cfd
       /\ \/ /\ mainpc' = "init"
             /\ m_sockfd' = [m_sockfd EXCEPT ![cfd] = cfd]
          \/ /\ cfd >= MaxFd
             /\ mainpc' = "crashed"
             /\ UNCHANGED m_sockfd
  /\ UNCHANGED <<unread, epoll, m_read_idx, m_user_count, pool, sock>>

\* Seeded bug: a user that is not counted.
CountUnchanged(n) == UNCHANGED m_user_count

Count(n) == m_user_count' = m_user_count + n

\* The end of init(): addfd(), without EPOLLONESHOT, and one user more.
\* m_read_idx keeps its value.
InitConn ==
  /\ mainpc = "init"
  /\ epoll' = [epoll EXCEPT ![sockfd] = "level"]
  /\ Count(1)
  /\ mainpc' = "loop" /\ sockfd' = NoFd
  /\ UNCHANGED <<kernel, m_sockfd, m_read_idx, batch, pool, sock>>

\* accept() returns -1, and users[-1].init(-1) is called: the memory in front
\* of the array is written, which may fault; epoll_ctl() fails; one user more.
AcceptFails(e) ==
  /\ Event(e) /\ e.fd = Listen
  /\ m_user_count < MaxFd
  /\ FreeFds = {}
  /\ \/ mainpc' = "loop" /\ Count(1)
     \/ mainpc' = "crashed" /\ UNCHANGED m_user_count
  /\ UNCHANGED <<kernel, epoll, m_sockfd, m_read_idx, sockfd, pool, sock>>

-----------------------------------------------------------------------------
(* The event is on a client.                                               *)

\* EPOLLRDHUP, EPOLLHUP or EPOLLERR: close the connection.
HandleHup(e) ==
  /\ Event(e) /\ e.fd # Listen
  /\ e.hup
  /\ mainpc' = "close" /\ sockfd' = e.fd
  /\ UNCHANGED <<kernel, epoll, slots, pool, sock>>

\* Seeded bugs: recv() is asked for BufferSize bytes wherever the buffer
\* begins, and it is never called.
BytesReadOverrun(fd) == Min({unread[fd], BufferSize})
BytesReadNone(fd) == 0

\* recv() until it would block, or the buffer is full.
BytesRead(fd) == Min({unread[fd], BufferSize - m_read_idx[fd]})

\* A buffer that is full makes read() return false at its beginning; one that
\* gets full makes recv() return 0, as the client's close does.
ReadSucceeds(fd) ==
  m_read_idx[fd] + BytesRead(fd) < BufferSize /\ peer[fd] = "open"

HandleRead(e) ==
  /\ Event(e) /\ e.fd # Listen
  /\ ~e.hup
  /\ sockfd' = e.fd
  /\ m_read_idx' = [m_read_idx EXCEPT ![e.fd] = @ + BytesRead(e.fd)]
  /\ unread' = [unread EXCEPT ![e.fd] = @ - BytesRead(e.fd)]
  /\ mainpc' = IF ReadSucceeds(e.fd) THEN "append" ELSE "close"
  /\ UNCHANGED <<backlog, peer, epoll, m_sockfd, m_user_count, pool, sock>>

\* pool->append(users + sockfd), whose answer is ignored.
HandleAppend ==
  /\ mainpc = "append"
  /\ Pool!Submit(sockfd) \/ Pool!Refuse(sockfd)
  /\ mainpc' = "loop" /\ sockfd' = NoFd
  /\ UNCHANGED <<kernel, epoll, slots, batch, sock>>

\* close_conn(), first half: removefd() on a slot that is in use.  Whatever
\* the client sent is gone.
CloseFd ==
  /\ mainpc = "close"
  /\ mainpc' = "closed"
  /\ IF m_sockfd[sockfd] = NoFd
     THEN UNCHANGED <<peer, unread, epoll, refused>>
     ELSE LET fd == m_sockfd[sockfd] IN
            /\ epoll' = [epoll EXCEPT ![fd] = "none"]
            /\ peer' = [peer EXCEPT ![fd] = "none"]
            /\ unread' = [unread EXCEPT ![fd] = 0]
            /\ refused' = refused \ {fd}
  /\ UNCHANGED <<backlog, slots, batch, sockfd, m_workqueue, running, m_stop, sock>>

\* Seeded bug: the slot keeps its descriptor.
FreeSlotKept(fd) == UNCHANGED m_sockfd

FreeSlot(fd) == m_sockfd' = [m_sockfd EXCEPT ![fd] = NoFd]

\* close_conn(), second half: the slot is free and there is one user less.
CloseSlot ==
  /\ mainpc = "closed"
  /\ IF m_sockfd[sockfd] = NoFd
     THEN UNCHANGED <<m_sockfd, m_user_count>>
     ELSE FreeSlot(sockfd) /\ Count(-1)
  /\ mainpc' = "loop" /\ sockfd' = NoFd
  /\ UNCHANGED <<kernel, epoll, m_read_idx, batch, pool, sock>>

-----------------------------------------------------------------------------
(* A worker: run() takes a task and calls process().                       *)

TakeTask(w) ==
  /\ Running
  /\ Pool!Take(w)
  /\ UNCHANGED <<kernel, epoll, slots, main, sock>>

\* process(): process_read() always answers NO_REQUEST, so process() goes on
\* to modifyfd(m_epollfd, m_sockfd, EPOLLIN); m_sockfd is read first.
ProcessReadSock(w) ==
  /\ Running
  /\ running[w] # NoFd
  /\ sock[w] = NoFd
  /\ m_sockfd[running[w]] # NoFd
  /\ sock' = [sock EXCEPT ![w] = m_sockfd[running[w]]]
  /\ UNCHANGED <<kernel, epoll, slots, main, pool>>

\* The slot is free: epoll_ctl(EPOLL_CTL_MOD) fails on descriptor -1.
ProcessClosed(w) ==
  /\ Running
  /\ running[w] # NoFd
  /\ sock[w] = NoFd
  /\ m_sockfd[running[w]] = NoFd
  /\ Pool!Finish(w)
  /\ UNCHANGED <<kernel, epoll, slots, main, sock>>

\* Seeded bugs: epoll_ctl() is skipped when EPOLLONESHOT is already set; it
\* gets EPOLLONESHOT alone, without the events.
ModifyOnce(fd) ==
  IF epoll[fd] # "level" THEN UNCHANGED <<epoll, refused>>
  ELSE epoll' = [epoll EXCEPT ![fd] = "oneshot"] /\ refused' = refused \ {fd}
ModifyNoEvents(fd) ==
  IF epoll[fd] = "none" THEN UNCHANGED <<epoll, refused>>
  ELSE epoll' = [epoll EXCEPT ![fd] = "disabled"] /\ refused' = refused \ {fd}

\* modifyfd(): whichever connection has the descriptor by now is watched until
\* it is reported once.
Modify(fd) ==
  IF epoll[fd] = "none" THEN UNCHANGED <<epoll, refused>>
  ELSE /\ epoll' = [epoll EXCEPT ![fd] = "oneshot"]
       /\ refused' = refused \ {fd}

ProcessRearm(w) ==
  /\ Running
  /\ sock[w] # NoFd
  /\ Modify(sock[w])
  /\ running' = [running EXCEPT ![w] = NoFd]
  /\ sock' = [sock EXCEPT ![w] = NoFd]
  /\ UNCHANGED <<kernel, slots, main, m_workqueue, m_stop>>

-----------------------------------------------------------------------------
ClientStep == Connect \/ \E fd \in ConnFds : Send(fd) \/ Leave(fd)

MainStep ==
  \/ EpollWait
  \/ \E e \in batch : \/ AcceptBusy(e) \/ Accept(e) \/ AcceptFails(e)
                      \/ HandleHup(e) \/ HandleRead(e)
  \/ InitConn \/ HandleAppend \/ CloseFd \/ CloseSlot

WorkerStep(w) ==
  TakeTask(w) \/ ProcessReadSock(w) \/ ProcessClosed(w) \/ ProcessRearm(w)

Next == ClientStep \/ MainStep \/ \E w \in Workers : WorkerStep(w)

SafeSpec == Init /\ [][Next]_vars

(***************************************************************************)
(* The main thread and the workers run while they can.  Some worker takes  *)
(* a task that waits, which is what TaskPool promises.  Clients need not   *)
(* do anything.                                                            *)
(***************************************************************************)
Fairness ==
  /\ WF_vars(MainStep)
  /\ WF_vars(\E w \in Workers : TakeTask(w))
  /\ \A w \in Workers :
       WF_vars(ProcessReadSock(w) \/ ProcessClosed(w) \/ ProcessRearm(w))

Spec == SafeSpec /\ Fairness
-----------------------------------------------------------------------------
(* Properties.                                                             *)

TypeOK ==
  /\ backlog \in 0 .. MaxBacklog
  /\ peer \in [ConnFds -> PeerStates]
  /\ unread \in [ConnFds -> 0 .. MaxUnread]
  /\ epoll \in [ConnFds -> EpollStates]
  /\ m_sockfd \in [ConnFds -> ConnFds \cup {NoFd}]
  /\ m_read_idx \in [ConnFds -> 0 .. BufferSize]
  /\ m_user_count \in 0 .. MaxFd
  /\ mainpc \in MainStates
  /\ batch \subseteq [fd : ConnFds \cup {Listen}, hup : BOOLEAN]
  /\ sockfd \in ConnFds \cup {NoFd}
  /\ m_workqueue \in Seq(ConnFds)
  /\ running \in [Workers -> ConnFds \cup {NoFd}]
  /\ refused \subseteq ConnFds
  /\ m_stop = FALSE
  /\ sock \in [Workers -> ConnFds \cup {NoFd}]

Slots == {fd \in ConnFds : m_sockfd[fd] # NoFd}

\* Between two events, the connections in users, the sockets that are open and
\* the descriptors that epoll watches are the same, each in the slot of its
\* own number: no socket leaks and no slot outlives its socket.  At no time has
\* a slot more bytes than its buffer, after however many reads.
SlotsMatchSockets ==
  \A fd \in ConnFds :
    /\ m_read_idx[fd] <= BufferSize
    /\ mainpc = "loop" => /\ m_sockfd[fd] \in {fd, NoFd}
                          /\ fd \in Slots <=> peer[fd] # "none"
                          /\ fd \in Slots <=> epoll[fd] # "none"

\* An event that is still to be handled is of a connection that is still open:
\* the events before it in the batch, which close and accept, and the workers
\* cannot have made it stale.
EventsAreFresh ==
  \A e \in batch : e.fd # Listen => peer[e.fd] # "none" /\ m_sockfd[e.fd] = e.fd

\* A task of the slot fd waits in the pool, or a worker is at it.
Rearming(fd) ==
  \/ \E w \in Workers : \/ running[w] = fd /\ sock[w] = NoFd
                        \/ sock[w] = fd
  \/ \E i \in DOMAIN m_workqueue : m_workqueue[i] = fd

Handling(fd) == sockfd = fd \/ \E e \in batch : e.fd = fd

\* A connection whose single report was used up is not forgotten: the main
\* thread is about to handle it, or its request is in the pool and the worker
\* will watch it again, unless the pool refused the request.
DisabledIsPending ==
  Running => \A fd \in ConnFds :
    epoll[fd] = "disabled" => Handling(fd) \/ Rearming(fd) \/ fd \in refused

\* m_user_count never falls below the number of connections, so never more
\* than MAX_FD clients are served, whatever accept() did.
UserCountCovers ==
  mainpc \notin {"init", "crashed"} => m_user_count >= Cardinality(Slots)

\* No client is forgotten: one that leaves is noticed and its socket closed in
\* the end, and what one sends is read or its connection closed, whatever the
\* state of its last request, unless the pool refused that.
ClientsAreHeard ==
  \A fd \in ConnFds :
    peer[fd] = "closed" \/ unread[fd] > 0
      ~> (peer[fd] # "closed" /\ unread[fd] = 0) \/ fd \in refused \/ ~Running

-----------------------------------------------------------------------------
(* What comments of the source say, and the code does not do.              *)

\* "one shot: can trigger only once, to prevent the same connection from being
\* handled by different threads" (http_conn.cpp:25).
OneWorkerPerConnection ==
  \A v, w \in Workers : v # w /\ running[v] # NoFd => running[v] # running[w]

=============================================================================

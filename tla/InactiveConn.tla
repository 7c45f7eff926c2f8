---------------------------- MODULE InactiveConn ----------------------------
(***************************************************************************)
(* The server of noactive/nonactive_conn.cpp, which closes connections     *)
(* that have been idle for three time slots.  One thread waits on an       *)
(* edge-triggered epoll instance for connections, for bytes of clients and *)
(* for bytes that its signal handler wrote into a socket pair; the timers  *)
(* are handled after the events, when SIGALRM was among the signals.       *)
(*                                                                         *)
(* The list of timers is used through its specification (SortedTimers and  *)
(* TimerQueue, which TimerList implements).  A timer expires at an         *)
(* absolute time; left[fd] is how far ahead that is, and stays at zero     *)
(* once it has passed, so that the clock needs no bound.                   *)
(*                                                                         *)
(* accept() returns -1 when no descriptor is left, which main() does not   *)
(* test: the timer that is added then belongs to users[-1], that is, to no *)
(* connection.                                                             *)
(***************************************************************************)
EXTENDS SortedTimers, FiniteSetsExt

CONSTANTS
  Conns,        \* the descriptors that are left for connections
  TIMESLOT,     \* seconds between two alarms
  ReadSize,     \* BUFFER_SIZE - 1: how much one recv() asks for
  Listen, Pipe, \* listenfd and pipefd[0]
  \* Bounds of the environment.
  MaxBacklog,   \* connections that wait to be accepted
  Orphans,      \* timers of users[-1]; there are never more in the list
  MaxUnread     \* per connection: bytes of its client that the kernel holds

ASSUME InactiveAssumption ==
  /\ IsFiniteSet(Conns) /\ IsFiniteSet(Orphans) /\ Conns \cap Orphans = {}
  /\ Listen \notin Conns /\ Pipe \notin Conns /\ Listen # Pipe
  /\ TIMESLOT \in Nat \ {0}
  /\ ReadSize \in Nat \ {0}
  /\ MaxBacklog \in Nat /\ MaxUnread \in [Conns -> Nat]

VARIABLES
  \* The kernel.
  backlog,      \* connections that wait on listenfd
  peer,         \* per connection: free, or what its client did
  unread,       \* per connection: bytes that wait to be read
  ready,        \* descriptors with an edge that epoll has not reported
  alarm,        \* seconds until SIGALRM, 0 when no alarm is set
  signals,      \* signals that are pending
  pipe,         \* signals whose bytes are in the socket pair
  \* The process.
  mainpc,       \* "wait", "events", "stopped" or "crashed"
  batch,        \* the events that are still to be handled
  timeout, stop_server,
  timer_lst,    \* the timers, each named after its connection, by expiry
  left          \* per timer: how long until it expires

kernel == <<backlog, peer, unread, ready, alarm, signals, pipe>>
vars == <<kernel, mainpc, batch, timeout, stop_server, timer_lst, left>>

Lifetime == 3 * TIMESLOT
AllTimers == Conns \cup Orphans
Open == {fd \in Conns : peer[fd] # "none"}
Running == mainpc \in {"wait", "events"}

-----------------------------------------------------------------------------
\* The sockets, epoll, the signal handlers, and the first alarm().
Init ==
  /\ backlog = 0
  /\ peer = [fd \in Conns |-> "none"]
  /\ unread = [fd \in Conns |-> 0]
  /\ ready = {}
  /\ alarm = TIMESLOT
  /\ signals = {} /\ pipe = {}
  /\ mainpc = "wait" /\ batch = {}
  /\ timeout = FALSE /\ stop_server = FALSE
  /\ timer_lst = <<>>
  /\ left = [t \in AllTimers |-> 0]

-----------------------------------------------------------------------------
(* The clients, the clock and the signals.                                 *)

\* A client connects.  (The last conjunct is the bound on Orphans: whatever
\* edge of listenfd is or comes into the batch, a timer is left for its -1.)
Connect ==
  /\ Running
  /\ backlog < MaxBacklog
  /\ Cardinality(ToSet(timer_lst) \cap Orphans) + Cardinality(batch \cap {Listen})
       < Cardinality(Orphans)
  /\ backlog' = backlog + 1
  /\ ready' = ready \cup {Listen}
  /\ UNCHANGED <<peer, unread, alarm, signals, pipe, mainpc, batch, timeout,
                 stop_server, timer_lst, left>>

Send(fd) ==
  /\ peer[fd] = "open"
  /\ unread[fd] < MaxUnread[fd]
  /\ unread' = [unread EXCEPT ![fd] = @ + 1]
  /\ ready' = ready \cup {fd}
  /\ UNCHANGED <<backlog, peer, alarm, signals, pipe, mainpc, batch, timeout,
                 stop_server, timer_lst, left>>

\* The client shuts the connection down, or resets it and what it sent is lost.
Leave(fd) ==
  /\ peer[fd] = "open"
  /\ peer' = [peer EXCEPT ![fd] = "closed"]
  /\ \E reset \in BOOLEAN :
       unread' = IF reset THEN [unread EXCEPT ![fd] = 0] ELSE unread
  /\ ready' = ready \cup {fd}
  /\ UNCHANGED <<backlog, alarm, signals, pipe, mainpc, batch, timeout,
                 stop_server, timer_lst, left>>

\* A second passes.
Clock ==
  /\ Running
  /\ left' = [t \in AllTimers |-> IF left[t] = 0 THEN 0 ELSE left[t] - 1]
  /\ alarm' = IF alarm = 0 THEN 0 ELSE alarm - 1
  /\ signals' = IF alarm = 1 THEN signals \cup {"SIGALRM"} ELSE signals
  /\ UNCHANGED <<backlog, peer, unread, ready, pipe, mainpc, batch, timeout,
                 stop_server, timer_lst>>

\* SIGTERM is sent, once.
Kill ==
  /\ Running /\ ~stop_server /\ "SIGTERM" \notin signals \cup pipe
  /\ signals' = signals \cup {"SIGTERM"}
  /\ UNCHANGED <<backlog, peer, unread, ready, alarm, pipe, mainpc, batch,
                 timeout, stop_server, timer_lst, left>>

\* sig_handler(), between any two steps of main(), sends a byte to main().
SigHandler(sig) ==
  /\ Running
  /\ sig \in signals
  /\ signals' = signals \ {sig}
  /\ pipe' = pipe \cup {sig}
  /\ ready' = ready \cup {Pipe}
  /\ UNCHANGED <<backlog, peer, unread, alarm, mainpc, batch, timeout,
                 stop_server, timer_lst, left>>

-----------------------------------------------------------------------------
(* main().                                                                 *)

TakeEdges == batch' = ready /\ ready' = {}

\* epoll_wait() reports every edge, once.
EpollWait ==
  /\ mainpc = "wait"
  /\ ready # {}
  /\ TakeEdges
  /\ mainpc' = "events"
  /\ UNCHANGED <<backlog, peer, unread, alarm, signals, pipe, timeout,
                 stop_server, timer_lst, left>>

Event(fd) == mainpc = "events" /\ fd \in batch /\ batch' = batch \ {fd}

\* A new timer in the list.
NewTimer(t) ==
  /\ left' = [left EXCEPT ![t] = Lifetime]
  /\ timer_lst' = Place(timer_lst, left', t)

\* One accept(), whatever waits behind it; addfd(); a timer for connfd.
Accept ==
  /\ Event(Listen)
  /\ \E connfd \in Conns \ Open :
       /\ backlog' = backlog - 1
       /\ peer' = [peer EXCEPT ![connfd] = "open"]
       /\ NewTimer(connfd)
  /\ UNCHANGED <<unread, ready, alarm, signals, pipe, mainpc, timeout, stop_server>>

\* No descriptor is left: accept() returns -1, and the connection still waits.
\* addfd(-1) fails; the write to users[-1], in front of the array, may fault;
\* if it does not, a timer of no connection is added.
AcceptFails ==
  /\ Event(Listen)
  /\ Open = Conns
  /\ \/ \E t \in Orphans \ ToSet(timer_lst) : NewTimer(t) /\ UNCHANGED mainpc
     \/ mainpc' = "crashed" /\ UNCHANGED <<timer_lst, left>>
  /\ UNCHANGED <<backlog, peer, unread, ready, alarm, signals, pipe, timeout, stop_server>>

\* Seeded bug: SIGTERM is seen only when alone.
ReceiveEither(sigs) ==
  /\ pipe' = pipe \ sigs
  /\ timeout' = (timeout \/ "SIGALRM" \in sigs)
  /\ stop_server' = (stop_server \/ sigs = {"SIGTERM"})

Receive(sigs) ==
  /\ pipe' = pipe \ sigs
  /\ timeout' = (timeout \/ "SIGALRM" \in sigs)
  /\ stop_server' = (stop_server \/ "SIGTERM" \in sigs)

\* recv() from the pipe; the timers are left for the end of the batch.
ReadSignals ==
  /\ Event(Pipe)
  /\ Receive(pipe)
  /\ UNCHANGED <<backlog, peer, unread, ready, alarm, signals, mainpc, timer_lst, left>>

Renew(fd) ==
  /\ left' = [left EXCEPT ![fd] = Lifetime]
  /\ timer_lst' = Place(Without(timer_lst, fd), left', fd)

\* Something was read: the connection may live for another Lifetime.
ReadData(fd) ==
  /\ Event(fd)
  /\ unread[fd] > 0
  /\ unread' = [unread EXCEPT ![fd] = @ - Min({@, ReadSize})]
  /\ Renew(fd)
  /\ UNCHANGED <<backlog, peer, ready, alarm, signals, pipe, mainpc, timeout,
                 stop_server>>

\* cb_func() for the timers S: close() takes their connections out of epoll as
\* well; for users[-1] it fails.
CloseAll(S) ==
  /\ peer' = [fd \in Conns |-> IF fd \in S THEN "none" ELSE peer[fd]]
  /\ unread' = [fd \in Conns |-> IF fd \in S THEN 0 ELSE unread[fd]]
  /\ left' = [t \in AllTimers |-> IF t \in S THEN 0 ELSE left[t]]
  /\ ready' = ready \ S

\* recv() returns 0 or an error: cb_func() and del_timer().
ReadEnd(fd) ==
  /\ Event(fd)
  /\ unread[fd] = 0 /\ peer[fd] = "closed"
  /\ CloseAll({fd})
  /\ timer_lst' = Without(timer_lst, fd)
  /\ UNCHANGED <<backlog, alarm, signals, pipe, mainpc, timeout, stop_server>>

\* EAGAIN: what the edge announced was read with an earlier one.
ReadNothing(fd) ==
  /\ Event(fd)
  /\ unread[fd] = 0 /\ peer[fd] = "open"
  /\ UNCHANGED <<kernel, mainpc, timeout, stop_server, timer_lst, left>>

\* Seeded bugs: one timer per alarm; no further alarm.
NumDueOne == IF timer_lst # <<>> /\ left[Head(timer_lst)] = 0 THEN 1 ELSE 0
SetAlarmNot == UNCHANGED alarm

\* tick() goes from the head to the first timer that is not due.
NumDue == Cardinality({k \in DOMAIN timer_lst : \A i \in 1 .. k : left[timer_lst[i]] = 0})
SetAlarm == alarm' = TIMESLOT

\* timer_handler(): tick() calls back the timers that are due and deletes
\* them; the next alarm() is set.
TimerHandler ==
  IF timeout
  THEN /\ CloseAll({timer_lst[i] : i \in 1 .. NumDue})
       /\ timer_lst' = SubSeq(timer_lst, NumDue + 1, Len(timer_lst))
       /\ SetAlarm
  ELSE UNCHANGED <<peer, unread, left, ready, timer_lst, alarm>>

\* The batch is done: timers, and the test of stop_server.
EndBatch ==
  /\ mainpc = "events" /\ batch = {}
  /\ TimerHandler
  /\ timeout' = FALSE
  /\ mainpc' = IF stop_server THEN "stopped" ELSE "wait"
  /\ UNCHANGED <<backlog, signals, pipe, batch, stop_server>>

-----------------------------------------------------------------------------
Environment ==
  \/ Connect \/ Kill
  \/ \E fd \in Conns : Running /\ (Send(fd) \/ Leave(fd))

MainStep ==
  \/ EpollWait \/ Accept \/ AcceptFails \/ ReadSignals \/ EndBatch
  \/ \E fd \in Conns : ReadData(fd) \/ ReadEnd(fd) \/ ReadNothing(fd)

Next ==
  \/ Environment \/ Clock \/ MainStep
  \/ \E sig \in {"SIGALRM", "SIGTERM"} : SigHandler(sig)

SafeSpec == Init /\ [][Next]_vars

\* Time passes, signals are delivered, and the process runs while it can.
Fairness ==
  /\ WF_vars(Clock)
  /\ WF_vars(MainStep)
  /\ \A sig \in {"SIGALRM", "SIGTERM"} : WF_vars(SigHandler(sig))

Spec == SafeSpec /\ Fairness
-----------------------------------------------------------------------------
(* Properties.                                                             *)

TypeOK ==
  /\ backlog \in 0 .. MaxBacklog
  /\ peer \in [Conns -> {"none", "open", "closed"}]
  /\ unread \in [Conns -> Nat]
  /\ ready \subseteq Conns \cup {Listen, Pipe}
  /\ alarm \in 0 .. TIMESLOT
  /\ signals \subseteq {"SIGALRM", "SIGTERM"}
  /\ pipe \subseteq {"SIGALRM", "SIGTERM"}
  /\ mainpc \in {"wait", "events", "stopped", "crashed"}
  /\ batch \subseteq Conns \cup {Listen, Pipe}
  /\ timeout \in BOOLEAN /\ stop_server \in BOOLEAN
  /\ timer_lst \in Seq(AllTimers)
  /\ left \in [AllTimers -> 0 .. Lifetime]

\* Every open connection has one timer in the list, and no timer is left of a
\* connection that was closed: users[fd].timer is never used when it dangles.
\* What else the list holds are the timers of users[-1], each once.
TimerPerConnection ==
  ToSet(timer_lst) \cap Conns = Open /\ IsInjective(timer_lst)

\* SIGALRM is in exactly one place: announced by alarm(), pending, a byte in
\* the pipe, or the flag timeout.  Were it lost anywhere, or timer_handler()
\* did not set the next alarm, no connection would ever time out again.
AlarmIsUnderWay ==
  LET places == (IF alarm > 0 THEN {"alarm"} ELSE {})
                \cup (IF "SIGALRM" \in signals THEN {"pending"} ELSE {})
                \cup (IF "SIGALRM" \in pipe THEN {"pipe"} ELSE {})
                \cup (IF timeout THEN {"flag"} ELSE {})
  IN  Cardinality(places) = 1

\* After the timers were handled no timer is left in the list, and no connection
\* open, that is overdue; a timer of users[-1] hides none behind it.
NoneOverdueAfterTick ==
  [][timeout /\ ~timeout' => \A t \in ToSet(timer_lst') \cup Open' : left'[t] > 0]_vars

\* A connection that sends nothing more is closed in the end, in particular
\* that of a client which has left, even when the edge of its leaving was used
\* up by a recv() that still found data.  (Unless the server is stopped, or
\* crashes in AcceptFails.)
SilentIsClosed ==
  \A fd \in Conns :
    peer[fd] # "none" ~> peer[fd] = "none" \/ fd \in ready \/ ~Running

\* SIGTERM stops the server, even one that spends its alarms on users[-1].
TermStops == "SIGTERM" \in signals ~> ~Running
=============================================================================

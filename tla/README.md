# Linux-Netzwerkprogrammierung: a verification project in TLA+

This directory models the programs of the repository whose behaviour depends on the order in which
threads, processes, signals, datagrams and socket events come: the web server in `src/cyw_webserver` with its
thread pool, timers and logger, and the lessons on locks, condition variables, signals, shared memory, TCP, UDP and
I/O multiplexing it grew out of. The models are written in TLA+, checked by TLC on small instances, and, for the
thread pool, the web server, the inactive-connection server, the logger, the echo servers, the thread programs, the parents that
wait for children and the shared memory programs, their safety is proved with TLAPS for every value of the constants.

Contents: [the system](#1-the-system), [the modules](#2-the-modules), [the runs](#3-the-runs),
[bounds](#4-bounds), [fairness](#5-fairness), [proofs](#6-proofs),
[where the code does not do what it says](#7-where-the-code-does-not-do-what-it-says),
[what is not modelled](#8-what-is-not-modelled), [plan](#9-plan), [how to run it](#10-how-to-run-it).

## 1. The system

### 1.1 Inventory

| Component | Files | State it keeps | Operations | Hard because of |
|---|---|---|---|---|
| Thread pool | `thradpool.h`, `locker.h` | list `m_workqueue`, mutex, semaphore, `m_stop` | `append()`, `run()`, destructor | preemption at every step; the semaphore is posted after the unlock; a destructor that waits for nobody |
| Web server | `main.cpp`, `http_conn.cpp` | array `users` indexed by descriptor, `m_user_count`, epoll instance, the current batch of events | accept, read, `append`, close, `process()` | workers use objects and descriptors that main may have closed and given to another client |
| Timer list | `noactive/lst_timer.h` | doubly linked list sorted by expiry | `add_timer`, `adjust_timer`, `del_timer`, `tick` | long sequences of operations at head, middle and tail; freed nodes |
| Inactive-connection server | `noactive/nonactive_conn.cpp` | clients with a timer each, a socket pair for signals, the flags `timeout` and `stop_server` | main loop, `sig_handler`, `timer_handler`, `cb_func` | signals at any step, edge-triggered events, timers racing data |
| Logger | `logsystem/log.cpp` (= `log.cpp`), `log.h` | open file, `toDay_`, `lineCount_`, `deque_`, a thread | `write`, `flush`, `AsyncWrite_`, destructor | a mutex that is released before what it should protect |
| Child reapers | `lesson25/sigchld.c`, `lesson43/server_process.c`, `lesson20/wait.c`, `waitpid.c` | the children, the signal mask, `errno` | fork, the handler, the loops around `wait()` and `waitpid()`, the accept loop | signals that do not queue and interrupt any step; a `fork()` that fails |
| Echo servers | `lesson46` – `lesson49_ET`; for one client `lesson42`, `lesson45` | the list of descriptors to wait on: `fd_set` and `maxfd`, `pollfd[]` and `nfds`, epoll | accept, read and answer, close | stale places in the list, level and edge triggering; a client that leaves before its answer |
| Producers and consumers | `lesson32` | linked list, mutex, condition variable or two semaphores | producer and consumer rounds | lost and spurious wake-ups |
| Tickets, rwlocks, deadlock | `lesson30_mutex`, `lesson31` | one number, one or two locks | sell, write, read | lost updates, crossed locks |
| Datagram programs | `lesson50_UDP`, `lesson51_boardcast`, `lesson52_Multicast` | one socket each, the number of the next request | `sendto`, `recvfrom` | datagrams are lost without notice; no timeout; the sender of an answer is not looked at |
| Shared memory | `lesson26_shared_memory` | the segment of a key, who is attached | `shmget`, `shmat`, copy, print, `shmdt`, `shmctl` | nobody knows who is first; removal while others are attached; kills |
| Everything else | the other lessons, `cpp_test` | mostly the kernel's | single system calls | see [section 8](#8-what-is-not-modelled) |

### 1.2 How the parts interact

The main thread of the web server waits in `epoll_wait()`. A connection is accepted into
`users[cfd]`; a readable one is read by the main thread until `EAGAIN` and a pointer to its object is given
to the pool with `append()`; a worker takes it, runs `process()`, and watches the descriptor again with
`EPOLLONESHOT`. Main and workers share the objects in `users` without a lock: what is meant to keep them apart is that
a descriptor is not reported while its request is under way. The pool's own list is shared under a mutex, and
a semaphore counts its entries. `WebServer` is therefore specified *on top of* the abstract pool `TaskPool`,
which `ThreadPool` is shown to implement: the model of the server has no mutex and no semaphore in it.

The inactive-connection server is a program of its own. Its signal handler only writes a byte into a socket
pair, so that signals become epoll events; `SIGALRM` sets a flag that is looked at after a batch of events,
and `tick()` then closes the connections whose timers have expired. `InactiveConn` uses the timer list
through the operators of `SortedTimers`, as the abstract `TimerQueue` does, which `TimerList` is shown to
implement.

The logger is used by no other file yet. The lessons are independent programs; a module that
covers several of them has a variable `program`, fixed by `Init`, that says which one runs. The datagram programs
do meet: they all use port 9999, so that `client_udp.c` may find a program of another lesson there, and the
announcements of lesson 51 and 52 arrive in the queue of the UDP server. The two programs of lesson 26 meet in the segment
of key 100.

### 1.3 What makes each part correct

- **Pool**: every request that was accepted is taken by exactly one worker, in order and eventually; `append()`
  always returns and refuses only when the queue is full; no wake-up is lost or in excess.
- **Server**: no event, slot or descriptor is used for the wrong connection; a connection whose one-shot
  report was used up is watched again; clients that leave are closed and bytes are read; the limit of users holds.
- **Timer list**: pointers form the sorted list, nothing leaks or dangles; `tick()` fires what is due, in order.
- **Inactive-connection server**: one timer per connection, also around the timers of `users[-1]` that a failing `accept()` adds; the chain alarm – signal – byte – flag never breaks;
  silent connections are closed; `SIGTERM` stops the server.
- **Logger**: no line is lost, doubled or out of order; rotation is exact where it can be; the destructor ends.
- **Reapers**: no zombie stays, although signals merge; `accept()` is not starved and not ended by a child; a parent
  that waits for its children ends after them.
- **Echo servers**: `read()` never blocks the loop, nothing that waits to be read is forgotten, everybody is served.
- **Datagrams**: each request is under way, answered once, or lost; answers come in order and belong to the last request;
  who waits for ever has lost something.
- **Shared memory**: no segment is left behind by programs that come to their end, all look at the same segment until
  somebody has removed it, and a reader sees the whole text once its writer has asked for a key.
- **Producers and consumers**: no node lost or freed twice, no `NULL` dereference, no lost wake-up, no deadlock.
- **Counters**: no update is lost under a lock, readers see a number that nobody writes, no other deadlock
  than the one that `deadlock_duo.c` demonstrates.

`PROJECT.json` lists under "hazards" where in the code each of these could go wrong, with the properties
that would notice. Where the model has what goes wrong, but no property is broken by it, the hazard has no property
and its note says so.

## 2. The modules

| Module | Models | Uses |
|---|---|---|
| `TaskPool` | what a client of the pool may rely on: a bounded FIFO of tasks | – |
| `ThreadPool` | `threadpool<T>` with the mutex and semaphore of `locker.h` | implements `TaskPool` |
| `ThreadPoolProofs` | theorems about `ThreadPool` | `ThreadPool`, TLAPS |
| `WebServer` | `main()` and `http_conn` | `TaskPool` |
| `WebServerProofs` | theorems about `WebServer` | `WebServer`, TLAPS |
| `SortedTimers` | sequences of timers sorted by expiry (pure operators) | – |
| `TimerQueue` | what a user of the timer list may rely on | `SortedTimers` |
| `TimerList`, `MCTimerList` | `sort_timer_lst` with its pointers | implements `TimerQueue` |
| `InactiveConn`, `MCInactiveConn` | `nonactive_conn.cpp` | `SortedTimers` |
| `NoactiveProofs` | theorems about `TimerList`, its refinement of `TimerQueue`, and `InactiveConn` | `TimerList`, `InactiveConn`, TLAPS |
| `AsyncLog` | `Log` | – |
| `AsyncLogProofs` | theorems about `AsyncLog` | `AsyncLog`, TLAPS |
| `ChildReaper` | `sigchld.c`, `server_process.c`, `wait.c`, `waitpid.c` | – |
| `ChildReaperProofs` | theorems about `ChildReaper` | `ChildReaper`, TLAPS |
| `EchoServers`, `MCEchoServers` | `select.c`, `poll.c`, `epoll.c`, `epoll_lt.c`, `epoll_ET.c`, `server.c`, `myserver.c`, `tcp_server.c` and their clients | – |
| `EchoServersProofs` | theorems about `EchoServers` | `EchoServers`, TLAPS |
| `ProdCons` | `prodcust.c`, `condition.c`, `semaphore.c`, `prodcust.cpp` | – |
| `SharedCounter` | lessons 30 and 31 | – |
| `NodeStack` | what the threads of lesson 32 may rely on: a stack of nodes with a limit | – |
| `ThreadPrograms` | `ProdCons` and `SharedCounter` as one system of nine programs | both; implements `NodeStack` |
| `ThreadProgramsProofs` | theorems about `ThreadPrograms` | `ThreadPrograms`, TLAPS |
| `Datagrams` | lessons 50 to 52 on one host | – |
| `SharedSegments` | `write_shm.c` and `read_shm.c` | – |
| `LessonsProofs` | theorems about `SharedSegments` and `Datagrams` | both, TLAPS |

The MC modules only hold values that a configuration file cannot express. Definitions whose comment says
"Seeded bug" are not part of the specifications: each is a plausible mistake in the definition after it, and
shows that a property would notice it.

### 2.1 `ThreadPool`

One action per step between two synchronisation points. A thread's place is `pc[t]`; the local variable
`request` of `run()` and the argument of `append()` are `request[t]`.

| Action | Code (`thradpool.h`) |
|---|---|
| `AppendCall`, `AppendLock`, `AppendTest` | entry of `append()`, `m_queuelocker.lock()`, `m_workqueue.size() >= m_max_requests` |
| `AppendReject` | unlock and `return false` |
| `AppendPush`, `AppendUnlock`, `AppendPost` | `push_back`, `unlock()`, `m_queuestat.post()` |
| `RunLoop` | `while(!m_stop)`, read without a lock |
| `RunWait`, `RunLock`, `RunTest`, `RunPop`, `RunUnlock`, `RunProcess` | the body of `run()` |
| `Destroy`, `RunUseAfterFree` | `~threadpool()`, and workers that go on in the freed object |

`m_stop` is an ordinary `bool` in an object that is freed: after `Destroy` a worker reads either value, and one
that touches the mutex or the list is in the state `"undefined"`. The refinement maps the queue to `pending`,
`request` of the workers to `running` and the clients in `AppendReject` to `refused`. A task may be `Null`: `append()`
does not look at the pointer and `run()` drops it.

### 2.2 `WebServer`

The kernel is `backlog`, `peer`, `unread` and, for epoll, per descriptor "level", "oneshot", "disabled" or not
watched. `EpollWait` reports at most `MaxEvents` ready descriptors in any order; the events of one batch are
then handled one by one, and clients and workers run in between. `accept()` returns the lowest free descriptor,
as Linux does, so descriptors are reused at once.

| Action | Code |
|---|---|
| `AcceptBusy`, `Accept`, `InitConn`, `AcceptFails` | `main.cpp` 117–136, `http_conn::init()` |
| `HandleHup` | `EPOLLRDHUP`, `EPOLLHUP`, `EPOLLERR` |
| `HandleRead` | `http_conn::read()` until `EAGAIN` or a full buffer |
| `HandleAppend` | `pool->append(users + sockfd)`, whose answer is ignored |
| `CloseFd`, `CloseSlot` | the two halves of `close_conn()` |
| `TakeTask` | `run()`, by `TaskPool` |
| `ProcessReadSock`, `ProcessClosed`, `ProcessRearm` | `process()` and `modifyfd()`: `m_sockfd` is read, then used |

The reading of `m_sockfd` and the `epoll_ctl()` that follows are two steps, so that the main thread can close the
connection and accept another on the same descriptor in between. `process_read()` always answers `NO_REQUEST`
in this version of the code, so `process()` always re-arms.

### 2.3 `TimerList`

`lst` holds `head`, `tail` and the `next` and `prev` of every node; `AddTimer`, `AdjustTimer`, `DelTimer` and
`AfterTick` are functions from the pointers before to the pointers after, written case by case as the code is.
The nodes that a loop over `next` goes through are `Chain`, a recursive function, and `Order` is the chain from `head`. `ListInit` is an
empty list; the actions of `ListNext` call the operations on any timer with any expiry time and clock, and
`Destroy` is the destructor. The refinement reads the list from `head` and maps it to `queue`.

`adjust_timer()` only moves a timer towards the tail, which is right as long as the clock goes forward.
The history variable `setBack` says that some timer got an earlier expiry than it had, since the list was last empty.
While it is true the list may be unsorted and implements no queue; the pointers must be right all the same.

### 2.4 `InactiveConn`

`Clock` is a second: the alarm counts down, and the timers in the list come nearer. `Kill` sends `SIGTERM`, once. `SigHandler` may run
between any two steps and moves a pending signal into `pipe`, with an edge on `Pipe`. `EpollWait` takes all
edges; `Accept` or `AcceptFails`, `ReadSignals`, `ReadData`, `ReadEnd` and `ReadNothing` handle one event each; `EndBatch` is the end
of the batch, with `timer_handler()` (`tick()`, `alarm()`) if `timeout` is set, and the end of the loop if
`stop_server` is. `tick()` goes from the head to the first timer that is not due: `NumDue` counts the timers before
that one, and one behind it would stay even if it were due; `del_timer()` is `Without`. `left[fd]` is the time until the timer of `fd` expires, so that no clock grows without bound.

`AcceptFails` is the -1 of `accept()` when no descriptor is left, which line 134 does not test. The address and the timer are then
written to `users[-1]`, in front of the array: the process may crash there, or it goes on with a timer in the list that belongs to
no connection (a member of `Orphans`; `NewTimer` is what both share). `tick()` calls back such a timer like any other, and `cb_func()` then closes
descriptor -1. The connection that could not be accepted stays in the backlog, and its edge is used up.

### 2.5 `AsyncLog`

A LOG macro is the sequence `Write` (the date), `Test` (line 95, without the lock), the choice of a name without
the lock, which line 98 has released (`Name`, the second test of `toDay_` in line 104; `NameOfDay` and `ResetCount`, the
writes of `toDay_` and `lineCount_` in lines 107 and 108, or `NameOfPart`, the name from `lineCount_` in line 111), `Reopen` (lines 114–118, under the lock), `Lock` and `AppendLine` (lines 122–144,
under the lock; `lineCount_++` is a load and a store, since `ResetCount` writes `lineCount_` without the lock),
`FlushLoad` and `Flush` (the final `flush()`, without the lock). `Pop` and `Store` are the thread,
`Destroy`, `Close`, `Join` and `CloseFile` the destructor. `BlockDeque` is not in the repository and modelled from its
use. A line is its number; `files` says which lines each file holds.

### 2.6 The lessons

- `ChildReaper`: `Deliver` starts the handler between any two steps of the parent, with `errno` = `EINTR` if it
  was inside `accept()`; `Reap` takes one zombie, `HandlerReturns` needs `waitpid()` to find none and leaves `ECHILD` in `errno`
  when no child is left. `CallAccept`, `AcceptReturns`, `AcceptFails`, `AcceptInterrupted`, `AcceptAgain`,
  `Exit`, `ServeClient` and `ForkFails` are the server's loop. `ForkChild`, `ForkChildFails`, `ForksDone` and
  `LastForkFailed` are the loop that the three other programs fork in; `Sigaction` and `Unblock` follow in `sigchld.c`,
  `WaitReturns` and `WaitFails` in `wait.c` and `waitpid.c` (whose polling once a second is `WaitReturns` when a zombie is there and
  no step when none is). The children end by themselves, when their client has left, or when somebody kills them
  (`ChildEnds`, `ServerChildEnds`, `ChildIsKilled`); those of a parent that has ended go to init.
- `EchoServers`: `Wait` is `select()`, `poll()` or `epoll_wait()`; `todo` holds the places that were reported;
  `Accept`, `ReadData`, `ReadMore`, `ReadEnd`, `ReadNoMore`, `ReadFails` handle them, and `AcceptFails` when no descriptor is left. What differs between the
  programs is an operator each: `Place` (where a new connection goes), `Extend` (`maxfd`, `nfds`), `ReadOn` (the loop of
  `epoll_ET.c`), `Turn` (the order of the events), `Reported`. The servers for one client begin at "accept": `AcceptOne`,
  then `ReadMore` until `ClientLeft` ends the server; `myserver.c` ends after one answer.
- `ProdCons`: a round is `SemWait`, `Lock` (which allocates the node; in `prodcust.cpp` that is `Make`, before the lock), `Read`/`ReadEmpty`, `Push`/`Pop`, `Unlock`, `SemPost`, `NextRound`, each where
  the program has it; `head` is read and written in two steps. `WakeSpuriously` ends a wait for no reason.
- `SharedCounter`: a thread locks, tests, loads, stores and unlocks; `deadlock_duo.c` has two locks, taken by `Lock` and
  `Lock2` and released by `Unlock2` and `Unlock`.
- `ThreadPrograms`: the initial states and steps of both, with `program`, the threads and their `pc` in common. The list implements
  `NodeStack`; its limit is `Places` in `semaphore.c`.
- `Datagrams`: `receiver` is the program that has bound port 9999, `queue` its socket. `Request`, `TakeAnswer` are the loop of
  `client_udp.c`; `Receive` and `Answer` that of `server_udp.c`, with `buf` in between; the programs that only print need `Receive` alone.
  `Announce` is an announcement that arrives. A datagram is its sender and number: an answer goes to whoever has the sender's
  port by then (`SentTo`), which may be another client, because a port is free again when its process was killed.
  `StartReceiver`, `KillReceiver`, `StartSender` and `KillSender` happen at any time. `lost`, `foreign` and `got` are history.
- `SharedSegments`: every process is at one of its system calls. `Shmget`, `Shmat`, `Shmdt` and `Shmctl` are the calls;
  `memcpy()` writes one byte per step, so that `Printf` may come in between; `ShmatFails` is the crash on the address -1.
  `Kept` and `Removes` are the kernel's rule that a removed segment lives until its last process leaves. `Kill` ends a process anywhere.

## 3. The runs

| Run | Configuration | States | What it asks |
|---|---|---|---|
| `pool` | `ThreadPool.cfg` | 35 319 | Does the pool behave as `TaskPool`, its liveness included, although it posts after unlocking, and may be deleted at any time? |
| `server` | `WebServer.cfg` | 1 326 308 | Do slots, sockets, epoll and the count of users agree, and is every client heard, when descriptors, users, the pool's queue and buffers run out? |
| `server_oneshot` | `WebServerOneShot.cfg` | violation | Can two workers process one connection? |
| `timer_list` | `TimerList.cfg` | 12 038 | Do the pointers form the sorted list that `TimerQueue` specifies, after every sequence of operations, and what is left of that when the clock is set back? |
| `inactive` | `InactiveConn.cfg` | 564 933 | Are silent connections closed, never breaks the chain of alarms, and does `SIGTERM` stop the server, with signals at every step and a timer that belongs to no connection? |
| `log` | `AsyncLog.cfg` | 91 640 | Are lines kept, ordered and stored across midnight, full files and the destructor? |
| `reaper` | `ChildReaper.cfg` | 15 659 | Does a zombie stay? Is `accept()` starved? Does a parent leave its children behind? |
| `reaper_errno` | `ChildReaperErrno.cfg` | violation | Can the end of children end the server? |
| `echo` | `EchoServers.cfg` | 511 622 | Does one of eight servers block in `read()`, forget bytes or a client? |
| `threads` | `ThreadPrograms.cfg` | 356 774 | Are nodes, wake-ups or updates lost, is `NULL` followed, and who can be stuck? |
| `datagrams` | `Datagrams.cfg` | 755 446 | What can a client of the UDP server rely on, when datagrams are lost and processes are killed? |
| `shared_segments` | `SharedSegments.cfg` | 2 723 932 | Is a segment left behind, who looks at the same one, and what does a reader see? |

The properties, by run:

- **pool.** `WakeupsMatchRequests`: semaphore, clients between push and post and workers between wait and pop
  account for the queue. `WokenFindsRequest`: the branch for an empty queue in `run()` is dead code.
  `ImplementsTaskPool`: FIFO order, refusal only when full, each request taken once and in the end.
  `AppendReturns`: nobody keeps the mutex.
- **server.** `SlotsMatchSockets`: `users`, the open sockets and the epoll instance agree between two events, and no buffer gets more
  than it holds. `EventsAreFresh`: no event of a batch is made stale by the ones before it. `DisabledIsPending`: a connection whose
  single report was used up is in somebody's hands, which is what makes the server's one-shot scheme work. `UserCountCovers`: the
  limit of users holds even when `accept()` fails (the count may drift upwards, never downwards). `ClientsAreHeard`: a client that leaves is
  noticed, and what one sends is read; the exception is what the model records in `refused`: the request of a connection that the pool
  turned away is forgotten, and nobody watches the connection again.
- **timer_list.** `ListWellFormed`: nothing leaks or dangles, and the list reads the same in both directions, whatever the clock does.
  `ImplementsTimerQueue`: order, and what `tick()` fires, as long as the clock was not set back; ascending order follows from it.
- **inactive.** `TimerPerConnection`: `users[fd].timer` never dangles, each connection has one timer, and the others in the list are those of
  `users[-1]`. `AlarmIsUnderWay`: `SIGALRM` is in exactly one of
  four places. `NoneOverdueAfterTick`: `tick()` leaves nothing that is due, also behind a timer of `users[-1]`. `SilentIsClosed`,
  `TermStops`.
- **log.** `LinesAreKept`: none lost, doubled, or, among those that were queued, out of order. `RotationIsExact` (one thread, no queue),
  `LinesAreStored`.
- **reaper.** `ZombieIsAnnounced` is the reason why `ZombiesAreReaped` holds for the handlers; `ParentEndsLast`: a parent that forks in a
  loop leaves children behind only if its last `fork()` failed; `ConnectionsAreAccepted`.
- **echo.** `ReadsAreReady`, `UnreadIsAnnounced`, and `ClientsAreServed`, which holds of every server but `epoll_ET.c`.
- **threads.** `NodesAreAccountedFor`; `SemaphoresAccount`, which also says that `head` is not `NULL` where `semaphore.c` follows it;
  `ImplementsStack`: each is put on top and taken from there
  in one step, as seen from outside;
  `NoUpdateIsLost`, which also says that readers see the number as it is; `OnlyCrossedLocksBlock`; and `EveryThreadGoesOn`: in a
  program with endless producers some consumer goes on consuming, and the threads of a program that has an end reach it (which does not speak of
  `rwlock.c`, whose threads are endless, and of `deadlock_duo.c`); even
  `selltickets.c`, where a stale store can bring sold tickets back and the number falls further below zero than
  the number of threads suggests, comes to its end.
- **datagrams.** `RequestsAccount`: what is under way to a client and what was lost make up for what it waits for and what it has taken from
  others. `AnswersFit`: the answers come in the order of the requests; a client is behind by no more answers than it has taken that were
  meant for a process that was killed. `AnsweredOrLost`: a client waits for ever only after a loss.
- **shared_segments.** `SegmentsAreFreed`: a segment that is not in use has the key, and a process that will remove it or was killed.
  `ApartOnlyAfterRemoval`: processes look at different segments, or find theirs gone, only after one that has ended removed it.
  `PromptedTextIsWhole`: after the writer's prompt a reader sees the whole text; before it any part.

Each module has one type invariant. The runs of `ThreadPool` and `ChildReaper` check theirs; the others
were checked while the modules were written, say what the variables hold, and are what proofs begin with.

## 4. Bounds

Every bound is a constant. Those of the program are scaled down so that the limit is reached within a few steps:
`MaxRequests` 1 or 2 for 1000, `BufferSize` 3 for 2048, `MAX_LINES` 2 for 50000, `Capacity` 2 for
1024, `Places` 2 for 8, `Tickets` 3 for 100, `ReadSize` 2 for 63. Those of the environment cut off what the program does
not count: `MaxBacklog`, `MaxUnread`, `MaxClients`, `MaxLogged`, `MaxDay`, `MaxNodes`, `FdLimit`.

- **pool**: two clients, two workers, a queue of two, two requests. Two of each are needed for every race the code has (two
  clients that both saw room, two workers that were both woken); the proofs cover every number.
- **server**: descriptors 2 and 3 with `MAX_FD` 3, so that descriptor 3 indexes `users` outside; three clients, so that `accept()`
  fails; a queue of two and one worker: a connection is reported again while its first request is queued (the missing one-shot), both
  requests are of one connection, and a third is refused. A buffer of three bytes gets full after several reads. `MaxEvents` is 3, so that every
  `epoll_wait()` reports all ready descriptors. (With a smaller number the kernel could leave one out
  for ever in the model; Linux rotates its ready list.) With two workers, who may then be at the
  same connection, and a queue of one the same properties hold (2 831 360 states, five minutes).
- **server_oneshot**: two workers, two clients.
- **timer_list**: four timers reach first, last, only and two middle nodes; four times make ties and gaps, and let a timer
  get an earlier expiry than it had.
- **inactive**: two descriptors for connections whose timers last three time slots; two more connections can wait, so that `accept()` fails and a
  later one succeeds. At most one timer of `users[-1]` is in the list (`Orphans`); a new one can come when it has expired. Whoever gets the first descriptor may
  have three bytes waiting, of which one `recv()` takes two, so that data can stay behind an edge that was used up, and an edge can find that its data was read
  with an earlier one; whoever gets the second is silent, and its timer goes from the end of the list to the head. (When both may send, two bytes
  in all of which one `recv()` takes one, the properties hold too, with a backlog of one: 1 030 429 states.) The proofs cover every number of each.
- **log**: three lines: rotation by size, rotation by date and a full queue all happen.
- **reaper**: three children: two may end while the handler runs for the first; three rounds of the loop that forks, of which any may fail.
  **echo**: three descriptors for connections, and a backlog of two, so that `accept()` fails; the second highest descriptor can be closed and taken again while the highest is in use. Buffers are larger
  and smaller than a request.
- **threads**: two threads of each kind; a producer or consumer can find that its fellow was faster.
- **datagrams**: two clients, so that one can take over the port of the other; a broadcaster and a multicaster, which share the two ports with
  them and fill the queue of two; two requests per client, so that an answer can be the one before. (Three requests per client were checked
  too: 2 073 198 states.)
- **shared_segments**: three writers, so that a second and a third segment are created while the first is in use; two readers; a text of two
  bytes can be half written. The proofs cover every number.

`CHECK_DEADLOCK` is off in the passing runs: the modelled programs end, crash or run only when clients act. That nobody
waits for ever is stated by the liveness properties instead, and for the locks by `OnlyCrossedLocksBlock`.

## 5. Fairness

- Threads and processes that can run do run (`WF` of each one's steps): the kernel's scheduler.
- A thread that waits for a mutex, a read-write lock or `std::mutex` gets it if it becomes free again and again (`SF` of the
  locking step). POSIX does not promise this; with weak fairness alone `AppendReturns`, `EveryThreadGoesOn`
  and `LinesAreStored` would be about the lock and not about the code. It is not assumed of
  semaphores.
- Pending signals are delivered; time passes in `InactiveConn`.
- The network owes nothing: in `Datagrams` only the reading of what has arrived is fair (`Serve`, `TakeAnswer`).
- Clients owe nothing: they may never send, never leave, never connect. Nobody has to log, call `append()` or
  delete the pool, to kill or to start a process, and a wait on a condition variable need not end without a signal.

## 6. Proofs

TLAPS checks eight modules; the constants are arbitrary up to the assumptions in the modules. Each has the same shape: an
invariant `IInv`, a lemma for each action that keeps it, `Inductive` (or its like), and theorems for what follows. TLC has
checked each `IInv` on the instances of section 4. `SafeSpec` is `Init /\ [][Next]_vars`, the specification without its fairness;
`Spec` implies it.

| Property of a run | Theorem |
|---|---|
| `WakeupsMatchRequests`, `WokenFindsRequest` | `ThreadPoolProofs`: `WakeupAccounting`, `EmptyBranchIsDead` |
| `ImplementsTaskPool`, its safety | `ThreadPoolProofs`: `Refinement` |
| `UserCountCovers`, `SlotsMatchSockets`, `EventsAreFresh`, `DisabledIsPending` | `WebServerProofs`: `UserCountAlwaysCovers`, `SlotsAlwaysMatchSockets`, `EventsAreAlwaysFresh`, `DisabledIsAlwaysPending` |
| `ListWellFormed`, `ImplementsTimerQueue` | `NoactiveProofs`: `ListIsWellFormed`, `ListImplementsQueue` |
| `TimerPerConnection`, `AlarmIsUnderWay`, `NoneOverdueAfterTick` | `NoactiveProofs`: `TimersMatchConnections`, `AlarmIsNeverLost`, `TickLeavesNoneOverdue` |
| `LinesAreKept`, `RotationIsExact` | `AsyncLogProofs`: `NoLineIsLost`, `SingleThreadRotatesExactly` |
| `ReadsAreReady`, `UnreadIsAnnounced` | `EchoServersProofs`: `ReadsNeverBlock`, `NoBytesAreForgotten` |
| `NodesAreAccountedFor`, `SemaphoresAccount`, `NoUpdateIsLost` | `ThreadProgramsProofs`: `NodesAreNeverLost`, `SemaphoresAlwaysAccount`, `UpdatesAreNeverLost` |
| `ImplementsStack` | `ThreadProgramsProofs`: `ListIsAStack` |
| `OnlyCrossedLocksBlock`, with guards for `ENABLED` | `ThreadProgramsProofs`: `OnlyTheDuoIsStuck` |
| `ZombieIsAnnounced`, `ParentEndsLast` | `ChildReaperProofs`: `NoZombieOverlooked`, `OrphansOnlyAfterFailedFork` |
| `SegmentsAreFreed`, `ApartOnlyAfterRemoval`, `PromptedTextIsWhole` | `LessonsProofs`: `SegmentsFreed`, `ApartAfterRemoval`, `PromptedWhole` |
| `RequestsAccount`, `AnswersFit` | `LessonsProofs`: `RequestsAreAccounted`, `AnswersAreInOrder` |

**`ThreadPoolProofs`** (from `PoolAssumption`: finitely many threads, at least one worker, a positive queue limit,
the constructor's own conditions). The inductive invariant `IInv` is `TypeOK`, `MutualExclusion`, `QueueBounded`,
`WakeupsMatchRequests`, `WokenFindsRequest` and three facts that make them inductive: a client at "push" has room
(`PusherHasRoom`), a worker at "pop" has a request (`PopperHasRequest`), and a worker that has not popped holds none
(`FreeWorker`), with `NoAppendAfterStop` for the destructor.

The argument: the three counts of `WakeupsMatchRequests` change together: push adds an entry and an element of
`Unposted`, post moves it into the semaphore, wait moves it into `Woken`, and pop removes it from there and from the queue.
A worker at "test" is in `Woken`, so the sum is positive and the queue cannot be empty
(`WokenImpliesNonempty`); this is why the branch for an empty queue is dead, and it needs the accounting, not the mutex
alone. What a thread learned at "test" stays true until it acts because only the holder of the
mutex changes the queue.

`Refinement`: the pool implements the safety part of `TaskPool`. Taking a request is `Take`, the push is `Submit`, `AppendTest`
with a full queue is `Refuse`, and all other steps stutter.

**`WebServerProofs`** (from `ServerAssumption`: at least one worker and finitely many of them, positive limits, descriptors that
begin above the one of the listening socket; `MAX_FD` may be smaller or larger than the descriptors a process may have). `IInv`
adds to the properties: what the main thread knows of the connection it is at (`MainKnows`); that slot, socket and epoll agree on
each other descriptor (`SlotsAgree`); that a batch holds one event of a descriptor and none of the one in hand (`BatchIsDistinct`);
that a worker that has read `m_sockfd` is at the task of that slot (`SocksAreRead`); and how `m_user_count` bounds the slots that
are taken, with the one that `init()` is about to take (`CountCovers`). The argument for `DisabledIsPending`: a report disables a
descriptor and puts its event into the batch; from there it goes to the main thread, the queue, a worker that has not read
`m_sockfd` and one that re-arms, and each step hands it on or, when the pool is full, records it in `refused`.
`EventsAreFresh` holds because handling an event closes no other descriptor than its own, and `accept()` returns one that
was free when the batch was taken, or has been closed by an event that is no longer in it.

`UserCountCovers` is an inequality, because `AcceptFails` counts users that do not exist. `AtMostMaxFdConnections` is what it is good
for: the test of `m_user_count` keeps the connections at `MAX_FD` in spite of the drift.

**`NoactiveProofs`** has three parts. The first is about the operators of `SortedTimers`: `PlaceSorts` (`add_timer()` puts a timer
that is not in the list where the order needs it), `WithoutKeeps` and `RestOf` (a list without one timer, or without the first ones,
is in order still), and which timers each of them leaves.

The second is the list on its pointers (from `ListAssumption`: finitely many cells, any set of expiry times with 0, which is what a
new cell holds). `Links(l, q)` says that the pointers `l` are those of the sequence `q`: `head` and `tail` its ends, `next` and `prev` of each
member its neighbours, `NULL` outside; `tail` means nothing in an empty list, where `tick()` leaves it dangling. `ChainIs` reads `q`
back from the pointers: its recursive equation has a solution, `q` followed by `NULL` (`WalkValue`), and no other, since at the first place where one differs the
equation fails (`WalkIs`). For each operation there is a lemma that turns the `Links` of `q` into those of the sequence after it: `LinkIn` behind
the `j`-th, `LinkOut` without the `k`-th, `LinkRest` without the first `n`; `AddTimerIs`, `AdjustTimerIs`,
`DelTimerIs` and `AfterTickIs` go through the cases of the code (only, first, last, middle) and end in one of the three.
`InsertionPointIs` says where the walk of `add_timer()` stops.

`ListIInv` is `Links` of `Order`, whose members are exactly `allocated`; freed cells that hold nothing; and, while `setBack` is false, the order by
expiry. It implies `ListWellFormed`, whose length needs that no member is there twice (`LengthOfInjective`). For `ListImplementsQueue` each
`...Step` lemma shows with the invariant that the list's step is the one of `TimerQueue` with the same name: the walk stops behind
all timers that expire no later, which is `Place` if the list is sorted, also when `adjust_timer()` starts it behind the timer instead
of at the head, or leaves the timer where it is (`PutBack`). `TickFiresThoseDue` says what this means for `tick()`: it calls back only timers that
are due, and all of them in order unless the clock was set back.

The third is the server (from `InactiveAssumption`: finitely many connections and timers of `users[-1]`, a positive time slot). `IInv` is `TypeOK`, `ListOK` (the list is sorted by the time that is left, holds no
timer twice, and holds of the connections those that are open), `ClosedIsEmpty`, `EdgesOK` (an edge of the listening socket stands for a connection
that waits, so that `accept()` does not find the backlog empty) and `AlarmInOnePlace`.

`TickLeavesNoneOverdue` is an action property: `tick()` stops at the first timer that is not due, and in a list in order
all behind it are not due either (`DueAreFirst`). That the list stays in order while time passes needs that `Clock` brings all
timers nearer by the same, down to zero, and that data moves a timer behind all others. A timer of `users[-1]` is in this order
as any other, which is why it hides none.

**`AsyncLogProofs`** (from `LogAssumption`: finitely many threads that may log, at least one; a positive capacity and `MAX_LINES`).
`IInv` has two independent parts besides types, the mutex and what the destructor has waited for (`Emptied`). `LinesInv`: each line up
to the last is in the queue, with the thread that stores, or in a file (`Placed`), in one of these once (`EachOnce`), and those in the queue
are younger than the one that is being stored, which is younger than all that were queued and stored (`QueueAscends`). A rotation, which
no lock protects, changes only where the next line goes, so it cannot break this; that the name it opens is in `Names` needs
`RoomForLines`, which bounds `lineCount_`.

`SoloInv` is about a single thread without a queue: outside of a rotation `lineCount_` is the number of lines in the files of the day
before the open one, `part * MAX_LINES`, and in the open one (`Rotates`). So `lineCount_ % MAX_LINES = 0` at the test means that this file is
full (`WholeFiles`, `PartFile`), `lineCount_ / MAX_LINES` is the next part, and the file of the new name is empty because all later ones
are. The order of the names is by day, then by part, with the plain name first. With a second thread none of this holds: what
was read at the test can be old at the rotation.

**`EchoServersProofs`** (from `EchoAssumption`: any number of descriptors above the listening one, any positive size of
request and, for each program, of buffer). `IInv` adds to the two properties `PlacesOK` (a place of the list holds an open connection, each
connection has at most one place, in `fd_set` and epoll the one of its number; all those of `epoll_ET.c` have one), `AcceptsAreReady` (when the
listening socket was reported a connection waits, so that `accept()` does not block), `RoundOK` (no event is left when the server waits; the connection in the loop of `epoll_ET.c` has no other event), `OneClientOK`
and `ClosedIsEmpty`. `ReadsAreReady` is preserved by the server's steps because a place is read for its own event only, once in a
round, and `Accept` takes a place that was empty, so that it was not reported, with an exception: `poll()` leaves `revents` of
places it was not given (`garbage`). That is why the property, here as in the run, is about servers with `garbage = {}`. The proof of
`UnreadIsAnnounced` is where edge and level triggering differ: a partial `read()` of `epoll_ET.c` keeps `cur`, and bytes
that come in between raise the edge again.

**`ThreadProgramsProofs`** (from `ProdConsAssumption` and `CounterAssumption`: finitely many threads, as many producers as
consumers, as in all four programs; `MaxNodes`, the heap, is any number above `Places`). `IInv` is `ListInv` for the programs of
lesson 32, `CounterInv` for those of lessons 30 and 31. In `ListInv`, whoever is between a lock and its unlock holds the mutex
(`HolderIsInside`), so that `seen`, which `Read` has copied from `head`, is still the list when `Push` or `Pop` writes it
(`SeenIsList`); a producer owns its node from the lock, in `prodcust.cpp` from before it, to the push (`NewNodeIsHeld`); the rest is the accounting of both semaphores
(`SemaphoresAccount`), the same argument as the pool's from two sides: a producer between its waits and its post has
a place in hand, a consumer there has a node. It implies that a consumer of `semaphore.c` never reads `NULL`, which it does
not test for. `CounterInv` is mutual exclusion by the mutex or the read-write lock (`SellerIsInside`, `RWLockExcludes`) and what
follows for a number that was loaded but not stored (`SellerHasTested`, `WriterHasLoaded`); `WritesAreCounted` sums finished
rounds over the writers (`FinishedRounds`), one more with each store.

`ListIsAStack`: `Push` and `Pop`, the two writes of `head`, are the steps of the abstract stack with the same names; its limit
is respected in `semaphore.c` by the accounting, and in the other programs because the heap has no more nodes
(`ListFits`). All other steps, and all those of the other programs, stutter.

`OnlyTheDuoIsStuck` is `OnlyCrossedLocksBlock` with the guard of a thread's next step, `CanGo`, in place of `ENABLED`, about which the provers know
nothing; TLC found both equal in all states of `threads`. While one thread is not done, some thread can go: who holds a lock is
past it and waits for no other (`HoldersCanGo`), except in `deadlock_duo.c`, and if nobody holds one, any thread can
take it. The invariant gains `DuoHolds` (what each of the two holds shows in where it is) and `HoldersFit`
(`selltickets.c` locks nothing, only readers share).

**`ChildReaperProofs`** (from `ReaperAssumption`): `ReaperTypeCorrect`, `NoZombieOverlooked` and
`OrphansOnlyAfterFailedFork`. `IInv` adds `BlockedUntilHandled` to `TypeOK`, `ZombieIsAnnounced` and `ParentEndsLast`: in the two programs
with a handler, the signal is blocked until that is registered, so that it is pending and not discarded when a child ends
early. A child that ends raises the
signal; delivery turns it into a running handler; and the handler returns only when `waitpid()` finds no zombie. `wait.c` and
`waitpid.c` leave their loop only when there is no child, and nothing forks after that.

**`LessonsProofs`** has two parts. Shared memory (from `SegmentsAssumption`: finitely many processes, no one both writer and reader, a text that is
not empty): `SegmentsFreed`, `ApartAfterRemoval` and `PromptedWhole`. What `SegmentsIInv` adds to `SegmentsTypeOK` and `SegmentsAreFreed`: no writer
creates two segments (`CreatedByStarted`, which bounds the identifiers); a process is attached exactly from `shmat()` to `shmdt()`, to a
segment that exists (`AttachedIds`); a segment that was created has the key still, or a process that is "done" had it
(`RemovedByDone`); and what a writer has copied is in its segment (`CopiedIsInText`). The argument for `ApartAfterRemoval`: of two
different segments one is not the key's, and that one was removed by a process that has ended. `PromptedTextIsWhole` is an action property:
it follows from `CopiedIsInText` in the state before the step.

Datagrams (from `DatagramsAssumption`): `DatagramsTypeCorrect`, `RequestsAreAccounted` and `AnswersAreInOrder`, for any number of
clients, servers, ports and requests and any length of a socket's queue. A datagram of client `c` is in one of three places, its socket,
the server's buffer or the server's socket, and the concatenation of the three is `c`'s datagrams in the order in which they were sent. `Count` is
how many are from `c`; it adds up over `\o`, `Append` and `Tail` (`CountConcat`, `CountAppend`, `CountTail`), so that each step moves one from one term of
`PlacesAccount` to another: sending and receiving, losing (`lost`), and taking what was meant for somebody else (`foreign`). `OrderKept` says that the
numbers of `c`'s datagrams ascend between `got` and `num` (`Ordered`; `OrderedSkip` and the like keep it when one is taken, lost, or added at the
end), so an answer is always newer than the last one. `LagFits` bounds how far `c` is behind by what it took from others, which happens only if a
client with its port was killed. That needs to know whose datagrams can come to `c` at all: its own, and those of processes
killed at its port (`SentByKnown`, `Owners`), because no two processes that run have the same port (`PortsDiffer`).

Only model-checked:

- All liveness: `AppendReturns`, the fairness of `ImplementsTaskPool`, `ClientsAreHeard`, `SilentIsClosed`, `TermStops`, `LinesAreStored`,
  `ZombiesAreReaped`, `ConnectionsAreAccepted`, `ClientsAreServed`, `EveryThreadGoesOn`, `AnsweredOrLost`. The provers here have no rules for
  `ENABLED`, which fairness rests on.
- The equality of `CanGo` and `ENABLED`, for the same reason; hence `OnlyCrossedLocksBlock` in the form that the run checks.
- The counterexamples of section 7, which are behaviours of one instance.

## 7. Where the code does not do what it says

Two runs end in a counterexample: a comment says what the code does not do.

- **`server_oneshot`**: `event.events | EPOLLONESHOT;` (`http_conn.cpp:27`) has no effect, so a new connection is reported
  until its first request was processed. It can be queued twice, and two workers process it at once.
- **`reaper_errno`**: the handler of `server_process.c` leaves `ECHILD` in `errno` if it runs between the failing `accept()`
  and the test of `errno`; the server then ends, although the comment at line 91 says it goes on.

Other surprises are part of the models, and the properties make an exception of exactly them:

| Where | What the code does | In the model |
|---|---|---|
| `http_conn.cpp:82` | a buffer that gets exactly full makes `recv()` return 0, as a close does | `ReadSucceeds` |
| `http_conn.cpp:54` | a slot that is used again keeps `m_read_idx` of its last client | `InitConn` |
| `main.cpp:124` | the result of `accept()` is not tested: `users[-1]` is written and a user counted | `AcceptFails` |
| `main.cpp:128` | users are counted, the array is indexed by descriptor | `Accept`, "crashed" |
| `main.cpp:148` | the answer of `append()` is ignored: a refused connection is never watched again | `refused` |
| `thradpool.h:85` | the destructor wakes and joins nobody | `Destroy`, `RunUseAfterFree` |
| `lst_timer.h:76` | `adjust_timer()` only moves timers back: the list is unsorted after the clock was set back | `setBack`, an exception of `ImplementsTimerQueue` |
| `nonactive_conn.cpp:177` | one `recv()` per edge: the sender of a long message is closed as idle | `ReadData`, `TakeEdges` |
| `nonactive_conn.cpp:134` | one `accept()` per edge | `Accept` |
| `nonactive_conn.cpp:134` | the result of `accept()` is not tested: `users[-1]` is written, and its timer put into the list | `AcceptFails` |
| `nonactive_conn.cpp:101` | the `epollfd` of `main()` hides the one that `cb_func()` uses, which stays 0: its `epoll_ctl()` fails, and only `close()` takes the descriptor out of epoll | `CloseAll` |
| `select.c:53`, `poll.c:54`, `epoll.c:68`, `epoll_lt.c:68`, `epoll_ET.c:70` | the result of `accept()` is not tested: -1 goes to `FD_SET()`, `pollfd[]` or `epoll_ctl()` | `EchoServers.AcceptFails` |
| `log.cpp:98` | the lock is released before the rotation is decided: at midnight threads can rotate back and forth, and the file of one day gets lines of the other | `Test`, `NameOfDay`, `Reopen` |
| `log.cpp:171` | `flush()` without the lock may use a closed `FILE` | `Flush`, "crashed" |
| `poll.c:70` | `revents` of places that `poll()` was not given is never written | `garbage` |
| `epoll_ET.c:92` | `read()` = -1 does not end the loop: the server spins on one client, the branch "data over" is dead, connections are never closed | `ReadOn`, `ReadNoMore` |
| `select.c:71` and others | a client's reset makes `read()` fail and ends the server | `ReadFails` |
| `myserver.c:86` | `write(cfd, &data, …)` sends the bytes of the pointer, not the text | an answer has no content |
| `tcp_server.c:83` | `strlen(recvBuf) + 1` bytes are answered: a request without its end, or shorter than the last, is followed by what the buffer held | an answer has no content |
| `sigchld.c:56`, `wait.c`, `waitpid.c` | only the result of the last `fork()` is looked at; if it is -1 the parent ends and leaves its children behind | `LastForkFailed` |
| `client_udp.c:39` | no timeout, and any datagram is taken for the answer | `lost`, `foreign` |
| `broadcast_server.c:27` | the text is sent without its NUL; `server_udp.c` and `multicast_client.c` print it as a string | a datagram has no text |
| `broadcast_client.c:31` | `buf[len] = '\0'` is one byte outside for a datagram of 128 bytes | not modelled: no program here sends one |
| `read_shm.c:9` | size 0 with `IPC_CREAT`: the reader cannot create a segment, and crashes when it starts first | `Shmget`, `ShmatFails` |
| `write_shm.c:13` | the -1 of `shmat()` is used as an address | `ShmatFails` |
| `server_process.c:100` | the parent never closes `cfd` and runs out of descriptors | `held`, `AcceptFails` |
| `prodcust.cpp:37` | the comment speaks of sleeping after unlocking, but the lock is held until the end of the body | `NextRound` |
| `main.cpp:26` | `sigaction()` is commented out, so `SIGPIPE` is not ignored | not modelled: nothing is written to a client yet |

## 8. What is not modelled

Whole components, also listed in `PROJECT.json`:

| Component | Why |
|---|---|
| `lesson44` (a thread per client) | unfinished: the file does not compile (no semicolon after `struct sockArg`), `working()` is empty and is passed `NULL` |
| `lesson53_local_socket` | `local_server.c` does not compile (`ret` is declared twice, lines 20 and 28) |
| `lesson23`, `lesson24`, the rest of `lesson25` | one system call, or one signal set, each; a signal that is blocked, pending and delivered is in `ChildReaper` and `InactiveConn` |
| `lesson18`, `lesson19`, the rest of `lesson20` | one system call each |
| `lesson22` | `copy.c` is sequential; in `mmap-parent-child-ipc.c` the parent waits for the child before it reads |
| `lesson27_Daemon` | a fixed sequence of calls, then a timer that writes the time to a file |
| `lesson41_ip`, `lesson09` to `lesson17` | single library or system calls with printed results: no state of their own |
| `lesson08_gdb` | two sorts in a debugger exercise |
| `lesson02`, `lesson04` to `lesson07`, `cpp_test` | four arithmetic functions that demonstrate compilers and CMake; generated build files |
| `resources/` | static pages no code reads yet |

Parts left out of components that are modelled:

- **Start-up**: command lines, `socket()`, `bind()`, `listen()`, `epoll_create()` and `pthread_create()` succeed. When one of
  them fails, the programs print a message and end before anything concurrent happens.
- **Web server**: the branch for `EPOLLOUT` in `main()` (no code asks for that event; besides, `events && EPOLLIN` in line 144
  is true of every event, so the branch is dead; its `write()` only prints), the shutdown after a failing
  `epoll_wait()`, and what `process()` will parse: today `process_read()` always returns `NO_REQUEST`.
- **`locker.h`**: the class `cond`, which nothing uses; the semaphore and the mutex are part of `ThreadPool`.
- **Log**: a second `init()`, the levels and the text of a line. A line is a number, a file is a day and a part. The lock that `write()` takes
  in line 97 and releases in line 98 orders nothing, and is no step.
- **Inactive-connection server**: the array `users` is the set of connections, and the list is used through
  its specification; the pointers are in `TimerList`.
  Descriptors are never `FD_LIMIT` (65535) or more, which would index `users` outside at its other end. That a client may speak between
  `epoll_wait()` and the `timer_handler()` of line 217, and is then closed with what it sent unread, is in the model; no property forbids it.
- **Locks**: `main()` of `rwlock.c` waits for a key (line 72) and then destroys the lock that eight threads use; the model has the threads without
  that end. The other programs destroy their locks behind `pthread_exit()` or an endless loop, never or after all threads have ended.
- **Echo servers, reapers**: the content of a message; its length is kept where a buffer can be too small.
- **The kernel**: sockets, signals, epoll and semaphores are modelled from how these programs use them, and
  marked external in `PROJECT.json`.

## 9. Plan

Done: pool and its abstract specification; web server on the abstract pool; timer list and its abstract queue;
inactive-connection server; child reapers; echo servers for many clients and for one; producers and consumers; locks; logger;
datagrams; shared memory. Every program of the repository with a state that several actors share, and that compiles, has a module.

What could still be stated: one echo service that the select, poll and epoll servers
implement until the step where each of them departs from it; a log that keeps every line in order for `AsyncLog`.

Proofs: every safety property of the runs is a theorem, `OnlyCrossedLocksBlock` with the guards in place of `ENABLED`. What is left is
liveness, which needs a prover with rules for `ENABLED`. The first candidates are `AppendReturns` and `AnsweredOrLost`, whose
invariants are proved.

## 10. How to run it

With TLC and the community modules on the path, in this directory:

```
tlc -workers 2 -config ThreadPool.cfg ThreadPool.tla      # a run: module and .cfg as in section 3
tlc -workers 2 -config WebServer.cfg WebServer.tla
tlc -workers 2 -config TimerList.cfg MCTimerList.tla      # values that a .cfg cannot express (as for EchoServers and InactiveConn)
tlapm ThreadPoolProofs.tla                                 # the proofs
tlapm ChildReaperProofs.tla
tlapm LessonsProofs.tla
tlapm WebServerProofs.tla
tlapm NoactiveProofs.tla
tlapm AsyncLogProofs.tla
tlapm EchoServersProofs.tla
tlapm ThreadProgramsProofs.tla
```

`PROJECT.json` lists the components, the runs, the hazards with the properties that cover them, for every
definition the lines of `src/` it models (`map`), and for every property a mutation of the model that violates it
(`mutants`: the definitions marked "Seeded bug" in the modules, put in the place of the one they are
next to). `server` takes two minutes, `inactive`, `threads` and `echo` about one, the others half a minute or less.

----------------------------- MODULE ThreadPool -----------------------------
(***************************************************************************)
(* The thread pool of the web server: threadpool<T> (thradpool.h) with the *)
(* mutex and the semaphore of locker.h.  Clients call append(); a worker   *)
(* runs run() for ever.  Every lock, test, queue operation, unlock and     *)
(* semaphore operation is a step of its own, so a thread can be preempted  *)
(* between any two of them: in particular append() posts the semaphore     *)
(* only after it has released the mutex.                                   *)
(*                                                                         *)
(* The destructor frees the pool under the workers' feet.  What a worker   *)
(* reads from the freed object is chosen nondeterministically; a worker    *)
(* that goes on to the destroyed mutex or list is in the state             *)
(* "undefined", about which nothing more is said.                          *)
(***************************************************************************)
EXTENDS Naturals, Sequences, FiniteSets

CONSTANTS
  Producers,     \* threads that call append()
  Workers,       \* the threads created by the constructor
  Requests,      \* the values of T*, without the null pointer
  Null,          \* the null pointer; run() skips it
  NoThread,      \* the owner of a free mutex
  MaxRequests,   \* m_max_requests
  Destroyed      \* whether the owner of the pool ever deletes it

Threads == Producers \cup Workers

\* The constructor throws unless both of its arguments are positive.
ASSUME PoolAssumption ==
  /\ IsFiniteSet(Producers)
  /\ IsFiniteSet(Workers)
  /\ Workers # {}
  /\ Producers \cap Workers = {}
  /\ NoThread \notin Threads
  /\ Null \notin Requests
  /\ MaxRequests \in Nat \ {0}
  /\ Destroyed \in BOOLEAN

VARIABLES
  m_workqueue,     \* the list of requests, front first
  m_queuelocker,   \* the thread that holds the mutex, or NoThread
  m_queuestat,     \* the value of the semaphore
  m_stop,          \* set by the destructor, after which the pool is freed
  request,         \* the argument of append(), the local variable of run()
  pc               \* where each thread is

vars == <<m_workqueue, m_queuelocker, m_queuestat, m_stop, request, pc>>

ProducerStates == {"idle", "lock", "test", "push", "unlock", "post", "reject"}
WorkerStates == {"loop", "wait", "lock", "test", "pop", "empty", "popped",
                 "process", "exited", "undefined"}

\* The states in which a thread holds the mutex, if the mutex works.
CriticalStates == {"test", "push", "unlock", "reject", "pop", "empty", "popped"}

-----------------------------------------------------------------------------
\* The constructor: an empty queue, sem(0), and every worker about to run().
Init ==
  /\ m_workqueue = <<>>
  /\ m_queuelocker = NoThread
  /\ m_queuestat = 0
  /\ m_stop = FALSE
  /\ request = [t \in Threads |-> Null]
  /\ pc = [t \in Threads |-> IF t \in Producers THEN "idle" ELSE "loop"]

Goto(t, from, to) == pc[t] = from /\ pc' = [pc EXCEPT ![t] = to]

\* Seeded bugs: unlock() is left out, wait() does not block, post() counts to
\* one only, or twice, and the newest request goes first.
UnlockSkipped(t) == UNCHANGED m_queuelocker
SemWaitUnblocked == m_queuestat' = m_queuestat - 1
SemPostBinary == m_queuestat' = 1
SemPostTwice == m_queuestat' = m_queuestat + 2
PushFront(r) == m_workqueue' = <<r>> \o m_workqueue

\* locker::lock() and locker::unlock().
Lock(t) == m_queuelocker = NoThread /\ m_queuelocker' = t
Unlock(t) == m_queuelocker = t /\ m_queuelocker' = NoThread

\* sem::wait() blocks at zero; sem::post() adds one.
SemWait == m_queuestat > 0 /\ m_queuestat' = m_queuestat - 1
SemPost == m_queuestat' = m_queuestat + 1

\* m_workqueue.push_back().
PushBack(r) == m_workqueue' = Append(m_workqueue, r)

-----------------------------------------------------------------------------
(* append(r), called by p.  Its caller does not use a deleted pool.        *)

AppendCall(p, r) ==
  /\ ~m_stop
  /\ Goto(p, "idle", "lock")
  /\ request' = [request EXCEPT ![p] = r]
  /\ UNCHANGED <<m_workqueue, m_queuelocker, m_queuestat, m_stop>>

AppendLock(p) ==
  /\ Goto(p, "lock", "test")
  /\ Lock(p)
  /\ UNCHANGED <<m_workqueue, m_queuestat, m_stop, request>>

QueueFull == Len(m_workqueue) >= MaxRequests

AppendTest(p) ==
  /\ Goto(p, "test", IF QueueFull THEN "reject" ELSE "push")
  /\ UNCHANGED <<m_workqueue, m_queuelocker, m_queuestat, m_stop, request>>

\* The queue is full: unlock and return false.
AppendReject(p) ==
  /\ Goto(p, "reject", "idle")
  /\ Unlock(p)
  /\ request' = [request EXCEPT ![p] = Null]
  /\ UNCHANGED <<m_workqueue, m_queuestat, m_stop>>

AppendPush(p) ==
  /\ Goto(p, "push", "unlock")
  /\ PushBack(request[p])
  /\ request' = [request EXCEPT ![p] = Null]
  /\ UNCHANGED <<m_queuelocker, m_queuestat, m_stop>>

AppendUnlock(p) ==
  /\ Goto(p, "unlock", "post")
  /\ Unlock(p)
  /\ UNCHANGED <<m_workqueue, m_queuestat, m_stop, request>>

\* Post, outside the mutex, and return true.
AppendPost(p) ==
  /\ Goto(p, "post", "idle")
  /\ SemPost
  /\ UNCHANGED <<m_workqueue, m_queuelocker, m_stop, request>>

-----------------------------------------------------------------------------
(* run(), executed by w.                                                   *)

\* while (!m_stop), read with no lock; in the freed pool it reads as either.
RunLoop(w) ==
  /\ \E stop \in (IF m_stop THEN BOOLEAN ELSE {FALSE}) :
       Goto(w, "loop", IF stop THEN "exited" ELSE "wait")
  /\ UNCHANGED <<m_workqueue, m_queuelocker, m_queuestat, m_stop, request>>

RunWait(w) ==
  /\ Goto(w, "wait", "lock")
  /\ SemWait
  /\ UNCHANGED <<m_workqueue, m_queuelocker, m_stop, request>>

RunLock(w) ==
  /\ ~m_stop
  /\ Goto(w, "lock", "test")
  /\ Lock(w)
  /\ UNCHANGED <<m_workqueue, m_queuestat, m_stop, request>>

RunTest(w) ==
  /\ ~m_stop
  /\ Goto(w, "test", IF m_workqueue = <<>> THEN "empty" ELSE "pop")
  /\ UNCHANGED <<m_workqueue, m_queuelocker, m_queuestat, m_stop, request>>

RunPop(w) ==
  /\ ~m_stop
  /\ Goto(w, "pop", "popped")
  /\ request' = [request EXCEPT ![w] = Head(m_workqueue)]
  /\ m_workqueue' = Tail(m_workqueue)
  /\ UNCHANGED <<m_queuelocker, m_queuestat, m_stop>>

\* Unlock; nothing was taken, or the null pointer was: continue.
RunUnlock(w) ==
  /\ ~m_stop
  /\ pc[w] \in {"empty", "popped"}
  /\ pc' = [pc EXCEPT ![w] = IF request[w] = Null THEN "loop" ELSE "process"]
  /\ Unlock(w)
  /\ UNCHANGED <<m_workqueue, m_queuestat, m_stop, request>>

\* request->process() returns.
RunProcess(w) ==
  /\ Goto(w, "process", "loop")
  /\ request' = [request EXCEPT ![w] = Null]
  /\ UNCHANGED <<m_workqueue, m_queuelocker, m_queuestat, m_stop>>

\* The mutex or the list of a freed pool; what w holds is lost.
RunUseAfterFree(w) ==
  /\ m_stop
  /\ pc[w] \in {"lock", "test", "pop", "empty", "popped"}
  /\ pc' = [pc EXCEPT ![w] = "undefined"]
  /\ request' = [request EXCEPT ![w] = Null]
  /\ UNCHANGED <<m_workqueue, m_queuelocker, m_queuestat, m_stop>>

-----------------------------------------------------------------------------
(* ~threadpool(), by the owner, which is in no append(): m_stop is set,    *)
(* the list is destroyed with the requests in it.  Nobody is woken.        *)

Destroy ==
  /\ Destroyed
  /\ ~m_stop
  /\ \A p \in Producers : pc[p] = "idle"
  /\ m_stop' = TRUE
  /\ m_workqueue' = <<>>
  /\ UNCHANGED <<m_queuelocker, m_queuestat, request, pc>>

-----------------------------------------------------------------------------
AppendStep(p) ==
  \/ AppendLock(p) \/ AppendTest(p) \/ AppendReject(p)
  \/ AppendPush(p) \/ AppendUnlock(p) \/ AppendPost(p)

RunStep(w) ==
  \/ RunLoop(w) \/ RunWait(w) \/ RunLock(w) \/ RunTest(w)
  \/ RunPop(w) \/ RunUnlock(w) \/ RunProcess(w) \/ RunUseAfterFree(w)

Next ==
  \/ \E p \in Producers :
       \/ \E r \in Requests \cup {Null} : AppendCall(p, r)
       \/ AppendStep(p)
  \/ \E w \in Workers : RunStep(w)
  \/ Destroy

SafeSpec == Init /\ [][Next]_vars

(***************************************************************************)
(* The scheduler runs every thread that can run, and a thread that waits   *)
(* for the mutex gets it if it is released again and again; the same of    *)
(* the semaphore is not assumed.  Nobody has to call append() or to delete *)
(* the pool.                                                               *)
(***************************************************************************)
Fairness ==
  /\ \A p \in Producers : WF_vars(AppendStep(p)) /\ SF_vars(AppendLock(p))
  /\ \A w \in Workers : WF_vars(RunStep(w)) /\ SF_vars(RunLock(w))

Spec == SafeSpec /\ Fairness
-----------------------------------------------------------------------------
(* Properties.                                                             *)

TypeOK ==
  /\ m_workqueue \in Seq(Requests \cup {Null})
  /\ m_queuelocker \in Threads \cup {NoThread}
  /\ m_queuestat \in Nat
  /\ m_stop \in BOOLEAN
  /\ request \in [Threads -> Requests \cup {Null}]
  /\ pc \in [Threads -> ProducerStates \cup WorkerStates]
  /\ \A p \in Producers : pc[p] \in ProducerStates
  /\ \A w \in Workers : pc[w] \in WorkerStates

\* The queue is tested, filled and emptied only by the holder of the mutex.
MutualExclusion ==
  ~m_stop => \A t \in Threads : pc[t] \in CriticalStates <=> m_queuelocker = t

\* At most m_max_requests requests wait, in the face of any number of
\* clients that each test the size and then push.
QueueBounded == Len(m_workqueue) <= MaxRequests

\* Clients that pushed a request and have not posted it; workers that were
\* let through by the semaphore and have not popped.
Unposted == {p \in Producers : pc[p] \in {"unlock", "post"}}
Woken == {w \in Workers : pc[w] \in {"lock", "test", "pop"}}

\* The semaphore, the clients on their way to post() and the workers on their
\* way to pop_front() account for every request in the queue: no request is
\* left without a wake-up and no wake-up is left without a request.
WakeupsMatchRequests ==
  ~m_stop => Len(m_workqueue)
               = m_queuestat + Cardinality(Unposted) + Cardinality(Woken)

\* A worker that the semaphore let through finds a request: the test
\* m_workqueue.empty() in run() is never true.
WokenFindsRequest == \A w \in Workers : pc[w] # "empty"

\* append() always returns, however its lock is contended.
AppendReturns == \A p \in Producers : pc[p] = "lock" ~> pc[p] = "idle"

\* The pool behaves as the abstract one: FIFO order, refusal only when full,
\* each accepted request taken by one worker, and taken in the end.
Abstract == INSTANCE TaskPool WITH
  Clients <- Producers,
  Tasks <- Requests,
  Capacity <- MaxRequests,
  pending <- m_workqueue,
  running <- [w \in Workers |-> request[w]],
  refused <- {p \in Producers : pc[p] = "reject"},
  closed <- m_stop

ImplementsTaskPool == Abstract!Spec

=============================================================================

------------------------------- MODULE ProdCons -------------------------------
(***************************************************************************)
(* The producers and consumers of lesson32 around a linked list under a    *)
(* mutex: prodcust.c, whose consumers poll; condition.c, where they sleep  *)
(* on a condition variable; semaphore.c, where two semaphores count free   *)
(* places and nodes and nobody tests whether the list is empty; and        *)
(* prodcust.cpp, where each thread makes a number of rounds and consumers  *)
(* wait for a predicate.  The variable program says which one runs.        *)
(*                                                                         *)
(* The list is read (tmp = head, newNode->next = head) and written (head = *)
(* ...) in two steps, so that it is the mutex that keeps it whole.         *)
(***************************************************************************)
EXTENDS Integers, Sequences, FiniteSets, FiniteSetsExt, Functions, SequencesExt

CONSTANTS
  Producers, Consumers,   \* the threads
  NoThread,               \* the holder of a mutex that is free
  Places,                 \* semaphore.c: the initial value of psem
  Rounds,                 \* prodcust.cpp: rounds of a thread
  \* Bound of the environment.
  MaxNodes                \* nodes that are allocated at a time

Threads == Producers \cup Consumers
Nodes == 1 .. MaxNodes
NoNode == 0

ASSUME ProdConsAssumption ==
  /\ IsFiniteSet(Threads) /\ NoThread \notin Threads
  /\ Producers \cap Consumers = {}
  /\ Cardinality(Producers) = Cardinality(Consumers)
  /\ Places \in Nat \ {0} /\ Rounds \in Nat \ {0}
  /\ MaxNodes \in Nat /\ MaxNodes > Places

VARIABLES
  program,
  list,        \* the nodes from head on
  heap,        \* the nodes that are allocated
  mutex,       \* the thread that holds it, or NoThread
  psem, csem,  \* the semaphores of semaphore.c
  pc,          \* per thread: where it is
  newNode,     \* per producer: its node that is not in the list, or NoNode
  seen,        \* per thread: the list as head was when it was read
  left         \* per thread: rounds to go, of prodcust.cpp

vars == <<program, list, heap, mutex, psem, csem, pc, newNode, seen, left>>

Programs == {"prodcust.c", "condition.c", "semaphore.c", "prodcust.cpp"}
Endless == program # "prodcust.cpp"

\* The producers of prodcust.cpp make a node before they lock, the others when
\* they have locked.
MakesFirst(t) == program = "prodcust.cpp" /\ t \in Producers

\* Where a round begins, and where it goes on once the mutex is unlocked.
Start(t) ==
  IF program = "semaphore.c" THEN "wait" ELSE IF MakesFirst(t) THEN "make" ELSE "lock"
Unlocked == IF program = "semaphore.c" THEN "post" ELSE "next"

Init ==
  /\ program \in Programs
  /\ list = <<>> /\ heap = {}
  /\ mutex = NoThread
  /\ psem = Places /\ csem = 0
  /\ pc = [t \in Threads |-> Start(t)]
  /\ newNode = [p \in Producers |-> NoNode]
  /\ seen = [t \in Threads |-> <<>>]
  /\ left = [t \in Threads |-> Rounds]

Goto(t, from, to) == pc[t] = from /\ pc' = [pc EXCEPT ![t] = to]

-----------------------------------------------------------------------------
(* The mutex and the semaphores.                                           *)

\* Seeded bug: lock() that does not wait.
AcquireUnchecked(t) == mutex' = t

Acquire(t) == mutex = NoThread /\ mutex' = t

\* A producer gets its new node; which one malloc() returns does not matter.
NewNode(p) ==
  /\ heap # Nodes
  /\ newNode' = [newNode EXCEPT ![p] = Min(Nodes \ heap)]
  /\ heap' = heap \cup {newNode'[p]}

\* std::make_shared(), before the lock.
Make(p) ==
  /\ Goto(p, "make", "lock")
  /\ NewNode(p)
  /\ UNCHANGED <<program, list, mutex, psem, csem, seen, left>>

\* A producer in C calls malloc() next.
Lock(t) ==
  /\ Goto(t, "lock", "read")
  /\ Acquire(t)
  /\ IF t \in Producers /\ ~MakesFirst(t)
     THEN NewNode(t)
     ELSE UNCHANGED <<newNode, heap>>
  /\ UNCHANGED <<program, list, psem, csem, seen, left>>

Unlock(t) ==
  /\ Goto(t, "unlock", Unlocked)
  /\ mutex' = NoThread
  /\ UNCHANGED <<program, list, heap, psem, csem, newNode, seen, left>>

\* sem_wait(): producers take from psem, consumers from csem.
SemWait(t) ==
  /\ Goto(t, "wait", "lock")
  /\ IF t \in Producers
     THEN psem > 0 /\ psem' = psem - 1 /\ UNCHANGED csem
     ELSE csem > 0 /\ csem' = csem - 1 /\ UNCHANGED psem
  /\ UNCHANGED <<program, list, heap, mutex, newNode, seen, left>>

\* Seeded bug: both post the semaphore that they waited for.
PostedSwapped(t) ==
  IF t \in Producers THEN psem' = psem + 1 /\ UNCHANGED csem
                     ELSE csem' = csem + 1 /\ UNCHANGED psem

\* sem_post(), the other way round.
Posted(t) ==
  IF t \in Producers THEN csem' = csem + 1 /\ UNCHANGED psem
                     ELSE psem' = psem + 1 /\ UNCHANGED csem

SemPost(t) ==
  /\ Goto(t, "post", "next")
  /\ Posted(t)
  /\ UNCHANGED <<program, list, heap, mutex, newNode, seen, left>>

\* The end of the loop's body: usleep(), and in prodcust.cpp one round less.
NextRound(t) ==
  /\ Goto(t, "next", IF Endless \/ left[t] > 1 THEN Start(t) ELSE "done")
  /\ left' = IF Endless THEN left ELSE [left EXCEPT ![t] = @ - 1]
  /\ UNCHANGED <<program, list, heap, mutex, psem, csem, newNode, seen>>

-----------------------------------------------------------------------------
(* The condition variable: a thread that sleeps on it is "asleep".         *)

Asleep == {t \in Threads : pc[t] = "asleep"}

\* Seeded bug: nobody is told.
SignalNobody(after) == pc' = after

\* pthread_cond_signal() wakes one thread, notify_all() all of them.
Signal(after) ==
  CASE program = "prodcust.cpp" ->
         pc' = [t \in Threads |-> IF t \in Asleep THEN "relock" ELSE after[t]]
    [] program = "condition.c" /\ Asleep # {} ->
         \E s \in Asleep : pc' = [after EXCEPT ![s] = "relock"]
    [] OTHER -> pc' = after

\* A wait may end without a signal.
WakeSpuriously(c) ==
  /\ Goto(c, "asleep", "relock")
  /\ UNCHANGED <<program, list, heap, mutex, psem, csem, newNode, seen, left>>

\* Seeded bug: if(!predicate) wait() instead of while.
RelockedOnce == IF program = "prodcust.cpp" THEN "write" ELSE "unlock"

\* The predicate is tested again; condition.c unlocks and begins anew.
Relocked == IF program = "prodcust.cpp" THEN "read" ELSE "unlock"

\* The wait returns with the mutex locked.
Relock(c) ==
  /\ Goto(c, "relock", Relocked)
  /\ Acquire(c)
  /\ UNCHANGED <<program, list, heap, psem, csem, newNode, seen, left>>

-----------------------------------------------------------------------------
(* The list.                                                               *)

\* newNode->next = head; tmp = head.
Read(t) ==
  /\ t \in Producers \/ list # <<>> \/ program = "semaphore.c"
  /\ Goto(t, "read", "write")
  /\ seen' = [seen EXCEPT ![t] = list]
  /\ UNCHANGED <<program, list, heap, mutex, psem, csem, newNode, left>>

\* The consumer finds the list empty: it unlocks, or waits for the condition,
\* which unlocks.
ReadEmpty(c) ==
  /\ list = <<>> /\ program # "semaphore.c"
  /\ IF program = "prodcust.c"
     THEN Goto(c, "read", "unlock") /\ UNCHANGED mutex
     ELSE Goto(c, "read", "asleep") /\ mutex' = NoThread
  /\ seen' = [seen EXCEPT ![c] = <<>>]
  /\ UNCHANGED <<program, list, heap, psem, csem, newNode, left>>

\* head = newNode, and the condition is signalled.
Push(p) ==
  /\ pc[p] = "write"
  /\ list' = <<newNode[p]>> \o seen[p]
  /\ newNode' = [newNode EXCEPT ![p] = NoNode]
  /\ Signal([pc EXCEPT ![p] = "unlock"])
  /\ UNCHANGED <<program, heap, mutex, psem, csem, seen, left>>

\* head = head->next, and tmp is freed.
Pop(c) ==
  /\ seen[c] # <<>>
  /\ Goto(c, "write", "unlock")
  /\ list' = Tail(seen[c])
  /\ heap' = heap \ {Head(seen[c])}
  /\ UNCHANGED <<program, mutex, psem, csem, newNode, seen, left>>

-----------------------------------------------------------------------------
ProducerStep(p) == Make(p) \/ Read(p) \/ Push(p)
ConsumerStep(c) == Read(c) \/ ReadEmpty(c) \/ Pop(c)

Step(t) ==
  \/ Unlock(t) \/ SemWait(t) \/ SemPost(t) \/ NextRound(t)
  \/ t \in Producers /\ ProducerStep(t)
  \/ t \in Consumers /\ ConsumerStep(t)

Locking(t) == Lock(t) \/ Relock(t)

Next ==
  \/ \E t \in Threads : Step(t) \/ Locking(t)
  \/ \E c \in Consumers : WakeSpuriously(c)

SafeSpec == Init /\ [][Next]_vars

\* Every thread is scheduled, and one that waits for the mutex, which is free
\* again and again, gets it in the end.  Nobody wakes without a signal for sure.
Spec ==
  /\ SafeSpec
  /\ \A t \in Threads : WF_vars(Step(t)) /\ SF_vars(Locking(t))
-----------------------------------------------------------------------------
(* Properties.                                                             *)

At(T, S) == {t \in T : pc[t] \in S}

\* No node is lost, consumed twice or used after it was freed: the nodes that
\* are allocated are those of the list, each once, and those that a producer
\* is about to add.
NodesAreAccountedFor ==
  /\ IsInjective(list)
  /\ Range(list) \cap Range(newNode) = {}
  /\ heap = (Range(list) \cup Range(newNode)) \ {NoNode}

\* head->next is never evaluated with head = NULL.
HeadIsNotNull == \A c \in Consumers : pc[c] = "write" => seen[c] # <<>>

\* The semaphores of semaphore.c, with the threads that are between their
\* waits and posts, account for the list from both sides: no place and no node
\* is forgotten, and there are never more than Places nodes.  This is why the
\* consumers of semaphore.c need not test head; those of the other programs,
\* whose waits may end for no reason, have to.
SemaphoresAccount ==
  /\ program = "semaphore.c" =>
       /\ Len(list) + psem + Cardinality(At(Producers, {"lock", "read", "write"}))
            + Cardinality(At(Consumers, {"unlock", "post"})) = Places
       /\ Len(list) = csem + Cardinality(At(Producers, {"unlock", "post"}))
            + Cardinality(At(Consumers, {"lock", "read", "write"}))
  /\ HeadIsNotNull

\* In the programs without an end nodes are consumed for ever, and the threads
\* of prodcust.cpp all end, main() with them: no wake-up is lost, no semaphore
\* runs dry, and never do all threads wait for each other.
ThreadsGoOn ==
  /\ []<>(Endless => \E c \in Consumers : pc[c] = "write")
  /\ <>(Endless \/ \A t \in Threads : pc[t] = "done")
=============================================================================

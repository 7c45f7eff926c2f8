---------------------------- MODULE ThreadPrograms ----------------------------
(***************************************************************************)
(* The thread programs of lesson30 to lesson32 as one system: ProdCons has *)
(* the ones around a list, SharedCounter those around a number.  They have *)
(* the threads, program, pc and left in common; the rest of the state is   *)
(* used by one side only.                                                  *)
(***************************************************************************)
EXTENDS ProdCons

CONSTANTS workA, workB,   \* the two threads of deadlock_duo.c
          Tickets         \* tickets at the beginning

VARIABLES counter, owner, shared, tmp, sold

Counter == INSTANCE SharedCounter WITH Writers <- Producers, Readers <- Consumers

ASSUME SameThreads == Counter!CounterAssumption

counterOnly == <<counter, owner, shared, tmp, sold>>
listOnly == <<list, heap, mutex, psem, csem, newNode, seen>>
allVars == <<program, pc, left, listOnly, counterOnly>>

AroundList == program \in Programs

\* The state that a program does not have is what another one begins with.
ListUnused ==
  /\ list = <<>> /\ heap = {} /\ mutex = NoThread /\ psem = Places /\ csem = 0
  /\ newNode = [p \in Producers |-> NoNode] /\ seen = [t \in Threads |-> <<>>]
CounterUnused ==
  /\ counter = 0 /\ shared = {} /\ sold = [n \in 1 .. Tickets |-> 0]
  /\ owner = [l \in Counter!Locks |-> NoThread] /\ tmp = [t \in Threads |-> 0]

AnyInit == (Init /\ CounterUnused) \/ (Counter!Init /\ ListUnused)

AnyStep(t) ==
  \/ AroundList /\ Step(t) /\ UNCHANGED counterOnly
  \/ ~AroundList /\ Counter!Step(t) /\ UNCHANGED listOnly

AnyLocking(t) ==
  \/ AroundList /\ Locking(t) /\ UNCHANGED counterOnly
  \/ ~AroundList /\ Counter!Locking(t) /\ UNCHANGED listOnly

SpuriousWakeup(c) == AroundList /\ WakeSpuriously(c) /\ UNCHANGED counterOnly

AnyNext ==
  \/ \E t \in Threads : AnyStep(t) \/ AnyLocking(t)
  \/ \E c \in Consumers : SpuriousWakeup(c)

\* The fairness of both modules: every thread is scheduled, and one that waits
\* for a lock which is free again and again gets it in the end.
AnySpec ==
  /\ AnyInit /\ [][AnyNext]_allVars
  /\ \A t \in Threads : WF_allVars(AnyStep(t)) /\ SF_allVars(AnyLocking(t))
-----------------------------------------------------------------------------
(* Properties.                                                             *)

\* No update of the shared number is lost (SharedCounter).
NoUpdateIsLost == Counter!NoUpdateIsLost

\* Only the two threads of deadlock_duo.c can be stuck (SharedCounter).
OnlyCrossedLocksBlock == AroundList \/ Counter!OnlyCrossedLocksBlock

\* The list is a stack, of at most Places nodes in semaphore.c, although every
\* push and every pop reads head in one step and writes it in another, and the
\* consumers of semaphore.c do not look whether there is a node.
Stack == INSTANCE NodeStack WITH
  stack <- list,
  limit <- IF program = "semaphore.c" THEN Places ELSE MaxNodes

ImplementsStack == Stack!Spec

\* No wake-up is lost, no semaphore runs dry, and never do all threads wait
\* for each other: the programs with an end reach it, and in those without one
\* nodes are consumed for ever.
EveryThreadGoesOn ==
  /\ AroundList => ThreadsGoOn
  /\ ~AroundList => Counter!SellersAndRoundsEnd
=============================================================================

---------------------------- MODULE SharedCounter ----------------------------
(***************************************************************************)
(* The programs of lesson30 and lesson31, whose threads share one number:  *)
(* tickets that are sold without a lock (selltickets.c) or under a mutex   *)
(* (mutex.c; mytickets.c and deadlock.c do the same), a number that is     *)
(* written and read under a read-write lock (rwlock.c, and rwlock2.c with  *)
(* a fixed number of rounds), and the two threads of deadlock_duo.c, which *)
(* lock two mutexes in opposite order.  The variable program says which    *)
(* one runs.                                                               *)
(*                                                                         *)
(* counter-- and counter++ load and store in two steps: two threads that   *)
(* do it at once may lose an update.                                       *)
(*                                                                         *)
(* Left out: the end of main() in rwlock.c, which destroys the lock after  *)
(* a key was pressed, while its threads use it.  That is undefined, but    *)
(* glibc's pthread_rwlock_destroy() changes nothing, and pthread_exit()    *)
(* lets the threads go on.                                                 *)
(***************************************************************************)
EXTENDS Integers, FiniteSets

CONSTANTS
  Writers, Readers,    \* the threads of rwlock.c; all of them sell tickets
  workA, workB,        \* the two threads of deadlock_duo.c
  NoThread,            \* the owner of a lock that is free
  Tickets,             \* tickets at the beginning
  Rounds               \* rwlock2.c: rounds of a thread; in rwlock.c a bound
                       \* of the writes of a thread

Threads == Writers \cup Readers

CounterAssumption ==
  /\ IsFiniteSet(Threads) /\ Writers \cap Readers = {}
  /\ NoThread \notin Threads
  /\ workA \in Threads /\ workB \in Threads /\ workA # workB
  /\ Tickets \in Nat \ {0} /\ Rounds \in Nat \ {0}

VARIABLES
  program,
  counter,    \* tickets, num or counter
  owner,      \* per lock: the thread that holds it exclusively, or NoThread
  shared,     \* the threads that hold rwlock for reading
  pc,         \* per thread: where it is
  tmp,        \* per thread: the value it has loaded, until it has used it
  left,       \* per thread: rounds to go
  sold        \* history of mutex.c, per ticket: how often it was sold

vars == <<program, counter, owner, shared, pc, tmp, left, sold>>

Locks == {"mutex1", "mutex2", "rwlock"}
RWPrograms == {"rwlock.c", "rwlock2.c"}
Programs == RWPrograms \cup {"selltickets.c", "mutex.c", "deadlock_duo.c"}

Selling == program \in {"selltickets.c", "mutex.c"}
Duo == program = "deadlock_duo.c"

Init ==
  /\ program \in Programs
  /\ counter = CASE Selling -> Tickets [] program = "rwlock.c" -> 1 [] OTHER -> 0
  /\ owner = [l \in Locks |-> NoThread]
  /\ shared = {}
  /\ pc = [t \in Threads |-> IF Duo /\ t \notin {workA, workB} THEN "done"
                             ELSE IF program = "selltickets.c" THEN "test"
                             ELSE "lock"]
  /\ tmp = [t \in Threads |-> 0]
  /\ left = [t \in Threads |-> Rounds]
  /\ sold = [n \in 1 .. Tickets |-> 0]

Goto(t, from, to) == pc[t] = from /\ pc' = [pc EXCEPT ![t] = to]

-----------------------------------------------------------------------------
(* The locks.                                                              *)

\* Seeded bug: the lock does not exclude anybody.
AcquireUnchecked(t, l) == owner' = [owner EXCEPT ![l] = t]

\* pthread_mutex_lock() and pthread_rwlock_wrlock().
Acquire(t, l) ==
  /\ owner[l] = NoThread
  /\ l = "rwlock" => shared = {}
  /\ owner' = [owner EXCEPT ![l] = t]

\* Seeded bug: readers do not wait for the writer.
AcquireSharedUnchecked(t) == shared' = shared \cup {t}

\* pthread_rwlock_rdlock().
AcquireShared(t) == owner["rwlock"] = NoThread /\ shared' = shared \cup {t}

\* The lock that a thread takes first, and second.
FirstLock(t) ==
  CASE Duo /\ t = workB -> "mutex2"
    [] program \in RWPrograms -> "rwlock"
    [] OTHER -> "mutex1"
SecondLock(t) == IF t = workA THEN "mutex2" ELSE "mutex1"

IsReader(t) == program \in RWPrograms /\ t \in Readers

\* A seller goes on to test, a writer to load, a reader to print.
Locked(t) ==
  CASE Selling -> "test"
    [] Duo -> "lock2"
    [] IsReader(t) -> "print"
    [] OTHER -> "load"

Lock(t) ==
  /\ Goto(t, "lock", Locked(t))
  /\ IF IsReader(t)
     THEN AcquireShared(t) /\ UNCHANGED owner
     ELSE Acquire(t, FirstLock(t)) /\ UNCHANGED shared
  /\ UNCHANGED <<program, counter, tmp, left, sold>>

\* deadlock_duo.c: the second mutex, after a second of sleep.
Lock2(t) ==
  /\ Goto(t, "lock2", "unlock2")
  /\ Acquire(t, SecondLock(t))
  /\ UNCHANGED <<program, counter, shared, tmp, left, sold>>

\* deadlock_duo.c: the second mutex is unlocked before the first.
Unlock2(t) ==
  /\ Goto(t, "unlock2", "unlock")
  /\ owner' = [owner EXCEPT ![SecondLock(t)] = NoThread]
  /\ UNCHANGED <<program, counter, shared, tmp, left, sold>>

\* Seeded bug: the branch that leaves the loop does not unlock.
ReleaseOnlyInLoop(t) ==
  IF pc[t] = "leave" THEN UNCHANGED <<owner, shared>>
  ELSE /\ owner' = [l \in Locks |-> IF owner[l] = t THEN NoThread ELSE owner[l]]
       /\ shared' = shared \ {t}

\* The lock that t holds.
Release(t) ==
  /\ owner' = [l \in Locks |-> IF owner[l] = t THEN NoThread ELSE owner[l]]
  /\ shared' = shared \ {t}

\* Where a thread goes when it has unlocked at the end of a round.
AfterRound(t) ==
  IF Duo \/ (~Selling /\ left[t] = 1 /\ (program = "rwlock2.c" \/ t \in Writers))
  THEN "done" ELSE "lock"

Unlock(t) ==
  /\ Goto(t, "unlock", AfterRound(t))
  /\ Release(t)
  /\ left' = IF ~Selling /\ left[t] > 1 /\ (program = "rwlock2.c" \/ t \in Writers)
             THEN [left EXCEPT ![t] = @ - 1] ELSE left
  /\ tmp' = [tmp EXCEPT ![t] = 0]
  /\ UNCHANGED <<program, counter, sold>>

\* The sellers' else: unlock and break.
Leave(t) ==
  /\ Goto(t, "leave", "done")
  /\ Release(t)
  /\ UNCHANGED <<program, counter, tmp, left, sold>>

-----------------------------------------------------------------------------
(* The number.                                                             *)

SomeLeft == counter > 0

\* if(tickets > 0), while(tickets > 0)
Test(t) ==
  /\ IF SomeLeft THEN Goto(t, "test", "print")
                 ELSE Goto(t, "test", IF program = "mutex.c" THEN "leave" ELSE "done")
  /\ UNCHANGED <<program, counter, owner, shared, tmp, left, sold>>

\* The ticket is printed: sold, unless there is no such ticket.
Sell(t) ==
  /\ Selling
  /\ Goto(t, "print", "load")
  /\ sold' = [n \in 1 .. Tickets |->
                IF program = "mutex.c" /\ n = counter THEN sold[n] + 1 ELSE sold[n]]
  /\ UNCHANGED <<program, counter, owner, shared, tmp, left>>

\* A reader prints the number, and then unlocks.
ReadNum(t) ==
  /\ IsReader(t)
  /\ Goto(t, "print", "unlock")
  /\ tmp' = [tmp EXCEPT ![t] = counter]
  /\ UNCHANGED <<program, counter, owner, shared, left, sold>>

Load(t) ==
  /\ Goto(t, "load", "store")
  /\ tmp' = [tmp EXCEPT ![t] = counter]
  /\ UNCHANGED <<program, counter, owner, shared, left, sold>>

\* tickets--, num++
Store(t) ==
  /\ Goto(t, "store", IF program = "selltickets.c" THEN "test" ELSE "unlock")
  /\ counter' = IF Selling THEN tmp[t] - 1 ELSE tmp[t] + 1
  /\ tmp' = [tmp EXCEPT ![t] = 0]
  /\ UNCHANGED <<program, owner, shared, left, sold>>

-----------------------------------------------------------------------------
Locking(t) == Lock(t) \/ Lock2(t)

Step(t) ==
  \/ Unlock2(t) \/ Unlock(t) \/ Leave(t) \/ Test(t) \/ Sell(t) \/ ReadNum(t) \/ Load(t) \/ Store(t)

Next == \E t \in Threads : Locking(t) \/ Step(t)

SafeSpec == Init /\ [][Next]_vars

\* Every thread is scheduled, and one that waits for a lock which is free again
\* and again gets it in the end.
Spec ==
  /\ SafeSpec
  /\ \A t \in Threads : WF_vars(Step(t)) /\ SF_vars(Locking(t))
-----------------------------------------------------------------------------
(* Properties.                                                             *)

At(S) == {t \in Threads : pc[t] \in S}
Done == \A t \in Threads : pc[t] = "done"

\* The rounds that writers have finished.
FinishedRounds == {r \in Writers \X (1 .. Rounds) : r[2] > left[r[1]]}

\* Under the mutex every ticket is sold once, in order: those above the counter
\* are sold and no others, but for the one that is being sold.
TicketsSoldOnce ==
  \A n \in 1 .. Tickets :
    sold[n] = IF n > counter \/ (n = counter /\ At({"load", "store"}) # {})
              THEN 1 ELSE 0

\* Under the read-write lock the number is what the writers have made of it.
WritesAreCounted ==
  counter = (IF program = "rwlock.c" THEN 1 ELSE 0)
              + Cardinality(FinishedRounds)
              + Cardinality({w \in Writers : pc[w] \in {"unlock", "done"}})

\* What a reader has printed is the number until it unlocks: no writer changes
\* it while somebody reads.
ReadersSeeTheNumber == \A r \in Readers : pc[r] = "unlock" => tmp[r] = counter

\* No update of the shared number is lost in the programs that lock it, and
\* nobody reads a number that is being written.
NoUpdateIsLost ==
  /\ program = "mutex.c" => TicketsSoldOnce
  /\ program \in RWPrograms => WritesAreCounted /\ ReadersSeeTheNumber

\* Nobody can be stuck but the two threads of deadlock_duo.c, each holding what
\* the other one waits for.
OnlyCrossedLocksBlock ==
  \/ Done
  \/ \E t \in Threads : ENABLED (Locking(t) \/ Step(t))
  \/ Duo /\ owner["mutex1"] = workA /\ owner["mutex2"] = workB

\* Every ticket is sold and every thread ends, in the programs that end.
SellersAndRoundsEnd ==
  <>(program \in {"rwlock.c", "deadlock_duo.c"} \/ Done)

=============================================================================

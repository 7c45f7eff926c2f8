------------------------------ MODULE TaskPool ------------------------------
(***************************************************************************)
(* What a client of the thread pool may rely on, with no lock, semaphore   *)
(* or program counter in sight: a bounded FIFO of tasks, emptied by a set  *)
(* of workers.  ThreadPool (thradpool.h and locker.h) implements it; the   *)
(* web server is specified on top of it.                                   *)
(***************************************************************************)
EXTENDS Naturals, Sequences

CONSTANTS
  Clients,    \* threads that submit tasks
  Workers,    \* threads that execute them
  Tasks,      \* the tasks
  Null,       \* the null task, which a worker drops
  Capacity    \* how many tasks may wait

VARIABLES
  pending,    \* the tasks that wait, oldest first
  running,    \* running[w]: the task w executes, or Null
  refused,    \* the clients that are being told that the pool is full
  closed      \* whether the pool was destroyed

vars == <<pending, running, refused, closed>>

Init ==
  /\ pending = <<>>
  /\ running = [w \in Workers |-> Null]
  /\ refused = {}
  /\ closed = FALSE

Submit(t) ==
  /\ ~closed
  /\ Len(pending) < Capacity
  /\ pending' = Append(pending, t)
  /\ UNCHANGED <<running, refused, closed>>

\* A client is turned away only by a full queue.
Refuse(c) ==
  /\ ~closed
  /\ Len(pending) = Capacity
  /\ refused' = refused \cup {c}
  /\ UNCHANGED <<pending, running, closed>>

Acknowledge(c) ==
  /\ refused' = refused \ {c}
  /\ UNCHANGED <<pending, running, closed>>

Take(w) ==
  /\ ~closed
  /\ running[w] = Null
  /\ pending # <<>>
  /\ running' = [running EXCEPT ![w] = Head(pending)]
  /\ pending' = Tail(pending)
  /\ UNCHANGED <<refused, closed>>

Finish(w) ==
  /\ running' = [running EXCEPT ![w] = Null]
  /\ UNCHANGED <<pending, refused, closed>>

\* Tasks that still wait are dropped.
Close ==
  /\ ~closed
  /\ closed' = TRUE
  /\ pending' = <<>>
  /\ UNCHANGED <<running, refused>>

Next ==
  \/ \E t \in Tasks \cup {Null} : Submit(t)
  \/ \E c \in Clients : Refuse(c) \/ Acknowledge(c)
  \/ \E w \in Workers : Take(w) \/ Finish(w)
  \/ Close

SafeSpec == Init /\ [][Next]_vars

(***************************************************************************)
(* A task that waits while a worker is free is taken by some worker, and a *)
(* task that runs comes to its end.                                        *)
(***************************************************************************)
Fairness ==
  /\ WF_vars(\E w \in Workers : Take(w))
  /\ \A w \in Workers : WF_vars(Finish(w))

Spec == SafeSpec /\ Fairness
=============================================================================

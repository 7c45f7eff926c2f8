----------------------------- MODULE TimerQueue -----------------------------
(***************************************************************************)
(* What the list of timers promises: a queue ordered by expiry.            *)
(***************************************************************************)
EXTENDS SortedTimers

CONSTANTS Timers, Times

VARIABLES
  queue,    \* the timers that are set, the next to expire first
  expire,   \* expire[t]: when the timer t, which is set, expires
  fired     \* the timers whose callbacks the last step called, in that order

vars == <<queue, expire, fired>>

Set == ToSet(queue)

Init ==
  /\ queue = <<>>
  /\ expire = <<>>
  /\ fired = <<>>

Add(t, e) ==
  /\ t \notin Set
  /\ expire' = [u \in Set \cup {t} |-> IF u = t THEN e ELSE expire[u]]
  /\ queue' = Place(queue, expire', t)
  /\ fired' = <<>>

Postpone(t, e) ==
  /\ t \in Set
  /\ e >= expire[t]
  /\ expire' = [expire EXCEPT ![t] = e]
  /\ queue' = Place(Without(queue, t), expire', t)
  /\ fired' = <<>>

Delete(t) ==
  /\ t \in Set
  /\ queue' = Without(queue, t)
  /\ expire' = Restrict(expire, Set \ {t})
  /\ fired' = <<>>

\* Those that are due fire, in the order of the queue, and no other.
Tick(cur) ==
  \E n \in 0 .. Len(queue) :
    /\ DueBy(queue, expire, cur) = 1 .. n
    /\ fired' = SubSeq(queue, 1, n)
    /\ queue' = SubSeq(queue, n + 1, Len(queue))
    /\ expire' = Restrict(expire, ToSet(queue'))

Clear ==
  /\ queue' = <<>>
  /\ expire' = <<>>
  /\ fired' = <<>>

Next ==
  \/ \E t \in Timers, e \in Times : Add(t, e) \/ Postpone(t, e)
  \/ \E t \in Timers : Delete(t)
  \/ \E cur \in Times : Tick(cur)
  \/ Clear

Spec == Init /\ [][Next]_vars
=============================================================================

------------------------------ MODULE TimerList ------------------------------
(***************************************************************************)
(* sort_timer_lst (noactive/lst_timer.h): timers in a doubly linked list   *)
(* with head and tail pointers, in ascending order of expiry.  The four    *)
(* public operations are functions from the pointers before to the         *)
(* pointers after; the memory of a deleted timer can be allocated again,   *)
(* and a pointer to it is a dangling one.  What is in a cell that is not   *)
(* allocated is not kept.                                                  *)
(***************************************************************************)
EXTENDS SortedTimers

CONSTANTS
  Timers,        \* the memory cells for util_timer
  NULL,
  Times          \* expiry times and readings of the clock

ASSUME ListAssumption ==
  /\ IsFiniteSet(Timers) /\ NULL \notin Timers
  /\ Times \subseteq Nat /\ 0 \in Times

VARIABLES
  lst,         \* head and tail, and next and prev of every timer
  expire,      \* util_timer::expire
  allocated,   \* the timers made by new and not yet deleted
  fired,       \* the timers whose callbacks the last operation called
  destroyed,   \* whether ~sort_timer_lst() has run
  setBack      \* history: since the list was empty, some timer got an earlier
               \* expiry than it had

listVars == <<lst, expire, allocated, fired, destroyed, setBack>>

Pointers == Timers \cup {NULL}

-----------------------------------------------------------------------------
\* The nodes from t on, at most as many as there are timers.
Chain(l, t) ==
  LET node[k \in 1 .. Cardinality(Timers)] ==
        IF k = 1 THEN t
        ELSE LET tmp == node[k - 1] IN IF tmp = NULL THEN NULL ELSE l.next[tmp]
  IN  SubSeq(node, 1, Cardinality({k \in DOMAIN node : node[k] # NULL}))

-----------------------------------------------------------------------------
(* add_timer(timer, lst_head), the private overload.                       *)

\* Seeded bug: before the timers that expire at the same time.
InsertionPointEarly(l, key, e, lst_head) ==
  LET node == Chain(l, lst_head)
  IN  node[Min({i \in DOMAIN node : i = Len(node) \/ e <= key[node[i + 1]]})]

\* The node after which the walk from lst_head puts a timer that expires at e:
\* the last one, or the first with one behind it that expires later.
InsertionPoint(l, key, e, lst_head) ==
  LET node == Chain(l, lst_head)
  IN  node[Min({i \in DOMAIN node : i = Len(node) \/ e < key[node[i + 1]]})]

InsertAfter(l, key, t, lst_head) ==
  LET p == InsertionPoint(l, key, key[t], lst_head)
      n == l.next[p]
  IN  [l EXCEPT !.next = [@ EXCEPT ![p] = t, ![t] = n],
                !.prev = IF n = NULL THEN [@ EXCEPT ![t] = p]
                                     ELSE [@ EXCEPT ![t] = p, ![n] = t],
                !.tail = IF n = NULL THEN t ELSE @]

\* add_timer(timer)
AddTimer(l, key, t) ==
  IF l.head = NULL
  THEN [l EXCEPT !.head = t, !.tail = t]
  ELSE IF key[t] < key[l.head]
  THEN [l EXCEPT !.next[t] = l.head, !.prev[l.head] = t, !.head = t]
  ELSE InsertAfter(l, key, t, l.head)

\* adjust_timer(timer): out of the list, and back in from the next node on.
AdjustTimer(l, key, t) ==
  LET tmp == l.next[t] IN
  IF tmp = NULL THEN l
  ELSE IF key[t] < key[tmp] THEN l
  ELSE IF t = l.head
  THEN InsertAfter([l EXCEPT !.head = tmp, !.prev[tmp] = NULL, !.next[t] = NULL],
                   key, t, tmp)
  ELSE InsertAfter([l EXCEPT !.next[l.prev[t]] = tmp, !.prev[tmp] = l.prev[t]],
                   key, t, tmp)

\* Seeded bug: the head stays where it was.
DelTimerHead(l, t) ==
  LET p == l.prev[t]
      n == l.next[t]
  IN  IF t = l.head /\ t = l.tail THEN [l EXCEPT !.head = NULL, !.tail = NULL]
      ELSE IF t = l.head THEN [l EXCEPT !.prev[n] = NULL]
      ELSE IF t = l.tail THEN [l EXCEPT !.tail = p, !.next[p] = NULL]
      ELSE [l EXCEPT !.next[p] = n, !.prev[n] = p]

\* del_timer(timer): the only one, the head, the tail, or in the middle.
DelTimer(l, t) ==
  LET p == l.prev[t]
      n == l.next[t]
  IN  IF t = l.head /\ t = l.tail THEN [l EXCEPT !.head = NULL, !.tail = NULL]
      ELSE IF t = l.head THEN [l EXCEPT !.head = n, !.prev[n] = NULL]
      ELSE IF t = l.tail
      THEN [l EXCEPT !.tail = l.prev[l.tail], !.next[l.prev[l.tail]] = NULL]
      ELSE [l EXCEPT !.next[p] = n, !.prev[n] = p]

\* The nodes that tick() goes through at time cur: from the head to the last
\* before one that is not due.
Expired(l, key, cur) ==
  LET node == Chain(l, l.head)
      waiting == {i \in DOMAIN node : cur < key[node[i]]}
  IN  SubSeq(node, 1, Min(waiting \cup {Len(node) + 1}) - 1)

\* Seeded bug: the new head points back to the deleted one.
AfterTickBack(l, x) ==
  IF x = <<>> THEN l ELSE [l EXCEPT !.head = l.next[Last(x)]]

\* tick() takes the nodes x off the list; tail stays, even on the last node.
AfterTick(l, x) ==
  IF x = <<>> THEN l
  ELSE LET h == l.next[Last(x)]
       IN  IF h = NULL THEN [l EXCEPT !.head = NULL]
           ELSE [l EXCEPT !.head = h, !.prev[h] = NULL]

-----------------------------------------------------------------------------
\* delete: the cells S hold nothing any more.
Forget(l, S) ==
  [l EXCEPT !.next = [t \in Timers |-> IF t \in S THEN NULL ELSE @[t]],
            !.prev = [t \in Timers |-> IF t \in S THEN NULL ELSE @[t]]]

Free(l, S) ==
  /\ allocated' = allocated \ S
  /\ lst' = Forget(l, S)
  /\ expire' = [t \in Timers |-> IF t \in S THEN 0 ELSE expire[t]]

-----------------------------------------------------------------------------
ListInit ==
  /\ lst = [head |-> NULL, tail |-> NULL,
            next |-> [t \in Timers |-> NULL], prev |-> [t \in Timers |-> NULL]]
  /\ expire = [t \in Timers |-> 0]
  /\ allocated = {}
  /\ fired = <<>>
  /\ destroyed = FALSE
  /\ setBack = FALSE

SetExpire(t, e) == expire' = [expire EXCEPT ![t] = e]

\* new util_timer, whose pointers are NULL, and add_timer().
Add(t, e) ==
  /\ ~destroyed
  /\ t \notin allocated
  /\ allocated' = allocated \cup {t}
  /\ SetExpire(t, e)
  /\ lst' = AddTimer(lst, expire', t)
  /\ fired' = <<>>
  /\ UNCHANGED <<destroyed, setBack>>

\* The caller sets a new expiry and calls adjust_timer(), which only ever moves
\* a timer back: when the clock was set back the list is not sorted afterwards.
Adjust(t, e) ==
  /\ ~destroyed
  /\ t \in allocated
  /\ setBack' = (setBack \/ e < expire[t])
  /\ SetExpire(t, e)
  /\ lst' = AdjustTimer(lst, expire', t)
  /\ fired' = <<>>
  /\ UNCHANGED <<allocated, destroyed>>

KeepSetBack == setBack' = (setBack /\ allocated' # {})

Del(t) ==
  /\ ~destroyed
  /\ t \in allocated
  /\ Free(DelTimer(lst, t), {t})
  /\ fired' = <<>>
  /\ KeepSetBack
  /\ UNCHANGED destroyed

\* tick() calls back and deletes every timer that is due.
Tick(cur) ==
  /\ ~destroyed
  /\ fired' = Expired(lst, expire, cur)
  /\ Free(AfterTick(lst, fired'), ToSet(fired'))
  /\ KeepSetBack
  /\ UNCHANGED destroyed

\* ~sort_timer_lst() deletes the nodes from the head on.
Destroy ==
  /\ ~destroyed
  /\ destroyed' = TRUE
  /\ Free([lst EXCEPT !.head = NULL], ToSet(Chain(lst, lst.head)))
  /\ fired' = <<>>
  /\ UNCHANGED setBack

ListNext ==
  \/ \E t \in Timers, e \in Times : Add(t, e) \/ Adjust(t, e)
  \/ \E t \in Timers : Del(t)
  \/ \E cur \in Times : Tick(cur)
  \/ Destroy

ListSpec == ListInit /\ [][ListNext]_listVars

-----------------------------------------------------------------------------
(* Properties.                                                             *)

Order == Chain(lst, lst.head)

\* Every timer that is allocated is in the list once, and no other is: none
\* leaks, and no pointer of the list dangles.  Backwards from the tail the list
\* reads as forwards from the head.  A clock that is set back costs the order of
\* the list and nothing of this.
ListWellFormed ==
  /\ ToSet(Order) = allocated /\ Len(Order) = Cardinality(allocated)
  /\ Order # <<>> =>
       /\ lst.tail = Last(Order)
       /\ lst.prev[lst.head] = NULL
       /\ \A i \in 2 .. Len(Order) : lst.prev[Order[i]] = Order[i - 1]

\* The list is the queue by expiry that TimerQueue specifies: tick() fires all
\* the timers that are due and no other, in the order of their expiry.  The
\* exception is the time from the clock's being set back until the list is empty.
Abstract == INSTANCE TimerQueue WITH
  queue <- Order,
  expire <- [t \in ToSet(Order) |-> expire[t]]

ImplementsTimerQueue ==
  Abstract!Init /\ [][setBack' \/ Abstract!Next]_Abstract!vars
=============================================================================

---------------------------- MODULE SortedTimers ----------------------------
(***************************************************************************)
(* Sequences of timers in the order in which they expire, key[t] being the *)
(* time at which t does.  Timers that expire together are in the order in  *)
(* which they were put there.                                              *)
(***************************************************************************)
EXTENDS Naturals, Sequences, SequencesExt, FiniteSets

\* Those of q that expire no later than time e.
DueBy(q, key, e) == {i \in DOMAIN q : key[q[i]] <= e}

\* t in its place in q: after every timer that expires no later.
Place(q, key, t) == InsertAt(q, Cardinality(DueBy(q, key, key[t])) + 1, t)

\* Seeded bug: the timer stays in the list.
WithoutNot(q, t) == q

\* q, in which t is once, without it.
Without(q, t) == RemoveAt(q, CHOOSE i \in DOMAIN q : q[i] = t)
=============================================================================

------------------------------ MODULE NodeStack ------------------------------
(***************************************************************************)
(* What the threads of lesson32 may rely on: the linked list is a stack of *)
(* nodes, from which each is taken once, and has a limit in semaphore.c.   *)
(***************************************************************************)
EXTENDS Naturals, Sequences

CONSTANT Nodes
VARIABLES stack, limit

Init == stack = <<>> /\ limit \in Nat

Push(n) ==
  /\ Len(stack) < limit
  /\ stack' = <<n>> \o stack
  /\ UNCHANGED limit

Pop ==
  /\ stack # <<>>
  /\ stack' = Tail(stack)
  /\ UNCHANGED limit

Next == Pop \/ \E n \in Nodes : Push(n)

Spec == Init /\ [][Next]_<<stack, limit>>
=============================================================================

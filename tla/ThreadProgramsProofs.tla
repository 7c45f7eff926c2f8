------------------------ MODULE ThreadProgramsProofs ------------------------
(***************************************************************************)
(* The safety properties of the thread programs for any number of threads, *)
(* places, rounds, tickets and nodes, and that the list of lesson32        *)
(* implements NodeStack.  What carries them is the lock: who is between a  *)
(* lock and its unlock holds it, and what was read under it is still true  *)
(* when it is written.                                                     *)
(***************************************************************************)
EXTENDS ThreadPrograms, FiniteSetTheorems, SequenceTheorems, WellFoundedInduction, TLAPS

-----------------------------------------------------------------------------
(* The programs around the list.                                           *)

ListPcs == {"wait", "make", "lock", "read", "write", "unlock", "post", "next",
            "asleep", "relock", "done"}

ListTypeOK ==
  /\ AroundList
  /\ pc \in [Threads -> ListPcs]
  /\ list \in Seq(Nodes) /\ heap \subseteq Nodes
  /\ mutex \in Threads \cup {NoThread}
  /\ psem \in Nat /\ csem \in Nat
  /\ newNode \in [Producers -> Nodes \cup {NoNode}]
  /\ seen \in [Threads -> Seq(Nodes)]

\* The thread between lock and unlock, and no other, holds the mutex.
HolderIsInside ==
  \A t \in Threads : pc[t] \in {"read", "write", "unlock"} <=> mutex = t

\* Only consumers sleep, and only where there is a condition variable.
SleepersAreConsumers ==
  \A t \in Threads :
    pc[t] \in {"asleep", "relock"} =>
      t \in Consumers /\ program \in {"condition.c", "prodcust.cpp"}

\* head is still what the thread that is about to write it has read.
SeenIsList == \A t \in Threads : pc[t] = "write" => seen[t] = list

\* A producer has a node of its own until it pushes it, from the lock on or, in
\* prodcust.cpp, from before the lock.
NewNodeIsHeld ==
  /\ \A p \in Producers :
       newNode[p] # NoNode <=>
         pc[p] \in {"read", "write"} \/ (program = "prodcust.cpp" /\ pc[p] = "lock")
  /\ \A p, q \in Producers : newNode[p] = newNode[q] /\ newNode[p] # NoNode => p = q
  /\ \A t \in Threads :
       /\ pc[t] = "make" => program = "prodcust.cpp" /\ t \in Producers
       /\ pc[t] = "wait" => program = "semaphore.c"

ListInv ==
  /\ ListTypeOK /\ HolderIsInside /\ SleepersAreConsumers /\ SeenIsList
  /\ NewNodeIsHeld /\ NodesAreAccountedFor /\ SemaphoresAccount

-----------------------------------------------------------------------------
(* The programs around the number.                                         *)

CounterPcs == {"lock", "lock2", "test", "print", "load", "store", "unlock2",
               "unlock", "leave", "done"}

Mutex == program = "mutex.c"
RW == program \in Counter!RWPrograms

CounterTypeOK ==
  /\ program \in Counter!Programs
  /\ pc \in [Threads -> CounterPcs]
  /\ left \in [Threads -> 1 .. Rounds]
  /\ counter \in Int
  /\ owner \in [Counter!Locks -> Threads \cup {NoThread}]
  /\ shared \subseteq Threads
  /\ tmp \in [Threads -> Int]
  /\ sold \in [1 .. Tickets -> Nat]

\* mutex.c: the seller between lock and unlock, and no other, holds the mutex.
SellerIsInside ==
  Mutex =>
    \A t \in Threads :
      /\ pc[t] \notin {"lock2", "unlock2"}
      /\ pc[t] \in {"test", "print", "load", "store", "unlock", "leave"} <=>
           owner["mutex1"] = t

\* What that seller has seen of the counter is still true.
SellerHasTested ==
  Mutex =>
    /\ counter \in 0 .. Tickets
    /\ \A t \in Threads :
         /\ pc[t] \in {"print", "load", "store"} => counter > 0
         /\ pc[t] = "store" => tmp[t] = counter

\* The read-write lock excludes, and who holds it is between lock and unlock.
RWLockExcludes ==
  RW =>
    /\ owner["rwlock"] # NoThread => owner["rwlock"] \in Producers /\ shared = {}
    /\ \A w \in Producers :
         /\ pc[w] \in {"load", "store", "unlock"} <=> owner["rwlock"] = w
         /\ pc[w] \in {"lock", "load", "store", "unlock", "done"}
    /\ \A r \in Consumers :
         /\ pc[r] \in {"print", "unlock"} <=> r \in shared
         /\ pc[r] \in {"lock", "print", "unlock", "done"}

\* What a writer has loaded is the number until it stores.
WriterHasLoaded ==
  RW => \A w \in Producers : pc[w] = "store" => tmp[w] = counter

CounterInv ==
  /\ CounterTypeOK /\ SellerIsInside /\ SellerHasTested
  /\ RWLockExcludes /\ WriterHasLoaded /\ NoUpdateIsLost

-----------------------------------------------------------------------------
IInv ==
  \/ ListInv
  \/ ListUnused /\ CounterInv

\* The safety part of AnySpec.
AnySafeSpec == AnyInit /\ [][AnyNext]_allVars

-----------------------------------------------------------------------------
(* Counting threads and nodes.                                             *)

\* What the assumptions say of the threads, the nodes and the numbers.
LEMMA ConstantFacts ==
  /\ IsFiniteSet(Threads) /\ NoThread \notin Threads
  /\ Threads = Producers \cup Consumers
  /\ \A t \in Threads : t \in Producers <=> t \notin Consumers
  /\ Places \in Nat \ {0} /\ Rounds \in Nat \ {0} /\ Tickets \in Nat \ {0}
  /\ MaxNodes \in Nat /\ MaxNodes > Places
  /\ Nodes \subseteq Nat /\ NoNode \notin Nodes /\ NoNode \in Nat
BY ProdConsAssumption, SameThreads DEF Threads, Nodes, NoNode,
   Counter!CounterAssumption

\* A thread that moves leaves and enters the sets of threads at a place.
LEMMA AtMoves ==
  ASSUME NEW T \in SUBSET Threads, NEW S, NEW t \in Threads,
         \A u \in Threads \ {t} : pc'[u] = pc[u]
  PROVE  /\ IsFiniteSet(At(T, S)) /\ Cardinality(At(T, S)) \in Nat
         /\ Cardinality(At(T, S)') =
              Cardinality(At(T, S)) + (IF t \in T /\ pc'[t] \in S THEN 1 ELSE 0)
                - (IF t \in T /\ pc[t] \in S THEN 1 ELSE 0)
<1> DEFINE A == At(T, S)
           B == A \ {t}
<1>1. IsFiniteSet(A) /\ IsFiniteSet(B)
  BY ConstantFacts, FS_Subset DEF At
<1>2. Cardinality(A) \in Nat /\ Cardinality(B) \in Nat
  BY <1>1, FS_CardinalityType
<1>3. Cardinality(A) = Cardinality(B) + IF t \in T /\ pc[t] \in S THEN 1 ELSE 0
  <2>1. CASE t \in T /\ pc[t] \in S
    BY <1>1, <1>2, FS_RemoveElement DEF At
  <2>2. CASE ~(t \in T /\ pc[t] \in S)
    <3>1. A = B
      BY <2>2 DEF At
    <3> QED
      BY <1>2, <2>2, <3>1
  <2> QED
    BY <2>1, <2>2
<1>4. Cardinality(A') = Cardinality(B) + IF t \in T /\ pc'[t] \in S THEN 1 ELSE 0
  <2>1. CASE t \in T /\ pc'[t] \in S
    <3>1. A' = B \cup {t} /\ t \notin B
      BY <2>1 DEF At
    <3> QED
      BY <1>1, <1>2, <2>1, <3>1, FS_AddElement
  <2>2. CASE ~(t \in T /\ pc'[t] \in S)
    <3>1. A' = B
      BY <2>2 DEF At
    <3> QED
      BY <1>2, <2>2, <3>1
  <2> QED
    BY <2>1, <2>2
<1> HIDE DEF B
<1> QED
  BY <1>1, <1>2, <1>3, <1>4

\* The threads that are between their waits and posts in semaphore.c.
ProducersIn == Cardinality(At(Producers, {"lock", "read", "write"}))
ProducersOut == Cardinality(At(Producers, {"unlock", "post"}))
ConsumersIn == Cardinality(At(Consumers, {"lock", "read", "write"}))
ConsumersOut == Cardinality(At(Consumers, {"unlock", "post"}))

\* The two sums of SemaphoresAccount.
PlacesAccount == Len(list) + psem + ProducersIn + ConsumersOut = Places
NodesAccount == Len(list) = csem + ProducersOut + ConsumersIn

\* SemaphoresAccount in these words.
LEMMA AccountIs ==
  SemaphoresAccount <=>
    /\ program = "semaphore.c" => PlacesAccount /\ NodesAccount
    /\ HeadIsNotNull
BY DEF SemaphoresAccount, PlacesAccount, NodesAccount, ProducersIn, ProducersOut,
   ConsumersIn, ConsumersOut

In(place) == IF place \in {"lock", "read", "write"} THEN 1 ELSE 0
Out(place) == IF place \in {"unlock", "post"} THEN 1 ELSE 0

\* The counts are numbers.
LEMMA CountsAreNumbers ==
  {ProducersIn, ProducersOut, ConsumersIn, ConsumersOut} \subseteq Nat
<1>1. ASSUME NEW T \in SUBSET Threads, NEW S PROVE Cardinality(At(T, S)) \in Nat
  BY ConstantFacts, FS_Subset, FS_CardinalityType DEF At
<1> QED
  BY <1>1, ConstantFacts DEF ProducersIn, ProducersOut, ConsumersIn, ConsumersOut

\* A thread that moves is counted where it comes to and no longer where it was.
LEMMA AccountMoves ==
  ASSUME NEW t \in Threads, \A u \in Threads \ {t} : pc'[u] = pc[u]
  PROVE  /\ {ProducersIn, ProducersOut, ConsumersIn, ConsumersOut} \subseteq Nat
         /\ t \in Producers =>
              /\ ProducersIn' = ProducersIn + In(pc'[t]) - In(pc[t])
              /\ ProducersOut' = ProducersOut + Out(pc'[t]) - Out(pc[t])
              /\ ConsumersIn' = ConsumersIn /\ ConsumersOut' = ConsumersOut
         /\ t \in Consumers =>
              /\ ConsumersIn' = ConsumersIn + In(pc'[t]) - In(pc[t])
              /\ ConsumersOut' = ConsumersOut + Out(pc'[t]) - Out(pc[t])
              /\ ProducersIn' = ProducersIn /\ ProducersOut' = ProducersOut
<1>1. t \in Producers => t \notin Consumers
  BY ConstantFacts
<1>2. Producers \in SUBSET Threads /\ Consumers \in SUBSET Threads
  BY ConstantFacts
<1> DEFINE Bit(b) == IF b THEN 1 ELSE 0
           in == {"lock", "read", "write"}
           out == {"unlock", "post"}
<1>3. /\ ProducersIn \in Nat
      /\ ProducersIn' = ProducersIn + Bit(t \in Producers /\ pc'[t] \in in)
                                   - Bit(t \in Producers /\ pc[t] \in in)
  BY <1>2, AtMoves DEF ProducersIn
<1>4. /\ ProducersOut \in Nat
      /\ ProducersOut' = ProducersOut + Bit(t \in Producers /\ pc'[t] \in out)
                                     - Bit(t \in Producers /\ pc[t] \in out)
  BY <1>2, AtMoves DEF ProducersOut
<1>5. /\ ConsumersIn \in Nat
      /\ ConsumersIn' = ConsumersIn + Bit(t \in Consumers /\ pc'[t] \in in)
                                   - Bit(t \in Consumers /\ pc[t] \in in)
  BY <1>2, AtMoves DEF ConsumersIn
<1>6. /\ ConsumersOut \in Nat
      /\ ConsumersOut' = ConsumersOut + Bit(t \in Consumers /\ pc'[t] \in out)
                                     - Bit(t \in Consumers /\ pc[t] \in out)
  BY <1>2, AtMoves DEF ConsumersOut
<1> QED
  BY <1>1, <1>3, <1>4, <1>5, <1>6 DEF In, Out

\* Somebody who is there is counted.
LEMMA InsideIsCounted ==
  ASSUME NEW t \in Threads, pc[t] \in {"lock", "read", "write"}
  PROVE  /\ t \in Producers => ProducersIn # 0
         /\ t \in Consumers => ConsumersIn # 0
<1> DEFINE Ins(T) == At(T, {"lock", "read", "write"})
<1>1. ASSUME NEW T \in SUBSET Threads, t \in T PROVE Cardinality(Ins(T)) # 0
  <2>1. t \in Ins(T) /\ IsFiniteSet(Ins(T))
    BY <1>1, ConstantFacts, FS_Subset DEF At
  <2> HIDE DEF Ins
  <2> QED
    BY <2>1, FS_EmptySet
<1> QED
  BY <1>1, ConstantFacts DEF ProducersIn, ConsumersIn

\* A set of numbers that is not empty has a least member.
LEMMA MinIsIn ==
  ASSUME NEW S \in SUBSET Nat, S # {}
  PROVE  Min(S) \in S
<1> DEFINE Less == {ss \in Nat \X Nat : ss[1] < ss[2]}
<1>1. IsWellFoundedOn(Less, Nat)
  BY NatLessThanWellFounded DEF OpToRel
<1>2. PICK x \in S : \A y \in S : ~(<<y, x>> \in Less)
  BY <1>1, WFMin, Zenon
<1>3. ASSUME NEW y \in S PROVE x <= y
  <2>1. x \in Nat /\ y \in Nat
    OBVIOUS
  <2>2. y < x => <<y, x>> \in Less
    OBVIOUS
  <2> QED
    BY <1>2, <2>2
<1> QED
  BY <1>3 DEF Min

\* A node is put in front of the list, or taken from there.
LEMMA PushNode ==
  ASSUME NEW s \in Seq(Nodes), NEW n \in Nodes, IsInjective(s), n \notin Range(s)
  PROVE  /\ <<n>> \o s \in Seq(Nodes) /\ Len(<<n>> \o s) = Len(s) + 1
         /\ IsInjective(<<n>> \o s) /\ Range(<<n>> \o s) = Range(s) \cup {n}
<1> DEFINE u == <<n>> \o s
<1>1. u \in Seq(Nodes) /\ Len(u) = Len(s) + 1
  OBVIOUS
<1>2. /\ u[1] = n
      /\ \A i \in 2 .. Len(s) + 1 : u[i] = s[i - 1] /\ i - 1 \in DOMAIN s
      /\ \A i \in DOMAIN s : s[i] = u[i + 1] /\ i + 1 \in DOMAIN u
      /\ DOMAIN u = {1} \cup 2 .. Len(s) + 1
  OBVIOUS
<1> HIDE DEF u
<1>3. Range(u) = Range(s) \cup {n}
  BY <1>2 DEF Range
<1>4. IsInjective(u)
  <2>1. \A i \in 2 .. Len(s) + 1 : u[i] # n
    BY <1>2 DEF Range
  <2>2. \A i, j \in 2 .. Len(s) + 1 : u[i] = u[j] => i = j
    BY <1>2 DEF IsInjective
  <2> QED
    BY <1>2, <2>1 DEF IsInjective
<1> QED
  BY <1>3, <1>4 DEF u

\* The rest of a list is a list of the other nodes.
LEMMA PopNode ==
  ASSUME NEW s \in Seq(Nodes), s # <<>>, IsInjective(s)
  PROVE  /\ Tail(s) \in Seq(Nodes) /\ Len(Tail(s)) = Len(s) - 1
         /\ Head(s) \in Range(s)
         /\ IsInjective(Tail(s)) /\ Range(Tail(s)) = Range(s) \ {Head(s)}
<1> DEFINE u == Tail(s)
<1>1. /\ u \in Seq(Nodes) /\ Len(u) = Len(s) - 1
      /\ Head(s) = s[1] /\ 1 \in DOMAIN s
  OBVIOUS
<1>2. /\ DOMAIN s = {1} \cup 2 .. Len(s)
      /\ \A i \in DOMAIN u : u[i] = s[i + 1] /\ i + 1 \in 2 .. Len(s)
  BY <1>1
<1>7. \A i \in 2 .. Len(s) : s[i] = u[i - 1] /\ i - 1 \in DOMAIN u
  <2> SUFFICES ASSUME NEW i \in 2 .. Len(s) PROVE s[i] = u[i - 1] /\ i - 1 \in DOMAIN u
    OBVIOUS
  <2>1. Len(s) \in Nat /\ i - 1 \in 1 .. Len(u) /\ i = (i - 1) + 1
    OBVIOUS
  <2>2. DOMAIN u = 1 .. Len(u)
    OBVIOUS
  <2> QED
    OBVIOUS
<1> HIDE DEF u
<1>3. \A i \in 2 .. Len(s) : s[i] # s[1]
  BY DEF IsInjective
<1>4. Range(u) = Range(s) \ {Head(s)}
  BY <1>2, <1>7, <1>3 DEF Range
<1>5. IsInjective(u)
  <2>1. \A i, j \in DOMAIN u : u[i] = u[j] => i + 1 = j + 1
    BY <1>2 DEF IsInjective
  <2>2. DOMAIN u \subseteq Int
    OBVIOUS
  <2> QED
    BY <2>1 DEF IsInjective
<1> QED
  BY <1>4, <1>5 DEF u, Range

\* Whoever is told wakes up; nobody else moves.
LEMMA SignalWakes ==
  ASSUME NEW after \in [Threads -> ListPcs], Signal(after), pc \in [Threads -> ListPcs]
  PROVE  /\ pc' \in [Threads -> ListPcs]
         /\ \A t \in Threads : \/ pc'[t] = after[t]
                               \/ pc'[t] = "relock" /\ pc[t] = "asleep"
         /\ program = "semaphore.c" => pc' = after
BY DEF Signal, Asleep, ListPcs

\* A producer that gets a node gets one that nobody else has.
LEMMA NewNodeIs ==
  ASSUME ListInv, NEW t \in Producers, NewNode(t), newNode[t] = NoNode, list' = list
  PROVE  /\ newNode'[t] \in Nodes \ heap /\ heap' = heap \cup {newNode'[t]}
         /\ newNode' = [newNode EXCEPT ![t] = newNode'[t]]
         /\ \A p \in Producers \ {t} : newNode[p] # newNode'[t]
         /\ NodesAreAccountedFor'
<1>1. heap \subseteq Nodes /\ heap # Nodes /\ Nodes \subseteq Nat
  BY ConstantFacts DEF ListInv, ListTypeOK, NewNode
<1>2. Min(Nodes \ heap) \in Nodes \ heap
  BY <1>1, MinIsIn, Nodes \ heap \in SUBSET Nat, Nodes \ heap # {}
<1>3. /\ newNode'[t] \in Nodes \ heap /\ heap' = heap \cup {newNode'[t]}
      /\ newNode' = [newNode EXCEPT ![t] = newNode'[t]]
  BY <1>2 DEF ListInv, ListTypeOK, NewNode
<1>4. Range(newNode)' \cup {NoNode} = Range(newNode) \cup {newNode'[t], NoNode}
  BY <1>3 DEF ListInv, ListTypeOK, Range
<1>5. newNode'[t] \notin Range(list) /\ newNode'[t] # NoNode /\ NoNode \notin Range(list)
  BY <1>3, ConstantFacts DEF ListInv, ListTypeOK, NodesAreAccountedFor, Range
<1>6. NodesAreAccountedFor'
  BY <1>3, <1>4, <1>5 DEF ListInv, NodesAreAccountedFor
<1>7. \A p \in Producers \ {t} : newNode[p] # newNode'[t]
  BY <1>3, ConstantFacts DEF ListInv, ListTypeOK, NodesAreAccountedFor, Range
<1> QED
  BY <1>3, <1>6, <1>7

\* Make: a producer of prodcust.cpp, which has no semaphores.
LEMMA MakeInv ==
  ASSUME ListInv, NEW t \in Producers, Make(t)
  PROVE  ListInv'
<1>1. /\ pc[t] = "make" /\ pc' = [pc EXCEPT ![t] = "lock"] /\ NewNode(t)
      /\ UNCHANGED <<program, list, mutex, psem, csem, seen, left>>
      /\ program = "prodcust.cpp" /\ t \in Threads /\ newNode[t] = NoNode
  BY ConstantFacts DEF ListInv, NewNodeIsHeld, Make, Goto
<1>2. /\ newNode'[t] \in Nodes \ heap /\ heap' = heap \cup {newNode'[t]}
      /\ newNode' = [newNode EXCEPT ![t] = newNode'[t]]
      /\ \A p \in Producers \ {t} : newNode[p] # newNode'[t]
      /\ NodesAreAccountedFor'
  BY <1>1, NewNodeIs
<1>3. ListTypeOK'
  BY <1>1, <1>2 DEF ListInv, ListTypeOK, AroundList, ListPcs
<1>4. HolderIsInside' /\ SleepersAreConsumers' /\ SeenIsList'
  BY <1>1 DEF ListInv, ListTypeOK, HolderIsInside, SleepersAreConsumers, SeenIsList
<1>5. NewNodeIsHeld'
  <2>1. /\ pc'[t] = "lock" /\ newNode'[t] # NoNode
        /\ \A u \in Threads \ {t} : pc'[u] = pc[u]
        /\ \A p \in Producers \ {t} : newNode'[p] = newNode[p]
    BY <1>1, <1>2, ConstantFacts DEF ListInv, ListTypeOK
  <2> QED
    BY <1>1, <1>2, <2>1, ConstantFacts DEF ListInv, NewNodeIsHeld
<1>6. HeadIsNotNull'
  BY <1>1, ConstantFacts DEF ListInv, ListTypeOK, SemaphoresAccount, HeadIsNotNull
<1>7. SemaphoresAccount'
  <2>1. program' # "semaphore.c"
    BY <1>1
  <2> QED
    BY <1>6, <2>1 DEF SemaphoresAccount
<1> QED
  BY <1>2, <1>3, <1>4, <1>5, <1>7 DEF ListInv

\* Lock: the thread that gets the mutex is inside, and a producer has a node
\* that nobody else has.
LEMMA LockInv ==
  ASSUME ListInv, NEW t \in Threads, Lock(t)
  PROVE  ListInv'
<1>1. /\ t \in Producers /\ program # "prodcust.cpp" =>
           /\ newNode'[t] \in Nodes \ heap /\ heap' = heap \cup {newNode'[t]}
           /\ newNode' = [newNode EXCEPT ![t] = newNode'[t]]
           /\ \A p \in Producers \ {t} : newNode[p] # newNode'[t]
           /\ NodesAreAccountedFor'
      /\ t \notin Producers \/ program = "prodcust.cpp" => UNCHANGED <<newNode, heap>>
  <2>1. t \in Producers /\ program # "prodcust.cpp" =>
          NewNode(t) /\ newNode[t] = NoNode /\ list' = list
    BY DEF ListInv, NewNodeIsHeld, Lock, Goto, MakesFirst
  <2> QED
    BY <2>1, NewNodeIs DEF Lock, MakesFirst
<1>2. ListTypeOK'
  BY <1>1, ConstantFacts DEF ListInv, ListTypeOK, HolderIsInside,
     SleepersAreConsumers, SeenIsList, NewNodeIsHeld, AroundList, Programs,
     ListPcs, Goto, Acquire, Start, MakesFirst, Unlocked, Relocked, Endless, Posted, Lock
<1>3. HolderIsInside'
  BY ConstantFacts DEF ListInv, ListTypeOK, HolderIsInside, SleepersAreConsumers,
     SeenIsList, NewNodeIsHeld, AroundList, Goto, Acquire, Lock
<1>4. SleepersAreConsumers'
  BY DEF ListInv, SleepersAreConsumers, Goto, Lock
<1>5. SeenIsList'
  BY DEF ListInv, SeenIsList, Goto, Lock
<1>6. NewNodeIsHeld'
  BY <1>1, ConstantFacts DEF ListInv, ListTypeOK, HolderIsInside,
     SleepersAreConsumers, SeenIsList, NewNodeIsHeld, AroundList, Programs, Goto,
     Lock
<1>7. NodesAreAccountedFor'
  <2>1. CASE t \notin Producers \/ program = "prodcust.cpp"
    BY <1>1, <2>1 DEF ListInv, NodesAreAccountedFor, Lock
  <2> QED
    BY <1>1, <2>1
<1>8. SemaphoresAccount'
  <2>1. ASSUME program = "semaphore.c" PROVE PlacesAccount' /\ NodesAccount'
    <3>1. pc[t] = "lock" /\ pc' = [pc EXCEPT ![t] = "read"] /\ pc \in [Threads -> ListPcs]
      BY DEF ListInv, ListTypeOK, Goto, Lock
    <3>2. PlacesAccount /\ NodesAccount
      BY <2>1, AccountIs DEF ListInv
    <3>3. list' = list /\ psem' = psem /\ csem' = csem
      BY DEF Lock
    <3>4. t \in Threads /\ psem \in Nat /\ csem \in Nat /\ Len(list) \in Nat
      BY DEF ListInv, ListTypeOK
    <3>5. /\ {ProducersIn, ProducersOut, ConsumersIn, ConsumersOut} \subseteq Nat
          /\ t \in Producers =>
               /\ ProducersIn' = ProducersIn /\ ProducersOut' = ProducersOut
               /\ ConsumersIn' = ConsumersIn /\ ConsumersOut' = ConsumersOut
          /\ t \in Consumers =>
               /\ ConsumersIn' = ConsumersIn /\ ConsumersOut' = ConsumersOut
               /\ ProducersIn' = ProducersIn /\ ProducersOut' = ProducersOut
      <4>1. /\ In(pc[t]) = 1 /\ In(pc'[t]) = 1 /\ Out(pc[t]) = 0 /\ Out(pc'[t]) = 0
            /\ \A u \in Threads \ {t} : pc'[u] = pc[u]
        BY <3>1 DEF In, Out
      <4> QED
        BY <4>1, AccountMoves
    <3>6. \/ t \in Producers /\ t \notin Consumers
          \/ t \in Consumers /\ t \notin Producers
      BY ConstantFacts
    <3>7. /\ ProducersIn \in Nat /\ ProducersOut \in Nat
          /\ ConsumersIn \in Nat /\ ConsumersOut \in Nat
      BY <3>5
    <3> QED
      BY <3>2, <3>3, <3>5, <3>6 DEF PlacesAccount, NodesAccount
  <2>2. HeadIsNotNull'
    BY DEF ListInv, SemaphoresAccount, HeadIsNotNull, Goto, Lock
  <2> QED
    BY <2>1, <2>2 DEF SemaphoresAccount, PlacesAccount, NodesAccount,
       ProducersIn, ProducersOut, ConsumersIn, ConsumersOut, Lock
<1> QED
  BY <1>2, <1>3, <1>4, <1>5, <1>6, <1>7, <1>8 DEF ListInv

\* Unlock: the thread that held the mutex is outside again.
LEMMA UnlockInv ==
  ASSUME ListInv, NEW t \in Threads, Unlock(t)
  PROVE  ListInv'
<1>1. ListTypeOK'
  BY DEF ListInv, ListTypeOK, HolderIsInside, SleepersAreConsumers, AroundList,
     ListPcs, Goto, Unlocked, Unlock
<1>2. HolderIsInside'
  BY ConstantFacts DEF ListInv, ListTypeOK, HolderIsInside, SleepersAreConsumers,
     SeenIsList, NewNodeIsHeld, AroundList, Programs, ListPcs, Goto, Unlocked,
     Unlock
<1>3. SleepersAreConsumers'
  BY DEF ListInv, ListTypeOK, HolderIsInside, SleepersAreConsumers, Goto,
     Unlocked, Unlock
<1>4. SeenIsList'
  BY DEF ListInv, ListTypeOK, HolderIsInside, SleepersAreConsumers, SeenIsList,
     Goto, Unlocked, Unlock
<1>5. NewNodeIsHeld'
  BY DEF ListInv, ListTypeOK, HolderIsInside, SleepersAreConsumers,
     NewNodeIsHeld, Goto, Unlocked, Unlock
<1>6. NodesAreAccountedFor'
  BY DEF ListInv, ListTypeOK, HolderIsInside, SleepersAreConsumers, SeenIsList,
     NewNodeIsHeld, AroundList, Unlock, NodesAreAccountedFor
<1>7. SemaphoresAccount'
  <2>1. ASSUME program = "semaphore.c" PROVE PlacesAccount' /\ NodesAccount'
    <3>1. pc[t] = "unlock" /\ pc' = [pc EXCEPT ![t] = "post"] /\ pc \in [Threads -> ListPcs]
      BY <2>1 DEF ListInv, ListTypeOK, Goto, Unlocked, Unlock
    <3>2. PlacesAccount /\ NodesAccount
      BY <2>1, AccountIs DEF ListInv
    <3>3. list' = list /\ psem' = psem /\ csem' = csem
      BY DEF Unlock
    <3>4. t \in Threads /\ psem \in Nat /\ csem \in Nat /\ Len(list) \in Nat
      BY DEF ListInv, ListTypeOK
    <3>5. /\ {ProducersIn, ProducersOut, ConsumersIn, ConsumersOut} \subseteq Nat
          /\ t \in Producers =>
               /\ ProducersIn' = ProducersIn /\ ProducersOut' = ProducersOut
               /\ ConsumersIn' = ConsumersIn /\ ConsumersOut' = ConsumersOut
          /\ t \in Consumers =>
               /\ ConsumersIn' = ConsumersIn /\ ConsumersOut' = ConsumersOut
               /\ ProducersIn' = ProducersIn /\ ProducersOut' = ProducersOut
      <4>1. /\ In(pc[t]) = 0 /\ In(pc'[t]) = 0 /\ Out(pc[t]) = 1 /\ Out(pc'[t]) = 1
            /\ \A u \in Threads \ {t} : pc'[u] = pc[u]
        BY <3>1 DEF In, Out
      <4> QED
        BY <4>1, AccountMoves
    <3>6. \/ t \in Producers /\ t \notin Consumers
          \/ t \in Consumers /\ t \notin Producers
      BY ConstantFacts
    <3>7. /\ ProducersIn \in Nat /\ ProducersOut \in Nat
          /\ ConsumersIn \in Nat /\ ConsumersOut \in Nat
      BY <3>5
    <3> QED
      BY <3>2, <3>3, <3>5, <3>6 DEF PlacesAccount, NodesAccount
  <2>2. HeadIsNotNull'
    BY DEF ListInv, SemaphoresAccount, HeadIsNotNull, Goto, Unlocked, Unlock
  <2> QED
    BY <2>1, <2>2 DEF SemaphoresAccount, PlacesAccount, NodesAccount,
       ProducersIn, ProducersOut, ConsumersIn, ConsumersOut, Unlock
<1> QED
  BY <1>1, <1>2, <1>3, <1>4, <1>5, <1>6, <1>7 DEF ListInv

\* SemWait: a place, or a node, that was free is the thread's.
LEMMA SemWaitInv ==
  ASSUME ListInv, NEW t \in Threads, SemWait(t)
  PROVE  ListInv'
<1>1. ListTypeOK'
  BY DEF ListInv, ListTypeOK, AroundList, ListPcs, Goto, SemWait
<1>2. HolderIsInside'
  BY DEF ListInv, HolderIsInside, Goto, SemWait
<1>3. SleepersAreConsumers'
  BY DEF ListInv, SleepersAreConsumers, Goto, SemWait
<1>4. SeenIsList'
  BY DEF ListInv, SeenIsList, Goto, SemWait
<1>5. NewNodeIsHeld'
  BY DEF ListInv, NewNodeIsHeld, Goto, SemWait
<1>6. NodesAreAccountedFor'
  BY DEF ListInv, ListTypeOK, HolderIsInside, SleepersAreConsumers, SeenIsList,
     NewNodeIsHeld, AroundList, SemWait, NodesAreAccountedFor
<1>7. SemaphoresAccount'
  <2>1. ASSUME program = "semaphore.c" PROVE PlacesAccount' /\ NodesAccount'
    <3>1. pc[t] = "wait" /\ pc' = [pc EXCEPT ![t] = "lock"] /\ pc \in [Threads -> ListPcs]
      BY DEF ListInv, ListTypeOK, Goto, SemWait
    <3>2. PlacesAccount /\ NodesAccount
      BY <2>1, AccountIs DEF ListInv
    <3>3. /\ list' = list
          /\ t \in Producers => psem' = psem - 1 /\ csem' = csem
          /\ t \notin Producers => csem' = csem - 1 /\ psem' = psem
      BY DEF SemWait
    <3>4. t \in Threads /\ psem \in Nat /\ csem \in Nat /\ Len(list) \in Nat
      BY DEF ListInv, ListTypeOK
    <3>5. /\ {ProducersIn, ProducersOut, ConsumersIn, ConsumersOut} \subseteq Nat
          /\ t \in Producers =>
               /\ ProducersIn' = ProducersIn + 1 /\ ProducersOut' = ProducersOut
               /\ ConsumersIn' = ConsumersIn /\ ConsumersOut' = ConsumersOut
          /\ t \in Consumers =>
               /\ ConsumersIn' = ConsumersIn + 1 /\ ConsumersOut' = ConsumersOut
               /\ ProducersIn' = ProducersIn /\ ProducersOut' = ProducersOut
      <4>1. /\ In(pc[t]) = 0 /\ In(pc'[t]) = 1 /\ Out(pc[t]) = 0 /\ Out(pc'[t]) = 0
            /\ \A u \in Threads \ {t} : pc'[u] = pc[u]
        BY <3>1 DEF In, Out
      <4> QED
        BY <4>1, AccountMoves
    <3>6. \/ t \in Producers /\ t \notin Consumers
          \/ t \in Consumers /\ t \notin Producers
      BY ConstantFacts
    <3>7. /\ ProducersIn \in Nat /\ ProducersOut \in Nat
          /\ ConsumersIn \in Nat /\ ConsumersOut \in Nat
      BY <3>5
    <3> QED
      BY <3>2, <3>3, <3>4, <3>5, <3>6, <3>7 DEF PlacesAccount, NodesAccount
  <2>2. HeadIsNotNull'
    BY DEF ListInv, SemaphoresAccount, HeadIsNotNull, Goto, SemWait
  <2> QED
    BY <2>1, <2>2 DEF SemaphoresAccount, PlacesAccount, NodesAccount,
       ProducersIn, ProducersOut, ConsumersIn, ConsumersOut, SemWait
<1> QED
  BY <1>1, <1>2, <1>3, <1>4, <1>5, <1>6, <1>7 DEF ListInv

\* SemPost: the node, or the place, is counted by the other semaphore.
LEMMA SemPostInv ==
  ASSUME ListInv, NEW t \in Threads, SemPost(t)
  PROVE  ListInv'
<1>1. ListTypeOK'
  BY DEF ListInv, ListTypeOK, HolderIsInside, SleepersAreConsumers, SeenIsList,
     NewNodeIsHeld, AroundList, ListPcs, Goto, Posted, SemPost
<1>2. HolderIsInside'
  BY DEF ListInv, HolderIsInside, Goto, SemPost
<1>3. SleepersAreConsumers'
  BY DEF ListInv, SleepersAreConsumers, Goto, SemPost
<1>4. SeenIsList'
  BY DEF ListInv, SeenIsList, Goto, SemPost
<1>5. NewNodeIsHeld'
  BY DEF ListInv, NewNodeIsHeld, Goto, SemPost
<1>6. NodesAreAccountedFor'
  BY DEF ListInv, ListTypeOK, HolderIsInside, SleepersAreConsumers, SeenIsList,
     NewNodeIsHeld, AroundList, SemPost, NodesAreAccountedFor
<1>7. SemaphoresAccount'
  <2>1. ASSUME program = "semaphore.c" PROVE PlacesAccount' /\ NodesAccount'
    <3>1. pc[t] = "post" /\ pc' = [pc EXCEPT ![t] = "next"] /\ pc \in [Threads -> ListPcs]
      BY DEF ListInv, ListTypeOK, Goto, SemPost
    <3>2. PlacesAccount /\ NodesAccount
      BY <2>1, AccountIs DEF ListInv
    <3>3. /\ list' = list
          /\ t \in Producers => csem' = csem + 1 /\ psem' = psem
          /\ t \notin Producers => psem' = psem + 1 /\ csem' = csem
      BY DEF Posted, SemPost
    <3>4. t \in Threads /\ psem \in Nat /\ csem \in Nat /\ Len(list) \in Nat
      BY DEF ListInv, ListTypeOK
    <3>5. /\ {ProducersIn, ProducersOut, ConsumersIn, ConsumersOut} \subseteq Nat
          /\ t \in Producers =>
               /\ ProducersIn' = ProducersIn /\ ProducersOut' = ProducersOut - 1
               /\ ConsumersIn' = ConsumersIn /\ ConsumersOut' = ConsumersOut
          /\ t \in Consumers =>
               /\ ConsumersIn' = ConsumersIn /\ ConsumersOut' = ConsumersOut - 1
               /\ ProducersIn' = ProducersIn /\ ProducersOut' = ProducersOut
      <4>1. /\ In(pc[t]) = 0 /\ In(pc'[t]) = 0 /\ Out(pc[t]) = 1 /\ Out(pc'[t]) = 0
            /\ \A u \in Threads \ {t} : pc'[u] = pc[u]
        BY <3>1 DEF In, Out
      <4> QED
        BY <4>1, AccountMoves
    <3>6. \/ t \in Producers /\ t \notin Consumers
          \/ t \in Consumers /\ t \notin Producers
      BY ConstantFacts
    <3>7. /\ ProducersIn \in Nat /\ ProducersOut \in Nat
          /\ ConsumersIn \in Nat /\ ConsumersOut \in Nat
      BY <3>5
    <3> QED
      BY <3>2, <3>3, <3>4, <3>5, <3>6, <3>7 DEF PlacesAccount, NodesAccount
  <2>2. HeadIsNotNull'
    BY DEF ListInv, SemaphoresAccount, HeadIsNotNull, Goto, SemPost
  <2> QED
    BY <2>1, <2>2 DEF SemaphoresAccount, PlacesAccount, NodesAccount,
       ProducersIn, ProducersOut, ConsumersIn, ConsumersOut, SemPost
<1> QED
  BY <1>1, <1>2, <1>3, <1>4, <1>5, <1>6, <1>7 DEF ListInv

\* NextRound: nothing is held between two rounds.
LEMMA NextRoundInv ==
  ASSUME ListInv, NEW t \in Threads, NextRound(t)
  PROVE  ListInv'
<1>1. ListTypeOK'
  BY DEF ListInv, ListTypeOK, HolderIsInside, SleepersAreConsumers, SeenIsList,
     NewNodeIsHeld, AroundList, ListPcs, Goto, Start, MakesFirst, NextRound
<1>2. HolderIsInside'
  BY DEF ListInv, ListTypeOK, HolderIsInside, Goto, Start, MakesFirst, NextRound
<1>3. SleepersAreConsumers'
  BY DEF ListInv, ListTypeOK, SleepersAreConsumers, Goto, Start, MakesFirst, NextRound
<1>4. SeenIsList'
  BY DEF ListInv, ListTypeOK, SeenIsList, Goto, Start, MakesFirst, NextRound
<1>5. NewNodeIsHeld'
  BY DEF ListInv, ListTypeOK, NewNodeIsHeld, Goto, Start, MakesFirst, NextRound
<1>6. NodesAreAccountedFor'
  BY DEF ListInv, ListTypeOK, HolderIsInside, SleepersAreConsumers, SeenIsList,
     NewNodeIsHeld, AroundList, NextRound, NodesAreAccountedFor
<1>7. SemaphoresAccount'
  <2>1. ASSUME program = "semaphore.c" PROVE PlacesAccount' /\ NodesAccount'
    <3>1. pc[t] = "next" /\ pc' = [pc EXCEPT ![t] = "wait"] /\ pc \in [Threads -> ListPcs]
      BY <2>1 DEF ListInv, ListTypeOK, Goto, Start, MakesFirst, Endless, NextRound
    <3>2. PlacesAccount /\ NodesAccount
      BY <2>1, AccountIs DEF ListInv
    <3>3. list' = list /\ psem' = psem /\ csem' = csem
      BY DEF NextRound
    <3>4. t \in Threads /\ psem \in Nat /\ csem \in Nat /\ Len(list) \in Nat
      BY DEF ListInv, ListTypeOK
    <3>5. /\ {ProducersIn, ProducersOut, ConsumersIn, ConsumersOut} \subseteq Nat
          /\ t \in Producers =>
               /\ ProducersIn' = ProducersIn /\ ProducersOut' = ProducersOut
               /\ ConsumersIn' = ConsumersIn /\ ConsumersOut' = ConsumersOut
          /\ t \in Consumers =>
               /\ ConsumersIn' = ConsumersIn /\ ConsumersOut' = ConsumersOut
               /\ ProducersIn' = ProducersIn /\ ProducersOut' = ProducersOut
      <4>1. /\ In(pc[t]) = 0 /\ In(pc'[t]) = 0 /\ Out(pc[t]) = 0 /\ Out(pc'[t]) = 0
            /\ \A u \in Threads \ {t} : pc'[u] = pc[u]
        BY <3>1 DEF In, Out
      <4> QED
        BY <4>1, AccountMoves
    <3>6. \/ t \in Producers /\ t \notin Consumers
          \/ t \in Consumers /\ t \notin Producers
      BY ConstantFacts
    <3>7. /\ ProducersIn \in Nat /\ ProducersOut \in Nat
          /\ ConsumersIn \in Nat /\ ConsumersOut \in Nat
      BY <3>5
    <3> QED
      BY <3>2, <3>3, <3>5, <3>6 DEF PlacesAccount, NodesAccount
  <2>2. HeadIsNotNull'
    BY DEF ListInv, SemaphoresAccount, HeadIsNotNull, Goto, Start, MakesFirst, NextRound
  <2> QED
    BY <2>1, <2>2 DEF SemaphoresAccount, PlacesAccount, NodesAccount,
       ProducersIn, ProducersOut, ConsumersIn, ConsumersOut, NextRound
<1> QED
  BY <1>1, <1>2, <1>3, <1>4, <1>5, <1>6, <1>7 DEF ListInv

\* WakeSpuriously: whoever is awake again still waits for the mutex.
LEMMA WakeSpuriouslyInv ==
  ASSUME ListInv, NEW t \in Consumers, WakeSpuriously(t)
  PROVE  ListInv'
<1>1. ListTypeOK'
  BY ConstantFacts DEF ListInv, ListTypeOK, HolderIsInside, SleepersAreConsumers,
     SeenIsList, NewNodeIsHeld, AroundList, ListPcs, Goto, WakeSpuriously
<1>2. HolderIsInside'
  BY DEF ListInv, HolderIsInside, Goto, WakeSpuriously
<1>3. SleepersAreConsumers'
  BY DEF ListInv, SleepersAreConsumers, Goto, WakeSpuriously
<1>4. SeenIsList'
  BY DEF ListInv, SeenIsList, Goto, WakeSpuriously
<1>5. NewNodeIsHeld'
  BY DEF ListInv, NewNodeIsHeld, Goto, WakeSpuriously
<1>6. NodesAreAccountedFor'
  BY DEF ListInv, ListTypeOK, HolderIsInside, SleepersAreConsumers, SeenIsList,
     NewNodeIsHeld, AroundList, WakeSpuriously, NodesAreAccountedFor
<1>7. SemaphoresAccount'
  BY ConstantFacts DEF ListInv, ListTypeOK, HolderIsInside, SleepersAreConsumers,
     SeenIsList, NewNodeIsHeld, AroundList, Programs, ListPcs, Goto, Acquire,
     Start, MakesFirst, WakeSpuriously, SemaphoresAccount, HeadIsNotNull, At
<1> QED
  BY <1>1, <1>2, <1>3, <1>4, <1>5, <1>6, <1>7 DEF ListInv

\* Relock: the consumer that was woken is inside again.
LEMMA RelockInv ==
  ASSUME ListInv, NEW t \in Threads, Relock(t)
  PROVE  ListInv'
<1>1. ListTypeOK'
  BY DEF ListInv, ListTypeOK, HolderIsInside, SleepersAreConsumers, SeenIsList,
     AroundList, ListPcs, Goto, Acquire, Relocked, Relock
<1>2. HolderIsInside'
  BY ConstantFacts DEF ListInv, ListTypeOK, HolderIsInside, SleepersAreConsumers,
     SeenIsList, NewNodeIsHeld, AroundList, Goto, Acquire, Relocked, Relock
<1>3. SleepersAreConsumers'
  BY DEF ListInv, SleepersAreConsumers, Goto, Relock
<1>4. SeenIsList'
  BY DEF ListInv, ListTypeOK, HolderIsInside, SleepersAreConsumers, SeenIsList,
     Goto, Relocked, Relock
<1>5. NewNodeIsHeld'
  BY ConstantFacts DEF ListInv, ListTypeOK, HolderIsInside, SleepersAreConsumers,
     SeenIsList, NewNodeIsHeld, Goto, Relocked, Relock
<1>6. NodesAreAccountedFor'
  BY DEF ListInv, ListTypeOK, HolderIsInside, SleepersAreConsumers, SeenIsList,
     NewNodeIsHeld, AroundList, Relock, NodesAreAccountedFor
<1>7. SemaphoresAccount'
  BY DEF ListInv, ListTypeOK, HolderIsInside, SleepersAreConsumers, SeenIsList,
     NewNodeIsHeld, AroundList, Programs, ListPcs, Goto, Acquire, Relocked,
     Relock, SemaphoresAccount, HeadIsNotNull, At
<1> QED
  BY <1>1, <1>2, <1>3, <1>4, <1>5, <1>6, <1>7 DEF ListInv

\* Read: what the thread has seen is the list, and no consumer of semaphore.c
\* has seen it empty, for the one that is inside is counted.
LEMMA ReadInv ==
  ASSUME ListInv, NEW t \in Threads, Read(t)
  PROVE  ListInv'
<1>1. ListTypeOK'
  BY DEF ListInv, ListTypeOK, AroundList, ListPcs, Goto, Read
<1>2. HolderIsInside'
  BY DEF ListInv, HolderIsInside, Goto, Read
<1>3. SleepersAreConsumers'
  BY DEF ListInv, SleepersAreConsumers, Goto, Read
<1>4. SeenIsList'
  BY DEF ListInv, ListTypeOK, SeenIsList, Goto, Read
<1>5. NewNodeIsHeld'
  BY DEF ListInv, NewNodeIsHeld, Goto, Read
<1>6. NodesAreAccountedFor'
  BY DEF ListInv, ListTypeOK, HolderIsInside, SleepersAreConsumers, SeenIsList,
     NewNodeIsHeld, AroundList, Read, NodesAreAccountedFor
<1>7. SemaphoresAccount'
  <2>1. ASSUME program = "semaphore.c" PROVE PlacesAccount' /\ NodesAccount'
    <3>1. pc[t] = "read" /\ pc' = [pc EXCEPT ![t] = "write"] /\ pc \in [Threads -> ListPcs]
      BY DEF ListInv, ListTypeOK, Goto, Read
    <3>2. PlacesAccount /\ NodesAccount
      BY <2>1, AccountIs DEF ListInv
    <3>3. list' = list /\ psem' = psem /\ csem' = csem
      BY DEF Read
    <3>4. t \in Threads /\ psem \in Nat /\ csem \in Nat /\ Len(list) \in Nat
      BY DEF ListInv, ListTypeOK
    <3>5. /\ {ProducersIn, ProducersOut, ConsumersIn, ConsumersOut} \subseteq Nat
          /\ t \in Producers =>
               /\ ProducersIn' = ProducersIn /\ ProducersOut' = ProducersOut
               /\ ConsumersIn' = ConsumersIn /\ ConsumersOut' = ConsumersOut
          /\ t \in Consumers =>
               /\ ConsumersIn' = ConsumersIn /\ ConsumersOut' = ConsumersOut
               /\ ProducersIn' = ProducersIn /\ ProducersOut' = ProducersOut
      <4>1. /\ In(pc[t]) = 1 /\ In(pc'[t]) = 1 /\ Out(pc[t]) = 0 /\ Out(pc'[t]) = 0
            /\ \A u \in Threads \ {t} : pc'[u] = pc[u]
        BY <3>1 DEF In, Out
      <4> QED
        BY <4>1, AccountMoves
    <3>6. \/ t \in Producers /\ t \notin Consumers
          \/ t \in Consumers /\ t \notin Producers
      BY ConstantFacts
    <3>7. /\ ProducersIn \in Nat /\ ProducersOut \in Nat
          /\ ConsumersIn \in Nat /\ ConsumersOut \in Nat
      BY <3>5
    <3> QED
      BY <3>2, <3>3, <3>5, <3>6 DEF PlacesAccount, NodesAccount
  <2>2. ASSUME t \in Consumers PROVE list # <<>>
    <3>1. CASE program = "semaphore.c"
      <4>1. pc[t] = "read" /\ pc' = [pc EXCEPT ![t] = "write"] /\ pc \in [Threads -> ListPcs]
        BY DEF ListInv, ListTypeOK, Goto, Read
      <4>2. Len(list) = csem + ProducersOut + ConsumersIn
        BY <3>1, AccountIs DEF ListInv, NodesAccount
      <4>3. ConsumersIn # 0
        BY <2>2, <4>1, InsideIsCounted
      <4>4. {ProducersOut, ConsumersIn} \subseteq Nat /\ csem \in Nat
        BY <4>1, AccountMoves DEF ListInv, ListTypeOK
      <4>5. Len(list) # 0
        BY <4>2, <4>3, <4>4
      <4> QED
        BY <4>5
    <3>2. CASE program # "semaphore.c"
      BY <2>2, <3>2, ConstantFacts DEF Read
    <3> QED
      BY <3>1, <3>2
  <2>3. HeadIsNotNull'
    BY <2>2 DEF ListInv, ListTypeOK, SemaphoresAccount, HeadIsNotNull, Goto, Read
  <2> QED
    BY <2>1, <2>3 DEF SemaphoresAccount, PlacesAccount, NodesAccount,
       ProducersIn, ProducersOut, ConsumersIn, ConsumersOut, Read
<1> QED
  BY <1>1, <1>2, <1>3, <1>4, <1>5, <1>6, <1>7 DEF ListInv

\* ReadEmpty: the consumer goes on to unlock, or sleeps without the mutex.
LEMMA ReadEmptyInv ==
  ASSUME ListInv, NEW t \in Consumers, ReadEmpty(t)
  PROVE  ListInv'
<1>1. ListTypeOK'
  BY ConstantFacts DEF ListInv, ListTypeOK, HolderIsInside, SleepersAreConsumers,
     SeenIsList, NewNodeIsHeld, AroundList, Programs, ListPcs, Goto, Acquire,
     Start, MakesFirst, Unlocked, Relocked, Endless, Posted, ReadEmpty
<1>2. HolderIsInside'
  BY ConstantFacts DEF ListInv, ListTypeOK, HolderIsInside, SleepersAreConsumers,
     SeenIsList, NewNodeIsHeld, Goto, ReadEmpty
<1>3. SleepersAreConsumers'
  BY DEF ListInv, ListTypeOK, HolderIsInside, SleepersAreConsumers, SeenIsList,
     AroundList, Programs, Goto, ReadEmpty
<1>4. SeenIsList'
  BY DEF ListInv, ListTypeOK, SeenIsList, Goto, ReadEmpty
<1>5. NewNodeIsHeld'
  BY ConstantFacts DEF ListInv, ListTypeOK, HolderIsInside, SleepersAreConsumers,
     SeenIsList, NewNodeIsHeld, Goto, ReadEmpty
<1>6. NodesAreAccountedFor'
  BY DEF ListInv, ListTypeOK, HolderIsInside, SleepersAreConsumers, SeenIsList,
     NewNodeIsHeld, AroundList, ReadEmpty, NodesAreAccountedFor
<1>7. SemaphoresAccount'
  BY ConstantFacts DEF ListInv, ListTypeOK, HolderIsInside, SleepersAreConsumers,
     SeenIsList, NewNodeIsHeld, AroundList, Programs, ListPcs, Goto, Acquire,
     Start, MakesFirst, ReadEmpty, SemaphoresAccount, HeadIsNotNull, At
<1> QED
  BY <1>1, <1>2, <1>3, <1>4, <1>5, <1>6, <1>7 DEF ListInv

\* Push: the producer's node is in front of the list, and only there.
LEMMA PushInv ==
  ASSUME ListInv, NEW t \in Producers, Push(t)
  PROVE  ListInv'
<1>1. LET after == [pc EXCEPT ![t] = "unlock"] IN
        /\ pc' \in [Threads -> ListPcs]
        /\ \A u \in Threads : \/ pc'[u] = after[u]
                              \/ pc'[u] = "relock" /\ pc[u] = "asleep"
        /\ program = "semaphore.c" => pc' = after
  <2>1. [pc EXCEPT ![t] = "unlock"] \in [Threads -> ListPcs]
    BY DEF ListInv, ListTypeOK, ListPcs
  <2> QED
    BY <2>1, SignalWakes DEF ListInv, ListTypeOK, Push
<1>2. /\ newNode[t] \in Nodes /\ newNode[t] \notin Range(list)
      /\ list' \in Seq(Nodes) /\ Len(list') = Len(list) + 1
      /\ IsInjective(list') /\ Range(list') = Range(list) \cup {newNode[t]}
  <2>1. t \in Threads /\ pc[t] = "write" /\ seen[t] = list
    BY ConstantFacts DEF ListInv, SeenIsList, Push
  <2>2. newNode[t] \in Nodes /\ newNode[t] \in Range(newNode)
    BY <2>1 DEF ListInv, ListTypeOK, NewNodeIsHeld, Range
  <2>3. list \in Seq(Nodes) /\ IsInjective(list) /\ newNode[t] \notin Range(list)
    BY <2>2 DEF ListInv, ListTypeOK, NodesAreAccountedFor
  <2> QED
    BY <2>1, <2>2, <2>3, PushNode DEF Push
<1>3. ListTypeOK'
  BY <1>1, <1>2, ConstantFacts DEF ListInv, ListTypeOK, HolderIsInside,
     SleepersAreConsumers, SeenIsList, NewNodeIsHeld, AroundList, Programs,
     ListPcs, Goto, Acquire, Start, MakesFirst, Unlocked, Relocked, Endless, Posted, Push
<1>4. HolderIsInside'
  BY <1>1, <1>2, ConstantFacts DEF ListInv, ListTypeOK, HolderIsInside,
     SleepersAreConsumers, SeenIsList, NewNodeIsHeld, AroundList, Programs,
     ListPcs, Goto, Acquire, Start, MakesFirst, Unlocked, Relocked, Endless, Posted, Push
<1>5. SleepersAreConsumers'
  BY <1>1 DEF ListInv, ListTypeOK, HolderIsInside, SleepersAreConsumers,
     SeenIsList, NewNodeIsHeld, AroundList, Push
<1>6. SeenIsList'
  BY <1>1, <1>2, ConstantFacts DEF ListInv, ListTypeOK, HolderIsInside,
     SleepersAreConsumers, SeenIsList, NewNodeIsHeld, AroundList, Programs,
     ListPcs, Goto, Acquire, Start, MakesFirst, Unlocked, Relocked, Endless, Posted, Push
<1>7. NewNodeIsHeld'
  BY <1>1, ConstantFacts DEF ListInv, ListTypeOK, HolderIsInside,
     SleepersAreConsumers, SeenIsList, NewNodeIsHeld, AroundList, Programs,
     ListPcs, Push
<1>8. NodesAreAccountedFor'
  <2>1. Range(newNode)' \cup {newNode[t], NoNode} = Range(newNode) \cup {NoNode}
    BY DEF ListInv, ListTypeOK, Range, Push
  <2>2. newNode[t] \notin Range(newNode)'
    <3>1. newNode[t] # NoNode /\ \A q \in Producers \ {t} : newNode[q] # newNode[t]
      BY ConstantFacts DEF ListInv, NewNodeIsHeld, Push
    <3> QED
      BY <1>2, <3>1, ConstantFacts DEF ListInv, ListTypeOK, Range, Push
  <2>3. NoNode \notin Range(list')
    BY <1>2, ConstantFacts DEF Range
  <2> QED
    BY <1>2, <2>1, <2>2, <2>3 DEF ListInv, NodesAreAccountedFor, Push
<1>9. SemaphoresAccount'
  <2>1. ASSUME program = "semaphore.c" PROVE PlacesAccount' /\ NodesAccount'
    <3>1. pc[t] = "write" /\ pc' = [pc EXCEPT ![t] = "unlock"] /\ pc \in [Threads -> ListPcs]
      BY <1>1, <2>1 DEF ListInv, ListTypeOK, Push
    <3>2. PlacesAccount /\ NodesAccount
      BY <2>1, AccountIs DEF ListInv
    <3>3. Len(list') = Len(list) + 1 /\ psem' = psem /\ csem' = csem
      BY <1>2 DEF Push
    <3>4. t \in Threads /\ psem \in Nat /\ csem \in Nat /\ Len(list) \in Nat
      BY ConstantFacts DEF ListInv, ListTypeOK
    <3>5. /\ {ProducersIn, ProducersOut, ConsumersIn, ConsumersOut} \subseteq Nat
          /\ t \in Producers =>
               /\ ProducersIn' = ProducersIn - 1 /\ ProducersOut' = ProducersOut + 1
               /\ ConsumersIn' = ConsumersIn /\ ConsumersOut' = ConsumersOut
          /\ t \in Consumers =>
               /\ ConsumersIn' = ConsumersIn - 1 /\ ConsumersOut' = ConsumersOut + 1
               /\ ProducersIn' = ProducersIn /\ ProducersOut' = ProducersOut
      <4>1. /\ In(pc[t]) = 1 /\ In(pc'[t]) = 0 /\ Out(pc[t]) = 0 /\ Out(pc'[t]) = 1
            /\ \A u \in Threads \ {t} : pc'[u] = pc[u]
        BY <3>1, <3>4 DEF In, Out
      <4> QED
        BY <3>1, <4>1, AccountMoves
    <3>6. \/ t \in Producers /\ t \notin Consumers
          \/ t \in Consumers /\ t \notin Producers
      BY ConstantFacts
    <3>7. /\ ProducersIn \in Nat /\ ProducersOut \in Nat
          /\ ConsumersIn \in Nat /\ ConsumersOut \in Nat
      BY <3>5
    <3> QED
      BY <3>2, <3>3, <3>4, <3>5, <3>7 DEF PlacesAccount, NodesAccount
  <2>2. HeadIsNotNull'
    BY <1>1, ConstantFacts DEF ListInv, ListTypeOK, SemaphoresAccount,
       HeadIsNotNull, Push
  <2> QED
    BY <2>1, <2>2 DEF SemaphoresAccount, PlacesAccount, NodesAccount,
       ProducersIn, ProducersOut, ConsumersIn, ConsumersOut, Push
<1> QED
  BY <1>3, <1>4, <1>5, <1>6, <1>7, <1>8, <1>9 DEF ListInv

\* Pop: the first node is neither in the list nor allocated any more.
LEMMA PopInv ==
  ASSUME ListInv, NEW t \in Consumers, Pop(t)
  PROVE  ListInv'
<1>1. /\ Head(list) \in Range(list) /\ heap' = heap \ {Head(list)}
      /\ list' \in Seq(Nodes) /\ Len(list') = Len(list) - 1
      /\ IsInjective(list') /\ Range(list') = Range(list) \ {Head(list)}
  <2>1. seen[t] = list /\ list # <<>>
    BY ConstantFacts DEF ListInv, SeenIsList, Pop, Goto
  <2>2. list \in Seq(Nodes) /\ IsInjective(list)
    BY DEF ListInv, ListTypeOK, NodesAreAccountedFor
  <2> QED
    BY <2>1, <2>2, PopNode DEF Pop
<1>2. ListTypeOK'
  BY <1>1, ConstantFacts DEF ListInv, ListTypeOK, HolderIsInside,
     SleepersAreConsumers, SeenIsList, NewNodeIsHeld, AroundList, Programs,
     ListPcs, Goto, Acquire, Start, MakesFirst, Unlocked, Relocked, Endless, Posted, Pop
<1>3. HolderIsInside'
  BY DEF ListInv, HolderIsInside, Goto, Pop
<1>4. SleepersAreConsumers'
  BY DEF ListInv, SleepersAreConsumers, Goto, Pop
<1>5. SeenIsList'
  BY ConstantFacts DEF ListInv, ListTypeOK, HolderIsInside, SleepersAreConsumers,
     SeenIsList, NewNodeIsHeld, AroundList, Goto, Pop
<1>6. NewNodeIsHeld'
  BY ConstantFacts DEF ListInv, ListTypeOK, HolderIsInside, SleepersAreConsumers,
     SeenIsList, NewNodeIsHeld, AroundList, Goto, Pop
<1>7. NodesAreAccountedFor'
  BY <1>1 DEF ListInv, NodesAreAccountedFor, Pop
<1>8. SemaphoresAccount'
  <2>1. ASSUME program = "semaphore.c" PROVE PlacesAccount' /\ NodesAccount'
    <3>1. pc[t] = "write" /\ pc' = [pc EXCEPT ![t] = "unlock"] /\ pc \in [Threads -> ListPcs]
      BY DEF ListInv, ListTypeOK, Goto, Pop
    <3>2. PlacesAccount /\ NodesAccount
      BY <2>1, AccountIs DEF ListInv
    <3>3. Len(list') = Len(list) - 1 /\ psem' = psem /\ csem' = csem
      BY <1>1 DEF Pop
    <3>4. t \in Threads /\ psem \in Nat /\ csem \in Nat /\ Len(list) \in Nat
      BY ConstantFacts DEF ListInv, ListTypeOK
    <3>5. /\ {ProducersIn, ProducersOut, ConsumersIn, ConsumersOut} \subseteq Nat
          /\ t \in Producers =>
               /\ ProducersIn' = ProducersIn - 1 /\ ProducersOut' = ProducersOut + 1
               /\ ConsumersIn' = ConsumersIn /\ ConsumersOut' = ConsumersOut
          /\ t \in Consumers =>
               /\ ConsumersIn' = ConsumersIn - 1 /\ ConsumersOut' = ConsumersOut + 1
               /\ ProducersIn' = ProducersIn /\ ProducersOut' = ProducersOut
      <4>1. /\ In(pc[t]) = 1 /\ In(pc'[t]) = 0 /\ Out(pc[t]) = 0 /\ Out(pc'[t]) = 1
            /\ \A u \in Threads \ {t} : pc'[u] = pc[u]
        BY <3>1, <3>4 DEF In, Out
      <4> QED
        BY <3>1, <4>1, AccountMoves
    <3>6. \/ t \in Producers /\ t \notin Consumers
          \/ t \in Consumers /\ t \notin Producers
      BY ConstantFacts
    <3>7. /\ ProducersIn \in Nat /\ ProducersOut \in Nat
          /\ ConsumersIn \in Nat /\ ConsumersOut \in Nat
      BY <3>5
    <3> QED
      BY <3>2, <3>3, <3>4, <3>5, <3>7 DEF PlacesAccount, NodesAccount
  <2>2. HeadIsNotNull'
    BY DEF ListInv, SemaphoresAccount, HeadIsNotNull, Goto, Pop
  <2> QED
    BY <2>1, <2>2 DEF SemaphoresAccount, PlacesAccount, NodesAccount,
       ProducersIn, ProducersOut, ConsumersIn, ConsumersOut, Pop
<1> QED
  BY <1>2, <1>3, <1>4, <1>5, <1>6, <1>7, <1>8 DEF ListInv

-----------------------------------------------------------------------------
(* The number.                                                             *)

\* What the threads have done is not changed by a step that leaves the number
\* alone, if nobody begins or ends an update.
LEMMA NumberIsKept ==
  ASSUME NEW t \in Threads, NoUpdateIsLost,
         program' = program, counter' = counter, sold' = sold,
         \A u \in Threads \ {t} : pc'[u] = pc[u],
         \A w \in Producers : left'[w] = left[w],
         Mutex => (pc[t] \in {"load", "store"} <=> pc'[t] \in {"load", "store"}),
         RW /\ t \in Producers =>
           (pc[t] \in {"unlock", "done"} <=> pc'[t] \in {"unlock", "done"}),
         RW => Counter!ReadersSeeTheNumber'
  PROVE  NoUpdateIsLost'
<1>1. ASSUME Mutex PROVE Counter!TicketsSoldOnce'
  <2>1. Counter!TicketsSoldOnce
    BY <1>1 DEF NoUpdateIsLost, Counter!NoUpdateIsLost, Mutex
  <2>2. Counter!At({"load", "store"})' = Counter!At({"load", "store"})
    BY <1>1 DEF Counter!At, Counter!Threads, Threads
  <2> QED
    BY <2>1, <2>2 DEF Counter!TicketsSoldOnce
<1>2. ASSUME RW PROVE Counter!WritesAreCounted'
  <2>1. Counter!WritesAreCounted
    BY <1>2 DEF NoUpdateIsLost, Counter!NoUpdateIsLost, RW
  <2>2. {w \in Producers : pc[w] \in {"unlock", "done"}}' =
          {w \in Producers : pc[w] \in {"unlock", "done"}}
    BY <1>2, ConstantFacts
  <2>3. Counter!FinishedRounds' = Counter!FinishedRounds
    BY DEF Counter!FinishedRounds
  <2> QED
    BY <2>1, <2>2, <2>3 DEF Counter!WritesAreCounted
<1> QED
  BY <1>1, <1>2 DEF NoUpdateIsLost, Counter!NoUpdateIsLost, Mutex, RW

\* Both modules mean the same by Cardinality.
LEMMA CardinalityIs == \A S : Counter!Cardinality(S) = Cardinality(S)
BY DEF Cardinality, Counter!Cardinality

\* There are finitely many rounds, so that they can be counted.
LEMMA RoundsAreCounted ==
  /\ IsFiniteSet(Counter!FinishedRounds)
  /\ Cardinality(Counter!FinishedRounds) \in Nat
<1>1. IsFiniteSet(Producers) /\ IsFiniteSet(1 .. Rounds)
  BY ConstantFacts, FS_Subset, FS_Interval
<1>2. IsFiniteSet(Producers \X (1 .. Rounds))
  BY <1>1, FS_Product
<1> QED
  BY <1>2, FS_Subset, FS_CardinalityType DEF Counter!FinishedRounds

\* A seller or writer who takes a lock is alone inside; readers are inside
\* together.
LEMMA CounterLockInv ==
  ASSUME CounterInv, NEW t \in Threads, Counter!Lock(t)
  PROVE  CounterInv'
<1>1. CounterTypeOK'
  BY ConstantFacts DEF CounterInv, CounterTypeOK, SellerIsInside,
     SellerHasTested, RWLockExcludes, WriterHasLoaded, CounterPcs, Mutex, RW,
     Counter!Goto, Counter!Acquire, Counter!AcquireShared, Counter!Release,
     Counter!FirstLock, Counter!SecondLock, Counter!Locked, Counter!AfterRound,
     Counter!IsReader, Counter!Selling, Counter!Duo, Counter!SomeLeft,
     Counter!RWPrograms, Counter!Programs, Counter!Locks, Counter!Threads,
     Threads, Counter!Lock
<1>2. SellerIsInside'
  BY ConstantFacts DEF CounterInv, CounterTypeOK, SellerIsInside,
     SellerHasTested, RWLockExcludes, WriterHasLoaded, CounterPcs, Mutex, RW,
     Counter!Goto, Counter!Acquire, Counter!AcquireShared, Counter!Release,
     Counter!FirstLock, Counter!SecondLock, Counter!Locked, Counter!AfterRound,
     Counter!IsReader, Counter!Duo, Counter!RWPrograms, Counter!Locks,
     Counter!Lock
<1>3. SellerHasTested'
  BY DEF CounterInv, CounterTypeOK, SellerIsInside, SellerHasTested,
     RWLockExcludes, WriterHasLoaded, CounterPcs, Mutex, RW, Counter!Goto,
     Counter!Acquire, Counter!AcquireShared, Counter!Release, Counter!FirstLock,
     Counter!SecondLock, Counter!Locked, Counter!IsReader, Counter!Selling,
     Counter!RWPrograms, Counter!Lock
<1>4. RWLockExcludes'
  BY ConstantFacts DEF CounterInv, CounterTypeOK, SellerIsInside,
     SellerHasTested, RWLockExcludes, WriterHasLoaded, CounterPcs, Mutex, RW,
     Counter!Goto, Counter!Acquire, Counter!AcquireShared, Counter!Release,
     Counter!FirstLock, Counter!SecondLock, Counter!Locked, Counter!AfterRound,
     Counter!IsReader, Counter!Selling, Counter!Duo, Counter!RWPrograms,
     Counter!Locks, Counter!Lock
<1>5. WriterHasLoaded'
  BY DEF CounterInv, CounterTypeOK, SellerIsInside, SellerHasTested,
     RWLockExcludes, WriterHasLoaded, CounterPcs, Mutex, RW, Counter!Goto,
     Counter!Locked, Counter!Lock
<1>6. NoUpdateIsLost'
  <2>1. /\ program' = program /\ counter' = counter /\ sold' = sold
        /\ \A u \in Threads \ {t} : pc'[u] = pc[u]
        /\ \A w \in Producers : left'[w] = left[w]
        /\ Mutex => (pc[t] \in {"load", "store"} <=> pc'[t] \in {"load", "store"})
        /\ RW /\ t \in Producers =>
             (pc[t] \in {"unlock", "done"} <=> pc'[t] \in {"unlock", "done"})
    BY DEF CounterInv, CounterTypeOK, SellerIsInside, SellerHasTested,
       RWLockExcludes, WriterHasLoaded, CounterPcs, Mutex, RW, Counter!Goto,
       Counter!Acquire, Counter!Locked, Counter!Selling, Counter!Lock
  <2>2. RW => Counter!ReadersSeeTheNumber'
    BY DEF CounterInv, CounterTypeOK, SellerIsInside, SellerHasTested,
       RWLockExcludes, WriterHasLoaded, CounterPcs, Mutex, RW, Counter!Goto,
       Counter!Acquire, Counter!AcquireShared, Counter!Release,
       Counter!FirstLock, Counter!SecondLock, Counter!Locked, Counter!AfterRound,
       Counter!IsReader, Counter!Selling, Counter!Duo, Counter!SomeLeft,
       NoUpdateIsLost, Counter!NoUpdateIsLost, Counter!ReadersSeeTheNumber,
       Counter!Lock
  <2>3. NoUpdateIsLost
    BY DEF CounterInv
  <2> QED
    BY <2>1, <2>2, <2>3, NumberIsKept
<1> QED
  BY <1>1, <1>2, <1>3, <1>4, <1>5, <1>6 DEF CounterInv

\* Only deadlock_duo.c takes a second lock.
LEMMA CounterLock2Inv ==
  ASSUME CounterInv, NEW t \in Threads, Counter!Lock2(t)
  PROVE  CounterInv'
<1>1. CounterTypeOK'
  BY DEF CounterInv, CounterTypeOK, SellerIsInside, SellerHasTested,
     RWLockExcludes, WriterHasLoaded, CounterPcs, Mutex, RW, Counter!Goto,
     Counter!Acquire, Counter!AcquireShared, Counter!Release, Counter!FirstLock,
     Counter!SecondLock, Counter!Locks, Counter!Lock2
<1>2. SellerIsInside'
  BY DEF CounterInv, CounterTypeOK, SellerIsInside, SellerHasTested,
     RWLockExcludes, WriterHasLoaded, CounterPcs, Mutex, Counter!Goto,
     Counter!Lock2
<1>3. SellerHasTested'
  BY DEF CounterInv, CounterTypeOK, SellerIsInside, SellerHasTested,
     RWLockExcludes, WriterHasLoaded, CounterPcs, Mutex, Counter!Goto,
     Counter!Lock2
<1>4. RWLockExcludes'
  BY DEF CounterInv, CounterTypeOK, SellerIsInside, SellerHasTested,
     RWLockExcludes, WriterHasLoaded, CounterPcs, RW, Counter!Goto,
     Counter!Acquire, Counter!SecondLock, Counter!Lock2
<1>5. WriterHasLoaded'
  BY DEF CounterInv, CounterTypeOK, SellerIsInside, SellerHasTested,
     RWLockExcludes, WriterHasLoaded, CounterPcs, RW, Counter!Goto, Counter!Lock2
<1>6. NoUpdateIsLost'
  <2>1. /\ program' = program /\ counter' = counter /\ sold' = sold
        /\ \A u \in Threads \ {t} : pc'[u] = pc[u]
        /\ \A w \in Producers : left'[w] = left[w]
        /\ Mutex => (pc[t] \in {"load", "store"} <=> pc'[t] \in {"load", "store"})
        /\ RW /\ t \in Producers =>
             (pc[t] \in {"unlock", "done"} <=> pc'[t] \in {"unlock", "done"})
    BY DEF CounterInv, CounterTypeOK, SellerIsInside, SellerHasTested,
       RWLockExcludes, WriterHasLoaded, CounterPcs, Mutex, RW, Counter!Goto,
       Counter!Acquire, Counter!AcquireShared, Counter!Release,
       Counter!FirstLock, Counter!SecondLock, Counter!Locked, Threads,
       Counter!Lock2
  <2>2. RW => Counter!ReadersSeeTheNumber'
    BY ConstantFacts DEF CounterInv, CounterTypeOK, SellerIsInside,
       SellerHasTested, RWLockExcludes, WriterHasLoaded, CounterPcs, Mutex, RW,
       Counter!Goto, Counter!Acquire, Counter!AcquireShared, Counter!Release,
       Counter!FirstLock, Counter!SecondLock, Counter!Locked, Counter!AfterRound,
       Counter!IsReader, Counter!Selling, Counter!Duo, Counter!SomeLeft,
       Counter!RWPrograms, Counter!Programs, Counter!Locks, Counter!Threads,
       Threads, NoUpdateIsLost, Counter!NoUpdateIsLost,
       Counter!ReadersSeeTheNumber, Counter!Lock2
  <2>3. NoUpdateIsLost
    BY DEF CounterInv
  <2> QED
    BY <2>1, <2>2, <2>3, NumberIsKept
<1> QED
  BY <1>1, <1>2, <1>3, <1>4, <1>5, <1>6 DEF CounterInv

\* Only workA and workB unlock twice, and they have no number.
LEMMA CounterUnlock2Inv ==
  ASSUME CounterInv, NEW t \in Threads, Counter!Unlock2(t)
  PROVE  CounterInv'
<1>1. /\ pc[t] = "unlock2" /\ pc' = [pc EXCEPT ![t] = "unlock"]
      /\ owner' = [owner EXCEPT ![Counter!SecondLock(t)] = NoThread]
      /\ UNCHANGED <<program, counter, shared, tmp, left, sold>>
  BY DEF Counter!Unlock2, Counter!Goto
<1>2. ~Mutex /\ ~RW
  BY <1>1, ConstantFacts DEF CounterInv, SellerIsInside, RWLockExcludes
<1>3. ~Mutex' /\ ~RW'
  BY <1>1, <1>2 DEF Mutex, RW
<1>4. CounterTypeOK'
  BY <1>1 DEF CounterInv, CounterTypeOK, CounterPcs, Counter!SecondLock, Counter!Locks
<1>5. SellerIsInside' /\ SellerHasTested' /\ RWLockExcludes' /\ WriterHasLoaded'
  BY <1>3 DEF SellerIsInside, SellerHasTested, RWLockExcludes, WriterHasLoaded
<1>6. NoUpdateIsLost'
  BY <1>3 DEF NoUpdateIsLost, Counter!NoUpdateIsLost, Mutex, RW
<1> QED
  BY <1>4, <1>5, <1>6 DEF CounterInv

\* The unlock ends an update: the number is what is counted already.
LEMMA CounterUnlockInv ==
  ASSUME CounterInv, NEW t \in Threads, Counter!Unlock(t)
  PROVE  CounterInv'
<1>1. CounterTypeOK'
  BY ConstantFacts DEF CounterInv, CounterTypeOK, SellerIsInside,
     SellerHasTested, RWLockExcludes, WriterHasLoaded, CounterPcs, Mutex, RW,
     Counter!Goto, Counter!Acquire, Counter!AcquireShared, Counter!Release,
     Counter!FirstLock, Counter!SecondLock, Counter!Locked, Counter!AfterRound,
     Counter!IsReader, Counter!Selling, Counter!Duo, Counter!SomeLeft,
     Counter!RWPrograms, Counter!Programs, Counter!Locks, Counter!Threads,
     Threads, Counter!Unlock
<1>2. SellerIsInside'
  BY ConstantFacts DEF CounterInv, CounterTypeOK, SellerIsInside,
     SellerHasTested, RWLockExcludes, WriterHasLoaded, CounterPcs, Mutex, RW,
     Counter!Goto, Counter!Acquire, Counter!AcquireShared, Counter!Release,
     Counter!FirstLock, Counter!SecondLock, Counter!Locked, Counter!AfterRound,
     Counter!Locks, Counter!Unlock
<1>3. SellerHasTested'
  BY DEF CounterInv, CounterTypeOK, SellerIsInside, SellerHasTested,
     RWLockExcludes, WriterHasLoaded, CounterPcs, Mutex, Counter!Goto,
     Counter!AfterRound, Counter!Unlock
<1>4. RWLockExcludes'
  BY ConstantFacts DEF CounterInv, CounterTypeOK, SellerIsInside,
     SellerHasTested, RWLockExcludes, WriterHasLoaded, CounterPcs, Mutex, RW,
     Counter!Goto, Counter!Acquire, Counter!AcquireShared, Counter!Release,
     Counter!FirstLock, Counter!SecondLock, Counter!Locked, Counter!AfterRound,
     Counter!Locks, Counter!Unlock
<1>5. WriterHasLoaded'
  BY DEF CounterInv, CounterTypeOK, SellerIsInside, SellerHasTested,
     RWLockExcludes, WriterHasLoaded, CounterPcs, Mutex, RW, Counter!Goto,
     Counter!AfterRound, Counter!Unlock
<1>6. NoUpdateIsLost'
  <2>1. ASSUME Mutex PROVE Counter!TicketsSoldOnce'
    <3>1. Counter!TicketsSoldOnce
      BY <2>1 DEF CounterInv, NoUpdateIsLost, Counter!NoUpdateIsLost, Mutex
    <3>2. Counter!At({"load", "store"})' = Counter!At({"load", "store"})
      BY DEF Counter!At, Counter!Unlock, Counter!Goto, Counter!AfterRound
    <3>3. counter' = counter /\ sold' = sold
      BY DEF Counter!Unlock
    <3> QED
      BY <3>1, <3>2, <3>3 DEF Counter!TicketsSoldOnce
  <2>2. ASSUME RW PROVE Counter!WritesAreCounted'
    <3> DEFINE Stored == At(Producers, {"unlock", "done"})
    <3>1. /\ counter = (IF program = "rwlock.c" THEN 1 ELSE 0)
                         + Cardinality(Counter!FinishedRounds) + Cardinality(Stored)
          /\ IsFiniteSet(Counter!FinishedRounds)
          /\ Cardinality(Counter!FinishedRounds) \in Nat
      BY <2>2, CardinalityIs, RoundsAreCounted DEF CounterInv, NoUpdateIsLost,
         Counter!NoUpdateIsLost, RW, Counter!WritesAreCounted, At
    <3>2. /\ pc[t] = "unlock" /\ \A u \in Threads \ {t} : pc'[u] = pc[u]
          /\ pc'[t] = IF left[t] = 1 /\ (program = "rwlock2.c" \/ t \in Producers)
                      THEN "done" ELSE "lock"
          /\ left' = IF left[t] > 1 /\ (program = "rwlock2.c" \/ t \in Producers)
                     THEN [left EXCEPT ![t] = @ - 1] ELSE left
          /\ counter' = counter /\ program' = program /\ left \in [Threads -> 1 .. Rounds]
      BY <2>2 DEF CounterInv, CounterTypeOK, RW, Counter!RWPrograms,
         Counter!Selling, Counter!Duo, Counter!Unlock, Counter!Goto,
         Counter!AfterRound
    <3>3. /\ Cardinality(Stored') = Cardinality(Stored)
               - (IF t \in Producers /\ left[t] # 1 THEN 1 ELSE 0)
          /\ Cardinality(Stored) \in Nat
      <4> Producers \in SUBSET Threads
        BY ConstantFacts
      <4> QED
        BY <3>2, AtMoves
    <3>4. CASE t \in Producers /\ left[t] # 1
      <4>1. Rounds \in Nat /\ left[t] \in 1 .. Rounds /\ left[t] > 1
        BY <3>2, <3>4, ConstantFacts
      <4>2. left' = [left EXCEPT ![t] = left[t] - 1]
        BY <3>2, <3>4
      <4>3. /\ Counter!FinishedRounds' = Counter!FinishedRounds \cup {<<t, left[t]>>}
            /\ <<t, left[t]>> \notin Counter!FinishedRounds
        BY <3>2, <3>4 DEF Counter!FinishedRounds
      <4>4. Cardinality(Counter!FinishedRounds') = Cardinality(Counter!FinishedRounds) + 1
        BY <3>1, <4>3, FS_AddElement
      <4> QED
        BY CardinalityIs, <3>1, <3>2, <3>3, <3>4, <4>4 DEF
           Counter!WritesAreCounted, At
    <3>5. CASE ~(t \in Producers /\ left[t] # 1)
      <4>1. Counter!FinishedRounds' = Counter!FinishedRounds
        BY <3>2, <3>5 DEF Counter!FinishedRounds
      <4> QED
        BY CardinalityIs, <3>1, <3>2, <3>3, <3>5, <4>1 DEF
           Counter!WritesAreCounted, At
    <3> QED
      BY <3>4, <3>5
  <2>3. ASSUME RW PROVE Counter!ReadersSeeTheNumber'
    <3>1. Counter!ReadersSeeTheNumber
      BY <2>3 DEF CounterInv, NoUpdateIsLost, Counter!NoUpdateIsLost, RW
    <3> QED
      BY <3>1 DEF CounterInv, CounterTypeOK, Counter!AfterRound, Counter!Unlock,
         Counter!Goto, Counter!ReadersSeeTheNumber
  <2>4. program' = program
    BY DEF Counter!Unlock
  <2> QED
    BY <2>1, <2>2, <2>3, <2>4 DEF NoUpdateIsLost, Counter!NoUpdateIsLost, Mutex,
       RW
<1> QED
  BY <1>1, <1>2, <1>3, <1>4, <1>5, <1>6 DEF CounterInv

\* A seller who has found nothing to sell gives the mutex back.
LEMMA CounterLeaveInv ==
  ASSUME CounterInv, NEW t \in Threads, Counter!Leave(t)
  PROVE  CounterInv'
<1>1. CounterTypeOK'
  BY DEF CounterInv, CounterTypeOK, SellerIsInside, SellerHasTested,
     RWLockExcludes, WriterHasLoaded, CounterPcs, Mutex, RW, Counter!Goto,
     Counter!Release, Counter!Leave
<1>2. SellerIsInside'
  BY ConstantFacts DEF CounterInv, CounterTypeOK, SellerIsInside,
     SellerHasTested, RWLockExcludes, WriterHasLoaded, CounterPcs, Mutex, RW,
     Counter!Goto, Counter!Acquire, Counter!AcquireShared, Counter!Release,
     Counter!FirstLock, Counter!SecondLock, Counter!Locked, Counter!AfterRound,
     Counter!Locks, Counter!Leave
<1>3. SellerHasTested'
  BY DEF CounterInv, CounterTypeOK, SellerIsInside, SellerHasTested,
     RWLockExcludes, WriterHasLoaded, CounterPcs, Mutex, Counter!Goto,
     Counter!Leave
<1>4. RWLockExcludes'
  BY DEF CounterInv, CounterTypeOK, SellerIsInside, SellerHasTested,
     RWLockExcludes, WriterHasLoaded, CounterPcs, Mutex, RW, Counter!Goto,
     Counter!Acquire, Counter!AcquireShared, Counter!Release, Counter!FirstLock,
     Counter!SecondLock, Counter!Locked, Threads, Counter!Leave
<1>5. WriterHasLoaded'
  BY DEF CounterInv, CounterTypeOK, SellerIsInside, SellerHasTested,
     RWLockExcludes, WriterHasLoaded, CounterPcs, RW, Counter!Goto, Counter!Leave
<1>6. NoUpdateIsLost'
  <2>1. /\ program' = program /\ counter' = counter /\ sold' = sold
        /\ \A u \in Threads \ {t} : pc'[u] = pc[u]
        /\ \A w \in Producers : left'[w] = left[w]
        /\ Mutex => (pc[t] \in {"load", "store"} <=> pc'[t] \in {"load", "store"})
        /\ RW /\ t \in Producers =>
             (pc[t] \in {"unlock", "done"} <=> pc'[t] \in {"unlock", "done"})
    BY DEF CounterInv, CounterTypeOK, SellerIsInside, SellerHasTested,
       RWLockExcludes, WriterHasLoaded, CounterPcs, Mutex, RW, Counter!Goto,
       Counter!Acquire, Counter!AcquireShared, Counter!Release,
       Counter!FirstLock, Counter!SecondLock, Counter!Locked, Threads,
       Counter!Leave
  <2>2. RW => Counter!ReadersSeeTheNumber'
    BY DEF CounterInv, CounterTypeOK, SellerIsInside, SellerHasTested,
       RWLockExcludes, WriterHasLoaded, CounterPcs, Mutex, RW, Counter!Goto,
       Counter!Acquire, Counter!AcquireShared, Counter!Release,
       Counter!FirstLock, Counter!SecondLock, Counter!Locked, Counter!AfterRound,
       Threads, Counter!Leave
  <2>3. NoUpdateIsLost
    BY DEF CounterInv
  <2> QED
    BY <2>1, <2>2, <2>3, NumberIsKept
<1> QED
  BY <1>1, <1>2, <1>3, <1>4, <1>5, <1>6 DEF CounterInv

\* Under the mutex the number that is tested is the number that is sold.
LEMMA CounterTestInv ==
  ASSUME CounterInv, NEW t \in Threads, Counter!Test(t)
  PROVE  CounterInv'
<1>1. CounterTypeOK'
  BY ConstantFacts DEF CounterInv, CounterTypeOK, SellerIsInside,
     SellerHasTested, RWLockExcludes, WriterHasLoaded, CounterPcs, Mutex, RW,
     Counter!Goto, Counter!Acquire, Counter!AcquireShared, Counter!Release,
     Counter!FirstLock, Counter!SecondLock, Counter!Locked, Counter!AfterRound,
     Counter!IsReader, Counter!Selling, Counter!Duo, Counter!SomeLeft,
     Counter!RWPrograms, Counter!Programs, Counter!Locks, Counter!Threads,
     Threads, Counter!Test
<1>2. SellerIsInside'
  BY DEF CounterInv, CounterTypeOK, SellerIsInside, SellerHasTested,
     RWLockExcludes, WriterHasLoaded, CounterPcs, Mutex, Counter!Goto,
     Counter!Test
<1>3. SellerHasTested'
  BY DEF CounterInv, CounterTypeOK, SellerIsInside, SellerHasTested,
     RWLockExcludes, WriterHasLoaded, CounterPcs, Mutex, RW, Counter!Goto,
     Counter!Acquire, Counter!AcquireShared, Counter!SomeLeft, Counter!Test
<1>4. RWLockExcludes'
  BY ConstantFacts DEF CounterInv, CounterTypeOK, SellerIsInside,
     SellerHasTested, RWLockExcludes, WriterHasLoaded, CounterPcs, Mutex, RW,
     Counter!Goto, Counter!Acquire, Counter!AcquireShared, Counter!Release,
     Counter!FirstLock, Counter!SecondLock, Counter!Locked, Counter!AfterRound,
     Counter!IsReader, Counter!Selling, Counter!Duo, Counter!SomeLeft,
     Counter!RWPrograms, Counter!Programs, Counter!Locks, Counter!Threads,
     Threads, Counter!Test
<1>5. WriterHasLoaded'
  BY DEF CounterInv, CounterTypeOK, SellerIsInside, SellerHasTested,
     RWLockExcludes, WriterHasLoaded, CounterPcs, Mutex, RW, Counter!Goto,
     Counter!Acquire, Counter!AcquireShared, Counter!Release, Counter!FirstLock,
     Counter!SecondLock, Counter!Locked, Threads, Counter!Test
<1>6. NoUpdateIsLost'
  <2>1. /\ program' = program /\ counter' = counter /\ sold' = sold
        /\ \A u \in Threads \ {t} : pc'[u] = pc[u]
        /\ \A w \in Producers : left'[w] = left[w]
        /\ Mutex => (pc[t] \in {"load", "store"} <=> pc'[t] \in {"load", "store"})
        /\ RW /\ t \in Producers =>
             (pc[t] \in {"unlock", "done"} <=> pc'[t] \in {"unlock", "done"})
    BY DEF CounterInv, CounterTypeOK, SellerIsInside, SellerHasTested,
       RWLockExcludes, WriterHasLoaded, CounterPcs, Counter!Goto, Counter!Test
  <2>2. RW => Counter!ReadersSeeTheNumber'
    BY DEF CounterInv, CounterTypeOK, SellerIsInside, SellerHasTested,
       RWLockExcludes, WriterHasLoaded, CounterPcs, Mutex, RW, Counter!Goto,
       Counter!Acquire, Counter!AcquireShared, Counter!Release,
       Counter!FirstLock, Counter!SecondLock, Counter!Locked, Counter!AfterRound,
       Threads, Counter!Test
  <2>3. NoUpdateIsLost
    BY DEF CounterInv
  <2> QED
    BY <2>1, <2>2, <2>3, NumberIsKept
<1> QED
  BY <1>1, <1>2, <1>3, <1>4, <1>5, <1>6 DEF CounterInv

\* The ticket that is sold is the highest that was not sold.
LEMMA CounterSellInv ==
  ASSUME CounterInv, NEW t \in Threads, Counter!Sell(t)
  PROVE  CounterInv'
<1>1. CounterTypeOK'
  BY DEF CounterInv, CounterTypeOK, SellerIsInside, SellerHasTested,
     RWLockExcludes, WriterHasLoaded, CounterPcs, Counter!Goto, Counter!Sell
<1>2. SellerIsInside'
  BY DEF CounterInv, CounterTypeOK, SellerIsInside, SellerHasTested,
     RWLockExcludes, WriterHasLoaded, CounterPcs, Mutex, Counter!Goto,
     Counter!Sell
<1>3. SellerHasTested'
  BY DEF CounterInv, CounterTypeOK, SellerIsInside, SellerHasTested,
     RWLockExcludes, WriterHasLoaded, CounterPcs, Mutex, Counter!Goto,
     Counter!Sell
<1>4. RWLockExcludes'
  BY DEF CounterInv, CounterTypeOK, SellerIsInside, SellerHasTested,
     RWLockExcludes, WriterHasLoaded, CounterPcs, Mutex, RW, Counter!Goto,
     Counter!Acquire, Counter!AcquireShared, Counter!Release, Counter!FirstLock,
     Counter!SecondLock, Counter!Locked, Counter!Selling, Counter!RWPrograms,
     Counter!Sell
<1>5. WriterHasLoaded'
  BY DEF CounterInv, CounterTypeOK, SellerIsInside, SellerHasTested,
     RWLockExcludes, WriterHasLoaded, CounterPcs, RW, Counter!Goto, Counter!Sell
<1>6. NoUpdateIsLost'
  <2>1. ASSUME Mutex PROVE Counter!TicketsSoldOnce'
    <3>1. Counter!TicketsSoldOnce
      BY <2>1 DEF CounterInv, NoUpdateIsLost, Counter!NoUpdateIsLost, Mutex
    <3>2. Counter!At({"load", "store"}) = {}
      BY <2>1 DEF CounterInv, SellerIsInside, Counter!At, Counter!Threads,
         Threads, Counter!Sell, Counter!Goto
    <3>3. Counter!At({"load", "store"})' # {}
      BY DEF CounterInv, CounterTypeOK, Counter!At, Counter!Threads, Threads,
         Counter!Sell, Counter!Goto
    <3>4. counter \in 1 .. Tickets /\ counter' = counter /\ Tickets \in Nat
      BY <2>1, ConstantFacts DEF CounterInv, SellerHasTested, Counter!Sell,
         Counter!Goto
    <3>5. \A n \in 1 .. Tickets : sold'[n] = IF n = counter THEN sold[n] + 1 ELSE sold[n]
      BY <2>1 DEF Mutex, Counter!Sell
    <3> QED
      BY <3>1, <3>2, <3>3, <3>4, <3>5 DEF Counter!TicketsSoldOnce
  <2>2. ASSUME RW PROVE Counter!WritesAreCounted'
    BY <2>2 DEF RW, Counter!RWPrograms, Counter!Selling, Counter!Sell
  <2>3. ASSUME RW PROVE Counter!ReadersSeeTheNumber'
    BY <2>3 DEF RW, Counter!RWPrograms, Counter!Selling, Counter!Sell
  <2>4. program' = program
    BY DEF Counter!Sell
  <2> QED
    BY <2>1, <2>2, <2>3, <2>4 DEF NoUpdateIsLost, Counter!NoUpdateIsLost, Mutex,
       RW
<1> QED
  BY <1>1, <1>2, <1>3, <1>4, <1>5, <1>6 DEF CounterInv

\* A reader prints the number, and nobody is inside who could change it.
LEMMA CounterReadNumInv ==
  ASSUME CounterInv, NEW t \in Threads, Counter!ReadNum(t)
  PROVE  CounterInv'
<1>1. CounterTypeOK'
  BY DEF CounterInv, CounterTypeOK, SellerIsInside, SellerHasTested,
     RWLockExcludes, WriterHasLoaded, CounterPcs, Counter!Goto, Counter!ReadNum
<1>2. SellerIsInside'
  BY DEF CounterInv, CounterTypeOK, SellerIsInside, SellerHasTested,
     RWLockExcludes, WriterHasLoaded, CounterPcs, Mutex, Counter!Goto,
     Counter!ReadNum
<1>3. SellerHasTested'
  BY DEF CounterInv, CounterTypeOK, SellerIsInside, SellerHasTested,
     RWLockExcludes, WriterHasLoaded, CounterPcs, Mutex, Counter!Goto,
     Counter!ReadNum
<1>4. RWLockExcludes'
  BY DEF CounterInv, CounterTypeOK, SellerIsInside, SellerHasTested,
     RWLockExcludes, WriterHasLoaded, CounterPcs, RW, Counter!Goto,
     Counter!ReadNum
<1>5. WriterHasLoaded'
  BY DEF CounterInv, CounterTypeOK, SellerIsInside, SellerHasTested,
     RWLockExcludes, WriterHasLoaded, CounterPcs, RW, Counter!Goto,
     Counter!ReadNum
<1>6. NoUpdateIsLost'
  <2>1. /\ program' = program /\ counter' = counter /\ sold' = sold
        /\ \A u \in Threads \ {t} : pc'[u] = pc[u]
        /\ \A w \in Producers : left'[w] = left[w]
        /\ Mutex => (pc[t] \in {"load", "store"} <=> pc'[t] \in {"load", "store"})
        /\ RW /\ t \in Producers =>
             (pc[t] \in {"unlock", "done"} <=> pc'[t] \in {"unlock", "done"})
    BY DEF CounterInv, CounterTypeOK, SellerIsInside, SellerHasTested,
       RWLockExcludes, WriterHasLoaded, CounterPcs, Mutex, RW, Counter!Goto,
       Counter!Acquire, Counter!AcquireShared, Counter!Release,
       Counter!FirstLock, Counter!SecondLock, Counter!Locked, Threads,
       Counter!ReadNum
  <2>2. RW => Counter!ReadersSeeTheNumber'
    BY DEF CounterInv, CounterTypeOK, SellerIsInside, SellerHasTested,
       RWLockExcludes, WriterHasLoaded, CounterPcs, Mutex, RW, Counter!Goto,
       Counter!Acquire, Counter!AcquireShared, Counter!Release,
       Counter!FirstLock, Counter!SecondLock, Counter!Locked, Counter!AfterRound,
       Counter!IsReader, Counter!Selling, Counter!Duo, Counter!SomeLeft,
       NoUpdateIsLost, Counter!NoUpdateIsLost, Counter!ReadersSeeTheNumber,
       Counter!ReadNum
  <2>3. NoUpdateIsLost
    BY DEF CounterInv
  <2> QED
    BY <2>1, <2>2, <2>3, NumberIsKept
<1> QED
  BY <1>1, <1>2, <1>3, <1>4, <1>5, <1>6 DEF CounterInv

\* What is loaded is the number until it is stored, by exclusion.
LEMMA CounterLoadInv ==
  ASSUME CounterInv, NEW t \in Threads, Counter!Load(t)
  PROVE  CounterInv'
<1>1. CounterTypeOK'
  BY DEF CounterInv, CounterTypeOK, SellerIsInside, SellerHasTested,
     RWLockExcludes, WriterHasLoaded, CounterPcs, Counter!Goto, Counter!Load
<1>2. SellerIsInside'
  BY DEF CounterInv, CounterTypeOK, SellerIsInside, SellerHasTested,
     RWLockExcludes, WriterHasLoaded, CounterPcs, Mutex, Counter!Goto,
     Counter!Load
<1>3. SellerHasTested'
  BY DEF CounterInv, CounterTypeOK, SellerIsInside, SellerHasTested,
     RWLockExcludes, WriterHasLoaded, CounterPcs, Mutex, Counter!Goto,
     Counter!Load
<1>4. RWLockExcludes'
  BY DEF CounterInv, CounterTypeOK, SellerIsInside, SellerHasTested,
     RWLockExcludes, WriterHasLoaded, CounterPcs, RW, Counter!Goto, Counter!Load
<1>5. WriterHasLoaded'
  BY DEF CounterInv, CounterTypeOK, SellerIsInside, SellerHasTested,
     RWLockExcludes, WriterHasLoaded, CounterPcs, RW, Counter!Goto, Counter!Load
<1>6. NoUpdateIsLost'
  <2>1. /\ program' = program /\ counter' = counter /\ sold' = sold
        /\ \A u \in Threads \ {t} : pc'[u] = pc[u]
        /\ \A w \in Producers : left'[w] = left[w]
        /\ Mutex => (pc[t] \in {"load", "store"} <=> pc'[t] \in {"load", "store"})
        /\ RW /\ t \in Producers =>
             (pc[t] \in {"unlock", "done"} <=> pc'[t] \in {"unlock", "done"})
    BY DEF CounterInv, CounterTypeOK, SellerIsInside, SellerHasTested,
       RWLockExcludes, WriterHasLoaded, CounterPcs, Counter!Goto, Counter!Load
  <2>2. RW => Counter!ReadersSeeTheNumber'
    BY DEF CounterInv, CounterTypeOK, SellerIsInside, SellerHasTested,
       RWLockExcludes, WriterHasLoaded, CounterPcs, Mutex, RW, Counter!Goto,
       Counter!Acquire, Counter!AcquireShared, Counter!Release,
       Counter!FirstLock, Counter!SecondLock, Counter!Locked, Counter!AfterRound,
       Counter!IsReader, Counter!Selling, Counter!Duo, Counter!SomeLeft,
       NoUpdateIsLost, Counter!NoUpdateIsLost, Counter!ReadersSeeTheNumber,
       Counter!Load
  <2>3. NoUpdateIsLost
    BY DEF CounterInv
  <2> QED
    BY <2>1, <2>2, <2>3, NumberIsKept
<1> QED
  BY <1>1, <1>2, <1>3, <1>4, <1>5, <1>6 DEF CounterInv

\* The store is one ticket less, or one write more, than there were.
LEMMA CounterStoreInv ==
  ASSUME CounterInv, NEW t \in Threads, Counter!Store(t)
  PROVE  CounterInv'
<1>1. CounterTypeOK'
  BY ConstantFacts DEF CounterInv, CounterTypeOK, SellerIsInside,
     SellerHasTested, RWLockExcludes, WriterHasLoaded, CounterPcs, Mutex, RW,
     Counter!Goto, Counter!Acquire, Counter!AcquireShared, Counter!Release,
     Counter!FirstLock, Counter!SecondLock, Counter!Locked, Counter!AfterRound,
     Counter!IsReader, Counter!Selling, Counter!Duo, Counter!SomeLeft,
     Counter!RWPrograms, Counter!Programs, Counter!Locks, Counter!Threads,
     Threads, Counter!Store
<1>2. SellerIsInside'
  BY DEF CounterInv, CounterTypeOK, SellerIsInside, SellerHasTested,
     RWLockExcludes, WriterHasLoaded, CounterPcs, Mutex, Counter!Goto,
     Counter!Store
<1>3. SellerHasTested'
  BY ConstantFacts DEF CounterInv, CounterTypeOK, SellerIsInside,
     SellerHasTested, RWLockExcludes, WriterHasLoaded, CounterPcs, Mutex, RW,
     Counter!Goto, Counter!Acquire, Counter!AcquireShared, Counter!Release,
     Counter!FirstLock, Counter!SecondLock, Counter!Locked, Counter!AfterRound,
     Counter!Selling, Counter!Locks, Counter!Store
<1>4. RWLockExcludes'
  BY DEF CounterInv, CounterTypeOK, SellerIsInside, SellerHasTested,
     RWLockExcludes, WriterHasLoaded, CounterPcs, Mutex, RW, Counter!Goto,
     Counter!Acquire, Counter!AcquireShared, Counter!RWPrograms, Counter!Store
<1>5. WriterHasLoaded'
  BY ConstantFacts DEF CounterInv, CounterTypeOK, SellerIsInside,
     SellerHasTested, RWLockExcludes, WriterHasLoaded, CounterPcs, Mutex, RW,
     Counter!Goto, Counter!Acquire, Counter!AcquireShared, Counter!Release,
     Counter!FirstLock, Counter!SecondLock, Counter!Locked, Counter!AfterRound,
     Counter!IsReader, Counter!Selling, Counter!Duo, Counter!Programs,
     Counter!Locks, Threads, Counter!Store
<1>6. NoUpdateIsLost'
  <2>1. ASSUME Mutex PROVE Counter!TicketsSoldOnce'
    <3>1. Counter!TicketsSoldOnce
      BY <2>1 DEF CounterInv, NoUpdateIsLost, Counter!NoUpdateIsLost, Mutex
    <3>2. Counter!At({"load", "store"})' = {}
      BY <2>1 DEF CounterInv, CounterTypeOK, SellerIsInside, Counter!At,
         Counter!Threads, Threads, Counter!Store, Counter!Goto
    <3>3. Counter!At({"load", "store"}) # {}
      BY DEF Counter!At, Counter!Threads, Threads, Counter!Store, Counter!Goto
    <3>4. counter \in 1 .. Tickets /\ counter' = counter - 1 /\ sold' = sold /\ Tickets \in Nat
      BY <2>1, ConstantFacts DEF CounterInv, SellerHasTested, Mutex,
         Counter!Selling, Counter!Store, Counter!Goto
    <3> QED
      BY <3>1, <3>2, <3>3, <3>4 DEF Counter!TicketsSoldOnce
  <2>2. ASSUME RW PROVE Counter!WritesAreCounted'
    <3> DEFINE Stored == At(Producers, {"unlock", "done"})
    <3>1. /\ counter = (IF program = "rwlock.c" THEN 1 ELSE 0)
                         + Cardinality(Counter!FinishedRounds) + Cardinality(Stored)
          /\ Cardinality(Counter!FinishedRounds) \in Nat
      BY <2>2, CardinalityIs, RoundsAreCounted DEF CounterInv, NoUpdateIsLost,
         Counter!NoUpdateIsLost, RW, Counter!WritesAreCounted, At
    <3>2. t \in Producers /\ pc[t] = "store" /\ pc'[t] = "unlock" /\ \A u \in Threads \ {t} : pc'[u] = pc[u]
      BY <2>2, ConstantFacts DEF CounterInv, CounterTypeOK, RWLockExcludes, RW,
         Counter!RWPrograms, Counter!Store, Counter!Goto
    <3>3. Cardinality(Stored') = Cardinality(Stored) + 1 /\ Cardinality(Stored) \in Nat
      <4> Producers \in SUBSET Threads
        BY ConstantFacts
      <4> QED
        BY <3>2, AtMoves
    <3>4. counter' = counter + 1
      BY <2>2, <3>2 DEF CounterInv, WriterHasLoaded, RW, Counter!RWPrograms,
         Counter!Selling, Counter!Store
    <3>5. Counter!FinishedRounds' = Counter!FinishedRounds /\ program' = program
      BY DEF Counter!FinishedRounds, Counter!Store
    <3> QED
      BY CardinalityIs, <3>1, <3>3, <3>4, <3>5 DEF Counter!WritesAreCounted, At
  <2>3. ASSUME RW PROVE Counter!ReadersSeeTheNumber'
    BY <2>3, ConstantFacts DEF CounterInv, CounterTypeOK, RWLockExcludes, RW,
       Counter!RWPrograms, Counter!Selling, Counter!Store, Counter!Goto,
       Counter!ReadersSeeTheNumber
  <2>4. program' = program
    BY DEF Counter!Store
  <2> QED
    BY <2>1, <2>2, <2>3, <2>4 DEF NoUpdateIsLost, Counter!NoUpdateIsLost, Mutex,
       RW
<1> QED
  BY <1>1, <1>2, <1>3, <1>4, <1>5, <1>6 DEF CounterInv

-----------------------------------------------------------------------------
(* All programs.                                                           *)

\* The programs around the list begin with an empty list that nobody uses.
LEMMA ListInit == Init => ListInv
<1> SUFFICES ASSUME Init PROVE ListInv
  OBVIOUS
<1>1. ListTypeOK
  BY ConstantFacts DEF Init, ListTypeOK, AroundList, Start, MakesFirst, ListPcs
<1>2. /\ \A t \in Threads : pc[t] \in {"wait", "make", "lock"} /\ mutex # t
      /\ program = "semaphore.c" => \A t \in Threads : pc[t] = "wait"
      /\ \A t \in Threads :
           /\ pc[t] = "wait" => program = "semaphore.c"
           /\ pc[t] = "make" => MakesFirst(t)
           /\ pc[t] = "lock" => ~MakesFirst(t)
      /\ \A p \in Producers : newNode[p] = NoNode
  BY ConstantFacts DEF Init, Start, MakesFirst
<1>3. HolderIsInside /\ SleepersAreConsumers /\ SeenIsList /\ NewNodeIsHeld
  BY <1>2, ConstantFacts DEF HolderIsInside, SleepersAreConsumers, SeenIsList,
     NewNodeIsHeld, MakesFirst
<1>4. NodesAreAccountedFor
  <2>1. list = <<>> /\ heap = {} /\ Range(newNode) \subseteq {NoNode}
    BY DEF Init, Range
  <2>2. Range(list) = {} /\ IsInjective(list)
    BY <2>1 DEF Range, IsInjective
  <2> QED
    BY <2>1, <2>2 DEF NodesAreAccountedFor
<1>5. SemaphoresAccount
  <2>1. ASSUME program = "semaphore.c" PROVE PlacesAccount /\ NodesAccount
    <3>1. ASSUME NEW T \in SUBSET Threads, NEW S \in SUBSET ListPcs, "wait" \notin S
          PROVE  Cardinality(At(T, S)) = 0
      <4>1. At(T, S) = {}
        BY <1>2, <2>1, <3>1 DEF At
      <4> QED
        BY <4>1, FS_EmptySet
    <3>2. ProducersIn = 0 /\ ProducersOut = 0 /\ ConsumersIn = 0 /\ ConsumersOut = 0
      BY <3>1, ConstantFacts DEF ProducersIn, ProducersOut, ConsumersIn,
         ConsumersOut, ListPcs
    <3> QED
      BY <3>2, ConstantFacts DEF Init, PlacesAccount, NodesAccount
  <2>2. HeadIsNotNull
    BY <1>2, ConstantFacts DEF HeadIsNotNull
  <2> QED
    BY <2>1, <2>2, AccountIs
<1> QED
  BY <1>1, <1>3, <1>4, <1>5 DEF ListInv

\* The programs around the number begin with nothing sold, written or locked.
LEMMA CounterInit == Counter!Init => CounterInv
<1> SUFFICES ASSUME Counter!Init PROVE CounterInv
  OBVIOUS
<1>1. CounterTypeOK
  BY ConstantFacts DEF Counter!Init, Counter!Threads, CounterTypeOK, CounterPcs
<1>2. /\ \A t \in Threads : owner["mutex1"] # t /\ owner["rwlock"] # t
      /\ shared = {} /\ owner["rwlock"] = NoThread
      /\ Mutex \/ RW => \A t \in Threads : pc[t] = "lock"
  BY ConstantFacts DEF Counter!Init, Counter!Locks, Counter!Duo, Counter!Threads,
     Mutex, RW, Counter!RWPrograms
<1>3. Mutex => counter = Tickets /\ sold = [n \in 1 .. Tickets |-> 0]
  BY DEF Counter!Init, Counter!Selling, Mutex
<1>4. SellerIsInside /\ RWLockExcludes /\ WriterHasLoaded
  BY <1>2, ConstantFacts DEF SellerIsInside, RWLockExcludes, WriterHasLoaded
<1>5. SellerHasTested
  BY <1>2, <1>3, ConstantFacts DEF SellerHasTested
<1>6. NoUpdateIsLost
  <2>1. ASSUME Mutex PROVE Counter!TicketsSoldOnce
    <3>1. Counter!At({"load", "store"}) = {}
      BY <1>2, <2>1 DEF Counter!At, Counter!Threads, Threads
    <3> QED
      BY <1>3, <2>1, <3>1, ConstantFacts DEF Counter!TicketsSoldOnce
  <2>2. ASSUME RW PROVE Counter!WritesAreCounted
    <3>1. {w \in Producers : pc[w] \in {"unlock", "done"}} = {}
      BY <1>2, <2>2, ConstantFacts
    <3>2. Counter!FinishedRounds = {}
      BY ConstantFacts DEF Counter!Init, Counter!FinishedRounds, Counter!Threads
    <3>3. counter = IF program = "rwlock.c" THEN 1 ELSE 0
      BY <2>2 DEF Counter!Init, Counter!Selling, RW, Counter!RWPrograms
    <3> QED
      BY <3>1, <3>2, <3>3, FS_EmptySet, CardinalityIs DEF
         Counter!WritesAreCounted
  <2>3. ASSUME RW PROVE Counter!ReadersSeeTheNumber
    BY <1>2, <2>3, ConstantFacts DEF Counter!ReadersSeeTheNumber
  <2> QED
    BY <2>1, <2>2, <2>3 DEF NoUpdateIsLost, Counter!NoUpdateIsLost, Mutex, RW
<1> QED
  BY <1>1, <1>4, <1>5, <1>6 DEF CounterInv

\* Whichever program begins.
LEMMA AnyInitInv == AnyInit => IInv
BY ListInit, CounterInit DEF AnyInit, IInv

\* Every step of the programs around the list keeps ListInv, ...
LEMMA ListNext ==
  ASSUME ListInv, NEW t \in Threads,
         Step(t) \/ Locking(t) \/ (t \in Consumers /\ WakeSpuriously(t))
  PROVE  ListInv'
BY MakeInv, LockInv, UnlockInv, SemWaitInv, SemPostInv, NextRoundInv, WakeSpuriouslyInv,
   RelockInv, ReadInv, ReadEmptyInv, PushInv, PopInv DEF Step, Locking,
   ProducerStep, ConsumerStep

\* ... and every step of those around the number CounterInv.
LEMMA CounterNext ==
  ASSUME CounterInv, NEW t \in Threads, Counter!Step(t) \/ Counter!Locking(t)
  PROVE  CounterInv'
BY CounterLockInv, CounterLock2Inv, CounterUnlock2Inv, CounterUnlockInv,
   CounterLeaveInv, CounterTestInv, CounterSellInv, CounterReadNumInv, CounterLoadInv,
   CounterStoreInv DEF Counter!Step, Counter!Locking

\* A step that changes nothing.
LEMMA AnyStutter == IInv /\ UNCHANGED allVars => IInv'
<1> SUFFICES ASSUME IInv, UNCHANGED allVars PROVE IInv'
  OBVIOUS
<1>1. CASE ListInv
  BY <1>1 DEF IInv, allVars, listOnly, ListInv, ListTypeOK, AroundList,
     HolderIsInside, SleepersAreConsumers, SeenIsList, NewNodeIsHeld,
     NodesAreAccountedFor, SemaphoresAccount, HeadIsNotNull, At
<1>2. CASE ListUnused /\ CounterInv
  <2>1. ListUnused'
    BY <1>2 DEF allVars, listOnly, ListUnused
  <2>2. CounterInv'
    BY <1>2 DEF allVars, counterOnly, CounterInv, CounterTypeOK, SellerIsInside,
       SellerHasTested, RWLockExcludes, WriterHasLoaded, Mutex, RW,
       NoUpdateIsLost, Counter!NoUpdateIsLost, Counter!TicketsSoldOnce,
       Counter!WritesAreCounted, Counter!FinishedRounds,
       Counter!ReadersSeeTheNumber, Counter!At
  <2> QED
    BY <2>1, <2>2 DEF IInv
<1> QED
  BY <1>1, <1>2 DEF IInv

\* Whichever thread of whichever program moves.
LEMMA AnyNextInv == IInv /\ AnyNext => IInv'
<1> SUFFICES ASSUME IInv, AnyNext PROVE IInv'
  OBVIOUS
<1>1. PICK t \in Threads :
        \/ AroundList /\ (Step(t) \/ Locking(t) \/ (t \in Consumers /\ WakeSpuriously(t)))
        \/ ~AroundList /\ (Counter!Step(t) \/ Counter!Locking(t)) /\ UNCHANGED listOnly
  BY ConstantFacts DEF AnyNext, AnyStep, AnyLocking, SpuriousWakeup
<1>2. CASE AroundList
  <2>1. ListInv
    BY <1>2 DEF IInv, CounterInv, CounterTypeOK, AroundList, Programs,
       Counter!Programs, Counter!RWPrograms
  <2> QED
    BY <1>1, <1>2, <2>1, ListNext DEF IInv
<1>3. CASE ~AroundList
  <2>1. ListUnused /\ CounterInv
    BY <1>3 DEF IInv, ListInv, ListTypeOK
  <2>2. ListUnused'
    BY <1>1, <1>3, <2>1 DEF ListUnused, listOnly
  <2> QED
    BY <1>1, <1>3, <2>1, <2>2, CounterNext DEF IInv
<1> QED
  BY <1>2, <1>3

\* The inductive invariant of the thread programs.
THEOREM Inductive == AnySafeSpec => []IInv
BY AnyInitInv, AnyNextInv, AnyStutter, PTL DEF AnySafeSpec

\* No node is lost, consumed twice or used after it was freed, by any number of
\* producers and consumers.
THEOREM NodesAreNeverLost == AnySafeSpec => []NodesAreAccountedFor
<1>1. IInv => NodesAreAccountedFor
  <2>1. ListUnused => NodesAreAccountedFor
    <3> SUFFICES ASSUME ListUnused PROVE NodesAreAccountedFor
      OBVIOUS
    <3>1. list = <<>> /\ heap = {} /\ Range(newNode) \subseteq {NoNode}
      BY DEF ListUnused, Range
    <3>2. Range(list) = {} /\ IsInjective(list)
      BY <3>1 DEF Range, IsInjective
    <3> QED
      BY <3>1, <3>2 DEF NodesAreAccountedFor
  <2> QED
    BY <2>1 DEF IInv, ListInv
<1> QED
  BY <1>1, Inductive, PTL

\* semaphore.c: the semaphores account for the nodes and the free places, so
\* that its consumers, who do not test head, never find it NULL.
THEOREM SemaphoresAlwaysAccount == AnySafeSpec => []SemaphoresAccount
<1>1. IInv => SemaphoresAccount
  <2>1. CounterInv => program # "semaphore.c" /\ HeadIsNotNull
    BY ConstantFacts DEF CounterInv, CounterTypeOK, CounterPcs, Counter!Programs,
       Counter!RWPrograms, HeadIsNotNull
  <2> QED
    BY <2>1, AccountIs DEF IInv, ListInv
<1> QED
  BY <1>1, Inductive, PTL

\* mutex.c sells every ticket once and rwlock.c and rwlock2.c count every write,
\* whatever the number of threads, tickets and rounds.
THEOREM UpdatesAreNeverLost == AnySafeSpec => []NoUpdateIsLost
<1>1. IInv => NoUpdateIsLost
  BY DEF IInv, ListInv, ListTypeOK, AroundList, Programs, CounterInv,
     NoUpdateIsLost, Counter!NoUpdateIsLost, Counter!RWPrograms
<1> QED
  BY <1>1, Inductive, PTL

-----------------------------------------------------------------------------
(* Nobody is stuck.                                                        *)

\* pthread_mutex_lock(), pthread_rwlock_wrlock() and pthread_rwlock_rdlock() would
\* return.
LockIsFree(l) == owner[l] = NoThread /\ (l = "rwlock" => shared = {})
FreeToRead == owner["rwlock"] = NoThread

\* Thread t can take its next step: the guards of Step and Locking.
CanGo(t) ==
  \/ pc[t] \in {"test", "load", "store", "unlock2", "unlock", "leave"}
  \/ pc[t] = "print" /\ (Counter!Selling \/ Counter!IsReader(t))
  \/ pc[t] = "lock" /\ IF Counter!IsReader(t) THEN FreeToRead
                       ELSE LockIsFree(Counter!FirstLock(t))
  \/ pc[t] = "lock2" /\ LockIsFree(Counter!SecondLock(t))

\* OnlyCrossedLocksBlock without ENABLED.
SomebodyCanGo ==
  \/ AroundList \/ Counter!Done
  \/ \E t \in Threads : CanGo(t)
  \/ Counter!Duo /\ owner["mutex1"] = workA /\ owner["mutex2"] = workB

\* deadlock_duo.c: what each of the two holds shows in where it is.
DuoHolds ==
  Counter!Duo =>
    /\ \A t \in Threads \ {workA, workB} : pc[t] = "done"
    /\ \A t \in {workA, workB} : pc[t] \in {"lock", "lock2", "unlock2", "unlock", "done"}
    /\ owner["mutex1"] \in {workA, workB, NoThread}
    /\ owner["mutex2"] \in {workA, workB, NoThread}
    /\ owner["mutex1"] = workA <=> pc[workA] \in {"lock2", "unlock2", "unlock"}
    /\ owner["mutex2"] = workA <=> pc[workA] = "unlock2"
    /\ owner["mutex2"] = workB <=> pc[workB] \in {"lock2", "unlock2", "unlock"}
    /\ owner["mutex1"] = workB <=> pc[workB] = "unlock2"

\* selltickets.c locks nothing, and only readers lock for reading.
HoldersFit ==
  /\ program = "selltickets.c" =>
       \A t \in Threads : pc[t] \in {"test", "print", "load", "store", "done"}
  /\ RW => shared \subseteq Consumers

WaitInv == DuoHolds /\ HoldersFit

\* The two threads of deadlock_duo.c.
LEMMA DuoThreads ==
  workA \in Threads /\ workB \in Threads /\ workA # workB
BY SameThreads DEF Counter!CounterAssumption, Counter!Threads, Threads

LEMMA WaitInit == ASSUME Counter!Init PROVE WaitInv
<1>1. DuoHolds
  BY ConstantFacts, DuoThreads DEF Counter!Init, Counter!Duo, Counter!Locks, Counter!Threads,
     Threads, DuoHolds
<1>2. HoldersFit
  BY DEF Counter!Init, Counter!Duo, Counter!Threads, Threads, HoldersFit
<1> QED
  BY <1>1, <1>2 DEF WaitInv

LEMMA WaitNext ==
  ASSUME CounterInv, WaitInv, NEW t \in Threads, Counter!Step(t) \/ Counter!Locking(t)
  PROVE  WaitInv'
<1> USE DEF WaitInv
<1>1. CASE Counter!Lock(t)
  <2>1. DuoHolds'
    BY <1>1, ConstantFacts, DuoThreads DEF CounterInv, CounterTypeOK, DuoHolds, Counter!Lock,
       Counter!Goto, Counter!Locked, Counter!Acquire, Counter!FirstLock,
       Counter!IsReader, Counter!Duo, Counter!Selling, Counter!RWPrograms,
       Counter!Locks
  <2>2. HoldersFit'
    BY <1>1 DEF CounterInv, CounterTypeOK, HoldersFit, Counter!Lock, Counter!Goto,
       Counter!AcquireShared, Counter!IsReader, RW
  <2> QED
    BY <2>1, <2>2
<1>2. CASE Counter!Lock2(t)
  <2>1. DuoHolds'
    BY <1>2, ConstantFacts, DuoThreads DEF CounterInv, CounterTypeOK, DuoHolds, Counter!Lock2,
       Counter!Goto, Counter!Acquire, Counter!SecondLock, Counter!Duo, Counter!Locks
  <2>2. HoldersFit'
    BY <1>2 DEF CounterInv, CounterTypeOK, HoldersFit, Counter!Lock2, Counter!Goto, RW
  <2> QED
    BY <2>1, <2>2
<1>6. CASE Counter!Unlock2(t)
  <2>1. DuoHolds'
    BY <1>6, ConstantFacts, DuoThreads DEF CounterInv, CounterTypeOK, DuoHolds, Counter!Unlock2,
       Counter!Goto, Counter!SecondLock, Counter!Duo, Counter!Locks
  <2>2. HoldersFit'
    BY <1>6 DEF CounterInv, CounterTypeOK, HoldersFit, Counter!Unlock2, Counter!Goto, RW
  <2> QED
    BY <2>1, <2>2
<1>3. CASE Counter!Unlock(t)
  <2>1. DuoHolds'
    BY <1>3, ConstantFacts, DuoThreads DEF CounterInv, CounterTypeOK, DuoHolds, Counter!Unlock,
       Counter!Goto, Counter!AfterRound, Counter!Release, Counter!Duo, Counter!Locks
  <2>2. HoldersFit'
    BY <1>3 DEF CounterInv, CounterTypeOK, HoldersFit, Counter!Unlock, Counter!Goto,
       Counter!Release, RW
  <2> QED
    BY <2>1, <2>2
<1>4. CASE Counter!Leave(t)
  <2>1. DuoHolds'
    BY <1>4, ConstantFacts, DuoThreads DEF CounterInv, CounterTypeOK, DuoHolds, Counter!Leave,
       Counter!Goto, Counter!Duo
  <2>2. HoldersFit'
    BY <1>4 DEF CounterInv, CounterTypeOK, HoldersFit, Counter!Leave, Counter!Goto,
       Counter!Release, RW
  <2> QED
    BY <2>1, <2>2
<1>5. CASE Counter!Test(t) \/ Counter!Sell(t) \/ Counter!ReadNum(t) \/ Counter!Load(t)
           \/ Counter!Store(t)
  <2>1. /\ UNCHANGED <<program, owner, shared>>
        /\ pc[t] \in {"test", "print", "load", "store"}
        /\ \E to \in {"print", "leave", "done", "load", "unlock", "store", "test"} :
             pc' = [pc EXCEPT ![t] = to]
    BY <1>5 DEF Counter!Test, Counter!Sell, Counter!ReadNum, Counter!Load,
       Counter!Store, Counter!Goto
  <2>2. DuoHolds'
    BY <2>1, ConstantFacts, DuoThreads DEF CounterInv, CounterTypeOK, DuoHolds, Counter!Duo
  <2>3. program = "selltickets.c" =>
          /\ \A u \in Threads \ {t} : pc'[u] = pc[u]
          /\ pc'[t] \in {"test", "print", "load", "store", "done"}
    <3>1. CASE Counter!Test(t)
      BY <3>1 DEF CounterInv, CounterTypeOK, Counter!Test, Counter!Goto
    <3>2. CASE Counter!Sell(t)
      BY <3>2 DEF CounterInv, CounterTypeOK, Counter!Sell, Counter!Goto
    <3>3. CASE Counter!ReadNum(t)
      BY <3>3 DEF Counter!ReadNum, Counter!IsReader, Counter!RWPrograms
    <3>4. CASE Counter!Load(t) \/ Counter!Store(t)
      BY <3>4 DEF CounterInv, CounterTypeOK, Counter!Load, Counter!Store, Counter!Goto
    <3> QED
      BY <1>5, <3>1, <3>2, <3>3, <3>4
  <2>4. HoldersFit'
    BY <2>1, <2>3 DEF HoldersFit, RW
  <2> QED
    BY <2>2, <2>4
<1> QED
  BY <1>1, <1>2, <1>3, <1>4, <1>5, <1>6 DEF Counter!Step, Counter!Locking

\* Who waits, waits for a lock whose holder can go on, until the locks of the duo
\* are crossed.
LEMMA HoldersCanGo ==
  ASSUME CounterInv, WaitInv PROVE SomebodyCanGo
<1> SUFFICES ASSUME NEW t \in Threads, pc[t] # "done",
                    \A u \in Threads : ~CanGo(u),
                    ~(Counter!Duo /\ owner["mutex1"] = workA /\ owner["mutex2"] = workB)
             PROVE  FALSE
  BY DEF SomebodyCanGo, Counter!Done, Counter!Threads, Threads
<1>0. /\ \A u \in Threads : pc[u] \in CounterPcs
      /\ owner \in [Counter!Locks -> Threads \cup {NoThread}] /\ shared \subseteq Threads
      /\ program \in Counter!Programs
  BY DEF CounterInv, CounterTypeOK
<1>1. CASE program = "selltickets.c"
  BY <1>1 DEF WaitInv, HoldersFit, CanGo, Counter!Selling
<1>2. CASE Mutex
  <2>1. owner["mutex1"] = NoThread
    <3>1. ASSUME owner["mutex1"] # NoThread PROVE FALSE
      <4>1. PICK o \in Threads : owner["mutex1"] = o
        BY <1>0, <3>1 DEF Counter!Locks
      <4>2. pc[o] \in {"test", "print", "load", "store", "unlock", "leave"}
        BY <1>2, <4>1 DEF CounterInv, SellerIsInside
      <4>3. CanGo(o)
        BY <1>2, <4>2 DEF CanGo, Counter!Selling, Mutex
      <4> QED
        BY <4>3
    <3> QED
      BY <3>1
  <2>2. pc[t] # "lock2" /\ ~Counter!IsReader(t) /\ Counter!FirstLock(t) = "mutex1"
    BY <1>2 DEF CounterInv, SellerIsInside, Mutex, Counter!IsReader,
       Counter!RWPrograms, Counter!FirstLock, Counter!Duo
  <2>3. CanGo(t)
    BY <1>0, <1>2, <2>1, <2>2 DEF CanGo, CounterPcs, LockIsFree, Counter!Selling, Mutex
  <2> QED
    BY <2>3
<1>3. CASE RW
  <2>1. owner["rwlock"] = NoThread
    <3>1. ASSUME owner["rwlock"] # NoThread PROVE FALSE
      <4>1. PICK o \in Producers : owner["rwlock"] = o
        BY <1>3, <3>1 DEF CounterInv, RWLockExcludes
      <4>2. pc[o] \in {"load", "store", "unlock"} /\ o \in Threads
        BY <1>3, <4>1, ConstantFacts DEF CounterInv, RWLockExcludes
      <4> QED
        BY <4>2 DEF CanGo
    <3> QED
      BY <3>1
  <2>2. shared = {}
    <3>1. ASSUME NEW r \in shared PROVE FALSE
      <4>1. r \in Consumers /\ r \in Threads
        BY <1>3, ConstantFacts DEF WaitInv, HoldersFit
      <4>2. pc[r] \in {"print", "unlock"} /\ Counter!IsReader(r)
        BY <1>3, <4>1 DEF CounterInv, RWLockExcludes, Counter!IsReader, RW
      <4> QED
        BY <4>1, <4>2 DEF CanGo
    <3> QED
      BY <3>1
  <2>3. Counter!FirstLock(t) = "rwlock" /\ ~Counter!Duo
    BY <1>3 DEF Counter!FirstLock, Counter!Duo, RW, Counter!RWPrograms
  <2>4. CASE t \in Producers
    <3>1. pc[t] = "lock" /\ ~Counter!IsReader(t)
      BY <1>3, <2>4, ConstantFacts DEF CounterInv, RWLockExcludes, CanGo, Counter!IsReader
    <3> QED
      BY <2>1, <2>2, <2>3, <3>1 DEF CanGo, LockIsFree
  <2>5. CASE t \in Consumers
    <3>1. Counter!IsReader(t)
      BY <1>3, <2>5 DEF Counter!IsReader, RW
    <3>2. pc[t] \in {"lock", "print", "unlock"}
      BY <1>3, <2>5 DEF CounterInv, RWLockExcludes
    <3> QED
      BY <2>1, <3>1, <3>2 DEF CanGo, FreeToRead
  <2> QED
    BY <2>4, <2>5, ConstantFacts
<1>4. CASE Counter!Duo
  <2>0. DuoHolds /\ workA # workB /\ workA \in Threads /\ workB \in Threads
        /\ NoThread # workA /\ NoThread # workB
    BY ConstantFacts, DuoThreads DEF WaitInv
  <2>1. {pc[workA], pc[workB]} \cap {"unlock", "unlock2"} = {}
    BY <2>0 DEF CanGo
  <2>2. owner["mutex1"] \in {workA, NoThread} /\ owner["mutex2"] \in {workB, NoThread}
    BY <1>4, <2>0, <2>1 DEF DuoHolds
  <2>3. \A u \in Threads : ~Counter!IsReader(u)
    BY <1>4 DEF Counter!IsReader, Counter!Duo, Counter!RWPrograms
  <2>4. /\ Counter!FirstLock(workA) = "mutex1" /\ Counter!FirstLock(workB) = "mutex2"
        /\ Counter!SecondLock(workA) = "mutex2" /\ Counter!SecondLock(workB) = "mutex1"
    BY <1>4, <2>0 DEF Counter!FirstLock, Counter!SecondLock, Counter!Duo,
       Counter!RWPrograms
  <2>5. pc[workA] # "lock" /\ pc[workB] # "lock"
    <3>1. pc[workA] = "lock" => owner["mutex1"] = workA
      BY <2>0, <2>2, <2>3, <2>4 DEF CanGo, LockIsFree
    <3>2. pc[workB] = "lock" => owner["mutex2"] = workB
      BY <2>0, <2>2, <2>3, <2>4 DEF CanGo, LockIsFree
    <3> QED
      BY <1>4, <2>0, <3>1, <3>2 DEF DuoHolds
  <2>6. pc[workA] = "lock2" => owner["mutex2"] = workB
    BY <2>0, <2>2, <2>4 DEF CanGo, LockIsFree
  <2>7. pc[workB] = "lock2" => owner["mutex1"] = workA
    BY <2>0, <2>2, <2>4 DEF CanGo, LockIsFree
  <2>8. t \in {workA, workB} /\ pc[t] = "lock2"
    BY <1>4, <2>0, <2>1, <2>5 DEF DuoHolds
  <2> QED
    BY <1>4, <2>0, <2>1, <2>6, <2>7, <2>8 DEF DuoHolds
<1> QED
  BY <1>0, <1>1, <1>2, <1>3, <1>4 DEF Mutex, RW, Counter!Duo, Counter!Programs

WaitIInv == IInv /\ (AroundList \/ WaitInv)

LEMMA WaitInitIInv == AnyInit => WaitIInv
<1>1. Init => AroundList
  BY DEF Init, AroundList
<1> QED
  BY <1>1, AnyInitInv, WaitInit DEF AnyInit, WaitIInv

LEMMA WaitNextIInv == WaitIInv /\ [AnyNext]_allVars => WaitIInv'
<1> SUFFICES ASSUME WaitIInv, [AnyNext]_allVars PROVE WaitIInv'
  OBVIOUS
<1>1. CASE UNCHANGED allVars
  BY <1>1, AnyStutter DEF WaitIInv, allVars, counterOnly, AroundList, WaitInv, DuoHolds,
     HoldersFit, RW, Counter!Duo
<1>2. CASE AnyNext
  <2>1. IInv'
    BY <1>2, AnyNextInv DEF WaitIInv
  <2>2. CASE AroundList
    <3>1. PICK t \in Threads : Step(t) \/ Locking(t) \/ (t \in Consumers /\ WakeSpuriously(t))
      BY <1>2, <2>2, ConstantFacts DEF AnyNext, AnyStep, AnyLocking, SpuriousWakeup
    <3>2. ListInv
      BY <2>2 DEF WaitIInv, IInv, CounterInv, CounterTypeOK, AroundList, Programs,
         Counter!Programs, Counter!RWPrograms
    <3>3. AroundList'
      BY <3>1, <3>2, ListNext DEF ListInv, ListTypeOK
    <3> QED
      BY <2>1, <3>3 DEF WaitIInv
  <2>3. CASE ~AroundList
    <3>1. PICK t \in Threads : Counter!Step(t) \/ Counter!Locking(t)
      BY <1>2, <2>3, ConstantFacts DEF AnyNext, AnyStep, AnyLocking, SpuriousWakeup
    <3>2. CounterInv /\ WaitInv
      BY <2>3 DEF WaitIInv, IInv, ListInv, ListTypeOK
    <3> QED
      BY <2>1, <3>1, <3>2, WaitNext DEF WaitIInv
  <2> QED
    BY <2>2, <2>3
<1> QED
  BY <1>1, <1>2

\* In every state of the programs around the number a thread can take its next
\* step, unless all have ended or the two of deadlock_duo.c wait for each other:
\* no lock is ever kept by a thread that does not go on.
THEOREM OnlyTheDuoIsStuck == AnySafeSpec => []SomebodyCanGo
<1>1. WaitIInv => SomebodyCanGo
  BY HoldersCanGo DEF WaitIInv, IInv, ListInv, ListTypeOK, SomebodyCanGo
<1> QED
  BY <1>1, WaitInitIInv, WaitNextIInv, PTL DEF AnySafeSpec

-----------------------------------------------------------------------------
(* The list is a stack.                                                    *)

\* There are at most as many nodes in the list as outside of its n-th one.
LEMMA ListFits ==
  ASSUME NEW s \in Seq(Nodes), NEW n \in Nodes, IsInjective(s), n \notin Range(s)
  PROVE  Len(s) < MaxNodes
<1> DEFINE Rest == Nodes \ {n}
<1>1. IsFiniteSet(Nodes) /\ Cardinality(Nodes) = MaxNodes /\ MaxNodes \in Nat
  BY ConstantFacts, FS_Interval DEF Nodes
<1>2. IsFiniteSet(Rest) /\ Cardinality(Rest) = MaxNodes - 1
  BY <1>1, FS_RemoveElement
<1>3. s \in Injection(1 .. Len(s), Rest)
  BY DEF Injection, Range
<1>4. Cardinality(1 .. Len(s)) <= Cardinality(Rest)
  BY <1>2, <1>3, FS_Injection
<1>5. Cardinality(1 .. Len(s)) = Len(s) /\ Len(s) \in Nat
  BY FS_Interval
<1> QED
  BY <1>1, <1>2, <1>4, <1>5

Limit == IF program = "semaphore.c" THEN Places ELSE MaxNodes

\* The writes of head that follow a read under the lock are pushes and pops of
\* the abstract stack; no other step changes it.
LEMMA ListStepIsStackStep ==
  ASSUME ListInv, NEW t \in Threads,
         Step(t) \/ Locking(t) \/ (t \in Consumers /\ WakeSpuriously(t))
  PROVE  [Stack!Next]_<<list, Limit>>
<1>1. program' = program
  BY DEF Step, Locking, ProducerStep, ConsumerStep, Make, Lock, Unlock, SemWait,
     SemPost, NextRound, WakeSpuriously, Relock, Read, ReadEmpty, Push, Pop
<1>2. Limit' = Limit
  BY <1>1 DEF Limit
<1>3. CASE t \in Producers /\ Push(t)
  <2>1. t \in Threads /\ pc[t] = "write" /\ seen[t] = list
    BY <1>3 DEF ListInv, SeenIsList, Push
  <2>2. newNode[t] \in Nodes /\ newNode[t] \in Range(newNode)
    BY <1>3, <2>1 DEF ListInv, ListTypeOK, NewNodeIsHeld, Range
  <2>3. list \in Seq(Nodes) /\ IsInjective(list) /\ newNode[t] \notin Range(list)
    BY <2>2 DEF ListInv, ListTypeOK, NodesAreAccountedFor
  <2>4. Len(list) < Limit
    <3>1. CASE program = "semaphore.c"
      <4>1. Len(list) + psem + ProducersIn + ConsumersOut = Places
        BY <3>1, AccountIs DEF ListInv, PlacesAccount
      <4>2. ProducersIn # 0
        BY <1>3, <2>1, InsideIsCounted
      <4>3. /\ ProducersIn \in Nat /\ ConsumersOut \in Nat /\ psem \in Nat
            /\ Len(list) \in Nat /\ Places \in Nat
        BY CountsAreNumbers, ConstantFacts DEF ListInv, ListTypeOK
      <4> QED
        BY <3>1, <4>1, <4>2, <4>3 DEF Limit
    <3>2. CASE program # "semaphore.c"
      BY <2>2, <2>3, <3>2, ListFits DEF Limit
    <3> QED
      BY <3>1, <3>2
  <2>5. list' = <<newNode[t]>> \o list
    BY <1>3, <2>1 DEF Push
  <2> QED
    BY <1>2, <2>2, <2>4, <2>5 DEF Stack!Next, Stack!Push, Limit
<1>4. CASE t \in Consumers /\ Pop(t)
  <2>1. seen[t] = list /\ list # <<>>
    BY <1>4 DEF ListInv, SeenIsList, Pop, Goto
  <2> QED
    BY <1>4, <2>1 DEF Stack!Next, Stack!Pop, Pop
<1>5. CASE list' = list
  BY <1>2, <1>5
<1> QED
  BY <1>3, <1>4, <1>5 DEF Step, Locking, ProducerStep, ConsumerStep, Make, Lock,
     Unlock, SemWait, SemPost, NextRound, WakeSpuriously, Relock, Read, ReadEmpty

\* The thread programs of lesson32 implement the stack of NodeStack, though
\* they read head in one step and write it in another, and although a consumer
\* of semaphore.c does not test whether there is a node.
THEOREM ListIsAStack == AnySafeSpec => ImplementsStack
<1>1. AnyInit => Stack!Init
  BY ConstantFacts DEF AnyInit, Init, ListUnused, Stack!Init
<1>2. IInv /\ [AnyNext]_allVars => [Stack!Next]_<<list, Limit>>
  <2> SUFFICES ASSUME IInv, [AnyNext]_allVars PROVE [Stack!Next]_<<list, Limit>>
    OBVIOUS
  <2>1. ASSUME UNCHANGED <<program, list>> PROVE [Stack!Next]_<<list, Limit>>
    BY <2>1 DEF Limit
  <2>2. CASE UNCHANGED allVars
    BY <2>1, <2>2 DEF allVars, listOnly
  <2>3. ASSUME NEW t \in Threads,
               AroundList /\ (Step(t) \/ Locking(t) \/ (t \in Consumers /\ WakeSpuriously(t)))
        PROVE  [Stack!Next]_<<list, Limit>>
    <3>1. ListInv
      BY <2>3 DEF IInv, CounterInv, CounterTypeOK, AroundList, Programs,
         Counter!Programs, Counter!RWPrograms
    <3> QED
      BY <2>3, <3>1, ListStepIsStackStep
  <2>4. ASSUME NEW t \in Threads, Counter!Step(t) \/ Counter!Locking(t), UNCHANGED listOnly
        PROVE  [Stack!Next]_<<list, Limit>>
    <3>1. UNCHANGED <<program, list>>
      BY <2>4 DEF listOnly, Counter!Step, Counter!Locking, Counter!Lock,
         Counter!Lock2, Counter!Unlock2, Counter!Unlock, Counter!Leave, Counter!Test,
         Counter!Sell, Counter!ReadNum, Counter!Load, Counter!Store
    <3> QED
      BY <2>1, <3>1
  <2> QED
    BY <2>2, <2>3, <2>4, ConstantFacts DEF AnyNext, AnyStep, AnyLocking,
       SpuriousWakeup
<1>3. AnySafeSpec => Stack!Init /\ [][Stack!Next]_<<list, Limit>>
  BY <1>1, <1>2, Inductive, PTL DEF AnySafeSpec
<1> QED
  BY <1>3 DEF ImplementsStack, Stack!Spec, Limit
=============================================================================

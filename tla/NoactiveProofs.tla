---------------------------- MODULE NoactiveProofs ----------------------------
(***************************************************************************)
(* The safety properties of noactive/ for any number of timers and of      *)
(* connections and any length of a time slot: first what the operations of *)
(* sort_timer_lst do to the pointers of the list, and that they implement  *)
(* a queue by expiry; then the server, whose tick() stops at the first     *)
(* timer that is not due.  That it leaves no other one behind rests on the *)
(* order of the list, which every operation keeps.                         *)
(***************************************************************************)
EXTENDS InactiveConn, TimerList,
        FiniteSetTheorems, SequenceTheorems, WellFoundedInduction, TLAPS

-----------------------------------------------------------------------------
(* Sequences of timers.                                                    *)

\* q is in the order of expiry.
Sorted(q, key) == \A i, j \in DOMAIN q : i < j => key[q[i]] <= key[q[j]]

\* r is q, of length l, with t put behind the first n, ...
WithBehind(r, q, l, n, t) ==
  /\ DOMAIN r = 1 .. l + 1
  /\ \A i \in 1 .. l + 1 :
       r[i] = IF i <= n THEN q[i] ELSE IF i = n + 1 THEN t ELSE q[i - 1]

\* ... r is q without the k-th, ...
WithoutNth(r, q, l, k) ==
  /\ DOMAIN r = 1 .. l - 1
  /\ \A i \in 1 .. l - 1 : r[i] = IF i < k THEN q[i] ELSE q[i + 1]

\* ... and r is q without the first n.
WithoutFirst(r, q, l, n) ==
  /\ DOMAIN r = 1 .. l - n
  /\ \A i \in 1 .. l - n : r[i] = q[n + i]

\* A list with a new member behind the first n has each member once.
LEMMA InsertedOnce ==
  ASSUME NEW l \in Nat, NEW n \in 0 .. l, NEW q, DOMAIN q = 1 .. l, NEW t, NEW r,
         WithBehind(r, q, l, n, t), IsInjective(q), t \notin ToSet(q)
  PROVE  IsInjective(r) /\ ToSet(r) = ToSet(q) \cup {t}
<1>0. /\ DOMAIN r = 1 .. l + 1
      /\ \A i \in 1 .. l + 1 :
           r[i] = IF i <= n THEN q[i] ELSE IF i = n + 1 THEN t ELSE q[i - 1]
  BY DEF WithBehind
<1>1. \A i, j \in 1 .. l : i # j => q[i] # q[j]
  BY DEF IsInjective
<1>2. \A i \in 1 .. l : q[i] # t
  BY DEF ToSet
<1>3. ASSUME NEW i \in 1 .. l + 1, NEW j \in 1 .. l + 1, i < j PROVE r[i] # r[j]
  <2>1. CASE j <= n
    BY <1>0, <1>1, <1>3, <2>1
  <2>2. CASE j = n + 1
    BY <1>0, <1>2, <1>3, <2>2
  <2>3. CASE j > n + 1
    BY <1>0, <1>1, <1>2, <1>3, <2>3, j - 1 \in 1 .. l
  <2> QED
    BY <2>1, <2>2, <2>3
<1>4. \A i \in 1 .. l + 1 : r[i] \in ToSet(q) \cup {t}
  BY <1>0 DEF ToSet
<1>5. ASSUME NEW i \in 1 .. l PROVE q[i] \in ToSet(r)
  <2>1. CASE i <= n
    <3>1. i \in DOMAIN r /\ r[i] = q[i]
      BY <1>0, <2>1
    <3> QED
      BY <3>1 DEF ToSet
  <2>2. CASE i > n
    <3>1. i + 1 \in DOMAIN r /\ r[i + 1] = q[i]
      BY <1>0, <2>2
    <3> QED
      BY <3>1 DEF ToSet
  <2> QED
    BY <2>1, <2>2
<1>6. t \in ToSet(r)
  <2>1. n + 1 \in DOMAIN r /\ r[n + 1] = t
    BY <1>0
  <2> QED
    BY <2>1 DEF ToSet
<1>7. IsInjective(r)
  <2>1. \A i, j \in 1 .. l + 1 : i = j \/ i < j \/ j < i
    OBVIOUS
  <2> QED
    BY <1>0, <1>3, <2>1 DEF IsInjective
<1>8. ToSet(r) = ToSet(q) \cup {t}
  BY <1>0, <1>4, <1>5, <1>6 DEF ToSet
<1> QED
  BY <1>7, <1>8

\* t in its place leaves a list in order.
LEMMA Inserted ==
  ASSUME NEW l \in Nat, NEW n \in 0 .. l, NEW q, DOMAIN q = 1 .. l, NEW key, NEW t,
         \A i \in 1 .. l : key[q[i]] \in Nat, key[t] \in Nat, NEW r, WithBehind(r, q, l, n, t),
         Sorted(q, key), DueBy(q, key, key[t]) = 1 .. n
  PROVE  Sorted(r, key)
<1>0. /\ DOMAIN r = 1 .. l + 1
      /\ \A i \in 1 .. l + 1 :
           r[i] = IF i <= n THEN q[i] ELSE IF i = n + 1 THEN t ELSE q[i - 1]
  BY DEF WithBehind
<1>1. \A i, j \in 1 .. l : i < j => key[q[i]] <= key[q[j]]
  BY DEF Sorted
<1>2. /\ \A i \in 1 .. l : key[q[i]] \in Nat
      /\ \A i \in 1 .. l : key[q[i]] <= key[t] <=> i <= n
  BY DEF DueBy
<1>3. ASSUME NEW i \in 1 .. l + 1, NEW j \in 1 .. l + 1, i < j PROVE key[r[i]] <= key[r[j]]
  <2>1. CASE j <= n
    BY <1>0, <1>1, <1>3, <2>1
  <2>2. CASE j = n + 1
    BY <1>0, <1>2, <1>3, <2>2
  <2>3. CASE j > n + 1
    <3>1. r[j] = q[j - 1] /\ j - 1 \in 1 .. l /\ ~(j - 1 <= n)
      BY <1>0, <2>3
    <3>2. CASE i <= n
      BY <1>0, <1>1, <1>3, <2>3, <3>1, <3>2
    <3>3. CASE i = n + 1
      BY <1>0, <1>2, <3>1, <3>3
    <3>4. CASE i > n + 1
      BY <1>0, <1>1, <1>3, <3>1, <3>4
    <3> QED
      BY <3>2, <3>3, <3>4
  <2> QED
    BY <2>1, <2>2, <2>3
<1> QED
  BY <1>0, <1>3 DEF Sorted

\* What is where in two sequences one behind the other, ...
LEMMA Joined ==
  ASSUME NEW T, NEW a \in Seq(T), NEW b \in Seq(T)
  PROVE  /\ a \o b \in Seq(T) /\ Len(a \o b) = Len(a) + Len(b)
         /\ \A i \in 1 .. Len(a) + Len(b) : (a \o b)[i] = IF i <= Len(a) THEN a[i] ELSE b[i - Len(a)]
BY ConcatProperties

\* ... and in a part of a sequence.
LEMMA Cut ==
  ASSUME NEW T, NEW q \in Seq(T), NEW m \in Nat, NEW n \in 0 .. Len(q),
         1 <= m, m <= n + 1
  PROVE  /\ SubSeq(q, m, n) \in Seq(T)
         /\ Len(SubSeq(q, m, n)) = (n - m) + 1
         /\ \A i \in 1 .. (n - m) + 1 : SubSeq(q, m, n)[i] = q[(m - 1) + i]
BY SubSeqProperties

\* What is left of a sequence behind the first n.
LEMMA CutFirst ==
  ASSUME NEW T, NEW q \in Seq(T), NEW n \in 0 .. Len(q)
  PROVE  /\ SubSeq(q, n + 1, Len(q)) \in Seq(T)
         /\ Len(SubSeq(q, n + 1, Len(q))) = Len(q) - n
         /\ \A i \in 1 .. Len(q) - n : SubSeq(q, n + 1, Len(q))[i] = q[n + i]
<1>1. /\ Len(q) \in Nat /\ n + 1 \in Nat /\ 1 <= n + 1 /\ n + 1 <= Len(q) + 1
      /\ Len(q) \in 0 .. Len(q)
      /\ (Len(q) - (n + 1)) + 1 = Len(q) - n /\ (n + 1) - 1 = n
  OBVIOUS
<1>2. PICK m \in Nat : m = n + 1
  OBVIOUS
<1>3. /\ SubSeq(q, m, Len(q)) \in Seq(T)
      /\ Len(SubSeq(q, m, Len(q))) = (Len(q) - m) + 1
      /\ \A i \in 1 .. (Len(q) - m) + 1 : SubSeq(q, m, Len(q))[i] = q[(m - 1) + i]
  BY <1>1, <1>2, Cut
<1>4. (Len(q) - m) + 1 = Len(q) - n /\ m - 1 = n
  BY <1>1, <1>2
<1> QED
  BY <1>2, <1>3, <1>4

\* What InsertAt() of the community modules returns.
LEMMA InsertAtIs ==
  ASSUME NEW T, NEW q \in Seq(T), NEW t \in T, NEW n \in 0 .. Len(q)
  PROVE  /\ InsertAt(q, n + 1, t) \in Seq(T)
         /\ WithBehind(InsertAt(q, n + 1, t), q, Len(q), n, t)
<1> DEFINE a == SubSeq(q, 1, n)
           e == <<t>>
           d == a \o e
           b == SubSeq(q, n + 1, Len(q))
           r == d \o b
<1>1. Len(q) \in Nat /\ n \in Nat
  OBVIOUS
<1>2. r = InsertAt(q, n + 1, t)
  <2>1. (n + 1) - 1 = n
    BY <1>1
  <2> QED
    BY <2>1 DEF InsertAt
<1>3. a \in Seq(T) /\ Len(a) = n /\ \A i \in 1 .. n : a[i] = q[i]
  BY <1>1, Cut
<1>4. /\ b \in Seq(T) /\ Len(b) = Len(q) - n
      /\ \A i \in 1 .. Len(q) - n : b[i] = q[n + i]
  BY <1>1, Cut
<1>5. e \in Seq(T) /\ Len(e) = 1 /\ e[1] = t
  OBVIOUS
<1> HIDE DEF a, b, e
<1>6. /\ d \in Seq(T) /\ Len(d) = n + 1
      /\ \A i \in 1 .. n + 1 : d[i] = IF i <= n THEN a[i] ELSE e[i - n]
  <2>1. a \in Seq(T) /\ e \in Seq(T) /\ n + 1 = Len(a) + Len(e)
    BY <1>3, <1>5
  <2>2. /\ d \in Seq(T) /\ Len(d) = Len(a) + Len(e)
        /\ \A i \in 1 .. Len(a) + Len(e) : d[i] = IF i <= Len(a) THEN a[i] ELSE e[i - Len(a)]
    BY <2>1, Joined
  <2> HIDE DEF d
  <2> QED
    BY <1>3, <2>1, <2>2
<1> HIDE DEF d
<1>7. /\ r \in Seq(T) /\ Len(r) = (n + 1) + (Len(q) - n)
      /\ \A i \in 1 .. (n + 1) + (Len(q) - n) : r[i] = IF i <= n + 1 THEN d[i] ELSE b[i - (n + 1)]
  <2>1. /\ r \in Seq(T) /\ Len(r) = Len(d) + Len(b)
        /\ \A i \in 1 .. Len(d) + Len(b) : r[i] = IF i <= Len(d) THEN d[i] ELSE b[i - Len(d)]
    <3>1. d \in Seq(T) /\ b \in Seq(T)
      BY <1>4, <1>6
    <3> QED
      BY <3>1, Joined
  <2>2. Len(d) = n + 1 /\ Len(b) = Len(q) - n
    BY <1>4, <1>6
  <2> HIDE DEF r
  <2> QED
    BY <2>1, <2>2
<1>8. (n + 1) + (Len(q) - n) = Len(q) + 1
  BY <1>1
<1> HIDE DEF r
<1>9. ASSUME NEW i \in 1 .. Len(q) + 1
      PROVE  r[i] = IF i <= n THEN q[i] ELSE IF i = n + 1 THEN t ELSE q[i - 1]
  <2>1. r[i] = IF i <= n + 1 THEN d[i] ELSE b[i - (n + 1)]
    BY <1>7, <1>8
  <2>2. CASE i <= n
    BY <1>1, <1>3, <1>6, <2>1, <2>2
  <2>3. CASE i = n + 1
    BY <1>1, <1>5, <1>6, <2>1, <2>3
  <2>4. CASE i > n + 1
    <3>1. i - (n + 1) \in 1 .. Len(q) - n /\ n + (i - (n + 1)) = i - 1
      BY <1>1, <2>4
    <3> QED
      BY <1>1, <1>4, <2>1, <2>4, <3>1
  <2> QED
    BY <1>1, <2>2, <2>3, <2>4
<1>10. r \in [1 .. Len(q) + 1 -> T]
  BY <1>7, <1>8
<1>11. WithBehind(r, q, Len(q), n, t)
  BY <1>9, <1>10 DEF WithBehind
<1> QED
  BY <1>2, <1>7, <1>11

\* RemoveAt() takes the k-th out, ...
LEMMA RemoveAtIs ==
  ASSUME NEW T, NEW q \in Seq(T), NEW k \in 1 .. Len(q)
  PROVE  /\ RemoveAt(q, k) \in Seq(T)
         /\ WithoutNth(RemoveAt(q, k), q, Len(q), k)
<1> DEFINE a == SubSeq(q, 1, k - 1)
           b == SubSeq(q, k + 1, Len(q))
           r == a \o b
<1>1. Len(q) \in Nat /\ q \in [1 .. Len(q) -> T]
  OBVIOUS
<1>2. r = RemoveAt(q, k)
  BY DEF RemoveAt
<1>3. a \in Seq(T) /\ Len(a) = k - 1 /\ \A i \in 1 .. k - 1 : a[i] = q[i]
  <2>1. k - 1 \in 0 .. Len(q) /\ 1 <= (k - 1) + 1
    BY <1>1
  <2> QED
    BY <2>1, Cut
<1>4. /\ b \in Seq(T) /\ Len(b) = Len(q) - k
      /\ \A i \in 1 .. Len(q) - k : b[i] = q[k + i]
  BY CutFirst
<1> HIDE DEF a, b
<1>5. /\ r \in Seq(T) /\ Len(r) = Len(a) + Len(b)
      /\ \A i \in 1 .. Len(a) + Len(b) : r[i] = IF i <= Len(a) THEN a[i] ELSE b[i - Len(a)]
  <2>1. a \in Seq(T) /\ b \in Seq(T)
    BY <1>3, <1>4
  <2> QED
    BY <2>1, Joined
<1> HIDE DEF r
<1>6. Len(a) + Len(b) = Len(q) - 1
  BY <1>1, <1>3, <1>4
<1>7. r \in [1 .. Len(q) - 1 -> T]
  BY <1>5, <1>6
<1>8. ASSUME NEW i \in 1 .. Len(q) - 1 PROVE r[i] = IF i < k THEN q[i] ELSE q[i + 1]
  <2>1. r[i] = IF i <= k - 1 THEN a[i] ELSE b[i - (k - 1)]
    BY <1>3, <1>5, <1>6
  <2>2. CASE i < k
    BY <1>1, <1>3, <2>1, <2>2
  <2>3. CASE ~(i < k)
    <3>1. i - (k - 1) \in 1 .. Len(q) - k /\ k + (i - (k - 1)) = i + 1 /\ ~(i <= k - 1)
      BY <1>1, <2>3
    <3> QED
      BY <1>4, <2>1, <2>3, <3>1
  <2> QED
    BY <2>2, <2>3
<1>9. WithoutNth(r, q, Len(q), k)
  BY <1>7, <1>8 DEF WithoutNth
<1> QED
  BY <1>2, <1>5, <1>9

\* ... and this SubSeq() the first n.
LEMMA SubSeqIs ==
  ASSUME NEW T, NEW q \in Seq(T), NEW n \in 0 .. Len(q)
  PROVE  /\ SubSeq(q, n + 1, Len(q)) \in Seq(T)
         /\ WithoutFirst(SubSeq(q, n + 1, Len(q)), q, Len(q), n)
<1>1. PICK r : r = SubSeq(q, n + 1, Len(q))
  OBVIOUS
<1>2. /\ r \in Seq(T) /\ Len(r) = Len(q) - n
      /\ \A i \in 1 .. Len(q) - n : r[i] = q[n + i]
  BY <1>1, CutFirst
<1>3. r \in [1 .. Len(q) - n -> T]
  BY <1>2
<1>4. WithoutFirst(r, q, Len(q), n)
  BY <1>2, <1>3 DEF WithoutFirst
<1> QED
  BY <1>1, <1>2, <1>4

\* Some values of a function on 1 .. l in their order, the i-th being the
\* f[i]-th of q.
LEMMA Selected ==
  ASSUME NEW l \in Nat, NEW m \in Nat, NEW q, DOMAIN q = 1 .. l,
         NEW r, DOMAIN r = 1 .. m, NEW key,
         NEW f \in [1 .. m -> 1 .. l], \A i \in 1 .. m : r[i] = q[f[i]],
         \A i, j \in 1 .. m : i < j => f[i] < f[j],
         IsInjective(q)
  PROVE  (Sorted(q, key) => Sorted(r, key)) /\ IsInjective(r)
<1>1. ASSUME Sorted(q, key) PROVE \A i, j \in 1 .. l : i < j => key[q[i]] <= key[q[j]]
  BY <1>1 DEF Sorted
<1>2. ASSUME Sorted(q, key) PROVE \A i, j \in 1 .. m : i < j => key[r[i]] <= key[r[j]]
  BY <1>1, <1>2
<1>3. \A i, j \in 1 .. m : i < j => r[i] # r[j]
  <2>1. \A i, j \in 1 .. l : i < j => q[i] # q[j]
    <3>1. \A i, j \in DOMAIN q : q[i] = q[j] => i = j
      BY DEF IsInjective
    <3> QED
      BY <3>1
  <2> QED
    BY <2>1
<1>4. Sorted(q, key) => Sorted(r, key)
  BY <1>2 DEF Sorted
<1>5. IsInjective(r)
  <2>1. \A i, j \in 1 .. m : i = j \/ i < j \/ j < i
    OBVIOUS
  <2> QED
    BY <1>3, <2>1 DEF IsInjective
<1> QED
  BY <1>4, <1>5

\* A function on 1 .. l without its k-th value.
LEMMA Removed ==
  ASSUME NEW l \in Nat, NEW k \in 1 .. l, NEW q, DOMAIN q = 1 .. l,
         NEW key, NEW r, WithoutNth(r, q, l, k),
         IsInjective(q)
  PROVE  (Sorted(q, key) => Sorted(r, key)) /\ IsInjective(r) /\ ToSet(r) = ToSet(q) \ {q[k]}
<1> DEFINE f == [i \in 1 .. l - 1 |-> IF i < k THEN i ELSE i + 1]
<1>1. /\ f \in [1 .. l - 1 -> 1 .. l] /\ DOMAIN r = 1 .. l - 1
      /\ \A i \in 1 .. l - 1 : r[i] = q[f[i]] /\ f[i] # k
      /\ \A i, j \in 1 .. l - 1 : i < j => f[i] < f[j]
  BY DEF WithoutNth
<1>2. \A i \in 1 .. l : i # k => \E j \in 1 .. l - 1 : f[j] = i
  <2> SUFFICES ASSUME NEW i \in 1 .. l, i # k PROVE \E j \in 1 .. l - 1 : f[j] = i
    OBVIOUS
  <2>1. CASE i < k
    <3>1. i \in 1 .. l - 1 /\ f[i] = i
      BY <2>1
    <3> QED
      BY <3>1
  <2>2. CASE i > k
    <3>1. i - 1 \in 1 .. l - 1 /\ f[i - 1] = i
      BY <2>2
    <3> QED
      BY <3>1
  <2> QED
    BY <2>1, <2>2
<1> HIDE DEF f
<1>3. (Sorted(q, key) => Sorted(r, key)) /\ IsInjective(r)
  <2>1. PICK m \in Nat : m = l - 1
    OBVIOUS
  <2>2. /\ f \in [1 .. m -> 1 .. l] /\ DOMAIN r = 1 .. m
        /\ \A i \in 1 .. m : r[i] = q[f[i]]
        /\ \A i, j \in 1 .. m : i < j => f[i] < f[j]
    BY <1>1, <2>1
  <2> QED
    BY <2>2, Selected
<1>4. \A i \in 1 .. l : i # k => q[i] # q[k]
  BY DEF IsInjective
<1>5. \A i \in 1 .. l - 1 : r[i] \in ToSet(q) /\ r[i] # q[k]
  BY <1>1, <1>4 DEF ToSet
<1>6. \A i \in 1 .. l : i # k => \E j \in 1 .. l - 1 : r[j] = q[i]
  BY <1>1, <1>2
<1>7. ASSUME NEW i \in 1 .. l, q[i] # q[k] PROVE q[i] \in ToSet(r)
  <2>1. PICK j \in 1 .. l - 1 : r[j] = q[i]
    BY <1>6, <1>7
  <2> QED
    BY <1>1, <2>1 DEF ToSet
<1>8. \A x \in ToSet(r) : x \in ToSet(q) \ {q[k]}
  BY <1>1, <1>5 DEF ToSet
<1> QED
  BY <1>3, <1>7, <1>8 DEF ToSet

\* The first n timers.
FirstOf(q, n) == {q[i] : i \in 1 .. n}

\* A function on 1 .. l without its first n values.
LEMMA RestOf ==
  ASSUME NEW l \in Nat, NEW n \in 0 .. l, NEW q, DOMAIN q = 1 .. l,
         NEW key, NEW r, WithoutFirst(r, q, l, n),
         IsInjective(q)
  PROVE  /\ (Sorted(q, key) => Sorted(r, key)) /\ IsInjective(r)
         /\ ToSet(r) = ToSet(q) \ FirstOf(q, n)
<1> DEFINE f == [i \in 1 .. l - n |-> n + i]
<1>1. /\ f \in [1 .. l - n -> 1 .. l] /\ DOMAIN r = 1 .. l - n
      /\ \A i \in 1 .. l - n : r[i] = q[f[i]] /\ f[i] \notin 1 .. n
      /\ \A i, j \in 1 .. l - n : i < j => f[i] < f[j]
  BY DEF WithoutFirst
<1>2. \A i \in 1 .. l : i \notin 1 .. n => \E j \in 1 .. l - n : f[j] = i
  <2> SUFFICES ASSUME NEW i \in 1 .. l, i \notin 1 .. n PROVE \E j \in 1 .. l - n : f[j] = i
    OBVIOUS
  <2>1. i - n \in 1 .. l - n /\ f[i - n] = i
    OBVIOUS
  <2> QED
    BY <2>1
<1> HIDE DEF f
<1>3. (Sorted(q, key) => Sorted(r, key)) /\ IsInjective(r)
  <2>1. PICK m \in Nat : m = l - n
    OBVIOUS
  <2>2. /\ f \in [1 .. m -> 1 .. l] /\ DOMAIN r = 1 .. m
        /\ \A i \in 1 .. m : r[i] = q[f[i]]
        /\ \A i, j \in 1 .. m : i < j => f[i] < f[j]
    BY <1>1, <2>1
  <2> QED
    BY <2>2, Selected
<1>4. \A i, j \in 1 .. l : i # j => q[i] # q[j]
  BY DEF IsInjective
<1>5. \A i \in 1 .. n : i \in 1 .. l
  OBVIOUS
<1>6. ToSet(r) = ToSet(q) \ FirstOf(q, n)
  BY <1>1, <1>2, <1>4, <1>5 DEF ToSet, FirstOf
<1> QED
  BY <1>3, <1>6

\* A set of numbers that is not empty has a least member.
LEMMA LeastMember ==
  ASSUME NEW S \in SUBSET Nat, S # {}
  PROVE  \E m \in S : \A j \in S : m <= j
<1> DEFINE Less == {ss \in Nat \X Nat : ss[1] < ss[2]}
<1>1. IsWellFoundedOn(Less, Nat)
  BY NatLessThanWellFounded DEF OpToRel
<1>2. PICK m \in S : \A j \in S : ~(<<j, m>> \in Less)
  BY <1>1, WFMin, Zenon
<1>3. ASSUME NEW j \in S PROVE m <= j
  <2>1. m \in Nat /\ j \in Nat
    OBVIOUS
  <2>2. j < m => <<j, m>> \in Less
    BY <2>1
  <2> QED
    BY <1>2, <2>1, <2>2
<1> QED
  BY <1>3

\* A set of indices that has all those before each of its members is all the
\* indices up to the number of them.
LEMMA Prefix ==
  ASSUME NEW n \in Nat, NEW D \in SUBSET (1 .. n),
         \A i \in D : \A j \in 1 .. n : j < i => j \in D
  PROVE  Cardinality(D) \in 0 .. n /\ D = 1 .. Cardinality(D)
<1> DEFINE Out == (1 .. n + 1) \ D
<1>1. Out \in SUBSET Nat /\ n + 1 \in Out
  OBVIOUS
<1>2. PICK m \in Out : \A j \in Out : m <= j
  <2> HIDE DEF Out
  <2> QED
    BY <1>1, LeastMember
<1>3. m \in 1 .. n + 1 /\ m \notin D
  BY <1>2
<1>4. ASSUME NEW j \in 1 .. m - 1 PROVE j \in D
  BY <1>2, <1>3
<1>5. ASSUME NEW j \in D PROVE j \in 1 .. m - 1
  BY <1>3
<1>6. D = 1 .. m - 1
  BY <1>4, <1>5
<1>7. Cardinality(1 .. m - 1) = m - 1
  BY <1>3, FS_Interval, 1 \in Int, m - 1 \in Int
<1> QED
  BY <1>3, <1>6, <1>7

\* A list in order, with t put behind all that expire no later, is in order.
LEMMA InsertSorts ==
  ASSUME NEW T, NEW q \in Seq(T), NEW key \in [T -> Nat], NEW t \in T,
         NEW n \in 0 .. Len(q), DueBy(q, key, key[t]) = 1 .. n,
         Sorted(q, key), IsInjective(q), t \notin ToSet(q),
         NEW r, r = InsertAt(q, n + 1, t)
  PROVE  /\ r \in Seq(T) /\ Sorted(r, key) /\ IsInjective(r)
         /\ ToSet(r) = ToSet(q) \cup {t}
<1>1. Len(q) \in Nat /\ q \in [1 .. Len(q) -> T]
  OBVIOUS
<1>2. r \in Seq(T) /\ WithBehind(r, q, Len(q), n, t)
  BY InsertAtIs
<1>3. PICK l \in Nat : l = Len(q)
  BY <1>1
<1>4. /\ n \in 0 .. l /\ q \in [1 .. l -> T]
      /\ WithBehind(r, q, l, n, t)
  BY <1>1, <1>2, <1>3
<1>5. Sorted(r, key) /\ IsInjective(r) /\ ToSet(r) = ToSet(q) \cup {t}
  BY <1>4, Inserted, InsertedOnce
<1> QED
  BY <1>2, <1>5

\* The place of t in a list in order is where it is in order, too.
LEMMA PlaceSorts ==
  ASSUME NEW T, NEW q \in Seq(T), NEW key \in [T -> Nat], NEW t \in T,
         Sorted(q, key), IsInjective(q), t \notin ToSet(q),
         NEW r, r = Place(q, key, t)
  PROVE  /\ r \in Seq(T) /\ Sorted(r, key) /\ IsInjective(r)
         /\ ToSet(r) = ToSet(q) \cup {t}
<1> DEFINE D == DueBy(q, key, key[t])
<1>1. Len(q) \in Nat /\ q \in [1 .. Len(q) -> T]
  OBVIOUS
<1>2. D \in SUBSET (1 .. Len(q)) /\ \A i \in D : \A j \in 1 .. Len(q) : j < i => j \in D
  BY <1>1 DEF DueBy, Sorted
<1>3. Cardinality(D) \in 0 .. Len(q) /\ D = 1 .. Cardinality(D)
  <2> HIDE DEF D
  <2> QED
    BY <1>1, <1>2, Prefix
<1>4. r = InsertAt(q, Cardinality(D) + 1, t)
  BY DEF Place
<1>5. PICK n \in 0 .. Len(q) : D = 1 .. n /\ r = InsertAt(q, n + 1, t)
  <2> HIDE DEF D
  <2> QED
    BY <1>3, <1>4
<1> QED
  BY <1>5, InsertSorts

\* A list in order without its k-th timer.
LEMMA RemoveSorts ==
  ASSUME NEW T, NEW q \in Seq(T), NEW key \in [T -> Nat], NEW k \in 1 .. Len(q),
         Sorted(q, key), IsInjective(q), NEW r, r = RemoveAt(q, k)
  PROVE  /\ r \in Seq(T) /\ Sorted(r, key) /\ IsInjective(r)
         /\ ToSet(r) = ToSet(q) \ {q[k]}
<1>1. Len(q) \in Nat /\ q \in [1 .. Len(q) -> T]
  OBVIOUS
<1>2. r \in Seq(T) /\ WithoutNth(r, q, Len(q), k)
  BY RemoveAtIs
<1> QED
  BY <1>1, <1>2, Removed

\* Without t the others keep their order.
LEMMA WithoutKeeps ==
  ASSUME NEW T, NEW q \in Seq(T), NEW key \in [T -> Nat], NEW t \in ToSet(q),
         Sorted(q, key), IsInjective(q), NEW r, r = Without(q, t)
  PROVE  /\ r \in Seq(T) /\ Sorted(r, key) /\ IsInjective(r)
         /\ ToSet(r) = ToSet(q) \ {t}
<1>1. PICK k : k = CHOOSE i \in DOMAIN q : q[i] = t
  OBVIOUS
<1>2. k \in 1 .. Len(q) /\ q[k] = t
  BY <1>1 DEF ToSet
<1>3. r = RemoveAt(q, k)
  BY <1>1 DEF Without
<1> QED
  BY <1>2, <1>3, RemoveSorts

\* A sequence without repetition is as long as the set of its members.
LEMMA LengthOfInjective ==
  ASSUME NEW T, NEW q \in Seq(T), IsInjective(q)
  PROVE  Len(q) = Cardinality(ToSet(q))
<1>1. Len(q) \in Nat /\ q \in [1 .. Len(q) -> ToSet(q)]
  BY DEF ToSet
<1>2. q \in Injection(1 .. Len(q), ToSet(q))
  BY <1>1 DEF Injection
<1>3. q \in Surjection(1 .. Len(q), ToSet(q))
  BY <1>1 DEF Surjection, ToSet
<1>4. IsFiniteSet(1 .. Len(q)) /\ Cardinality(1 .. Len(q)) = Len(q)
  BY <1>1, FS_Interval, 1 \in Int, Len(q) \in Int
<1> QED
  BY <1>2, <1>3, <1>4, FS_Surjection

-----------------------------------------------------------------------------
(* The list q in the pointers l.                                           *)

\* The i-th of q, NULL before the first and behind the last.
Nth(q, i) == IF i \in DOMAIN q THEN q[i] ELSE NULL

\* The values of lst.
ListRecords ==
  [head : Pointers, tail : Pointers,
   next : [Timers -> Pointers], prev : [Timers -> Pointers]]

\* head, tail, next and prev in l are those of the list q.
Links(l, q) ==
  /\ q \in Seq(Timers) /\ IsInjective(q)
  /\ l \in ListRecords
  /\ l.head = Nth(q, 1)
  /\ q # <<>> => l.tail = Nth(q, Len(q))
  /\ \A i \in DOMAIN q : l.next[q[i]] = Nth(q, i + 1) /\ l.prev[q[i]] = Nth(q, i - 1)

\* The equation for the function in Chain().
Walk(l, t, w) ==
  w = [k \in 1 .. Cardinality(Timers) |->
         IF k = 1 THEN t
         ELSE LET tmp == w[k - 1] IN IF tmp = NULL THEN NULL ELSE l.next[tmp]]

\* The nodes of the walk before NULL.
Steps(w) == Cardinality({k \in DOMAIN w : w[k] # NULL})

\* A list is no longer than there are timers.
LEMMA ListFits ==
  ASSUME NEW q \in Seq(Timers), IsInjective(q)
  PROVE  /\ Len(q) \in Nat /\ Cardinality(Timers) \in Nat
         /\ Len(q) <= Cardinality(Timers)
         /\ DOMAIN q = 1 .. Len(q) /\ \A i \in 1 .. Len(q) : q[i] \in Timers /\ q[i] # NULL
<1>1. ToSet(q) \in SUBSET Timers
  BY DEF ToSet
<1>2. Cardinality(ToSet(q)) <= Cardinality(Timers) /\ Cardinality(Timers) \in Nat
  BY <1>1, ListAssumption, FS_Subset, FS_CardinalityType
<1>3. Len(q) = Cardinality(ToSet(q))
  BY LengthOfInjective
<1> QED
  BY <1>2, <1>3, ListAssumption

\* That equation has a solution, so that the function is one.
LEMMA WalkValue ==
  ASSUME NEW l, NEW q, Links(l, q), NEW i \in 1 .. Len(q) + 1
  PROVE  \E w : /\ Walk(l, Nth(q, i), w)
                /\ Chain(l, Nth(q, i)) = SubSeq(w, 1, Steps(w))
<1> DEFINE t == Nth(q, i)
           v == [k \in 1 .. Cardinality(Timers) |-> Nth(q, i + (k - 1))]
           w == CHOOSE f : Walk(l, t, f)
<1>1. q \in Seq(Timers) /\ IsInjective(q)
  BY DEF Links
<1>2. /\ Len(q) \in Nat /\ Cardinality(Timers) \in Nat /\ Len(q) <= Cardinality(Timers)
      /\ DOMAIN q = 1 .. Len(q) /\ \A j \in 1 .. Len(q) : q[j] \in Timers /\ q[j] # NULL
  BY <1>1, ListFits
<1>3. ASSUME NEW k \in 1 .. Cardinality(Timers), k # 1
      PROVE  /\ v[k] = IF v[k - 1] = NULL THEN NULL ELSE l.next[v[k - 1]]
  <2> DEFINE j == i + (k - 2)
  <2>1. /\ j \in Nat /\ j >= 1 /\ i + ((k - 1) - 1) = j /\ i + (k - 1) = j + 1
        /\ k - 1 \in 1 .. Cardinality(Timers)
    BY <1>2, <1>3
  <2>2. v[k - 1] = Nth(q, j) /\ v[k] = Nth(q, j + 1)
    BY <2>1
  <2> HIDE DEF j, v
  <2>3. CASE j \in DOMAIN q
    <3>1. Nth(q, j) = q[j] /\ q[j] # NULL
      BY <1>2, <2>3 DEF Nth
    <3>2. l.next[q[j]] = Nth(q, j + 1)
      BY <2>3 DEF Links
    <3> QED
      BY <2>2, <3>1, <3>2
  <2>4. CASE j \notin DOMAIN q
    <3>1. Nth(q, j) = NULL /\ Nth(q, j + 1) = NULL
      BY <1>2, <2>1, <2>4 DEF Nth
    <3> QED
      BY <2>2, <3>1
  <2> QED
    BY <2>3, <2>4
<1>4. ASSUME 1 \in 1 .. Cardinality(Timers) PROVE v[1] = t
  BY <1>4
<1>5. Walk(l, t, v)
  <2> HIDE DEF t
  <2>1. \A k \in 1 .. Cardinality(Timers) :
          v[k] = IF k = 1 THEN t
                 ELSE LET tmp == v[k - 1] IN IF tmp = NULL THEN NULL ELSE l.next[tmp]
    BY <1>3, <1>4
  <2>2. v = [k \in 1 .. Cardinality(Timers) |-> v[k]]
    OBVIOUS
  <2> HIDE DEF v
  <2> QED
    BY <2>1, <2>2 DEF Walk
<1> HIDE DEF v, t
<1>6. Walk(l, t, w)
  BY <1>5
<1>7. Chain(l, t) = SubSeq(w, 1, Steps(w))
  BY DEF Chain, Walk, Steps
<1> HIDE DEF w
<1> QED
  BY <1>6, <1>7 DEF t

\* Any solution goes through the list, and on to NULL.
LEMMA WalkIs ==
  ASSUME NEW l, NEW q, Links(l, q), NEW i \in 1 .. Len(q) + 1,
         NEW w, Walk(l, Nth(q, i), w), NEW m \in 1 .. Cardinality(Timers)
  PROVE  w[m] = Nth(q, i + (m - 1))
<1> DEFINE Bad == {k \in 1 .. Cardinality(Timers) : w[k] # Nth(q, i + (k - 1))}
<1>1. q \in Seq(Timers) /\ IsInjective(q)
  BY DEF Links
<1>2. /\ Len(q) \in Nat /\ Cardinality(Timers) \in Nat /\ Len(q) <= Cardinality(Timers)
      /\ DOMAIN q = 1 .. Len(q) /\ \A j \in 1 .. Len(q) : q[j] \in Timers /\ q[j] # NULL
  BY <1>1, ListFits
<1>3. SUFFICES ASSUME Bad # {} PROVE FALSE
  OBVIOUS
<1>4. PICK k \in Bad : \A j \in Bad : k <= j
  <2>1. Bad \in SUBSET Nat
    BY <1>2
  <2> HIDE DEF Bad
  <2> QED
    BY <1>3, <2>1, LeastMember
<1>5. /\ k \in 1 .. Cardinality(Timers)
      /\ w[k] = IF k = 1 THEN Nth(q, i)
                ELSE IF w[k - 1] = NULL THEN NULL ELSE l.next[w[k - 1]]
  BY <1>4 DEF Walk
<1>6. CASE k = 1
  BY <1>2, <1>4, <1>5, <1>6
<1>7. CASE k # 1
  <2> DEFINE j == i + (k - 2)
  <2>1. /\ j \in Nat /\ j >= 1 /\ i + ((k - 1) - 1) = j /\ i + (k - 1) = j + 1
        /\ k - 1 \in 1 .. Cardinality(Timers) /\ ~(k <= k - 1)
    BY <1>2, <1>5, <1>7
  <2>2. w[k - 1] = Nth(q, j) /\ w[k] # Nth(q, j + 1)
    BY <1>4, <2>1
  <2> HIDE DEF j
  <2>3. CASE j \in DOMAIN q
    <3>1. Nth(q, j) = q[j] /\ q[j] # NULL
      BY <1>2, <2>3 DEF Nth
    <3>2. l.next[q[j]] = Nth(q, j + 1)
      BY <2>3 DEF Links
    <3> QED
      BY <1>5, <1>7, <2>2, <3>1, <3>2
  <2>4. CASE j \notin DOMAIN q
    <3>1. Nth(q, j) = NULL /\ Nth(q, j + 1) = NULL
      BY <1>2, <2>1, <2>4 DEF Nth
    <3> QED
      BY <1>5, <1>7, <2>2, <3>1
  <2> QED
    BY <2>3, <2>4
<1> QED
  BY <1>6, <1>7

\* The chain from a node of the list is the rest of the list, and there is none
\* from NULL.
LEMMA ChainIs ==
  ASSUME NEW l, NEW q, Links(l, q), NEW i \in 1 .. Len(q) + 1
  PROVE  Chain(l, Nth(q, i)) = SubSeq(q, i, Len(q))
<1>1. q \in Seq(Timers) /\ IsInjective(q)
  BY DEF Links
<1>2. /\ Len(q) \in Nat /\ Cardinality(Timers) \in Nat /\ Len(q) <= Cardinality(Timers)
      /\ DOMAIN q = 1 .. Len(q) /\ \A j \in 1 .. Len(q) : q[j] \in Timers /\ q[j] # NULL
  BY <1>1, ListFits
<1>3. PICK w : /\ Walk(l, Nth(q, i), w)
               /\ Chain(l, Nth(q, i)) = SubSeq(w, 1, Steps(w))
  BY WalkValue
<1>4. DOMAIN w = 1 .. Cardinality(Timers)
  BY <1>3 DEF Walk
<1>5. \A k \in 1 .. Cardinality(Timers) : w[k] = Nth(q, i + (k - 1))
  BY <1>3, WalkIs
<1> DEFINE n == (Len(q) - i) + 1
<1>6. n \in Nat /\ n <= Cardinality(Timers) /\ 1 \in Int
  BY <1>2
<1>7. \A k \in 1 .. Cardinality(Timers) : w[k] # NULL <=> k \in 1 .. n
  BY <1>2, <1>5 DEF Nth
<1>8. {k \in DOMAIN w : w[k] # NULL} = 1 .. n
  <2> HIDE DEF n
  <2> QED
    BY <1>2, <1>4, <1>6, <1>7
<1>9. Cardinality(1 .. n) = n
  <2> HIDE DEF n
  <2> QED
    BY <1>6, FS_Interval
<1>10. Chain(l, Nth(q, i)) = SubSeq(w, 1, n)
  BY <1>3, <1>8, <1>9 DEF Steps
<1>11. w \in Seq(Pointers)
  <2>1. \A k \in 1 .. Cardinality(Timers) : w[k] \in Pointers
    BY <1>2, <1>5 DEF Nth, Pointers
  <2>2. w = [k \in 1 .. Cardinality(Timers) |-> w[k]]
    BY <1>3 DEF Walk
  <2> QED
    BY <1>2, <2>1, <2>2
<1>12. \A k \in 1 .. n : w[k] = q[(i - 1) + k]
  BY <1>2, <1>5 DEF Nth
<1>13. Len(w) = Cardinality(Timers)
  BY <1>2, <1>4, <1>11
<1>14. /\ SubSeq(w, 1, n) \in Seq(Pointers) /\ Len(SubSeq(w, 1, n)) = n
       /\ \A k \in 1 .. n : SubSeq(w, 1, n)[k] = w[k]
  <2>1. n \in 0 .. Len(w) /\ 1 <= n + 1 /\ (n - 1) + 1 = n
    BY <1>6, <1>13
  <2> HIDE DEF n
  <2>2. /\ SubSeq(w, 1, n) \in Seq(Pointers) /\ Len(SubSeq(w, 1, n)) = (n - 1) + 1
        /\ \A k \in 1 .. (n - 1) + 1 : SubSeq(w, 1, n)[k] = w[(1 - 1) + k]
    BY <1>11, <2>1, Cut
  <2> QED
    BY <2>1, <2>2
<1>15. /\ SubSeq(q, i, Len(q)) \in Seq(Timers) /\ Len(SubSeq(q, i, Len(q))) = n
       /\ \A k \in 1 .. n : SubSeq(q, i, Len(q))[k] = q[(i - 1) + k]
  BY <1>1, <1>2, Cut
<1> HIDE DEF n
<1>16. SubSeq(w, 1, n) = SubSeq(q, i, Len(q))
  <2>1. SubSeq(q, i, Len(q)) \in Seq(Pointers)
    BY <1>15 DEF Pointers
  <2> QED
    BY <1>12, <1>14, <1>15, <2>1, SeqEqual
<1> QED
  BY <1>10, <1>16

\* The order of a list is found again in its pointers.
LEMMA OrderIs ==
  ASSUME NEW l, NEW q, Links(l, q)
  PROVE  Chain(l, l.head) = q
<1>1. q \in Seq(Timers) /\ l.head = Nth(q, 1)
  BY DEF Links
<1>2. Chain(l, Nth(q, 1)) = SubSeq(q, 1, Len(q))
  BY <1>1, ChainIs
<1>3. SubSeq(q, 1, Len(q)) = q
  BY <1>1, SubSeqFull
<1> QED
  BY <1>1, <1>2, <1>3

\* What is at the places of a list with t behind the first j, ...
LEMMA NthBehind ==
  ASSUME NEW q \in Seq(Timers), NEW j \in 0 .. Len(q), NEW t, NEW r,
         WithBehind(r, q, Len(q), j, t), NEW k \in Int
  PROVE  Nth(r, k) = IF k <= j THEN Nth(q, k) ELSE IF k = j + 1 THEN t ELSE Nth(q, k - 1)
<1>1. Len(q) \in Nat /\ DOMAIN q = 1 .. Len(q)
  OBVIOUS
<1>2. /\ DOMAIN r = 1 .. Len(q) + 1
      /\ \A i \in 1 .. Len(q) + 1 :
           r[i] = IF i <= j THEN q[i] ELSE IF i = j + 1 THEN t ELSE q[i - 1]
  BY DEF WithBehind
<1>3. CASE k \in 1 .. Len(q) + 1
  BY <1>1, <1>2, <1>3 DEF Nth
<1>4. CASE k \notin 1 .. Len(q) + 1
  <2>1. k \notin DOMAIN r /\ k \notin DOMAIN q /\ ~(k = j + 1) /\ (k > j => k - 1 \notin DOMAIN q)
    BY <1>1, <1>2, <1>4
  <2> QED
    BY <2>1 DEF Nth
<1> QED
  BY <1>3, <1>4

\* ... of one without its n-th, ...
LEMMA NthWithout ==
  ASSUME NEW q \in Seq(Timers), NEW n \in 1 .. Len(q), NEW r,
         WithoutNth(r, q, Len(q), n), NEW k \in Int
  PROVE  Nth(r, k) = IF k < n THEN Nth(q, k) ELSE Nth(q, k + 1)
<1>1. Len(q) \in Nat /\ DOMAIN q = 1 .. Len(q)
  OBVIOUS
<1>2. /\ DOMAIN r = 1 .. Len(q) - 1
      /\ \A i \in 1 .. Len(q) - 1 : r[i] = IF i < n THEN q[i] ELSE q[i + 1]
  BY DEF WithoutNth
<1>3. CASE k \in 1 .. Len(q) - 1
  BY <1>1, <1>2, <1>3 DEF Nth
<1>4. CASE k \notin 1 .. Len(q) - 1
  <2>1. /\ k \notin DOMAIN r /\ (k < n => k \notin DOMAIN q)
        /\ (~(k < n) => k + 1 \notin DOMAIN q)
    BY <1>1, <1>2, <1>4
  <2> QED
    BY <2>1 DEF Nth
<1> QED
  BY <1>3, <1>4

\* ... and of one without the first n.
LEMMA NthRest ==
  ASSUME NEW q \in Seq(Timers), NEW n \in 0 .. Len(q), NEW r,
         WithoutFirst(r, q, Len(q), n), NEW k \in Int, k >= 1
  PROVE  Nth(r, k) = Nth(q, n + k)
<1>1. Len(q) \in Nat /\ DOMAIN q = 1 .. Len(q)
  OBVIOUS
<1>2. /\ DOMAIN r = 1 .. Len(q) - n
      /\ \A i \in 1 .. Len(q) - n : r[i] = q[n + i]
  BY DEF WithoutFirst
<1>3. k \in DOMAIN r <=> n + k \in DOMAIN q
  BY <1>1, <1>2
<1> QED
  BY <1>2, <1>3 DEF Nth

\* The pointers m and l differ in the cells S at most.
Untouched(m, l, S) ==
  \A u \in Timers \ S : m.next[u] = l.next[u] /\ m.prev[u] = l.prev[u]

\* The pointers m are those of l, the list q, with t linked in behind the j-th.
LinkedIn(m, l, q, j, t) ==
  /\ m \in ListRecords
  /\ m.head = IF j = 0 THEN t ELSE l.head
  /\ m.tail = IF j = Len(q) THEN t ELSE l.tail
  /\ m.next[t] = Nth(q, j + 1) /\ m.prev[t] = Nth(q, j)
  /\ \A i \in DOMAIN q :
       /\ m.next[q[i]] = IF i = j THEN t ELSE l.next[q[i]]
       /\ m.prev[q[i]] = IF i = j + 1 THEN t ELSE l.prev[q[i]]
  /\ Untouched(m, l, ToSet(q) \cup {t})

\* Such pointers are those of the list with t behind the j-th.
LEMMA LinkIn ==
  ASSUME NEW l, NEW q, Links(l, q), NEW t \in Timers, t \notin ToSet(q),
         NEW j \in 0 .. Len(q), NEW r \in Seq(Timers), WithBehind(r, q, Len(q), j, t),
         NEW m, LinkedIn(m, l, q, j, t)
  PROVE  Links(m, r) /\ ToSet(r) = ToSet(q) \cup {t}
<1>1. /\ q \in Seq(Timers) /\ IsInjective(q) /\ l.head = Nth(q, 1)
      /\ q # <<>> => l.tail = Nth(q, Len(q))
      /\ \A i \in DOMAIN q : l.next[q[i]] = Nth(q, i + 1) /\ l.prev[q[i]] = Nth(q, i - 1)
  BY DEF Links
<1>2. Len(q) \in Nat /\ DOMAIN q = 1 .. Len(q)
  BY <1>1
<1>3. /\ DOMAIN r = 1 .. Len(q) + 1 /\ Len(r) = Len(q) + 1
      /\ \A i \in 1 .. Len(q) + 1 :
           r[i] = IF i <= j THEN q[i] ELSE IF i = j + 1 THEN t ELSE q[i - 1]
  <2>1. /\ DOMAIN r = 1 .. Len(q) + 1
        /\ \A i \in 1 .. Len(q) + 1 :
             r[i] = IF i <= j THEN q[i] ELSE IF i = j + 1 THEN t ELSE q[i - 1]
    BY DEF WithBehind
  <2> QED
    BY <1>2, <2>1
<1>4. \A k \in Int :
        Nth(r, k) = IF k <= j THEN Nth(q, k) ELSE IF k = j + 1 THEN t ELSE Nth(q, k - 1)
  BY <1>1, NthBehind
<1>5. IsInjective(r) /\ ToSet(r) = ToSet(q) \cup {t}
  <2>1. PICK n \in Nat : n = Len(q)
    BY <1>2
  <2> QED
    BY <1>1, <1>2, <2>1, InsertedOnce
<1>6. m.head = Nth(r, 1)
  BY <1>1, <1>4 DEF LinkedIn
<1>7. m.tail = Nth(r, Len(r))
  <2>1. CASE j = Len(q)
    <3>1. Len(r) \in Int /\ ~(Len(r) <= j) /\ Len(r) = j + 1
      BY <1>2, <1>3, <2>1
    <3>2. Nth(r, Len(r)) = t
      BY <1>4, <3>1
    <3> QED
      BY <2>1, <3>2 DEF LinkedIn
  <2>2. CASE j # Len(q)
    <3>1. /\ Len(r) \in Int /\ ~(Len(r) <= j) /\ Len(r) # j + 1 /\ Len(r) - 1 = Len(q)
      BY <1>2, <1>3, <2>2
    <3>2. Nth(r, Len(r)) = Nth(q, Len(q))
      BY <1>4, <3>1
    <3>3. q # <<>>
      BY <2>2
    <3> QED
      BY <1>1, <2>2, <3>2, <3>3 DEF LinkedIn
  <2> QED
    BY <2>1, <2>2
<1>8. ASSUME NEW i \in DOMAIN r
      PROVE  m.next[r[i]] = Nth(r, i + 1) /\ m.prev[r[i]] = Nth(r, i - 1)
  <2>1. CASE i <= j
    <3>1. i \in DOMAIN q /\ r[i] = q[i] /\ i # j + 1
      BY <1>2, <1>3, <2>1
    <3>2. m.next[q[i]] = IF i = j THEN t ELSE Nth(q, i + 1)
      BY <1>1, <3>1 DEF LinkedIn
    <3>3. m.prev[q[i]] = Nth(q, i - 1)
      BY <1>1, <3>1 DEF LinkedIn
    <3> QED
      BY <1>2, <1>3, <1>4, <2>1, <3>1, <3>2, <3>3
  <2>2. CASE i = j + 1
    <3>1. /\ i + 1 \in Int /\ ~(i + 1 <= j) /\ i + 1 # j + 1 /\ (i + 1) - 1 = j + 1
          /\ i - 1 \in Int /\ i - 1 <= j /\ i - 1 = j /\ ~(i <= j)
      BY <1>2, <1>3, <2>2
    <3>2. r[i] = t /\ Nth(r, i + 1) = Nth(q, j + 1) /\ Nth(r, i - 1) = Nth(q, j)
      BY <1>3, <1>4, <2>2, <3>1
    <3> QED
      BY <3>2 DEF LinkedIn
  <2>3. CASE i > j + 1
    <3>1. i - 1 \in DOMAIN q /\ r[i] = q[i - 1] /\ i - 1 # j
      BY <1>2, <1>3, <2>3
    <3>2. m.next[q[i - 1]] = Nth(q, (i - 1) + 1)
      BY <1>1, <3>1 DEF LinkedIn
    <3>3. m.prev[q[i - 1]] = IF i - 1 = j + 1 THEN t ELSE Nth(q, (i - 1) - 1)
      BY <1>1, <3>1 DEF LinkedIn
    <3> QED
      BY <1>2, <1>3, <1>4, <2>3, <3>1, <3>2, <3>3
  <2> QED
    BY <1>2, <1>3, <2>1, <2>2, <2>3
<1> QED
  BY <1>5, <1>6, <1>7, <1>8 DEF Links, LinkedIn

\* The pointers m are those of l, the list q, with the k-th linked out.
Unlinked(m, l, q, k) ==
  /\ m \in ListRecords
  /\ m.head = IF k = 1 THEN Nth(q, 2) ELSE l.head
  /\ Len(q) # 1 => m.tail = IF k = Len(q) THEN Nth(q, k - 1) ELSE l.tail
  /\ \A i \in DOMAIN q : i # k =>
       /\ m.next[q[i]] = IF i = k - 1 THEN Nth(q, k + 1) ELSE l.next[q[i]]
       /\ m.prev[q[i]] = IF i = k + 1 THEN Nth(q, k - 1) ELSE l.prev[q[i]]
  /\ Untouched(m, l, ToSet(q))

\* Such pointers are those of the list without its k-th.
LEMMA LinkOut ==
  ASSUME NEW l, NEW q, Links(l, q), NEW k \in 1 .. Len(q),
         NEW r \in Seq(Timers), WithoutNth(r, q, Len(q), k),
         NEW m, Unlinked(m, l, q, k)
  PROVE  Links(m, r) /\ ToSet(r) = ToSet(q) \ {q[k]}
<1>1. /\ q \in Seq(Timers) /\ IsInjective(q) /\ l.head = Nth(q, 1)
      /\ q # <<>> => l.tail = Nth(q, Len(q))
      /\ \A i \in DOMAIN q : l.next[q[i]] = Nth(q, i + 1) /\ l.prev[q[i]] = Nth(q, i - 1)
  BY DEF Links
<1>2. Len(q) \in Nat /\ DOMAIN q = 1 .. Len(q)
  BY <1>1
<1>3. /\ DOMAIN r = 1 .. Len(q) - 1 /\ Len(r) = Len(q) - 1
      /\ \A i \in 1 .. Len(q) - 1 : r[i] = IF i < k THEN q[i] ELSE q[i + 1]
  <2>1. /\ DOMAIN r = 1 .. Len(q) - 1
        /\ \A i \in 1 .. Len(q) - 1 : r[i] = IF i < k THEN q[i] ELSE q[i + 1]
    BY DEF WithoutNth
  <2>0. Len(q) >= 1 /\ Len(q) - 1 \in Nat
    <3>1. \A a \in Nat : k \in 1 .. a => a >= 1 /\ a - 1 \in Nat
      OBVIOUS
    <3> QED
      BY <1>2, <3>1
  <2>2. PICK n \in Nat : n = Len(q) - 1
    BY <2>0
  <2>3. DOMAIN r = 1 .. n
    BY <2>1, <2>2
  <2>4. Len(r) = n
    BY <2>2, <2>3
  <2> QED
    BY <2>1, <2>2, <2>4
<1>4. \A n \in Int : Nth(r, n) = IF n < k THEN Nth(q, n) ELSE Nth(q, n + 1)
  BY <1>1, NthWithout
<1>5. IsInjective(r) /\ ToSet(r) = ToSet(q) \ {q[k]}
  <2>1. PICK n \in Nat : n = Len(q)
    BY <1>2
  <2> QED
    BY <1>1, <1>2, <2>1, Removed
<1>6. m.head = Nth(r, 1)
  <2>1. Nth(r, 1) = IF k = 1 THEN Nth(q, 2) ELSE Nth(q, 1)
    BY <1>4
  <2> QED
    BY <1>1, <2>1 DEF Unlinked
<1>7. ASSUME r # <<>> PROVE m.tail = Nth(r, Len(r))
  <2>1. Len(q) # 1 /\ q # <<>>
    BY <1>2, <1>3, <1>7
  <2>2. CASE k = Len(q)
    <3>1. Len(r) \in Int /\ Len(r) < k /\ Len(r) = k - 1
      BY <1>2, <1>3, <2>2
    <3>2. Nth(r, Len(r)) = Nth(q, k - 1)
      BY <1>4, <3>1
    <3> QED
      BY <2>1, <2>2, <3>2 DEF Unlinked
  <2>3. CASE k # Len(q)
    <3>1. Len(r) \in Int /\ ~(Len(r) < k) /\ Len(r) + 1 = Len(q)
      <4>0. \A a \in Nat : k \in 1 .. a /\ k # a => k < a /\ k \in Int
        OBVIOUS
      <4>1. k < Len(q) /\ k \in Int
        BY <1>2, <2>3, <4>0
      <4> QED
        BY <1>2, <1>3, <4>1
    <3>2. Nth(r, Len(r)) = Nth(q, Len(q))
      BY <1>4, <3>1
    <3> QED
      BY <1>1, <2>1, <2>3, <3>2 DEF Unlinked
  <2> QED
    BY <2>2, <2>3
<1>8. ASSUME NEW i \in DOMAIN r
      PROVE  m.next[r[i]] = Nth(r, i + 1) /\ m.prev[r[i]] = Nth(r, i - 1)
  <2>1. CASE i < k
    <3>1. i \in DOMAIN q /\ r[i] = q[i] /\ i # k /\ i # k + 1
      BY <1>2, <1>3, <2>1
    <3>2. m.next[q[i]] = IF i = k - 1 THEN Nth(q, k + 1) ELSE Nth(q, i + 1)
      BY <1>1, <3>1 DEF Unlinked
    <3>3. m.prev[q[i]] = Nth(q, i - 1)
      BY <1>1, <3>1 DEF Unlinked
    <3>4. /\ i + 1 \in Int /\ i - 1 \in Int /\ i - 1 < k
          /\ i = k - 1 => ~(i + 1 < k) /\ (i + 1) + 1 = k + 1
          /\ i # k - 1 => i + 1 < k
      BY <1>2, <1>3, <2>1
    <3>5. /\ Nth(r, i - 1) = Nth(q, i - 1)
          /\ Nth(r, i + 1) = IF i = k - 1 THEN Nth(q, k + 1) ELSE Nth(q, i + 1)
      BY <1>4, <3>4
    <3> QED
      BY <3>1, <3>2, <3>3, <3>5
  <2>2. CASE i >= k
    <3>1. i + 1 \in DOMAIN q /\ r[i] = q[i + 1] /\ i + 1 # k /\ i + 1 # k - 1
      BY <1>2, <1>3, <2>2
    <3>2. m.next[q[i + 1]] = Nth(q, (i + 1) + 1)
      BY <1>1, <3>1 DEF Unlinked
    <3>3. m.prev[q[i + 1]] = IF i + 1 = k + 1 THEN Nth(q, k - 1) ELSE Nth(q, (i + 1) - 1)
      BY <1>1, <3>1 DEF Unlinked
    <3>4. /\ i + 1 \in Int /\ i - 1 \in Int /\ ~(i + 1 < k)
          /\ i + 1 = k + 1 => i - 1 < k /\ i - 1 = k - 1
          /\ i + 1 # k + 1 => ~(i - 1 < k) /\ (i - 1) + 1 = (i + 1) - 1
      BY <1>2, <1>3, <2>2
    <3>5. /\ Nth(r, i + 1) = Nth(q, (i + 1) + 1)
          /\ Nth(r, i - 1) = IF i + 1 = k + 1 THEN Nth(q, k - 1) ELSE Nth(q, (i + 1) - 1)
      BY <1>4, <3>4
    <3> QED
      BY <3>1, <3>2, <3>3, <3>5
  <2> QED
    BY <1>2, <1>3, <2>1, <2>2
<1>9. m \in ListRecords
  BY DEF Unlinked
<1> QED
  BY <1>5, <1>6, <1>7, <1>8, <1>9 DEF Links

\* The pointers m are those of l, the list q, with the first n cut off.
CutOff(m, l, q, n) ==
  /\ m \in ListRecords
  /\ m.head = Nth(q, n + 1) /\ m.tail = l.tail
  /\ \A i \in DOMAIN q : i > n =>
       /\ m.next[q[i]] = l.next[q[i]]
       /\ m.prev[q[i]] = IF i = n + 1 THEN NULL ELSE l.prev[q[i]]
  /\ Untouched(m, l, ToSet(q))

\* Such pointers are those of the rest of the list.
LEMMA LinkRest ==
  ASSUME NEW l, NEW q, Links(l, q), NEW n \in 0 .. Len(q),
         NEW r \in Seq(Timers), WithoutFirst(r, q, Len(q), n),
         NEW m, CutOff(m, l, q, n)
  PROVE  Links(m, r) /\ ToSet(r) = ToSet(q) \ FirstOf(q, n)
<1>1. /\ q \in Seq(Timers) /\ IsInjective(q) /\ l.head = Nth(q, 1)
      /\ q # <<>> => l.tail = Nth(q, Len(q))
      /\ \A i \in DOMAIN q : l.next[q[i]] = Nth(q, i + 1) /\ l.prev[q[i]] = Nth(q, i - 1)
  BY DEF Links
<1>2. Len(q) \in Nat /\ DOMAIN q = 1 .. Len(q)
  BY <1>1
<1>3. /\ DOMAIN r = 1 .. Len(q) - n /\ Len(r) = Len(q) - n
      /\ \A i \in 1 .. Len(q) - n : r[i] = q[n + i]
  <2>1. /\ DOMAIN r = 1 .. Len(q) - n
        /\ \A i \in 1 .. Len(q) - n : r[i] = q[n + i]
    BY DEF WithoutFirst
  <2>0. Len(q) - n \in Nat
    <3>1. \A a \in Nat : n \in 0 .. a => a - n \in Nat
      OBVIOUS
    <3> QED
      BY <1>2, <3>1
  <2>2. PICK k \in Nat : k = Len(q) - n
    BY <2>0
  <2>3. DOMAIN r = 1 .. k
    BY <2>1, <2>2
  <2>4. Len(r) = k
    BY <2>2, <2>3
  <2> QED
    BY <2>1, <2>2, <2>4
<1>4. \A k \in Int : k >= 1 => Nth(r, k) = Nth(q, n + k)
  BY <1>1, NthRest
<1>5. IsInjective(r) /\ ToSet(r) = ToSet(q) \ FirstOf(q, n)
  <2>1. PICK k \in Nat : k = Len(q)
    BY <1>2
  <2> QED
    BY <1>1, <1>2, <2>1, RestOf
<1>6. m.head = Nth(r, 1)
  BY <1>4 DEF CutOff
<1>7. ASSUME r # <<>> PROVE m.tail = Nth(r, Len(r))
  <2>1. Len(r) \in Int /\ Len(r) >= 1 /\ n + Len(r) = Len(q) /\ q # <<>>
    BY <1>2, <1>3, <1>7
  <2>2. Nth(r, Len(r)) = Nth(q, Len(q))
    BY <1>4, <2>1
  <2> QED
    BY <1>1, <2>1, <2>2 DEF CutOff
<1>8. ASSUME NEW i \in DOMAIN r
      PROVE  m.next[r[i]] = Nth(r, i + 1) /\ m.prev[r[i]] = Nth(r, i - 1)
  <2>1. n + i \in DOMAIN q /\ n + i > n /\ r[i] = q[n + i]
    BY <1>2, <1>3
  <2>2. m.next[r[i]] = Nth(q, (n + i) + 1)
    BY <1>1, <2>1 DEF CutOff
  <2>3. Nth(r, i + 1) = Nth(q, (n + i) + 1)
    BY <1>2, <1>3, <1>4
  <2>4. CASE i = 1
    <3>1. m.prev[r[i]] = NULL
      BY <2>1, <2>4 DEF CutOff
    <3>2. i - 1 \notin DOMAIN r
      BY <1>2, <1>3, <2>4
    <3> QED
      BY <2>2, <2>3, <3>1, <3>2 DEF Nth
  <2>5. CASE i # 1
    <3>1. n + i # n + 1 /\ i - 1 \in Int /\ i - 1 >= 1 /\ n + (i - 1) = (n + i) - 1
      BY <1>2, <1>3, <2>5
    <3>2. m.prev[r[i]] = Nth(q, (n + i) - 1)
      BY <1>1, <2>1, <3>1 DEF CutOff
    <3>3. Nth(r, i - 1) = Nth(q, (n + i) - 1)
      BY <1>4, <3>1
    <3> QED
      BY <2>2, <2>3, <3>2, <3>3
  <2> QED
    BY <2>4, <2>5
<1>9. m \in ListRecords
  BY DEF CutOff
<1> QED
  BY <1>5, <1>6, <1>7, <1>8, <1>9 DEF Links

\* Cells that are not in the list can be forgotten.
LEMMA ForgetLinks ==
  ASSUME NEW l, NEW q, Links(l, q), NEW S, S \cap ToSet(q) = {}
  PROVE  Links(Forget(l, S), q)
<1>1. l \in ListRecords /\ q \in Seq(Timers)
  BY DEF Links
<1>2. /\ Forget(l, S) \in ListRecords
      /\ Forget(l, S).head = l.head /\ Forget(l, S).tail = l.tail
      /\ \A u \in Timers \ S : /\ Forget(l, S).next[u] = l.next[u]
                               /\ Forget(l, S).prev[u] = l.prev[u]
  BY <1>1 DEF Forget, ListRecords, Pointers
<1>3. \A i \in DOMAIN q : q[i] \in Timers \ S
  BY <1>1 DEF ToSet
<1> QED
  BY <1>2, <1>3 DEF Links

\* q[i] is the only one at its place.
LEMMA NthIs ==
  ASSUME NEW q \in Seq(Timers), IsInjective(q), NEW i \in DOMAIN q, NEW k
  PROVE  q[i] = Nth(q, k) <=> i = k
<1>1. q[i] # NULL
  BY ListAssumption
<1> QED
  BY <1>1 DEF Nth, IsInjective

\* Min() of a set of numbers is its least.
LEMMA MinIs ==
  ASSUME NEW S \in SUBSET Nat, S # {}
  PROVE  Min(S) \in S /\ \A j \in S : Min(S) <= j
<1>1. \E m \in S : \A j \in S : m <= j
  BY LeastMember
<1> QED
  BY <1>1 DEF Min

-----------------------------------------------------------------------------
(* What the operations of the list do to its pointers.                     *)

\* The walk of add_timer(timer, lst_head) stops at the first node with one behind
\* it that expires later, or at the end.
LEMMA InsertionPointIs ==
  ASSUME NEW l, NEW q, Links(l, q), NEW key \in [Timers -> Nat], NEW e \in Nat,
         NEW s \in 1 .. Len(q)
  PROVE  \E j \in s .. Len(q) :
           /\ InsertionPoint(l, key, e, q[s]) = q[j]
           /\ \A i \in s + 1 .. j : key[q[i]] <= e
           /\ j # Len(q) => e < key[q[j + 1]]
<1>1. q \in Seq(Timers) /\ IsInjective(q)
  BY DEF Links
<1>2. /\ Len(q) \in Nat /\ DOMAIN q = 1 .. Len(q)
      /\ \A i \in 1 .. Len(q) : q[i] \in Timers /\ q[i] # NULL
  BY <1>1, ListFits
<1> DEFINE node == Chain(l, q[s])
           n == (Len(q) - s) + 1
           D == {i \in 1 .. n : i = n \/ e < key[node[i + 1]]}
<1>3. n \in Nat /\ n >= 1 /\ s \in Nat /\ s >= 1 /\ (s - 1) + n = Len(q)
  BY <1>2
<1>4. node = SubSeq(q, s, Len(q))
  <2>1. Nth(q, s) = q[s] /\ s \in 1 .. Len(q) + 1
    BY <1>2 DEF Nth
  <2> QED
    BY <2>1, ChainIs
<1>5. /\ node \in Seq(Timers) /\ Len(node) = n /\ DOMAIN node = 1 .. n
      /\ \A i \in 1 .. n : node[i] = q[(s - 1) + i]
  <2>1. s \in Nat /\ Len(q) \in 0 .. Len(q) /\ 1 <= s /\ s <= Len(q) + 1
    BY <1>2
  <2>2. /\ SubSeq(q, s, Len(q)) \in Seq(Timers)
        /\ Len(SubSeq(q, s, Len(q))) = (Len(q) - s) + 1
        /\ \A i \in 1 .. (Len(q) - s) + 1 : SubSeq(q, s, Len(q))[i] = q[(s - 1) + i]
    BY <1>1, <2>1, Cut
  <2> HIDE DEF node
  <2>3. /\ node \in Seq(Timers) /\ Len(node) = n
        /\ \A i \in 1 .. n : node[i] = q[(s - 1) + i]
    BY <1>4, <2>2
  <2> QED
    BY <2>3
<1>6. InsertionPoint(l, key, e, q[s]) = node[Min(D)]
  <2>1. InsertionPoint(l, key, e, q[s])
          = node[Min({i \in DOMAIN node : i = Len(node) \/ e < key[node[i + 1]]})]
    BY DEF InsertionPoint
  <2> HIDE DEF node, n
  <2> QED
    BY <1>5, <2>1
<1> HIDE DEF node, n
<1>7. Min(D) \in D /\ \A i \in D : Min(D) <= i
  <2>1. D \in SUBSET Nat /\ n \in D
    BY <1>3
  <2> HIDE DEF D
  <2> QED
    BY <2>1, MinIs
<1>8. PICK m \in 1 .. n : m = Min(D)
  BY <1>7
<1>9. m = n \/ e < key[node[m + 1]]
  BY <1>7, <1>8
<1>10. ASSUME NEW i \in 1 .. m - 1 PROVE key[node[i + 1]] <= e
  <2>1. i \in 1 .. n /\ i # n /\ i + 1 \in 1 .. n /\ ~(m <= i)
    BY <1>3
  <2>2. i \notin D
    BY <1>7, <1>8, <2>1
  <2>3. ~(e < key[node[i + 1]])
    BY <2>1, <2>2
  <2>4. key[node[i + 1]] \in Nat
    BY <1>5, <2>1
  <2> QED
    BY <2>3, <2>4
<1> HIDE DEF D
<1> DEFINE j == (s - 1) + m
<1>11. j \in s .. Len(q) /\ (j # Len(q) => m # n /\ (s - 1) + (m + 1) = j + 1 /\ m + 1 \in 1 .. n)
  BY <1>2, <1>3
<1>12. node[m] = q[j]
  BY <1>5
<1>13. ASSUME NEW i \in s + 1 .. j PROVE key[q[i]] <= e
  <2>1. i - s \in 1 .. m - 1 /\ (i - s) + 1 \in 1 .. n /\ (s - 1) + ((i - s) + 1) = i
    BY <1>3
  <2>2. node[(i - s) + 1] = q[i]
    BY <1>5, <2>1
  <2> QED
    BY <1>10, <2>1, <2>2
<1>14. j # Len(q) => e < key[q[j + 1]]
  BY <1>5, <1>9, <1>11
<1> HIDE DEF j
<1> QED
  BY <1>6, <1>8, <1>11, <1>12, <1>13, <1>14

\* What the assignments at the end of add_timer(timer, lst_head) do.
LEMMA InsertAfterCells ==
  ASSUME NEW l \in ListRecords, NEW key, NEW t \in Timers, NEW h, NEW p \in Timers,
         InsertionPoint(l, key, key[t], h) = p,
         NEW m, m = InsertAfter(l, key, t, h)
  PROVE  /\ m \in ListRecords
         /\ m.head = l.head
         /\ m.tail = IF l.next[p] = NULL THEN t ELSE l.tail
         /\ \A u \in Timers :
              /\ m.next[u] = IF u = t THEN l.next[p] ELSE IF u = p THEN t ELSE l.next[u]
              /\ m.prev[u] = IF u = l.next[p] THEN t ELSE IF u = t THEN p ELSE l.prev[u]
<1> DEFINE n == l.next[p]
<1>1. m = [l EXCEPT !.next = [l.next EXCEPT ![p] = t, ![t] = n],
                !.prev = IF n = NULL THEN [l.prev EXCEPT ![t] = p]
                                     ELSE [l.prev EXCEPT ![t] = p, ![n] = t],
                !.tail = IF n = NULL THEN t ELSE l.tail]
  BY DEF InsertAfter
<1>2. /\ l.next \in [Timers -> Pointers] /\ l.prev \in [Timers -> Pointers]
      /\ l.head \in Pointers /\ l.tail \in Pointers /\ n \in Pointers
  BY DEF ListRecords
<1> HIDE DEF n
<1>3. CASE n = NULL
  <2>1. m = [l EXCEPT !.next = [l.next EXCEPT ![p] = t, ![t] = n],
                      !.prev = [l.prev EXCEPT ![t] = p], !.tail = t]
    BY <1>1, <1>3
  <2>2. m \in ListRecords /\ m.head = l.head /\ m.tail = t
    <3>1. /\ [l.next EXCEPT ![p] = t, ![t] = n] \in [Timers -> Pointers]
          /\ [l.prev EXCEPT ![t] = p] \in [Timers -> Pointers] /\ t \in Pointers
      BY <1>2 DEF Pointers
    <3> QED
      BY <2>1, <3>1 DEF ListRecords
  <2>3. /\ m.next = [l.next EXCEPT ![p] = t, ![t] = n]
        /\ m.prev = [l.prev EXCEPT ![t] = p]
    BY <2>1 DEF ListRecords
  <2> QED
    BY <1>2, <1>3, <2>2, <2>3, ListAssumption DEF n
<1>4. CASE n # NULL
  <2>1. m = [l EXCEPT !.next = [l.next EXCEPT ![p] = t, ![t] = n],
                      !.prev = [l.prev EXCEPT ![t] = p, ![n] = t], !.tail = l.tail]
    BY <1>1, <1>4
  <2>2. n \in Timers
    BY <1>2, <1>4 DEF Pointers
  <2>3. m \in ListRecords /\ m.head = l.head /\ m.tail = l.tail
    <3>1. /\ [l.next EXCEPT ![p] = t, ![t] = n] \in [Timers -> Pointers]
          /\ [l.prev EXCEPT ![t] = p, ![n] = t] \in [Timers -> Pointers]
      BY <1>2, <2>2 DEF Pointers
    <3> QED
      BY <1>2, <2>1, <3>1 DEF ListRecords
  <2>4. /\ m.next = [l.next EXCEPT ![p] = t, ![t] = n]
        /\ m.prev = [l.prev EXCEPT ![t] = p, ![n] = t]
    BY <2>1 DEF ListRecords
  <2> QED
    BY <1>2, <1>4, <2>2, <2>3, <2>4 DEF n
<1> QED
  BY <1>3, <1>4

\* The private overload links t in behind some node from the s-th on: the first
\* with one behind it that expires later than t, or the last.
LEMMA InsertAfterIs ==
  ASSUME NEW l, NEW q, Links(l, q), NEW key \in [Timers -> Nat], NEW t \in Timers,
         t \notin ToSet(q), NEW s \in 1 .. Len(q)
  PROVE  \E j \in s .. Len(q) :
           /\ LinkedIn(InsertAfter(l, key, t, q[s]), l, q, j, t)
           /\ \A i \in s + 1 .. j : key[q[i]] <= key[t]
           /\ j # Len(q) => key[t] < key[q[j + 1]]
<1>1. /\ q \in Seq(Timers) /\ IsInjective(q) /\ l \in ListRecords
      /\ \A i \in DOMAIN q : l.next[q[i]] = Nth(q, i + 1) /\ l.prev[q[i]] = Nth(q, i - 1)
  BY DEF Links
<1>2. /\ Len(q) \in Nat /\ DOMAIN q = 1 .. Len(q)
      /\ \A i \in 1 .. Len(q) : q[i] \in Timers /\ q[i] # NULL
  BY <1>1, ListFits
<1>3. PICK j \in s .. Len(q) :
        /\ InsertionPoint(l, key, key[t], q[s]) = q[j]
        /\ \A i \in s + 1 .. j : key[q[i]] <= key[t]
        /\ j # Len(q) => key[t] < key[q[j + 1]]
  <2>1. key[t] \in Nat
    OBVIOUS
  <2> QED
    BY <2>1, InsertionPointIs
<1>4. PICK m : m = InsertAfter(l, key, t, q[s])
  OBVIOUS
<1>5. j \in DOMAIN q /\ q[j] \in Timers /\ l.next[q[j]] = Nth(q, j + 1)
  <2>1. \A a \in Nat : s \in 1 .. a /\ j \in s .. a => j \in 1 .. a
    OBVIOUS
  <2>2. j \in DOMAIN q
    BY <1>2, <2>1
  <2> QED
    BY <1>1, <1>2, <2>2
<1>6. /\ m \in ListRecords
      /\ m.head = l.head
      /\ m.tail = IF Nth(q, j + 1) = NULL THEN t ELSE l.tail
      /\ \A u \in Timers :
           /\ m.next[u] = IF u = t THEN Nth(q, j + 1) ELSE IF u = q[j] THEN t ELSE l.next[u]
           /\ m.prev[u] = IF u = Nth(q, j + 1) THEN t ELSE IF u = t THEN q[j] ELSE l.prev[u]
  <2>1. PICK p \in Timers : p = q[j]
    BY <1>5
  <2>2. PICK h : h = q[s]
    OBVIOUS
  <2>3. InsertionPoint(l, key, key[t], h) = p /\ m = InsertAfter(l, key, t, h)
    BY <1>3, <1>4, <2>1, <2>2
  <2>4. PICK n : n = Nth(q, j + 1)
    OBVIOUS
  <2>5. l.next[p] = n /\ l \in ListRecords
    BY <1>1, <1>5, <2>1, <2>4
  <2>6. /\ m \in ListRecords
        /\ m.head = l.head
        /\ m.tail = IF n = NULL THEN t ELSE l.tail
        /\ \A u \in Timers :
             /\ m.next[u] = IF u = t THEN n ELSE IF u = p THEN t ELSE l.next[u]
             /\ m.prev[u] = IF u = n THEN t ELSE IF u = t THEN p ELSE l.prev[u]
    BY <2>3, <2>5, InsertAfterCells
  <2> QED
    BY <2>1, <2>4, <2>6
<1>7. Nth(q, j) = q[j] /\ j # 0 /\ (Nth(q, j + 1) = NULL <=> j = Len(q)) /\ Nth(q, j + 1) # t
  BY <1>2, <1>5, ListAssumption DEF Nth, ToSet
<1>8. ASSUME NEW i \in DOMAIN q
      PROVE  /\ m.next[q[i]] = IF i = j THEN t ELSE l.next[q[i]]
             /\ m.prev[q[i]] = IF i = j + 1 THEN t ELSE l.prev[q[i]]
  <2>1. q[i] \in Timers /\ q[i] # t /\ (q[i] = q[j] <=> i = j)
    BY <1>1, <1>2, <1>5 DEF ToSet, IsInjective
  <2>2. q[i] = Nth(q, j + 1) <=> i = j + 1
    BY <1>1, NthIs
  <2> QED
    BY <1>6, <2>1, <2>2
<1>9. Untouched(m, l, ToSet(q) \cup {t})
  <2>1. ASSUME NEW u \in Timers, u \notin ToSet(q)
        PROVE  u # q[j] /\ u # Nth(q, j + 1)
    BY <1>2, <1>5, <2>1, ListAssumption DEF Nth, ToSet
  <2> QED
    BY <1>6, <2>1 DEF Untouched
<1>10. LinkedIn(m, l, q, j, t)
  BY <1>6, <1>7, <1>8, <1>9 DEF LinkedIn
<1> QED
  BY <1>3, <1>4, <1>10

\* In a sorted sequence those due by e are the first j when the j-th is due and
\* the next is not.
LEMMA DueByIs ==
  ASSUME NEW n \in Nat, NEW q, DOMAIN q = 1 .. n, NEW key,
         \A i \in 1 .. n : key[q[i]] \in Nat, Sorted(q, key), NEW e \in Nat,
         NEW j \in 0 .. n, j # 0 => key[q[j]] <= e, j # n => e < key[q[j + 1]]
  PROVE  DueBy(q, key, e) = 1 .. j
<1>2. \A i, k \in 1 .. n : i < k => key[q[i]] <= key[q[k]]
  BY DEF Sorted
<1>3. ASSUME NEW i \in 1 .. j PROVE i \in DOMAIN q /\ key[q[i]] <= e
  <2>1. i \in 1 .. n /\ j \in 1 .. n /\ j # 0 /\ (i = j \/ i < j)
    OBVIOUS
  <2> QED
    BY <1>2, <2>1
<1>4. ASSUME NEW i \in DOMAIN q, i \notin 1 .. j PROVE ~(key[q[i]] <= e)
  <2>1. i \in 1 .. n /\ j + 1 \in 1 .. n /\ j # n /\ (i = j + 1 \/ j + 1 < i)
    BY <1>4
  <2> QED
    BY <1>2, <2>1
<1>5. \A i \in DOMAIN q : key[q[i]] <= e <=> i \in 1 .. j
  BY <1>3, <1>4
<1>6. 1 .. j \subseteq DOMAIN q
  BY <1>3
<1> QED
  BY <1>5, <1>6, Zenon DEF DueBy

\* add_timer() links t in before the first that expires later.
LEMMA AddTimerIs ==
  ASSUME NEW l, NEW q, Links(l, q), NEW key \in [Timers -> Nat], NEW t \in Timers,
         t \notin ToSet(q), l.next[t] = NULL, l.prev[t] = NULL
  PROVE  \E j \in 0 .. Len(q) :
           /\ LinkedIn(AddTimer(l, key, t), l, q, j, t)
           /\ Sorted(q, key) => DueBy(q, key, key[t]) = 1 .. j
<1>1. /\ q \in Seq(Timers) /\ IsInjective(q) /\ l \in ListRecords
      /\ l.head = Nth(q, 1) /\ (q # <<>> => l.tail = Nth(q, Len(q)))
  BY DEF Links
<1>2. /\ Len(q) \in Nat /\ DOMAIN q = 1 .. Len(q) /\ (q = <<>> <=> Len(q) = 0)
      /\ \A i \in 1 .. Len(q) : q[i] \in Timers /\ q[i] # NULL /\ q[i] # t
  BY <1>1, ListFits DEF ToSet
<1>3. /\ l.next \in [Timers -> Pointers] /\ l.prev \in [Timers -> Pointers]
      /\ l.head \in Pointers /\ l.tail \in Pointers /\ t \in Pointers /\ t # NULL
  BY <1>1, ListAssumption DEF ListRecords, Pointers
<1>4. key[t] \in Nat /\ \A i \in 1 .. Len(q) : key[q[i]] \in Nat
  BY <1>2
<1>5. CASE l.head = NULL
  <2>1. Len(q) = 0
    BY <1>1, <1>2, <1>5 DEF Nth
  <2>2. PICK m : m = AddTimer(l, key, t)
    OBVIOUS
  <2>3. m = [l EXCEPT !.head = t, !.tail = t, !.next = l.next, !.prev = l.prev]
    BY <1>1, <1>5, <2>2 DEF AddTimer, ListRecords
  <2>4. m \in ListRecords /\ m.head = t /\ m.tail = t /\ m.next = l.next /\ m.prev = l.prev
    BY <1>1, <1>3, <2>3 DEF ListRecords
  <2>5. Nth(q, 0 + 1) = NULL /\ Nth(q, 0) = NULL /\ DOMAIN q = {}
    BY <1>2, <2>1 DEF Nth
  <2>6. LinkedIn(m, l, q, 0, t)
    BY <2>1, <2>4, <2>5 DEF LinkedIn, Untouched
  <2>7. Sorted(q, key) => DueBy(q, key, key[t]) = 1 .. 0
    <3>1. PICK n \in Nat : n = Len(q)
      BY <1>2
    <3> QED
      BY <1>2, <1>4, <2>1, <3>1, DueByIs
  <2>8. 0 \in 0 .. Len(q)
    BY <1>2
  <2> QED
    BY <2>2, <2>6, <2>7, <2>8
<1>6. CASE l.head # NULL /\ key[t] < key[l.head]
  <2>1. Len(q) # 0 /\ 1 \in DOMAIN q /\ l.head = q[1] /\ q[1] \in Timers /\ q[1] # t
    BY <1>1, <1>2, <1>6 DEF Nth
  <2>2. PICK m : m = AddTimer(l, key, t)
    OBVIOUS
  <2>3. m = [l EXCEPT !.head = t, !.tail = l.tail, !.next = [l.next EXCEPT ![t] = q[1]],
                      !.prev = [l.prev EXCEPT ![q[1]] = t]]
    BY <1>1, <1>6, <2>1, <2>2 DEF AddTimer, ListRecords
  <2>4. /\ [l.next EXCEPT ![t] = q[1]] \in [Timers -> Pointers]
        /\ [l.prev EXCEPT ![q[1]] = t] \in [Timers -> Pointers]
    BY <1>3, <2>1 DEF Pointers
  <2>5. /\ m \in ListRecords /\ m.head = t /\ m.tail = l.tail
        /\ m.next = [l.next EXCEPT ![t] = q[1]] /\ m.prev = [l.prev EXCEPT ![q[1]] = t]
    BY <1>1, <1>3, <2>3, <2>4 DEF ListRecords
  <2>6. /\ \A u \in Timers : m.next[u] = IF u = t THEN q[1] ELSE l.next[u]
        /\ \A u \in Timers : m.prev[u] = IF u = q[1] THEN t ELSE l.prev[u]
    BY <1>3, <2>1, <2>5
  <2>7. Nth(q, 0 + 1) = q[1] /\ Nth(q, 0) = NULL
    BY <1>2, <2>1 DEF Nth
  <2>8. \A i \in DOMAIN q : q[i] = q[1] <=> i = 0 + 1
    BY <1>1, <2>1 DEF IsInjective
  <2>9. Untouched(m, l, ToSet(q) \cup {t})
    BY <2>1, <2>6 DEF Untouched, ToSet
  <2>10. LinkedIn(m, l, q, 0, t)
    <3>1. ASSUME NEW i \in DOMAIN q
          PROVE  /\ m.next[q[i]] = IF i = 0 THEN t ELSE l.next[q[i]]
                 /\ m.prev[q[i]] = IF i = 0 + 1 THEN t ELSE l.prev[q[i]]
      BY <1>2, <2>6, <2>8
    <3>2. m.next[t] = q[1] /\ m.prev[t] = NULL
      BY <2>1, <2>6
    <3> QED
      BY <2>1, <2>5, <2>7, <2>9, <3>1, <3>2 DEF LinkedIn
  <2>11. Sorted(q, key) => DueBy(q, key, key[t]) = 1 .. 0
    <3>1. PICK n \in Nat : n = Len(q)
      BY <1>2
    <3> QED
      BY <1>2, <1>4, <1>6, <2>1, <3>1, DueByIs
  <2>12. 0 \in 0 .. Len(q)
    BY <1>2
  <2> QED
    BY <2>2, <2>10, <2>11, <2>12
<1>7. CASE l.head # NULL /\ ~(key[t] < key[l.head])
  <2>1. 1 \in 1 .. Len(q) /\ l.head = q[1]
    BY <1>1, <1>2, <1>7 DEF Nth
  <2>2. AddTimer(l, key, t) = InsertAfter(l, key, t, q[1])
    BY <1>7, <2>1 DEF AddTimer
  <2>3. PICK j \in 1 .. Len(q) :
          /\ LinkedIn(InsertAfter(l, key, t, q[1]), l, q, j, t)
          /\ \A i \in 1 + 1 .. j : key[q[i]] <= key[t]
          /\ j # Len(q) => key[t] < key[q[j + 1]]
    BY <2>1, InsertAfterIs
  <2>4. key[q[j]] <= key[t]
    <3>1. key[q[1]] \in Nat /\ ~(key[t] < key[q[1]])
      BY <1>4, <1>7, <2>1
    <3>2. j = 1 \/ j \in 1 + 1 .. j
      OBVIOUS
    <3> QED
      BY <1>4, <2>3, <3>1, <3>2
  <2>5. j \in 0 .. Len(q)
    BY <1>2
  <2>6. Sorted(q, key) => DueBy(q, key, key[t]) = 1 .. j
    <3>1. PICK n \in Nat : n = Len(q)
      BY <1>2
    <3>2. /\ DOMAIN q = 1 .. n /\ \A i \in 1 .. n : key[q[i]] \in Nat
          /\ j \in 0 .. n /\ (j # n => key[t] < key[q[j + 1]])
      BY <1>2, <1>4, <2>3, <2>5, <3>1
    <3> QED
      BY <1>4, <2>4, <3>2, DueByIs
  <2> QED
    BY <2>2, <2>3, <2>5, <2>6
<1> QED
  BY <1>5, <1>6, <1>7

\* The k-th node, found from its pointers.
LEMMA NodeIs ==
  ASSUME NEW l, NEW q, Links(l, q), NEW k \in 1 .. Len(q)
  PROVE  /\ q[k] \in Timers /\ q[k] # NULL /\ q # <<>>
         /\ l.next[q[k]] = Nth(q, k + 1) /\ l.prev[q[k]] = Nth(q, k - 1)
         /\ (k = Len(q) => Nth(q, k + 1) = NULL)
         /\ (k # Len(q) => k + 1 \in DOMAIN q /\ Nth(q, k + 1) = q[k + 1] /\ q[k + 1] \in Timers)
         /\ (k = 1 => Nth(q, k - 1) = NULL)
         /\ (k # 1 => k - 1 \in DOMAIN q /\ Nth(q, k - 1) = q[k - 1] /\ q[k - 1] \in Timers)
         /\ (q[k] = l.head <=> k = 1)
         /\ (q[k] = l.tail <=> k = Len(q))
<1>1. /\ q \in Seq(Timers) /\ IsInjective(q) /\ l \in ListRecords
      /\ l.head = Nth(q, 1) /\ (q # <<>> => l.tail = Nth(q, Len(q)))
      /\ \A i \in DOMAIN q : l.next[q[i]] = Nth(q, i + 1) /\ l.prev[q[i]] = Nth(q, i - 1)
  BY DEF Links
<1>2. /\ Len(q) \in Nat /\ DOMAIN q = 1 .. Len(q)
      /\ \A i \in 1 .. Len(q) : q[i] \in Timers /\ q[i] # NULL
  BY <1>1, ListFits
<1>3. k \in DOMAIN q /\ q # <<>>
  BY <1>2
<1>4. /\ (k = Len(q) => Nth(q, k + 1) = NULL)
      /\ (k # Len(q) => k + 1 \in DOMAIN q /\ Nth(q, k + 1) = q[k + 1] /\ q[k + 1] \in Timers)
  <2>1. \A a \in Nat : k \in 1 .. a =>
          (k = a => k + 1 \notin 1 .. a) /\ (k # a => k + 1 \in 1 .. a)
    OBVIOUS
  <2> QED
    BY <1>2, <2>1 DEF Nth
<1>5. /\ (k = 1 => Nth(q, k - 1) = NULL)
      /\ (k # 1 => k - 1 \in DOMAIN q /\ Nth(q, k - 1) = q[k - 1] /\ q[k - 1] \in Timers)
  <2>1. \A a \in Nat : k \in 1 .. a =>
          (k = 1 => k - 1 \notin 1 .. a) /\ (k # 1 => k - 1 \in 1 .. a)
    OBVIOUS
  <2> QED
    BY <1>2, <2>1 DEF Nth
<1>6. (q[k] = l.head <=> k = 1) /\ (q[k] = l.tail <=> k = Len(q))
  BY <1>1, <1>3, NthIs
<1> QED
  BY <1>1, <1>2, <1>3, <1>4, <1>5, <1>6

\* del_timer() links the k-th out.
LEMMA DelTimerIs ==
  ASSUME NEW l, NEW q, Links(l, q), NEW k \in 1 .. Len(q)
  PROVE  Unlinked(DelTimer(l, q[k]), l, q, k)
<1> DEFINE t == q[k]
           p == Nth(q, k - 1)
           n == Nth(q, k + 1)
<1>1. /\ q \in Seq(Timers) /\ IsInjective(q) /\ l \in ListRecords
      /\ Len(q) \in Nat /\ DOMAIN q = 1 .. Len(q)
      /\ \A i \in 1 .. Len(q) : q[i] \in Timers
  BY DEF Links
<1>2. /\ t \in Timers /\ l.next[t] = n /\ l.prev[t] = p
      /\ (k = Len(q) => n = NULL) /\ (k # Len(q) => n \in Timers)
      /\ (k = 1 => p = NULL) /\ (k # 1 => p \in Timers)
      /\ (t = l.head <=> k = 1) /\ (t = l.tail <=> k = Len(q))
  BY NodeIs
<1>3. /\ l.next \in [Timers -> Pointers] /\ l.prev \in [Timers -> Pointers]
      /\ l.head \in Pointers /\ l.tail \in Pointers /\ NULL \in Pointers
      /\ Timers \subseteq Pointers
  BY <1>1 DEF ListRecords, Pointers
<1>4. \A i \in DOMAIN q : (q[i] = n <=> i = k + 1) /\ (q[i] = p <=> i = k - 1)
  BY <1>1, NthIs
<1>5. \A u \in Timers \ ToSet(q) : u # n /\ u # p
  <2>1. \A i \in DOMAIN q : q[i] \in ToSet(q)
    BY DEF ToSet
  <2> QED
    BY <2>1, ListAssumption DEF Nth
<1>6. k \in DOMAIN q /\ Len(q) # 0
  BY <1>1
<1> HIDE DEF t, p, n
<1>7. PICK m : m = DelTimer(l, t)
  OBVIOUS
<1>8. CASE k = 1 /\ k = Len(q)
  <2>1. m = [l EXCEPT !.head = NULL, !.tail = NULL]
    BY <1>2, <1>7, <1>8 DEF DelTimer
  <2>2. m \in ListRecords /\ m.head = NULL /\ m.next = l.next /\ m.prev = l.prev
    BY <1>1, <1>3, <2>1 DEF ListRecords
  <2>3. Nth(q, 2) = NULL /\ Len(q) = 1 /\ \A i \in DOMAIN q : i = k
    BY <1>1, <1>8 DEF Nth
  <2> QED
    BY <1>7, <1>8, <2>2, <2>3 DEF Unlinked, Untouched, t
<1>9. CASE k = 1 /\ k # Len(q)
  <2>1. m = [l EXCEPT !.head = n, !.prev = [l.prev EXCEPT ![n] = NULL]]
    BY <1>2, <1>7, <1>9 DEF DelTimer
  <2>2. [l.prev EXCEPT ![n] = NULL] \in [Timers -> Pointers] /\ n \in Pointers
    BY <1>2, <1>3, <1>9
  <2>3. /\ m \in ListRecords /\ m.head = n /\ m.tail = l.tail /\ m.next = l.next
        /\ m.prev = [l.prev EXCEPT ![n] = NULL]
    BY <1>1, <1>3, <2>1, <2>2 DEF ListRecords
  <2>4. \A u \in Timers : m.prev[u] = IF u = n THEN NULL ELSE l.prev[u]
    BY <1>3, <2>3
  <2>5. Untouched(m, l, ToSet(q))
    BY <1>5, <2>3, <2>4 DEF Untouched
  <2>6. n = Nth(q, 2) /\ \A i \in DOMAIN q : i # k - 1
    BY <1>1, <1>9 DEF n
  <2>7. \A i \in DOMAIN q : m.prev[q[i]] = IF i = k + 1 THEN p ELSE l.prev[q[i]]
    BY <1>1, <1>2, <1>4, <1>9, <2>4
  <2> QED
    BY <1>7, <1>9, <2>3, <2>5, <2>6, <2>7 DEF Unlinked, t, p
<1>10. CASE k # 1 /\ k = Len(q)
  <2>1. m = [l EXCEPT !.tail = p, !.next = [l.next EXCEPT ![p] = NULL]]
    BY <1>2, <1>7, <1>10 DEF DelTimer
  <2>2. [l.next EXCEPT ![p] = NULL] \in [Timers -> Pointers] /\ p \in Pointers
    BY <1>2, <1>3, <1>10
  <2>3. /\ m \in ListRecords /\ m.head = l.head /\ m.tail = p /\ m.prev = l.prev
        /\ m.next = [l.next EXCEPT ![p] = NULL]
    BY <1>1, <1>3, <2>1, <2>2 DEF ListRecords
  <2>4. \A u \in Timers : m.next[u] = IF u = p THEN NULL ELSE l.next[u]
    BY <1>3, <2>3
  <2>5. Untouched(m, l, ToSet(q))
    BY <1>5, <2>3, <2>4 DEF Untouched
  <2>6. \A i \in DOMAIN q : i # k + 1
    BY <1>1, <1>10
  <2>7. \A i \in DOMAIN q : m.next[q[i]] = IF i = k - 1 THEN n ELSE l.next[q[i]]
    BY <1>1, <1>2, <1>4, <1>10, <2>4
  <2> QED
    BY <1>7, <1>10, <2>3, <2>5, <2>6, <2>7 DEF Unlinked, t, p, n
<1>11. CASE k # 1 /\ k # Len(q)
  <2>1. m = [l EXCEPT !.next = [l.next EXCEPT ![p] = n], !.prev = [l.prev EXCEPT ![n] = p]]
    BY <1>2, <1>7, <1>11 DEF DelTimer
  <2>2. /\ [l.next EXCEPT ![p] = n] \in [Timers -> Pointers]
        /\ [l.prev EXCEPT ![n] = p] \in [Timers -> Pointers]
    BY <1>2, <1>3, <1>11
  <2>3. /\ m \in ListRecords /\ m.head = l.head /\ m.tail = l.tail
        /\ m.next = [l.next EXCEPT ![p] = n] /\ m.prev = [l.prev EXCEPT ![n] = p]
    BY <1>1, <1>3, <2>1, <2>2 DEF ListRecords
  <2>4. \A u \in Timers : /\ m.next[u] = IF u = p THEN n ELSE l.next[u]
                          /\ m.prev[u] = IF u = n THEN p ELSE l.prev[u]
    BY <1>3, <2>3
  <2>5. Untouched(m, l, ToSet(q))
    BY <1>5, <2>4 DEF Untouched
  <2>6. \A i \in DOMAIN q : /\ m.next[q[i]] = IF i = k - 1 THEN n ELSE l.next[q[i]]
                            /\ m.prev[q[i]] = IF i = k + 1 THEN p ELSE l.prev[q[i]]
    BY <1>1, <1>4, <2>4
  <2> QED
    BY <1>7, <1>11, <2>3, <2>5, <2>6 DEF Unlinked, t, p, n
<1> QED
  BY <1>8, <1>9, <1>10, <1>11

\* adjust_timer() leaves a timer that expires before the next one where it is, and
\* links any other out and in again further back.
LEMMA AdjustTimerIs ==
  ASSUME NEW l, NEW q, Links(l, q), NEW key \in [Timers -> Nat], NEW k \in 1 .. Len(q),
         NEW r \in Seq(Timers), WithoutNth(r, q, Len(q), k)
  PROVE  \/ /\ AdjustTimer(l, key, q[k]) = l
            /\ k # Len(q) => key[q[k]] < key[q[k + 1]]
         \/ /\ k # Len(q)
            /\ \E m : /\ Unlinked(m, l, q, k)
                      /\ \E j \in k .. Len(r) :
                           /\ LinkedIn(AdjustTimer(l, key, q[k]), m, r, j, q[k])
                           /\ key[r[j]] <= key[q[k]]
                           /\ j # Len(r) => key[q[k]] < key[r[j + 1]]
<1> DEFINE t == q[k]
           p == Nth(q, k - 1)
           n == Nth(q, k + 1)
<1>1. /\ q \in Seq(Timers) /\ IsInjective(q) /\ l \in ListRecords
      /\ Len(q) \in Nat /\ DOMAIN q = 1 .. Len(q)
      /\ \A i \in 1 .. Len(q) : q[i] \in Timers
  BY DEF Links
<1>2. /\ t \in Timers /\ l.next[t] = n /\ l.prev[t] = p
      /\ (k = Len(q) => n = NULL)
      /\ (k # Len(q) => n \in Timers /\ n = q[k + 1] /\ k + 1 \in DOMAIN q)
      /\ (k = 1 => p = NULL) /\ (k # 1 => p \in Timers)
      /\ (t = l.head <=> k = 1) /\ (t = l.tail <=> k = Len(q))
  BY NodeIs
<1>3. /\ l.next \in [Timers -> Pointers] /\ l.prev \in [Timers -> Pointers]
      /\ l.head \in Pointers /\ l.tail \in Pointers /\ NULL \in Pointers
      /\ Timers \subseteq Pointers
  BY <1>1 DEF ListRecords, Pointers
<1>4. \A i \in DOMAIN q : (q[i] = n <=> i = k + 1) /\ (q[i] = p <=> i = k - 1)
  BY <1>1, NthIs
<1>5. \A u \in Timers \ ToSet(q) : u # n /\ u # p /\ u # t
  <2>1. k \in DOMAIN q /\ \A i \in DOMAIN q : q[i] \in ToSet(q)
    BY <1>1 DEF ToSet
  <2> QED
    BY <2>1, ListAssumption DEF Nth
<1>6. k \in DOMAIN q /\ Len(q) # 0 /\ \A i \in DOMAIN q : q[i] = t => i = k
  BY <1>1 DEF IsInjective
<1> HIDE DEF t, p, n
<1>7. CASE n = NULL
  <2>1. k = Len(q)
    BY <1>2, <1>7, ListAssumption
  <2> QED
    BY <1>2, <1>7, <2>1 DEF AdjustTimer, t
<1>8. CASE n # NULL /\ key[t] < key[n]
  BY <1>2, <1>8 DEF AdjustTimer, t
<1>9. CASE n # NULL /\ ~(key[t] < key[n])
  <2>1. k # Len(q) /\ n \in Timers /\ n = q[k + 1] /\ k + 1 \in DOMAIN q
    BY <1>2, <1>9
  <2>2. PICK m : m = IF t = l.head
                     THEN [l EXCEPT !.head = n, !.prev = [l.prev EXCEPT ![n] = NULL],
                                    !.next = [l.next EXCEPT ![t] = NULL]]
                     ELSE [l EXCEPT !.next = [l.next EXCEPT ![p] = n],
                                    !.prev = [l.prev EXCEPT ![n] = p]]
    OBVIOUS
  <2>3. AdjustTimer(l, key, t) = InsertAfter(m, key, t, n)
    BY <1>2, <1>9, <2>2 DEF AdjustTimer
  <2>4. Unlinked(m, l, q, k)
    <3>1. CASE k = 1
      <4>1. m = [l EXCEPT !.head = n, !.prev = [l.prev EXCEPT ![n] = NULL],
                          !.next = [l.next EXCEPT ![t] = NULL]]
        BY <1>2, <2>2, <3>1
      <4>2. /\ [l.prev EXCEPT ![n] = NULL] \in [Timers -> Pointers] /\ n \in Pointers
            /\ [l.next EXCEPT ![t] = NULL] \in [Timers -> Pointers]
        BY <1>2, <1>3, <2>1
      <4>3. /\ m \in ListRecords /\ m.head = n /\ m.tail = l.tail
            /\ m.next = [l.next EXCEPT ![t] = NULL]
            /\ m.prev = [l.prev EXCEPT ![n] = NULL]
        BY <1>1, <1>3, <4>1, <4>2 DEF ListRecords
      <4>4. \A u \in Timers : /\ m.prev[u] = IF u = n THEN NULL ELSE l.prev[u]
                              /\ m.next[u] = IF u = t THEN NULL ELSE l.next[u]
        BY <1>3, <4>3
      <4>5. Untouched(m, l, ToSet(q))
        BY <1>5, <4>4 DEF Untouched
      <4>6. n = Nth(q, 2) /\ \A i \in DOMAIN q : i # k - 1
        BY <1>1, <3>1 DEF n
      <4>7. \A i \in DOMAIN q : /\ m.prev[q[i]] = IF i = k + 1 THEN p ELSE l.prev[q[i]]
                                /\ i # k => m.next[q[i]] = l.next[q[i]]
        BY <1>1, <1>2, <1>4, <1>6, <3>1, <4>4
      <4> QED
        BY <2>1, <3>1, <4>3, <4>5, <4>6, <4>7 DEF Unlinked, p
    <3>2. CASE k # 1
      <4>1. m = [l EXCEPT !.next = [l.next EXCEPT ![p] = n], !.prev = [l.prev EXCEPT ![n] = p]]
        BY <1>2, <2>2, <3>2
      <4>2. /\ [l.next EXCEPT ![p] = n] \in [Timers -> Pointers]
            /\ [l.prev EXCEPT ![n] = p] \in [Timers -> Pointers]
        BY <1>2, <1>3, <2>1, <3>2
      <4>3. /\ m \in ListRecords /\ m.head = l.head /\ m.tail = l.tail
            /\ m.next = [l.next EXCEPT ![p] = n] /\ m.prev = [l.prev EXCEPT ![n] = p]
        BY <1>1, <1>3, <4>1, <4>2 DEF ListRecords
      <4>4. \A u \in Timers : /\ m.next[u] = IF u = p THEN n ELSE l.next[u]
                              /\ m.prev[u] = IF u = n THEN p ELSE l.prev[u]
        BY <1>3, <4>3
      <4>5. Untouched(m, l, ToSet(q))
        BY <1>5, <4>4 DEF Untouched
      <4>6. \A i \in DOMAIN q : /\ m.next[q[i]] = IF i = k - 1 THEN n ELSE l.next[q[i]]
                                /\ m.prev[q[i]] = IF i = k + 1 THEN p ELSE l.prev[q[i]]
        BY <1>1, <1>4, <4>4
      <4> QED
        BY <2>1, <3>2, <4>3, <4>5, <4>6 DEF Unlinked, p, n
    <3> QED
      BY <3>1, <3>2
  <2>5. Links(m, r) /\ ToSet(r) = ToSet(q) \ {q[k]}
    BY <2>4, LinkOut
  <2>6. k \in 1 .. Len(r) /\ r[k] = n
    <3>1. PICK a \in Nat : a = Len(q)
      BY <1>1
    <3>2. k \in 1 .. a /\ k # a /\ DOMAIN r = 1 .. a - 1
      BY <2>1, <3>1 DEF WithoutNth
    <3>3. k \in 1 .. a - 1
      BY <3>2
    <3>4. r[k] = q[k + 1]
      BY <3>1, <3>3 DEF WithoutNth
    <3> QED
      BY <2>1, <3>2, <3>3, <3>4
  <2>7. PICK j \in k .. Len(r) :
          /\ LinkedIn(InsertAfter(m, key, t, r[k]), m, r, j, t)
          /\ \A i \in k + 1 .. j : key[r[i]] <= key[t]
          /\ j # Len(r) => key[t] < key[r[j + 1]]
    <3>1. t \notin ToSet(r)
      BY <2>5 DEF t
    <3> QED
      BY <1>2, <2>5, <2>6, <3>1, InsertAfterIs
  <2>8. key[r[j]] <= key[t]
    <3>1. key[n] \in Nat /\ key[t] \in Nat /\ key[n] <= key[t]
      BY <1>2, <1>9, <2>1
    <3>2. j = k \/ j \in k + 1 .. j
      BY <2>6
    <3> QED
      BY <2>6, <2>7, <3>1, <3>2
  <2> QED
    BY <2>1, <2>3, <2>4, <2>6, <2>7, <2>8 DEF t
<1> QED
  BY <1>7, <1>8, <1>9

\* tick() goes through the first nodes, those before the first that is not due.
LEMMA ExpiredIs ==
  ASSUME NEW l, NEW q, Links(l, q), NEW key \in [Timers -> Nat], NEW cur \in Nat
  PROVE  \E n \in 0 .. Len(q) :
           /\ Expired(l, key, cur) = SubSeq(q, 1, n)
           /\ \A i \in 1 .. n : key[q[i]] <= cur
           /\ n # Len(q) => cur < key[q[n + 1]]
<1>1. q \in Seq(Timers) /\ Len(q) \in Nat /\ DOMAIN q = 1 .. Len(q)
  BY DEF Links
<1>2. \A i \in 1 .. Len(q) : key[q[i]] \in Nat
  BY <1>1
<1> DEFINE waiting == {i \in DOMAIN q : cur < key[q[i]]}
           S == waiting \cup {Len(q) + 1}
<1>3. Expired(l, key, cur) = SubSeq(q, 1, Min(S) - 1)
  BY OrderIs, Zenon DEF Expired
<1>4. Min(S) \in S /\ \A i \in S : Min(S) <= i
  <2>1. S \in SUBSET Nat /\ Len(q) + 1 \in S
    BY <1>1
  <2> HIDE DEF S
  <2> QED
    BY <2>1, MinIs
<1>5. PICK a : a = Min(S)
  OBVIOUS
<1>6. /\ a \in 1 .. Len(q) + 1 /\ (a # Len(q) + 1 => cur < key[q[a]])
      /\ \A i \in DOMAIN q : cur < key[q[i]] => a <= i
  BY <1>1, <1>4, <1>5
<1> HIDE DEF S
<1>7. \A i \in 1 .. a - 1 : key[q[i]] <= cur
  BY <1>1, <1>2, <1>6
<1>8. a - 1 \in 0 .. Len(q) /\ (a - 1 # Len(q) => cur < key[q[(a - 1) + 1]])
  BY <1>1, <1>6
<1> QED
  BY <1>3, <1>5, <1>7, <1>8

\* tick() cuts them off.
LEMMA AfterTickIs ==
  ASSUME NEW l, NEW q, Links(l, q), NEW n \in 0 .. Len(q)
  PROVE  CutOff(AfterTick(l, SubSeq(q, 1, n)), l, q, n)
<1>1. /\ q \in Seq(Timers) /\ IsInjective(q) /\ l \in ListRecords /\ l.head = Nth(q, 1)
      /\ Len(q) \in Nat /\ DOMAIN q = 1 .. Len(q)
      /\ \A i \in 1 .. Len(q) : q[i] \in Timers
      /\ \A i \in DOMAIN q : l.next[q[i]] = Nth(q, i + 1) /\ l.prev[q[i]] = Nth(q, i - 1)
  BY DEF Links
<1>2. PICK x : x = SubSeq(q, 1, n)
  OBVIOUS
<1>3. x \in Seq(Timers) /\ Len(x) = n /\ \A i \in 1 .. n : x[i] = q[i]
  <2>1. 1 \in Nat /\ 1 <= 1 /\ 1 <= n + 1 /\ (n - 1) + 1 = n
    BY <1>1
  <2>2. /\ SubSeq(q, 1, n) \in Seq(Timers) /\ Len(SubSeq(q, 1, n)) = (n - 1) + 1
        /\ \A i \in 1 .. (n - 1) + 1 : SubSeq(q, 1, n)[i] = q[(1 - 1) + i]
    BY <1>1, <2>1, Cut
  <2> QED
    BY <1>2, <2>1, <2>2
<1>4. PICK m : m = AfterTick(l, x)
  OBVIOUS
<1>5. CASE n = 0
  <2>1. m = l
    BY <1>3, <1>4, <1>5 DEF AfterTick
  <2>2. \A i \in DOMAIN q : i = n + 1 => l.prev[q[i]] = NULL
    BY <1>1, <1>5 DEF Nth
  <2> QED
    BY <1>1, <1>2, <1>4, <1>5, <2>1, <2>2 DEF CutOff, Untouched
<1>6. CASE n # 0
  <2>1. n \in DOMAIN q /\ x # <<>> /\ Last(x) = q[n]
    <3>1. n \in 1 .. n /\ n \in 1 .. Len(q)
      BY <1>1, <1>6
    <3> QED
      BY <1>1, <1>3, <1>6, <3>1 DEF Last
  <2> DEFINE h == Nth(q, n + 1)
  <2>2. l.next[Last(x)] = h
    BY <1>1, <2>1
  <2>3. m = IF h = NULL THEN [l EXCEPT !.head = NULL]
            ELSE [l EXCEPT !.head = h, !.prev = [l.prev EXCEPT ![h] = NULL]]
    BY <1>4, <2>1, <2>2 DEF AfterTick
  <2>4. \A i \in DOMAIN q : q[i] = h <=> i = n + 1
    BY <1>1, NthIs
  <2>5. \A u \in Timers \ ToSet(q) : u # h
    <3>1. \A i \in DOMAIN q : q[i] \in ToSet(q)
      BY DEF ToSet
    <3> QED
      BY <3>1, ListAssumption DEF Nth
  <2>6. h # NULL => h \in Timers
    BY <1>1 DEF Nth
  <2>7. \A i \in DOMAIN q : q[i] # NULL
    BY <1>1, ListAssumption
  <2> HIDE DEF h
  <2>8. l.prev \in [Timers -> Pointers] /\ NULL \in Pointers /\ Timers \subseteq Pointers
    BY <1>1 DEF ListRecords, Pointers
  <2>9. /\ m \in ListRecords /\ m.head = h /\ m.tail = l.tail /\ m.next = l.next
        /\ \A u \in Timers : m.prev[u] = IF u = h THEN NULL ELSE l.prev[u]
    <3>1. CASE h = NULL
      <4>1. m = [l EXCEPT !.head = NULL]
        BY <2>3, <3>1
      <4>2. /\ m \in ListRecords /\ m.head = h /\ m.tail = l.tail /\ m.next = l.next
            /\ m.prev = l.prev
        BY <1>1, <2>8, <3>1, <4>1 DEF ListRecords
      <4> QED
        BY <3>1, <4>2, ListAssumption
    <3>2. CASE h # NULL
      <4>1. m = [l EXCEPT !.head = h, !.prev = [l.prev EXCEPT ![h] = NULL]]
        BY <2>3, <3>2
      <4>2. h \in Timers /\ h \in Pointers /\ [l.prev EXCEPT ![h] = NULL] \in [Timers -> Pointers]
        BY <2>6, <2>8, <3>2
      <4>3. /\ m \in ListRecords /\ m.head = h /\ m.tail = l.tail /\ m.next = l.next
            /\ m.prev = [l.prev EXCEPT ![h] = NULL]
        BY <1>1, <4>1, <4>2 DEF ListRecords
      <4> QED
        BY <2>8, <4>2, <4>3
    <3> QED
      BY <3>1, <3>2
  <2>10. Untouched(m, l, ToSet(q))
    BY <2>5, <2>9 DEF Untouched
  <2>11. \A i \in DOMAIN q : /\ m.next[q[i]] = l.next[q[i]]
                             /\ m.prev[q[i]] = IF i = n + 1 THEN NULL ELSE l.prev[q[i]]
    BY <1>1, <2>4, <2>9
  <2> QED
    BY <1>2, <1>4, <2>9, <2>10, <2>11 DEF CutOff, h
<1> QED
  BY <1>5, <1>6

-----------------------------------------------------------------------------
(* The list as a queue by expiry.                                          *)

\* The pointers l are those of the list q of the timers a, and what was deleted
\* holds none.
ListState(l, q, a) ==
  /\ Links(l, q) /\ ToSet(q) = a
  /\ \A u \in Timers \ a : l.next[u] = NULL /\ l.prev[u] = NULL

\* The inductive invariant of TimerList.  That a list is sorted is claimed only
\* while the clock has not been set back.
ListIInv ==
  /\ expire \in [Timers -> Times] /\ setBack \in BOOLEAN
  /\ ListState(lst, Order, allocated)
  /\ ~setBack => Sorted(Order, expire)

\* The expiry times as TimerQueue has them.
ExpiryOf(q, key) == [t \in ToSet(q) |-> key[t]]

\* A place in the queue is the number of those due by then.
LEMMA PlaceIs ==
  ASSUME NEW q, NEW key, NEW t, NEW j \in Nat, DueBy(q, key, key[t]) = 1 .. j
  PROVE  Place(q, key, t) = InsertAt(q, j + 1, t)
<1>1. Cardinality(1 .. j) = j
  BY FS_Interval, 1 \in Int, j \in Int
<1> QED
  BY <1>1 DEF Place

\* Without() takes out the one timer that is t.
LEMMA WithoutIs ==
  ASSUME NEW q, IsInjective(q), NEW k \in DOMAIN q
  PROVE  Without(q, q[k]) = RemoveAt(q, k)
<1>1. k = CHOOSE i \in DOMAIN q : q[i] = q[k]
  BY DEF IsInjective
<1> QED
  BY <1>1 DEF Without

\* Which are due depends on the keys of the members only.
LEMMA SameDue ==
  ASSUME NEW q, NEW key, NEW c, \A i \in DOMAIN q : key[q[i]] = c[q[i]], NEW e
  PROVE  DueBy(q, key, e) = DueBy(q, c, e)
BY Zenon DEF DueBy

\* ... and so does whether it is sorted.
LEMMA SameSorted ==
  ASSUME NEW q, NEW key, NEW c, \A i \in DOMAIN q : key[q[i]] = c[q[i]], Sorted(q, key)
  PROVE  Sorted(q, c)
BY DEF Sorted

\* A timer that is taken out and put back where it was.
LEMMA PutBack ==
  ASSUME NEW q \in Seq(Timers), NEW k \in 1 .. Len(q), NEW r \in Seq(Timers),
         WithoutNth(r, q, Len(q), k), k - 1 \in 0 .. Len(r)
  PROVE  InsertAt(r, (k - 1) + 1, q[k]) = q
<1>1. PICK a \in Nat : a = Len(q)
  OBVIOUS
<1>2. /\ k \in 1 .. a /\ a - 1 \in Nat /\ DOMAIN q = 1 .. a /\ q[k] \in Timers
      /\ DOMAIN r = 1 .. a - 1
      /\ \A i \in 1 .. a - 1 : r[i] = IF i < k THEN q[i] ELSE q[i + 1]
  BY <1>1 DEF WithoutNth
<1>3. Len(r) = a - 1
  BY <1>2
<1>4. PICK s : s = InsertAt(r, (k - 1) + 1, q[k])
  OBVIOUS
<1>5. /\ s \in Seq(Timers)
      /\ DOMAIN s = 1 .. (a - 1) + 1
      /\ \A i \in 1 .. (a - 1) + 1 :
           s[i] = IF i <= k - 1 THEN r[i] ELSE IF i = (k - 1) + 1 THEN q[k] ELSE r[i - 1]
  <2>1. s \in Seq(Timers) /\ WithBehind(s, r, Len(r), k - 1, q[k])
    BY <1>2, <1>4, InsertAtIs
  <2> QED
    BY <1>3, <2>1 DEF WithBehind
<1>6. (a - 1) + 1 = a
  OBVIOUS
<1>7. Len(s) = a
  BY <1>5, <1>6
<1>8. ASSUME NEW i \in 1 .. a PROVE s[i] = q[i]
  <2>1. CASE i < k
    BY <1>2, <1>5, <1>6, <2>1
  <2>2. CASE i = k
    BY <1>2, <1>5, <1>6, <2>2
  <2>3. CASE i > k
    <3>1. i - 1 \in 1 .. a - 1 /\ ~(i - 1 < k) /\ (i - 1) + 1 = i
      BY <1>2, <2>3
    <3> QED
      BY <1>2, <1>5, <1>6, <2>3, <3>1
  <2> QED
    BY <1>2, <2>1, <2>2, <2>3
<1> QED
  BY <1>1, <1>4, <1>5, <1>7, <1>8, SeqEqual

\* The operators on sequences are the same in TimerQueue.
LEMMA SameOperators ==
  ASSUME NEW q, NEW key, NEW t, NEW S
  PROVE  /\ Abstract!ToSet(q) = ToSet(q)
         /\ Abstract!DueBy(q, key, t) = DueBy(q, key, t)
         /\ Abstract!Place(q, key, t) = Place(q, key, t)
         /\ Abstract!Without(q, t) = Without(q, t)
         /\ Abstract!Restrict(key, S) = Restrict(key, S)
<1>1. Abstract!ToSet(q) = ToSet(q)
  BY DEF Abstract!ToSet, ToSet
<1>2. \A k, e : Abstract!DueBy(q, k, e) = DueBy(q, k, e)
  BY Zenon DEF Abstract!DueBy, DueBy
<1>3. \A i : Abstract!InsertAt(q, i, t) = InsertAt(q, i, t)
  BY Zenon DEF Abstract!InsertAt, InsertAt
<1>4. \A i : Abstract!RemoveAt(q, i) = RemoveAt(q, i)
  BY Zenon DEF Abstract!RemoveAt, RemoveAt
<1>4a. \A D : Abstract!Cardinality(D) = Cardinality(D)
  BY Zenon DEF Abstract!Cardinality, Cardinality
<1>5. Abstract!Place(q, key, t) = Place(q, key, t)
  BY <1>2, <1>3, <1>4a, Zenon DEF Abstract!Place, Place
<1>6. Abstract!Without(q, t) = Without(q, t)
  BY <1>4, Zenon DEF Abstract!Without, Without
<1>7. Abstract!Restrict(key, S) = Restrict(key, S)
  BY Zenon DEF Abstract!Restrict, Restrict
<1> QED
  BY <1>1, <1>2, <1>5, <1>6, <1>7

\* What ListIInv says of the variables.
LEMMA ListFacts ==
  ASSUME ListIInv
  PROVE  /\ expire \in [Timers -> Nat] /\ 0 \in Times /\ Times \subseteq Nat
         /\ Links(lst, Order) /\ ToSet(Order) = allocated
         /\ Order \in Seq(Timers) /\ IsInjective(Order)
         /\ Len(Order) \in Nat /\ DOMAIN Order = 1 .. Len(Order)
         /\ \A u \in Timers \ allocated : lst.next[u] = NULL /\ lst.prev[u] = NULL
<1>1. /\ Links(lst, Order) /\ ToSet(Order) = allocated
      /\ \A u \in Timers \ allocated : lst.next[u] = NULL /\ lst.prev[u] = NULL
  BY DEF ListIInv, ListState
<1>2. Order \in Seq(Timers) /\ IsInjective(Order)
  BY <1>1 DEF Links
<1>3. Len(Order) \in Nat /\ DOMAIN Order = 1 .. Len(Order)
  BY <1>2
<1>4. expire \in [Timers -> Nat]
  BY ListAssumption DEF ListIInv
<1> QED
  BY <1>1, <1>2, <1>3, <1>4, ListAssumption

\* new and add_timer(): the timer is in its place in the queue.
LEMMA AddStep ==
  ASSUME ListIInv, NEW t \in Timers, NEW e \in Times, Add(t, e)
  PROVE  ListIInv' /\ (setBack' \/ Abstract!Add(t, e))
<1>1. PICK q : q = Order
  OBVIOUS
<1>2. PICK n \in Nat : n = Len(q)
  BY <1>1, ListFacts
<1>3. /\ Links(lst, q) /\ ToSet(q) = allocated /\ q \in Seq(Timers) /\ IsInjective(q)
      /\ DOMAIN q = 1 .. n /\ expire \in [Timers -> Nat] /\ Times \subseteq Nat
      /\ \A u \in Timers \ allocated : lst.next[u] = NULL /\ lst.prev[u] = NULL
      /\ \A i \in DOMAIN q : q[i] \in Timers
  BY <1>1, <1>2, ListFacts
<1>4. PICK key : key = expire'
  OBVIOUS
<1>5. /\ key \in [Timers -> Times] /\ key \in [Timers -> Nat]
      /\ key[t] = e /\ \A u \in Timers : u # t => key[u] = expire[u]
      /\ key[t] \in Nat
  BY <1>3, <1>4 DEF Add, SetExpire, ListIInv
<1>6. t \notin ToSet(q) /\ lst.next[t] = NULL /\ lst.prev[t] = NULL
  BY <1>3 DEF Add
<1>7. PICK m : m = lst' /\ m = AddTimer(lst, key, t)
  BY <1>4 DEF Add
<1>8. PICK j \in 0 .. n :
        LinkedIn(m, lst, q, j, t) /\ (Sorted(q, key) => DueBy(q, key, key[t]) = 1 .. j)
  BY <1>2, <1>3, <1>5, <1>6, <1>7, AddTimerIs
<1>9. PICK r : r = InsertAt(q, j + 1, t)
  OBVIOUS
<1>10. r \in Seq(Timers) /\ WithBehind(r, q, Len(q), j, t)
  BY <1>2, <1>3, <1>9, InsertAtIs
<1>11. Links(m, r) /\ ToSet(r) = allocated \cup {t}
  BY <1>2, <1>3, <1>6, <1>8, <1>10, LinkIn
<1>12. Order' = r
  <2>1. Chain(m, m.head) = r
    BY <1>11, OrderIs
  <2> QED
    BY <1>7, <2>1 DEF Order
<1>13. ListState(lst', Order', allocated')
  <2>1. allocated' = allocated \cup {t}
    BY DEF Add
  <2>2. \A u \in Timers \ (allocated \cup {t}) : m.next[u] = NULL /\ m.prev[u] = NULL
    BY <1>3, <1>8 DEF LinkedIn, Untouched
  <2> QED
    BY <1>7, <1>11, <1>12, <2>1, <2>2 DEF ListState
<1>14. \A i \in DOMAIN q : q[i] # t /\ expire[q[i]] = key[q[i]]
  BY <1>3, <1>5, <1>6 DEF ToSet
<1>15. ~setBack => Sorted(q, key) /\ Sorted(r, key)
  <2>1. ~setBack => Sorted(q, expire)
    BY <1>1 DEF ListIInv
  <2>2. Sorted(q, expire) => Sorted(q, key)
    BY <1>14, SameSorted
  <2>3. ASSUME Sorted(q, key) PROVE Sorted(r, key)
    <3>1. DueBy(q, key, key[t]) = 1 .. j
      BY <1>8, <2>3
    <3>2. \A i \in 1 .. n : key[q[i]] \in Nat
      BY <1>3, <1>5
    <3>3. WithBehind(r, q, n, j, t)
      BY <1>2, <1>10
    <3> QED
      BY <1>3, <1>5, <2>3, <3>1, <3>2, <3>3, Inserted
  <2> QED
    BY <2>1, <2>2, <2>3
<1>16. setBack' = setBack
  BY DEF Add
<1>17. ListIInv'
  BY <1>4, <1>5, <1>12, <1>13, <1>15, <1>16 DEF ListIInv
<1>18. ASSUME ~setBack' PROVE Abstract!Add(t, e)
  <2>1. DueBy(q, key, key[t]) = 1 .. j
    BY <1>8, <1>15, <1>16, <1>18
  <2>2. PICK c : c = ExpiryOf(r, key)
    OBVIOUS
  <2>3. c = [u \in ToSet(q) \cup {t} |-> IF u = t THEN e ELSE ExpiryOf(q, expire)[u]]
    <3>1. ToSet(q) \in SUBSET Timers
      BY <1>3 DEF ToSet
    <3> QED
      BY <1>3, <1>5, <1>6, <1>11, <2>2, <3>1 DEF ExpiryOf
  <2>4. c[t] = key[t] /\ \A i \in DOMAIN q : key[q[i]] = c[q[i]]
    <3>1. t \in ToSet(r) /\ \A i \in DOMAIN q : q[i] \in ToSet(r)
      BY <1>3, <1>11 DEF ToSet
    <3> QED
      BY <2>2, <3>1 DEF ExpiryOf
  <2>5. DueBy(q, c, c[t]) = 1 .. j
    BY <2>1, <2>4, SameDue
  <2>6. Place(q, c, t) = r
    BY <1>9, <2>5, PlaceIs
  <2>7. fired' = <<>>
    BY DEF Add
  <2>8. ExpiryOf(Order', expire') = c /\ ExpiryOf(Order, expire) = ExpiryOf(q, expire)
    BY <1>1, <1>4, <1>12, <2>2
  <2>9. /\ t \notin ToSet(Order)
        /\ ExpiryOf(Order', expire')
             = [u \in ToSet(Order) \cup {t} |-> IF u = t THEN e ELSE ExpiryOf(Order, expire)[u]]
        /\ Order' = Place(Order, ExpiryOf(Order', expire'), t)
    BY <1>1, <1>6, <1>12, <2>3, <2>6, <2>8
  <2> QED
    BY <2>7, <2>9, SameOperators DEF Abstract!Add, Abstract!Set, ExpiryOf
<1> QED
  BY <1>17, <1>18

\* adjust_timer(): the timer is in its new place, unless the clock was set back.
LEMMA AdjustStep ==
  ASSUME ListIInv, NEW t \in Timers, NEW e \in Times, Adjust(t, e)
  PROVE  ListIInv' /\ (setBack' \/ Abstract!Postpone(t, e))
<1>1. PICK q : q = Order
  OBVIOUS
<1>2. PICK n \in Nat : n = Len(q)
  BY <1>1, ListFacts
<1>3. /\ Links(lst, q) /\ ToSet(q) = allocated /\ q \in Seq(Timers) /\ IsInjective(q)
      /\ DOMAIN q = 1 .. n /\ expire \in [Timers -> Nat] /\ Times \subseteq Nat
      /\ \A u \in Timers \ allocated : lst.next[u] = NULL /\ lst.prev[u] = NULL
      /\ \A i \in DOMAIN q : q[i] \in Timers
  BY <1>1, <1>2, ListFacts
<1>4. PICK key : key = expire'
  OBVIOUS
<1>5. /\ key \in [Timers -> Times] /\ key \in [Timers -> Nat]
      /\ key[t] = e /\ \A u \in Timers : u # t => key[u] = expire[u]
      /\ key[t] \in Nat /\ e \in Nat
  BY <1>3, <1>4 DEF Adjust, SetExpire, ListIInv
<1>6. PICK k \in 1 .. n : q[k] = t
  BY <1>3 DEF Adjust, ToSet
<1>7. PICK m : m = lst' /\ m = AdjustTimer(lst, key, t)
  BY <1>4 DEF Adjust
<1>8. PICK s : s = RemoveAt(q, k)
  OBVIOUS
<1>9. /\ s \in Seq(Timers) /\ WithoutNth(s, q, n, k)
      /\ IsInjective(s) /\ ToSet(s) = allocated \ {t}
      /\ \A c : Sorted(q, c) => Sorted(s, c)
  <2>1. s \in Seq(Timers) /\ WithoutNth(s, q, n, k)
    BY <1>2, <1>3, <1>8, RemoveAtIs
  <2> QED
    BY <1>3, <1>6, <2>1, Removed
<1>10. PICK a \in Nat : a = Len(s)
  BY <1>9
<1>11. /\ DOMAIN s = 1 .. a /\ a = n - 1 /\ \A i \in 1 .. a : s[i] \in Timers /\ s[i] # t
       /\ \A i \in 1 .. a : s[i] = IF i < k THEN q[i] ELSE q[i + 1]
  <2>1. DOMAIN s = 1 .. a /\ DOMAIN s = 1 .. n - 1
        /\ \A i \in 1 .. n - 1 : s[i] = IF i < k THEN q[i] ELSE q[i + 1]
    BY <1>9, <1>10 DEF WithoutNth
  <2>2. a = n - 1
    BY <2>1
  <2>3. t \notin ToSet(s)
    BY <1>9
  <2> QED
    BY <1>9, <2>1, <2>2, <2>3 DEF ToSet
<1>12. \A i \in DOMAIN s : expire[s[i]] = key[s[i]] /\ key[s[i]] \in Nat
  BY <1>5, <1>11
<1>13. setBack' = (setBack \/ e < expire[t]) /\ allocated' = allocated /\ fired' = <<>>
  BY DEF Adjust
<1>14. ~setBack' => Sorted(q, expire) /\ Sorted(s, key) /\ expire[t] <= e
  <2>1. ~setBack' => Sorted(q, expire) /\ ~(e < expire[t])
    BY <1>1, <1>13 DEF ListIInv
  <2>2. Sorted(q, expire) => Sorted(s, key)
    BY <1>9, <1>12, SameSorted
  <2>3. expire[t] \in Nat
    BY <1>3
  <2> QED
    BY <1>5, <2>1, <2>2, <2>3
<1>15. PICK j \in 0 .. a, r \in Seq(Timers) :
         /\ r = InsertAt(s, j + 1, t)
         /\ Links(m, r) /\ ToSet(r) = allocated
         /\ Untouched(m, lst, allocated)
         /\ ~setBack' => DueBy(s, key, key[t]) = 1 .. j
  <2>1. CASE m = lst /\ (k # n => key[t] < key[q[k + 1]])
    <3>1. k - 1 \in 0 .. a
      BY <1>11
    <3>2. InsertAt(s, (k - 1) + 1, t) = q
      BY <1>2, <1>3, <1>6, <1>9, <1>10, <3>1, PutBack
    <3>3. Untouched(m, lst, allocated)
      BY <2>1 DEF Untouched
    <3>4. ASSUME ~setBack' PROVE DueBy(s, key, key[t]) = 1 .. k - 1
      <4>1. Sorted(q, expire) /\ Sorted(s, key) /\ expire[t] <= e
        BY <1>14, <3>4
      <4>2. k - 1 # 0 => key[s[k - 1]] <= key[t]
        <5>1. ASSUME k - 1 # 0 PROVE key[s[k - 1]] <= key[t]
          <6>1. k - 1 \in 1 .. a /\ k - 1 < k /\ k - 1 \in DOMAIN q /\ k \in DOMAIN q
            BY <1>3, <1>11, <5>1
          <6>2. s[k - 1] = q[k - 1] /\ key[s[k - 1]] = expire[q[k - 1]]
            BY <1>11, <1>12, <6>1
          <6>3. expire[q[k - 1]] <= expire[t]
            BY <1>6, <4>1, <6>1 DEF Sorted
          <6>4. expire[q[k - 1]] \in Nat /\ expire[t] \in Nat
            BY <1>3, <6>1
          <6> QED
            BY <1>5, <4>1, <6>2, <6>3, <6>4
        <5> QED
          BY <5>1
      <4>3. k - 1 # a => key[t] < key[s[(k - 1) + 1]]
        BY <1>11, <2>1
      <4> QED
        BY <1>5, <1>11, <1>12, <3>1, <4>1, <4>2, <4>3, DueByIs
    <3> QED
      BY <1>3, <2>1, <3>1, <3>2, <3>3, <3>4
  <2>2. CASE \E l : /\ Unlinked(l, lst, q, k)
                    /\ \E j \in k .. a : /\ LinkedIn(m, l, s, j, t)
                                         /\ key[s[j]] <= key[t]
                                         /\ j # a => key[t] < key[s[j + 1]]
    <3>1. PICK l : /\ Unlinked(l, lst, q, k)
                   /\ \E j \in k .. a : /\ LinkedIn(m, l, s, j, t)
                                        /\ key[s[j]] <= key[t]
                                        /\ j # a => key[t] < key[s[j + 1]]
      BY <2>2
    <3>2. PICK j \in 0 .. a : /\ LinkedIn(m, l, s, j, t)
                              /\ key[s[j]] <= key[t]
                              /\ j # a => key[t] < key[s[j + 1]]
      BY <3>1
    <3>3. Links(l, s)
      BY <1>2, <1>3, <1>9, <3>1, LinkOut
    <3>4. PICK r : r = InsertAt(s, j + 1, t)
      OBVIOUS
    <3>5. r \in Seq(Timers) /\ WithBehind(r, s, a, j, t)
      BY <1>9, <1>10, <3>4, InsertAtIs
    <3>6. Links(m, r) /\ ToSet(r) = ToSet(s) \cup {t}
      BY <1>9, <1>10, <3>2, <3>3, <3>5, LinkIn
    <3>7. ToSet(r) = allocated
      BY <1>9, <3>6 DEF Adjust
    <3>8. Untouched(m, lst, allocated)
      <4>1. Untouched(l, lst, allocated)
        BY <1>3, <3>1 DEF Unlinked
      <4>2. Untouched(m, l, allocated)
        BY <1>9, <3>2, <3>6, <3>7 DEF LinkedIn
      <4> QED
        BY <4>1, <4>2 DEF Untouched
    <3>9. ASSUME ~setBack' PROVE DueBy(s, key, key[t]) = 1 .. j
      <4>1. Sorted(s, key) /\ \A i \in 1 .. a : key[s[i]] \in Nat
        BY <1>11, <1>12, <1>14, <3>9
      <4>2. (j # 0 => key[s[j]] <= key[t]) /\ (j # a => key[t] < key[s[j + 1]])
        BY <3>2
      <4>3. DOMAIN s = 1 .. a /\ key[t] \in Nat
        BY <1>5, <1>11
      <4> QED
        BY <4>1, <4>2, <4>3, DueByIs
    <3> QED
      BY <3>4, <3>5, <3>6, <3>7, <3>8, <3>9
  <2> QED
    <3>1. WithoutNth(s, q, Len(q), k) /\ k \in 1 .. Len(q)
      BY <1>2, <1>9
    <3>2. \/ /\ AdjustTimer(lst, key, q[k]) = lst
             /\ k # Len(q) => key[q[k]] < key[q[k + 1]]
          \/ /\ k # Len(q)
             /\ \E l : /\ Unlinked(l, lst, q, k)
                       /\ \E j \in k .. Len(s) :
                            /\ LinkedIn(AdjustTimer(lst, key, q[k]), l, s, j, q[k])
                            /\ key[s[j]] <= key[q[k]]
                            /\ j # Len(s) => key[q[k]] < key[s[j + 1]]
      BY <1>3, <1>5, <1>9, <3>1, AdjustTimerIs
    <3> QED
      BY <1>2, <1>6, <1>7, <1>10, <2>1, <2>2, <3>2
<1>16. Order' = r
  <2>1. Chain(m, m.head) = r
    BY <1>15, OrderIs
  <2> QED
    BY <1>7, <2>1 DEF Order
<1>17. ListState(lst', Order', allocated')
  BY <1>3, <1>7, <1>13, <1>15, <1>16 DEF ListState, Untouched
<1>18. ~setBack' => Sorted(r, key)
  <2>1. WithBehind(r, s, a, j, t)
    BY <1>9, <1>10, <1>15, InsertAtIs
  <2> QED
    BY <1>5, <1>11, <1>12, <1>14, <1>15, <2>1, Inserted
<1>19. ListIInv'
  <2>1. setBack' \in BOOLEAN
    BY <1>13
  <2> QED
    BY <1>4, <1>5, <1>16, <1>17, <1>18, <2>1 DEF ListIInv
<1>20. ASSUME ~setBack' PROVE Abstract!Postpone(t, e)
  <2>1. PICK c : c = ExpiryOf(r, key)
    OBVIOUS
  <2>2. t \in ToSet(q) /\ ToSet(q) \in SUBSET Timers
    BY <1>3 DEF Adjust, ToSet
  <2>3. c = [ExpiryOf(q, expire) EXCEPT ![t] = e]
    BY <1>3, <1>5, <1>15, <2>1, <2>2 DEF ExpiryOf
  <2>4. c[t] = key[t] /\ \A i \in DOMAIN s : key[s[i]] = c[s[i]]
    <3>1. t \in ToSet(r) /\ \A i \in DOMAIN s : s[i] \in ToSet(r)
      BY <1>3, <1>9, <1>15, <2>2 DEF ToSet
    <3> QED
      BY <2>1, <3>1 DEF ExpiryOf
  <2>5. DueBy(s, c, c[t]) = 1 .. j
    <3>1. DueBy(s, key, key[t]) = 1 .. j
      BY <1>15, <1>20
    <3> QED
      BY <2>4, <3>1, SameDue
  <2>6. Place(Without(q, t), c, t) = r
    <3>1. Without(q, t) = s
      BY <1>3, <1>6, <1>8, WithoutIs
    <3>2. Place(s, c, t) = r
      BY <1>15, <2>5, PlaceIs
    <3> QED
      BY <3>1, <3>2
  <2>7. e >= ExpiryOf(q, expire)[t]
    BY <1>3, <1>5, <1>14, <1>20, <2>2 DEF ExpiryOf
  <2>8. ExpiryOf(Order', expire') = c /\ ExpiryOf(Order, expire) = ExpiryOf(q, expire)
    BY <1>1, <1>4, <1>16, <2>1
  <2>9. /\ t \in ToSet(Order)
        /\ e >= ExpiryOf(Order, expire)[t]
        /\ ExpiryOf(Order', expire') = [ExpiryOf(Order, expire) EXCEPT ![t] = e]
        /\ Order' = Place(Without(Order, t), ExpiryOf(Order', expire'), t)
    BY <1>1, <1>16, <2>2, <2>3, <2>6, <2>7, <2>8
  <2> QED
    BY <1>13, <2>9, SameOperators DEF Abstract!Postpone, Abstract!Set, ExpiryOf
<1> QED
  BY <1>19, <1>20

\* del_timer() and delete: the timer is out of the queue.
LEMMA DelStep ==
  ASSUME ListIInv, NEW t \in Timers, Del(t)
  PROVE  ListIInv' /\ Abstract!Delete(t)
<1>1. PICK q : q = Order
  OBVIOUS
<1>2. PICK n \in Nat : n = Len(q)
  BY <1>1, ListFacts
<1>3. /\ Links(lst, q) /\ ToSet(q) = allocated /\ q \in Seq(Timers) /\ IsInjective(q)
      /\ DOMAIN q = 1 .. n /\ expire \in [Timers -> Nat] /\ 0 \in Times
      /\ \A u \in Timers \ allocated : lst.next[u] = NULL /\ lst.prev[u] = NULL
      /\ \A i \in DOMAIN q : q[i] \in Timers
  BY <1>1, <1>2, ListFacts
<1>4. PICK key : key = expire'
  OBVIOUS
<1>5. /\ allocated' = allocated \ {t} /\ fired' = <<>>
      /\ key = [u \in Timers |-> IF u \in {t} THEN 0 ELSE expire[u]]
      /\ setBack' = (setBack /\ allocated' # {})
  BY <1>4 DEF Del, Free, KeepSetBack
<1>6. PICK k \in 1 .. n : q[k] = t
  BY <1>3 DEF Del, ToSet
<1>7. PICK m : m = DelTimer(lst, t)
  OBVIOUS
<1>8. lst' = Forget(m, {t})
  BY <1>7 DEF Del, Free
<1>9. PICK r : r = RemoveAt(q, k)
  OBVIOUS
<1>10. /\ r \in Seq(Timers) /\ WithoutNth(r, q, n, k)
       /\ \A c : Sorted(q, c) => Sorted(r, c)
  <2>1. r \in Seq(Timers) /\ WithoutNth(r, q, n, k)
    BY <1>2, <1>3, <1>9, RemoveAtIs
  <2> QED
    BY <1>3, <1>6, <2>1, Removed
<1>11. Unlinked(m, lst, q, k)
  BY <1>2, <1>3, <1>6, <1>7, DelTimerIs
<1>12. Links(m, r) /\ ToSet(r) = allocated \ {t}
  BY <1>2, <1>3, <1>6, <1>10, <1>11, LinkOut
<1>13. Links(lst', r)
  BY <1>8, <1>12, ForgetLinks
<1>14. Order' = r
  <2>1. PICK l : l = lst'
    OBVIOUS
  <2>2. Chain(l, l.head) = r
    BY <1>13, <2>1, OrderIs
  <2> QED
    BY <2>1, <2>2 DEF Order
<1>15. \A u \in Timers \ (allocated \ {t}) : lst'.next[u] = NULL /\ lst'.prev[u] = NULL
  <2>1. m \in ListRecords /\ Untouched(m, lst, allocated)
    BY <1>3, <1>11 DEF Unlinked
  <2>2. \A u \in Timers :
          /\ Forget(m, {t}).next[u] = IF u = t THEN NULL ELSE m.next[u]
          /\ Forget(m, {t}).prev[u] = IF u = t THEN NULL ELSE m.prev[u]
    BY <2>1 DEF Forget, ListRecords
  <2> QED
    BY <1>3, <1>8, <2>1, <2>2 DEF Untouched
<1>16. ListState(lst', Order', allocated')
  BY <1>5, <1>12, <1>13, <1>14, <1>15 DEF ListState
<1>17. ~setBack' => Sorted(r, key)
  <2>1. CASE ~setBack
    <3>1. Sorted(r, expire)
      BY <1>1, <1>10, <2>1 DEF ListIInv
    <3>2. \A i \in DOMAIN r : expire[r[i]] = key[r[i]]
      <4>1. \A i \in DOMAIN r : r[i] \in Timers /\ r[i] # t
        <5>1. \A i \in DOMAIN r : r[i] \in Timers
          BY <1>10
        <5>2. \A i \in DOMAIN r : r[i] \in ToSet(r)
          BY Zenon DEF ToSet
        <5> QED
          BY <1>12, <5>1, <5>2
      <4> QED
        BY <1>5, <4>1
    <3> QED
      BY <3>1, <3>2, SameSorted
  <2>2. CASE allocated' = {}
    <3>1. DOMAIN r = {}
      BY <1>5, <1>12, <2>2 DEF ToSet
    <3> QED
      BY <3>1 DEF Sorted
  <2> QED
    BY <1>5, <2>1, <2>2
<1>18. ListIInv'
  <2>1. key \in [Timers -> Times] /\ setBack' \in BOOLEAN
    BY <1>3, <1>5 DEF ListIInv
  <2> QED
    BY <1>4, <1>14, <1>16, <1>17, <2>1 DEF ListIInv
<1>19. Abstract!Delete(t)
  <2>1. Without(q, t) = r
    BY <1>3, <1>6, <1>9, WithoutIs
  <2>2. ToSet(q) \in SUBSET Timers
    BY <1>3 DEF ToSet
  <2>3. ExpiryOf(r, key) = Restrict(ExpiryOf(q, expire), ToSet(q) \ {t})
    BY <1>3, <1>5, <1>12, <2>2 DEF ExpiryOf, Restrict
  <2>4. /\ t \in ToSet(Order)
        /\ Order' = Without(Order, t)
        /\ ExpiryOf(Order', expire') = Restrict(ExpiryOf(Order, expire), ToSet(Order) \ {t})
    BY <1>1, <1>3, <1>4, <1>14, <2>1, <2>3 DEF Del
  <2> QED
    BY <1>5, <2>4, SameOperators DEF Abstract!Delete, Abstract!Set, ExpiryOf
<1> QED
  BY <1>18, <1>19

\* tick(): those that are due are called back and out of the queue, unless the
\* clock was set back.
LEMMA TickStep ==
  ASSUME ListIInv, NEW cur \in Times, Tick(cur)
  PROVE  ListIInv' /\ (setBack' \/ Abstract!Tick(cur))
<1>1. PICK q : q = Order
  OBVIOUS
<1>2. PICK z \in Nat : z = Len(q)
  BY <1>1, ListFacts
<1>3. /\ Links(lst, q) /\ ToSet(q) = allocated /\ q \in Seq(Timers) /\ IsInjective(q)
      /\ DOMAIN q = 1 .. z /\ expire \in [Timers -> Nat] /\ 0 \in Times /\ cur \in Nat
      /\ \A u \in Timers \ allocated : lst.next[u] = NULL /\ lst.prev[u] = NULL
      /\ \A i \in DOMAIN q : q[i] \in Timers
  BY <1>1, <1>2, ListFacts
<1>4. PICK n \in 0 .. z :
        /\ fired' = SubSeq(q, 1, n)
        /\ \A i \in 1 .. n : expire[q[i]] <= cur
        /\ n # z => cur < expire[q[n + 1]]
  <2>1. \E n \in 0 .. Len(q) :
          /\ Expired(lst, expire, cur) = SubSeq(q, 1, n)
          /\ \A i \in 1 .. n : expire[q[i]] <= cur
          /\ n # Len(q) => cur < expire[q[n + 1]]
    BY <1>3, ExpiredIs
  <2> QED
    BY <1>2, <2>1 DEF Tick
<1>5. PICK S : S = FirstOf(q, n)
  OBVIOUS
<1>6. ToSet(fired') = S /\ S \subseteq allocated
  <2>1. 1 \in Nat /\ n \in 0 .. Len(q) /\ 1 <= 1 /\ 1 <= n + 1 /\ (n - 1) + 1 = n
    BY <1>2
  <2>2. /\ SubSeq(q, 1, n) \in Seq(Timers) /\ Len(SubSeq(q, 1, n)) = (n - 1) + 1
        /\ \A i \in 1 .. (n - 1) + 1 : SubSeq(q, 1, n)[i] = q[(1 - 1) + i]
    BY <1>3, <2>1, Cut
  <2>3. PICK x : x = SubSeq(q, 1, n)
    OBVIOUS
  <2>4. x \in Seq(Timers) /\ Len(x) = n /\ \A i \in 1 .. n : x[i] = q[i]
    BY <2>1, <2>2, <2>3
  <2>5. ToSet(x) = FirstOf(q, n)
    <3>1. DOMAIN x = 1 .. n
      BY <2>4
    <3> QED
      BY <2>4, <3>1 DEF ToSet, FirstOf
  <2>6. FirstOf(q, n) \subseteq ToSet(q)
    <3>1. 1 .. n \subseteq DOMAIN q
      BY <1>3
    <3> QED
      BY <3>1 DEF ToSet, FirstOf
  <2> QED
    BY <1>3, <1>4, <1>5, <2>3, <2>5, <2>6
<1>7. PICK key : key = expire'
  OBVIOUS
<1>8. /\ allocated' = allocated \ S
      /\ key = [u \in Timers |-> IF u \in S THEN 0 ELSE expire[u]]
      /\ setBack' = (setBack /\ allocated' # {})
  BY <1>6, <1>7 DEF Tick, Free, KeepSetBack
<1>9. PICK m : m = AfterTick(lst, SubSeq(q, 1, n))
  OBVIOUS
<1>10. lst' = Forget(m, S)
  BY <1>4, <1>6, <1>9 DEF Tick, Free
<1>11. PICK r : r = SubSeq(q, n + 1, Len(q))
  OBVIOUS
<1>12. /\ r \in Seq(Timers) /\ WithoutFirst(r, q, z, n)
       /\ ToSet(r) = allocated \ S
       /\ \A c : Sorted(q, c) => Sorted(r, c)
  <2>1. n \in 0 .. Len(q)
    BY <1>2
  <2>2. r \in Seq(Timers) /\ WithoutFirst(r, q, z, n)
    BY <1>2, <1>3, <1>11, <2>1, SubSeqIs
  <2> QED
    BY <1>3, <1>5, <2>2, RestOf
<1>13. CutOff(m, lst, q, n)
  BY <1>2, <1>3, <1>9, AfterTickIs
<1>14. Links(m, r)
  BY <1>2, <1>3, <1>12, <1>13, LinkRest
<1>15. Links(lst', r)
  <2>1. S \cap ToSet(r) = {}
    BY <1>12
  <2> QED
    BY <1>10, <1>14, <2>1, ForgetLinks
<1>16. Order' = r
  <2>1. PICK l : l = lst'
    OBVIOUS
  <2>2. Chain(l, l.head) = r
    BY <1>15, <2>1, OrderIs
  <2> QED
    BY <2>1, <2>2 DEF Order
<1>17. \A u \in Timers \ (allocated \ S) : lst'.next[u] = NULL /\ lst'.prev[u] = NULL
  <2>1. m \in ListRecords /\ Untouched(m, lst, allocated)
    BY <1>3, <1>13 DEF CutOff
  <2>2. \A u \in Timers :
          /\ Forget(m, S).next[u] = IF u \in S THEN NULL ELSE m.next[u]
          /\ Forget(m, S).prev[u] = IF u \in S THEN NULL ELSE m.prev[u]
    BY <2>1 DEF Forget, ListRecords
  <2> QED
    BY <1>3, <1>10, <2>1, <2>2 DEF Untouched
<1>18. ListState(lst', Order', allocated')
  BY <1>8, <1>12, <1>15, <1>16, <1>17 DEF ListState
<1>19. \A i \in DOMAIN r : r[i] \in Timers /\ r[i] \notin S /\ expire[r[i]] = key[r[i]]
  <2>1. \A i \in DOMAIN r : r[i] \in Timers
    BY <1>12
  <2>2. \A i \in DOMAIN r : r[i] \in ToSet(r)
    BY Zenon DEF ToSet
  <2> QED
    BY <1>8, <1>12, <2>1, <2>2
<1>20. ~setBack' => Sorted(q, expire) \/ n = z
  <2>1. CASE ~setBack
    BY <1>1, <2>1 DEF ListIInv
  <2>2. CASE allocated' = {}
    <3>1. DOMAIN r = {}
      BY <1>8, <1>12, <2>2 DEF ToSet
    <3>2. DOMAIN r = 1 .. z - n
      BY <1>12 DEF WithoutFirst
    <3>3. n # z => 1 \in 1 .. z - n
      OBVIOUS
    <3> QED
      BY <3>1, <3>2, <3>3
  <2> QED
    BY <1>8, <2>1, <2>2
<1>21. ~setBack' => Sorted(r, key)
  <2>1. CASE Sorted(q, expire)
    BY <1>12, <1>19, <2>1, SameSorted
  <2>2. CASE n = z
    <3>1. DOMAIN r = 1 .. z - n /\ 1 .. z - n = {}
      BY <1>12, <2>2 DEF WithoutFirst
    <3> QED
      BY <3>1 DEF Sorted
  <2> QED
    BY <1>20, <2>1, <2>2
<1>22. ListIInv'
  <2>1. key \in [Timers -> Times] /\ setBack' \in BOOLEAN
    BY <1>3, <1>8 DEF ListIInv
  <2> QED
    BY <1>7, <1>16, <1>18, <1>21, <2>1 DEF ListIInv
<1>23. ASSUME ~setBack' PROVE Abstract!Tick(cur)
  <2>1. DueBy(q, expire, cur) = 1 .. n
    <3>1. \A i \in 1 .. z : expire[q[i]] \in Nat
      BY <1>3
    <3>2. CASE Sorted(q, expire)
      <4>1. (n # 0 => expire[q[n]] <= cur) /\ (n # z => cur < expire[q[n + 1]])
        BY <1>4
      <4>2. DOMAIN q = 1 .. z /\ cur \in Nat
        BY <1>3
      <4> QED
        BY <3>1, <3>2, <4>1, <4>2, DueByIs
    <3>3. CASE n = z
      <4>1. \A i \in DOMAIN q : expire[q[i]] <= cur
        BY <1>3, <1>4, <3>3
      <4>2. DueBy(q, expire, cur) = DOMAIN q
        BY <4>1 DEF DueBy
      <4> QED
        BY <1>3, <3>3, <4>2
    <3> QED
      BY <1>20, <1>23, <3>2, <3>3
  <2>2. DueBy(q, ExpiryOf(q, expire), cur) = 1 .. n
    <3>1. \A i \in DOMAIN q : expire[q[i]] = ExpiryOf(q, expire)[q[i]]
      BY DEF ExpiryOf, ToSet
    <3> QED
      BY <2>1, <3>1, SameDue
  <2>3. ExpiryOf(r, key) = Restrict(ExpiryOf(q, expire), ToSet(r))
    <3>1. \A u \in ToSet(r) : u \in Timers /\ u \in ToSet(q) /\ key[u] = expire[u]
      BY <1>3, <1>8, <1>12 DEF ToSet
    <3> QED
      BY <3>1 DEF ExpiryOf, Restrict
  <2>4. /\ n \in 0 .. Len(Order)
        /\ DueBy(Order, ExpiryOf(Order, expire), cur) = 1 .. n
        /\ fired' = SubSeq(Order, 1, n)
        /\ Order' = SubSeq(Order, n + 1, Len(Order))
        /\ ExpiryOf(Order', expire') = Restrict(ExpiryOf(Order, expire), ToSet(Order'))
    BY <1>1, <1>2, <1>4, <1>7, <1>11, <1>16, <2>2, <2>3
  <2> QED
    BY <2>4, SameOperators DEF Abstract!Tick, ExpiryOf
<1> QED
  BY <1>22, <1>23

\* A list whose head is NULL is empty.
LEMMA EmptyLinks ==
  ASSUME NEW l \in ListRecords, l.head = NULL
  PROVE  Links(l, <<>>)
<1>1. <<>> \in Seq(Timers) /\ DOMAIN <<>> = {} /\ 1 \notin DOMAIN <<>>
  OBVIOUS
<1>2. IsInjective(<<>>)
  BY <1>1 DEF IsInjective
<1> QED
  BY <1>1, <1>2 DEF Links, Nth

\* ~sort_timer_lst(): no timer is left.
LEMMA DestroyStep ==
  ASSUME ListIInv, Destroy
  PROVE  ListIInv' /\ Abstract!Clear
<1>1. PICK q : q = Order
  OBVIOUS
<1>2. /\ Links(lst, q) /\ ToSet(q) = allocated /\ expire \in [Timers -> Nat] /\ 0 \in Times
      /\ \A u \in Timers \ allocated : lst.next[u] = NULL /\ lst.prev[u] = NULL
      /\ lst \in ListRecords
  BY <1>1, ListFacts DEF Links
<1>3. PICK m : m = [lst EXCEPT !.head = NULL]
  OBVIOUS
<1>4. m \in ListRecords /\ m.head = NULL /\ m.next = lst.next /\ m.prev = lst.prev
  BY <1>2, <1>3 DEF ListRecords, Pointers
<1>5. /\ lst' = Forget(m, allocated) /\ allocated' = {}
      /\ expire' = [u \in Timers |-> IF u \in allocated THEN 0 ELSE expire[u]]
  BY <1>1, <1>2, <1>3 DEF Destroy, Free, Order
<1>6. Links(lst', <<>>)
  <2>1. Links(m, <<>>)
    BY <1>4, EmptyLinks
  <2>2. allocated \cap ToSet(<<>>) = {}
    BY DEF ToSet
  <2> QED
    BY <1>5, <2>1, <2>2, ForgetLinks
<1>7. Order' = <<>>
  <2>1. PICK l : l = lst'
    OBVIOUS
  <2>2. Chain(l, l.head) = <<>>
    BY <1>6, <2>1, OrderIs
  <2> QED
    BY <2>1, <2>2 DEF Order
<1>8. \A u \in Timers : lst'.next[u] = NULL /\ lst'.prev[u] = NULL
  <2>1. \A u \in Timers :
          /\ Forget(m, allocated).next[u] = IF u \in allocated THEN NULL ELSE m.next[u]
          /\ Forget(m, allocated).prev[u] = IF u \in allocated THEN NULL ELSE m.prev[u]
    BY <1>4 DEF Forget, ListRecords
  <2> QED
    BY <1>2, <1>4, <1>5, <2>1
<1>9. ListIInv'
  <2>1. ToSet(<<>>) = {} /\ \A c : Sorted(<<>>, c)
    BY DEF ToSet, Sorted
  <2>2. expire' \in [Timers -> Times] /\ setBack' \in BOOLEAN
    BY <1>2, <1>5 DEF ListIInv, Destroy
  <2> QED
    BY <1>5, <1>6, <1>7, <1>8, <2>1, <2>2 DEF ListIInv, ListState
<1>10. ExpiryOf(Order', expire') = <<>>
  BY <1>7 DEF ExpiryOf, ToSet
<1>11. fired' = <<>>
  BY DEF Destroy
<1> QED
  BY <1>7, <1>9, <1>10, <1>11, SameOperators DEF Abstract!Clear, ExpiryOf

\* The constructor makes the empty queue.
LEMMA ListInitIInv == ListInit => ListIInv /\ Abstract!Init
<1> SUFFICES ASSUME ListInit PROVE ListIInv /\ Abstract!Init
  OBVIOUS
<1>1. lst \in ListRecords /\ lst.head = NULL
  BY DEF ListInit, ListRecords, Pointers
<1>2. Links(lst, <<>>)
  BY <1>1, EmptyLinks
<1>3. Order = <<>>
  BY <1>2, OrderIs DEF Order
<1>4. ToSet(<<>>) = {} /\ \A c : Sorted(<<>>, c)
  BY DEF ToSet, Sorted
<1>5. ListIInv
  BY <1>2, <1>3, <1>4, ListAssumption DEF ListInit, ListIInv, ListState
<1>6. ExpiryOf(Order, expire) = <<>>
  BY <1>3 DEF ExpiryOf, ToSet
<1>7. Abstract!Init
  BY <1>3, <1>6, SameOperators DEF Abstract!Init, ListInit, ExpiryOf
<1> QED
  BY <1>5, <1>7

\* Every step keeps the invariant, and is one of the queue's.
LEMMA ListNextIInv ==
  ASSUME ListIInv, [ListNext]_listVars
  PROVE  ListIInv' /\ [setBack' \/ Abstract!Next]_(Abstract!vars)
<1>1. CASE UNCHANGED listVars
  <2>1. Order' = Order
    BY <1>1 DEF listVars, Order
  <2> QED
    BY <1>1, <2>1 DEF listVars, ListIInv, Abstract!vars
<1>2. ASSUME NEW t \in Timers, NEW e \in Times, Add(t, e) \/ Adjust(t, e)
      PROVE  ListIInv' /\ (setBack' \/ Abstract!Next)
  BY <1>2, AddStep, AdjustStep DEF Abstract!Next
<1>3. ASSUME NEW t \in Timers, Del(t)
      PROVE  ListIInv' /\ (setBack' \/ Abstract!Next)
  BY <1>3, DelStep DEF Abstract!Next
<1>4. ASSUME NEW cur \in Times, Tick(cur)
      PROVE  ListIInv' /\ (setBack' \/ Abstract!Next)
  BY <1>4, TickStep DEF Abstract!Next
<1>5. ASSUME Destroy
      PROVE  ListIInv' /\ (setBack' \/ Abstract!Next)
  BY <1>5, DestroyStep DEF Abstract!Next
<1> QED
  BY <1>1, <1>2, <1>3, <1>4, <1>5 DEF ListNext

\* The pointers are those of a list of exactly the timers that are allocated.
THEOREM ListInductive == ListSpec => []ListIInv
<1>1. ListInit => ListIInv
  BY ListInitIInv
<1>2. ListIInv /\ [ListNext]_listVars => ListIInv'
  BY ListNextIInv
<1> QED
  BY <1>1, <1>2, PTL DEF ListSpec

\* No timer leaks, no pointer of the list dangles, and backwards it reads as
\* forwards, for any number of timers, whatever the clock does.
THEOREM ListIsWellFormed == ListSpec => []ListWellFormed
<1>1. ListIInv => ListWellFormed
  <2> SUFFICES ASSUME ListIInv PROVE ListWellFormed
    OBVIOUS
  <2>1. PICK q : q = Order
    OBVIOUS
  <2>2. PICK n \in Nat : n = Len(q)
    BY <2>1, ListFacts
  <2>3. /\ Links(lst, q) /\ ToSet(q) = allocated /\ q \in Seq(Timers) /\ IsInjective(q)
        /\ DOMAIN q = 1 .. n
    BY <2>1, <2>2, ListFacts
  <2>4. Len(q) = Cardinality(allocated)
    BY <2>3, LengthOfInjective
  <2>5. ASSUME q # <<>>
        PROVE  /\ lst.tail = Last(q)
               /\ lst.prev[lst.head] = NULL
               /\ \A i \in 2 .. Len(q) : lst.prev[q[i]] = q[i - 1]
    <3>1. n # 0 /\ 1 \in DOMAIN q /\ n \in DOMAIN q /\ 1 - 1 \notin DOMAIN q
      BY <2>2, <2>3, <2>5
    <3>2. lst.tail = q[n] /\ lst.head = q[1]
      BY <2>2, <2>3, <2>5, <3>1 DEF Links, Nth
    <3>3. lst.prev[q[1]] = NULL
      BY <2>3, <3>1 DEF Links, Nth
    <3>4. ASSUME NEW i \in 2 .. n PROVE lst.prev[q[i]] = q[i - 1]
      <4>1. i \in DOMAIN q /\ i - 1 \in DOMAIN q
        BY <2>3
      <4> QED
        BY <2>3, <4>1 DEF Links, Nth
    <3> QED
      BY <2>2, <3>2, <3>3, <3>4 DEF Last
  <2> QED
    BY <2>1, <2>3, <2>4, <2>5 DEF ListWellFormed
<1> QED
  BY <1>1, ListInductive, PTL

\* sort_timer_lst is a queue by expiry: a step of the list is one of TimerQueue,
\* or the clock has been set back since the list was empty.
THEOREM ListImplementsQueue == ListSpec => ImplementsTimerQueue
<1>1. ListInit => Abstract!Init
  BY ListInitIInv
<1>2. ListIInv /\ [ListNext]_listVars => [setBack' \/ Abstract!Next]_(Abstract!vars)
  BY ListNextIInv
<1> QED
  BY <1>1, <1>2, ListInductive, PTL DEF ListSpec, ImplementsTimerQueue

\* The list is in the order of expiry, unless the clock was set back.
THEOREM ListStaysInOrder == ListSpec => [](~setBack => Sorted(Order, expire))
<1>1. ListIInv => (~setBack => Sorted(Order, expire))
  BY DEF ListIInv
<1> QED
  BY <1>1, ListInductive, PTL

\* What tick() at time cur calls back: only timers that are due, and all of them
\* and in the order of their expiry unless the clock was set back.
CallsBackThoseDue(cur) ==
  /\ \A t \in ToSet(fired') : t \in allocated /\ expire[t] <= cur
  /\ ~setBack =>
       /\ \A t \in allocated : expire[t] <= cur => t \in ToSet(fired')
       /\ Sorted(fired', expire)

LEMMA TickCallsBack ==
  ASSUME ListIInv, NEW cur \in Times, Tick(cur)
  PROVE  CallsBackThoseDue(cur)
<1>1. PICK q : q = Order
  OBVIOUS
<1>2. /\ Links(lst, q) /\ ToSet(q) = allocated /\ q \in Seq(Timers)
      /\ Len(q) \in Nat /\ DOMAIN q = 1 .. Len(q)
      /\ expire \in [Timers -> Nat] /\ cur \in Nat
  BY <1>1, ListFacts
<1>2a. \A i \in DOMAIN q : expire[q[i]] \in Nat
  <2>1. \A i \in DOMAIN q : q[i] \in Timers
    BY <1>2
  <2> QED
    BY <1>2, <2>1
<1>3. PICK n \in 0 .. Len(q) :
        /\ fired' = SubSeq(q, 1, n)
        /\ \A i \in 1 .. n : expire[q[i]] <= cur
        /\ n # Len(q) => cur < expire[q[n + 1]]
  BY <1>2, ExpiredIs DEF Tick
<1>4. PICK x : x = fired'
  OBVIOUS
<1>5. DOMAIN x = 1 .. n /\ \A i \in 1 .. n : x[i] = q[i] /\ i \in DOMAIN q
  <2>1. /\ n \in Nat /\ 1 \in Nat /\ n \in 0 .. Len(q) /\ 1 <= n + 1 /\ (n - 1) + 1 = n
        /\ \A i \in 1 .. n : i \in DOMAIN q
    BY <1>2
  <2>2. /\ SubSeq(q, 1, n) \in Seq(Timers) /\ Len(SubSeq(q, 1, n)) = (n - 1) + 1
        /\ \A i \in 1 .. (n - 1) + 1 : SubSeq(q, 1, n)[i] = q[(1 - 1) + i]
    BY <1>2, <2>1, Cut
  <2>3. x \in Seq(Timers) /\ Len(x) = n /\ \A i \in 1 .. n : x[i] = q[i]
    BY <1>3, <1>4, <2>1, <2>2
  <2> QED
    BY <2>1, <2>3
<1>6. \A t \in ToSet(x) : t \in allocated /\ expire[t] <= cur
  BY <1>2, <1>3, <1>5 DEF ToSet
<1>7. ASSUME ~setBack
      PROVE  /\ \A t \in allocated : expire[t] <= cur => t \in ToSet(x)
             /\ Sorted(x, expire)
  <2>1. Sorted(q, expire)
    BY <1>1, <1>7 DEF ListIInv
  <2>2. ASSUME NEW i \in DOMAIN q, expire[q[i]] <= cur PROVE i \in 1 .. n
    <3>1. SUFFICES ASSUME n + 1 <= i PROVE FALSE
      BY <1>2
    <3>2. PICK l \in Nat : l = Len(q) /\ DOMAIN q = 1 .. l
      BY <1>2
    <3>3. n # l /\ n + 1 \in DOMAIN q /\ (i = n + 1 \/ n + 1 < i)
      BY <3>1, <3>2
    <3>4. expire[q[n + 1]] <= expire[q[i]]
      BY <1>2a, <2>1, <3>3 DEF Sorted
    <3>5. cur < expire[q[n + 1]]
      BY <1>3, <3>2, <3>3
    <3>6. expire[q[i]] \in Nat /\ expire[q[n + 1]] \in Nat /\ cur \in Nat
      BY <1>2, <1>2a, <3>3
    <3> QED
      BY <2>2, <3>4, <3>5, <3>6
  <2>3. ASSUME NEW t \in allocated, expire[t] <= cur PROVE t \in ToSet(x)
    <3>1. PICK i \in DOMAIN q : t = q[i]
      BY <1>2 DEF ToSet
    <3>2. i \in 1 .. n
      BY <2>2, <2>3, <3>1
    <3> QED
      BY <1>5, <3>1, <3>2 DEF ToSet
  <2>4. Sorted(x, expire)
    BY <1>5, <2>1 DEF Sorted
  <2> QED
    BY <2>3, <2>4
<1> QED
  BY <1>4, <1>6, <1>7 DEF CallsBackThoseDue

\* tick() calls back the timers that are due and no other, in the order of their
\* expiry, for any number of timers; after the clock was set back it may miss
\* some, and still calls back none too early.
THEOREM TickFiresThoseDue ==
  ListSpec => [][\A cur \in Times : Tick(cur) => CallsBackThoseDue(cur)]_listVars
<1>1. ListIInv /\ [ListNext]_listVars
        => [\A cur \in Times : Tick(cur) => CallsBackThoseDue(cur)]_listVars
  BY TickCallsBack
<1> QED
  BY <1>1, ListInductive, PTL DEF ListSpec

-----------------------------------------------------------------------------
(* The inductive invariant of the server, nonactive_conn.cpp.              *)

\* The list has each timer once, in the order of expiry, and those in it that
\* belong to a connection are the ones of the open connections.
ListOK ==
  Sorted(timer_lst, left) /\ IsInjective(timer_lst) /\ ToSet(timer_lst) \cap Conns = Open

\* No bytes are left of a connection that was closed.
ClosedIsEmpty == \A fd \in Conns : peer[fd] = "none" => unread[fd] = 0

\* Each edge of listenfd stands for a connection that waits to be accepted,
\* and no event is left over when epoll_wait() is called.
EdgesOK ==
  /\ (IF Listen \in ready THEN 1 ELSE 0) + (IF Listen \in batch THEN 1 ELSE 0) <= backlog
  /\ mainpc \in {"wait", "stopped"} => batch = {}

\* SIGALRM is in exactly one of its four places.
AlarmInOnePlace ==
  \/ alarm > 0 /\ "SIGALRM" \notin signals /\ "SIGALRM" \notin pipe /\ ~timeout
  \/ alarm = 0 /\ "SIGALRM" \in signals /\ "SIGALRM" \notin pipe /\ ~timeout
  \/ alarm = 0 /\ "SIGALRM" \notin signals /\ "SIGALRM" \in pipe /\ ~timeout
  \/ alarm = 0 /\ "SIGALRM" \notin signals /\ "SIGALRM" \notin pipe /\ timeout

IInv == TypeOK /\ ListOK /\ ClosedIsEmpty /\ EdgesOK /\ AlarmInOnePlace

-----------------------------------------------------------------------------
(* What the steps do to the parts of the invariant.                        *)

\* The smaller of two numbers.
LEMMA MinOfTwo ==
  ASSUME NEW a \in Nat, NEW b \in Nat
  PROVE  Min({a, b}) \in Nat /\ Min({a, b}) <= a
<1>1. \E x \in {a, b} : \A y \in {a, b} : x <= y
  OBVIOUS
<1> QED
  BY <1>1 DEF Min

\* A connection at which nothing changes stays where it is in the order.
LEMMA SameKeys ==
  ASSUME NEW q \in Seq(AllTimers), NEW key, NEW key2, Sorted(q, key),
         \A fd \in ToSet(q) : key2[fd] = key[fd]
  PROVE  Sorted(q, key2)
BY DEF Sorted, ToSet

\* A step that leaves the list and the connections alone.
LEMMA ListStays ==
  ASSUME ListOK, timer_lst' = timer_lst, left' = left, Open' = Open
  PROVE  ListOK'
BY DEF ListOK, Sorted, IsInjective, ToSet

\* The initial state.
LEMMA InitIInv == Init => IInv
<1> SUFFICES ASSUME Init PROVE IInv
  OBVIOUS
<1> USE InactiveAssumption
<1>1. TypeOK
  <2>1. timer_lst \in Seq(AllTimers)
    BY DEF Init
  <2>2. left \in [AllTimers -> 0 .. Lifetime] /\ unread \in [Conns -> Nat]
    BY DEF Init, Lifetime
  <2>3. backlog \in 0 .. MaxBacklog /\ alarm \in 0 .. TIMESLOT
    BY DEF Init
  <2>4. peer \in [Conns -> {"none", "open", "closed"}]
    BY DEF Init
  <2> QED
    BY <2>1, <2>2, <2>3, <2>4, Zenon DEF Init, TypeOK
<1>2. ListOK
  BY DEF Init, ListOK, Sorted, IsInjective, ToSet, Open
<1>3. ClosedIsEmpty /\ EdgesOK /\ AlarmInOnePlace
  BY DEF Init, ClosedIsEmpty, EdgesOK, AlarmInOnePlace
<1> QED
  BY <1>1, <1>2, <1>3 DEF IInv

\* A client connects.
LEMMA ConnectIInv == IInv /\ Connect => IInv'
<1> SUFFICES ASSUME IInv, Connect PROVE IInv'
  OBVIOUS
<1> USE InactiveAssumption DEF IInv
<1>1. TypeOK'
  BY DEF Connect, TypeOK
<1>2. ListOK'
  BY ListStays DEF Connect, Open
<1>3. ClosedIsEmpty'
  BY DEF Connect, ClosedIsEmpty
<1>4. EdgesOK'
  BY DEF Connect, EdgesOK, TypeOK
<1>5. AlarmInOnePlace'
  BY DEF Connect, AlarmInOnePlace
<1> QED
  BY <1>1, <1>2, <1>3, <1>4, <1>5

\* A client sends a byte.
LEMMA SendIInv ==
  ASSUME IInv, NEW fd \in Conns, Send(fd)
  PROVE  IInv'
<1> USE InactiveAssumption DEF IInv
<1>1. TypeOK'
  BY DEF Send, TypeOK
<1>2. ListOK'
  BY ListStays DEF Send, Open
<1>3. ClosedIsEmpty'
  BY DEF Send, ClosedIsEmpty, TypeOK
<1>4. EdgesOK'
  BY DEF Send, EdgesOK, TypeOK
<1>5. AlarmInOnePlace'
  BY DEF Send, AlarmInOnePlace
<1> QED
  BY <1>1, <1>2, <1>3, <1>4, <1>5

\* A client goes away.
LEMMA LeaveIInv ==
  ASSUME IInv, NEW fd \in Conns, Leave(fd)
  PROVE  IInv'
<1> USE InactiveAssumption DEF IInv
<1>1. TypeOK'
  BY DEF Leave, TypeOK
<1>2. Open' = Open
  BY DEF Leave, Open, TypeOK
<1>3. ListOK'
  BY <1>2, ListStays DEF Leave
<1>4. ClosedIsEmpty'
  BY DEF Leave, ClosedIsEmpty, TypeOK
<1>5. EdgesOK'
  BY DEF Leave, EdgesOK, TypeOK
<1>6. AlarmInOnePlace'
  BY DEF Leave, AlarmInOnePlace
<1> QED
  BY <1>1, <1>3, <1>4, <1>5, <1>6

\* A second passes: no timer overtakes another.
LEMMA ClockIInv == IInv /\ Clock => IInv'
<1> SUFFICES ASSUME IInv, Clock PROVE IInv'
  OBVIOUS
<1> USE InactiveAssumption DEF IInv
<1>1. TypeOK'
  BY DEF Clock, TypeOK, Lifetime
<1>2. ListOK'
  <2>1. left \in [AllTimers -> Nat] /\ timer_lst \in Seq(AllTimers)
    BY DEF TypeOK, Lifetime
  <2>2. \A x, y \in AllTimers : left[x] <= left[y] => left'[x] <= left'[y]
    BY <2>1 DEF Clock
  <2>3. \A i \in DOMAIN timer_lst : timer_lst[i] \in AllTimers
    BY <2>1
  <2>4. Sorted(timer_lst, left)'
    BY <2>2, <2>3 DEF Clock, ListOK, Sorted
  <2> QED
    BY <2>4 DEF Clock, ListOK, Open, ToSet, IsInjective
<1>3. ClosedIsEmpty'
  BY DEF Clock, ClosedIsEmpty
<1>4. EdgesOK'
  BY DEF Clock, EdgesOK
<1>5. AlarmInOnePlace'
  BY DEF Clock, AlarmInOnePlace, TypeOK
<1> QED
  BY <1>1, <1>2, <1>3, <1>4, <1>5

\* SIGTERM is sent to the process.
LEMMA KillIInv == IInv /\ Kill => IInv'
<1> SUFFICES ASSUME IInv, Kill PROVE IInv'
  OBVIOUS
<1> USE DEF IInv
<1>1. TypeOK' /\ ClosedIsEmpty' /\ EdgesOK'
  BY DEF Kill, TypeOK, ClosedIsEmpty, EdgesOK
<1>2. ListOK'
  BY ListStays DEF Kill, Open
<1>3. AlarmInOnePlace'
  BY DEF Kill, AlarmInOnePlace
<1> QED
  BY <1>1, <1>2, <1>3

\* A signal becomes a byte in the pipe.
LEMMA SigHandlerIInv ==
  ASSUME IInv, NEW sig \in {"SIGALRM", "SIGTERM"}, SigHandler(sig)
  PROVE  IInv'
<1> USE InactiveAssumption DEF IInv
<1>1. TypeOK'
  BY DEF SigHandler, TypeOK
<1>2. ListOK'
  BY ListStays DEF SigHandler, Open
<1>3. ClosedIsEmpty' /\ EdgesOK'
  BY DEF SigHandler, ClosedIsEmpty, EdgesOK, TypeOK
<1>4. AlarmInOnePlace'
  BY DEF SigHandler, AlarmInOnePlace, TypeOK
<1> QED
  BY <1>1, <1>2, <1>3, <1>4

\* epoll_wait() moves the edges into the batch.
LEMMA EpollWaitIInv == IInv /\ EpollWait => IInv'
<1> SUFFICES ASSUME IInv, EpollWait PROVE IInv'
  OBVIOUS
<1> USE DEF IInv
<1>1. TypeOK' /\ ClosedIsEmpty'
  BY DEF EpollWait, TakeEdges, TypeOK, ClosedIsEmpty
<1>2. ListOK'
  BY ListStays DEF EpollWait, Open
<1>3. EdgesOK'
  BY DEF EpollWait, TakeEdges, EdgesOK, TypeOK
<1>4. AlarmInOnePlace'
  BY DEF EpollWait, AlarmInOnePlace
<1> QED
  BY <1>1, <1>2, <1>3, <1>4

\* A new timer, which expires last, leaves the list in order.
LEMMA NewTimerIs ==
  ASSUME IInv, NEW t \in AllTimers, t \notin ToSet(timer_lst), NewTimer(t)
  PROVE  /\ left' \in [AllTimers -> 0 .. Lifetime]
         /\ timer_lst' \in Seq(AllTimers) /\ Sorted(timer_lst, left)'
         /\ IsInjective(timer_lst') /\ ToSet(timer_lst') = ToSet(timer_lst) \cup {t}
<1> USE InactiveAssumption DEF IInv
<1>1. PICK key : key = left'
  OBVIOUS
<1>2. PICK r : r = timer_lst'
  OBVIOUS
<1>3. key = [left EXCEPT ![t] = Lifetime] /\ r = Place(timer_lst, key, t)
  BY <1>1, <1>2 DEF NewTimer
<1>4. key \in [AllTimers -> 0 .. Lifetime] /\ key \in [AllTimers -> Nat]
  BY <1>3 DEF TypeOK, Lifetime
<1>5. timer_lst \in Seq(AllTimers) /\ Sorted(timer_lst, left) /\ IsInjective(timer_lst)
  BY DEF TypeOK, ListOK
<1>6. Sorted(timer_lst, key)
  <2>1. \A x \in ToSet(timer_lst) : key[x] = left[x]
    BY <1>3, <1>5 DEF TypeOK, ToSet
  <2> QED
    BY <1>5, <2>1, SameKeys
<1>7. /\ r \in Seq(AllTimers) /\ Sorted(r, key) /\ IsInjective(r)
      /\ ToSet(r) = ToSet(timer_lst) \cup {t}
  <2>1. PICK q : q = timer_lst
    OBVIOUS
  <2>2. /\ q \in Seq(AllTimers) /\ Sorted(q, key) /\ IsInjective(q) /\ t \notin ToSet(q)
        /\ r = Place(q, key, t)
    BY <1>3, <1>5, <1>6, <2>1
  <2>3. /\ r \in Seq(AllTimers) /\ Sorted(r, key) /\ IsInjective(r)
        /\ ToSet(r) = ToSet(q) \cup {t}
    BY <1>4, <2>2, PlaceSorts
  <2> QED
    BY <2>1, <2>3
<1> QED
  BY <1>1, <1>2, <1>4, <1>7 DEF Sorted

\* accept(): the new connection gets a timer.
LEMMA AcceptIInv == IInv /\ Accept => IInv'
<1> SUFFICES ASSUME IInv, Accept PROVE IInv'
  OBVIOUS
<1> USE InactiveAssumption DEF IInv
<1>1. PICK fd \in Conns \ Open :
        backlog' = backlog - 1 /\ peer' = [peer EXCEPT ![fd] = "open"] /\ NewTimer(fd)
  BY DEF Accept
<1>2. /\ batch' = batch \ {Listen} /\ Listen \in batch /\ mainpc = "events"
      /\ UNCHANGED <<unread, ready, alarm, signals, pipe, mainpc, timeout, stop_server>>
  BY DEF Accept, Event
<1>3. backlog' \in 0 .. MaxBacklog /\ EdgesOK'
  BY <1>1, <1>2 DEF EdgesOK, TypeOK
<1>4. fd \in AllTimers /\ fd \notin ToSet(timer_lst)
  BY DEF ListOK, AllTimers
<1>5. /\ left' \in [AllTimers -> 0 .. Lifetime]
      /\ timer_lst' \in Seq(AllTimers) /\ Sorted(timer_lst, left)'
      /\ IsInjective(timer_lst') /\ ToSet(timer_lst') = ToSet(timer_lst) \cup {fd}
  BY <1>1, <1>4, NewTimerIs
<1>6. Open' = Open \cup {fd}
  BY <1>1 DEF Open, TypeOK
<1>7. ListOK'
  BY <1>5, <1>6 DEF ListOK, Sorted, IsInjective, ToSet
<1>8. TypeOK'
  BY <1>1, <1>2, <1>3, <1>5 DEF TypeOK, Lifetime
<1>9. ClosedIsEmpty'
  BY <1>1, <1>2 DEF ClosedIsEmpty, TypeOK
<1>10. AlarmInOnePlace'
  BY <1>2 DEF AlarmInOnePlace
<1> QED
  BY <1>3, <1>7, <1>8, <1>9, <1>10

\* accept() fails: the new timer is of no connection, or the process ends.
LEMMA AcceptFailsIInv == IInv /\ AcceptFails => IInv'
<1> SUFFICES ASSUME IInv, AcceptFails PROVE IInv'
  OBVIOUS
<1> USE InactiveAssumption DEF IInv
<1>1. /\ batch' = batch \ {Listen} /\ Listen \in batch /\ mainpc = "events"
      /\ Open' = Open
      /\ UNCHANGED <<backlog, peer, unread, ready, alarm, signals, pipe, timeout, stop_server>>
  BY DEF AcceptFails, Event, Open
<1>2. /\ left' \in [AllTimers -> 0 .. Lifetime] /\ timer_lst' \in Seq(AllTimers)
      /\ ListOK' /\ mainpc' \in {"events", "crashed"} /\ batch' \subseteq batch
      /\ (mainpc' # "events" => mainpc' = "crashed")
  <2>1. CASE \E t \in Orphans \ ToSet(timer_lst) : NewTimer(t) /\ UNCHANGED mainpc
    <3>1. PICK t \in Orphans : t \notin ToSet(timer_lst) /\ NewTimer(t) /\ UNCHANGED mainpc
      BY <2>1
    <3>2. t \in AllTimers /\ t \notin Conns
      BY DEF AllTimers
    <3>3. /\ left' \in [AllTimers -> 0 .. Lifetime]
          /\ timer_lst' \in Seq(AllTimers) /\ Sorted(timer_lst, left)'
          /\ IsInjective(timer_lst') /\ ToSet(timer_lst') = ToSet(timer_lst) \cup {t}
      BY <3>1, <3>2, NewTimerIs
    <3>4. ListOK'
      BY <1>1, <3>2, <3>3 DEF ListOK, Sorted, IsInjective, ToSet
    <3> QED
      BY <1>1, <3>1, <3>3, <3>4
  <2>2. CASE mainpc' = "crashed" /\ UNCHANGED <<timer_lst, left>>
    BY <1>1, <2>2, ListStays DEF TypeOK
  <2> QED
    BY <2>1, <2>2 DEF AcceptFails
<1>3. EdgesOK'
  BY <1>1, <1>2 DEF EdgesOK, TypeOK
<1>4. TypeOK'
  BY <1>1, <1>2 DEF TypeOK
<1>5. ClosedIsEmpty' /\ AlarmInOnePlace'
  BY <1>1 DEF ClosedIsEmpty, AlarmInOnePlace
<1> QED
  BY <1>2, <1>3, <1>4, <1>5

\* main() reads the signals from the pipe.
LEMMA ReadSignalsIInv == IInv /\ ReadSignals => IInv'
<1> SUFFICES ASSUME IInv, ReadSignals PROVE IInv'
  OBVIOUS
<1> USE InactiveAssumption DEF IInv
<1>1. TypeOK' /\ ClosedIsEmpty'
  BY DEF ReadSignals, Event, Receive, TypeOK, ClosedIsEmpty
<1>2. ListOK'
  BY ListStays DEF ReadSignals, Open
<1>3. EdgesOK'
  BY DEF ReadSignals, Event, EdgesOK, TypeOK
<1>4. AlarmInOnePlace'
  BY DEF ReadSignals, Receive, AlarmInOnePlace
<1> QED
  BY <1>1, <1>2, <1>3, <1>4

\* recv() finds data, and the timer moves to the end.
LEMMA ReadDataIInv ==
  ASSUME IInv, NEW fd \in Conns, ReadData(fd)
  PROVE  IInv'
<1> USE InactiveAssumption DEF IInv
<1>1. /\ unread' = [unread EXCEPT ![fd] = @ - Min({@, ReadSize})]
      /\ left' = [left EXCEPT ![fd] = Lifetime]
      /\ timer_lst' = Place(Without(timer_lst, fd), left', fd)
      /\ batch' = batch \ {fd} /\ unread[fd] > 0 /\ mainpc = "events"
      /\ UNCHANGED <<backlog, peer, ready, alarm, signals, pipe, mainpc, timeout, stop_server>>
  BY DEF ReadData, Event, Renew
<1>2. unread[fd] - Min({unread[fd], ReadSize}) \in Nat
  <2>1. unread[fd] \in Nat /\ ReadSize \in Nat
    BY DEF TypeOK
  <2>2. Min({unread[fd], ReadSize}) \in Nat /\ Min({unread[fd], ReadSize}) <= unread[fd]
    BY <2>1, MinOfTwo
  <2> QED
    BY <2>1, <2>2
<1>3. unread' \in [Conns -> Nat]
  BY <1>1, <1>2 DEF TypeOK
<1>4. /\ left' \in [AllTimers -> 0 .. Lifetime] /\ left' \in [AllTimers -> Nat]
      /\ left \in [AllTimers -> Nat] /\ fd \in AllTimers
  BY <1>1 DEF TypeOK, Lifetime, AllTimers
<1>5. timer_lst \in Seq(AllTimers) /\ fd \in ToSet(timer_lst)
  BY <1>1 DEF TypeOK, ListOK, ClosedIsEmpty, Open
<1>6. PICK q : q = Without(timer_lst, fd)
  OBVIOUS
<1>7. /\ q \in Seq(AllTimers) /\ Sorted(q, left) /\ IsInjective(q)
      /\ ToSet(q) = ToSet(timer_lst) \ {fd}
  BY <1>4, <1>5, <1>6, WithoutKeeps DEF ListOK
<1>8. Sorted(q, left')
  <2>1. \A x \in ToSet(q) : left'[x] = left[x]
    BY <1>1, <1>7 DEF TypeOK, ListOK, Open
  <2> QED
    BY <1>7, <2>1, SameKeys
<1>9. /\ timer_lst' \in Seq(AllTimers) /\ Sorted(timer_lst', left') /\ IsInjective(timer_lst')
      /\ ToSet(timer_lst') = ToSet(q) \cup {fd}
  <2>1. PICK key : key = left'
    OBVIOUS
  <2>2. /\ key \in [AllTimers -> Nat] /\ Sorted(q, key) /\ fd \in AllTimers /\ fd \notin ToSet(q)
        /\ timer_lst' = Place(q, key, fd)
    BY <1>1, <1>4, <1>6, <1>7, <1>8, <2>1
  <2> QED
    BY <1>7, <2>1, <2>2, PlaceSorts
<1>10. ListOK'
  <2>1. Open' = Open
    BY <1>1 DEF Open
  <2>2. ToSet(timer_lst') \cap Conns = Open
    BY <1>5, <1>7, <1>9 DEF ListOK
  <2> QED
    BY <1>9, <2>1, <2>2 DEF ListOK, Sorted, IsInjective, ToSet
<1>11. TypeOK'
  BY <1>1, <1>3, <1>4, <1>9 DEF TypeOK, Lifetime
<1>12. ClosedIsEmpty'
  BY <1>1 DEF ClosedIsEmpty, TypeOK
<1>13. EdgesOK' /\ AlarmInOnePlace'
  BY <1>1 DEF EdgesOK, AlarmInOnePlace
<1> QED
  BY <1>10, <1>11, <1>12, <1>13

\* cb_func() was called for the timers S, and the rest of the list is left, in
\* its order.
LEMMA ClosedList ==
  ASSUME IInv, NEW S \in SUBSET AllTimers, CloseAll(S),
         timer_lst' \in Seq(AllTimers), Sorted(timer_lst', left), IsInjective(timer_lst'),
         ToSet(timer_lst') = ToSet(timer_lst) \ S
  PROVE  ListOK'
<1>1. Open' = Open \ S
  BY DEF Open, CloseAll
<1>2. \A x \in ToSet(timer_lst') : left'[x] = left[x]
  BY DEF IInv, TypeOK, CloseAll, ToSet
<1>3. Sorted(timer_lst', left')
  BY <1>2, SameKeys
<1> QED
  BY <1>1, <1>3 DEF IInv, ListOK, Sorted, IsInjective, ToSet

\* recv() finds the end, and the connection is closed.
LEMMA ReadEndIInv ==
  ASSUME IInv, NEW fd \in Conns, ReadEnd(fd)
  PROVE  IInv'
<1> USE InactiveAssumption DEF IInv
<1>1. /\ CloseAll({fd}) /\ timer_lst' = Without(timer_lst, fd)
      /\ batch' = batch \ {fd} /\ peer[fd] = "closed"
      /\ UNCHANGED <<backlog, alarm, signals, pipe, mainpc, timeout, stop_server>>
  BY DEF ReadEnd, Event
<1>2. left \in [AllTimers -> Nat] /\ timer_lst \in Seq(AllTimers) /\ fd \in ToSet(timer_lst)
  BY <1>1 DEF TypeOK, Lifetime, ListOK, Open
<1>3. /\ timer_lst' \in Seq(AllTimers) /\ Sorted(timer_lst', left) /\ IsInjective(timer_lst')
      /\ ToSet(timer_lst') = ToSet(timer_lst) \ {fd}
  BY <1>1, <1>2, WithoutKeeps DEF ListOK
<1>4. ListOK'
  BY <1>1, <1>3, ClosedList DEF AllTimers
<1>5. TypeOK'
  BY <1>1, <1>3 DEF CloseAll, TypeOK, Lifetime
<1>6. ClosedIsEmpty' /\ EdgesOK' /\ AlarmInOnePlace'
  BY <1>1 DEF CloseAll, ClosedIsEmpty, EdgesOK, AlarmInOnePlace, TypeOK
<1> QED
  BY <1>4, <1>5, <1>6

\* recv() finds nothing.
LEMMA ReadNothingIInv ==
  ASSUME IInv, NEW fd \in Conns, ReadNothing(fd)
  PROVE  IInv'
<1> USE DEF IInv
<1>1. TypeOK' /\ ClosedIsEmpty' /\ EdgesOK' /\ AlarmInOnePlace'
  BY InactiveAssumption
     DEF ReadNothing, Event, kernel, TypeOK, ClosedIsEmpty, EdgesOK, AlarmInOnePlace
<1>2. ListOK'
  BY ListStays DEF ReadNothing, kernel, Open
<1> QED
  BY <1>1, <1>2

\* tick() stops at the first timer that is not due, and calls back exactly the
\* timers whose time is up: the list is in order.
LEMMA DueAreFirst ==
  ASSUME IInv
  PROVE  /\ NumDue \in 0 .. Len(timer_lst)
         /\ FirstOf(timer_lst, NumDue) = {t \in ToSet(timer_lst) : left[t] = 0}
<1> DEFINE D == {k \in DOMAIN timer_lst : \A i \in 1 .. k : left[timer_lst[i]] = 0}
<1>1. /\ timer_lst \in Seq(AllTimers) /\ left \in [AllTimers -> Nat]
      /\ Sorted(timer_lst, left)
  BY InactiveAssumption DEF IInv, TypeOK, Lifetime, ListOK
<1>2. Len(timer_lst) \in Nat /\ DOMAIN timer_lst = 1 .. Len(timer_lst)
  BY <1>1
<1>3. NumDue \in 0 .. Len(timer_lst) /\ D = 1 .. NumDue
  <2>1. D \in SUBSET (1 .. Len(timer_lst))
    BY <1>2
  <2>2. \A i \in D : \A j \in 1 .. Len(timer_lst) : j < i => j \in D
    BY <1>2
  <2>3. NumDue = Cardinality(D)
    BY DEF NumDue
  <2> HIDE DEF D
  <2> QED
    BY <1>2, <2>1, <2>2, <2>3, Prefix
<1>4. \A i \in DOMAIN timer_lst : timer_lst[i] \in AllTimers /\ left[timer_lst[i]] \in Nat
  BY <1>1
<1>5. ASSUME NEW i \in DOMAIN timer_lst, left[timer_lst[i]] = 0 PROVE i \in 1 .. NumDue
  <2>1. \A j \in 1 .. i : j = i \/ (j \in DOMAIN timer_lst /\ j < i)
    BY <1>2
  <2>2. \A j \in 1 .. i : left[timer_lst[j]] = 0
    BY <1>1, <1>4, <1>5, <2>1 DEF Sorted
  <2> QED
    BY <1>3, <1>5, <2>2
<1>6. ASSUME NEW i \in 1 .. NumDue
      PROVE  i \in DOMAIN timer_lst /\ left[timer_lst[i]] = 0
  BY <1>2, <1>3
<1>7. FirstOf(timer_lst, NumDue) = {timer_lst[i] : i \in 1 .. NumDue}
  BY DEF FirstOf
<1> HIDE DEF D
<1>8. FirstOf(timer_lst, NumDue) = {t \in ToSet(timer_lst) : left[t] = 0}
  BY <1>5, <1>6, <1>7 DEF ToSet
<1> QED
  BY <1>1, <1>3, <1>8

\* The batch is done: timer_handler().
LEMMA EndBatchIInv == IInv /\ EndBatch => IInv'
<1> SUFFICES ASSUME IInv, EndBatch PROVE IInv'
  OBVIOUS
<1> USE InactiveAssumption DEF IInv
<1>1. /\ timeout' = FALSE /\ batch = {} /\ mainpc' \in {"stopped", "wait"}
      /\ UNCHANGED <<backlog, signals, pipe, batch, stop_server>>
  BY DEF EndBatch
<1>2. CASE timeout
  <2> DEFINE S == FirstOf(timer_lst, NumDue)
  <2>1. /\ CloseAll(S) /\ alarm' = TIMESLOT
        /\ timer_lst' = SubSeq(timer_lst, NumDue + 1, Len(timer_lst))
    BY <1>2 DEF EndBatch, TimerHandler, SetAlarm, FirstOf
  <2>2. left \in [AllTimers -> Nat] /\ timer_lst \in Seq(AllTimers)
    BY DEF TypeOK, Lifetime
  <2>3. NumDue \in 0 .. Len(timer_lst) /\ S \in SUBSET AllTimers
    BY <2>2, DueAreFirst DEF ToSet
  <2>4. /\ timer_lst' \in Seq(AllTimers) /\ Sorted(timer_lst', left) /\ IsInjective(timer_lst')
        /\ ToSet(timer_lst') = ToSet(timer_lst) \ S
    <3>1. Sorted(timer_lst, left) /\ IsInjective(timer_lst)
      BY DEF ListOK
    <3>2. PICK q : q = timer_lst
      OBVIOUS
    <3>3. PICK l \in Nat : l = Len(q) /\ DOMAIN q = 1 .. l
      BY <2>2, <3>2
    <3>4. PICK n \in 0 .. l : n = NumDue
      BY <2>3, <3>2, <3>3
    <3>5. PICK r : r = SubSeq(q, n + 1, Len(q))
      OBVIOUS
    <3>6. r \in Seq(AllTimers) /\ WithoutFirst(r, q, l, n)
      BY <2>2, <3>2, <3>3, <3>5, SubSeqIs
    <3>7. Sorted(r, left) /\ IsInjective(r) /\ ToSet(r) = ToSet(q) \ FirstOf(q, n)
      BY <3>1, <3>2, <3>3, <3>6, RestOf
    <3> QED
      BY <2>1, <3>2, <3>4, <3>5, <3>6, <3>7
  <2> HIDE DEF S
  <2>5. ListOK'
    BY <2>1, <2>3, <2>4, ClosedList
  <2>6. TypeOK'
    <3>1. /\ peer' \in [Conns -> {"none", "open", "closed"}]
          /\ unread' \in [Conns -> Nat] /\ left' \in [AllTimers -> 0 .. Lifetime]
          /\ ready' \subseteq Conns \cup {Listen, Pipe}
      BY <2>1 DEF CloseAll, TypeOK, Lifetime
    <3>2. alarm' \in 0 .. TIMESLOT /\ backlog' \in 0 .. MaxBacklog
      BY <1>1, <2>1 DEF TypeOK
    <3>3. timer_lst' \in Seq(AllTimers)
      BY <2>4
    <3>4. /\ signals' \subseteq {"SIGALRM", "SIGTERM"} /\ pipe' \subseteq {"SIGALRM", "SIGTERM"}
          /\ mainpc' \in {"wait", "events", "stopped", "crashed"} /\ batch' \subseteq Conns \cup {Listen, Pipe}
          /\ timeout' \in BOOLEAN /\ stop_server' \in BOOLEAN
      BY <1>1 DEF TypeOK
    <3> QED
      BY <3>1, <3>2, <3>3, <3>4, Zenon DEF TypeOK
  <2>7. ClosedIsEmpty' /\ EdgesOK'
    BY <1>1, <2>1 DEF CloseAll, ClosedIsEmpty, EdgesOK, TypeOK
  <2>8. AlarmInOnePlace'
    BY <1>1, <1>2, <2>1 DEF AlarmInOnePlace
  <2> QED
    BY <2>5, <2>6, <2>7, <2>8
<1>3. CASE ~timeout
  <2>1. UNCHANGED <<peer, unread, left, ready, timer_lst, alarm>>
    BY <1>3 DEF EndBatch, TimerHandler
  <2>2. ListOK'
    BY <2>1, ListStays DEF Open
  <2>3. TypeOK' /\ ClosedIsEmpty' /\ EdgesOK' /\ AlarmInOnePlace'
    BY <1>1, <1>3, <2>1 DEF TypeOK, ClosedIsEmpty, EdgesOK, AlarmInOnePlace
  <2> QED
    BY <2>2, <2>3
<1> QED
  BY <1>2, <1>3

\* Every step keeps the invariant.
LEMMA NextIInv == IInv /\ [Next]_vars => IInv'
<1> SUFFICES ASSUME IInv, [Next]_vars PROVE IInv'
  OBVIOUS
<1>1. CASE UNCHANGED vars
  <2>1. TypeOK' /\ ClosedIsEmpty' /\ EdgesOK' /\ AlarmInOnePlace'
    BY <1>1 DEF IInv, vars, kernel, TypeOK, ClosedIsEmpty, EdgesOK, AlarmInOnePlace
  <2>2. ListOK'
    BY <1>1, ListStays DEF IInv, vars, kernel, Open
  <2> QED
    BY <2>1, <2>2 DEF IInv
<1>2. CASE Environment
  BY <1>2, ConnectIInv, KillIInv, SendIInv, LeaveIInv DEF Environment
<1>3. CASE Clock
  BY <1>3, ClockIInv
<1>4. CASE MainStep
  BY <1>4, EpollWaitIInv, AcceptIInv, AcceptFailsIInv, ReadSignalsIInv, EndBatchIInv, ReadDataIInv,
     ReadEndIInv, ReadNothingIInv DEF MainStep
<1>5. CASE \E sig \in {"SIGALRM", "SIGTERM"} : SigHandler(sig)
  BY <1>5, SigHandlerIInv
<1> QED
  BY <1>1, <1>2, <1>3, <1>4, <1>5 DEF Next

-----------------------------------------------------------------------------
(* The theorems.                                                           *)

\* The invariant holds in every reachable state.
THEOREM Inductive == SafeSpec => []IInv
<1> QED
  BY InitIInv, NextIInv, PTL DEF SafeSpec

\* Type correctness.
THEOREM TypeCorrect == SafeSpec => []TypeOK
<1>1. IInv => TypeOK
  BY DEF IInv
<1> QED
  BY <1>1, Inductive, PTL

\* Every open connection has its one timer in the list, and no timer is left
\* of one that was closed, whatever is accepted, read, closed and timed out, and
\* however often accept() fails and a timer of no connection is added.
THEOREM TimersMatchConnections == SafeSpec => []TimerPerConnection
<1>1. IInv => TimerPerConnection
  BY DEF IInv, ListOK, TimerPerConnection
<1> QED
  BY <1>1, Inductive, PTL

\* SIGALRM is always on its way: alarm(), pending, pipe or flag.
THEOREM AlarmIsNeverLost == SafeSpec => []AlarmIsUnderWay
<1>1. ASSUME AlarmInOnePlace, alarm \in Nat PROVE AlarmIsUnderWay
  <2> DEFINE places == (IF alarm > 0 THEN {"alarm"} ELSE {})
                       \cup (IF "SIGALRM" \in signals THEN {"pending"} ELSE {})
                       \cup (IF "SIGALRM" \in pipe THEN {"pipe"} ELSE {})
                       \cup (IF timeout THEN {"flag"} ELSE {})
  <2>1. \E x : places = {x}
    <3>1. CASE alarm > 0
      <4>1. places = {"alarm"}
        BY <1>1, <3>1 DEF AlarmInOnePlace
      <4> QED
        BY <4>1
    <3>2. CASE "SIGALRM" \in signals
      <4>1. places = {"pending"}
        BY <1>1, <3>2 DEF AlarmInOnePlace
      <4> QED
        BY <4>1
    <3>3. CASE "SIGALRM" \in pipe
      <4>1. places = {"pipe"}
        BY <1>1, <3>3 DEF AlarmInOnePlace
      <4> QED
        BY <4>1
    <3>4. CASE timeout
      <4>1. places = {"flag"}
        BY <1>1, <3>4 DEF AlarmInOnePlace
      <4> QED
        BY <4>1
    <3> QED
      BY <1>1, <3>1, <3>2, <3>3, <3>4 DEF AlarmInOnePlace
  <2> HIDE DEF places
  <2>2. Cardinality(places) = 1
    BY <2>1, FS_Singleton
  <2> QED
    BY <2>2 DEF places, AlarmIsUnderWay
<1>2. IInv => AlarmIsUnderWay
  BY <1>1, InactiveAssumption DEF IInv, TypeOK
<1> QED
  BY <1>2, Inductive, PTL

\* After the timers were handled none in the list and no open connection is
\* overdue: none is hidden behind the timer at which tick() stops.
THEOREM TickLeavesNoneOverdue == SafeSpec => NoneOverdueAfterTick
<1>1. ASSUME IInv, [Next]_vars, timeout, ~timeout', NEW t \in ToSet(timer_lst') \cup Open'
      PROVE  left'[t] > 0
  <2>1. EndBatch
    BY <1>1 DEF Next, vars, kernel, Environment, MainStep, Connect, Kill, Send, Leave, Clock,
                SigHandler, EpollWait, Accept, AcceptFails, ReadSignals, Receive, ReadData,
                ReadEnd, ReadNothing
  <2>2. IInv'
    BY <1>1, NextIInv
  <2>3. t \in ToSet(timer_lst') /\ t \in AllTimers
    <3>1. timer_lst' \in Seq(AllTimers) /\ Open' \subseteq ToSet(timer_lst')
      BY <2>2 DEF IInv, TypeOK, ListOK
    <3> QED
      BY <1>1, <3>1 DEF ToSet
  <2> DEFINE S == FirstOf(timer_lst, NumDue)
  <2>4. /\ CloseAll(S)
        /\ timer_lst' = SubSeq(timer_lst, NumDue + 1, Len(timer_lst))
    BY <1>1, <2>1 DEF EndBatch, TimerHandler, FirstOf
  <2>5. S = {x \in ToSet(timer_lst) : left[x] = 0} /\ NumDue \in 0 .. Len(timer_lst)
    BY <1>1, DueAreFirst
  <2>6. ToSet(timer_lst') = ToSet(timer_lst) \ S
    <3>1. timer_lst \in Seq(AllTimers) /\ Sorted(timer_lst, left) /\ IsInjective(timer_lst)
      BY <1>1 DEF IInv, TypeOK, ListOK
    <3>2. PICK q : q = timer_lst
      OBVIOUS
    <3>3. PICK l \in Nat : l = Len(q) /\ DOMAIN q = 1 .. l
      BY <3>1, <3>2
    <3>4. PICK n \in 0 .. l : n = NumDue
      BY <2>5, <3>2, <3>3
    <3>5. PICK r : r = SubSeq(q, n + 1, Len(q))
      OBVIOUS
    <3>6. WithoutFirst(r, q, l, n)
      BY <3>1, <3>2, <3>3, <3>5, SubSeqIs
    <3>7. ToSet(r) = ToSet(q) \ FirstOf(q, n)
      BY <3>1, <3>2, <3>3, <3>6, RestOf
    <3> QED
      BY <2>4, <3>2, <3>4, <3>5, <3>7
  <2> HIDE DEF S
  <2>7. left[t] # 0 /\ left'[t] = left[t]
    BY <2>3, <2>4, <2>5, <2>6 DEF CloseAll
  <2> QED
    BY <1>1, <2>3, <2>7, InactiveAssumption DEF IInv, TypeOK, Lifetime
<1>2. IInv /\ [Next]_vars
        => [timeout /\ ~timeout' => \A t \in ToSet(timer_lst') \cup Open' : left'[t] > 0]_vars
  BY <1>1
<1> QED
  BY <1>2, Inductive, PTL DEF SafeSpec, NoneOverdueAfterTick
=============================================================================

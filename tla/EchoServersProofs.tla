-------------------------- MODULE EchoServersProofs --------------------------
(***************************************************************************)
(* The safety properties of the echo servers, for any number of clients    *)
(* and any sizes of requests and buffers.  They rest on the places of the  *)
(* list: every place that was reported is still that of the connection it  *)
(* was reported for when its turn comes.                                   *)
(***************************************************************************)
EXTENDS EchoServers, FiniteSetTheorems, WellFoundedInduction, TLAPS

\* The types of the server's variables and of the kernel's.
TypeOK ==
  /\ program \in Programs
  /\ backlog \in Nat
  /\ peer \in [Fds -> {"none", "open", "closed", "reset", "broken"}]
  /\ unread \in [Fds -> Nat]
  /\ edges \subseteq Fds /\ waiting \subseteq Fds
  /\ list \in [Slots -> Fds \cup {NoFd}]
  /\ last \in 0 .. LastFd
  /\ garbage \subseteq Slots
  /\ mainpc \in {"accept", "wait", "events", "exited"}
  /\ todo \subseteq Slots \cup {Listen}
  /\ cur \in Fds \cup {NoFd}

\* The server waits on open connections only, and once on each; that of
\* epoll_ET.c waits on all of them.
PlacesOK ==
  /\ \A i \in Slots : list[i] # NoFd => list[i] \in Open
  /\ \A i, j \in Slots : list[i] = list[j] /\ list[i] # NoFd => i = j
  /\ program # "poll.c" => \A i \in Slots : list[i] \in {NoFd, i}
  /\ program = "epoll_ET.c" => last = LastFd /\ \A fd \in Open : list[fd] = fd

\* accept() never blocks: somebody waits when the listening socket is reported.
AcceptsAreReady == Listen \in todo => backlog > 0

\* No event is left over when the server waits for more, and the connection whose
\* bytes are read in a loop has no other event.
RoundOK ==
  /\ mainpc = "wait" => todo = {}
  /\ cur # NoFd =>
       /\ cur \in Open /\ mainpc = "events"
       /\ program \in OneClient \cup {"epoll_ET.c"}
       /\ \A i \in todo \ {Listen} : list[i] # cur

\* A server of one client has no other, and no list.
OneClientOK ==
  IF program \in OneClient
  THEN /\ todo = {} /\ mainpc # "wait"
       /\ \A i \in Slots : list[i] = NoFd
       /\ mainpc = "accept" => Open = {}
       /\ mainpc = "events" => cur # NoFd /\ Open = {cur}
  ELSE mainpc # "accept"

\* No bytes are left of a connection that was closed.
ClosedIsEmpty == \A fd \in Fds : peer[fd] = "none" => unread[fd] = 0

\* What every step keeps.
IInv ==
  /\ TypeOK /\ PlacesOK /\ AcceptsAreReady /\ RoundOK /\ OneClientOK /\ ClosedIsEmpty
  /\ ReadsAreReady /\ UnreadIsAnnounced

-----------------------------------------------------------------------------
(* Numbers and sets of descriptors.                                        *)

\* A set of numbers that is not empty has a least member, which Min() finds.
LEMMA MinIsMember ==
  ASSUME NEW S \in SUBSET Nat, S # {}
  PROVE  Min(S) \in S
<1> DEFINE Less == {ss \in Nat \X Nat : ss[1] < ss[2]}
<1>1. IsWellFoundedOn(Less, Nat)
  BY NatLessThanWellFounded DEF OpToRel
<1>2. PICK m \in S : \A j \in S : ~(<<j, m>> \in Less)
  BY <1>1, WFMin, Zenon
<1>3. ASSUME NEW j \in S PROVE m <= j
  <2>1. m \in Nat /\ j \in Nat
    OBVIOUS
  <2>2. j < m => <<j, m>> \in Less
    BY <2>1
  <2> QED
    BY <1>2, <2>1, <2>2
<1> QED
  BY <1>3 DEF Min

\* The larger of two numbers.
LEMMA MaxOfTwo ==
  ASSUME NEW a \in Nat, NEW b \in Nat
  PROVE  Max({a, b}) = IF a >= b THEN a ELSE b
<1>1. \E x \in {a, b} : \A y \in {a, b} : x >= y
  OBVIOUS
<1>2. Max({a, b}) \in {a, b} /\ \A y \in {a, b} : Max({a, b}) >= y
  BY <1>1 DEF Max
<1> QED
  BY <1>2

\* What is left when the smaller of two numbers is taken away.
LEMMA MinOfTwo ==
  ASSUME NEW a \in Nat, NEW b \in Nat
  PROVE  a - Min({a, b}) \in Nat
<1>1. \E x \in {a, b} : \A y \in {a, b} : x <= y
  OBVIOUS
<1>2. Min({a, b}) \in {a, b} /\ \A y \in {a, b} : Min({a, b}) <= y
  BY <1>1 DEF Min
<1> QED
  BY <1>2

\* The descriptors are numbers, of which there are finitely many, fewer than
\* there are places.
LEMMA FdsAre ==
  /\ Fds \subseteq Nat /\ Fds \subseteq Slots /\ Slots \subseteq Nat
  /\ NoFd \notin Fds /\ NoFd \notin Slots /\ Listen \notin Slots
  /\ IsFiniteSet(Fds) /\ Cardinality(Fds) \in Nat
  /\ IsFiniteSet(Slots) /\ Cardinality(Fds) < Cardinality(Slots)
<1> USE EchoAssumption
<1>1. IsFiniteSet(Fds) /\ Cardinality(Fds) = LastFd - lfd
  <2>1. lfd + 1 \in Int /\ LastFd \in Int
    OBVIOUS
  <2> QED
    BY <2>1, FS_Interval DEF Fds
<1>2. IsFiniteSet(Slots) /\ Cardinality(Slots) = LastFd
  <2>1. 1 \in Int /\ LastFd \in Int
    OBVIOUS
  <2> QED
    BY <2>1, FS_Interval DEF Slots
<1> QED
  BY <1>1, <1>2 DEF Fds, Slots, NoFd, Listen

\* The number of open connections.
LEMMA OpenIsFinite ==
  IsFiniteSet(Open) /\ Cardinality(Open) \in Nat /\ Cardinality(Open) <= Cardinality(Fds)
<1>1. Open \in SUBSET Fds
  BY DEF Open
<1> QED
  BY <1>1, FdsAre, FS_Subset, FS_CardinalityType

\* Whoever is accepted gets a free descriptor, ...
LEMMA DescriptorIsFree ==
  ASSUME Fds \ Open # {}
  PROVE  Min(Fds \ Open) \in Fds \ Open
<1>1. Fds \ Open \in SUBSET Nat
  BY FdsAre
<1> QED
  BY <1>1, MinIsMember

\* ... and a place in the list.
LEMMA PlaceIsFree ==
  ASSUME IInv, NEW cfd \in Fds \ Open
  PROVE  Place(cfd) \in Slots /\ list[Place(cfd)] = NoFd
<1>1. CASE program = "poll.c"
  <2> DEFINE Free == {i \in Slots : list[i] = NoFd}
  <2>1. ASSUME Free = {} PROVE FALSE
    <3>1. list \in Injection(Slots, Open)
      BY <2>1 DEF IInv, TypeOK, PlacesOK, Injection, IsInjective
    <3>2. Cardinality(Slots) <= Cardinality(Open)
      BY <3>1, OpenIsFinite, FS_Injection
    <3> QED
      BY <3>2, OpenIsFinite, FdsAre, FS_CardinalityType
  <2>2. Free \in SUBSET Nat
    BY FdsAre
  <2> HIDE DEF Free
  <2>3. Min(Free) \in Free
    BY <2>1, <2>2, MinIsMember
  <2> QED
    BY <1>1, <2>3 DEF Place, Free
<1>2. CASE program # "poll.c"
  <2>1. Place(cfd) = cfd /\ cfd \in Slots
    BY <1>2, FdsAre DEF Place
  <2>2. list[cfd] # cfd
    BY <2>1, FdsAre DEF IInv, PlacesOK
  <2> QED
    BY <1>2, <2>1, <2>2 DEF IInv, PlacesOK
<1> QED
  BY <1>1, <1>2

-----------------------------------------------------------------------------
(* Each step keeps the invariant.                                          *)

\* The initial states.
LEMMA InitIInv == Init => IInv
<1> SUFFICES ASSUME Init PROVE IInv
  OBVIOUS
<1> USE EchoAssumption, FdsAre
<1>1. TypeOK
  <2>1. last \in 0 .. LastFd /\ garbage \subseteq Slots
    BY DEF Init
  <2>2. program \in Programs /\ mainpc \in {"accept", "wait", "events", "exited"}
    BY DEF Init
  <2> QED
    BY <2>1, <2>2 DEF Init, TypeOK
<1>2. Open = {}
  BY DEF Init, Open
<1>3. PlacesOK
  BY <1>2 DEF Init, PlacesOK
<1>4. AcceptsAreReady
  BY FdsAre DEF Init, AcceptsAreReady
<1>5. RoundOK /\ OneClientOK /\ ClosedIsEmpty
  BY <1>2 DEF Init, RoundOK, OneClientOK, ClosedIsEmpty, Programs, LevelTriggered, OneClient
<1>6. ReadsAreReady /\ UnreadIsAnnounced
  BY <1>2 DEF Init, ReadsAreReady, UnreadIsAnnounced
<1> QED
  BY <1>1, <1>3, <1>4, <1>5, <1>6 DEF IInv

\* A client connects.
LEMMA ConnectIInv == IInv /\ Connect => IInv'
<1> SUFFICES ASSUME IInv, Connect PROVE IInv'
  OBVIOUS
<1> USE DEF IInv
<1>1. Open' = Open
  BY DEF Connect, Open
<1>2. TypeOK'
  BY DEF Connect, server, TypeOK
<1>3. PlacesOK' /\ RoundOK' /\ OneClientOK' /\ ClosedIsEmpty'
  BY <1>1 DEF Connect, server, PlacesOK, RoundOK, OneClientOK, ClosedIsEmpty
<1>4. AcceptsAreReady'
  BY <1>1, FdsAre DEF Connect, server, AcceptsAreReady, TypeOK
<1>5. ReadsAreReady' /\ UnreadIsAnnounced'
  BY <1>1 DEF Connect, server, ReadsAreReady, UnreadIsAnnounced, Readable, Running
<1> QED
  BY <1>2, <1>3, <1>4, <1>5

\* A client sends a request.
LEMMA RequestIInv ==
  ASSUME IInv, NEW fd \in Fds, Request(fd)
  PROVE  IInv'
<1> USE DEF IInv
<1>1. Open' = Open
  BY DEF Request, Open
<1>2. unread' = [unread EXCEPT ![fd] = unread[fd] + RequestSize] /\ fd \in Open
  BY DEF Request, Open
<1>3. \A x \in Fds : unread'[x] \in Nat /\ unread'[x] >= unread[x]
  BY <1>2, EchoAssumption DEF TypeOK
<1>4. TypeOK'
  BY <1>3 DEF Request, server, TypeOK
<1>5. PlacesOK' /\ RoundOK' /\ OneClientOK' /\ AcceptsAreReady'
  BY <1>1 DEF Request, server, PlacesOK, RoundOK, OneClientOK, AcceptsAreReady
<1>6. ClosedIsEmpty'
  BY DEF Request, ClosedIsEmpty, TypeOK
<1>7. ReadsAreReady'
  <2>1. \A x \in Fds : Readable(x) => Readable(x)'
    BY <1>1, <1>3 DEF Request, Readable, TypeOK
  <2>2. \A i \in todo \ {Listen} : list[i] # NoFd => list[i] \in Fds
    BY DEF TypeOK
  <2> QED
    BY <2>1, <2>2 DEF Request, server, ReadsAreReady
<1>8. UnreadIsAnnounced'
  <2> SUFFICES ASSUME Running, NEW x \in Open, unread'[x] > 0
               PROVE  \/ program \in LevelTriggered
                      \/ x = cur
                      \/ program = "epoll_ET.c" /\ x \in edges'
                      \/ \E i \in todo \ {Listen} : list[i] = x
    BY <1>1 DEF Request, server, UnreadIsAnnounced, Running
  <2>1. CASE x = fd
    BY <1>2, <2>1 DEF Request, TypeOK, Programs, OneClientOK, Running, Open
  <2>2. CASE x # fd
    BY <1>2, <2>2 DEF Request, TypeOK, UnreadIsAnnounced, Open
  <2> QED
    BY <2>1, <2>2
<1> QED
  BY <1>4, <1>5, <1>6, <1>7, <1>8

\* A client goes away, with Close or Reset: what it sent stays, or is lost.
LEMMA LeaveIInv ==
  ASSUME IInv, NEW fd \in Fds, Close(fd) \/ Reset(fd)
  PROVE  IInv'
<1> USE DEF IInv
<1>1. /\ peer[fd] = "open"
      /\ peer' = [peer EXCEPT ![fd] = "closed"] \/ peer' = [peer EXCEPT ![fd] = "reset"]
      /\ unread' = unread \/ unread' = [unread EXCEPT ![fd] = 0]
      /\ edges' = edges \cup {fd} /\ waiting' = waiting \ {fd}
      /\ UNCHANGED <<program, backlog, server>>
  BY DEF Close, Reset
<1>2. Open' = Open
  BY <1>1 DEF Open, TypeOK
<1>3. TypeOK'
  BY <1>1 DEF server, TypeOK
<1>4. PlacesOK' /\ RoundOK' /\ OneClientOK' /\ AcceptsAreReady'
  BY <1>1, <1>2 DEF server, PlacesOK, RoundOK, OneClientOK, AcceptsAreReady
<1>5. ClosedIsEmpty'
  BY <1>1 DEF ClosedIsEmpty, TypeOK
<1>6. ReadsAreReady'
  <2>1. \A x \in Fds : Readable(x) => Readable(x)'
    BY <1>1, <1>2 DEF Readable, TypeOK
  <2>2. \A i \in todo \ {Listen} : list[i] # NoFd => list[i] \in Fds
    BY DEF TypeOK
  <2> QED
    BY <1>1, <2>1, <2>2 DEF server, ReadsAreReady
<1>7. UnreadIsAnnounced'
  <2>1. \A x \in Fds : unread'[x] > 0 => unread[x] > 0
    BY <1>1 DEF TypeOK
  <2> QED
    BY <1>1, <1>2, <2>1 DEF server, UnreadIsAnnounced, Running, Open
<1> QED
  BY <1>3, <1>4, <1>5, <1>6, <1>7

\* select(), poll() or epoll_wait().
LEMMA WaitIInv == IInv /\ Wait => IInv'
<1> SUFFICES ASSUME IInv, Wait PROVE IInv'
  OBVIOUS
<1> USE DEF IInv
<1>1. /\ mainpc = "wait" /\ mainpc' = "events" /\ todo' = Reported
      /\ edges' = edges \ {list[i] : i \in Reported \ {Listen}}
      /\ UNCHANGED <<program, backlog, peer, unread, waiting, list, last, garbage, cur>>
  BY DEF Wait
<1>2. Open' = Open /\ cur = NoFd
  BY <1>1 DEF Open, RoundOK
<1>3. /\ Reported \subseteq Slots \cup {Listen}
      /\ Listen \in Reported => backlog > 0
      /\ \A i \in Reported \ {Listen} : list[i] # NoFd /\ Readable(list[i])
  BY EchoAssumption DEF Reported, TypeOK, Slots, Listen
<1>4. TypeOK'
  BY <1>1, <1>3 DEF TypeOK
<1>5. PlacesOK' /\ RoundOK' /\ OneClientOK' /\ AcceptsAreReady' /\ ClosedIsEmpty'
  BY <1>1, <1>2, <1>3 DEF PlacesOK, RoundOK, OneClientOK, AcceptsAreReady, ClosedIsEmpty
<1>6. ReadsAreReady'
  BY <1>1, <1>2, <1>3 DEF ReadsAreReady, Readable
<1>7. UnreadIsAnnounced'
  <2> SUFFICES ASSUME NEW fd \in Open, unread[fd] > 0, program \notin LevelTriggered
               PROVE  \/ program = "epoll_ET.c" /\ fd \in edges'
                      \/ \E i \in todo' \ {Listen} : list[i] = fd
    BY <1>1, <1>2 DEF UnreadIsAnnounced
  <2>1. program = "epoll_ET.c"
    BY <1>1 DEF TypeOK, Programs, OneClientOK
  <2>2. fd \in Fds /\ fd \in 1 .. last /\ list[fd] = fd /\ fd # Listen
    BY <2>1, EchoAssumption DEF Open, PlacesOK, Fds, Listen
  <2>3. CASE fd \in edges
    <3>1. fd \in Reported
      BY <2>1, <2>2, <2>3, FdsAre DEF Reported, Readable
    <3> QED
      BY <1>1, <2>2, <3>1
  <2>4. CASE fd \notin edges
    BY <1>1, <1>2, <2>1, <2>2, <2>4, FdsAre
       DEF UnreadIsAnnounced, Running, RoundOK, LevelTriggered
  <2> QED
    BY <2>3, <2>4
<1> QED
  BY <1>4, <1>5, <1>6, <1>7

\* The round is over.
LEMMA RoundEndsIInv == IInv /\ RoundEnds => IInv'
<1> SUFFICES ASSUME IInv, RoundEnds PROVE IInv'
  OBVIOUS
<1> USE DEF IInv
<1>1. /\ mainpc = "events" /\ cur = NoFd /\ todo = {} /\ mainpc' = "wait"
      /\ UNCHANGED <<program, backlog, peer, unread, edges, waiting, list, last, garbage,
                     todo, cur>>
  BY DEF RoundEnds, kernel
<1>2. Open' = Open
  BY <1>1 DEF Open
<1>3. TypeOK' /\ PlacesOK' /\ RoundOK' /\ AcceptsAreReady' /\ ClosedIsEmpty'
  BY <1>1, <1>2 DEF TypeOK, PlacesOK, RoundOK, AcceptsAreReady, ClosedIsEmpty
<1>4. OneClientOK'
  BY <1>1, <1>2 DEF OneClientOK
<1>5. ReadsAreReady' /\ UnreadIsAnnounced'
  BY <1>1, <1>2 DEF ReadsAreReady, UnreadIsAnnounced, Readable, Running
<1> QED
  BY <1>3, <1>4, <1>5

\* A connection more is open.
LEMMA OneMore ==
  ASSUME IInv, backlog > 0, NEW cfd \in Fds \ Open,
         backlog' = backlog - 1, peer' = [peer EXCEPT ![cfd] = "open"]
  PROVE  /\ Open' = Open \cup {cfd}
         /\ backlog' \in Nat
         /\ peer' \in [Fds -> {"none", "open", "closed", "reset", "broken"}]
BY DEF IInv, TypeOK, Open

\* accept() in a loop that serves everybody.
LEMMA AcceptIInv == IInv /\ Accept => IInv'
<1> SUFFICES ASSUME IInv, Accept PROVE IInv'
  OBVIOUS
<1> USE DEF IInv
<1> DEFINE cfd == Min(Fds \ Open)
           place == Place(cfd)
<1>1. /\ mainpc = "events" /\ cur = NoFd /\ Listen \in todo /\ Fds \ Open # {}
      /\ backlog' = backlog - 1
      /\ peer' = [peer EXCEPT ![cfd] = "open"]
      /\ list' = [list EXCEPT ![place] = cfd]
      /\ last' = Max({last, cfd})
      /\ todo' = (todo \ {Listen}) \cup (garbage \cap (last + 1 .. last'))
      /\ UNCHANGED <<program, unread, edges, waiting, garbage, mainpc, cur>>
  BY DEF Accept, Accepting, Extend
<1>2. backlog > 0 /\ program \notin OneClient
  BY <1>1 DEF AcceptsAreReady, OneClientOK
<1>3. cfd \in Fds \ Open
  BY <1>1, DescriptorIsFree
<1>4. place \in Slots /\ list[place] = NoFd
  BY <1>3, PlaceIsFree
<1>5. place = IF program = "poll.c" THEN place ELSE cfd
  BY DEF Place
<1> HIDE DEF cfd, place
<1>6. /\ Open' = Open \cup {cfd}
      /\ backlog' \in Nat
      /\ peer' \in [Fds -> {"none", "open", "closed", "reset", "broken"}]
  BY <1>1, <1>2, <1>3, OneMore
<1>7. last' \in 0 .. LastFd /\ (last = LastFd => last' = LastFd)
  <2>1. last \in Nat /\ cfd \in Nat /\ last <= LastFd /\ cfd <= LastFd
    BY <1>3, FdsAre, EchoAssumption DEF TypeOK, Fds
  <2>2. last' = IF last >= cfd THEN last ELSE cfd
    BY <1>1, <2>1, MaxOfTwo
  <2> QED
    BY <2>1, <2>2, EchoAssumption
<1>8. /\ list' \in [Slots -> Fds \cup {NoFd}]
      /\ list'[place] = cfd /\ \A i \in Slots \ {place} : list'[i] = list[i]
  BY <1>1, <1>3, <1>4 DEF TypeOK
<1>9. TypeOK'
  <2>1. todo' \subseteq Slots \cup {Listen}
    BY <1>1 DEF TypeOK
  <2> QED
    BY <1>1, <1>6, <1>7, <1>8, <2>1 DEF TypeOK
<1>10. PlacesOK'
  <2>1. \A i \in Slots : list'[i] # NoFd => list'[i] \in Open'
    BY <1>6, <1>8 DEF PlacesOK
  <2>2. \A i, j \in Slots : list'[i] = list'[j] /\ list'[i] # NoFd => i = j
    BY <1>3, <1>8 DEF PlacesOK
  <2>3. program' # "poll.c" => \A i \in Slots : list'[i] \in {NoFd, i}
    BY <1>1, <1>5, <1>8 DEF PlacesOK
  <2>4. program' = "epoll_ET.c" => last' = LastFd /\ \A fd \in Open' : list'[fd] = fd
    <3>1. \A fd \in Open : fd \in Slots
      BY FdsAre DEF Open
    <3> QED
      BY <1>1, <1>3, <1>5, <1>6, <1>7, <1>8, <3>1 DEF PlacesOK
  <2> QED
    BY <2>1, <2>2, <2>3, <2>4 DEF PlacesOK
<1>11. AcceptsAreReady'
  <2>1. Listen \notin todo'
    BY <1>1, FdsAre DEF TypeOK
  <2> QED
    BY <1>6, <2>1 DEF AcceptsAreReady
<1>12. RoundOK' /\ OneClientOK'
  BY <1>1, <1>2 DEF RoundOK, OneClientOK
<1>13. ClosedIsEmpty'
  BY <1>1, <1>3 DEF ClosedIsEmpty, TypeOK
<1>14. ReadsAreReady'
  <2> SUFFICES ASSUME garbage = {}, NEW i \in todo \ {Listen}
               PROVE  /\ list'[i] # NoFd /\ list'[i] \in Open'
                      /\ unread'[list'[i]] > 0 \/ peer'[list'[i]] # "open"
    BY <1>1 DEF ReadsAreReady, Readable
  <2>1. i \in Slots /\ list[i] # NoFd /\ Readable(list[i])
    BY DEF ReadsAreReady, TypeOK
  <2>2. list'[i] = list[i] /\ list[i] # cfd
    BY <1>3, <1>4, <1>8, <2>1 DEF Readable
  <2> QED
    BY <1>1, <1>6, <2>1, <2>2 DEF Readable, TypeOK, Open
<1>15. UnreadIsAnnounced'
  <2> SUFFICES ASSUME NEW fd \in Open', unread[fd] > 0
               PROVE  \/ program \in LevelTriggered
                      \/ program = "epoll_ET.c" /\ fd \in edges
                      \/ \E i \in todo' \ {Listen} : list'[i] = fd
    BY <1>1 DEF UnreadIsAnnounced
  <2>1. fd \in Open
    BY <1>3, <1>6 DEF ClosedIsEmpty, Open
  <2>2. fd # cur
    BY <1>1, <2>1, FdsAre DEF Open
  <2>3. CASE \E i \in todo \ {Listen} : list[i] = fd
    <3>1. PICK i \in todo \ {Listen} : list[i] = fd
      BY <2>3
    <3>2. i \in todo' \ {Listen} /\ list'[i] = fd
      BY <1>1, <1>4, <1>8, <2>1, <3>1, FdsAre DEF TypeOK, Open
    <3> QED
      BY <3>2
  <2> QED
    BY <1>1, <2>1, <2>2, <2>3 DEF UnreadIsAnnounced, Running
<1> QED
  BY <1>9, <1>10, <1>11, <1>12, <1>13, <1>14, <1>15

\* accept() fails, and the round goes on without it, or the server ends.
LEMMA AcceptFailsIInv == IInv /\ AcceptFails => IInv'
<1> SUFFICES ASSUME IInv, AcceptFails PROVE IInv'
  OBVIOUS
<1> USE DEF IInv
<1>1. /\ mainpc = "events" /\ cur = NoFd /\ Listen \in todo
      /\ todo' = todo \ {Listen} /\ mainpc' \in {"events", "exited"}
      /\ UNCHANGED <<program, backlog, peer, unread, edges, waiting, list, last, garbage, cur>>
  BY DEF AcceptFails, Accepting, kernel
<1>2. Open' = Open /\ program \notin OneClient
  BY <1>1 DEF Open, OneClientOK
<1>3. TypeOK' /\ PlacesOK' /\ AcceptsAreReady' /\ ClosedIsEmpty'
  BY <1>1, <1>2 DEF TypeOK, PlacesOK, AcceptsAreReady, ClosedIsEmpty
<1>4. RoundOK' /\ OneClientOK'
  BY <1>1, <1>2 DEF RoundOK, OneClientOK
<1>5. ReadsAreReady' /\ UnreadIsAnnounced'
  BY <1>1, <1>2 DEF ReadsAreReady, UnreadIsAnnounced, Readable, Running
<1> QED
  BY <1>3, <1>4, <1>5

\* The one accept() of a server of one client.
LEMMA AcceptOneIInv == IInv /\ AcceptOne => IInv'
<1> SUFFICES ASSUME IInv, AcceptOne PROVE IInv'
  OBVIOUS
<1> USE DEF IInv
<1> DEFINE cfd == Min(Fds \ Open)
<1>1. /\ mainpc = "accept" /\ backlog > 0 /\ mainpc' = "events"
      /\ backlog' = backlog - 1
      /\ peer' = [peer EXCEPT ![cfd] = "open"]
      /\ cur' = cfd
      /\ UNCHANGED <<program, unread, edges, waiting, list, last, garbage, todo>>
  BY DEF AcceptOne
<1>2. program \in OneClient /\ todo = {} /\ Open = {}
  BY <1>1 DEF OneClientOK
<1>3. cfd \in Fds \ Open
  <2>1. Fds # {}
    BY EchoAssumption DEF Fds
  <2> QED
    BY <1>2, <2>1, DescriptorIsFree
<1> HIDE DEF cfd
<1>4. /\ Open' = {cfd}
      /\ backlog' \in Nat
      /\ peer' \in [Fds -> {"none", "open", "closed", "reset", "broken"}]
  BY <1>1, <1>2, <1>3, OneMore
<1>5. TypeOK'
  BY <1>1, <1>3, <1>4 DEF TypeOK
<1>6. PlacesOK'
  BY <1>1, <1>2, <1>4 DEF PlacesOK, OneClient
<1>7. AcceptsAreReady' /\ RoundOK' /\ OneClientOK'
  BY <1>1, <1>2, <1>3, <1>4, FdsAre DEF AcceptsAreReady, RoundOK, OneClientOK
<1>8. ClosedIsEmpty'
  BY <1>1, <1>3 DEF ClosedIsEmpty, TypeOK
<1>9. ReadsAreReady' /\ UnreadIsAnnounced'
  BY <1>1, <1>2, <1>4 DEF ReadsAreReady, UnreadIsAnnounced
<1> QED
  BY <1>5, <1>6, <1>7, <1>8, <1>9

\* What an Echo() does, whose connection is open.
LEMMA EchoDoes ==
  ASSUME IInv, NEW fd \in Open, Echo(fd)
  PROVE  /\ Open' = Open
         /\ peer' \in [Fds -> {"none", "open", "closed", "reset", "broken"}]
         /\ unread' \in [Fds -> Nat]
         /\ \A x \in Fds \ {fd} : unread'[x] = unread[x] /\ peer'[x] = peer[x]
         /\ waiting' \subseteq Fds
         /\ mainpc' \in {"events", "exited"} /\ cur' \in {fd, NoFd}
         /\ mainpc' = "exited" => cur' = NoFd
         /\ cur' # NoFd => mainpc' = "events" /\ ReadOn(fd)
         /\ mainpc' = "events" /\ program \in OneClient \cup {"epoll_ET.c"} => cur' = fd
<1>1. fd \in Fds /\ peer[fd] # "none"
  BY DEF Open
<1>2. unread' = [unread EXCEPT ![fd] = unread[fd] - Min({unread[fd], ReadSize[program]})]
  BY DEF Echo
<1>3. unread[fd] - Min({unread[fd], ReadSize[program]}) \in Nat
  <2>1. unread[fd] \in Nat /\ ReadSize[program] \in Nat
    BY <1>1, EchoAssumption DEF IInv, TypeOK
  <2> QED
    BY <2>1, MinOfTwo
<1>4. unread' \in [Fds -> Nat] /\ \A x \in Fds \ {fd} : unread'[x] = unread[x]
  BY <1>2, <1>3 DEF IInv, TypeOK
<1>5. /\ peer' \in [Fds -> {"none", "open", "closed", "reset", "broken"}]
      /\ \A x \in Fds \ {fd} : peer'[x] = peer[x]
      /\ peer'[fd] # "none"
  BY <1>1 DEF Echo, IInv, TypeOK
<1>6. Open' = Open
  BY <1>1, <1>5 DEF Open
<1>7. /\ waiting' \subseteq Fds
      /\ mainpc' \in {"events", "exited"} /\ cur' \in {fd, NoFd}
      /\ mainpc' = "exited" => cur' = NoFd
      /\ cur' # NoFd => mainpc' = "events" /\ ReadOn(fd)
      /\ mainpc' = "events" /\ program \in OneClient \cup {"epoll_ET.c"} => cur' = fd
  BY DEF Echo, IInv, TypeOK, OneClient, ReadOn
<1> QED
  BY <1>4, <1>5, <1>6, <1>7

\* read() and write() for a place that was reported.
LEMMA ReadDataIInv ==
  ASSUME IInv, NEW i \in Slots, ReadData(i)
  PROVE  IInv'
<1> USE DEF IInv
<1> DEFINE fd == list[i]
<1>1. /\ mainpc = "events" /\ cur = NoFd /\ i \in todo \ {Listen}
      /\ fd # NoFd /\ Echo(fd) /\ todo' = todo \ {i}
      /\ UNCHANGED <<program, backlog, edges, list, last, garbage>>
  BY DEF ReadData, Turn
<1>2. fd \in Open /\ fd \in Fds /\ program \notin OneClient
  BY <1>1 DEF PlacesOK, Open, OneClientOK
<1> HIDE DEF fd
<1>3. /\ Open' = Open
      /\ peer' \in [Fds -> {"none", "open", "closed", "reset", "broken"}]
      /\ unread' \in [Fds -> Nat]
      /\ \A x \in Fds \ {fd} : unread'[x] = unread[x] /\ peer'[x] = peer[x]
      /\ waiting' \subseteq Fds
      /\ mainpc' \in {"events", "exited"} /\ cur' \in {fd, NoFd}
      /\ mainpc' = "exited" => cur' = NoFd
      /\ cur' # NoFd => mainpc' = "events" /\ ReadOn(fd)
      /\ mainpc' = "events" /\ program \in OneClient \cup {"epoll_ET.c"} => cur' = fd
  BY <1>1, <1>2, EchoDoes
<1>4. \A j \in todo \ {Listen, i} : j \in Slots /\ (list[j] # NoFd => list[j] # fd)
  BY <1>1 DEF PlacesOK, TypeOK, fd
<1>5. TypeOK'
  BY <1>1, <1>2, <1>3 DEF TypeOK
<1>6. PlacesOK' /\ AcceptsAreReady'
  BY <1>1, <1>3 DEF PlacesOK, AcceptsAreReady
<1>7. RoundOK'
  <2>1. cur' # NoFd => /\ cur' = fd /\ program = "epoll_ET.c"
                       /\ \A j \in todo' \ {Listen} : list[j] # cur'
    BY <1>1, <1>2, <1>3, <1>4, FdsAre DEF ReadOn, OneClient
  <2> QED
    BY <1>1, <1>2, <1>3, <2>1 DEF RoundOK
<1>8. OneClientOK'
  BY <1>1, <1>2, <1>3 DEF OneClientOK
<1>9. ClosedIsEmpty'
  <2>1. \A x \in Fds : peer'[x] = "none" => x # fd
    BY <1>2, <1>3 DEF Open
  <2> QED
    BY <1>3, <2>1 DEF ClosedIsEmpty
<1>10. ReadsAreReady'
  <2> SUFFICES ASSUME garbage = {}, NEW j \in todo \ {Listen, i}
               PROVE  /\ list[j] # NoFd /\ list[j] \in Open'
                      /\ unread'[list[j]] > 0 \/ peer'[list[j]] # "open"
    BY <1>1 DEF ReadsAreReady, Readable
  <2>1. list[j] # NoFd /\ Readable(list[j]) /\ list[j] # fd /\ list[j] \in Fds
    BY <1>4 DEF ReadsAreReady, TypeOK, NoFd
  <2> QED
    BY <1>3, <2>1 DEF Readable
<1>11. UnreadIsAnnounced'
  <2> SUFFICES ASSUME NEW x \in Open, unread'[x] > 0, mainpc' = "events"
               PROVE  \/ program \in LevelTriggered
                      \/ x = cur'
                      \/ program = "epoll_ET.c" /\ x \in edges
                      \/ \E j \in todo' \ {Listen} : list[j] = x
    BY <1>1, <1>3 DEF UnreadIsAnnounced, Running
  <2>1. CASE x = fd
    BY <1>2, <1>3, <2>1 DEF TypeOK, Programs
  <2>2. CASE x # fd
    <3>1. unread[x] > 0 /\ x # cur
      BY <1>1, <1>3, <2>2, FdsAre DEF Open
    <3>2. \A j \in todo \ {Listen} : list[j] = x => j \in todo' \ {Listen}
      BY <1>1, <2>2 DEF fd
    <3> QED
      BY <1>1, <3>1, <3>2 DEF UnreadIsAnnounced, Running
  <2> QED
    BY <2>1, <2>2
<1> QED
  BY <1>5, <1>6, <1>7, <1>8, <1>9, <1>10, <1>11

\* read() and write() once more for the same connection.
LEMMA ReadMoreIInv == IInv /\ ReadMore => IInv'
<1> SUFFICES ASSUME IInv, ReadMore PROVE IInv'
  OBVIOUS
<1> USE DEF IInv
<1>1. /\ mainpc = "events" /\ cur # NoFd /\ Echo(cur)
      /\ UNCHANGED <<program, backlog, edges, list, last, garbage, todo>>
  BY DEF ReadMore
<1>2. /\ cur \in Open /\ cur \in Fds /\ program \in OneClient \cup {"epoll_ET.c"}
      /\ \A i \in todo \ {Listen} : list[i] # cur
  BY <1>1 DEF RoundOK, Open
<1>3. /\ Open' = Open
      /\ peer' \in [Fds -> {"none", "open", "closed", "reset", "broken"}]
      /\ unread' \in [Fds -> Nat]
      /\ \A x \in Fds \ {cur} : unread'[x] = unread[x] /\ peer'[x] = peer[x]
      /\ waiting' \subseteq Fds
      /\ mainpc' \in {"events", "exited"} /\ cur' \in {cur, NoFd}
      /\ mainpc' = "exited" => cur' = NoFd
      /\ mainpc' = "events" => cur' = cur
  BY <1>1, <1>2, EchoDoes
<1>4. TypeOK'
  BY <1>1, <1>2, <1>3 DEF TypeOK
<1>5. PlacesOK' /\ AcceptsAreReady'
  BY <1>1, <1>3 DEF PlacesOK, AcceptsAreReady
<1>6. RoundOK' /\ OneClientOK'
  BY <1>1, <1>2, <1>3 DEF RoundOK, OneClientOK
<1>7. ClosedIsEmpty'
  <2>1. \A x \in Fds : peer'[x] = "none" => x # cur
    BY <1>2, <1>3 DEF Open
  <2> QED
    BY <1>3, <2>1 DEF ClosedIsEmpty
<1>8. ReadsAreReady'
  <2> SUFFICES ASSUME garbage = {}, NEW j \in todo \ {Listen}
               PROVE  /\ list[j] # NoFd /\ list[j] \in Open'
                      /\ unread'[list[j]] > 0 \/ peer'[list[j]] # "open"
    BY <1>1 DEF ReadsAreReady, Readable
  <2>1. list[j] # NoFd /\ Readable(list[j]) /\ list[j] # cur /\ list[j] \in Fds
    BY <1>2 DEF ReadsAreReady, TypeOK
  <2> QED
    BY <1>3, <2>1 DEF Readable
<1>9. UnreadIsAnnounced'
  <2> SUFFICES ASSUME NEW x \in Open, unread'[x] > 0, mainpc' = "events", x # cur
               PROVE  \/ program \in LevelTriggered
                      \/ program = "epoll_ET.c" /\ x \in edges
                      \/ \E j \in todo \ {Listen} : list[j] = x
    BY <1>1, <1>3 DEF UnreadIsAnnounced, Running
  <2> QED
    BY <1>1, <1>3 DEF UnreadIsAnnounced, Running, Open
<1> QED
  BY <1>4, <1>5, <1>6, <1>7, <1>8, <1>9

\* read() finds the end, and the connection is closed and forgotten.
LEMMA ReadEndIInv ==
  ASSUME IInv, NEW i \in Slots, ReadEnd(i)
  PROVE  IInv'
<1> USE DEF IInv
<1> DEFINE fd == list[i]
<1>1. /\ mainpc = "events" /\ cur = NoFd /\ i \in todo \ {Listen} /\ fd # NoFd
      /\ program # "epoll_ET.c" /\ unread[fd] = 0
      /\ peer' = [peer EXCEPT ![fd] = "none"] /\ edges' = edges \ {fd}
      /\ list' = [list EXCEPT ![i] = NoFd] /\ todo' = todo \ {i}
      /\ UNCHANGED <<program, backlog, unread, waiting, last, garbage, mainpc, cur>>
  BY DEF ReadEnd, Turn, Forget
<1>2. fd \in Open /\ fd \in Fds /\ program \in LevelTriggered
  BY <1>1 DEF PlacesOK, Open, OneClientOK, TypeOK, Programs
<1> HIDE DEF fd
<1>3. Open' = Open \ {fd}
  BY <1>1, <1>2 DEF Open, TypeOK
<1>4. \A j \in Slots \ {i} : list'[j] = list[j] /\ (list[j] # NoFd => list[j] # fd)
  BY <1>1 DEF PlacesOK, TypeOK, fd
<1>5. TypeOK'
  BY <1>1, <1>2 DEF TypeOK
<1>6. PlacesOK'
  <2>1. list'[i] = NoFd
    BY <1>1 DEF TypeOK
  <2> QED
    BY <1>1, <1>3, <1>4, <2>1 DEF PlacesOK
<1>7. AcceptsAreReady'
  BY <1>1 DEF AcceptsAreReady
<1>8. RoundOK' /\ OneClientOK'
  BY <1>1, <1>2 DEF RoundOK, OneClientOK, LevelTriggered, OneClient
<1>9. ClosedIsEmpty'
  BY <1>1, <1>2 DEF ClosedIsEmpty, TypeOK
<1>10. ReadsAreReady'
  <2> SUFFICES ASSUME garbage = {}, NEW j \in todo \ {Listen, i}
               PROVE  /\ list'[j] # NoFd /\ list'[j] \in Open'
                      /\ unread'[list'[j]] > 0 \/ peer'[list'[j]] # "open"
    BY <1>1 DEF ReadsAreReady, Readable
  <2>1. j \in Slots /\ list[j] # NoFd /\ Readable(list[j]) /\ list[j] \in Fds
    BY DEF ReadsAreReady, TypeOK
  <2>2. list'[j] = list[j] /\ list[j] # fd
    BY <1>4, <2>1
  <2>3. peer'[list[j]] = peer[list[j]]
    BY <1>1, <2>1, <2>2 DEF TypeOK
  <2> QED
    BY <1>1, <1>3, <2>1, <2>2, <2>3 DEF Readable
<1>11. UnreadIsAnnounced'
  BY <1>1, <1>2 DEF UnreadIsAnnounced
<1> QED
  BY <1>5, <1>6, <1>7, <1>8, <1>9, <1>10, <1>11

\* epoll_ET.c leaves its loop at the end of the bytes.
LEMMA ReadNoMoreIInv == IInv /\ ReadNoMore => IInv'
<1> SUFFICES ASSUME IInv, ReadNoMore PROVE IInv'
  OBVIOUS
<1> USE DEF IInv
<1>1. PICK fd : /\ unread[fd] = 0
                /\ \/ fd = cur /\ cur # NoFd /\ todo' = todo
                   \/ \E i \in todo \ {Listen} :
                        cur = NoFd /\ fd = list[i] /\ todo' = todo \ {i}
                /\ mainpc = "events" /\ program = "epoll_ET.c" /\ cur' = NoFd
                /\ UNCHANGED <<program, backlog, peer, unread, edges, waiting, list, last,
                               garbage, mainpc>>
  BY DEF ReadNoMore, LoopEnds, kernel, Turn
<1>2. Open' = Open /\ todo' \subseteq todo
  BY <1>1 DEF Open
<1>3. TypeOK' /\ PlacesOK' /\ AcceptsAreReady' /\ ClosedIsEmpty'
  BY <1>1, <1>2 DEF TypeOK, PlacesOK, AcceptsAreReady, ClosedIsEmpty
<1>4. RoundOK' /\ OneClientOK'
  BY <1>1 DEF RoundOK, OneClientOK, OneClient
<1>5. ReadsAreReady'
  BY <1>1, <1>2 DEF ReadsAreReady, Readable
<1>6. UnreadIsAnnounced'
  <2> SUFFICES ASSUME NEW x \in Open, unread[x] > 0
               PROVE  \/ x \in edges
                      \/ \E j \in todo' \ {Listen} : list[j] = x
    BY <1>1, <1>2 DEF UnreadIsAnnounced
  <2>1. x # fd /\ unread[x] # 0
    BY <1>1 DEF Open, TypeOK
  <2>2. x # cur
    BY <1>1, <2>1, FdsAre DEF Open
  <2>3. \A j \in todo : list[j] = x => j \in todo'
    BY <1>1, <2>1
  <2> QED
    BY <1>1, <2>2, <2>3 DEF UnreadIsAnnounced, Running, LevelTriggered
<1> QED
  BY <1>3, <1>4, <1>5, <1>6

\* The one client has left.
LEMMA ClientLeftIInv == IInv /\ ClientLeft => IInv'
<1> SUFFICES ASSUME IInv, ClientLeft PROVE IInv'
  OBVIOUS
<1> USE DEF IInv
<1>1. /\ cur # NoFd /\ program \in OneClient /\ unread[cur] = 0
      /\ peer' = [peer EXCEPT ![cur] = "none"] /\ mainpc' = "exited" /\ cur' = NoFd
      /\ UNCHANGED <<program, backlog, unread, edges, waiting, list, last, garbage, todo>>
  BY DEF ClientLeft
<1>2. cur \in Open /\ cur \in Fds /\ todo = {} /\ Open = {cur}
  BY <1>1 DEF RoundOK, Open, OneClientOK
<1>3. Open' = {}
  BY <1>1, <1>2 DEF Open, TypeOK
<1>4. TypeOK'
  BY <1>1, <1>2 DEF TypeOK
<1>6. PlacesOK'
  BY <1>1, <1>3 DEF PlacesOK, OneClientOK, OneClient
<1>7. AcceptsAreReady'
  BY <1>1 DEF AcceptsAreReady
<1>8. RoundOK' /\ OneClientOK'
  BY <1>1, <1>2 DEF RoundOK, OneClientOK
<1>9. ClosedIsEmpty'
  BY <1>1, <1>2 DEF ClosedIsEmpty, TypeOK
<1>10. ReadsAreReady' /\ UnreadIsAnnounced'
  BY <1>1, <1>2 DEF ReadsAreReady, UnreadIsAnnounced, Running
<1> QED
  BY <1>4, <1>6, <1>7, <1>8, <1>9, <1>10

\* read() fails, and the server ends.
LEMMA ReadFailsIInv ==
  ASSUME IInv, NEW i \in Slots, ReadFails(i)
  PROVE  IInv'
<1> USE DEF IInv
<1>1. /\ cur = NoFd /\ mainpc' = "exited" /\ i \in todo
      /\ UNCHANGED <<program, backlog, peer, unread, edges, waiting, list, last, garbage,
                     todo, cur>>
  BY DEF ReadFails, Turn, kernel
<1>2. Open' = Open
  BY <1>1 DEF Open
<1>3. TypeOK' /\ PlacesOK' /\ AcceptsAreReady' /\ ClosedIsEmpty'
  BY <1>1, <1>2 DEF TypeOK, PlacesOK, AcceptsAreReady, ClosedIsEmpty
<1>4. RoundOK' /\ OneClientOK'
  BY <1>1 DEF RoundOK, OneClientOK
<1>5. ReadsAreReady' /\ UnreadIsAnnounced'
  BY <1>1, <1>2 DEF ReadsAreReady, UnreadIsAnnounced, Readable, Running
<1> QED
  BY <1>3, <1>4, <1>5

\* Every step keeps the invariant.
LEMMA NextIInv == IInv /\ [Next]_vars => IInv'
<1> SUFFICES ASSUME IInv, [Next]_vars PROVE IInv'
  OBVIOUS
<1>1. CASE UNCHANGED vars
  BY <1>1 DEF IInv, vars, kernel, server, TypeOK, PlacesOK, AcceptsAreReady, RoundOK, OneClientOK,
     ClosedIsEmpty, ReadsAreReady, UnreadIsAnnounced, Readable, Open, Running
<1>2. CASE Client
  BY <1>2, ConnectIInv, RequestIInv, LeaveIInv DEF Client
<1>3. CASE Server
  BY <1>3, WaitIInv, RoundEndsIInv, AcceptIInv, AcceptFailsIInv, AcceptOneIInv, ReadDataIInv, ReadMoreIInv,
     ReadEndIInv, ReadNoMoreIInv, ClientLeftIInv, ReadFailsIInv DEF Server
<1> QED
  BY <1>1, <1>2, <1>3 DEF Next

-----------------------------------------------------------------------------
(* The theorems.                                                           *)

\* The invariant holds in every reachable state.
THEOREM Inductive == SafeSpec => []IInv
<1> QED
  BY InitIInv, NextIInv, PTL DEF SafeSpec

\* read() never blocks: what was reported is still there when its turn comes,
\* whatever the clients have done since, and however many there are.
THEOREM ReadsNeverBlock == SafeSpec => []ReadsAreReady
<1>1. IInv => ReadsAreReady
  BY DEF IInv
<1> QED
  BY <1>1, Inductive, PTL

\* Bytes that wait to be read will be reported, or are being read: no edge is
\* used up by a read() that leaves bytes behind.
THEOREM NoBytesAreForgotten == SafeSpec => []UnreadIsAnnounced
<1>1. IInv => UnreadIsAnnounced
  BY DEF IInv
<1> QED
  BY <1>1, Inductive, PTL

\* The server waits on every connection at most once, and on none that was
\* closed; accept() never blocks.
THEOREM PlacesStayInOrder == SafeSpec => [](PlacesOK /\ AcceptsAreReady)
<1>1. IInv => PlacesOK /\ AcceptsAreReady
  BY DEF IInv
<1> QED
  BY <1>1, Inductive, PTL
=============================================================================

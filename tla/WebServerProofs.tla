--------------------------- MODULE WebServerProofs ---------------------------
(***************************************************************************)
(* The safety properties of WebServer for any number of workers, any       *)
(* limits and any range of descriptors.  What carries them is that a slot  *)
(* of users and the descriptor of the same number are taken and given up   *)
(* by the main thread alone, in two places where the two disagree: between *)
(* accept() and the end of init(), and inside close_conn().                *)
(***************************************************************************)
EXTENDS WebServer, FiniteSetTheorems, SequenceTheorems, WellFoundedInduction, TLAPS

\* What the main thread knows of the connection it is at, by program counter.
MainKnows ==
  /\ mainpc = "loop" => sockfd = NoFd
  /\ mainpc \in {"init", "append", "close", "closed"} =>
       sockfd \in ConnFds /\ m_sockfd[sockfd] = sockfd
  /\ mainpc = "init" =>
       peer[sockfd] # "none" /\ epoll[sockfd] = "none" /\ m_user_count < MaxFd
  /\ mainpc \in {"append", "close"} =>
       peer[sockfd] # "none" /\ epoll[sockfd] # "none"
  /\ mainpc = "closed" => peer[sockfd] = "none" /\ epoll[sockfd] = "none"

\* Slots, sockets and epoll agree on every other descriptor.
SlotsAgree ==
  \A fd \in ConnFds :
    /\ m_sockfd[fd] \in {fd, NoFd}
    /\ Running /\ (mainpc = "closed" => fd # sockfd) =>
         (fd \in Slots <=> peer[fd] # "none")
    /\ Running /\ (mainpc \in {"init", "closed"} => fd # sockfd) =>
         (fd \in Slots <=> epoll[fd] # "none")

\* A batch has one event of a descriptor, and none of the one in hand; the
\* event of lfd is there only while a connection waits.
BatchIsDistinct ==
  /\ \A e, f \in batch : e.fd = f.fd => e = f
  /\ \A e \in batch :
       /\ e.fd # sockfd
       /\ e.fd = Listen => ~e.hup /\ backlog > 0

\* A worker that has read m_sockfd is at the task of that slot.
SocksAreRead ==
  \A w \in Workers : sock[w] # NoFd => sock[w] = running[w]

\* m_user_count covers the connections, the one being initialised aside.
CountCovers ==
  /\ mainpc \notin {"init", "crashed"} => m_user_count >= Cardinality(Slots)
  /\ mainpc = "init" => m_user_count + 1 >= Cardinality(Slots)

IInv ==
  /\ TypeOK /\ MainKnows /\ SlotsAgree /\ EventsAreFresh /\ BatchIsDistinct
  /\ SocksAreRead /\ CountCovers /\ DisabledIsPending

-----------------------------------------------------------------------------
(* Descriptors, and the least of a set of numbers.                         *)

\* Neither lfd, as events name it, nor -1 is a descriptor of a connection.
LEMMA ConnFdsFacts ==
  /\ ConnFds \subseteq Nat /\ Listen \notin ConnFds /\ NoFd \notin ConnFds
  /\ Listen # NoFd
  /\ IsFiniteSet(ConnFds)
<1>1. FirstFd \in Nat \ {0} /\ OpenFiles \in Nat
  BY ServerAssumption
<1> QED
  BY <1>1, FS_Interval DEF ConnFds, Listen, NoFd

\* A set of naturals that is not empty has a least member: accept() and recv()
\* are modelled with it.
LEMMA MinIsLeast ==
  ASSUME NEW S \in SUBSET Nat, S # {}
  PROVE  Min(S) \in S /\ \A y \in S : Min(S) <= y
<1> DEFINE Less == {ss \in Nat \X Nat : ss[1] < ss[2]}
<1>1. IsWellFoundedOn(Less, Nat)
  BY NatLessThanWellFounded DEF OpToRel
<1>2. PICK x \in S : \A y \in S : ~(<<y, x>> \in Less)
  BY <1>1, WFMin, Zenon
<1>3. ASSUME NEW y \in S PROVE x <= y
  <2>1. x \in Nat /\ y \in Nat
    OBVIOUS
  <2>2. y < x => <<y, x>> \in Less
    BY <2>1
  <2> QED
    BY <1>2, <2>1, <2>2
<1> QED
  BY <1>3 DEF Min

\* recv() never reads more than waits, nor more than there is room for.
LEMMA BytesReadFits ==
  ASSUME TypeOK, NEW fd \in ConnFds
  PROVE  /\ BytesRead(fd) \in Nat
         /\ BytesRead(fd) <= unread[fd]
         /\ m_read_idx[fd] + BytesRead(fd) <= BufferSize
<1>1. unread[fd] \in Nat /\ m_read_idx[fd] \in Nat /\ m_read_idx[fd] <= BufferSize
  BY ServerAssumption DEF TypeOK
<1>2. BufferSize - m_read_idx[fd] \in Nat
  BY <1>1, ServerAssumption
<1> DEFINE limits == {unread[fd], BufferSize - m_read_idx[fd]}
<1>3. limits \in SUBSET Nat /\ limits # {}
  BY <1>1, <1>2
<1>4. Min(limits) \in limits /\ \A y \in limits : Min(limits) <= y
  BY <1>3, MinIsLeast
<1>5. Min(limits) \in Nat /\ Min(limits) <= unread[fd]
      /\ Min(limits) <= BufferSize - m_read_idx[fd]
  BY <1>3, <1>4
<1>6. BytesRead(fd) = Min(limits)
  BY DEF BytesRead
<1> HIDE DEF limits
<1> QED
  BY <1>1, <1>5, <1>6, ServerAssumption

\* accept() returns a descriptor that was free.
LEMMA AcceptReturnsFree ==
  FreeFds # {} => Min(FreeFds) \in ConnFds /\ peer[Min(FreeFds)] = "none"
<1>1. FreeFds \in SUBSET Nat
  BY ConnFdsFacts DEF FreeFds
<1> QED
  BY <1>1, MinIsLeast DEF FreeFds, OpenFds

\* Slots are finitely many, so they can be counted.
LEMMA SlotsAreFinite ==
  IsFiniteSet(Slots) /\ Cardinality(Slots) \in Nat
BY ConnFdsFacts, FS_Subset, FS_CardinalityType DEF Slots

\* A connection arrives on lfd.
LEMMA ConnectInv ==
  ASSUME IInv, Connect
  PROVE  IInv'
<1>1. TypeOK'
  BY ServerAssumption DEF IInv, TypeOK, slots, main, pool, Connect
<1>2. BatchIsDistinct'
  BY DEF IInv, TypeOK, BatchIsDistinct, main, Connect
<1>3. /\ MainKnows' /\ SlotsAgree' /\ EventsAreFresh' /\ SocksAreRead'
      /\ DisabledIsPending' /\ CountCovers'
  BY DEF IInv, MainKnows, SlotsAgree, EventsAreFresh, SocksAreRead, CountCovers,
     DisabledIsPending, Handling, Rearming, slots, main, pool, Slots, Connect
<1> QED
  BY <1>1, <1>2, <1>3 DEF IInv

\* A client sends.
LEMMA SendInv ==
  ASSUME IInv, NEW fd \in ConnFds, Send(fd)
  PROVE  IInv'
<1>1. TypeOK'
  BY ConnFdsFacts, ServerAssumption DEF IInv, TypeOK, MainKnows, SlotsAgree,
     EventsAreFresh, BatchIsDistinct, SocksAreRead, CountCovers,
     DisabledIsPending, Handling, Rearming, kernel, slots, main, pool, Event,
     Running, Slots, EpollStates, PeerStates, MainStates, Send
<1>2. /\ MainKnows' /\ SlotsAgree' /\ EventsAreFresh' /\ BatchIsDistinct'
      /\ SocksAreRead' /\ DisabledIsPending' /\ CountCovers'
  BY DEF IInv, TypeOK, MainKnows, SlotsAgree, EventsAreFresh, BatchIsDistinct,
     SocksAreRead, CountCovers, DisabledIsPending, Handling, Rearming, kernel,
     slots, main, pool, Event, Running, Slots, EpollStates, PeerStates,
     MainStates, Send
<1> QED
  BY <1>1, <1>2 DEF IInv

\* A client leaves.
LEMMA LeaveInv ==
  ASSUME IInv, NEW fd \in ConnFds, Leave(fd)
  PROVE  IInv'
<1>1. TypeOK'
  BY DEF IInv, TypeOK, slots, main, pool, PeerStates, Leave
<1>2. MainKnows'
  BY DEF IInv, MainKnows, slots, main, Leave
<1>3. SlotsAgree'
  BY DEF IInv, SlotsAgree, slots, main, Slots, Leave
<1>4. EventsAreFresh'
  BY DEF IInv, EventsAreFresh, slots, main, Leave
<1>5. BatchIsDistinct' /\ SocksAreRead' /\ DisabledIsPending' /\ CountCovers'
  BY DEF IInv, TypeOK, MainKnows, SlotsAgree, EventsAreFresh, BatchIsDistinct,
     SocksAreRead, CountCovers, DisabledIsPending, Handling, Rearming, kernel,
     slots, main, pool, Event, Running, Slots, EpollStates, PeerStates,
     MainStates, Leave
<1> QED
  BY <1>1, <1>2, <1>3, <1>4, <1>5 DEF IInv

\* epoll_wait() fills a batch with events of descriptors that are watched.
LEMMA EpollWaitInv ==
  ASSUME IInv, EpollWait
  PROVE  IInv'
<1>1. PICK S \in SUBSET Ready :
        /\ batch' = {[fd |-> fd, hup |-> Hup(fd)] : fd \in S}
        /\ epoll' = [fd \in ConnFds |->
                       IF fd \in S /\ epoll[fd] = "oneshot" THEN "disabled"
                       ELSE epoll[fd]]
  BY DEF EpollWait
<1>2. \A fd \in S : \/ fd \in ConnFds /\ epoll[fd] # "none"
                    \/ fd = Listen /\ backlog > 0
  BY DEF Ready
<1>3. TypeOK'
  <2>1. ASSUME NEW e \in batch' PROVE e \in [fd : ConnFds \cup {Listen}, hup : BOOLEAN]
    <3>1. PICK fd \in S : e = [fd |-> fd, hup |-> Hup(fd)]
      BY <1>1
    <3>2. fd \in ConnFds \cup {Listen} /\ Hup(fd) \in BOOLEAN
      BY <1>2 DEF Hup
    <3> QED
      BY <3>1, <3>2
  <2> QED
    BY <2>1 DEF IInv, TypeOK, EpollWait, EpollStates, kernel, slots, pool
<1>4. MainKnows'
  BY DEF IInv, MainKnows, EpollWait
<1>5. SlotsAgree'
  BY DEF IInv, SlotsAgree, kernel, slots, Running, Slots, EpollWait
<1>6. EventsAreFresh'
  <2>1. \A fd \in ConnFds : epoll[fd] # "none" => peer[fd] # "none" /\ m_sockfd[fd] = fd
    BY DEF IInv, SlotsAgree, Slots, Running, EpollWait
  <2> QED
    BY <1>1, <1>2, <2>1 DEF EventsAreFresh, EpollWait, kernel, slots
<1>7. BatchIsDistinct'
  <2>1. sockfd' = NoFd /\ backlog' = backlog
    BY DEF IInv, MainKnows, EpollWait, kernel
  <2>2. \A e \in batch' : e.fd \in S /\ e = [fd |-> e.fd, hup |-> Hup(e.fd)]
    BY <1>1
  <2>3. \A e, f \in batch' : e.fd = f.fd => e = f
    BY <2>2
  <2>4. \A e \in batch' : e.fd # NoFd /\ (e.fd = Listen => ~e.hup /\ backlog > 0)
    <3> SUFFICES ASSUME NEW e \in batch'
                 PROVE  e.fd # NoFd /\ (e.fd = Listen => ~e.hup /\ backlog > 0)
      OBVIOUS
    <3>1. e.fd \in S /\ e.hup = Hup(e.fd)
      BY <2>2
    <3> QED
      BY <3>1, <1>2, ConnFdsFacts DEF Hup
  <2> QED
    BY <2>1, <2>3, <2>4 DEF BatchIsDistinct
<1>8. DisabledIsPending'
  <2> SUFFICES ASSUME NEW fd \in ConnFds, epoll'[fd] = "disabled"
               PROVE  Handling(fd)' \/ Rearming(fd)' \/ fd \in refused'
    BY DEF DisabledIsPending
  <2>1. CASE epoll[fd] = "disabled"
    <3>1. Handling(fd) \/ Rearming(fd) \/ fd \in refused
      BY <2>1 DEF IInv, DisabledIsPending, Running, EpollWait
    <3> QED
      BY <3>1 DEF Handling, Rearming, EpollWait, pool
  <2>2. CASE epoll[fd] # "disabled"
    <3>1. [fd |-> fd, hup |-> Hup(fd)] \in batch'
      BY <1>1, <2>2
    <3>2. [fd |-> fd, hup |-> Hup(fd)].fd = fd
      OBVIOUS
    <3> QED
      BY <3>1 DEF Handling
  <2> QED
    BY <2>1, <2>2
<1>9. SocksAreRead' /\ CountCovers'
  BY DEF IInv, SocksAreRead, CountCovers, slots, pool, Slots, EpollWait
<1> QED
  BY <1>3, <1>4, <1>5, <1>6, <1>7, <1>8, <1>9 DEF IInv

\* accept() with every slot of the limit in use.
LEMMA AcceptBusyInv ==
  ASSUME IInv, NEW e \in batch, AcceptBusy(e)
  PROVE  IInv'
<1>1. TypeOK'
  BY ServerAssumption DEF IInv, TypeOK, BatchIsDistinct, slots, pool, Event,
     AcceptBusy
<1>2. EventsAreFresh'
  BY DEF IInv, EventsAreFresh, slots, Event, AcceptBusy
<1>3. BatchIsDistinct'
  BY DEF IInv, BatchIsDistinct, Event, AcceptBusy
<1>4. DisabledIsPending'
  BY ConnFdsFacts DEF IInv, TypeOK, DisabledIsPending, Handling, Rearming, pool,
     Event, Running, AcceptBusy
<1>5. MainKnows' /\ SlotsAgree' /\ SocksAreRead' /\ CountCovers'
  BY DEF IInv, MainKnows, SlotsAgree, SocksAreRead, CountCovers, slots, pool,
     Running, Slots, AcceptBusy
<1> QED
  BY <1>1, <1>2, <1>3, <1>4, <1>5 DEF IInv

\* accept() and the first half of init().
LEMMA AcceptInv ==
  ASSUME IInv, NEW e \in batch, Accept(e)
  PROVE  IInv'
<1>1. TypeOK'
  BY AcceptReturnsFree, ConnFdsFacts, ServerAssumption DEF IInv, TypeOK,
     BatchIsDistinct, SocksAreRead, CountCovers, Handling, pool, Event, Running,
     Slots, PeerStates, MainStates, Accept
<1>2. MainKnows'
  BY AcceptReturnsFree, ConnFdsFacts, ServerAssumption DEF IInv, TypeOK,
     MainKnows, SlotsAgree, EventsAreFresh, BatchIsDistinct, SocksAreRead,
     CountCovers, DisabledIsPending, Handling, Rearming, kernel, slots, main,
     pool, Event, Running, Slots, EpollStates, PeerStates, MainStates, Accept
<1>3. SlotsAgree'
  BY ConnFdsFacts DEF IInv, TypeOK, SlotsAgree, Event, Running, Slots, Accept
<1>4. EventsAreFresh'
  BY AcceptReturnsFree, ConnFdsFacts, ServerAssumption DEF IInv, TypeOK,
     MainKnows, SlotsAgree, EventsAreFresh, BatchIsDistinct, SocksAreRead,
     CountCovers, DisabledIsPending, Handling, Rearming, kernel, slots, main,
     pool, Event, Running, Slots, EpollStates, PeerStates, MainStates, Accept
<1>5. BatchIsDistinct'
  BY AcceptReturnsFree DEF IInv, EventsAreFresh, BatchIsDistinct, Event, Accept
<1>6. DisabledIsPending'
  BY ConnFdsFacts DEF IInv, MainKnows, DisabledIsPending, Handling, Rearming,
     pool, Event, Running, MainStates, Accept
<1>7. CountCovers'
  <2>1. mainpc = "loop" /\ m_user_count >= Cardinality(Slots) /\ m_user_count \in Int
    BY DEF IInv, TypeOK, CountCovers, Accept, Event
  <2>2. CASE mainpc' = "crashed"
    BY <2>2 DEF CountCovers
  <2>3. CASE mainpc' = "init"
    <3>1. Min(FreeFds) \in ConnFds /\ Min(FreeFds) \notin Slots
      BY <2>1, AcceptReturnsFree DEF IInv, SlotsAgree, Running, Accept
    <3>2. m_sockfd' = [m_sockfd EXCEPT ![Min(FreeFds)] = Min(FreeFds)] /\ m_user_count' = m_user_count
      BY <2>3 DEF Accept
    <3>3. Slots' = Slots \cup {Min(FreeFds)}
      BY <3>1, <3>2, ConnFdsFacts DEF IInv, TypeOK, Slots
    <3>4. Cardinality(Slots') = Cardinality(Slots) + 1
      BY <3>1, <3>3, SlotsAreFinite, FS_AddElement
    <3> QED
      BY <2>1, <2>3, <3>2, <3>4, SlotsAreFinite DEF CountCovers
  <2> QED
    BY <2>2, <2>3 DEF Accept
<1>8. SocksAreRead'
  BY DEF IInv, SocksAreRead, pool, Accept
<1> QED
  BY <1>1, <1>2, <1>3, <1>4, <1>5, <1>6, <1>7, <1>8 DEF IInv

\* accept() without a descriptor that is free.
LEMMA AcceptFailsInv ==
  ASSUME IInv, NEW e \in batch, AcceptFails(e)
  PROVE  IInv'
<1>1. TypeOK'
  BY ServerAssumption DEF IInv, TypeOK, kernel, pool, Event, MainStates,
     AcceptFails, Count
<1>2. MainKnows'
  BY DEF IInv, MainKnows, Event, AcceptFails
<1>3. SlotsAgree'
  BY DEF IInv, SlotsAgree, kernel, Event, Running, Slots, AcceptFails
<1>4. EventsAreFresh'
  BY DEF IInv, EventsAreFresh, kernel, Event, AcceptFails
<1>5. BatchIsDistinct'
  BY DEF IInv, BatchIsDistinct, Event, AcceptFails
<1>6. DisabledIsPending'
  BY ConnFdsFacts DEF IInv, SlotsAgree, DisabledIsPending, Handling, Rearming,
     pool, Event, Running, Slots, AcceptFails
<1>7. CountCovers'
  <2>1. mainpc = "loop" /\ m_user_count >= Cardinality(Slots) /\ m_user_count \in Int
    BY DEF IInv, TypeOK, CountCovers, AcceptFails, Event
  <2>2. Slots' = Slots
    BY DEF Slots, AcceptFails
  <2> QED
    BY <2>1, <2>2, SlotsAreFinite DEF CountCovers, AcceptFails, Count
<1>8. SocksAreRead'
  BY DEF IInv, SocksAreRead, pool, AcceptFails
<1> QED
  BY <1>1, <1>2, <1>3, <1>4, <1>5, <1>6, <1>7, <1>8 DEF IInv

\* An event that asks for close_conn().
LEMMA HandleHupInv ==
  ASSUME IInv, NEW e \in batch, HandleHup(e)
  PROVE  IInv'
<1>1. TypeOK'
  BY DEF IInv, TypeOK, kernel, slots, pool, Event, MainStates, HandleHup
<1>2. MainKnows'
  BY DEF IInv, TypeOK, MainKnows, SlotsAgree, EventsAreFresh, kernel, slots,
     Event, Running, HandleHup
<1>3. SlotsAgree'
  BY DEF IInv, SlotsAgree, kernel, slots, Event, Running, Slots, HandleHup
<1>4. EventsAreFresh'
  BY DEF IInv, EventsAreFresh, kernel, slots, Event, HandleHup
<1>5. BatchIsDistinct'
  BY DEF IInv, BatchIsDistinct, kernel, Event, HandleHup
<1>6. DisabledIsPending'
  BY ConnFdsFacts DEF IInv, MainKnows, BatchIsDistinct, DisabledIsPending,
     Handling, Rearming, pool, Event, Running, HandleHup
<1>7. CountCovers'
  BY DEF IInv, CountCovers, slots, Event, Slots, HandleHup
<1>8. SocksAreRead'
  BY DEF IInv, SocksAreRead, pool, HandleHup
<1> QED
  BY <1>1, <1>2, <1>3, <1>4, <1>5, <1>6, <1>7, <1>8 DEF IInv

\* An event that asks for read().
LEMMA HandleReadInv ==
  ASSUME IInv, NEW e \in batch, HandleRead(e)
  PROVE  IInv'
<1>1. TypeOK'
  <2>1. e.fd \in ConnFds
    BY DEF IInv, TypeOK, HandleRead
  <2>2. unread[e.fd] \in 0 .. MaxUnread /\ m_read_idx[e.fd] \in 0 .. BufferSize
    BY <2>1 DEF IInv, TypeOK
  <2>3. /\ unread[e.fd] - BytesRead(e.fd) \in 0 .. MaxUnread
        /\ m_read_idx[e.fd] + BytesRead(e.fd) \in 0 .. BufferSize
    BY <2>1, <2>2, BytesReadFits, ServerAssumption DEF IInv
  <2> QED
    BY <2>3 DEF IInv, TypeOK, HandleRead, Event, MainStates, pool
<1>2. MainKnows'
  BY DEF IInv, TypeOK, MainKnows, SlotsAgree, EventsAreFresh, Event, Running,
     HandleRead
<1>3. SlotsAgree'
  BY DEF IInv, SlotsAgree, Event, Running, Slots, HandleRead
<1>4. EventsAreFresh'
  BY DEF IInv, EventsAreFresh, Event, HandleRead
<1>5. BatchIsDistinct'
  BY DEF IInv, BatchIsDistinct, Event, HandleRead
<1>6. DisabledIsPending'
  BY ConnFdsFacts DEF IInv, MainKnows, DisabledIsPending, Handling, Rearming,
     pool, Event, Running, EpollStates, PeerStates, HandleRead
<1>7. CountCovers'
  BY DEF IInv, CountCovers, Event, Slots, HandleRead
<1>8. SocksAreRead'
  BY DEF IInv, SocksAreRead, pool, HandleRead
<1> QED
  BY <1>1, <1>2, <1>3, <1>4, <1>5, <1>6, <1>7, <1>8 DEF IInv

\* The second half of init().
LEMMA InitConnInv ==
  ASSUME IInv, InitConn
  PROVE  IInv'
<1>1. TypeOK'
  BY ServerAssumption DEF IInv, TypeOK, MainKnows, kernel, pool, EpollStates,
     MainStates, InitConn, Count
<1>2. MainKnows'
  BY DEF MainKnows, InitConn
<1>3. SlotsAgree'
  BY DEF IInv, TypeOK, MainKnows, SlotsAgree, kernel, Running, Slots, InitConn
<1>4. BatchIsDistinct'
  BY ConnFdsFacts DEF IInv, TypeOK, BatchIsDistinct, kernel, InitConn
<1>5. DisabledIsPending'
  BY ConnFdsFacts DEF IInv, TypeOK, DisabledIsPending, Handling, Rearming, pool,
     Running, PeerStates, InitConn
<1>6. CountCovers'
  BY DEF IInv, CountCovers, Slots, InitConn, Count
<1>7. EventsAreFresh' /\ SocksAreRead'
  BY DEF IInv, EventsAreFresh, SocksAreRead, kernel, pool, InitConn
<1> QED
  BY <1>1, <1>2, <1>3, <1>4, <1>5, <1>6, <1>7 DEF IInv

\* append() to the pool.
LEMMA HandleAppendInv ==
  ASSUME IInv, HandleAppend
  PROVE  IInv'
<1>1. TypeOK'
  <2>1. sockfd \in ConnFds
    BY DEF IInv, MainKnows, HandleAppend
  <2>2. m_workqueue \in Seq(ConnFds)
    BY DEF IInv, TypeOK
  <2>3. m_workqueue' \in {m_workqueue, Append(m_workqueue, sockfd)}
    BY DEF HandleAppend, Pool!Submit, Pool!Refuse
  <2>4. m_workqueue' \in Seq(ConnFds)
    BY <2>1, <2>2, <2>3
  <2> QED
    BY <2>1, <2>4 DEF IInv, TypeOK, HandleAppend, Pool!Submit, Pool!Refuse,
       MainStates, kernel, slots
<1>2. MainKnows'
  BY DEF MainKnows, HandleAppend
<1>3. SlotsAgree'
  BY DEF IInv, SlotsAgree, kernel, slots, Running, Slots, HandleAppend
<1>4. BatchIsDistinct'
  BY ConnFdsFacts DEF IInv, TypeOK, BatchIsDistinct, kernel, HandleAppend
<1>5. DisabledIsPending'
  <2> SUFFICES ASSUME NEW fd \in ConnFds, epoll[fd] = "disabled"
               PROVE  Handling(fd)' \/ Rearming(fd)' \/ fd \in refused'
    BY DEF HandleAppend, DisabledIsPending
  <2>1. sockfd \in ConnFds /\ m_workqueue \in Seq(ConnFds)
    BY DEF IInv, TypeOK, MainKnows, HandleAppend
  <2>2. Handling(fd) \/ Rearming(fd) \/ fd \in refused
    BY DEF IInv, DisabledIsPending, Running, HandleAppend
  <2>3. CASE Pool!Submit(sockfd)
    <3>1. /\ DOMAIN m_workqueue' = DOMAIN m_workqueue \cup {Len(m_workqueue) + 1}
          /\ \A i \in DOMAIN m_workqueue : m_workqueue'[i] = m_workqueue[i]
          /\ m_workqueue'[Len(m_workqueue) + 1] = sockfd
      BY <2>3 DEF Pool!Submit
    <3>2. Rearming(fd) => Rearming(fd)'
      BY <2>3 DEF Rearming, HandleAppend, Pool!Submit
    <3>3. sockfd = fd => Rearming(fd)'
      BY <3>1 DEF Rearming
    <3> QED
      BY <2>2, <2>3, <3>2, <3>3 DEF Handling, HandleAppend, Pool!Submit
  <2>4. CASE Pool!Refuse(sockfd)
    BY <2>2, <2>4 DEF Handling, Rearming, HandleAppend, Pool!Refuse
  <2> QED
    BY <2>3, <2>4 DEF HandleAppend
<1>6. CountCovers'
  BY DEF IInv, CountCovers, slots, Slots, HandleAppend
<1>7. EventsAreFresh' /\ SocksAreRead'
  BY DEF IInv, EventsAreFresh, SocksAreRead, kernel, slots, HandleAppend,
     Pool!Submit, Pool!Refuse
<1> QED
  BY <1>1, <1>2, <1>3, <1>4, <1>5, <1>6, <1>7 DEF IInv

\* The first half of close_conn().
LEMMA CloseFdInv ==
  ASSUME IInv, CloseFd
  PROVE  IInv'
<1>1. TypeOK'
  <2>1. mainpc = "close" /\ sockfd \in ConnFds /\ m_sockfd[sockfd] = sockfd /\ sockfd # NoFd
    BY ConnFdsFacts DEF IInv, MainKnows, CloseFd
  <2>2. 0 \in 0 .. MaxUnread
    BY ServerAssumption
  <2> QED
    BY <2>1, <2>2 DEF IInv, TypeOK, CloseFd, EpollStates, PeerStates, MainStates,
       slots
<1>2. MainKnows'
  BY DEF IInv, TypeOK, MainKnows, SlotsAgree, slots, Running, Slots, CloseFd
<1>3. SlotsAgree'
  BY DEF IInv, TypeOK, MainKnows, SlotsAgree, slots, Running, Slots, CloseFd
<1>4. EventsAreFresh'
  <2>1. sockfd \in ConnFds /\ m_sockfd[sockfd] = sockfd /\ m_sockfd' = m_sockfd /\ batch' = batch
    BY DEF IInv, MainKnows, CloseFd, slots
  <2>2. \A fd \in ConnFds : fd # sockfd => peer'[fd] = peer[fd]
    BY <2>1 DEF IInv, TypeOK, CloseFd
  <2> QED
    BY <2>1, <2>2 DEF IInv, TypeOK, EventsAreFresh, BatchIsDistinct
<1>5. DisabledIsPending'
  BY ConnFdsFacts DEF IInv, TypeOK, DisabledIsPending, Handling, Rearming,
     Running, CloseFd
<1>6. CountCovers'
  BY DEF IInv, CountCovers, slots, Slots, CloseFd
<1>7. BatchIsDistinct' /\ SocksAreRead'
  BY DEF IInv, BatchIsDistinct, SocksAreRead, CloseFd
<1> QED
  BY <1>1, <1>2, <1>3, <1>4, <1>5, <1>6, <1>7 DEF IInv

\* The second half of close_conn().
LEMMA CloseSlotInv ==
  ASSUME IInv, CloseSlot
  PROVE  IInv'
<1>1. TypeOK'
  <2>1. sockfd \in Slots /\ m_user_count >= Cardinality(Slots) /\ m_user_count \in 0 .. MaxFd
    BY ConnFdsFacts DEF IInv, TypeOK, MainKnows, CountCovers, Slots, CloseSlot
  <2>2. Cardinality(Slots) # 0
    BY <2>1, SlotsAreFinite, FS_EmptySet
  <2>3. m_user_count' \in 0 .. MaxFd
    BY <2>1, <2>2, SlotsAreFinite, ServerAssumption DEF CloseSlot, Count
  <2> QED
    BY <2>3, ConnFdsFacts DEF IInv, TypeOK, CloseSlot, FreeSlot, MainStates,
       kernel, pool
<1>2. MainKnows'
  BY DEF MainKnows, CloseSlot
<1>3. SlotsAgree'
  BY DEF IInv, TypeOK, MainKnows, SlotsAgree, kernel, Running, Slots, CloseSlot,
     FreeSlot
<1>4. EventsAreFresh'
  BY ConnFdsFacts, ServerAssumption DEF IInv, TypeOK, MainKnows, SlotsAgree,
     EventsAreFresh, BatchIsDistinct, SocksAreRead, CountCovers,
     DisabledIsPending, Handling, Rearming, kernel, slots, main, pool, Event,
     Running, Slots, EpollStates, PeerStates, MainStates, CloseSlot, Count,
     FreeSlot
<1>5. BatchIsDistinct'
  BY ConnFdsFacts DEF IInv, TypeOK, BatchIsDistinct, kernel, CloseSlot
<1>6. DisabledIsPending'
  BY ConnFdsFacts DEF IInv, MainKnows, DisabledIsPending, Handling, Rearming,
     pool, Running, CloseSlot
<1>7. CountCovers'
  <2>1. mainpc = "closed" /\ sockfd \in Slots /\ m_user_count \in Int
    BY ConnFdsFacts DEF IInv, TypeOK, MainKnows, Slots, CloseSlot
  <2>2. m_user_count >= Cardinality(Slots)
    BY <2>1 DEF IInv, CountCovers
  <2>3. Slots' = Slots \ {sockfd} /\ m_user_count' = m_user_count - 1
    BY <2>1, ConnFdsFacts DEF IInv, TypeOK, Slots, CloseSlot, FreeSlot, Count
  <2>4. Cardinality(Slots') = Cardinality(Slots) - 1
    BY <2>1, <2>3, SlotsAreFinite, FS_RemoveElement
  <2> QED
    BY <2>1, <2>2, <2>3, <2>4, SlotsAreFinite DEF CountCovers
<1>8. SocksAreRead'
  BY DEF IInv, SocksAreRead, pool, CloseSlot
<1> QED
  BY <1>1, <1>2, <1>3, <1>4, <1>5, <1>6, <1>7, <1>8 DEF IInv

\* A worker takes a task.
LEMMA TakeTaskInv ==
  ASSUME IInv, NEW w \in Workers, TakeTask(w)
  PROVE  IInv'
<1>1. TypeOK'
  BY DEF IInv, TypeOK, kernel, slots, main, TakeTask, Pool!Take
<1>2. SocksAreRead'
  BY DEF IInv, SocksAreRead, TakeTask, Pool!Take
<1>3. DisabledIsPending'
  <2> SUFFICES ASSUME NEW fd \in ConnFds, epoll[fd] = "disabled"
               PROVE  Handling(fd)' \/ Rearming(fd)' \/ fd \in refused'
    BY DEF TakeTask, DisabledIsPending
  <2>1. Handling(fd) \/ Rearming(fd) \/ fd \in refused
    BY DEF IInv, DisabledIsPending, TakeTask
  <2>2. ASSUME Rearming(fd) PROVE Rearming(fd)'
    <3>1. running[w] = NoFd /\ sock[w] = NoFd /\ w \in DOMAIN running
      BY DEF IInv, TypeOK, SocksAreRead, TakeTask, Pool!Take
    <3>2. CASE \E i \in DOMAIN m_workqueue : m_workqueue[i] = fd
      <4>1. PICK i \in DOMAIN m_workqueue : m_workqueue[i] = fd
        BY <3>2
      <4>2. m_workqueue \in Seq(ConnFds) /\ m_workqueue # <<>> /\ i \in 1 .. Len(m_workqueue)
        BY DEF IInv, TypeOK
      <4>3. CASE i = 1
        <5>1. running'[w] = fd /\ sock'[w] = NoFd
          BY <3>1, <4>1, <4>3 DEF TakeTask, Pool!Take
        <5> QED
          BY <5>1 DEF Rearming
      <4>4. CASE i # 1
        <5>1. i - 1 \in DOMAIN m_workqueue' /\ m_workqueue'[i - 1] = fd
          BY <4>1, <4>4 DEF TakeTask, Pool!Take
        <5> QED
          BY <5>1 DEF Rearming
      <4> QED
        BY <4>3, <4>4
    <3>3. CASE \E v \in Workers : (running[v] = fd /\ sock[v] = NoFd) \/ sock[v] = fd
      <4>1. PICK v \in Workers : (running[v] = fd /\ sock[v] = NoFd) \/ sock[v] = fd
        BY <3>3
      <4>2. v # w
        BY <3>1, <4>1, ConnFdsFacts
      <4>3. running'[v] = running[v] /\ sock'[v] = sock[v]
        BY <4>2 DEF TakeTask, Pool!Take
      <4> QED
        BY <4>1, <4>3 DEF Rearming
    <3> QED
      BY <2>2, <3>2, <3>3 DEF Rearming
  <2> QED
    BY <2>1, <2>2 DEF Handling, TakeTask, Pool!Take, main
<1>4. /\ MainKnows' /\ SlotsAgree' /\ EventsAreFresh' /\ BatchIsDistinct'
      /\ CountCovers'
  BY DEF IInv, MainKnows, SlotsAgree, EventsAreFresh, BatchIsDistinct,
     CountCovers, kernel, slots, main, Slots, TakeTask
<1> QED
  BY <1>1, <1>2, <1>3, <1>4 DEF IInv

\* process() reads m_sockfd of a slot in use.
LEMMA ProcessReadSockInv ==
  ASSUME IInv, NEW w \in Workers, ProcessReadSock(w)
  PROVE  IInv'
<1>1. TypeOK'
  BY ConnFdsFacts, ServerAssumption DEF IInv, TypeOK, MainKnows, SlotsAgree,
     EventsAreFresh, BatchIsDistinct, SocksAreRead, CountCovers,
     DisabledIsPending, Handling, Rearming, kernel, slots, main, pool, Event,
     Running, Slots, EpollStates, PeerStates, MainStates, ProcessReadSock
<1>2. SocksAreRead'
  BY ConnFdsFacts, ServerAssumption DEF IInv, TypeOK, MainKnows, SlotsAgree,
     EventsAreFresh, BatchIsDistinct, SocksAreRead, CountCovers,
     DisabledIsPending, Handling, Rearming, kernel, slots, main, pool, Event,
     Running, Slots, EpollStates, PeerStates, MainStates, ProcessReadSock
<1>3. DisabledIsPending'
  <2> SUFFICES ASSUME NEW fd \in ConnFds, epoll[fd] = "disabled"
               PROVE  Handling(fd)' \/ Rearming(fd)' \/ fd \in refused'
    BY DEF ProcessReadSock, DisabledIsPending
  <2>1. Handling(fd) \/ Rearming(fd) \/ fd \in refused
    BY DEF IInv, DisabledIsPending, ProcessReadSock
  <2>2. running[w] \in ConnFds /\ m_sockfd[running[w]] = running[w]
    BY DEF IInv, TypeOK, SlotsAgree, ProcessReadSock
  <2>3. \A v \in Workers : sock'[v] = IF v = w THEN running[w] ELSE sock[v]
    BY <2>2 DEF IInv, TypeOK, ProcessReadSock
  <2>4. Rearming(fd) => Rearming(fd)'
    BY <2>2, ConnFdsFacts DEF Rearming, ProcessReadSock, pool
  <2> QED
    BY <2>1, <2>4 DEF Handling, ProcessReadSock, main, pool
<1>4. /\ MainKnows' /\ SlotsAgree' /\ EventsAreFresh' /\ BatchIsDistinct'
      /\ CountCovers'
  BY DEF IInv, MainKnows, SlotsAgree, EventsAreFresh, BatchIsDistinct,
     CountCovers, kernel, slots, main, Slots, ProcessReadSock
<1> QED
  BY <1>1, <1>2, <1>3, <1>4 DEF IInv

\* process() at a slot that was freed.
LEMMA ProcessClosedInv ==
  ASSUME IInv, NEW w \in Workers, ProcessClosed(w)
  PROVE  IInv'
<1>1. TypeOK'
  BY DEF IInv, TypeOK, kernel, slots, main, ProcessClosed, Pool!Finish
<1>2. SocksAreRead'
  BY DEF IInv, SocksAreRead, ProcessClosed, Pool!Finish
<1>3. DisabledIsPending'
  BY ConnFdsFacts, ServerAssumption DEF IInv, TypeOK, MainKnows, SlotsAgree,
     EventsAreFresh, BatchIsDistinct, SocksAreRead, CountCovers,
     DisabledIsPending, Handling, Rearming, kernel, slots, main, pool, Event,
     Running, Slots, EpollStates, PeerStates, MainStates, ProcessClosed,
     Pool!Finish
<1>4. /\ MainKnows' /\ SlotsAgree' /\ EventsAreFresh' /\ BatchIsDistinct'
      /\ CountCovers'
  BY DEF IInv, MainKnows, SlotsAgree, EventsAreFresh, BatchIsDistinct,
     CountCovers, kernel, slots, main, Slots, ProcessClosed
<1> QED
  BY <1>1, <1>2, <1>3, <1>4 DEF IInv

\* process() ends with modifyfd().
LEMMA ProcessRearmInv ==
  ASSUME IInv, NEW w \in Workers, ProcessRearm(w)
  PROVE  IInv'
<1>1. TypeOK'
  BY ConnFdsFacts, ServerAssumption DEF IInv, TypeOK, MainKnows, SlotsAgree,
     EventsAreFresh, BatchIsDistinct, SocksAreRead, CountCovers,
     DisabledIsPending, Handling, Rearming, kernel, slots, main, pool, Event,
     Running, Slots, EpollStates, PeerStates, MainStates, ProcessRearm, Modify
<1>2. MainKnows'
  BY DEF IInv, TypeOK, MainKnows, kernel, slots, main, ProcessRearm, Modify
<1>3. SlotsAgree'
  BY DEF IInv, TypeOK, SlotsAgree, kernel, slots, main, Slots, ProcessRearm,
     Modify
<1>4. SocksAreRead'
  BY DEF IInv, TypeOK, SocksAreRead, ProcessRearm
<1>5. DisabledIsPending'
  BY ConnFdsFacts, ServerAssumption DEF IInv, TypeOK, DisabledIsPending,
     Handling, Rearming, kernel, main, ProcessRearm, Modify
<1>6. EventsAreFresh' /\ BatchIsDistinct' /\ CountCovers'
  BY DEF IInv, EventsAreFresh, BatchIsDistinct, CountCovers, kernel, slots, main,
     Slots, ProcessRearm
<1> QED
  BY <1>1, <1>2, <1>3, <1>4, <1>5, <1>6 DEF IInv

-----------------------------------------------------------------------------
\* The server starts with nobody connected.
LEMMA InitInv == Init => IInv
<1> SUFFICES ASSUME Init PROVE IInv
  OBVIOUS
<1>1. Slots = {} /\ Cardinality(Slots) = 0
  BY FS_EmptySet DEF Init, Slots
<1>2. TypeOK
  BY ServerAssumption DEF Init, TypeOK, Pool!Init, EpollStates, PeerStates, MainStates
<1>3. MainKnows /\ SlotsAgree /\ EventsAreFresh /\ BatchIsDistinct /\ SocksAreRead
  BY DEF Init, MainKnows, SlotsAgree, EventsAreFresh, BatchIsDistinct, SocksAreRead,
     Slots, Running, Pool!Init
<1>4. CountCovers /\ DisabledIsPending
  BY <1>1 DEF Init, CountCovers, DisabledIsPending
<1> QED
  BY <1>2, <1>3, <1>4 DEF IInv

\* The invariant speaks of the variables only.
LEMMA StutterInv ==
  ASSUME IInv, UNCHANGED vars
  PROVE  IInv'
<1>1. /\ TypeOK' /\ MainKnows' /\ SlotsAgree' /\ EventsAreFresh' /\ BatchIsDistinct'
      /\ SocksAreRead' /\ CountCovers'
  BY DEF IInv, TypeOK, MainKnows, SlotsAgree, EventsAreFresh, BatchIsDistinct,
     SocksAreRead, CountCovers, vars, kernel, slots, main, pool, Running, Slots
<1>2. DisabledIsPending'
  BY DEF IInv, DisabledIsPending, Handling, Rearming, vars, main, pool, Running
<1> QED
  BY <1>1, <1>2 DEF IInv

\* Every step of the clients, the main thread and the workers keeps it.
LEMMA NextInv == IInv /\ [Next]_vars => IInv'
<1> SUFFICES ASSUME IInv, [Next]_vars PROVE IInv'
  OBVIOUS
<1>1. CASE ClientStep
  BY <1>1, ConnectInv, SendInv, LeaveInv DEF ClientStep
<1>2. CASE MainStep
  BY <1>2, EpollWaitInv, AcceptBusyInv, AcceptInv, AcceptFailsInv, HandleHupInv,
     HandleReadInv, InitConnInv, HandleAppendInv, CloseFdInv, CloseSlotInv DEF MainStep
<1>3. CASE \E w \in Workers : WorkerStep(w)
  BY <1>3, TakeTaskInv, ProcessReadSockInv, ProcessClosedInv, ProcessRearmInv
     DEF WorkerStep
<1>4. CASE UNCHANGED vars
  BY <1>4, StutterInv
<1> QED
  BY <1>1, <1>2, <1>3, <1>4 DEF Next

\* The invariant that the properties rest on is inductive.
THEOREM Inductive == SafeSpec => []IInv
<1> QED
  BY InitInv, NextInv, PTL DEF SafeSpec

-----------------------------------------------------------------------------
(* The properties.                                                         *)

\* Every variable keeps its type: m_user_count stays in 0 .. MAX_FD, and no
\* buffer is overrun by recv(), whatever the limits.
THEOREM TypeCorrect == SafeSpec => []TypeOK
<1>1. IInv => TypeOK
  BY DEF IInv
<1> QED
  BY <1>1, Inductive, PTL

\* Between two events users, the open sockets and epoll name the same
\* descriptors: accept(), init() and close_conn() leak no socket and no slot.
THEOREM SlotsAlwaysMatchSockets == SafeSpec => []SlotsMatchSockets
<1>1. IInv => SlotsMatchSockets
  <2>1. TypeOK => \A fd \in ConnFds : m_read_idx[fd] <= BufferSize
    BY ServerAssumption DEF TypeOK
  <2> QED
    BY <2>1 DEF IInv, SlotsAgree, SlotsMatchSockets, Running
<1> QED
  BY <1>1, Inductive, PTL

\* No event of a batch is stale by the time main() comes to it, although the
\* events before it close and accept connections.
THEOREM EventsAreAlwaysFresh == SafeSpec => []EventsAreFresh
<1>1. IInv => EventsAreFresh
  BY DEF IInv
<1> QED
  BY <1>1, Inductive, PTL

\* A connection whose EPOLLONESHOT report was used up is on its way to be
\* watched again, unless append() refused it.
THEOREM DisabledIsAlwaysPending == SafeSpec => []DisabledIsPending
<1>1. IInv => DisabledIsPending
  BY DEF IInv
<1> QED
  BY <1>1, Inductive, PTL

\* m_user_count is never below the number of connections in users, whatever
\* accept() has counted without a connection.
THEOREM UserCountAlwaysCovers == SafeSpec => []UserCountCovers
<1>1. IInv => UserCountCovers
  BY DEF IInv, CountCovers, UserCountCovers
<1> QED
  BY <1>1, Inductive, PTL

\* No more than MAX_FD connections are in users between two events.
THEOREM AtMostMaxFdConnections ==
  SafeSpec => [](mainpc = "loop" => Cardinality(Slots) <= MaxFd)
<1>1. IInv => (mainpc = "loop" => Cardinality(Slots) <= MaxFd)
  BY SlotsAreFinite, ServerAssumption DEF IInv, TypeOK, CountCovers
<1> QED
  BY <1>1, Inductive, PTL

=============================================================================

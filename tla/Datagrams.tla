------------------------------ MODULE Datagrams ------------------------------
(***************************************************************************)
(* The datagram programs of lesson50 to lesson52 on one host.  Three       *)
(* programs bind port 9999 and read from it for ever: server_udp.c, which  *)
(* sends every datagram back, broadcast_client.c and multicast_client.c,   *)
(* which print it.  Three programs send to that port: client_udp.c, which  *)
(* numbers its requests and waits for an answer after each, and the        *)
(* servers of lesson51 and lesson52, which announce something every        *)
(* second and never read.                                                  *)
(*                                                                         *)
(* No program ends by itself: each is killed at some step.  A datagram is  *)
(* lost when nobody has the port that it is sent to, when the queue of     *)
(* that socket is full, and when its receiver is killed.  Nobody notices:  *)
(* the client has no timeout.  It does not look at the sender of an answer *)
(* either, and may have the port of a process that was killed.             *)
(***************************************************************************)
EXTENDS Integers, Sequences, FiniteSets, SequencesExt

CONSTANTS
  Clients,        \* processes that run client_udp.c
  Broadcasters,   \* processes that run broadcast_server.c
  Multicasters,   \* processes that run multicast_server.c
  Ports,          \* the ports that the kernel gives to their sockets
  NoPort, NoProgram, NoDatagram,
  QueueLength,    \* datagrams that a socket can hold
  \* Bound of the environment.
  MaxNum          \* requests of a client

Announcers == Broadcasters \cup Multicasters
Senders == Clients \cup Announcers

Receivers == {"server_udp.c", "broadcast_client.c", "multicast_client.c"}

Datagram == [from : Senders, num : 0 .. MaxNum]

ASSUME DatagramsAssumption ==
  /\ IsFiniteSet(Senders) /\ Clients \cap Announcers = {}
  /\ NoPort \notin Ports /\ NoProgram \notin Receivers
  /\ QueueLength \in Nat \ {0} /\ MaxNum \in Nat
  /\ NoDatagram \notin Datagram

VARIABLES
  \* Port 9999.
  receiver,   \* the program that has bound it, or NoProgram
  queue,      \* the datagrams that wait in its socket
  buf,        \* the datagram that server_udp.c is about to send back
  \* The senders.
  status,     \* "new", "send", "recv" when it waits for an answer, "killed"
  port,       \* its port, also after its end, or NoPort
  inbox,      \* the datagrams that wait in its socket
  num,        \* client_udp.c: the number of the next request
  \* History, of client_udp.c.
  lost,       \* requests that were lost, or whose answer was
  foreign,    \* answers it has taken that were not to its own requests
  got         \* the number of the answer it took last, or -1

history == <<lost, foreign, got>>
vars == <<receiver, queue, buf, status, port, inbox, num, history>>

Alive(s) == status[s] \in {"send", "recv"}

Init ==
  /\ receiver = NoProgram /\ queue = <<>> /\ buf = NoDatagram
  /\ status = [s \in Senders |-> "new"]
  /\ port = [s \in Senders |-> NoPort]
  /\ inbox = [s \in Senders |-> <<>>]
  /\ num = [s \in Senders |-> 0]
  /\ lost = [s \in Senders |-> 0]
  /\ foreign = [s \in Senders |-> 0]
  /\ got = [s \in Senders |-> -1]

\* Where in the sequence ds the datagrams of s are.
From(ds, s) == {i \in DOMAIN ds : ds[i].from = s}

\* lost, once more for every request in the sequence ds.
LostWith(ds) ==
  [s \in Senders |-> lost[s] + IF s \in Clients THEN Cardinality(From(ds, s)) ELSE 0]

InBuf == IF buf = NoDatagram THEN <<>> ELSE <<buf>>

-----------------------------------------------------------------------------
(* Processes start and are killed.                                         *)

\* bind() fails, and the program exits, while another one has the port.
StartReceiver(r) ==
  /\ receiver = NoProgram
  /\ receiver' = r
  /\ UNCHANGED <<queue, buf, status, port, inbox, num, history>>

\* What has arrived and is not answered is lost.
KillReceiver ==
  /\ receiver # NoProgram
  /\ receiver' = NoProgram /\ queue' = <<>> /\ buf' = NoDatagram
  /\ lost' = LostWith(queue \o InBuf)
  /\ UNCHANGED <<status, port, inbox, num, foreign, got>>

\* socket(); sendto() will get a port that no process has.
StartSender(s) ==
  /\ status[s] = "new"
  /\ status' = [status EXCEPT ![s] = "send"]
  /\ \E p \in Ports \ {port[q] : q \in {q \in Senders : Alive(q)}} :
       port' = [port EXCEPT ![s] = p]
  /\ UNCHANGED <<receiver, queue, buf, inbox, num, history>>

KillSender(s) ==
  /\ Alive(s)
  /\ status' = [status EXCEPT ![s] = "killed"]
  /\ inbox' = [inbox EXCEPT ![s] = <<>>]
  /\ UNCHANGED <<receiver, queue, buf, port, num, history>>

-----------------------------------------------------------------------------
(* Port 9999.                                                              *)

\* Requests go to this host and broadcasts to all of them; a multicast goes to
\* the one program that has joined the group.
Reaches(s) ==
  /\ receiver # NoProgram
  /\ s \in Multicasters => receiver = "multicast_client.c"
  /\ Len(queue) < QueueLength

\* A client's request, which arrives or is lost at once.  Seeded bug: the
\* client does not wait for an answer.
AfterRequestSent == "send"
AfterRequest == "recv"

Request(c) ==
  /\ status[c] = "send" /\ num[c] < MaxNum
  /\ LET d == [from |-> c, num |-> num[c]] IN
       IF Reaches(c) THEN queue' = Append(queue, d) /\ UNCHANGED lost
                     ELSE lost' = LostWith(<<d>>) /\ UNCHANGED queue
  /\ num' = [num EXCEPT ![c] = @ + 1]
  /\ status' = [status EXCEPT ![c] = AfterRequest]
  /\ UNCHANGED <<receiver, buf, port, inbox, foreign, got>>

\* An announcement that arrives; the others change nothing.
Announce(a) ==
  /\ Alive(a) /\ Reaches(a)
  /\ queue' = Append(queue, [from |-> a, num |-> 0])
  /\ UNCHANGED <<receiver, buf, status, port, inbox, num, history>>

\* recvfrom(): server_udp.c will answer, the others only print.
Receive ==
  /\ queue # <<>> /\ buf = NoDatagram
  /\ queue' = Tail(queue)
  /\ IF receiver = "server_udp.c"
     THEN buf' = Head(queue) /\ UNCHANGED lost
     ELSE lost' = LostWith(<<Head(queue)>>) /\ UNCHANGED buf
  /\ UNCHANGED <<receiver, status, port, inbox, num, foreign, got>>

\* Seeded bugs: the loop comes back to sendto() with the old buf; len is not
\* set, so that recvfrom() does not fill in caddr.
AnsweredKeepsBuf == UNCHANGED buf
SentNowhere(d) == {}

Answered == buf' = NoDatagram

\* Who has the port that datagram d came from: nobody, or one process.
SentTo(d) == {s \in Senders : Alive(s) /\ port[s] = port[d.from]}

\* server_udp.c: sendto(caddr).
Answer ==
  /\ buf # NoDatagram
  /\ Answered
  /\ inbox' = [s \in Senders |->
                 IF s \in SentTo(buf) /\ Len(inbox[s]) < QueueLength
                 THEN Append(inbox[s], buf) ELSE inbox[s]]
  /\ lost' = IF \E s \in SentTo(buf) : Len(inbox[s]) = QueueLength
             THEN LostWith(<<buf>>) ELSE lost
  /\ UNCHANGED <<receiver, queue, status, port, num, foreign, got>>

-----------------------------------------------------------------------------
\* client_udp.c: recvfrom() with no address takes whatever comes as the answer.
TakeAnswer(c) ==
  /\ status[c] = "recv" /\ inbox[c] # <<>>
  /\ LET d == Head(inbox[c]) IN
       IF d.from = c
       THEN got' = [got EXCEPT ![c] = d.num] /\ UNCHANGED foreign
       ELSE foreign' = [foreign EXCEPT ![c] = @ + 1] /\ UNCHANGED got
  /\ inbox' = [inbox EXCEPT ![c] = Tail(@)]
  /\ status' = [status EXCEPT ![c] = "send"]
  /\ UNCHANGED <<receiver, queue, buf, port, num, lost>>

Serve == Receive \/ Answer

Next ==
  \/ \E r \in Receivers : StartReceiver(r)
  \/ KillReceiver
  \/ Serve
  \/ \E s \in Senders : StartSender(s) \/ KillSender(s)
  \/ \E c \in Clients : Request(c) \/ TakeAnswer(c)
  \/ \E a \in Announcers : Announce(a)

\* A program that can read does.  Nobody has to be started, to be killed or to
\* send.
Spec ==
  /\ Init /\ [][Next]_vars
  /\ WF_vars(Serve)
  /\ \A c \in Clients : WF_vars(TakeAnswer(c))
-----------------------------------------------------------------------------
(* Properties.                                                             *)

TypeOK ==
  /\ receiver \in Receivers \cup {NoProgram}
  /\ queue \in BoundedSeq(Datagram, QueueLength)
  /\ buf \in Datagram \cup {NoDatagram}
  /\ status \in [Senders -> {"new", "send", "recv", "killed"}]
  /\ port \in [Senders -> Ports \cup {NoPort}]
  /\ inbox \in [Senders -> BoundedSeq(Datagram, QueueLength)]
  /\ num \in [Senders -> 0 .. MaxNum]
  /\ lost \in [Senders -> Nat] /\ foreign \in [Senders -> Nat]
  /\ got \in [Senders -> -1 .. MaxNum]

LiveClients == {c \in Clients : Alive(c)}

Waits(c) == IF status[c] = "recv" THEN 1 ELSE 0

\* What client c would read when no datagram were lost any more.
UnderWay(c) == inbox[c] \o InBuf \o queue

\* One answer is under way to a client that waits, and none to one that does
\* not: nothing is answered twice.  What was lost is missing, and what came
\* from others makes up for it.
RequestsAccount ==
  \A c \in LiveClients :
    Cardinality(From(UnderWay(c), c)) + lost[c] = foreign[c] + Waits(c)

\* The answers come in the order of the requests, each once, and the client
\* prints the answer to its last request.  Only the answers to a process that
\* had its port before can put it behind, by as many requests.
AnswersFit ==
  \A c \in LiveClients :
    LET u == UnderWay(c) IN
      /\ \A i \in From(u, c) :
           got[c] < u[i].num /\ \A j \in From(u, c) : i < j => u[i].num < u[j].num
      /\ num[c] - 1 - got[c] <= foreign[c] + Waits(c)
      /\ foreign[c] > 0 =>
           \E s \in Senders : status[s] = "killed" /\ port[s] = port[c]

\* A client that waits gets an answer, or has lost one more than others have
\* made up for: the service itself forgets nobody.
AnsweredOrLost ==
  \A c \in Clients :
    status[c] = "recv" ~> status[c] # "recv" \/ lost[c] > foreign[c]
=============================================================================

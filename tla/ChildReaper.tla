----------------------------- MODULE ChildReaper -----------------------------
(***************************************************************************)
(* Programs whose parent collects its children.  Two do it in a handler of *)
(* SIGCHLD that calls waitpid(-1, NULL, WNOHANG) until it finds no more of *)
(* them: lesson25/sigchld.c, which forks a number of children and sleeps,  *)
(* and lesson43/server_process.c, which forks one per TCP connection.  Two *)
(* do it in a loop that ends when there is no child: lesson20/wait.c, and  *)
(* waitpid.c, which polls once a second.  The variable program says which  *)
(* of them runs.                                                           *)
(*                                                                         *)
(* SIGCHLD does not queue: however many children end, at most one signal   *)
(* is pending.  The handler interrupts the parent between any two steps,   *)
(* also inside accept(), which then fails with EINTR, and leaves its own   *)
(* errno behind.  fork() may fail; the programs that fork in a loop look   *)
(* at the result of the last one only.                                     *)
(***************************************************************************)
EXTENDS Integers, FiniteSets

CONSTANTS
  Children,     \* the process numbers that children can get
  Forks,        \* iterations of the loop that forks
  FdLimit,      \* connections the server's descriptor table has room for
  \* Bound of the environment.
  MaxBacklog    \* connections that wait to be accepted

ASSUME ReaperAssumption ==
  /\ IsFiniteSet(Children) /\ Children # {}
  /\ Forks \in Nat \ {0} /\ FdLimit \in Nat /\ MaxBacklog \in Nat

VARIABLES
  program,
  \* The kernel.
  child,       \* per process number: none, running or zombie
  pending,     \* SIGCHLD was raised and not delivered
  blocked,     \* SIGCHLD is in the signal mask
  handled,     \* the handler is registered
  backlog,     \* connections that wait on lfd
  eof,         \* the children of server_process.c whose client has left
  \* The parent.
  mainpc,      \* where it is
  i,           \* iterations of the loop that forks
  pid,         \* the result of the last fork(): -1, or 1 for a child's number
  errno,
  held,        \* connections that are open in the parent
  handler      \* the handler is running

kernel == <<child, pending, blocked, handled, backlog, eof>>
loop == <<i, pid>>
parent == <<mainpc, loop, errno, held, handler>>
vars == <<program, kernel, parent>>

WaitPrograms == {"wait.c", "waitpid.c"}
Programs == {"sigchld.c", "server_process.c"} \cup WaitPrograms
MainStates ==
  [p \in Programs |->
     CASE p = "sigchld.c" -> {"fork", "sigaction", "unblock", "sleep", "exited"}
       [] p = "server_process.c" -> {"loop", "accept", "eintr", "test", "serve", "exited"}
       [] OTHER -> {"fork", "wait", "exited"}]

Existing == {c \in Children : child[c] # "none"}
Zombies == {c \in Children : child[c] = "zombie"}

-----------------------------------------------------------------------------
\* sigchld.c begins by blocking SIGCHLD.  The server registers the handler
\* before it has a child.
Init ==
  /\ program \in Programs
  /\ child = [c \in Children |-> "none"]
  /\ pending = FALSE
  /\ blocked = (program = "sigchld.c")
  /\ handled = (program = "server_process.c")
  /\ backlog = 0
  /\ eof = {}
  /\ mainpc = IF program = "server_process.c" THEN "loop" ELSE "fork"
  /\ i = 0 /\ pid = 1
  /\ errno = "0"
  /\ held = 0
  /\ handler = FALSE

-----------------------------------------------------------------------------
(* The handler: myFun() and recycleChild().                                *)

\* Seeded bug: whatever the parent is at, it finds itself behind accept().
InterruptAnything == mainpc' = "eintr"

\* A parent that sleeps in accept() leaves it with EINTR (no SA_RESTART).
Interrupt == mainpc' = IF mainpc = "accept" THEN "eintr" ELSE mainpc

\* SIGCHLD is delivered to the handler, and blocked while that runs; without
\* a handler it is ignored.
Deliver ==
  /\ pending /\ ~blocked /\ ~handler
  /\ mainpc # "exited"
  /\ pending' = FALSE
  /\ handler' = handled
  /\ IF handled THEN Interrupt ELSE UNCHANGED mainpc
  /\ UNCHANGED <<program, child, blocked, handled, backlog, eof, loop, errno, held>>

\* Seeded bug: one waitpid() for a signal.
LoopsOnce == FALSE

\* waitpid() found a child that has ended, and is called again.
Loops == TRUE

\* waitpid() returns the number of a zombie, which is free from then on.
Reap(c) ==
  /\ handler
  /\ child[c] = "zombie"
  /\ child' = [child EXCEPT ![c] = "none"]
  /\ handler' = Loops
  /\ UNCHANGED <<program, pending, blocked, handled, backlog, eof,
                 mainpc, loop, errno, held>>

\* Seeded bug: without WNOHANG waitpid() waits for the children that run.
NothingToWaitForBlocking == Existing = {}

NothingToWaitFor == Zombies = {}

\* waitpid() returns 0, or -1 and ECHILD when there is no child at all.
HandlerReturns ==
  /\ handler
  /\ NothingToWaitFor
  /\ handler' = FALSE
  /\ errno' = IF Existing = {} THEN "ECHILD" ELSE errno
  /\ UNCHANGED <<program, kernel, mainpc, loop, held>>

\* A child ends: it is a zombie until its parent waits for it.  An orphan goes
\* to init, which waits for it at once.
End(c) ==
  /\ child' = [child EXCEPT ![c] = IF mainpc = "exited" THEN "none" ELSE "zombie"]
  /\ pending' = (mainpc # "exited")
  /\ eof' = eof \ {c}

-----------------------------------------------------------------------------
(* The parents that fork in a loop.  A step of the parent happens outside  *)
(* of its handler.                                                         *)

Parent(from, to) == ~handler /\ mainpc = from /\ mainpc' = to

Fork(c) ==
  /\ child[c] = "none"
  /\ child' = [child EXCEPT ![c] = "running"]

\* One iteration of the loop.
ForkChild(c) ==
  /\ Parent("fork", "fork")
  /\ i < Forks
  /\ Fork(c)
  /\ i' = i + 1 /\ pid' = 1
  /\ UNCHANGED <<program, pending, blocked, handled, backlog, eof,
                 errno, held, handler>>

\* fork() returns -1, and the loop goes on.
ForkChildFails ==
  /\ Parent("fork", "fork")
  /\ i < Forks
  /\ i' = i + 1 /\ pid' = -1
  /\ UNCHANGED <<program, kernel, errno, held, handler>>

ForksDone ==
  /\ Parent("fork", IF program = "sigchld.c" THEN "sigaction" ELSE "wait")
  /\ i = Forks /\ pid > 0
  /\ UNCHANGED <<program, kernel, loop, errno, held, handler>>

\* The parent ends.  Its children go to init, which waits for those that have
\* ended.
ParentEnds ==
  /\ child' = [c \in Children |-> IF c \in Zombies THEN "none" ELSE child[c]]
  /\ pending' = FALSE

\* The last fork() has failed: if(pid > 0) and else if(pid == 0) both pass the
\* parent by, and it ends.
LastForkFailed ==
  /\ Parent("fork", "exited")
  /\ i = Forks /\ pid = -1
  /\ ParentEnds
  /\ UNCHANGED <<program, blocked, handled, backlog, eof, loop, errno, held, handler>>

Sigaction ==
  /\ Parent("sigaction", "unblock")
  /\ handled' = TRUE
  /\ UNCHANGED <<program, child, pending, blocked, backlog, eof, loop, errno,
                 held, handler>>

Unblock ==
  /\ Parent("unblock", "sleep")
  /\ blocked' = FALSE
  /\ UNCHANGED <<program, child, pending, handled, backlog, eof, loop, errno,
                 held, handler>>

\* wait(), or waitpid(), returns the number of a zombie.
WaitReturns(c) ==
  /\ Parent("wait", "wait")
  /\ child[c] = "zombie"
  /\ child' = [child EXCEPT ![c] = "none"]
  /\ UNCHANGED <<program, pending, blocked, handled, backlog, eof,
                 loop, errno, held, handler>>

\* Seeded bug: waitpid() = 0 ends the loop as well.
NoneEnded == Zombies = {}

NoneLeft == Existing = {}

\* It returns -1: break.
WaitFails ==
  /\ Parent("wait", "exited")
  /\ NoneLeft
  /\ ParentEnds
  /\ UNCHANGED <<program, blocked, handled, backlog, eof, loop, errno, held, handler>>

\* A child of sigchld.c prints its number and ends.
ChildEnds(c) ==
  /\ program = "sigchld.c"
  /\ child[c] = "running"
  /\ End(c)
  /\ UNCHANGED <<program, blocked, handled, backlog, parent>>

\* Those of wait.c and waitpid.c run until they are killed.
ChildIsKilled(c) ==
  /\ program \in WaitPrograms
  /\ child[c] = "running"
  /\ End(c)
  /\ UNCHANGED <<program, blocked, handled, backlog, parent>>

-----------------------------------------------------------------------------
(* The parent of server_process.c.                                         *)

CallAccept ==
  /\ Parent("loop", "accept")
  /\ UNCHANGED <<program, kernel, loop, errno, held, handler>>

\* A connection is there; nothing in the parent ever closes it.
AcceptReturns ==
  /\ Parent("accept", "serve")
  /\ backlog > 0 /\ held < FdLimit
  /\ backlog' = backlog - 1
  /\ held' = held + 1
  /\ UNCHANGED <<program, child, pending, blocked, handled, eof, loop, errno, handler>>

\* No descriptor is left.
AcceptFails ==
  /\ Parent("accept", "test")
  /\ backlog > 0 /\ held = FdLimit
  /\ errno' = "EMFILE"
  /\ UNCHANGED <<program, kernel, loop, held, handler>>

\* accept() comes back from the handler and tells why.
AcceptInterrupted ==
  /\ Parent("eintr", "test")
  /\ errno' = "EINTR"
  /\ UNCHANGED <<program, kernel, loop, held, handler>>

\* if(errno == EINTR) continue
AcceptAgain ==
  /\ Parent("test", "loop")
  /\ errno = "EINTR"
  /\ UNCHANGED <<program, kernel, loop, errno, held, handler>>

\* exit(-1)
Exit ==
  /\ Parent("test", "exited")
  /\ errno # "EINTR"
  /\ ParentEnds
  /\ UNCHANGED <<program, blocked, handled, backlog, eof, loop, errno, held, handler>>

ServeClient(c) ==
  /\ Parent("serve", "loop")
  /\ Fork(c)
  /\ UNCHANGED <<program, pending, blocked, handled, backlog, eof,
                 loop, errno, held, handler>>

\* fork() returns -1, which the parent takes for a child's number: the
\* connection stays open and nobody serves it.
ForkFails ==
  /\ Parent("serve", "loop")
  /\ Existing = Children
  /\ UNCHANGED <<program, kernel, loop, errno, held, handler>>

-----------------------------------------------------------------------------
(* A child of server_process.c, and the clients.                           *)

\* The child echoes what it reads until read() returns 0, or fails because the
\* client has reset the connection: then it ends.
ServerChildEnds(c) ==
  /\ program = "server_process.c"
  /\ child[c] = "running"
  /\ c \in eof
  /\ End(c)
  /\ UNCHANGED <<program, blocked, handled, backlog, parent>>

Connect ==
  /\ program = "server_process.c" /\ mainpc # "exited"
  /\ backlog < MaxBacklog
  /\ backlog' = backlog + 1
  /\ UNCHANGED <<program, child, pending, blocked, handled, eof, parent>>

Leave(c) ==
  /\ program = "server_process.c"
  /\ child[c] = "running"
  /\ eof' = eof \cup {c}
  /\ UNCHANGED <<program, child, pending, blocked, handled, backlog, parent>>

-----------------------------------------------------------------------------
Handler == Deliver \/ HandlerReturns \/ \E c \in Children : Reap(c)

ForkingParent ==
  \/ \E c \in Children : ForkChild(c)
  \/ ForkChildFails \/ ForksDone \/ LastForkFailed \/ Sigaction \/ Unblock
  \/ \E c \in Children : WaitReturns(c)
  \/ WaitFails

ServingParent ==
  \/ CallAccept \/ AcceptReturns \/ AcceptFails \/ AcceptInterrupted
  \/ AcceptAgain \/ Exit
  \/ \E c \in Children : ServeClient(c)
  \/ ForkFails

Child(c) == ChildEnds(c) \/ ServerChildEnds(c)

Clients == Connect \/ \E c \in Children : Leave(c)

Next ==
  \/ Handler \/ ForkingParent \/ ServingParent \/ Clients
  \/ \E c \in Children : Child(c) \/ ChildIsKilled(c)

SafeSpec == Init /\ [][Next]_vars

\* The scheduler runs every process, and signals are delivered.  Clients need
\* not do anything, and nobody has to kill a child.
Fairness ==
  /\ WF_vars(Handler)
  /\ WF_vars(ForkingParent)
  /\ WF_vars(ServingParent)
  /\ \A c \in Children : WF_vars(Child(c))

Spec == SafeSpec /\ Fairness
-----------------------------------------------------------------------------
(* Properties.                                                             *)

TypeOK ==
  /\ program \in Programs
  /\ child \in [Children -> {"none", "running", "zombie"}]
  /\ pending \in BOOLEAN /\ blocked \in BOOLEAN /\ handled \in BOOLEAN
  /\ backlog \in 0 .. MaxBacklog
  /\ eof \subseteq Children
  /\ mainpc \in MainStates[program]
  /\ i \in 0 .. Forks /\ pid \in {-1, 1}
  /\ errno \in {"0", "EINTR", "ECHILD", "EMFILE"}
  /\ held \in 0 .. FdLimit
  /\ handler \in BOOLEAN

\* A zombie is never overlooked by the handlers: SIGCHLD is pending, or the handler is running
\* and will come to it, although several children may share one signal and
\* although a child may end before the handler is registered.
ZombieIsAnnounced ==
  program \notin WaitPrograms /\ mainpc # "exited" /\ Zombies # {} =>
    pending \/ handler

\* The parents that fork in a loop outlive their children; only if the last
\* fork() failed they leave orphans behind, and sigchld.c does not end at all
\* otherwise.
ParentEndsLast ==
  mainpc = "exited" /\ program # "server_process.c" =>
    \/ pid = -1
    \/ program \in WaitPrograms /\ Existing = {}

\* Every child that has ended is waited for, by its parent, or by init when that
\* has ended: no zombie stays.
ZombiesAreReaped == \A c \in Children : child[c] = "zombie" ~> child[c] = "none"

\* A connection that waits is accepted, however often children end and their
\* signals interrupt accept(), unless the server has ended.
ConnectionsAreAccepted ==
  \A n \in 0 .. FdLimit :
    backlog > 0 /\ held = n ~> held > n \/ mainpc = "exited"

\* "ensure that accept goes on blocking if a client has been recycled by the
\* signal's interruption, instead of exit" (server_process.c:91): the server
\* ends for want of descriptors only.
ChildrenDoNotEndServer ==
  program = "server_process.c" /\ mainpc = "exited" => held = FdLimit
=============================================================================

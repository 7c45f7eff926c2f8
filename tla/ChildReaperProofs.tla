-------------------------- MODULE ChildReaperProofs --------------------------
(***************************************************************************)
(* ZombieIsAnnounced and ParentEndsLast for any number of children, forks  *)
(* and connections.  The first is not inductive: a signal that is          *)
(* delivered before the handler is registered would be lost.  What keeps   *)
(* that from happening is that the signal stays blocked until then.  The   *)
(* second needs to know that the parents which wait have no handler.       *)
(***************************************************************************)
EXTENDS ChildReaper, TLAPS

\* No handler, no signal; and the signal is unblocked only behind sigaction().
BlockedUntilHandled ==
  program \notin WaitPrograms =>
    /\ ~handled => blocked
    /\ mainpc = "unblock" => handled

IInv == TypeOK /\ BlockedUntilHandled /\ ZombieIsAnnounced /\ ParentEndsLast

\* What a step of Next is, with the definitions that only group actions gone.
LEMMA Steps ==
  ASSUME Next
  PROVE  \/ Deliver \/ HandlerReturns
         \/ ForkChildFails \/ ForksDone \/ LastForkFailed \/ Sigaction \/ Unblock
         \/ WaitFails
         \/ CallAccept \/ AcceptReturns \/ AcceptFails \/ AcceptInterrupted
         \/ AcceptAgain \/ Exit \/ ForkFails \/ Connect
         \/ \E c \in Children : \/ Reap(c) \/ ForkChild(c) \/ ServeClient(c)
                                \/ WaitReturns(c) \/ ChildEnds(c)
                                \/ ServerChildEnds(c) \/ ChildIsKilled(c) \/ Leave(c)
  BY DEF Next, Handler, ForkingParent, ServingParent, Child, Clients

-----------------------------------------------------------------------------
\* In the initial states there is no zombie, and without a handler SIGCHLD is
\* blocked.
LEMMA InitIInv == ASSUME Init PROVE IInv
<1>1. TypeOK
  <2>1. \/ program = "sigchld.c" \/ program = "server_process.c"
        \/ program = "wait.c" \/ program = "waitpid.c"
    BY DEF Init, Programs, WaitPrograms
  <2>2. mainpc \in MainStates[program]
    BY <2>1 DEF Init, MainStates, Programs, WaitPrograms
  <2>3. pending \in BOOLEAN /\ blocked \in BOOLEAN /\ handled \in BOOLEAN
    BY DEF Init
  <2>4. /\ backlog \in 0 .. MaxBacklog /\ held \in 0 .. FdLimit
        /\ i \in 0 .. Forks /\ pid \in {-1, 1}
    BY ReaperAssumption DEF Init
  <2>5. /\ program \in Programs /\ eof \subseteq Children /\ handler \in BOOLEAN
        /\ child \in [Children -> {"none", "running", "zombie"}]
        /\ errno \in {"0", "EINTR", "ECHILD", "EMFILE"}
    BY DEF Init
  <2>. QED BY <2>2, <2>3, <2>4, <2>5 DEF TypeOK
<1>2. BlockedUntilHandled
  BY DEF Init, BlockedUntilHandled, Programs
<1>3. ZombieIsAnnounced
  BY DEF Init, ZombieIsAnnounced, Zombies
<1>4. ParentEndsLast
  BY DEF Init, ParentEndsLast
<1>. QED BY <1>1, <1>2, <1>3, <1>4 DEF IInv

-----------------------------------------------------------------------------
\* The states of the parent, program by program.
LEMMA StatesOf ==
  ASSUME NEW p \in Programs
  PROVE  MainStates[p] =
           IF p = "sigchld.c" THEN {"fork", "sigaction", "unblock", "sleep", "exited"}
           ELSE IF p = "server_process.c"
           THEN {"loop", "accept", "eintr", "test", "serve", "exited"}
           ELSE {"fork", "wait", "exited"}
  BY DEF MainStates, Programs, WaitPrograms

\* Every step preserves the types: the bounds are those that the guards test.
LEMMA NextTypeOK == ASSUME TypeOK, Next PROVE TypeOK'
<1>. USE ReaperAssumption, StatesOf DEF TypeOK, Parent, kernel, parent, loop
<1>1. CASE Deliver \/ HandlerReturns
  BY <1>1 DEF Deliver, HandlerReturns, Interrupt
<1>2. CASE ForkChildFails
  BY <1>2 DEF ForkChildFails
<1>3. CASE ForksDone \/ Sigaction \/ Unblock
  BY <1>3 DEF ForksDone, Sigaction, Unblock
<1>4. CASE CallAccept \/ AcceptFails \/ AcceptInterrupted \/ AcceptAgain \/ ForkFails
  BY <1>4 DEF CallAccept, AcceptFails, AcceptInterrupted, AcceptAgain, ForkFails
<1>5. CASE AcceptReturns \/ Connect
  BY <1>5 DEF AcceptReturns, Connect
<1>6. CASE Exit \/ LastForkFailed \/ WaitFails
  BY <1>6 DEF Exit, LastForkFailed, WaitFails, ParentEnds, Zombies
<1>7. ASSUME NEW c \in Children, Reap(c) \/ ForkChild(c) \/ ServeClient(c) \/ WaitReturns(c)
      PROVE  TypeOK'
  <2>1. CASE Reap(c)
    BY <2>1 DEF Reap, Loops
  <2>2. CASE ForkChild(c)
    BY <2>2 DEF ForkChild, Fork
  <2>3. CASE ServeClient(c)
    BY <2>3 DEF ServeClient, Fork
  <2>4. CASE WaitReturns(c)
    BY <2>4 DEF WaitReturns
  <2>. QED BY <1>7, <2>1, <2>2, <2>3, <2>4
<1>8. ASSUME NEW c \in Children,
             ChildEnds(c) \/ ServerChildEnds(c) \/ ChildIsKilled(c) \/ Leave(c)
      PROVE  TypeOK'
  BY <1>8 DEF ChildEnds, ServerChildEnds, ChildIsKilled, Leave, End
<1>. QED BY Steps, <1>1, <1>2, <1>3, <1>4, <1>5, <1>6, <1>7, <1>8

\* Only Sigaction and Unblock change what is handled and what is blocked.
LEMMA NextBlocked ==
  ASSUME TypeOK, BlockedUntilHandled, Next PROVE BlockedUntilHandled'
<1>. USE DEF BlockedUntilHandled, Parent, kernel, parent
<1>1. CASE Deliver \/ HandlerReturns
  BY <1>1 DEF Deliver, HandlerReturns, Interrupt
<1>2. CASE ForkChildFails \/ ForksDone \/ LastForkFailed \/ Sigaction \/ Unblock \/ WaitFails
  BY <1>2 DEF ForkChildFails, ForksDone, LastForkFailed, Sigaction, Unblock, WaitFails
<1>3. CASE \/ CallAccept \/ AcceptReturns \/ AcceptFails \/ AcceptInterrupted
           \/ AcceptAgain \/ Exit \/ ForkFails \/ Connect
  BY <1>3 DEF CallAccept, AcceptReturns, AcceptFails, AcceptInterrupted,
              AcceptAgain, Exit, ForkFails, Connect
<1>4. ASSUME NEW c \in Children,
             \/ Reap(c) \/ ForkChild(c) \/ ServeClient(c) \/ WaitReturns(c)
             \/ ChildEnds(c) \/ ServerChildEnds(c) \/ ChildIsKilled(c) \/ Leave(c)
      PROVE  BlockedUntilHandled'
  BY <1>4 DEF Reap, ForkChild, ServeClient, WaitReturns, ChildEnds,
              ServerChildEnds, ChildIsKilled, Leave
<1>. QED BY Steps, <1>1, <1>2, <1>3, <1>4

\* A child that ends raises the signal, the signal that is delivered starts the
\* handler, and the handler returns when there is no zombie.
LEMMA NextAnnounced ==
  ASSUME TypeOK, BlockedUntilHandled, ZombieIsAnnounced, Next
  PROVE  ZombieIsAnnounced'
<1>. USE DEF ZombieIsAnnounced, Zombies, Parent, kernel, parent
<1>1. CASE Deliver
  BY <1>1 DEF Deliver, Interrupt, BlockedUntilHandled
<1>2. CASE HandlerReturns
  BY <1>2 DEF HandlerReturns, NothingToWaitFor
<1>3. CASE ForkChildFails \/ ForksDone \/ Sigaction \/ Unblock
  BY <1>3 DEF ForkChildFails, ForksDone, Sigaction, Unblock
<1>4. CASE \/ CallAccept \/ AcceptReturns \/ AcceptFails \/ AcceptInterrupted
           \/ AcceptAgain \/ ForkFails \/ Connect
  BY <1>4 DEF CallAccept, AcceptReturns, AcceptFails, AcceptInterrupted,
              AcceptAgain, ForkFails, Connect
<1>5. CASE Exit \/ LastForkFailed \/ WaitFails
  BY <1>5 DEF Exit, LastForkFailed, WaitFails
<1>6. ASSUME NEW c \in Children, Reap(c)
      PROVE  ZombieIsAnnounced'
  BY <1>6 DEF Reap, Loops
<1>7. ASSUME NEW c \in Children, ForkChild(c) \/ ServeClient(c) \/ WaitReturns(c)
      PROVE  ZombieIsAnnounced'
  <2>1. Zombies' \subseteq Zombies
    BY <1>7 DEF ForkChild, ServeClient, WaitReturns, Fork, TypeOK
  <2>2. /\ mainpc # "exited" /\ program' = program
        /\ pending' = pending /\ handler' = handler
    BY <1>7 DEF ForkChild, ServeClient, WaitReturns
  <2>. QED BY <2>1, <2>2
<1>8. ASSUME NEW c \in Children, ChildEnds(c) \/ ServerChildEnds(c) \/ ChildIsKilled(c)
      PROVE  ZombieIsAnnounced'
  BY <1>8 DEF ChildEnds, ServerChildEnds, ChildIsKilled, End
<1>9. ASSUME NEW c \in Children, Leave(c)
      PROVE  ZombieIsAnnounced'
  BY <1>9 DEF Leave
<1>. QED BY Steps, <1>1, <1>2, <1>3, <1>4, <1>5, <1>6, <1>7, <1>8, <1>9

\* A parent ends when its last fork() has failed, or when wait() has found that
\* no child is left; behind its end there is no fork(), and the children only
\* become fewer.
LEMMA NextEndsLast == ASSUME TypeOK, ParentEndsLast, Next PROVE ParentEndsLast'
<1>. USE DEF ParentEndsLast, Existing, Parent, kernel, parent, loop
<1>1. CASE Deliver \/ HandlerReturns
  BY <1>1 DEF Deliver, HandlerReturns, Interrupt
<1>2. CASE ForkChildFails \/ ForksDone \/ LastForkFailed \/ Sigaction \/ Unblock
  BY <1>2 DEF ForkChildFails, ForksDone, LastForkFailed, Sigaction, Unblock
<1>3. CASE WaitFails
  <2>1. program \in WaitPrograms
    BY <1>3 DEF WaitFails, TypeOK, MainStates, Programs
  <2>2. Existing' = {}
    BY <1>3 DEF WaitFails, NoneLeft, ParentEnds, Zombies
  <2>. QED BY <1>3, <2>1, <2>2 DEF WaitFails
<1>4. CASE \/ CallAccept \/ AcceptReturns \/ AcceptFails \/ AcceptInterrupted
           \/ AcceptAgain \/ Exit \/ ForkFails \/ Connect
  <2>1. CASE Connect
    BY <1>4, <2>1 DEF Connect
  <2>2. CASE Exit
    BY <1>4, <2>2 DEF Exit, TypeOK, MainStates, Programs, WaitPrograms
  <2>3. CASE mainpc' # "exited"
    BY <2>3
  <2>. QED
    BY <1>4, <2>1, <2>2, <2>3 DEF CallAccept, AcceptReturns, AcceptFails,
       AcceptInterrupted, AcceptAgain, ForkFails
<1>5. ASSUME NEW c \in Children, ForkChild(c) \/ ServeClient(c) \/ WaitReturns(c)
      PROVE  ParentEndsLast'
  BY <1>5 DEF ForkChild, ServeClient, WaitReturns
<1>6. ASSUME NEW c \in Children, Reap(c) \/ Leave(c)
      PROVE  ParentEndsLast'
  BY <1>6 DEF Reap, Leave, TypeOK
<1>7. ASSUME NEW c \in Children, ChildEnds(c) \/ ServerChildEnds(c) \/ ChildIsKilled(c)
      PROVE  ParentEndsLast'
  BY <1>7 DEF ChildEnds, ServerChildEnds, ChildIsKilled, End, TypeOK
<1>. QED BY Steps, <1>1, <1>2, <1>3, <1>4, <1>5, <1>6, <1>7

LEMMA NextIInv == ASSUME IInv, [Next]_vars PROVE IInv'
<1>1. CASE Next
  BY <1>1, NextTypeOK, NextBlocked, NextAnnounced, NextEndsLast DEF IInv
<1>2. CASE UNCHANGED vars
  BY <1>2 DEF IInv, TypeOK, BlockedUntilHandled, ZombieIsAnnounced, Zombies,
              ParentEndsLast, Existing, vars, kernel, parent, loop
<1>. QED BY <1>1, <1>2

LEMMA Invariance == SafeSpec => []IInv
<1>. QED BY InitIInv, NextIInv, PTL DEF SafeSpec

-----------------------------------------------------------------------------
\* The state of all programs keeps its types and bounds.
THEOREM ReaperTypeCorrect == Spec => []TypeOK
<1>1. IInv => TypeOK
  BY DEF IInv
<1>. QED BY <1>1, Invariance, PTL DEF Spec

\* No zombie is overlooked by the handler that loops over waitpid(), however
\* many children share one SIGCHLD and however early they end.
THEOREM NoZombieOverlooked == Spec => []ZombieIsAnnounced
<1>1. IInv => ZombieIsAnnounced
  BY DEF IInv
<1>. QED BY <1>1, Invariance, PTL DEF Spec

\* A parent that waits ends when no child is left, and leaves orphans behind
\* only if its last fork() has failed.
THEOREM OrphansOnlyAfterFailedFork == Spec => []ParentEndsLast
<1>1. IInv => ParentEndsLast
  BY DEF IInv
<1>. QED BY <1>1, Invariance, PTL DEF Spec

=============================================================================

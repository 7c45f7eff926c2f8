-------------------------- MODULE ThreadPoolProofs --------------------------
(***************************************************************************)
(* What ThreadPool guarantees for any number of clients, workers and       *)
(* requests and any m_max_requests.  The invariant that carries the proofs *)
(* is the accounting of wake-ups, WakeupsMatchRequests, strengthened with  *)
(* what a thread knows at each point of append() and run().                *)
(***************************************************************************)
EXTENDS ThreadPool, FiniteSetTheorems, SequenceTheorems, TLAPS

\* The pool is deleted only when no append() is in progress.
NoAppendAfterStop == m_stop => \A p \in Producers : pc[p] = "idle"

\* A client that found room still has it when it pushes.
PusherHasRoom == \A p \in Producers : pc[p] = "push" => Len(m_workqueue) < MaxRequests

\* A worker that found a request still finds it when it pops.
PopperHasRequest ==
  ~m_stop => \A w \in Workers : pc[w] = "pop" => m_workqueue # <<>>

\* A worker holds no request before it has popped one.
FreeWorker ==
  \A w \in Workers :
    pc[w] \in {"loop", "wait", "lock", "test", "pop"} => request[w] = Null

IInv ==
  /\ TypeOK
  /\ MutualExclusion
  /\ NoAppendAfterStop
  /\ PusherHasRoom
  /\ QueueBounded
  /\ WakeupsMatchRequests
  /\ PopperHasRequest
  /\ WokenFindsRequest
  /\ FreeWorker

-----------------------------------------------------------------------------
\* The two sets that the accounting counts are finite.
LEMMA CountsAreNat ==
  /\ IsFiniteSet(Unposted) /\ Cardinality(Unposted) \in Nat
  /\ IsFiniteSet(Woken) /\ Cardinality(Woken) \in Nat
<1>1. Unposted \subseteq Producers /\ Woken \subseteq Workers
  BY DEF Unposted, Woken
<1>2. IsFiniteSet(Unposted) /\ IsFiniteSet(Woken)
  BY <1>1, FS_Subset, PoolAssumption DEF PoolAssumption
<1> QED
  BY <1>2, FS_CardinalityType

\* A worker that was woken and has not popped has a request to pop.
LEMMA WokenImpliesNonempty ==
  ASSUME TypeOK, WakeupsMatchRequests, ~m_stop, NEW w \in Woken
  PROVE  m_workqueue # <<>>
<1>1. Cardinality(Woken) # 0
  BY CountsAreNat, FS_EmptySet
<1>2. Len(m_workqueue) # 0
  BY <1>1, CountsAreNat DEF TypeOK, WakeupsMatchRequests
<1> QED
  BY <1>2

LEMMA InitInvariant == Init => IInv
<1> SUFFICES ASSUME Init PROVE IInv
  OBVIOUS
<1> USE PoolAssumption DEF PoolAssumption, Init, Threads
<1>1. TypeOK
  <2>1. m_workqueue \in Seq(Requests \cup {Null})
    BY EmptySeq
  <2>2. pc \in [Threads -> ProducerStates \cup WorkerStates]
    BY DEF ProducerStates, WorkerStates
  <2>3. /\ \A p \in Producers : pc[p] \in ProducerStates
        /\ \A w \in Workers : pc[w] \in WorkerStates
    BY DEF ProducerStates, WorkerStates
  <2> QED
    BY <2>1, <2>2, <2>3 DEF TypeOK
<1>2. MutualExclusion
  BY DEF MutualExclusion, CriticalStates
<1>3. Unposted = {} /\ Woken = {}
  BY DEF Unposted, Woken
<1>4. WakeupsMatchRequests
  BY <1>3, FS_EmptySet DEF WakeupsMatchRequests
<1>5. QueueBounded
  BY DEF QueueBounded
<1> QED
  BY <1>1, <1>2, <1>4, <1>5
     DEF IInv, NoAppendAfterStop, PusherHasRoom, PopperHasRequest,
         WokenFindsRequest, FreeWorker

\* The types are preserved by every step.
LEMMA TypeStep == IInv /\ [Next]_vars => TypeOK'
<1> SUFFICES ASSUME IInv, [Next]_vars PROVE TypeOK'
  OBVIOUS
<1> USE PoolAssumption DEF PoolAssumption, IInv, TypeOK, Threads, Goto
<1>1. ASSUME NEW p \in Producers, NEW r \in Requests \cup {Null}, AppendCall(p, r)
      PROVE  TypeOK'
  BY <1>1 DEF AppendCall, ProducerStates
<1>2. ASSUME NEW p \in Producers, AppendStep(p)
      PROVE  TypeOK'
  <2>1. CASE AppendLock(p)
    BY <2>1 DEF AppendLock, Lock, ProducerStates
  <2>2. CASE AppendTest(p)
    BY <2>2 DEF AppendTest, ProducerStates
  <2>3. CASE AppendReject(p)
    BY <2>3 DEF AppendReject, Unlock, ProducerStates
  <2>4. CASE AppendPush(p)
    <3>1. m_workqueue' \in Seq(Requests \cup {Null})
      BY <2>4, AppendProperties DEF AppendPush, PushBack
    <3> QED
      BY <2>4, <3>1 DEF AppendPush, PushBack, ProducerStates
  <2>5. CASE AppendUnlock(p)
    BY <2>5 DEF AppendUnlock, Unlock, ProducerStates
  <2>6. CASE AppendPost(p)
    BY <2>6 DEF AppendPost, SemPost, ProducerStates
  <2> QED
    BY <1>2, <2>1, <2>2, <2>3, <2>4, <2>5, <2>6 DEF AppendStep
<1>3. ASSUME NEW w \in Workers, RunStep(w)
      PROVE  TypeOK'
  <2>1. CASE RunLoop(w)
    BY <2>1 DEF RunLoop, WorkerStates
  <2>2. CASE RunWait(w)
    BY <2>2 DEF RunWait, SemWait, WorkerStates
  <2>3. CASE RunLock(w)
    BY <2>3 DEF RunLock, Lock, WorkerStates
  <2>4. CASE RunTest(w)
    BY <2>4 DEF RunTest, WorkerStates
  <2>5. CASE RunPop(w)
    <3>1. m_workqueue # <<>>
      BY <2>5 DEF RunPop, PopperHasRequest
    <3>2. /\ Head(m_workqueue) \in Requests \cup {Null}
          /\ Tail(m_workqueue) \in Seq(Requests \cup {Null})
      BY <3>1, HeadTailProperties
    <3> QED
      BY <2>5, <3>2 DEF RunPop, WorkerStates
  <2>6. CASE RunUnlock(w)
    BY <2>6 DEF RunUnlock, Unlock, WorkerStates
  <2>7. CASE RunProcess(w)
    BY <2>7 DEF RunProcess, WorkerStates
  <2>8. CASE RunUseAfterFree(w)
    BY <2>8 DEF RunUseAfterFree, WorkerStates
  <2> QED
    BY <1>3, <2>1, <2>2, <2>3, <2>4, <2>5, <2>6, <2>7, <2>8 DEF RunStep
<1>4. CASE Destroy
  BY <1>4 DEF Destroy
<1>5. CASE UNCHANGED vars
  BY <1>5 DEF vars
<1> QED
  BY <1>1, <1>2, <1>3, <1>4, <1>5 DEF Next

\* Every step keeps the mutex with the one thread that is between lock() and
\* unlock().
LEMMA MutexStep == IInv /\ [Next]_vars => MutualExclusion'
<1> SUFFICES ASSUME IInv, [Next]_vars, ~m_stop', NEW t \in Threads
             PROVE  pc'[t] \in CriticalStates <=> m_queuelocker' = t
  BY DEF MutualExclusion
<1> USE PoolAssumption
    DEF PoolAssumption, IInv, TypeOK, Threads, Goto, MutualExclusion, CriticalStates
<1>1. ASSUME NEW p \in Producers, NEW r \in Requests \cup {Null}, AppendCall(p, r)
      PROVE  pc'[t] \in CriticalStates <=> m_queuelocker' = t
  BY <1>1 DEF AppendCall
<1>2. ASSUME NEW p \in Producers, AppendStep(p)
      PROVE  pc'[t] \in CriticalStates <=> m_queuelocker' = t
  <2>1. CASE AppendLock(p)
    BY <2>1 DEF AppendLock, Lock
  <2>2. CASE AppendTest(p)
    BY <2>2 DEF AppendTest
  <2>3. CASE AppendReject(p)
    BY <2>3 DEF AppendReject, Unlock
  <2>4. CASE AppendPush(p)
    BY <2>4 DEF AppendPush, PushBack
  <2>5. CASE AppendUnlock(p)
    BY <2>5 DEF AppendUnlock, Unlock
  <2>6. CASE AppendPost(p)
    BY <2>6 DEF AppendPost
  <2> QED
    BY <1>2, <2>1, <2>2, <2>3, <2>4, <2>5, <2>6 DEF AppendStep
<1>3. ASSUME NEW w \in Workers, RunStep(w)
      PROVE  pc'[t] \in CriticalStates <=> m_queuelocker' = t
  <2>1. CASE RunLoop(w)
    BY <2>1 DEF RunLoop
  <2>2. CASE RunWait(w)
    BY <2>2 DEF RunWait
  <2>3. CASE RunLock(w)
    BY <2>3 DEF RunLock, Lock
  <2>4. CASE RunTest(w)
    BY <2>4 DEF RunTest
  <2>5. CASE RunPop(w)
    BY <2>5 DEF RunPop
  <2>6. CASE RunUnlock(w)
    BY <2>6 DEF RunUnlock, Unlock
  <2>7. CASE RunProcess(w)
    BY <2>7 DEF RunProcess
  <2>8. CASE RunUseAfterFree(w)
    BY <2>8 DEF RunUseAfterFree
  <2> QED
    BY <1>3, <2>1, <2>2, <2>3, <2>4, <2>5, <2>6, <2>7, <2>8 DEF RunStep
<1>4. CASE Destroy
  BY <1>4 DEF Destroy
<1>5. CASE UNCHANGED vars
  BY <1>5 DEF vars
<1> QED
  BY <1>1, <1>2, <1>3, <1>4, <1>5 DEF Next

\* Every step keeps the accounting of wake-ups: a push adds a client on its way
\* to post(), the post moves that client's share to the semaphore, a wait moves
\* it on to a worker, and the pop takes it back.
LEMMA WakeupsStep == IInv /\ [Next]_vars => WakeupsMatchRequests'
<1> SUFFICES ASSUME IInv, [Next]_vars, ~m_stop'
             PROVE  Len(m_workqueue')
                      = m_queuestat' + Cardinality(Unposted') + Cardinality(Woken')
  BY DEF WakeupsMatchRequests
<1>a. ~m_stop
  BY DEF Next, AppendCall, AppendStep, AppendLock, AppendTest, AppendReject,
         AppendPush, AppendUnlock, AppendPost, RunStep, RunLoop, RunWait, RunLock,
         RunTest, RunPop, RunUnlock, RunProcess, RunUseAfterFree, Destroy, vars
<1>b. Len(m_workqueue)
        = m_queuestat + Cardinality(Unposted) + Cardinality(Woken)
  BY <1>a DEF IInv, WakeupsMatchRequests
<1>c. /\ Len(m_workqueue) \in Nat /\ m_queuestat \in Nat
      /\ Cardinality(Unposted) \in Nat /\ Cardinality(Woken) \in Nat
  BY CountsAreNat, LenProperties DEF IInv, TypeOK
\* Most steps move no thread into or out of the two sets.
<1>d. ASSUME Unposted' = Unposted, Woken' = Woken,
             m_queuestat' = m_queuestat, m_workqueue' = m_workqueue
      PROVE  Len(m_workqueue')
               = m_queuestat' + Cardinality(Unposted') + Cardinality(Woken')
  BY <1>b, <1>d
<1> USE PoolAssumption DEF PoolAssumption, IInv, TypeOK, Threads, Goto
<1>1. ASSUME NEW p \in Producers, NEW r \in Requests \cup {Null}, AppendCall(p, r)
      PROVE  Len(m_workqueue')
               = m_queuestat' + Cardinality(Unposted') + Cardinality(Woken')
  <2>1. Unposted' = Unposted /\ Woken' = Woken
    BY <1>1 DEF AppendCall, Unposted, Woken
  <2> QED
    BY <1>1, <2>1, <1>d DEF AppendCall
<1>2. ASSUME NEW p \in Producers, AppendStep(p)
      PROVE  Len(m_workqueue')
               = m_queuestat' + Cardinality(Unposted') + Cardinality(Woken')
  <2>1. CASE AppendLock(p)
    <3>1. Unposted' = Unposted /\ Woken' = Woken
      BY <2>1 DEF AppendLock, Unposted, Woken
    <3> QED
      BY <2>1, <3>1, <1>d DEF AppendLock
  <2>2. CASE AppendTest(p)
    <3>1. Unposted' = Unposted /\ Woken' = Woken
      BY <2>2 DEF AppendTest, Unposted, Woken
    <3> QED
      BY <2>2, <3>1, <1>d DEF AppendTest
  <2>3. CASE AppendReject(p)
    <3>1. Unposted' = Unposted /\ Woken' = Woken
      BY <2>3 DEF AppendReject, Unposted, Woken
    <3> QED
      BY <2>3, <3>1, <1>d DEF AppendReject
  <2>4. CASE AppendPush(p)
    <3>1. p \notin Unposted /\ Unposted' = Unposted \cup {p} /\ Woken' = Woken
      BY <2>4 DEF AppendPush, PushBack, Unposted, Woken
    <3>2. Cardinality(Unposted') = Cardinality(Unposted) + 1
      BY <3>1, CountsAreNat, FS_AddElement
    <3>3. Len(m_workqueue') = Len(m_workqueue) + 1
      BY <2>4, AppendProperties DEF AppendPush, PushBack
    <3> QED
      BY <2>4, <3>1, <3>2, <3>3, <1>b, <1>c DEF AppendPush, PushBack
  <2>5. CASE AppendUnlock(p)
    <3>1. Unposted' = Unposted /\ Woken' = Woken
      BY <2>5 DEF AppendUnlock, Unposted, Woken
    <3> QED
      BY <2>5, <3>1, <1>d DEF AppendUnlock
  <2>6. CASE AppendPost(p)
    <3>1. p \in Unposted /\ Unposted' = Unposted \ {p} /\ Woken' = Woken
      BY <2>6 DEF AppendPost, Unposted, Woken
    <3>2. Cardinality(Unposted') = Cardinality(Unposted) - 1
      BY <3>1, CountsAreNat, FS_RemoveElement
    <3> QED
      BY <2>6, <3>1, <3>2, <1>b, <1>c DEF AppendPost, SemPost
  <2> QED
    BY <1>2, <2>1, <2>2, <2>3, <2>4, <2>5, <2>6 DEF AppendStep
<1>3. ASSUME NEW w \in Workers, RunStep(w)
      PROVE  Len(m_workqueue')
               = m_queuestat' + Cardinality(Unposted') + Cardinality(Woken')
  <2>1. CASE RunLoop(w)
    <3>1. Unposted' = Unposted /\ Woken' = Woken
      BY <2>1 DEF RunLoop, Unposted, Woken
    <3> QED
      BY <2>1, <3>1, <1>d DEF RunLoop
  <2>2. CASE RunWait(w)
    <3>1. w \notin Woken /\ Woken' = Woken \cup {w} /\ Unposted' = Unposted
      BY <2>2 DEF RunWait, Unposted, Woken
    <3>2. Cardinality(Woken') = Cardinality(Woken) + 1
      BY <3>1, CountsAreNat, FS_AddElement
    <3> QED
      BY <2>2, <3>1, <3>2, <1>b, <1>c DEF RunWait, SemWait
  <2>3. CASE RunLock(w)
    <3>1. Unposted' = Unposted /\ Woken' = Woken
      BY <2>3 DEF RunLock, Unposted, Woken
    <3> QED
      BY <2>3, <3>1, <1>d DEF RunLock
  <2>4. CASE RunTest(w)
    <3>1. w \in Woken
      BY <2>4 DEF RunTest, Unposted, Woken
    <3>2. m_workqueue # <<>>
      BY <3>1, <1>a, WokenImpliesNonempty
    <3>3. Unposted' = Unposted /\ Woken' = Woken
      BY <2>4, <3>2 DEF RunTest, Unposted, Woken
    <3> QED
      BY <2>4, <3>3, <1>d DEF RunTest
  <2>5. CASE RunPop(w)
    <3>1. w \in Woken /\ Woken' = Woken \ {w} /\ Unposted' = Unposted
      BY <2>5 DEF RunPop, Unposted, Woken
    <3>2. Cardinality(Woken') = Cardinality(Woken) - 1
      BY <3>1, CountsAreNat, FS_RemoveElement
    <3>3. Len(m_workqueue') = Len(m_workqueue) - 1
      BY <2>5, HeadTailProperties DEF RunPop, PopperHasRequest
    <3> QED
      BY <2>5, <3>1, <3>2, <3>3, <1>b, <1>c DEF RunPop
  <2>6. CASE RunUnlock(w)
    <3>1. Unposted' = Unposted /\ Woken' = Woken
      BY <2>6 DEF RunUnlock, Unposted, Woken
    <3> QED
      BY <2>6, <3>1, <1>d DEF RunUnlock
  <2>7. CASE RunProcess(w)
    <3>1. Unposted' = Unposted /\ Woken' = Woken
      BY <2>7 DEF RunProcess, Unposted, Woken
    <3> QED
      BY <2>7, <3>1, <1>d DEF RunProcess
  <2>8. CASE RunUseAfterFree(w)
    BY <2>8, <1>a DEF RunUseAfterFree
  <2> QED
    BY <1>3, <2>1, <2>2, <2>3, <2>4, <2>5, <2>6, <2>7, <2>8 DEF RunStep
<1>4. CASE Destroy
  BY <1>4 DEF Destroy
<1>5. CASE UNCHANGED vars
  BY <1>5, <1>d DEF vars, Unposted, Woken
<1> QED
  BY <1>1, <1>2, <1>3, <1>4, <1>5 DEF Next

\* What the threads know at each point is not disturbed by the others.  A
\* client in "push" or a worker in "pop" holds the mutex, so nobody else changes
\* the queue; a client is between the call and the return of append(), so the
\* pool is not deleted.
LEMMA KnowledgeStep ==
  ASSUME IInv, [Next]_vars
  PROVE  /\ NoAppendAfterStop'
         /\ PusherHasRoom'
         /\ QueueBounded'
         /\ PopperHasRequest'
         /\ WokenFindsRequest'
         /\ FreeWorker'
<1> USE PoolAssumption
    DEF PoolAssumption, IInv, TypeOK, Threads, Goto, MutualExclusion, CriticalStates,
        NoAppendAfterStop, PusherHasRoom, QueueBounded, PopperHasRequest,
        WokenFindsRequest, FreeWorker
<1> DEFINE Known == /\ NoAppendAfterStop
                   /\ PusherHasRoom
                   /\ QueueBounded
                   /\ PopperHasRequest
                   /\ WokenFindsRequest
                   /\ FreeWorker
<1>a. Len(m_workqueue) \in Nat
  BY LenProperties
<1>1. ASSUME NEW p \in Producers, NEW r \in Requests \cup {Null}, AppendCall(p, r)
      PROVE  Known'
  BY <1>1 DEF AppendCall
<1>2. ASSUME NEW p \in Producers, AppendStep(p)
      PROVE  Known'
  <2>1. CASE AppendLock(p)
    BY <2>1 DEF AppendLock, Lock
  <2>2. CASE AppendTest(p)
    BY <2>2, <1>a DEF AppendTest, QueueFull
  <2>3. CASE AppendReject(p)
    BY <2>3 DEF AppendReject, Unlock
  <2>4. CASE AppendPush(p)
    <3>1. Len(m_workqueue') = Len(m_workqueue) + 1
      BY <2>4, AppendProperties DEF AppendPush, PushBack
    <3>2. ~m_stop /\ m_queuelocker = p
      BY <2>4 DEF AppendPush, PushBack
    <3>3. \A q \in Threads \ {p} : pc[q] \notin CriticalStates
      BY <3>2
    <3>4. QueueBounded'
      BY <2>4, <3>1, <1>a DEF AppendPush, PushBack
    <3>5. PusherHasRoom'
      BY <2>4, <3>3 DEF AppendPush, PushBack
    <3>6. PopperHasRequest'
      BY <2>4, <3>3 DEF AppendPush, PushBack
    <3>7. NoAppendAfterStop' /\ WokenFindsRequest' /\ FreeWorker'
      BY <2>4, <3>2 DEF AppendPush, PushBack
    <3> QED
      BY <3>4, <3>5, <3>6, <3>7
  <2>5. CASE AppendUnlock(p)
    BY <2>5 DEF AppendUnlock, Unlock
  <2>6. CASE AppendPost(p)
    BY <2>6 DEF AppendPost
  <2> QED
    BY <1>2, <2>1, <2>2, <2>3, <2>4, <2>5, <2>6 DEF AppendStep
<1>3. ASSUME NEW w \in Workers, RunStep(w)
      PROVE  Known'
  <2>1. CASE RunLoop(w)
    BY <2>1 DEF RunLoop
  <2>2. CASE RunWait(w)
    BY <2>2 DEF RunWait
  <2>3. CASE RunLock(w)
    BY <2>3 DEF RunLock, Lock
  <2>4. CASE RunTest(w)
    <3>1. w \in Woken
      BY <2>4 DEF RunTest, Woken
    <3>2. m_workqueue # <<>>
      BY <2>4, <3>1, WokenImpliesNonempty DEF RunTest
    <3> QED
      BY <2>4, <3>2 DEF RunTest
  <2>5. CASE RunPop(w)
    <3>1. Len(m_workqueue') = Len(m_workqueue) - 1
      BY <2>5, HeadTailProperties DEF RunPop
    <3>2. ~m_stop /\ m_queuelocker = w
      BY <2>5 DEF RunPop
    <3>3. \A q \in Threads \ {w} : pc[q] \notin CriticalStates
      BY <3>2
    <3>4. QueueBounded'
      BY <3>1, <1>a
    <3>5. PusherHasRoom'
      BY <2>5, <3>3 DEF RunPop
    <3>6. PopperHasRequest'
      BY <2>5, <3>3 DEF RunPop
    <3>7. NoAppendAfterStop' /\ WokenFindsRequest' /\ FreeWorker'
      BY <2>5 DEF RunPop
    <3> QED
      BY <3>4, <3>5, <3>6, <3>7
  <2>6. CASE RunUnlock(w)
    BY <2>6 DEF RunUnlock, Unlock
  <2>7. CASE RunProcess(w)
    BY <2>7 DEF RunProcess
  <2>8. CASE RunUseAfterFree(w)
    BY <2>8 DEF RunUseAfterFree
  <2> QED
    BY <1>3, <2>1, <2>2, <2>3, <2>4, <2>5, <2>6, <2>7, <2>8 DEF RunStep
<1>4. CASE Destroy
  BY <1>4, EmptySeq DEF Destroy
<1>5. CASE UNCHANGED vars
  BY <1>5 DEF vars
<1> QED
  BY <1>1, <1>2, <1>3, <1>4, <1>5 DEF Next

\* IInv is inductive, and so holds in every state the pool reaches.
THEOREM Invariant == Spec => []IInv
<1>1. Init => IInv
  BY InitInvariant
<1>2. IInv /\ [Next]_vars => IInv'
  BY TypeStep, MutexStep, WakeupsStep, KnowledgeStep DEF IInv
<1> QED
  BY <1>1, <1>2, PTL DEF Spec, SafeSpec

-----------------------------------------------------------------------------
\* Every variable of the pool keeps its type.
THEOREM TypeCorrect == Spec => []TypeOK
BY Invariant, PTL DEF IInv

\* locker protects the queue: whoever tests or changes it holds the mutex.
THEOREM Exclusion == Spec => []MutualExclusion
BY Invariant, PTL DEF IInv

\* append() never lets more than m_max_requests requests wait.
THEOREM Bounded == Spec => []QueueBounded
BY Invariant, PTL DEF IInv

\* No wake-up is lost and none is in excess, although append() posts after it
\* has released the mutex.
THEOREM WakeupAccounting == Spec => []WakeupsMatchRequests
BY Invariant, PTL DEF IInv

\* A worker let through by the semaphore finds a request: the branch
\* m_workqueue.empty() of run() is dead code.
THEOREM EmptyBranchIsDead == Spec => []WokenFindsRequest
BY Invariant, PTL DEF IInv

\* The pool implements the safety part of the abstract task pool: tasks are
\* taken in the order of append(), each by one worker, and append() returns
\* false only when m_max_requests of them wait.
THEOREM Refinement == Spec => Abstract!SafeSpec
<1>1. Init => Abstract!Init
  BY PoolAssumption DEF PoolAssumption, Init, Abstract!Init, Threads
<1>2. IInv /\ [Next]_vars => [Abstract!Next]_(Abstract!vars)
  <2> SUFFICES ASSUME IInv, [Next]_vars
               PROVE  [Abstract!Next]_(Abstract!vars)
    OBVIOUS
  <2> DEFINE run == [w \in Workers |-> request[w]]
             ref == {p \in Producers : pc[p] = "reject"}
  <2> USE PoolAssumption DEF PoolAssumption, IInv, TypeOK, Threads, Goto
  <2>a. ASSUME m_workqueue' = m_workqueue, m_stop' = m_stop, run' = run, ref' = ref
        PROVE  [Abstract!Next]_(Abstract!vars)
    BY <2>a DEF Abstract!vars
  <2>b. Len(m_workqueue) \in Nat
    BY LenProperties
  <2>1. ASSUME NEW p \in Producers, NEW r \in Requests \cup {Null}, AppendCall(p, r)
        PROVE  [Abstract!Next]_(Abstract!vars)
    BY <2>1, <2>a DEF AppendCall
  <2>2. ASSUME NEW p \in Producers, AppendStep(p)
        PROVE  [Abstract!Next]_(Abstract!vars)
    <3>0. ~m_stop
      BY <2>2 DEF AppendStep, AppendLock, AppendTest, AppendReject, AppendPush,
                  AppendUnlock, AppendPost, NoAppendAfterStop
    <3>1. CASE AppendLock(p)
      BY <3>1, <2>a DEF AppendLock
    <3>2. CASE AppendTest(p)
      <4>1. CASE QueueFull
        <5>1. Len(m_workqueue) = MaxRequests
          BY <4>1, <2>b DEF QueueFull, QueueBounded
        <5>2. ref' = ref \cup {p} /\ run' = run
          BY <3>2, <4>1 DEF AppendTest
        <5>3. Abstract!Refuse(p)
          BY <3>0, <3>2, <5>1, <5>2 DEF Abstract!Refuse, AppendTest
        <5> QED
          BY <5>3 DEF Abstract!Next
      <4>2. CASE ~QueueFull
        BY <3>2, <4>2, <2>a DEF AppendTest
      <4> QED
        BY <4>1, <4>2
    <3>3. CASE AppendReject(p)
      <4>1. ref' = ref \ {p} /\ run' = run
        BY <3>3 DEF AppendReject
      <4>2. Abstract!Acknowledge(p)
        BY <3>3, <4>1 DEF Abstract!Acknowledge, AppendReject
      <4> QED
        BY <4>2 DEF Abstract!Next
    <3>4. CASE AppendPush(p)
      <4>1. ref' = ref /\ run' = run
        BY <3>4 DEF AppendPush, PushBack
      <4>2. Abstract!Submit(request[p])
        BY <3>0, <3>4, <4>1 DEF Abstract!Submit, AppendPush, PushBack, PusherHasRoom
      <4> QED
        BY <4>2 DEF Abstract!Next
    <3>5. CASE AppendUnlock(p)
      BY <3>5, <2>a DEF AppendUnlock
    <3>6. CASE AppendPost(p)
      BY <3>6, <2>a DEF AppendPost
    <3> QED
      BY <2>2, <3>1, <3>2, <3>3, <3>4, <3>5, <3>6 DEF AppendStep
  <2>3. ASSUME NEW w \in Workers, RunStep(w)
        PROVE  [Abstract!Next]_(Abstract!vars)
    <3>1. CASE RunLoop(w)
      BY <3>1, <2>a DEF RunLoop
    <3>2. CASE RunWait(w)
      BY <3>2, <2>a DEF RunWait
    <3>3. CASE RunLock(w)
      BY <3>3, <2>a DEF RunLock
    <3>4. CASE RunTest(w)
      BY <3>4, <2>a DEF RunTest
    <3>5. CASE RunPop(w)
      <4>1. ref' = ref /\ run' = [run EXCEPT ![w] = Head(m_workqueue)]
        BY <3>5 DEF RunPop
      <4>2. m_workqueue # <<>> /\ run[w] = Null
        BY <3>5 DEF RunPop, PopperHasRequest, FreeWorker
      <4>3. Abstract!Take(w)
        BY <3>5, <4>1, <4>2 DEF Abstract!Take, RunPop
      <4> QED
        BY <4>3 DEF Abstract!Next
    <3>6. CASE RunUnlock(w)
      BY <3>6, <2>a DEF RunUnlock
    <3>7. CASE RunProcess(w)
      <4>1. ref' = ref /\ run' = [run EXCEPT ![w] = Null]
        BY <3>7 DEF RunProcess
      <4>2. Abstract!Finish(w)
        BY <3>7, <4>1 DEF Abstract!Finish, RunProcess
      <4> QED
        BY <4>2 DEF Abstract!Next
    <3>8. CASE RunUseAfterFree(w)
      <4>1. ref' = ref /\ run' = [run EXCEPT ![w] = Null]
        BY <3>8 DEF RunUseAfterFree
      <4>2. Abstract!Finish(w)
        BY <3>8, <4>1 DEF Abstract!Finish, RunUseAfterFree
      <4> QED
        BY <4>2 DEF Abstract!Next
    <3> QED
      BY <2>3, <3>1, <3>2, <3>3, <3>4, <3>5, <3>6, <3>7, <3>8 DEF RunStep
  <2>4. CASE Destroy
    <3>1. ref' = ref /\ run' = run
      BY <2>4 DEF Destroy
    <3>2. Abstract!Close
      BY <2>4, <3>1 DEF Destroy, Abstract!Close
    <3> QED
      BY <3>2 DEF Abstract!Next
  <2>5. CASE UNCHANGED vars
    BY <2>5, <2>a DEF vars
  <2> QED
    BY <2>1, <2>2, <2>3, <2>4, <2>5 DEF Next
<1> QED
  BY <1>1, <1>2, Invariant, PTL DEF Spec, SafeSpec, Abstract!SafeSpec
=============================================================================

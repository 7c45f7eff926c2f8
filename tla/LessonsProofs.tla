---------------------------- MODULE LessonsProofs ----------------------------
(***************************************************************************)
(* The properties of SharedSegments and of Datagrams, for any number of    *)
(* processes.                                                              *)
(*                                                                         *)
(* Shared memory: what carries the proofs is where a segment that was      *)
(* created can be: the key names it, or a process that has ended has       *)
(* removed it; and a process is attached from shmat() to shmdt(), to a     *)
(* segment that exists.                                                    *)
(*                                                                         *)
(* Datagrams: what carries them is where a request or its answer can be:   *)
(* in the queue of port 9999, in the server, or in a client's socket, in   *)
(* this order and between the last answer and the next request; and whose  *)
(* it can be: the client's, or of a process that had its port and died.    *)
(***************************************************************************)
EXTENDS SharedSegments, Datagrams, FiniteSetTheorems, SequenceTheorems, TLAPS

(***************************************************************************)
(* Shared memory.                                                          *)
(***************************************************************************)

Started == {w \in Writers : pc[w] # "shmget"}
Attaches == {"memcpy", "printf", "getchar"}
Prompted == {"getchar", "shmctl", "done"}

\* No writer creates two segments, which bounds the identifiers.
CreatedByStarted == created <= Cardinality(Started)

\* Identifiers are of segments that were created, the key names one that exists.
IdsAreCreated ==
  /\ segments \subseteq 1 .. created
  /\ key \in segments \cup {NoId}
  /\ shmid \in [Processes -> 1 .. created \cup {NoId}]

\* Who is attached, and to what.
AttachedIds ==
  /\ \A p \in attached : pc[p] \in Attaches /\ shmid[p] \in segments
  /\ \A p \in Processes :
       /\ pc[p] \in Attaches => p \in attached
       /\ pc[p] = "shmget" => shmid[p] = NoId
       /\ pc[p] \in {"shmctl", "done"} => shmid[p] # NoId

\* A segment without the key was removed by a process that has ended.
RemovedByDone ==
  /\ \A n \in 1 .. created :
       n # key => \E x \in Processes : pc[x] = "done" /\ Has(x, n)
  /\ \A p \in Processes : pc[p] = "done" => shmid[p] # key
  /\ \A p \in Processes :
       pc[p] = "crashed" /\ shmid[p] # NoId => shmid[p] \notin segments

\* The text is in the segment as far as any writer has copied it.
CopiedIsInText ==
  \A w \in Writers :
    /\ shmid[w] # NoId => copied[w] <= text[shmid[w]]
    /\ pc[w] \in {"shmget", "shmat"} => copied[w] = 0
    /\ pc[w] \in Prompted => copied[w] = TextLength

SegmentsIInv ==
  /\ SegmentsTypeOK /\ CreatedByStarted /\ IdsAreCreated /\ AttachedIds
  /\ RemovedByDone /\ SegmentsAreFreed /\ CopiedIsInText

-----------------------------------------------------------------------------
\* There are finitely many writers, so those that started can be counted.
LEMMA CardWriters ==
  /\ IsFiniteSet(Writers)
  /\ Cardinality(Writers) \in Nat
  /\ IsFiniteSet(Started) /\ Cardinality(Started) \in Nat
  /\ Cardinality(Started) <= Cardinality(Writers)
<1>1. IsFiniteSet(Writers)
  BY SegmentsAssumption, FS_Subset DEF Processes
<1>2. Started \subseteq Writers
  BY DEF Started
<1>. QED BY <1>1, <1>2, FS_Subset, FS_CardinalityType

\* Nobody calls shmget() again.
LEMMA StartedStays ==
  ASSUME SegmentsTypeOK, NEW p \in Processes, NEW to, to # "shmget",
         pc[p] # "shmget", pc' = [pc EXCEPT ![p] = to]
  PROVE  Started' = Started
BY DEF SegmentsTypeOK, Started, Processes

\* Nothing exists yet.
LEMMA SegmentsInitIInv == ASSUME SegmentsInit PROVE SegmentsIInv
<1>1. SegmentsTypeOK
  BY CardWriters, SegmentsAssumption DEF SegmentsInit, SegmentsTypeOK, Ids, NoId, Ended
<1>2. CreatedByStarted
  BY CardWriters DEF SegmentsInit, CreatedByStarted
<1>3. IdsAreCreated
  BY DEF SegmentsInit, IdsAreCreated, NoId
<1>4. AttachedIds
  BY DEF SegmentsInit, AttachedIds, Attaches
<1>5. RemovedByDone
  BY DEF SegmentsInit, RemovedByDone
<1>6. SegmentsAreFreed
  BY DEF SegmentsInit, SegmentsAreFreed
<1>7. CopiedIsInText
  BY DEF SegmentsInit, CopiedIsInText, Prompted, Processes
<1>. QED BY <1>1, <1>2, <1>3, <1>4, <1>5, <1>6, <1>7 DEF SegmentsIInv

-----------------------------------------------------------------------------
\* shmget() finds the segment of the key, creates one, or fails.
LEMMA ShmgetIInv ==
  ASSUME SegmentsIInv, NEW p \in Processes, Shmget(p)
  PROVE  SegmentsIInv'
<1>. USE DEF SegmentsIInv, Has
<1>0. pc[p] = "shmget" /\ pc' = [pc EXCEPT ![p] = "shmat"]
  BY DEF Shmget, Goto
<1>1. CASE Found
  <2>0. /\ shmid' = [shmid EXCEPT ![p] = key]
        /\ UNCHANGED <<segments, created, key, attached, text, copied, printed>>
    BY <1>1 DEF Shmget
  <2>1. key \in segments /\ key \in Ids /\ key \in 1 .. created
    BY <1>1 DEF Found, IdsAreCreated, SegmentsTypeOK
  <2>2. SegmentsTypeOK'
    BY <1>0, <2>0, <2>1 DEF SegmentsTypeOK, Ended
  <2>3. CreatedByStarted'
    <3>1. Started \subseteq Started' /\ Started' \subseteq Writers
      BY <1>0 DEF Started, SegmentsTypeOK, Processes
    <3>2. Cardinality(Started) <= Cardinality(Started')
      BY <3>1, CardWriters, FS_Subset
    <3>3. IsFiniteSet(Started') /\ Cardinality(Started') \in Nat
      BY <3>1, CardWriters, FS_Subset, FS_CardinalityType
    <3>. QED BY <2>0, <3>2, <3>3, CardWriters DEF CreatedByStarted, SegmentsTypeOK
  <2>4. IdsAreCreated'
    BY <2>0, <2>1 DEF IdsAreCreated, SegmentsTypeOK
  <2>5. AttachedIds'
    BY <1>0, <2>0, <2>1 DEF AttachedIds, Attaches, SegmentsTypeOK
  <2>6. RemovedByDone'
    BY <1>0, <2>0, <2>1 DEF RemovedByDone, SegmentsTypeOK, AttachedIds, NoId
  <2>7. SegmentsAreFreed'
    BY <1>0, <2>0, <2>1 DEF SegmentsAreFreed, SegmentsTypeOK, AttachedIds, Attaches
  <2>8. CopiedIsInText'
    BY <1>0, <2>0, <2>1 DEF CopiedIsInText, SegmentsTypeOK, Prompted, Processes, Ids
  <2>. QED BY <2>2, <2>3, <2>4, <2>5, <2>6, <2>7, <2>8
<1>2. CASE ~Found /\ p \in Writers
  <2>0. /\ created' = created + 1 /\ segments' = segments \cup {created'}
        /\ key' = created' /\ shmid' = [shmid EXCEPT ![p] = created']
        /\ UNCHANGED <<attached, text, copied, printed>>
    BY <1>2 DEF Shmget
  <2>1. /\ IsFiniteSet(Started') /\ Cardinality(Started') = Cardinality(Started) + 1
        /\ Cardinality(Started') <= Cardinality(Writers)
    <3>1. Started' = Started \cup {p} /\ p \notin Started /\ Started' \subseteq Writers
      BY <1>0, <1>2 DEF Started, SegmentsTypeOK, Processes
    <3>. QED BY <3>1, CardWriters, FS_AddElement, FS_Subset
  <2>2. created' \in 1 .. Cardinality(Writers) /\ created' <= Cardinality(Started')
    BY <2>0, <2>1, CardWriters DEF CreatedByStarted, SegmentsTypeOK
  <2>3. created' \notin 1 .. created /\ created' \in 1 .. created'
        /\ 1 .. created \subseteq 1 .. created' /\ created' # NoId
    BY <2>0 DEF SegmentsTypeOK, NoId
  <2>4. SegmentsTypeOK'
    <3>1. created' \in 0 .. Cardinality(Writers) /\ created' \in Ids
      BY <2>2, CardWriters DEF Ids
    <3>. QED BY <1>0, <2>0, <3>1 DEF SegmentsTypeOK, Ended
  <2>5. CreatedByStarted'
    BY <2>2 DEF CreatedByStarted
  <2>6. IdsAreCreated'
    BY <2>0, <2>3 DEF IdsAreCreated, SegmentsTypeOK
  <2>7. AttachedIds'
    BY <1>0, <2>0, <2>3 DEF AttachedIds, Attaches, SegmentsTypeOK
  <2>8. RemovedByDone'
    <3>1. key = NoId
      BY <1>2 DEF Found
    <3>2. \A n \in 1 .. created : \E x \in Processes : pc'[x] = "done" /\ shmid'[x] = n
      BY <1>0, <2>0, <3>1 DEF RemovedByDone, SegmentsTypeOK, NoId
    <3>3. \A n \in 1 .. created' : n # key' => n \in 1 .. created
      BY <2>0 DEF SegmentsTypeOK
    <3>4. \A q \in Processes : pc'[q] \in {"done", "crashed"} => shmid'[q] # created'
      BY <1>0, <2>0, <2>3 DEF IdsAreCreated, SegmentsTypeOK
    <3>. QED BY <1>0, <2>0, <3>2, <3>3, <3>4 DEF RemovedByDone, SegmentsTypeOK
  <2>9. SegmentsAreFreed'
    <3>1. shmid'[p] = created' /\ pc'[p] \notin {"done", "crashed"}
      BY <1>0, <2>0 DEF SegmentsTypeOK
    <3>2. \A n \in segments : \E q \in attached : shmid'[q] = n
      BY <1>0, <1>2, <2>0 DEF SegmentsAreFreed, Found, AttachedIds, Attaches, SegmentsTypeOK,
           IdsAreCreated, NoId
    <3>. QED BY <2>0, <3>1, <3>2 DEF SegmentsAreFreed
  <2>10. CopiedIsInText'
    <3>1. text[created'] \in Nat /\ copied[p] = 0
      BY <1>0, <1>2, <2>2 DEF CopiedIsInText, SegmentsTypeOK, Ids
    <3>. QED BY <1>0, <2>0, <3>1 DEF CopiedIsInText, SegmentsTypeOK, Prompted, Processes
  <2>. QED BY <2>4, <2>5, <2>6, <2>7, <2>8, <2>9, <2>10
<1>3. CASE ~Found /\ p \notin Writers
  <2>0. UNCHANGED <<segments, created, key, shmid, attached, text, copied, printed>>
    BY <1>3 DEF Shmget
  <2>1. Started' = Started
    BY <1>0, <1>3 DEF Started, SegmentsTypeOK, Processes
  <2>2. SegmentsTypeOK'
    BY <1>0, <2>0 DEF SegmentsTypeOK, Ended
  <2>3. CreatedByStarted' /\ IdsAreCreated'
    BY <2>0, <2>1 DEF CreatedByStarted, IdsAreCreated
  <2>4. AttachedIds'
    BY <1>0, <2>0 DEF AttachedIds, Attaches, SegmentsTypeOK
  <2>5. RemovedByDone' /\ SegmentsAreFreed'
    BY <1>0, <2>0 DEF RemovedByDone, SegmentsAreFreed, SegmentsTypeOK
  <2>6. CopiedIsInText'
    BY <1>0, <1>3, <2>0 DEF CopiedIsInText, SegmentsTypeOK, Processes, Prompted
  <2>. QED BY <2>2, <2>3, <2>4, <2>5, <2>6
<1>. QED BY <1>1, <1>2, <1>3

\* shmat() takes a segment that exists.
LEMMA ShmatIInv ==
  ASSUME SegmentsIInv, NEW p \in Processes, Shmat(p)
  PROVE  SegmentsIInv'
<1>. USE DEF SegmentsIInv, Has
<1>0. /\ pc[p] = "shmat" /\ shmid[p] \in segments /\ attached' = attached \cup {p}
      /\ pc' = [pc EXCEPT ![p] = IF p \in Writers THEN "memcpy" ELSE "printf"]
      /\ UNCHANGED <<segments, created, key, text, shmid, copied, printed>>
  BY DEF Shmat, Goto
<1>1. SegmentsTypeOK'
  BY <1>0 DEF SegmentsTypeOK
<1>2. CreatedByStarted'
  BY <1>0, StartedStays DEF CreatedByStarted
<1>3. IdsAreCreated'
  BY <1>0 DEF IdsAreCreated
<1>4. AttachedIds'
  BY <1>0 DEF AttachedIds, Attaches, SegmentsTypeOK
<1>5. RemovedByDone'
  BY <1>0 DEF RemovedByDone, SegmentsTypeOK
<1>6. SegmentsAreFreed'
  BY <1>0 DEF SegmentsAreFreed, SegmentsTypeOK
<1>7. CopiedIsInText'
  BY <1>0 DEF CopiedIsInText, SegmentsTypeOK, Prompted, Processes
<1>. QED BY <1>1, <1>2, <1>3, <1>4, <1>5, <1>6, <1>7

\* A process whose segment is gone crashes; it is not one that the key needs.
LEMMA ShmatFailsIInv ==
  ASSUME SegmentsIInv, NEW p \in Processes, ShmatFails(p)
  PROVE  SegmentsIInv'
<1>. USE DEF SegmentsIInv, Has
<1>0. /\ pc[p] = "shmat" /\ shmid[p] \notin segments
      /\ pc' = [pc EXCEPT ![p] = "crashed"]
      /\ UNCHANGED <<segments, created, key, attached, text, shmid, copied, printed>>
  BY DEF ShmatFails, Goto, kernel
<1>1. SegmentsTypeOK'
  BY <1>0 DEF SegmentsTypeOK, Ended
<1>2. CreatedByStarted'
  BY <1>0, StartedStays DEF CreatedByStarted
<1>3. IdsAreCreated'
  BY <1>0 DEF IdsAreCreated
<1>4. AttachedIds'
  BY <1>0 DEF AttachedIds, Attaches, SegmentsTypeOK
<1>5. RemovedByDone'
  BY <1>0 DEF RemovedByDone, SegmentsTypeOK
<1>6. SegmentsAreFreed'
  BY <1>0 DEF SegmentsAreFreed, SegmentsTypeOK
<1>7. CopiedIsInText'
  BY <1>0 DEF CopiedIsInText, SegmentsTypeOK, Prompted, Processes
<1>. QED BY <1>1, <1>2, <1>3, <1>4, <1>5, <1>6, <1>7

\* A writer writes into the segment that it is attached to.
LEMMA MemcpyIInv ==
  ASSUME SegmentsIInv, NEW w \in Writers, Memcpy(w)
  PROVE  SegmentsIInv'
<1>. USE DEF SegmentsIInv, Has
<1>0. /\ pc[w] = "memcpy" /\ copied[w] < TextLength
      /\ copied' = [copied EXCEPT ![w] = copied[w] + 1]
      /\ text' = [text EXCEPT ![shmid[w]] =
                    IF text[shmid[w]] < copied'[w] THEN copied'[w] ELSE text[shmid[w]]]
      /\ UNCHANGED <<segments, created, key, attached, pc, shmid, printed>>
  BY DEF Memcpy, BytesToCopy
<1>1. /\ w \in Processes /\ shmid[w] \in Ids /\ shmid[w] # NoId
      /\ copied[w] \in 0 .. TextLength /\ copied'[w] = copied[w] + 1
      /\ copied'[w] \in 0 .. TextLength
  BY <1>0, SegmentsAssumption DEF AttachedIds, Attaches, SegmentsTypeOK, Processes, Ids, NoId
<1>2. text'[shmid[w]] >= copied'[w] /\ \A n \in Ids : text'[n] >= text[n]
  BY <1>0, <1>1, SegmentsAssumption DEF SegmentsTypeOK
<1>3. SegmentsTypeOK'
  BY <1>0, <1>1 DEF SegmentsTypeOK
<1>4. /\ CreatedByStarted' /\ IdsAreCreated' /\ AttachedIds'
      /\ RemovedByDone' /\ SegmentsAreFreed'
  BY <1>0 DEF CreatedByStarted, IdsAreCreated, AttachedIds, RemovedByDone,
     SegmentsAreFreed, Started
<1>5. CopiedIsInText'
  <2>. SUFFICES ASSUME NEW v \in Writers
                PROVE  /\ shmid[v] # NoId => copied'[v] <= text'[shmid[v]]
                       /\ pc[v] \in {"shmget", "shmat"} => copied'[v] = 0
                       /\ pc[v] \in Prompted => copied'[v] = TextLength
    BY <1>0 DEF CopiedIsInText
  <2>1. CASE v = w
    BY <2>1, <1>0, <1>1, <1>2 DEF Prompted
  <2>2. CASE v # w
    <3>1. copied'[v] = copied[v] /\ copied[v] \in 0 .. TextLength
      BY <2>2, <1>0 DEF SegmentsTypeOK
    <3>2. shmid[v] # NoId => shmid[v] \in Ids /\ text[shmid[v]] \in 0 .. TextLength
                               /\ text'[shmid[v]] \in 0 .. TextLength
      BY <1>3 DEF SegmentsTypeOK, Processes
    <3>. QED BY <3>1, <3>2, <1>2, SegmentsAssumption DEF CopiedIsInText
  <2>. QED BY <2>1, <2>2
<1>. QED BY <1>3, <1>4, <1>5

\* The writer has written all of the text when it asks for a key.
LEMMA MemcpyEndsIInv ==
  ASSUME SegmentsIInv, NEW w \in Writers, MemcpyEnds(w)
  PROVE  SegmentsIInv'
<1>. USE DEF SegmentsIInv, Has
<1>0. /\ pc[w] = "memcpy" /\ copied[w] = TextLength /\ w \in Processes
      /\ pc' = [pc EXCEPT ![w] = "getchar"]
      /\ UNCHANGED <<segments, created, key, attached, text, shmid, copied, printed>>
  BY DEF MemcpyEnds, Goto, kernel, BytesToCopy, Processes
<1>1. SegmentsTypeOK'
  BY <1>0 DEF SegmentsTypeOK
<1>2. CreatedByStarted'
  BY <1>0, StartedStays DEF CreatedByStarted
<1>3. IdsAreCreated'
  BY <1>0 DEF IdsAreCreated
<1>4. AttachedIds'
  BY <1>0 DEF AttachedIds, Attaches, SegmentsTypeOK
<1>5. RemovedByDone'
  BY <1>0 DEF RemovedByDone, SegmentsTypeOK
<1>6. SegmentsAreFreed'
  BY <1>0 DEF SegmentsAreFreed, SegmentsTypeOK
<1>7. CopiedIsInText'
  BY <1>0 DEF CopiedIsInText, SegmentsTypeOK, Prompted, Processes
<1>. QED BY <1>1, <1>2, <1>3, <1>4, <1>5, <1>6, <1>7

\* A reader prints from the segment that it is attached to.
LEMMA PrintfIInv ==
  ASSUME SegmentsIInv, NEW r \in Readers, Printf(r)
  PROVE  SegmentsIInv'
<1>. USE DEF SegmentsIInv, Has
<1>0. /\ pc[r] = "printf" /\ r \in Processes /\ r \notin Writers
      /\ pc' = [pc EXCEPT ![r] = "getchar"]
      /\ printed' = [printed EXCEPT ![r] = text[shmid[r]]]
      /\ UNCHANGED <<segments, created, key, attached, text, shmid, copied>>
  BY SegmentsAssumption DEF Printf, Goto, kernel, Processes
<1>1. SegmentsTypeOK'
  <2>1. shmid[r] \in Ids
    BY <1>0 DEF AttachedIds, Attaches, SegmentsTypeOK
  <2>2. text[shmid[r]] \in -1 .. TextLength
    BY <2>1, SegmentsAssumption DEF SegmentsTypeOK
  <2>. QED BY <1>0, <2>2 DEF SegmentsTypeOK
<1>2. CreatedByStarted'
  BY <1>0, StartedStays DEF CreatedByStarted
<1>3. IdsAreCreated'
  BY <1>0 DEF IdsAreCreated
<1>4. AttachedIds'
  BY <1>0 DEF AttachedIds, Attaches, SegmentsTypeOK
<1>5. RemovedByDone'
  BY <1>0 DEF RemovedByDone, SegmentsTypeOK
<1>6. SegmentsAreFreed'
  BY <1>0 DEF SegmentsAreFreed, SegmentsTypeOK
<1>7. CopiedIsInText'
  BY <1>0 DEF CopiedIsInText, SegmentsTypeOK, Prompted, Processes
<1>. QED BY <1>1, <1>2, <1>3, <1>4, <1>5, <1>6, <1>7

-----------------------------------------------------------------------------
\* A process leaves its segment, which stays if the key names it or another
\* process is attached to it.
LEMMA ShmdtIInv ==
  ASSUME SegmentsIInv, NEW p \in Processes, Shmdt(p)
  PROVE  SegmentsIInv'
<1>. USE DEF SegmentsIInv, Has
<1>0. /\ pc[p] = "getchar" /\ attached' = attached \ {p} /\ segments' = Kept(attached')
      /\ pc' = [pc EXCEPT ![p] = "shmctl"]
      /\ UNCHANGED <<created, key, text, shmid, copied, printed>>
  BY DEF Shmdt, Goto
<1>1. /\ segments' \subseteq segments
      /\ \A q \in attached' : shmid[q] \in segments'
      /\ key \in segments' \cup {NoId}
  BY <1>0 DEF Kept, AttachedIds, IdsAreCreated
<1>2. p \in attached /\ shmid[p] # NoId
  BY <1>0 DEF AttachedIds, Attaches, SegmentsTypeOK, Ids, NoId
<1>3. SegmentsTypeOK'
  BY <1>0, <1>1 DEF SegmentsTypeOK
<1>4. CreatedByStarted'
  BY <1>0, StartedStays DEF CreatedByStarted
<1>5. IdsAreCreated'
  BY <1>0, <1>1 DEF IdsAreCreated
<1>6. AttachedIds'
  BY <1>0, <1>1, <1>2 DEF AttachedIds, Attaches, SegmentsTypeOK
<1>7. RemovedByDone'
  BY <1>0, <1>1 DEF RemovedByDone, SegmentsTypeOK
<1>8. SegmentsAreFreed'
  BY <1>0, <1>1 DEF SegmentsAreFreed, SegmentsTypeOK, Kept
<1>9. CopiedIsInText'
  BY <1>0 DEF CopiedIsInText, SegmentsTypeOK, Prompted, Processes
<1>. QED BY <1>3, <1>4, <1>5, <1>6, <1>7, <1>8, <1>9

\* A process that has the segment of the key takes the key from it; any other
\* one removes nothing.
LEMMA ShmctlIInv ==
  ASSUME SegmentsIInv, NEW p \in Processes, Shmctl(p)
  PROVE  SegmentsIInv'
<1>. USE DEF SegmentsIInv, Has
<1>0. /\ pc[p] = "shmctl" /\ pc' = [pc EXCEPT ![p] = "done"] /\ shmid[p] # NoId
      /\ p \notin attached
      /\ UNCHANGED <<created, attached, text, shmid, copied, printed>>
  BY DEF Shmctl, Goto, AttachedIds, Attaches
<1>1. CreatedByStarted'
  BY <1>0, StartedStays DEF CreatedByStarted
<1>2. CopiedIsInText'
  BY <1>0 DEF CopiedIsInText, SegmentsTypeOK, Prompted, Processes
<1>3. CASE shmid[p] = key
  <2>0. key' = NoId /\ segments' = {i \in segments : \E q \in attached : shmid[q] = i}
    BY <1>3 DEF Shmctl, Removes
  <2>1. SegmentsTypeOK'
    BY <1>0, <2>0 DEF SegmentsTypeOK, Ended
  <2>2. IdsAreCreated'
    BY <1>0, <2>0 DEF IdsAreCreated
  <2>3. AttachedIds'
    BY <1>0, <2>0 DEF AttachedIds, Attaches, SegmentsTypeOK
  <2>4. RemovedByDone'
    BY <1>0, <1>3, <2>0 DEF RemovedByDone, SegmentsTypeOK, AttachedIds
  <2>5. SegmentsAreFreed'
    BY <1>0, <2>0 DEF SegmentsAreFreed
  <2>. QED BY <1>1, <1>2, <2>1, <2>2, <2>3, <2>4, <2>5
<1>4. CASE shmid[p] # key
  <2>0. UNCHANGED <<key, segments>>
    BY <1>4 DEF Shmctl, Removes
  <2>1. SegmentsTypeOK'
    BY <1>0, <2>0 DEF SegmentsTypeOK, Ended
  <2>2. IdsAreCreated'
    BY <1>0, <2>0 DEF IdsAreCreated
  <2>3. AttachedIds'
    BY <1>0, <2>0 DEF AttachedIds, Attaches, SegmentsTypeOK
  <2>4. RemovedByDone'
    BY <1>0, <1>4, <2>0 DEF RemovedByDone, SegmentsTypeOK
  <2>5. SegmentsAreFreed'
    BY <1>0, <1>4, <2>0 DEF SegmentsAreFreed, SegmentsTypeOK
  <2>. QED BY <1>1, <1>2, <2>1, <2>2, <2>3, <2>4, <2>5
<1>. QED BY <1>3, <1>4

\* A process that is killed leaves its segment and keeps the key as it is.
LEMMA KillIInv ==
  ASSUME SegmentsIInv, NEW p \in Processes, Kill(p)
  PROVE  SegmentsIInv'
<1>. USE DEF SegmentsIInv, Has
<1>0. /\ pc[p] \notin {"done", "killed", "crashed", "shmget"}
      /\ attached' = attached \ {p} /\ segments' = Kept(attached')
      /\ pc' = [pc EXCEPT ![p] = "killed"]
      /\ UNCHANGED <<created, key, text, shmid, copied, printed>>
  BY DEF Kill, Ended
<1>1. /\ segments' \subseteq segments
      /\ \A q \in attached' : shmid[q] \in segments'
      /\ key \in segments' \cup {NoId}
  BY <1>0 DEF Kept, AttachedIds, IdsAreCreated
<1>2. SegmentsTypeOK'
  BY <1>0, <1>1 DEF SegmentsTypeOK, Ended
<1>3. CreatedByStarted'
  BY <1>0, StartedStays DEF CreatedByStarted
<1>4. IdsAreCreated'
  BY <1>0, <1>1 DEF IdsAreCreated
<1>5. AttachedIds'
  BY <1>0, <1>1 DEF AttachedIds, Attaches, SegmentsTypeOK
<1>6. RemovedByDone'
  BY <1>0, <1>1 DEF RemovedByDone, SegmentsTypeOK
<1>7. SegmentsAreFreed'
  BY <1>0, <1>1 DEF SegmentsAreFreed, SegmentsTypeOK, Kept
<1>8. CopiedIsInText'
  BY <1>0 DEF CopiedIsInText, SegmentsTypeOK, Prompted, Processes
<1>. QED BY <1>2, <1>3, <1>4, <1>5, <1>6, <1>7, <1>8

\* Every step keeps the invariant.
LEMMA SegmentsNextIInv ==
  ASSUME SegmentsIInv, [SegmentsNext]_segmentsVars
  PROVE  SegmentsIInv'
<1>1. CASE UNCHANGED segmentsVars
  BY <1>1 DEF segmentsVars, kernel, SegmentsIInv, SegmentsTypeOK, CreatedByStarted,
     Started, IdsAreCreated, AttachedIds, RemovedByDone, SegmentsAreFreed,
     CopiedIsInText, Has
<1>2. ASSUME NEW p \in Processes,
             Shmget(p) \/ Shmat(p) \/ ShmatFails(p) \/ Shmdt(p) \/ Shmctl(p) \/ Kill(p)
      PROVE  SegmentsIInv'
  BY <1>2, ShmgetIInv, ShmatIInv, ShmatFailsIInv, ShmdtIInv, ShmctlIInv, KillIInv
<1>3. ASSUME NEW w \in Writers, Memcpy(w) \/ MemcpyEnds(w) PROVE SegmentsIInv'
  BY <1>3, MemcpyIInv, MemcpyEndsIInv
<1>4. ASSUME NEW r \in Readers, Printf(r) PROVE SegmentsIInv'
  BY <1>4, PrintfIInv
<1>. QED BY <1>1, <1>2, <1>3, <1>4 DEF SegmentsNext

\* Shared memory: the inductive invariant holds in every state.
LEMMA SegmentsInductive == SegmentsSpec => []SegmentsIInv
<1>. QED BY SegmentsInitIInv, SegmentsNextIInv, PTL DEF SegmentsSpec

-----------------------------------------------------------------------------
\* Whatever was killed or has crashed, a segment that the key names has an owner
\* that goes on or was killed, and any other is in use.
THEOREM SegmentsFreed == SegmentsSpec => []SegmentsAreFreed
<1>1. SegmentsIInv => SegmentsAreFreed
  BY DEF SegmentsIInv
<1>. QED BY <1>1, SegmentsInductive, PTL

\* Of two segments that are in use one is not the key's, and a process that has
\* ended removed it; the same holds of a segment that a process found gone.
THEOREM ApartAfterRemoval == SegmentsSpec => []ApartOnlyAfterRemoval
<1>1. ASSUME SegmentsIInv PROVE ApartOnlyAfterRemoval
  <2>. USE <1>1 DEF SegmentsIInv, Has
  <2>1. \A p \in Processes : shmid[p] # NoId => shmid[p] \in 1 .. created
    BY DEF IdsAreCreated
  <2>2. ASSUME NEW p \in attached, NEW q \in attached, shmid[p] # shmid[q]
        PROVE  \E x \in Processes : pc[x] = "done" /\ (Has(x, shmid[p]) \/ Has(x, shmid[q]))
    <3>1. shmid[p] \in 1 .. created /\ shmid[q] \in 1 .. created
      BY DEF AttachedIds, IdsAreCreated
    <3>2. shmid[p] # key \/ shmid[q] # key
      BY <2>2
    <3>. QED BY <3>1, <3>2 DEF RemovedByDone
  <2>3. ASSUME NEW p \in Processes, pc[p] = "crashed", shmid[p] # NoId
        PROVE  \E x \in Processes : pc[x] = "done" /\ Has(x, shmid[p])
    <3>1. shmid[p] # key
      BY <2>3 DEF RemovedByDone, IdsAreCreated
    <3>. QED BY <2>1, <2>3, <3>1 DEF RemovedByDone
  <2>. QED BY <2>2, <2>3 DEF ApartOnlyAfterRemoval
<1>. QED BY <1>1, SegmentsInductive, PTL

\* What a reader prints after its writer has asked for a key is all of the text,
\* because the writer has copied all of it into the segment that both have.
THEOREM PromptedWhole == SegmentsSpec => PromptedTextIsWhole
<1>1. ASSUME SegmentsIInv, NEW r \in Readers, NEW w \in Writers, Printf(r),
             Has(w, shmid[r]), pc[w] \in {"getchar", "shmctl", "done"}
      PROVE  printed'[r] = TextLength
  <2>. USE DEF SegmentsIInv
  <2>1. printed'[r] = text[shmid[r]] /\ pc[r] = "printf" /\ r \in Processes
    BY <1>1 DEF Printf, Goto, SegmentsTypeOK, Processes
  <2>2. shmid[r] \in Ids /\ shmid[r] # NoId
    BY <1>1, <2>1 DEF AttachedIds, Attaches, SegmentsTypeOK, Ids, NoId
  <2>3. TextLength <= text[shmid[r]]
    BY <1>1, <2>2 DEF CopiedIsInText, Prompted, Has
  <2>4. text[shmid[r]] \in 0 .. TextLength
    BY <1>1, <2>2 DEF SegmentsTypeOK
  <2>. QED BY <2>1, <2>3, <2>4, SegmentsAssumption
<1>2. SegmentsIInv => \A r \in Readers : \A w \in Writers :
                Printf(r) /\ Has(w, shmid[r]) /\ pc[w] \in {"getchar", "shmctl", "done"} =>
                  printed'[r] = TextLength
  BY <1>1
<1>. QED BY <1>2, SegmentsInductive, PTL DEF PromptedTextIsWhole

(***************************************************************************)
(* Datagrams: sequences of them.                                           *)
(***************************************************************************)

\* How many datagrams of s are in ds.
Count(ds, s) == Cardinality(From(ds, s))

\* In ds the numbers of s go up, and are between lo and hi.
Ordered(ds, s, lo, hi) ==
  \A i \in From(ds, s) :
    /\ lo < ds[i].num /\ ds[i].num < hi
    /\ \A j \in From(ds, s) : i < j => ds[i].num < ds[j].num

-----------------------------------------------------------------------------
\* What a socket can hold: a sequence that is not longer than its queue.
LEMMA BoundedIsShort ==
  ASSUME NEW T, NEW n \in Nat, NEW ds
  PROVE  ds \in BoundedSeq(T, n) <=> ds \in Seq(T) /\ Len(ds) <= n
<1>1. ASSUME ds \in BoundedSeq(T, n) PROVE ds \in Seq(T) /\ Len(ds) <= n
  <2>1. PICK m \in 0 .. n : ds \in [1 .. m -> T]
    BY <1>1 DEF BoundedSeq, SeqOf
  <2>2. ds \in Seq(T) /\ Len(ds) = m
    BY <2>1
  <2>. QED BY <2>2
<1>2. ASSUME ds \in Seq(T), Len(ds) <= n PROVE ds \in BoundedSeq(T, n)
  <2>1. Len(ds) \in 0 .. n /\ ds \in [1 .. Len(ds) -> T]
    BY <1>2, LenProperties
  <2>. QED BY <2>1 DEF BoundedSeq, SeqOf
<1>. QED BY <1>1, <1>2

\* What is in a sequence and in parts of it.
LEMMA Pieces ==
  ASSUME NEW a \in Seq(Datagram), NEW b \in Seq(Datagram)
  PROVE  /\ a \o b \in Seq(Datagram) /\ Len(a) \in Nat /\ Len(b) \in Nat
         /\ DOMAIN a = 1 .. Len(a) /\ DOMAIN b = 1 .. Len(b)
         /\ DOMAIN (a \o b) = 1 .. Len(a) + Len(b)
         /\ \A i \in 1 .. Len(a) : (a \o b)[i] = a[i]
         /\ \A i \in 1 .. Len(b) : (a \o b)[Len(a) + i] = b[i]
<1>1. a \o b \in Seq(Datagram) /\ Len(a \o b) = Len(a) + Len(b)
  BY ConcatProperties
<1>2. Len(a) \in Nat /\ Len(b) \in Nat
      /\ DOMAIN a = 1 .. Len(a) /\ DOMAIN b = 1 .. Len(b)
      /\ DOMAIN (a \o b) = 1 .. Len(a) + Len(b)
  BY <1>1, LenProperties
<1>3. \A i \in 1 .. Len(a) + Len(b) :
        (a \o b)[i] = IF i <= Len(a) THEN a[i] ELSE b[i - Len(a)]
  BY ConcatProperties
<1>4. ASSUME NEW i \in 1 .. Len(a) PROVE (a \o b)[i] = a[i]
  BY <1>2, <1>3
<1>5. ASSUME NEW i \in 1 .. Len(b) PROVE (a \o b)[Len(a) + i] = b[i]
  <2>1. Len(a) + i \in 1 .. Len(a) + Len(b) /\ ~(Len(a) + i <= Len(a))
        /\ Len(a) + i - Len(a) = i
    BY <1>2
  <2>. QED BY <1>3, <2>1
<1>. QED BY <1>1, <1>2, <1>4, <1>5

\* The places of s in two sequences, one behind the other.
LEMMA FromPieces ==
  ASSUME NEW a \in Seq(Datagram), NEW b \in Seq(Datagram), NEW s
  PROVE  /\ From(a, s) \subseteq 1 .. Len(a) /\ From(b, s) \subseteq 1 .. Len(b)
         /\ From(a \o b, s) = From(a, s) \cup {Len(a) + i : i \in From(b, s)}
<1>. USE Pieces
<1>1. From(a, s) \subseteq 1 .. Len(a) /\ From(b, s) \subseteq 1 .. Len(b)
  BY DEF From
<1>2. ASSUME NEW k, k \in From(a \o b, s)
      PROVE  k \in From(a, s) \cup {Len(a) + i : i \in From(b, s)}
  <2>1. k \in 1 .. Len(a) + Len(b) /\ (a \o b)[k].from = s
    BY <1>2 DEF From
  <2>2. CASE k <= Len(a)
    <3>1. k \in 1 .. Len(a)
      BY <2>1, <2>2
    <3>. QED BY <2>1, <3>1 DEF From
  <2>3. CASE ~(k <= Len(a))
    <3>1. k - Len(a) \in 1 .. Len(b) /\ Len(a) + (k - Len(a)) = k
      BY <2>1, <2>3
    <3>2. k - Len(a) \in From(b, s)
      BY <2>1, <3>1 DEF From
    <3>. QED BY <3>1, <3>2
  <2>. QED BY <2>2, <2>3
<1>3. ASSUME NEW k \in From(a, s) PROVE k \in From(a \o b, s)
  <2>1. k \in 1 .. Len(a) /\ a[k].from = s
    BY DEF From
  <2>2. k \in 1 .. Len(a) + Len(b)
    BY <2>1
  <2>. QED BY <2>1, <2>2 DEF From
<1>4. ASSUME NEW i \in From(b, s) PROVE Len(a) + i \in From(a \o b, s)
  <2>1. i \in 1 .. Len(b) /\ b[i].from = s
    BY DEF From
  <2>2. Len(a) + i \in 1 .. Len(a) + Len(b)
    BY <2>1
  <2>. QED BY <2>1, <2>2 DEF From
<1>. QED BY <1>1, <1>2, <1>3, <1>4

\* A sequence holds finitely many datagrams of s.
LEMMA CountIsNat ==
  ASSUME NEW a \in Seq(Datagram), NEW s
  PROVE  IsFiniteSet(From(a, s)) /\ Count(a, s) \in Nat
<1>1. From(a, s) \subseteq 1 .. Len(a) /\ Len(a) \in Nat
  BY Pieces, FromPieces
<1>2. IsFiniteSet(1 .. Len(a))
  BY <1>1, FS_Interval
<1>. QED BY <1>1, <1>2, FS_Subset, FS_CardinalityType DEF Count

\* Counts of sequences add up.
LEMMA CountConcat ==
  ASSUME NEW a \in Seq(Datagram), NEW b \in Seq(Datagram), NEW s
  PROVE  Count(a \o b, s) = Count(a, s) + Count(b, s)
<1>. DEFINE shift == [i \in From(b, s) |-> Len(a) + i]
            Right == {Len(a) + i : i \in From(b, s)}
<1>1. From(b, s) \subseteq 1 .. Len(b) /\ From(a, s) \subseteq 1 .. Len(a)
      /\ Len(a) \in Nat /\ Len(b) \in Nat
  BY FromPieces, Pieces
<1>2. shift \in Bijection(From(b, s), Right)
  <2>1. shift \in [From(b, s) -> Right]
    OBVIOUS
  <2>2. \A i, j \in From(b, s) : shift[i] = shift[j] => i = j
    BY <1>1
  <2>3. \A k \in Right : \E i \in From(b, s) : shift[i] = k
    OBVIOUS
  <2>4. shift \in Injection(From(b, s), Right)
    BY <2>1, <2>2 DEF Injection, IsInjective
  <2>5. shift \in Surjection(From(b, s), Right)
    BY <2>1, <2>3 DEF Surjection
  <2>. QED BY <2>4, <2>5 DEF Bijection
<1>3. IsFiniteSet(Right) /\ Cardinality(Right) = Count(b, s)
  <2>. HIDE DEF shift, Right
  <2>1. ExistsBijection(From(b, s), Right) /\ IsFiniteSet(From(b, s))
    BY <1>2, CountIsNat DEF ExistsBijection
  <2>. QED BY <2>1, FS_Bijection DEF Count
<1>4. From(a, s) \cap Right = {}
  BY <1>1
<1>5. Cardinality(From(a, s) \cup Right) = Count(a, s) + Count(b, s)
  <2>. HIDE DEF shift, Right
  <2>1. IsFiniteSet(From(a, s)) /\ Count(a, s) \in Nat /\ Count(b, s) \in Nat
    BY CountIsNat
  <2>2. Cardinality(From(a, s) \cup Right)
          = Cardinality(From(a, s)) + Cardinality(Right) - Cardinality(From(a, s) \cap Right)
    BY <1>3, <2>1, FS_Union
  <2>3. Cardinality(From(a, s) \cap Right) = 0
    BY <1>4, FS_EmptySet
  <2>. QED BY <1>3, <2>1, <2>2, <2>3 DEF Count
<1>. QED BY <1>5, FromPieces DEF Count

\* Nothing is in the empty sequence,
LEMMA CountNone == ASSUME NEW s PROVE Count(<<>>, s) = 0
<1>1. From(<<>>, s) = {}
  BY DEF From
<1>. QED BY <1>1, FS_EmptySet DEF Count

\* and one datagram, which may be of s, in this one.
LEMMA CountOne ==
  ASSUME NEW d \in Datagram, NEW s
  PROVE  Count(<<d>>, s) = IF d.from = s THEN 1 ELSE 0
<1>1. From(<<d>>, s) = IF d.from = s THEN {1} ELSE {}
  BY DEF From
<1>. QED BY <1>1, FS_EmptySet, FS_Singleton DEF Count

\* One more arrives.
LEMMA CountAppend ==
  ASSUME NEW a \in Seq(Datagram), NEW d \in Datagram, NEW s
  PROVE  /\ Append(a, d) \in Seq(Datagram)
         /\ Count(Append(a, d), s) = Count(a, s) + IF d.from = s THEN 1 ELSE 0
<1>1. <<d>> \in Seq(Datagram) /\ Append(a, d) = a \o <<d>>
  BY AppendIsConcat
<1>2. a \o <<d>> \in Seq(Datagram)
  BY <1>1, Pieces
<1>3. Count(a \o <<d>>, s) = Count(a, s) + Count(<<d>>, s)
  BY <1>1, CountConcat
<1>4. Count(<<d>>, s) = IF d.from = s THEN 1 ELSE 0
  BY CountOne
<1>. QED BY <1>1, <1>2, <1>3, <1>4

\* A sequence is its first datagram and the rest.
LEMMA HeadAndTail ==
  ASSUME NEW a \in Seq(Datagram), a # <<>>
  PROVE  /\ Head(a) \in Datagram /\ Tail(a) \in Seq(Datagram)
         /\ Len(Tail(a)) <= Len(a) /\ a = <<Head(a)>> \o Tail(a)
<1>1. Head(a) \in Datagram /\ Tail(a) \in Seq(Datagram) /\ Len(Tail(a)) = Len(a) - 1
      /\ \A i \in 1 .. Len(Tail(a)) : Tail(a)[i] = a[i + 1]
  BY HeadTailProperties
<1>2. a = <<Head(a)>> \o Tail(a)
  BY <1>1
<1>. QED BY <1>1, <1>2, LenProperties

\* The first one is taken.
LEMMA CountTail ==
  ASSUME NEW a \in Seq(Datagram), a # <<>>, NEW s
  PROVE  Count(a, s) = Count(Tail(a), s) + IF Head(a).from = s THEN 1 ELSE 0
<1>1. PICK d \in Datagram, b \in Seq(Datagram) : d = Head(a) /\ b = Tail(a) /\ a = <<d>> \o b
  BY HeadAndTail
<1>2. <<d>> \in Seq(Datagram)
  OBVIOUS
<1>3. Count(<<d>> \o b, s) = Count(<<d>>, s) + Count(b, s)
  BY <1>2, CountConcat
<1>4. Count(<<d>>, s) = IF d.from = s THEN 1 ELSE 0
  BY CountOne
<1>5. PICK n \in Nat : n = Count(b, s)
  BY CountIsNat
<1>6. (IF d.from = s THEN 1 ELSE 0) + n = n + IF d.from = s THEN 1 ELSE 0
  OBVIOUS
<1>. QED BY <1>1, <1>3, <1>4, <1>5, <1>6

-----------------------------------------------------------------------------
\* A sequence that is left of another one has its order.
LEMMA OrderedSub ==
  ASSUME NEW a, NEW b, NEW f \in [DOMAIN b -> DOMAIN a], NEW s, NEW lo, NEW hi,
         \A i \in DOMAIN b : a[f[i]] = b[i],
         \A i, j \in DOMAIN b : i < j => f[i] < f[j],
         Ordered(a, s, lo, hi)
  PROVE  Ordered(b, s, lo, hi)
<1>1. \A i \in From(b, s) : i \in DOMAIN b /\ f[i] \in From(a, s) /\ a[f[i]] = b[i]
  BY DEF From
<1>. QED BY <1>1 DEF Ordered

\* What is left when m, in the middle, is taken out or lost has the order.
LEMMA OrderedSkip ==
  ASSUME NEW a \in Seq(Datagram), NEW m \in Seq(Datagram), NEW b \in Seq(Datagram),
         NEW s, NEW lo, NEW hi, Ordered((a \o m) \o b, s, lo, hi)
  PROVE  Ordered(a \o b, s, lo, hi)
<1>. DEFINE f == [i \in 1 .. Len(a) + Len(b) |-> IF i <= Len(a) THEN i ELSE i + Len(m)]
<1>1. /\ a \o m \in Seq(Datagram) /\ Len(a \o m) = Len(a) + Len(m)
      /\ Len(a) \in Nat /\ Len(b) \in Nat /\ Len(m) \in Nat
      /\ DOMAIN (a \o b) = 1 .. Len(a) + Len(b)
      /\ DOMAIN ((a \o m) \o b) = 1 .. Len(a) + Len(m) + Len(b)
  BY Pieces, ConcatProperties
<1>2. f \in [1 .. Len(a) + Len(b) -> 1 .. Len(a) + Len(m) + Len(b)]
  BY <1>1
<1>3. \A i, j \in 1 .. Len(a) + Len(b) : i < j => f[i] < f[j]
  BY <1>1
<1>4. ASSUME NEW i \in 1 .. Len(a) + Len(b)
      PROVE  ((a \o m) \o b)[f[i]] = (a \o b)[i]
  <2>1. CASE i <= Len(a)
    <3>1. f[i] = i /\ i \in 1 .. Len(a) /\ i \in 1 .. Len(a \o m)
      BY <1>1, <2>1
    <3>. HIDE DEF f
    <3>2. (a \o b)[i] = a[i] /\ (a \o m)[i] = a[i]
      BY <3>1, Pieces
    <3>3. ((a \o m) \o b)[i] = (a \o m)[i]
      BY <1>1, <3>1, Pieces
    <3>. QED BY <3>1, <3>2, <3>3
  <2>2. CASE ~(i <= Len(a))
    <3>1. PICK k \in 1 .. Len(b) : i = Len(a) + k
      <4>1. i - Len(a) \in 1 .. Len(b) /\ i = Len(a) + (i - Len(a))
        BY <1>1, <2>2
      <4>. QED BY <4>1
    <3>2. f[i] = Len(a \o m) + k
      BY <1>1, <2>2, <3>1
    <3>. HIDE DEF f
    <3>3. (a \o b)[i] = b[k]
      BY <3>1, Pieces
    <3>4. ((a \o m) \o b)[Len(a \o m) + k] = b[k]
      BY <1>1, <3>1, Pieces
    <3>. QED BY <3>2, <3>3, <3>4
  <2>. QED BY <2>1, <2>2
<1>. HIDE DEF f
<1>5. /\ f \in [DOMAIN (a \o b) -> DOMAIN ((a \o m) \o b)]
      /\ \A i \in DOMAIN (a \o b) : ((a \o m) \o b)[f[i]] = (a \o b)[i]
      /\ \A i, j \in DOMAIN (a \o b) : i < j => f[i] < f[j]
  BY <1>1, <1>2, <1>3, <1>4
<1>. QED BY <1>5, OrderedSub

\* So has what is left when the end is.
LEMMA OrderedPrefix ==
  ASSUME NEW a \in Seq(Datagram), NEW m \in Seq(Datagram),
         NEW s, NEW lo, NEW hi, Ordered(a \o m, s, lo, hi)
  PROVE  Ordered(a, s, lo, hi)
<1>1. <<>> \in Seq(Datagram) /\ (a \o m) \o <<>> = a \o m /\ a \o <<>> = a
  BY ConcatProperties, ConcatEmptySeq
<1>. QED BY <1>1, OrderedSkip

\* A datagram with a new number comes to the end.
LEMMA OrderedAppend ==
  ASSUME NEW a \in Seq(Datagram), NEW d \in Datagram, NEW s,
         NEW lo \in Int, NEW hi \in Int, Ordered(a, s, lo, hi),
         d.from = s => d.num = hi /\ lo < hi
  PROVE  Ordered(Append(a, d), s, lo, IF d.from = s THEN hi + 1 ELSE hi)
<1>1. /\ Append(a, d) \in Seq(Datagram) /\ DOMAIN Append(a, d) = 1 .. Len(a) + 1
      /\ Len(a) \in Nat /\ DOMAIN a = 1 .. Len(a)
      /\ \A i \in 1 .. Len(a) : Append(a, d)[i] = a[i]
      /\ Append(a, d)[Len(a) + 1] = d
  BY AppendProperties, LenProperties
<1>2. ASSUME NEW i \in From(Append(a, d), s)
      PROVE  \/ i \in 1 .. Len(a) /\ i \in From(a, s) /\ Append(a, d)[i] = a[i]
             \/ i = Len(a) + 1 /\ d.from = s /\ Append(a, d)[i] = d
  <2>1. i \in 1 .. Len(a) + 1 /\ Append(a, d)[i].from = s
    BY <1>1 DEF From
  <2>2. i \in 1 .. Len(a) \/ i = Len(a) + 1
    BY <1>1, <2>1
  <2>. QED BY <1>1, <2>1, <2>2 DEF From
<1>3. \A i \in From(a, s) : a[i] \in Datagram /\ a[i].num \in Int
  <2>1. \A i \in DOMAIN a : a[i] \in Datagram
    BY <1>1, ElementOfSeq
  <2>2. \A e \in Datagram : e.num \in Int
    BY DatagramsAssumption DEF Datagram
  <2>. QED BY <2>1, <2>2 DEF From
<1>4. ASSUME NEW i \in From(Append(a, d), s)
      PROVE  /\ lo < Append(a, d)[i].num
             /\ Append(a, d)[i].num < IF d.from = s THEN hi + 1 ELSE hi
             /\ \A j \in From(Append(a, d), s) :
                  i < j => Append(a, d)[i].num < Append(a, d)[j].num
  <2>1. CASE i = Len(a) + 1 /\ d.from = s /\ Append(a, d)[i] = d
    <3>1. \A j \in From(Append(a, d), s) : ~(i < j)
      BY <1>1, <1>2, <2>1
    <3>2. d.num = hi /\ lo < hi /\ hi < hi + 1
      BY <2>1
    <3>. QED BY <2>1, <3>1, <3>2
  <2>2. CASE i \in 1 .. Len(a) /\ i \in From(a, s) /\ Append(a, d)[i] = a[i]
    <3>1. lo < a[i].num /\ a[i].num < hi /\ a[i].num \in Int
      BY <1>3, <2>2 DEF Ordered
    <3>2. ASSUME NEW j \in From(Append(a, d), s), i < j
          PROVE  a[i].num < Append(a, d)[j].num
      <4>1. CASE j = Len(a) + 1 /\ d.from = s /\ Append(a, d)[j] = d
        BY <3>1, <4>1
      <4>2. CASE j \in From(a, s) /\ Append(a, d)[j] = a[j]
        BY <2>2, <3>2, <4>2 DEF Ordered
      <4>. QED BY <1>2, <4>1, <4>2
    <3>3. a[i].num < IF d.from = s THEN hi + 1 ELSE hi
      BY <3>1
    <3>. QED BY <2>2, <3>1, <3>2, <3>3
  <2>. QED BY <1>2, <2>1, <2>2
<1>. QED BY <1>4 DEF Ordered

\* The first datagram goes; the next number is higher.
LEMMA OrderedHead ==
  ASSUME NEW d \in Datagram, NEW a \in Seq(Datagram), NEW s, NEW lo, NEW hi,
         Ordered(<<d>> \o a, s, lo, hi)
  PROVE  /\ Ordered(a, s, lo, hi)
         /\ d.from = s => lo < d.num /\ d.num < hi /\ Ordered(a, s, d.num, hi)
<1>1. <<d>> \in Seq(Datagram) /\ <<>> \in Seq(Datagram) /\ Len(<<d>>) = 1 /\ <<d>>[1] = d
      /\ <<>> \o <<d>> = <<d>> /\ <<>> \o a = a
  BY ConcatEmptySeq
<1>2. Ordered(a, s, lo, hi)
  BY <1>1, OrderedSkip
<1>3. ASSUME d.from = s PROVE lo < d.num /\ d.num < hi /\ Ordered(a, s, d.num, hi)
  <2>1. /\ (<<d>> \o a)[1] = d /\ 1 \in DOMAIN (<<d>> \o a)
        /\ DOMAIN a = 1 .. Len(a) /\ Len(a) \in Nat
        /\ \A i \in 1 .. Len(a) : 1 + i \in DOMAIN (<<d>> \o a) /\ (<<d>> \o a)[1 + i] = a[i]
    <3>1. DOMAIN (<<d>> \o a) = 1 .. 1 + Len(a) /\ Len(a) \in Nat /\ DOMAIN a = 1 .. Len(a)
      BY <1>1, Pieces
    <3>2. (<<d>> \o a)[1] = d
      <4>1. 1 \in 1 .. Len(<<d>>)
        BY <1>1
      <4>. QED BY <1>1, <4>1, Pieces
    <3>3. \A i \in 1 .. Len(a) : (<<d>> \o a)[Len(<<d>>) + i] = a[i]
      BY <1>1, Pieces
    <3>. QED BY <1>1, <3>1, <3>2, <3>3
  <2>2. 1 \in From(<<d>> \o a, s)
    BY <1>3, <2>1 DEF From
  <2>3. \A i \in From(a, s) : i \in 1 .. Len(a) /\ 1 + i \in From(<<d>> \o a, s) /\ 1 < 1 + i
    BY <2>1 DEF From
  <2>4. \A i \in From(a, s) : d.num < a[i].num
    BY <2>1, <2>2, <2>3 DEF Ordered
  <2>. QED BY <1>2, <2>1, <2>2, <2>4 DEF Ordered
<1>. QED BY <1>2, <1>3

-----------------------------------------------------------------------------
\* All datagrams in ds are from these senders.
AllFrom(ds, procs) == \A i \in DOMAIN ds : ds[i].from \in procs

\* One of them sends another.
LEMMA AllFromAppend ==
  ASSUME NEW a \in Seq(Datagram), NEW d \in Datagram, NEW procs, AllFrom(a, procs),
         d.from \in procs
  PROVE  AllFrom(Append(a, d), procs)
<1>1. DOMAIN Append(a, d) = 1 .. Len(a) + 1 /\ Len(a) \in Nat /\ DOMAIN a = 1 .. Len(a)
  BY AppendProperties, LenProperties
<1>2. ASSUME NEW i \in 1 .. Len(a) + 1 PROVE Append(a, d)[i].from \in procs
  <2>1. i \in 1 .. Len(a) \/ i = Len(a) + 1
    BY <1>1
  <2>. QED BY <1>1, <2>1, AppendProperties DEF AllFrom
<1>. QED BY <1>1, <1>2 DEF AllFrom

\* The first is from one of them, and so is the rest.
LEMMA AllFromTail ==
  ASSUME NEW a \in Seq(Datagram), a # <<>>, NEW procs, AllFrom(a, procs)
  PROVE  AllFrom(Tail(a), procs) /\ Head(a).from \in procs
<1>1. Len(a) \in Nat \ {0} /\ DOMAIN a = 1 .. Len(a)
  BY EmptySeq, LenProperties
<1>2. Tail(a) \in Seq(Datagram) /\ Len(Tail(a)) = Len(a) - 1
      /\ \A i \in 1 .. Len(Tail(a)) : Tail(a)[i] = a[i + 1]
  BY HeadTailProperties
<1>3. \A i \in 1 .. Len(Tail(a)) : i + 1 \in 1 .. Len(a)
  BY <1>1, <1>2
<1>4. DOMAIN Tail(a) = 1 .. Len(Tail(a))
  BY <1>2, LenProperties
<1>5. Head(a) = a[1] /\ 1 \in DOMAIN a
  BY <1>1
<1>. QED BY <1>1, <1>2, <1>3, <1>4, <1>5 DEF AllFrom

\* None is from s when all are from others.
LEMMA NoneFrom ==
  ASSUME NEW a, NEW s, NEW procs, AllFrom(a, procs), s \notin procs
  PROVE  From(a, s) = {} /\ Count(a, s) = 0
<1>1. From(a, s) = {}
  BY DEF From, AllFrom
<1>. QED BY <1>1, FS_EmptySet DEF Count

-----------------------------------------------------------------------------
\* The senders that were started.
Known == {s \in Senders : status[s] # "new"}

\* Those whose answers can come to s: itself and those that had its port.
Owners(s) == {f \in Senders : f = s \/ (status[f] = "killed" /\ port[f] = port[s])}

\* A port is of one process at a time.
PortsDiffer ==
  \A s \in Senders :
    Alive(s) => port[s] \in Ports /\ \A t \in Senders \ {s} : Alive(t) => port[t] # port[s]

\* A process that does not run has no socket, and one that was not started
\* has no past.
OnlyAliveHas ==
  \A s \in Senders :
    /\ ~Alive(s) => inbox[s] = <<>>
    /\ status[s] = "new" => num[s] = 0 /\ lost[s] = 0 /\ foreign[s] = 0 /\ got[s] = -1

\* Where the datagrams come from, in each socket and in the server.
SentByKnown ==
  /\ AllFrom(queue, Known) /\ AllFrom(InBuf, Known)
  /\ \A s \in Senders : AllFrom(inbox[s], Known) /\ AllFrom(inbox[s], Owners(s))

\* RequestsAccount, one place after the other.
PlacesAccount ==
  \A c \in LiveClients :
    Count(inbox[c], c) + Count(InBuf, c) + Count(queue, c) + lost[c] = foreign[c] + Waits(c)

\* What is under way is between the last answer and the next request.
OrderKept ==
  \A c \in LiveClients :
    got[c] < num[c] /\ Ordered(UnderWay(c), c, got[c], num[c])

LagFits ==
  \A c \in LiveClients :
    /\ num[c] - 1 - got[c] <= foreign[c] + Waits(c)
    /\ foreign[c] > 0 => \E s \in Senders : status[s] = "killed" /\ port[s] = port[c]

DatagramsIInv ==
  /\ TypeOK /\ PortsDiffer /\ OnlyAliveHas /\ SentByKnown
  /\ PlacesAccount /\ OrderKept /\ LagFits

-----------------------------------------------------------------------------
\* What TypeOK says of the sequences and of the counters.
LEMMA Typed ==
  ASSUME TypeOK
  PROVE  /\ QueueLength \in Nat \ {0} /\ MaxNum \in Nat /\ NoDatagram \notin Datagram
         /\ queue \in Seq(Datagram) /\ Len(queue) \in Nat /\ Len(queue) <= QueueLength
         /\ InBuf \in Seq(Datagram)
         /\ \A s \in Senders :
              /\ inbox[s] \in Seq(Datagram)
              /\ Len(inbox[s]) \in Nat /\ Len(inbox[s]) <= QueueLength
              /\ num[s] \in Nat /\ lost[s] \in Nat /\ foreign[s] \in Nat /\ got[s] \in Int
<1>1. QueueLength \in Nat \ {0} /\ MaxNum \in Nat /\ NoDatagram \notin Datagram
  BY DatagramsAssumption
<1>2. queue \in Seq(Datagram) /\ Len(queue) <= QueueLength
  BY <1>1, BoundedIsShort DEF TypeOK
<1>3. InBuf \in Seq(Datagram)
  BY DEF InBuf, TypeOK
<1>4. ASSUME NEW s \in Senders
      PROVE  inbox[s] \in Seq(Datagram) /\ Len(inbox[s]) <= QueueLength
  <2>1. inbox[s] \in BoundedSeq(Datagram, QueueLength)
    BY DEF TypeOK
  <2>. QED BY <1>1, <2>1, BoundedIsShort
<1>5. \A s \in Senders :
        num[s] \in Nat /\ lost[s] \in Nat /\ foreign[s] \in Nat /\ got[s] \in Int
  BY <1>1 DEF TypeOK
<1>. QED BY <1>1, <1>2, <1>3, <1>4, <1>5, LenProperties

\* A client is one of the senders.
LEMMA ClientsSend == Clients \subseteq Senders
BY DEF Senders

\* LostWith(ds) counts the requests in ds, and changes no other count.
LEMMA LostWithAdds ==
  ASSUME TypeOK, NEW ds \in Seq(Datagram)
  PROVE  /\ LostWith(ds) \in [Senders -> Nat]
         /\ \A c \in Clients : LostWith(ds)[c] = lost[c] + Count(ds, c)
         /\ \A s \in Senders : Count(ds, s) = 0 => LostWith(ds)[s] = lost[s]
<1>1. \A s \in Senders : Count(ds, s) \in Nat /\ lost[s] \in Nat
  BY CountIsNat, Typed
<1>2. LostWith(ds) =
        [s \in Senders |-> lost[s] + IF s \in Clients THEN Count(ds, s) ELSE 0]
  BY DEF LostWith, Count
<1>. QED BY <1>1, <1>2, ClientsSend

\* The places of what is under way.
LEMMA UnderWayTyped ==
  ASSUME TypeOK, NEW s \in Senders
  PROVE  /\ inbox[s] \o InBuf \in Seq(Datagram) /\ UnderWay(s) \in Seq(Datagram)
         /\ Count(UnderWay(s), s)
              = Count(inbox[s], s) + Count(InBuf, s) + Count(queue, s)
         /\ Count(inbox[s], s) \in Nat /\ Count(InBuf, s) \in Nat /\ Count(queue, s) \in Nat
<1>1. inbox[s] \in Seq(Datagram) /\ InBuf \in Seq(Datagram) /\ queue \in Seq(Datagram)
  BY Typed
<1>2. inbox[s] \o InBuf \in Seq(Datagram)
      /\ Count(inbox[s] \o InBuf, s) = Count(inbox[s], s) + Count(InBuf, s)
  BY <1>1, CountConcat, Pieces
<1>3. (inbox[s] \o InBuf) \o queue \in Seq(Datagram)
      /\ Count((inbox[s] \o InBuf) \o queue, s) = Count(inbox[s] \o InBuf, s) + Count(queue, s)
  BY <1>1, <1>2, CountConcat, Pieces
<1>. QED BY <1>1, <1>2, <1>3, CountIsNat DEF UnderWay

\* No datagram is in the wrong order where there is none.
LEMMA NothingOrdered ==
  ASSUME NEW a, NEW s, NEW lo, NEW hi, From(a, s) = {} PROVE Ordered(a, s, lo, hi)
BY DEF Ordered

\* Nobody has been started.
LEMMA DatagramsInitIInv == ASSUME Init PROVE DatagramsIInv
<1>. USE DEF Init
<1>0. QueueLength \in Nat /\ MaxNum \in Nat
  BY DatagramsAssumption
<1>1. TypeOK
  <2>1. <<>> \in BoundedSeq(Datagram, QueueLength)
    <3>1. <<>> \in Seq(Datagram) /\ Len(<<>>) = 0 /\ 0 <= QueueLength
      BY <1>0
    <3>. QED BY <1>0, <3>1, BoundedIsShort
  <2>. QED BY <1>0, <2>1 DEF TypeOK
<1>2. \A s \in Senders : ~Alive(s)
  BY DEF Alive
<1>3. PortsDiffer /\ PlacesAccount /\ OrderKept /\ LagFits
  BY <1>2, ClientsSend DEF PortsDiffer, PlacesAccount, OrderKept, LagFits, LiveClients
<1>4. OnlyAliveHas
  BY DEF OnlyAliveHas
<1>5. SentByKnown
  BY DEF SentByKnown, AllFrom, InBuf
<1>. QED BY <1>1, <1>3, <1>4, <1>5 DEF DatagramsIInv

-----------------------------------------------------------------------------
\* A set of senders grows.
LEMMA AllFromMore ==
  ASSUME NEW a, NEW procs, AllFrom(a, procs), NEW more, procs \subseteq more
  PROVE  AllFrom(a, more)
BY DEF AllFrom

\* The empty sequence is from anybody.
LEMMA NoneAllFrom == ASSUME NEW procs PROVE AllFrom(<<>>, procs)
BY DEF AllFrom

\* Only who has port 9999 changes.
LEMMA StartReceiverIInv ==
  ASSUME DatagramsIInv, NEW r \in Receivers, StartReceiver(r) PROVE DatagramsIInv'
BY DEF DatagramsIInv, StartReceiver, history, TypeOK, PortsDiffer, OnlyAliveHas,
       SentByKnown, PlacesAccount, OrderKept, LagFits, Alive, LiveClients, Waits,
       UnderWay, InBuf, Known, Owners

\* What was in port 9999 is lost, and each client counts its own.
LEMMA KillReceiverIInv == ASSUME DatagramsIInv, KillReceiver PROVE DatagramsIInv'
<1>. USE DEF DatagramsIInv
<1>0. /\ receiver' = NoProgram /\ queue' = <<>> /\ buf' = NoDatagram /\ InBuf' = <<>>
      /\ lost' = LostWith(queue \o InBuf)
      /\ UNCHANGED <<status, port, inbox, num, foreign, got>>
  BY DEF KillReceiver, InBuf
<1>1. queue \o InBuf \in Seq(Datagram)
      /\ \A s \in Senders : Count(queue \o InBuf, s) = Count(queue, s) + Count(InBuf, s)
  BY Typed, Pieces, CountConcat
<1>2. TypeOK'
  <2>1. <<>> \in BoundedSeq(Datagram, QueueLength)
    <3>1. <<>> \in Seq(Datagram) /\ Len(<<>>) = 0 /\ 0 <= QueueLength
      BY Typed
    <3>. QED BY <3>1, Typed, BoundedIsShort
  <2>. QED BY <1>0, <1>1, <2>1, LostWithAdds DEF TypeOK
<1>3. PortsDiffer' /\ LagFits'
  BY <1>0 DEF PortsDiffer, LagFits, Alive, LiveClients, Waits
<1>4. OnlyAliveHas'
  <2>1. ASSUME NEW s \in Senders, status[s] = "new" PROVE lost'[s] = lost[s]
    <3>1. Count(queue, s) = 0 /\ Count(InBuf, s) = 0
      BY <2>1, NoneFrom DEF SentByKnown, Known
    <3>2. Count(queue \o InBuf, s) = 0
      BY <1>1, <3>1
    <3>. QED BY <1>0, <1>1, <3>2, LostWithAdds
  <2>. QED BY <1>0, <2>1 DEF OnlyAliveHas, Alive
<1>5. SentByKnown'
  <2>1. Known' = Known /\ \A s \in Senders : Owners(s)' = Owners(s)
    BY <1>0 DEF Known, Owners
  <2>. QED BY <1>0, <2>1, NoneAllFrom DEF SentByKnown
<1>6. PlacesAccount'
  <2>1. ASSUME NEW c \in LiveClients
        PROVE  Count(inbox[c], c) + 0 + 0 + lost'[c] = foreign[c] + Waits(c)
    <3>1. c \in Clients /\ c \in Senders
      BY ClientsSend DEF LiveClients
    <3>2. Count(inbox[c], c) + Count(InBuf, c) + Count(queue, c) + lost[c]
            = foreign[c] + Waits(c)
      BY DEF PlacesAccount
    <3>3. lost'[c] = lost[c] + (Count(queue, c) + Count(InBuf, c))
      BY <1>0, <1>1, <3>1, LostWithAdds
    <3>4. /\ Count(inbox[c], c) \in Nat /\ Count(InBuf, c) \in Nat /\ Count(queue, c) \in Nat
          /\ lost[c] \in Nat
      BY <3>1, Typed, UnderWayTyped
    <3>. QED BY <3>2, <3>3, <3>4
  <2>2. \A c : Count(<<>>, c) = 0
    BY CountNone
  <2>3. LiveClients' = LiveClients /\ \A c : Waits(c)' = Waits(c)
    BY <1>0 DEF LiveClients, Alive, Waits
  <2>. QED BY <1>0, <2>1, <2>2, <2>3 DEF PlacesAccount
<1>7. OrderKept'
  <2>1. ASSUME NEW c \in LiveClients PROVE Ordered(UnderWay(c)', c, got[c], num[c])
    <3>1. inbox[c] \in Seq(Datagram) /\ InBuf \in Seq(Datagram) /\ queue \in Seq(Datagram)
          /\ inbox[c] \o InBuf \in Seq(Datagram)
      BY Typed, UnderWayTyped, ClientsSend DEF LiveClients
    <3>2. Ordered((inbox[c] \o InBuf) \o queue, c, got[c], num[c])
      BY DEF OrderKept, UnderWay
    <3>3. Ordered(inbox[c], c, got[c], num[c])
      BY <3>1, <3>2, OrderedPrefix
    <3>4. UnderWay(c)' = inbox[c]
      BY <1>0, <3>1, ConcatEmptySeq DEF UnderWay
    <3>. QED BY <3>3, <3>4
  <2>2. LiveClients' = LiveClients
    BY <1>0 DEF LiveClients, Alive
  <2>. QED BY <1>0, <2>1, <2>2 DEF OrderKept
<1>. QED BY <1>2, <1>3, <1>4, <1>5, <1>6, <1>7

\* A new process has a port of its own, and nothing of it is under way.
LEMMA StartSenderIInv ==
  ASSUME DatagramsIInv, NEW s \in Senders, StartSender(s) PROVE DatagramsIInv'
<1>. USE DEF DatagramsIInv
<1>0. /\ status[s] = "new" /\ status' = [status EXCEPT ![s] = "send"]
      /\ InBuf' = InBuf /\ UNCHANGED <<receiver, queue, buf, inbox, num, history>>
  BY DEF StartSender, InBuf
<1>00. UNCHANGED <<lost, foreign, got>>
  BY <1>0 DEF history
<1>1. PICK p \in Ports : port' = [port EXCEPT ![s] = p]
        /\ \A q \in Senders : Alive(q) => port[q] # p
  BY DEF StartSender
<1>2. /\ status' \in [Senders -> {"new", "send", "recv", "killed"}] /\ status'[s] = "send"
      /\ port' \in [Senders -> Ports \cup {NoPort}] /\ port'[s] = p
      /\ \A q \in Senders \ {s} : status'[q] = status[q] /\ port'[q] = port[q]
  BY <1>0, <1>1 DEF TypeOK
<1>3. /\ Alive(s)' /\ ~Alive(s) /\ Waits(s)' = 0
      /\ \A q \in Senders \ {s} : Alive(q)' = Alive(q) /\ Waits(q)' = Waits(q)
  BY <1>0, <1>2 DEF Alive, Waits
<1>4. TypeOK'
  BY <1>0, <1>00, <1>2 DEF TypeOK
<1>5. PortsDiffer'
  BY <1>1, <1>2, <1>3 DEF PortsDiffer
<1>6. OnlyAliveHas'
  BY <1>0, <1>00, <1>2, <1>3 DEF OnlyAliveHas
<1>7. s \notin Known /\ Known \subseteq Known'
      /\ \A t \in Senders \ {s} : Owners(t) \subseteq Owners(t)'
  BY <1>0, <1>2 DEF Known, Owners
<1>8. SentByKnown'
  <2>1. inbox'[s] = <<>>
    BY <1>0, <1>3 DEF OnlyAliveHas
  <2>2. ASSUME NEW t \in Senders PROVE AllFrom(inbox'[t], Known') /\ AllFrom(inbox'[t], Owners(t)')
    BY <1>0, <1>7, <2>1, AllFromMore, NoneAllFrom DEF SentByKnown
  <2>3. AllFrom(queue', Known') /\ AllFrom(InBuf', Known')
    BY <1>0, <1>7, AllFromMore DEF SentByKnown
  <2>. QED BY <2>2, <2>3 DEF SentByKnown
<1>9. inbox[s] = <<>> /\ num[s] = 0 /\ lost[s] = 0 /\ foreign[s] = 0 /\ got[s] = -1
  BY <1>0, <1>3 DEF OnlyAliveHas
<1>10. Count(inbox[s], s) = 0 /\ Count(InBuf, s) = 0 /\ Count(queue, s) = 0
  BY <1>7, NoneFrom DEF SentByKnown
<1>11. \A c \in LiveClients' : c = s \/ (c \in LiveClients /\ c \in Senders \ {s})
  BY <1>3, ClientsSend DEF LiveClients
<1>12. PlacesAccount'
  BY <1>0, <1>00, <1>3, <1>9, <1>10, <1>11 DEF PlacesAccount
<1>13. OrderKept'
  <2>1. UnderWay(s)' = UnderWay(s) /\ \A c \in LiveClients : UnderWay(c)' = UnderWay(c)
    BY <1>0 DEF UnderWay
  <2>2. From(UnderWay(s), s) = {}
    <3>1. Count(UnderWay(s), s) = 0 /\ UnderWay(s) \in Seq(Datagram)
      BY <1>10, UnderWayTyped
    <3>. QED BY <3>1, CountIsNat, FS_EmptySet DEF Count
  <2>3. Ordered(UnderWay(s), s, got[s], num[s])
    BY <2>2, NothingOrdered
  <2>. QED BY <1>0, <1>00, <1>9, <1>11, <2>1, <2>3 DEF OrderKept
<1>14. LagFits'
  <2>1. ASSUME NEW c \in LiveClients', c # s
        PROVE  /\ num[c] - 1 - got[c] <= foreign[c] + Waits(c)'
               /\ foreign[c] > 0 => \E t \in Senders : status'[t] = "killed" /\ port'[t] = port'[c]
    <3>1. c \in LiveClients /\ c \in Senders \ {s}
      BY <1>11, <2>1
    <3>2. foreign[c] > 0 => \E t \in Senders \ {s} : status[t] = "killed" /\ port[t] = port[c]
      BY <1>0, <3>1 DEF LagFits
    <3>. QED BY <1>2, <1>3, <3>1, <3>2 DEF LagFits
  <2>2. num[s] - 1 - got[s] <= foreign[s] + Waits(s)' /\ ~(foreign[s] > 0)
    BY <1>3, <1>9
  <2>. QED BY <1>0, <1>00, <2>1, <2>2 DEF LagFits
<1>. QED BY <1>4, <1>5, <1>6, <1>8, <1>12, <1>13, <1>14

\* What waits for the process goes with it.
LEMMA KillSenderIInv ==
  ASSUME DatagramsIInv, NEW s \in Senders, KillSender(s) PROVE DatagramsIInv'
<1>. USE DEF DatagramsIInv
<1>0. /\ Alive(s) /\ status' = [status EXCEPT ![s] = "killed"]
      /\ inbox' = [inbox EXCEPT ![s] = <<>>]
      /\ InBuf' = InBuf /\ UNCHANGED <<receiver, queue, buf, port, num, lost, foreign, got>>
  BY DEF KillSender, InBuf, history
<1>1. /\ status' \in [Senders -> {"new", "send", "recv", "killed"}] /\ status'[s] = "killed"
      /\ status[s] # "new" /\ status[s] # "killed" /\ inbox'[s] = <<>>
      /\ \A q \in Senders \ {s} : status'[q] = status[q] /\ inbox'[q] = inbox[q]
  BY <1>0 DEF TypeOK, Alive
<1>2. ~Alive(s)' /\ \A q \in Senders \ {s} : Alive(q)' = Alive(q) /\ Waits(q)' = Waits(q)
  BY <1>1 DEF Alive, Waits
<1>3. TypeOK'
  <2>1. <<>> \in BoundedSeq(Datagram, QueueLength)
    <3>1. <<>> \in Seq(Datagram) /\ Len(<<>>) = 0 /\ 0 <= QueueLength
      BY Typed
    <3>. QED BY <3>1, Typed, BoundedIsShort
  <2>. QED BY <1>0, <1>1, <2>1 DEF TypeOK
<1>4. PortsDiffer' /\ OnlyAliveHas'
  BY <1>0, <1>1, <1>2 DEF PortsDiffer, OnlyAliveHas
<1>5. Known \subseteq Known' /\ \A t \in Senders : Owners(t) \subseteq Owners(t)'
  BY <1>0, <1>1 DEF Known, Owners
<1>6. SentByKnown'
  <2>1. ASSUME NEW t \in Senders PROVE AllFrom(inbox'[t], Known') /\ AllFrom(inbox'[t], Owners(t)')
    <3>1. CASE t = s
      BY <1>1, <3>1, NoneAllFrom
    <3>2. CASE t # s
      BY <1>1, <1>5, <3>2, AllFromMore DEF SentByKnown
    <3>. QED BY <3>1, <3>2
  <2>2. AllFrom(queue', Known') /\ AllFrom(InBuf', Known')
    BY <1>0, <1>5, AllFromMore DEF SentByKnown
  <2>. QED BY <2>1, <2>2 DEF SentByKnown
<1>7. \A c \in LiveClients' :
        /\ c \in LiveClients /\ c \in Senders \ {s} /\ inbox'[c] = inbox[c]
        /\ Waits(c)' = Waits(c) /\ UnderWay(c)' = UnderWay(c)
  BY <1>0, <1>1, <1>2, ClientsSend DEF LiveClients, UnderWay
<1>8. PlacesAccount' /\ OrderKept'
  BY <1>0, <1>7 DEF PlacesAccount, OrderKept
<1>9. LagFits'
  BY <1>0, <1>1, <1>7 DEF LagFits
<1>. QED BY <1>3, <1>4, <1>6, <1>8, <1>9

-----------------------------------------------------------------------------
\* What arrives at port 9999 is behind everything that is under way.
LEMMA ConcatAppend ==
  ASSUME NEW a \in Seq(Datagram), NEW b \in Seq(Datagram), NEW d \in Datagram
  PROVE  /\ a \o Append(b, d) = Append(a \o b, d)
         /\ Append(a, d) \o b = (a \o <<d>>) \o b
<1>1. /\ <<d>> \in Seq(Datagram) /\ a \o b \in Seq(Datagram)
      /\ Append(a, d) = a \o <<d>> /\ Append(b, d) = b \o <<d>>
      /\ Append(a \o b, d) = (a \o b) \o <<d>>
  BY AppendIsConcat, Pieces
<1>2. (a \o b) \o <<d>> = a \o (b \o <<d>>)
  BY <1>1, ConcatAssociative
<1>. QED BY <1>1, <1>2

\* What was there before the last one came.
LEMMA OrderedBeforeAppend ==
  ASSUME NEW a \in Seq(Datagram), NEW d \in Datagram, NEW s, NEW lo, NEW hi,
         Ordered(Append(a, d), s, lo, hi)
  PROVE  Ordered(a, s, lo, hi)
<1>1. <<d>> \in Seq(Datagram) /\ Append(a, d) = a \o <<d>>
  BY AppendIsConcat
<1>. QED BY <1>1, OrderedPrefix

\* There is room for one more.
LEMMA AppendFits ==
  ASSUME TypeOK, NEW a \in Seq(Datagram), NEW d \in Datagram, Len(a) < QueueLength
  PROVE  Append(a, d) \in BoundedSeq(Datagram, QueueLength)
<1>1. Append(a, d) \in Seq(Datagram) /\ Len(Append(a, d)) = Len(a) + 1 /\ Len(a) \in Nat
  BY AppendProperties, LenProperties
<1>2. Len(Append(a, d)) <= QueueLength
  BY <1>1, Typed
<1>. QED BY <1>1, <1>2, Typed, BoundedIsShort

\* An announcement is no client's request.
LEMMA AnnounceIInv ==
  ASSUME DatagramsIInv, NEW a \in Announcers, Announce(a) PROVE DatagramsIInv'
<1>. USE DEF DatagramsIInv
<1>. DEFINE d == [from |-> a, num |-> 0]
<1>0. /\ Alive(a) /\ Len(queue) < QueueLength /\ queue' = Append(queue, d) /\ InBuf' = InBuf
      /\ UNCHANGED <<receiver, buf, status, port, inbox, num, lost, foreign, got>>
  BY DEF Announce, Reaches, InBuf, history
<1>1. a \in Senders /\ a \notin Clients /\ d \in Datagram /\ d.from = a
  BY DatagramsAssumption DEF Senders, Datagram
<1>. HIDE DEF d
<1>2. TypeOK'
  <2>1. queue' \in BoundedSeq(Datagram, QueueLength)
    BY <1>0, <1>1, AppendFits, Typed
  <2>. QED BY <1>0, <2>1 DEF TypeOK
<1>3. LiveClients' = LiveClients /\ LiveClients \subseteq Clients
      /\ \A c : Waits(c)' = Waits(c)
  BY <1>0 DEF LiveClients, Alive, Waits
<1>4. PortsDiffer' /\ OnlyAliveHas' /\ LagFits'
  BY <1>0, <1>3 DEF PortsDiffer, OnlyAliveHas, LagFits, Alive
<1>5. SentByKnown'
  <2>1. Known' = Known /\ \A s \in Senders : Owners(s)' = Owners(s)
    BY <1>0 DEF Known, Owners
  <2>2. d.from \in Known
    BY <1>0, <1>1 DEF Known, Alive
  <2>3. AllFrom(queue', Known)
    BY <1>0, <1>1, <2>2, AllFromAppend, Typed DEF SentByKnown
  <2>. QED BY <1>0, <2>1, <2>3 DEF SentByKnown
<1>6. PlacesAccount'
  <2>1. ASSUME NEW c \in LiveClients PROVE Count(queue', c) = Count(queue, c)
    <3>1. d.from # c
      BY <1>1, <1>3
    <3>2. Count(queue', c) = Count(queue, c) + 0 /\ Count(queue, c) \in Nat
      BY <1>0, <1>1, <3>1, CountAppend, CountIsNat, Typed
    <3>. QED BY <3>2
  <2>. QED BY <1>0, <1>3, <2>1 DEF PlacesAccount
<1>7. OrderKept'
  <2>1. ASSUME NEW c \in LiveClients PROVE Ordered(UnderWay(c)', c, got[c], num[c])
    <3>1. c \in Senders /\ d.from # c
      BY <1>1, <1>3, ClientsSend
    <3>2. UnderWay(c) \in Seq(Datagram) /\ inbox[c] \o InBuf \in Seq(Datagram)
          /\ queue \in Seq(Datagram) /\ got[c] \in Int /\ num[c] \in Int
      BY <3>1, UnderWayTyped, Typed
    <3>3. UnderWay(c)' = Append(UnderWay(c), d)
      BY <1>0, <1>1, <3>2, ConcatAppend DEF UnderWay
    <3>. QED BY <1>1, <3>1, <3>2, <3>3, OrderedAppend DEF OrderKept
  <2>. QED BY <1>0, <1>3, <2>1 DEF OrderKept
<1>. QED BY <1>2, <1>4, <1>5, <1>6, <1>7

\* A request arrives, or is lost at once.
LEMMA RequestIInv ==
  ASSUME DatagramsIInv, NEW c \in Clients, Request(c) PROVE DatagramsIInv'
<1>. USE DEF DatagramsIInv
<1>. DEFINE d == [from |-> c, num |-> num[c]]
<1>0. /\ status[c] = "send" /\ num[c] < MaxNum
      /\ num' = [num EXCEPT ![c] = @ + 1] /\ status' = [status EXCEPT ![c] = "recv"]
      /\ InBuf' = InBuf /\ UNCHANGED <<receiver, buf, port, inbox, foreign, got>>
  BY DEF Request, AfterRequest, InBuf
<1>1. \/ Len(queue) < QueueLength /\ queue' = Append(queue, d) /\ lost' = lost
      \/ lost' = LostWith(<<d>>) /\ queue' = queue
  BY DEF Request, Reaches
<1>2. /\ c \in Senders /\ d \in Datagram /\ d.from = c /\ d.num = num[c] /\ num[c] \in Nat
      /\ <<d>> \in Seq(Datagram)
  <2>1. c \in Senders
    BY ClientsSend
  <2>2. num[c] \in 0 .. MaxNum
    BY <2>1 DEF TypeOK
  <2>. QED BY <2>1, <2>2 DEF Datagram
<1>. HIDE DEF d
<1>3. /\ status' \in [Senders -> {"new", "send", "recv", "killed"}] /\ status'[c] = "recv"
      /\ num' \in [Senders -> 0 .. MaxNum] /\ num'[c] = num[c] + 1
      /\ \A q \in Senders \ {c} : status'[q] = status[q] /\ num'[q] = num[q]
  <2>1. num[c] + 1 \in 0 .. MaxNum
    BY <1>0, <1>2, Typed
  <2>. QED BY <1>0, <1>2, <2>1 DEF TypeOK
<1>4. /\ LiveClients' = LiveClients /\ LiveClients \subseteq Clients
      /\ \A q \in Senders : Alive(q)' = Alive(q)
      /\ Waits(c) = 0 /\ Waits(c)' = 1 /\ c \in LiveClients
      /\ \A q \in Senders \ {c} : Waits(q)' = Waits(q)
  BY <1>0, <1>2, <1>3, ClientsSend DEF LiveClients, Alive, Waits
<1>5. TypeOK'
  <2>1. queue' \in BoundedSeq(Datagram, QueueLength)
    BY <1>1, <1>2, AppendFits, Typed DEF TypeOK
  <2>2. lost' \in [Senders -> Nat]
    BY <1>1, <1>2, LostWithAdds DEF TypeOK
  <2>. QED BY <1>0, <1>3, <2>1, <2>2 DEF TypeOK
<1>6. PortsDiffer'
  BY <1>0, <1>4 DEF PortsDiffer
<1>7. ASSUME NEW q \in Senders \ {c}
      PROVE  lost'[q] = lost[q] /\ Count(queue', q) = Count(queue, q)
  <2>1. d.from # q
    BY <1>2
  <2>2. Count(Append(queue, d), q) = Count(queue, q) + 0 /\ Count(queue, q) \in Nat
    BY <1>2, <2>1, CountAppend, CountIsNat, Typed
  <2>3. Count(<<d>>, q) = 0
    BY <1>2, <2>1, CountOne
  <2>4. LostWith(<<d>>)[q] = lost[q]
    BY <1>2, <2>3, LostWithAdds
  <2>5. Count(Append(queue, d), q) = Count(queue, q)
    BY <2>2
  <2>. QED BY <1>1, <2>4, <2>5
<1>8. OnlyAliveHas'
  BY <1>0, <1>3, <1>4, <1>7 DEF OnlyAliveHas
<1>9. SentByKnown'
  <2>1. /\ Known' = Known /\ d.from \in Known
        /\ \A s \in Senders : Owners(s)' = Owners(s)
    BY <1>0, <1>2, <1>3 DEF Known, Owners
  <2>2. AllFrom(queue', Known)
    BY <1>1, <1>2, <2>1, AllFromAppend, Typed DEF SentByKnown
  <2>. QED BY <1>0, <2>1, <2>2 DEF SentByKnown
<1>10. Count(queue', c) + lost'[c] = Count(queue, c) + lost[c] + 1
  <2>1. Count(queue, c) \in Nat /\ lost[c] \in Nat
    BY <1>2, CountIsNat, Typed
  <2>2. Count(Append(queue, d), c) = Count(queue, c) + 1
    BY <1>2, CountAppend, Typed
  <2>3. Count(<<d>>, c) = 1
    BY <1>2, CountOne
  <2>4. LostWith(<<d>>)[c] = lost[c] + 1
    BY <1>2, <2>3, LostWithAdds
  <2>5. CASE queue' = Append(queue, d) /\ lost' = lost
    <3>1. \A n, k \in Nat : n + 1 + k = n + k + 1
      OBVIOUS
    <3>. QED BY <2>1, <2>2, <2>5, <3>1
  <2>6. CASE lost' = LostWith(<<d>>) /\ queue' = queue
    <3>1. \A n, k \in Nat : n + (k + 1) = n + k + 1
      OBVIOUS
    <3>. QED BY <2>1, <2>4, <2>6, <3>1
  <2>. QED BY <1>1, <2>5, <2>6
<1>11. PlacesAccount'
  <2>1. Count(inbox[c], c) + Count(InBuf, c) + Count(queue', c) + lost'[c] = foreign[c] + 1
    <3>1. Count(inbox[c], c) + Count(InBuf, c) + Count(queue, c) + lost[c] = foreign[c] + 0
      BY <1>4 DEF PlacesAccount
    <3>2. /\ Count(inbox[c], c) \in Nat /\ Count(InBuf, c) \in Nat
          /\ Count(queue, c) \in Nat /\ lost[c] \in Nat /\ foreign[c] \in Nat
      BY <1>2, UnderWayTyped, Typed
    <3>3. Count(queue', c) \in Nat /\ lost'[c] \in Nat
      <4>1. lost' \in [Senders -> Nat] /\ queue' \in BoundedSeq(Datagram, QueueLength)
        BY <1>5 DEF TypeOK
      <4>2. queue' \in Seq(Datagram)
        BY <4>1, BoundedIsShort, Typed
      <4>. QED BY <1>2, <4>1, <4>2, CountIsNat
    <3>. QED BY <1>10, <3>1, <3>2, <3>3
  <2>. QED BY <1>0, <1>4, <1>7, <2>1, ClientsSend DEF PlacesAccount
<1>12. OrderKept'
  <2>1. ASSUME NEW q \in LiveClients PROVE Ordered(UnderWay(q)', q, got[q], num'[q])
    <3>1. q \in Senders
      BY <1>4, ClientsSend
    <3>2. UnderWay(q) \in Seq(Datagram) /\ inbox[q] \o InBuf \in Seq(Datagram)
          /\ queue \in Seq(Datagram) /\ got[q] \in Int /\ num[q] \in Int
      BY <3>1, UnderWayTyped, Typed
    <3>3. got[q] < num[q] /\ Ordered(UnderWay(q), q, got[q], num[q])
      BY DEF OrderKept
    <3>4. num'[q] = IF d.from = q THEN num[q] + 1 ELSE num[q]
      BY <1>2, <1>3, <3>1
    <3>5. d.from = q => d.num = num[q] /\ got[q] < num[q]
      BY <1>2, <3>3
    <3>6. Ordered(Append(UnderWay(q), d), q, got[q], num'[q])
      BY <1>2, <3>2, <3>3, <3>4, <3>5, OrderedAppend
    <3>7. Ordered(UnderWay(q), q, got[q], num'[q])
      BY <1>2, <3>2, <3>6, OrderedBeforeAppend
    <3>8. (inbox[q] \o InBuf) \o Append(queue, d) = Append(UnderWay(q), d)
      BY <1>2, <3>2, ConcatAppend DEF UnderWay
    <3>9. UnderWay(q)' = Append(UnderWay(q), d) \/ UnderWay(q)' = UnderWay(q)
      BY <1>0, <1>1, <3>8 DEF UnderWay
    <3>. QED BY <3>6, <3>7, <3>9
  <2>2. ASSUME NEW q \in LiveClients PROVE got[q] < num'[q]
    <3>1. q \in Senders /\ got[q] \in Int /\ num[q] \in Int /\ got[q] < num[q]
      BY <1>4, ClientsSend, Typed DEF OrderKept
    <3>2. num'[q] = num[q] \/ num'[q] = num[q] + 1
      BY <1>3, <3>1
    <3>. QED BY <3>1, <3>2
  <2>. QED BY <1>0, <1>4, <2>1, <2>2 DEF OrderKept
<1>13. LagFits'
  <2>1. num'[c] - 1 - got[c] <= foreign[c] + 1
    <3>1. num[c] - 1 - got[c] <= foreign[c] + 0
      BY <1>4 DEF LagFits
    <3>2. num[c] \in Int /\ got[c] \in Int /\ foreign[c] \in Int
      BY <1>2, Typed
    <3>. QED BY <1>3, <3>1, <3>2
  <2>2. \A s \in Senders : status[s] = "killed" => status'[s] = "killed"
    BY <1>0, <1>3
  <2>. QED BY <1>0, <1>3, <1>4, <2>1, <2>2, ClientsSend DEF LagFits
<1>. QED BY <1>5, <1>6, <1>8, <1>9, <1>11, <1>12, <1>13

-----------------------------------------------------------------------------
\* server_udp.c takes a datagram to send it back; to the others it is lost.
LEMMA ReceiveIInv == ASSUME DatagramsIInv, Receive PROVE DatagramsIInv'
<1>. USE DEF DatagramsIInv
<1>0. /\ queue # <<>> /\ buf = NoDatagram /\ InBuf = <<>> /\ queue' = Tail(queue)
      /\ UNCHANGED <<receiver, status, port, inbox, num, foreign, got>>
  BY DEF Receive, InBuf
<1>1. PICK d \in Datagram : d = Head(queue)
  BY <1>0, HeadAndTail, Typed
<1>2. /\ Tail(queue) \in Seq(Datagram) /\ Len(Tail(queue)) <= Len(queue)
      /\ queue = <<d>> \o Tail(queue) /\ <<d>> \in Seq(Datagram) /\ <<>> \in Seq(Datagram)
      /\ Len(Tail(queue)) \in Nat
  BY <1>0, <1>1, HeadAndTail, LenProperties, Typed
<1>3. \/ buf' = d /\ InBuf' = <<d>> /\ lost' = lost
      \/ lost' = LostWith(<<d>>) /\ buf' = buf /\ InBuf' = <<>>
  <2>1. d # NoDatagram
    BY Typed
  <2>. QED BY <1>0, <1>1, <2>1 DEF Receive, InBuf
<1>4. TypeOK'
  <2>1. queue' \in BoundedSeq(Datagram, QueueLength)
    <3>1. Len(Tail(queue)) <= QueueLength
      BY <1>2, Typed
    <3>. QED BY <1>0, <1>2, <3>1, BoundedIsShort, Typed
  <2>2. lost' \in [Senders -> Nat]
    BY <1>2, <1>3, LostWithAdds DEF TypeOK
  <2>3. buf' \in Datagram \cup {NoDatagram}
    BY <1>0, <1>3
  <2>. QED BY <1>0, <2>1, <2>2, <2>3 DEF TypeOK
<1>5. LiveClients' = LiveClients /\ LiveClients \subseteq Senders
      /\ LiveClients \subseteq Clients /\ \A c : Waits(c)' = Waits(c)
  BY <1>0, ClientsSend DEF LiveClients, Alive, Waits
<1>6. PortsDiffer' /\ LagFits'
  BY <1>0, <1>5 DEF PortsDiffer, LagFits, Alive
<1>7. /\ Known' = Known /\ \A s \in Senders : Owners(s)' = Owners(s)
      /\ d.from \in Known /\ AllFrom(Tail(queue), Known)
  <2>1. d.from \in Known /\ AllFrom(Tail(queue), Known)
    BY <1>0, <1>1, AllFromTail, Typed DEF SentByKnown
  <2>. QED BY <1>0, <2>1 DEF Known, Owners
<1>8. SentByKnown'
  <2>1. AllFrom(<<d>>, Known)
    BY <1>7 DEF AllFrom
  <2>. QED BY <1>0, <1>3, <1>7, <2>1, NoneAllFrom DEF SentByKnown
<1>9. OnlyAliveHas'
  <2>1. ASSUME NEW s \in Senders, status[s] = "new" PROVE lost'[s] = lost[s]
    <3>1. d.from # s
      BY <1>7, <2>1 DEF Known
    <3>2. Count(<<d>>, s) = 0
      BY <3>1, CountOne
    <3>. QED BY <1>2, <1>3, <3>2, LostWithAdds
  <2>. QED BY <1>0, <2>1 DEF OnlyAliveHas, Alive
<1>10. PlacesAccount'
  <2>1. ASSUME NEW c \in LiveClients
        PROVE  Count(inbox[c], c) + Count(InBuf', c) + Count(queue', c) + lost'[c]
                 = foreign[c] + Waits(c)
    <3>1. PICK one \in Nat : one = Count(<<d>>, c)
      BY <1>2, CountIsNat
    <3>2. PICK i \in Nat, t \in Nat, l \in Nat :
            i = Count(inbox[c], c) /\ t = Count(Tail(queue), c) /\ l = lost[c]
      BY <1>2, <1>5, CountIsNat, Typed
    <3>3. Count(queue, c) = one + t
      <4>1. Count(<<d>> \o Tail(queue), c) = one + t
        BY <1>2, <3>1, <3>2, CountConcat
      <4>. QED BY <1>2, <4>1
    <3>4. Count(<<>>, c) = 0
      BY CountNone
    <3>5. i + 0 + (one + t) + l = foreign[c] + Waits(c)
      BY <1>0, <3>2, <3>3, <3>4 DEF PlacesAccount
    <3>6. CASE InBuf' = <<d>> /\ lost' = lost
      <4>1. i + one + t + l = i + 0 + (one + t) + l
        OBVIOUS
      <4>. QED BY <1>0, <3>1, <3>2, <3>5, <3>6, <4>1
    <3>7. CASE lost' = LostWith(<<d>>) /\ InBuf' = <<>>
      <4>1. i + 0 + t + (l + one) = i + 0 + (one + t) + l
        OBVIOUS
      <4>2. lost'[c] = l + one
        BY <1>2, <1>5, <3>1, <3>2, <3>7, LostWithAdds
      <4>. QED BY <1>0, <3>2, <3>4, <3>5, <3>7, <4>1, <4>2
    <3>. QED BY <1>3, <3>6, <3>7
  <2>. QED BY <1>0, <1>5, <2>1 DEF PlacesAccount
<1>11. OrderKept'
  <2>1. ASSUME NEW c \in LiveClients PROVE Ordered(UnderWay(c)', c, got[c], num[c])
    <3>1. PICK i \in Seq(Datagram), t \in Seq(Datagram) : i = inbox[c] /\ t = Tail(queue)
      BY <1>2, <1>5, Typed
    <3>2. i \o <<>> = i /\ i \o (<<d>> \o t) = (i \o <<d>>) \o t
      BY <1>2, ConcatEmptySeq, ConcatAssociative
    <3>3. UnderWay(c) = (i \o <<d>>) \o t
      BY <1>0, <1>2, <3>1, <3>2 DEF UnderWay
    <3>4. Ordered((i \o <<d>>) \o t, c, got[c], num[c])
      BY <3>3 DEF OrderKept
    <3>5. Ordered(i \o t, c, got[c], num[c])
      BY <1>2, <3>4, OrderedSkip
    <3>6. UnderWay(c)' = (i \o <<d>>) \o t \/ UnderWay(c)' = i \o t
      BY <1>0, <1>3, <3>1, <3>2 DEF UnderWay
    <3>. QED BY <3>4, <3>5, <3>6
  <2>. QED BY <1>0, <1>5, <2>1 DEF OrderKept
<1>. QED BY <1>4, <1>6, <1>8, <1>9, <1>10, <1>11

\* The answer goes to the one process that has the port now.
LEMMA AnswerIInv == ASSUME DatagramsIInv, Answer PROVE DatagramsIInv'
<1>. USE DEF DatagramsIInv
<1>0. PICK d \in Datagram : d = buf
  BY DEF TypeOK, Answer
<1>1. /\ buf' = NoDatagram /\ InBuf = <<d>> /\ InBuf' = <<>>
      /\ inbox' = [s \in Senders |->
                     IF s \in SentTo(d) /\ Len(inbox[s]) < QueueLength
                     THEN Append(inbox[s], d) ELSE inbox[s]]
      /\ UNCHANGED <<receiver, queue, status, port, num, foreign, got>>
  BY <1>0 DEF Answer, Answered, InBuf
<1>2. lost' = IF \E s \in SentTo(d) : Len(inbox[s]) = QueueLength THEN LostWith(<<d>>) ELSE lost
  BY <1>0 DEF Answer
<1>3. /\ <<d>> \in Seq(Datagram) /\ <<>> \in Seq(Datagram)
      /\ d.from \in Known /\ d.from \in Senders
  BY <1>1 DEF SentByKnown, AllFrom, Datagram
<1>4. LiveClients' = LiveClients /\ LiveClients \subseteq Senders
      /\ LiveClients \subseteq Clients /\ (\A c : Waits(c)' = Waits(c))
      /\ Known' = Known /\ \A s \in Senders : Owners(s)' = Owners(s) /\ Alive(s)' = Alive(s)
  BY <1>1, ClientsSend DEF LiveClients, Alive, Waits, Known, Owners
<1>5. TypeOK'
  <2>1. inbox' \in [Senders -> BoundedSeq(Datagram, QueueLength)]
    <3>1. ASSUME NEW s \in Senders
          PROVE  inbox'[s] \in BoundedSeq(Datagram, QueueLength)
      <4>1. inbox[s] \in Seq(Datagram) /\ inbox[s] \in BoundedSeq(Datagram, QueueLength)
        BY Typed DEF TypeOK
      <4>2. Len(inbox[s]) < QueueLength =>
              Append(inbox[s], d) \in BoundedSeq(Datagram, QueueLength)
        BY <4>1, AppendFits
      <4>. QED BY <1>1, <4>1, <4>2
    <3>. QED BY <1>1, <3>1
  <2>2. lost' \in [Senders -> Nat]
    BY <1>2, <1>3, LostWithAdds DEF TypeOK
  <2>. QED BY <1>1, <2>1, <2>2 DEF TypeOK
<1>6. PortsDiffer' /\ LagFits'
  BY <1>1, <1>4 DEF PortsDiffer, LagFits
<1>7. OnlyAliveHas'
  <2>1. ASSUME NEW s \in Senders, status[s] = "new" PROVE lost'[s] = lost[s]
    <3>1. d.from # s
      BY <1>3, <2>1 DEF Known
    <3>2. Count(<<d>>, s) = 0
      BY <3>1, CountOne
    <3>. QED BY <1>2, <1>3, <3>2, LostWithAdds
  <2>2. ASSUME NEW s \in Senders, ~Alive(s) PROVE inbox'[s] = inbox[s]
    BY <1>1, <2>2 DEF SentTo
  <2>. QED BY <1>1, <1>4, <2>1, <2>2 DEF OnlyAliveHas
<1>8. SentByKnown'
  <2>1. ASSUME NEW s \in Senders PROVE AllFrom(inbox'[s], Known) /\ AllFrom(inbox'[s], Owners(s))
    <3>1. AllFrom(inbox[s], Known) /\ AllFrom(inbox[s], Owners(s)) /\ inbox[s] \in Seq(Datagram)
      BY Typed DEF SentByKnown
    <3>2. ASSUME s \in SentTo(d) PROVE d.from \in Owners(s)
      <4>1. Alive(s) /\ port[s] = port[d.from]
        BY <3>2 DEF SentTo
      <4>2. d.from # s => ~Alive(d.from)
        BY <1>3, <4>1 DEF PortsDiffer
      <4>3. status[d.from] \in {"new", "send", "recv", "killed"} /\ status[d.from] # "new"
        BY <1>3 DEF TypeOK, Known
      <4>. QED BY <1>3, <4>1, <4>2, <4>3 DEF Owners, Alive
    <3>3. s \in SentTo(d) =>
            AllFrom(Append(inbox[s], d), Known) /\ AllFrom(Append(inbox[s], d), Owners(s))
      BY <1>3, <3>1, <3>2, AllFromAppend
    <3>. QED BY <1>1, <3>1, <3>3
  <2>2. AllFrom(queue', Known) /\ AllFrom(InBuf', Known)
    BY <1>1, NoneAllFrom DEF SentByKnown
  <2>. QED BY <1>4, <2>1, <2>2 DEF SentByKnown
\* To a client the answer has come, or it was lost, or it was not for it.
<1>9. ASSUME NEW c \in LiveClients
      PROVE  \/ inbox'[c] = Append(inbox[c], d) /\ lost'[c] = lost[c]
             \/ inbox'[c] = inbox[c] /\ lost'[c] = lost[c] + Count(<<d>>, c)
  <2>1. c \in Senders /\ c \in Clients /\ Alive(c) /\ lost[c] \in Nat
    BY <1>4, Typed DEF LiveClients
  <2>2. Len(inbox[c]) \in Nat /\ Len(inbox[c]) <= QueueLength /\ QueueLength \in Nat
    BY <2>1, Typed
  <2>3. CASE c \in SentTo(d) /\ Len(inbox[c]) < QueueLength
    <3>1. \A s \in SentTo(d) : s = c
      BY <2>1, <2>3 DEF SentTo, PortsDiffer
    <3>2. Len(inbox[c]) # QueueLength
      BY <2>2, <2>3
    <3>. QED BY <1>1, <1>2, <2>1, <2>3, <3>1, <3>2
  <2>4. CASE c \in SentTo(d) /\ ~(Len(inbox[c]) < QueueLength)
    <3>1. Len(inbox[c]) = QueueLength
      BY <2>2, <2>4
    <3>2. lost' = LostWith(<<d>>)
      BY <1>2, <2>4, <3>1
    <3>. QED BY <1>1, <1>3, <2>1, <2>4, <3>2, LostWithAdds
  <2>5. CASE c \notin SentTo(d)
    <3>1. d.from # c
      BY <2>1, <2>5 DEF SentTo
    <3>2. Count(<<d>>, c) = 0
      BY <3>1, CountOne
    <3>3. lost'[c] = lost[c] /\ lost[c] = lost[c] + 0
      BY <1>2, <1>3, <2>1, <3>2, LostWithAdds
    <3>. QED BY <1>1, <2>1, <2>5, <3>2, <3>3
  <2>. QED BY <2>3, <2>4, <2>5
<1>10. PlacesAccount'
  <2>1. ASSUME NEW c \in LiveClients
        PROVE  Count(inbox'[c], c) + Count(<<>>, c) + Count(queue, c) + lost'[c]
                 = foreign[c] + Waits(c)
    <3>0. inbox[c] \in Seq(Datagram) /\ queue \in Seq(Datagram)
      BY <1>4, Typed
    <3>1. PICK one \in Nat : one = Count(<<d>>, c)
      BY <1>3, CountIsNat
    <3>2. PICK i \in Nat, t \in Nat, l \in Nat :
            i = Count(inbox[c], c) /\ t = Count(queue, c) /\ l = lost[c]
      BY <1>4, <3>0, CountIsNat, Typed
    <3>3. i + one + t + l = foreign[c] + Waits(c)
      BY <1>1, <3>1, <3>2 DEF PlacesAccount
    <3>4. Count(<<>>, c) = 0
      BY CountNone
    <3>5. CASE inbox'[c] = Append(inbox[c], d) /\ lost'[c] = lost[c]
      <4>1. Count(Append(inbox[c], d), c) = i + one
        BY <3>0, <3>1, <3>2, CountAppend, CountOne
      <4>2. i + one + 0 + t + l = i + one + t + l
        OBVIOUS
      <4>. QED BY <3>2, <3>3, <3>4, <3>5, <4>1, <4>2
    <3>6. CASE inbox'[c] = inbox[c] /\ lost'[c] = lost[c] + Count(<<d>>, c)
      <4>1. i + 0 + t + (l + one) = i + one + t + l
        OBVIOUS
      <4>. QED BY <3>1, <3>2, <3>3, <3>4, <3>6, <4>1
    <3>. QED BY <1>9, <3>5, <3>6
  <2>. QED BY <1>1, <1>4, <2>1 DEF PlacesAccount
<1>11. OrderKept'
  <2>1. ASSUME NEW c \in LiveClients PROVE Ordered(UnderWay(c)', c, got[c], num[c])
    <3>1. PICK i \in Seq(Datagram), t \in Seq(Datagram) : i = inbox[c] /\ t = queue
      BY <1>4, Typed
    <3>2. Ordered((i \o <<d>>) \o t, c, got[c], num[c])
      BY <1>1, <3>1 DEF OrderKept, UnderWay
    <3>3. Ordered(i \o t, c, got[c], num[c])
      BY <1>3, <3>2, OrderedSkip
    <3>4. i \o <<>> = i /\ Append(i, d) = i \o <<d>> /\ (i \o <<d>>) \o <<>> = i \o <<d>>
      <4>1. i \o <<d>> \in Seq(Datagram)
        BY <1>3, Pieces
      <4>. QED BY <4>1, ConcatEmptySeq, AppendIsConcat
    <3>5. UnderWay(c)' = (inbox'[c] \o <<>>) \o t
      BY <1>1, <3>1 DEF UnderWay
    <3>6. UnderWay(c)' = (i \o <<d>>) \o t \/ UnderWay(c)' = i \o t
      BY <1>9, <3>1, <3>4, <3>5
    <3>. QED BY <3>2, <3>3, <3>6
  <2>. QED BY <1>1, <1>4, <2>1 DEF OrderKept
<1>. QED BY <1>5, <1>6, <1>7, <1>8, <1>10, <1>11

\* A client takes the first datagram in its socket for its answer.
LEMMA TakeAnswerIInv ==
  ASSUME DatagramsIInv, NEW c \in Clients, TakeAnswer(c) PROVE DatagramsIInv'
<1>. USE DEF DatagramsIInv
<1>0. /\ status[c] = "recv" /\ inbox[c] # <<>> /\ InBuf' = InBuf
      /\ inbox' = [inbox EXCEPT ![c] = Tail(@)] /\ status' = [status EXCEPT ![c] = "send"]
      /\ UNCHANGED <<receiver, queue, buf, port, num, lost>>
  BY DEF TakeAnswer, InBuf
<1>1. c \in Senders /\ Alive(c) /\ c \in LiveClients /\ Waits(c) = 1
  BY <1>0, ClientsSend DEF Alive, LiveClients, Waits
<1>2. PICK d \in Datagram, rest \in Seq(Datagram) :
        d = Head(inbox[c]) /\ rest = Tail(inbox[c]) /\ inbox[c] = <<d>> \o rest
  BY <1>0, <1>1, HeadAndTail, Typed
<1>3. \/ d.from = c /\ got' = [got EXCEPT ![c] = d.num] /\ foreign' = foreign
      \/ d.from # c /\ foreign' = [foreign EXCEPT ![c] = @ + 1] /\ got' = got
  BY <1>2 DEF TakeAnswer
<1>4. /\ <<d>> \in Seq(Datagram) /\ d.num \in 0 .. MaxNum /\ d.num \in Int
      /\ d.from \in Known /\ d.from \in Owners(c)
      /\ AllFrom(rest, Known) /\ AllFrom(rest, Owners(c))
  <2>1. d.num \in 0 .. MaxNum /\ d.num \in Int
    BY DatagramsAssumption DEF Datagram
  <2>2. AllFrom(inbox[c], Known) /\ AllFrom(inbox[c], Owners(c)) /\ inbox[c] \in Seq(Datagram)
    BY <1>1, Typed DEF SentByKnown
  <2>3. AllFrom(rest, Known) /\ AllFrom(rest, Owners(c)) /\ d.from \in Known /\ d.from \in Owners(c)
    BY <1>0, <1>2, <2>2, AllFromTail
  <2>. QED BY <2>1, <2>3
<1>5. /\ status' \in [Senders -> {"new", "send", "recv", "killed"}] /\ status'[c] = "send"
      /\ inbox'[c] = rest
      /\ \A q \in Senders \ {c} :
           /\ status'[q] = status[q] /\ inbox'[q] = inbox[q]
           /\ got'[q] = got[q] /\ foreign'[q] = foreign[q]
  <2>1. \A q \in Senders \ {c} : got'[q] = got[q] /\ foreign'[q] = foreign[q]
    BY <1>3 DEF TypeOK
  <2>. QED BY <1>0, <1>1, <1>2, <2>1 DEF TypeOK
<1>6. /\ LiveClients' = LiveClients /\ LiveClients \subseteq Senders
      /\ (\A q \in Senders : Alive(q)' = Alive(q)) /\ Waits(c)' = 0
      /\ \A q \in Senders \ {c} : Waits(q)' = Waits(q)
  BY <1>0, <1>1, <1>5, ClientsSend DEF LiveClients, Alive, Waits
<1>7. TypeOK'
  <2>1. Len(rest) <= QueueLength
    <3>1. Len(rest) <= Len(inbox[c]) /\ Len(rest) \in Nat
      BY <1>0, <1>1, <1>2, HeadAndTail, LenProperties, Typed
    <3>. QED BY <1>1, <3>1, Typed
  <2>2. rest \in BoundedSeq(Datagram, QueueLength)
    BY <2>1, BoundedIsShort, Typed
  <2>3. inbox' \in [Senders -> BoundedSeq(Datagram, QueueLength)]
    BY <1>0, <1>2, <2>2 DEF TypeOK
  <2>4. got' \in [Senders -> -1 .. MaxNum] /\ foreign' \in [Senders -> Nat]
    <3>1. d.num \in -1 .. MaxNum
      BY <1>4, Typed
    <3>2. got \in [Senders -> -1 .. MaxNum] /\ foreign \in [Senders -> Nat]
      BY DEF TypeOK
    <3>3. foreign[c] + 1 \in Nat
      BY <1>1, <3>2
    <3>4. CASE got' = [got EXCEPT ![c] = d.num] /\ foreign' = foreign
      BY <1>1, <3>1, <3>2, <3>4
    <3>5. CASE foreign' = [foreign EXCEPT ![c] = @ + 1] /\ got' = got
      BY <1>1, <3>2, <3>3, <3>5
    <3>. QED BY <1>3, <3>4, <3>5
  <2>. QED BY <1>0, <1>5, <2>3, <2>4 DEF TypeOK
<1>8. PortsDiffer' /\ OnlyAliveHas'
  BY <1>0, <1>1, <1>5, <1>6 DEF PortsDiffer, OnlyAliveHas
<1>9. SentByKnown'
  <2>1. Known' = Known /\ \A s \in Senders : Owners(s)' = Owners(s)
    BY <1>0, <1>5 DEF Known, Owners
  <2>2. ASSUME NEW s \in Senders PROVE AllFrom(inbox'[s], Known) /\ AllFrom(inbox'[s], Owners(s))
    BY <1>4, <1>5 DEF SentByKnown
  <2>. QED BY <1>0, <2>1, <2>2 DEF SentByKnown
<1>10. PICK i \in Nat, b \in Nat, t \in Nat, l \in Nat, f \in Nat :
         /\ i = Count(rest, c) /\ b = Count(InBuf, c) /\ t = Count(queue, c)
         /\ l = lost[c] /\ f = foreign[c]
  BY <1>1, <1>2, CountIsNat, Typed
<1>11. Count(inbox[c], c) = i + IF d.from = c THEN 1 ELSE 0
  BY <1>0, <1>1, <1>2, <1>10, CountTail, Typed
<1>12. PlacesAccount'
  <2>1. (i + (IF d.from = c THEN 1 ELSE 0)) + b + t + l = f + 1
    BY <1>1, <1>10, <1>11 DEF PlacesAccount
  <2>2. i + b + t + l = foreign'[c] + 0
    <3>1. CASE d.from = c
      <4>1. foreign'[c] = f
        BY <1>3, <1>10, <3>1
      <4>. QED BY <2>1, <3>1, <4>1
    <3>2. CASE d.from # c
      <4>1. foreign'[c] = f + 1
        BY <1>1, <1>3, <1>10, <3>2 DEF TypeOK
      <4>. QED BY <2>1, <3>2, <4>1
    <3>. QED BY <3>1, <3>2
  <2>. QED BY <1>0, <1>5, <1>6, <1>10, <2>2 DEF PlacesAccount
<1>13. Ordered(UnderWay(c)', c, got'[c], num[c]) /\ got'[c] < num[c]
       /\ (d.from = c => got[c] < d.num)
  <2>1. InBuf \in Seq(Datagram) /\ queue \in Seq(Datagram) /\ rest \o InBuf \in Seq(Datagram)
        /\ (rest \o InBuf) \o queue \in Seq(Datagram)
    BY Typed, Pieces
  <2>2. ((<<d>> \o rest) \o InBuf) \o queue = <<d>> \o ((rest \o InBuf) \o queue)
    <3>1. (<<d>> \o rest) \o InBuf = <<d>> \o (rest \o InBuf)
      BY <1>4, <2>1, ConcatAssociative
    <3>2. (<<d>> \o (rest \o InBuf)) \o queue = <<d>> \o ((rest \o InBuf) \o queue)
      BY <1>4, <2>1, ConcatAssociative
    <3>. QED BY <3>1, <3>2
  <2>3. UnderWay(c)' = (rest \o InBuf) \o queue
    BY <1>0, <1>5 DEF UnderWay
  <2>4. got[c] < num[c] /\ Ordered(<<d>> \o ((rest \o InBuf) \o queue), c, got[c], num[c])
    BY <1>1, <1>2, <2>2 DEF OrderKept, UnderWay
  <2>5. /\ Ordered((rest \o InBuf) \o queue, c, got[c], num[c])
        /\ d.from = c => /\ got[c] < d.num /\ d.num < num[c]
                         /\ Ordered((rest \o InBuf) \o queue, c, d.num, num[c])
    BY <2>1, <2>4, OrderedHead
  <2>6. d.from = c => got'[c] = d.num
    BY <1>1, <1>3 DEF TypeOK
  <2>. QED BY <1>3, <2>3, <2>4, <2>5, <2>6
<1>14. OrderKept'
  <2>1. \A q \in LiveClients \ {c} : UnderWay(q)' = UnderWay(q)
    BY <1>0, <1>5, <1>6 DEF UnderWay
  <2>. QED BY <1>0, <1>5, <1>6, <1>13, <2>1 DEF OrderKept
<1>15. LagFits'
  <2>1. num[c] \in Int /\ got[c] \in Int /\ num[c] - 1 - got[c] <= f + 1
    BY <1>1, <1>10, Typed DEF LagFits
  <2>2. num[c] - 1 - got'[c] <= foreign'[c] + 0
    <3>1. CASE d.from = c
      <4>1. got'[c] = d.num /\ foreign'[c] = f
        BY <1>1, <1>3, <1>10, <3>1 DEF TypeOK
      <4>. QED BY <1>4, <1>13, <2>1, <3>1, <4>1
    <3>2. CASE d.from # c
      <4>1. got'[c] = got[c] /\ foreign'[c] = f + 1
        BY <1>1, <1>3, <1>10, <3>2 DEF TypeOK
      <4>. QED BY <2>1, <4>1
    <3>. QED BY <3>1, <3>2
  <2>3. ASSUME foreign'[c] > 0
        PROVE  \E s \in Senders : status'[s] = "killed" /\ port[s] = port[c]
    <3>1. CASE d.from = c
      <4>1. \E s \in Senders : status[s] = "killed" /\ port[s] = port[c]
        BY <1>1, <1>3, <2>3, <3>1 DEF LagFits
      <4>. QED BY <1>0, <1>5, <4>1
    <3>2. CASE d.from # c
      <4>1. d.from \in Senders /\ status[d.from] = "killed" /\ port[d.from] = port[c]
        BY <1>4, <3>2 DEF Owners
      <4>. QED BY <1>5, <3>2, <4>1
    <3>. QED BY <3>1, <3>2
  <2>4. \A s \in Senders : status[s] = "killed" => status'[s] = "killed"
    BY <1>0, <1>5
  <2>. QED BY <1>0, <1>5, <1>6, <2>2, <2>3, <2>4 DEF LagFits
<1>. QED BY <1>7, <1>8, <1>9, <1>12, <1>14, <1>15

-----------------------------------------------------------------------------
\* Every step keeps the invariant.
LEMMA DatagramsNextIInv == ASSUME DatagramsIInv, [Next]_vars PROVE DatagramsIInv'
<1>1. CASE UNCHANGED vars
  BY <1>1 DEF vars, history, DatagramsIInv, TypeOK, PortsDiffer, OnlyAliveHas,
              SentByKnown, PlacesAccount, OrderKept, LagFits, Alive, LiveClients,
              Waits, UnderWay, InBuf, Known, Owners
<1>2. ASSUME NEW r \in Receivers, StartReceiver(r) PROVE DatagramsIInv'
  BY <1>2, StartReceiverIInv
<1>3. CASE KillReceiver \/ Serve
  BY <1>3, KillReceiverIInv, ReceiveIInv, AnswerIInv DEF Serve
<1>4. ASSUME NEW s \in Senders, StartSender(s) \/ KillSender(s) PROVE DatagramsIInv'
  BY <1>4, StartSenderIInv, KillSenderIInv
<1>5. ASSUME NEW c \in Clients, Request(c) \/ TakeAnswer(c) PROVE DatagramsIInv'
  BY <1>5, RequestIInv, TakeAnswerIInv
<1>6. ASSUME NEW a \in Announcers, Announce(a) PROVE DatagramsIInv'
  BY <1>6, AnnounceIInv
<1>. QED BY <1>1, <1>2, <1>3, <1>4, <1>5, <1>6 DEF Next

\* Datagrams: the inductive invariant holds in every state.
LEMMA DatagramsInductive == Spec => []DatagramsIInv
<1>. QED BY DatagramsInitIInv, DatagramsNextIInv, PTL DEF Spec

\* The types of the variables, in every state.
THEOREM DatagramsTypeCorrect == Spec => []TypeOK
<1>1. DatagramsIInv => TypeOK
  BY DEF DatagramsIInv
<1>. QED BY <1>1, DatagramsInductive, PTL

\* No sequence of starts, kills and losses makes a client count wrong: what it
\* waits for is under way, was lost, or was made up for by an answer to another.
THEOREM RequestsAreAccounted == Spec => []RequestsAccount
<1>1. ASSUME DatagramsIInv PROVE RequestsAccount
  <2>1. ASSUME NEW c \in LiveClients
        PROVE  Count(UnderWay(c), c) + lost[c] = foreign[c] + Waits(c)
    <3>1. c \in Senders
      BY ClientsSend DEF LiveClients
    <3>. QED BY <1>1, <3>1, UnderWayTyped DEF DatagramsIInv, PlacesAccount
  <2>. QED BY <2>1 DEF RequestsAccount, Count
<1>. QED BY <1>1, DatagramsInductive, PTL

\* Each answer of a client's own comes once and in the order of the requests,
\* and only those to a process that had its port before put it behind.
THEOREM AnswersAreInOrder == Spec => []AnswersFit
<1>1. ASSUME DatagramsIInv PROVE AnswersFit
  BY <1>1 DEF DatagramsIInv, OrderKept, LagFits, AnswersFit, Ordered
<1>. QED BY <1>1, DatagramsInductive, PTL
==============================================================================

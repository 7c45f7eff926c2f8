---------------------------- MODULE SharedSegments ----------------------------
(***************************************************************************)
(* The programs of lesson26: write_shm.c creates the shared memory segment *)
(* of a key, or takes the one there is, and copies a text into it;         *)
(* read_shm.c takes the segment that exists and prints the text.  Both     *)
(* wait for a key to be pressed, detach, and remove the segment.           *)
(*                                                                         *)
(* Any number of them run at once, nobody tells them who is first, and     *)
(* each can be killed at any step.  The kernel forgets a segment when it   *)
(* was removed and no process is attached any more; from its removal on    *)
(* the key is free, and names a new segment when a writer asks for it.     *)
(***************************************************************************)
EXTENDS Integers, FiniteSets

CONSTANTS
  Writers, Readers,   \* processes
  TextLength          \* bytes that memcpy() writes, one at a time

Processes == Writers \cup Readers

\* A process creates one segment at most; identifiers are not used again.
Ids == 1 .. Cardinality(Writers)
NoId == -1

ASSUME SegmentsAssumption ==
  /\ IsFiniteSet(Processes) /\ Writers \cap Readers = {}
  /\ TextLength \in Nat \ {0}

VARIABLES
  \* The kernel.
  segments,    \* identifiers of the segments that exist
  created,     \* how many were ever created
  key,         \* the one that the key names, or NoId
  attached,    \* processes that are attached to the segment they got
  text,        \* per segment: bytes of the text that are in it; it begins zeroed
  \* The processes.
  pc,
  shmid,       \* what shmget() returned
  copied,      \* writers: bytes that memcpy() has written
  printed      \* readers: length of what was printed, or -1

kernel == <<segments, created, key, attached, text>>
segmentsVars == <<kernel, pc, shmid, copied, printed>>

SegmentsInit ==
  /\ segments = {} /\ created = 0 /\ key = NoId /\ attached = {}
  /\ text = [i \in Ids |-> 0]
  /\ pc = [p \in Processes |-> "shmget"]
  /\ shmid = [p \in Processes |-> NoId]
  /\ copied = [w \in Writers |-> 0]
  /\ printed = [r \in Readers |-> -1]

Goto(p, from, to) == pc[p] = from /\ pc' = [pc EXCEPT ![p] = to]

-----------------------------------------------------------------------------
\* Seeded bug: a key that is never found (IPC_PRIVATE).
NeverFound == FALSE

\* A segment has the key.
Found == key # NoId

\* shmget(): a writer creates the segment if there is none.  A reader asks for
\* 0 bytes: with IPC_CREAT that finds a segment and cannot create one.
Shmget(p) ==
  /\ Goto(p, "shmget", "shmat")
  /\ IF Found
     THEN /\ shmid' = [shmid EXCEPT ![p] = key]
          /\ UNCHANGED <<segments, created, key>>
     ELSE IF p \in Writers
     THEN /\ created' = created + 1
          /\ segments' = segments \cup {created'}
          /\ key' = created'
          /\ shmid' = [shmid EXCEPT ![p] = created']
     ELSE UNCHANGED <<segments, created, key, shmid>>
  /\ UNCHANGED <<attached, text, copied, printed>>

\* shmat() finds the segment, although its key may be gone by now.
Shmat(p) ==
  /\ shmid[p] \in segments
  /\ Goto(p, "shmat", IF p \in Writers THEN "memcpy" ELSE "printf")
  /\ attached' = attached \cup {p}
  /\ UNCHANGED <<segments, created, key, text, shmid, copied, printed>>

\* shmat() returns -1, which memcpy() and printf() take for an address.
ShmatFails(p) ==
  /\ shmid[p] \notin segments
  /\ Goto(p, "shmat", "crashed")
  /\ UNCHANGED <<kernel, shmid, copied, printed>>

\* Seeded bug: sizeof(str) instead of strlen(str) + 1.
CopiesTooLittle == TextLength - 1

BytesToCopy == TextLength

\* memcpy() writes the next byte; the bytes of the text are the same whoever
\* writes them.
Memcpy(w) ==
  /\ pc[w] = "memcpy"
  /\ copied[w] < BytesToCopy
  /\ copied' = [copied EXCEPT ![w] = @ + 1]
  /\ text' = [text EXCEPT ![shmid[w]] = IF @ < copied'[w] THEN copied'[w] ELSE @]
  /\ UNCHANGED <<segments, created, key, attached, pc, shmid, printed>>

MemcpyEnds(w) ==
  /\ copied[w] = BytesToCopy
  /\ Goto(w, "memcpy", "getchar")
  /\ UNCHANGED <<kernel, shmid, copied, printed>>

Printf(r) ==
  /\ Goto(r, "printf", "getchar")
  /\ printed' = [printed EXCEPT ![r] = text[shmid[r]]]
  /\ UNCHANGED <<kernel, shmid, copied>>

\* The segments that are left when these are the processes attached.
Kept(procs) ==
  {i \in segments : i = key \/ \E p \in procs : shmid[p] = i}

\* A key is pressed: shmdt().
Shmdt(p) ==
  /\ Goto(p, "getchar", "shmctl")
  /\ attached' = attached \ {p}
  /\ segments' = Kept(attached')
  /\ UNCHANGED <<created, key, text, shmid, copied, printed>>

\* Seeded bug: the writer leaves the removal to a reader.
RemovedByReaders(p) == p \in Readers /\ shmid[p] = key

\* IPC_RMID does something on a segment that is not removed yet.
Removes(p) == shmid[p] = key

\* shmctl(IPC_RMID): the key is free; the segment goes with its last process.
Shmctl(p) ==
  /\ Goto(p, "shmctl", "done")
  /\ IF Removes(p)
     THEN /\ key' = NoId
          /\ segments' = {i \in segments : \E q \in attached : shmid[q] = i}
     ELSE UNCHANGED <<key, segments>>
  /\ UNCHANGED <<created, attached, text, shmid, copied, printed>>

Ended == {"done", "killed", "crashed"}

\* A signal ends the process, which detaches it and removes nothing.
Kill(p) ==
  /\ pc[p] \notin Ended \cup {"shmget"}
  /\ pc' = [pc EXCEPT ![p] = "killed"]
  /\ attached' = attached \ {p}
  /\ segments' = Kept(attached')
  /\ UNCHANGED <<created, key, text, shmid, copied, printed>>

SegmentsNext ==
  \/ \E p \in Processes :
       \/ Shmget(p) \/ Shmat(p) \/ ShmatFails(p) \/ Shmdt(p) \/ Shmctl(p)
       \/ Kill(p)
  \/ \E w \in Writers : Memcpy(w) \/ MemcpyEnds(w)
  \/ \E r \in Readers : Printf(r)

SegmentsSpec == SegmentsInit /\ [][SegmentsNext]_segmentsVars
-----------------------------------------------------------------------------
(* Properties.                                                             *)

SegmentsTypeOK ==
  /\ segments \subseteq Ids /\ created \in 0 .. Cardinality(Writers)
  /\ key \in Ids \cup {NoId}
  /\ attached \subseteq Processes
  /\ text \in [Ids -> 0 .. TextLength]
  /\ pc \in [Processes -> {"shmget", "shmat", "memcpy", "printf", "getchar", "shmctl"}
                             \cup Ended]
  /\ shmid \in [Processes -> Ids \cup {NoId}]
  /\ copied \in [Writers -> 0 .. TextLength]
  /\ printed \in [Readers -> -1 .. TextLength]

Has(p, i) == shmid[p] = i

\* The segment that the key names will be removed by a process that has it and
\* goes on, unless one that had it was killed; and a segment that was removed
\* exists only while somebody uses it.  So nothing is left when all processes
\* have ended by themselves, in whatever order they remove it.
SegmentsAreFreed ==
  \A i \in segments :
    \/ i = key /\ \E p \in Processes : Has(p, i) /\ pc[p] \notin {"done", "crashed"}
    \/ \E p \in attached : Has(p, i)

\* Two processes that look at different segments, and one that crashes because
\* its segment is gone, are the work of a third one that has come to its end
\* and removed the segment while they ran.
ApartOnlyAfterRemoval ==
  /\ \A p, q \in attached :
       shmid[p] # shmid[q] =>
         \E x \in Processes : pc[x] = "done" /\ (Has(x, shmid[p]) \/ Has(x, shmid[q]))
  /\ \A p \in Processes :
       pc[p] = "crashed" /\ shmid[p] # NoId =>
         \E x \in Processes : pc[x] = "done" /\ Has(x, shmid[p])

\* A reader prints all of the text if a writer of its segment has asked for a
\* key before; without such a writer it may print any part of it.
PromptedTextIsWhole ==
  [][\A r \in Readers : \A w \in Writers :
       Printf(r) /\ Has(w, shmid[r]) /\ pc[w] \in {"getchar", "shmctl", "done"} =>
         printed'[r] = TextLength]_segmentsVars
=============================================================================

---------------------------- MODULE AsyncLogProofs ----------------------------
(***************************************************************************)
(* The safety properties of the logger for any number of threads, lines    *)
(* and days, any length of the queue and any MAX_LINES.  No line is lost   *)
(* because each step moves it whole from one place to the next; rotation   *)
(* is exact for a single thread because nothing is written between its     *)
(* reading toDay_ and lineCount_ and its acting on them.                   *)
(***************************************************************************)
EXTENDS AsyncLog, FiniteSetTheorems, SequenceTheorems, TLAPS

\* A thread is in write(), and has not counted its line.
WritePcs == {"test", "name", "date", "reset", "part", "reopen", "lock", "append"}
Pcs == WritePcs \cup {"idle", "load", "flush"}

\* The types of the object's variables and of the threads'.
TypeOK ==
  /\ today \in 1 .. MaxDay
  /\ isAsync_ \in BOOLEAN
  /\ toDay_ \in 1 .. today
  /\ lineCount_ \in 0 .. Len(logged)
  /\ fp_ \in [name : Names, file : Nat]
  /\ deque_ \in Seq(Lines)
  /\ closed_ \in BOOLEAN /\ mtx_ \in BOOLEAN
  /\ pc \in [Writers -> Pcs]
  /\ day \in [Writers -> 1 .. today]
  /\ newFile \in [Writers -> Names]
  /\ loaded \in [Writers -> Nat]
  /\ count \in [Writers -> 0 .. Len(logged)]
  /\ str \in Lines \cup {NoLine}
  /\ dtor \in {"no", "drain", "join", "lock", "done", "crashed"}
  /\ files \in [Names -> Seq(Lines)]
  /\ logged \in Seq(1 .. MaxDay)
  /\ bypass \subseteq Lines
  /\ authors \subseteq Writers

\* A line that is being written has its number still to come.
RoomForLines == Len(logged) + Cardinality(Unlogged) <= MaxLogged

\* mtx_ is held between the two halves of lineCount_++, by one thread.
MutexIsHeld ==
  /\ \A w \in Writers : pc[w] = "append" => mtx_
  /\ \A v, w \in Writers : pc[v] = "append" /\ pc[w] = "append" => v = w

\* Threads that log have been counted among the authors, and log no more when
\* the destructor runs.
AuthorsLog ==
  \A w \in Writers : pc[w] # "idle" => w \in authors /\ dtor \in {"no", "crashed"}

\* What the destructor has waited for.
Emptied ==
  /\ ~isAsync_ \/ dtor \in {"join", "lock", "done"} => deque_ = <<>>
  /\ ~isAsync_ \/ dtor \in {"lock", "done"} => str = NoLine

\* Until the first midnight lineCount_ is never set back.
FirstDayCounts ==
  today = 1 =>
    /\ lineCount_ = Len(logged)
    /\ \A w \in Writers :
         /\ pc[w] \notin {"date", "reset"}
         /\ pc[w] = "append" => count[w] = lineCount_

-----------------------------------------------------------------------------
(* The places of the lines.                                                *)

Placed == Range(deque_) \cup ({str} \ {NoLine}) \cup InFiles = 1 .. Len(logged)

\* Lines leave the queue in their order, ahead of all that are still in it.
QueueAscends ==
  /\ \A i, j \in DOMAIN deque_ : i < j => deque_[i] < deque_[j]
  /\ str # NoLine => \A i \in DOMAIN deque_ : str < deque_[i]
  /\ \A n \in Names : \A k \in DOMAIN files[n] :
       files[n][k] \notin bypass =>
         /\ str # NoLine => files[n][k] < str
         /\ \A i \in DOMAIN deque_ : files[n][k] < deque_[i]

\* Lines that found the queue full are in a file.
BypassIsStored == bypass \subseteq InFiles

\* In each file lines that were queued are in their order.
FilesAscend ==
  \A n \in Names : \A i, j \in DOMAIN files[n] :
    /\ files[n][i] \notin bypass /\ files[n][j] \notin bypass
    /\ files[n][i] < files[n][j]
    => i < j

LinesInv == Placed /\ EachOnce /\ QueueAscends /\ BypassIsStored /\ FilesAscend

-----------------------------------------------------------------------------
(* Rotation by a single thread.                                            *)

\* Lines of the day that are in files before the one of the name n.
Offset(n) == IF n.part = Plain THEN 0 ELSE n.part * MAX_LINES

\* m is the name of a file that is opened after that of the name n.
Later(m, n) == m.day > n.day \/ (m.day = n.day /\ m.part > n.part)

ExactFiles ==
  \A n \in Names :
    /\ Len(files[n]) <= MAX_LINES
    /\ \A i \in DOMAIN files[n] : logged[files[n][i]] = n.day

\* Where w alone logs without a queue: lineCount_ says how full the open file is,
\* and what w has chosen at the test is still right when it acts.
Rotates(w) ==
  LET filled == Len(files[fp_.name]) IN
  /\ \A n \in Names : Later(n, fp_.name) => files[n] = <<>>
  /\ toDay_ <= day[w]
  /\ pc[w] \in {"reset", "part", "reopen", "lock", "append"} => toDay_ = day[w]
  /\ pc[w] = "name" => toDay_ # day[w] \/ filled = MAX_LINES
  /\ pc[w] = "date" => toDay_ # day[w]
  /\ pc[w] = "part" => filled = MAX_LINES
  /\ pc[w] \in {"reset", "reopen"} =>
       newFile[w].day = toDay_ /\ Later(newFile[w], fp_.name)
  /\ pc[w] = "reset" => newFile[w].part = Plain
  /\ pc[w] = "reopen" => lineCount_ = Offset(newFile[w])
  /\ pc[w] \notin {"reset", "reopen"} =>
       fp_.name.day = toDay_ /\ lineCount_ = Offset(fp_.name) + filled
  /\ pc[w] \in {"lock", "append"} => filled < MAX_LINES
  /\ pc[w] \notin {"reset", "reopen", "lock", "append"} /\ fp_.name.part # Plain =>
       filled > 0
  /\ pc[w] = "append" => count[w] = lineCount_

SoloInv ==
  ~isAsync_ => \A w \in Writers : authors \subseteq {w} => Rotates(w) /\ ExactFiles

\* What every step keeps.
IInv ==
  /\ TypeOK /\ RoomForLines /\ MutexIsHeld /\ AuthorsLog /\ Emptied
  /\ FirstDayCounts /\ LinesInv /\ SoloInv

-----------------------------------------------------------------------------
(* Numbers.                                                                *)

\* The part of a file's name is no larger than the number of lines.
LEMMA Quotient ==
  ASSUME NEW M \in Nat \ {0}, NEW n \in Nat
  PROVE  n \div M \in Nat /\ n \div M <= n
OBVIOUS

\* A number of whole files is divided without rest.
LEMMA WholeFiles ==
  ASSUME NEW M \in Nat \ {0}, NEW q \in Nat
  PROVE  (q * M) \div M = q /\ (q * M) % M = 0
<1>1. (q * M) \div M = q
  OBVIOUS
<1>2. (q * M) % M = 0
  OBVIOUS
<1> QED
  BY <1>1, <1>2

\* Lines in a file that is neither empty nor full are the rest.
LEMMA PartFile ==
  ASSUME NEW M \in Nat \ {0}, NEW q \in Nat, NEW r \in 1 .. M - 1
  PROVE  (q * M + r) % M # 0
OBVIOUS

\* What the assumption says of the constants.
LEMMA ConstantFacts ==
  /\ MAX_LINES \in Nat \ {0} /\ Capacity \in Nat \ {0}
  /\ MaxLogged \in Nat /\ MaxDay \in Nat \ {0}
  /\ Lines \subseteq Nat /\ NoLine \notin Lines
  /\ Plain = -1
BY LogAssumption DEF Lines, NoLine, Plain

\* Threads that are about to log are finitely many.
LEMMA UnloggedIsFinite ==
  IsFiniteSet(Unlogged) /\ Cardinality(Unlogged) \in Nat
BY LogAssumption, FS_Subset, FS_CardinalityType DEF Unlogged

-----------------------------------------------------------------------------
(* What steps leave as it is.                                              *)

\* Lines that nobody moves.
LEMMA LinesStay ==
  ASSUME LinesInv, UNCHANGED <<deque_, str, files, logged, bypass>>
  PROVE  LinesInv'
<1>1. InFiles' = InFiles
  BY DEF InFiles
<1>2. Placed' /\ BypassIsStored'
  BY <1>1 DEF LinesInv, Placed, BypassIsStored
<1>3. EachOnce'
  BY <1>1 DEF LinesInv, EachOnce
<1>4. QueueAscends' /\ FilesAscend'
  BY DEF LinesInv, QueueAscends, FilesAscend
<1> QED
  BY <1>2, <1>3, <1>4 DEF LinesInv

\* What does not touch the files, and moves only threads that have written their
\* line.
LEMMA SoloStays ==
  ASSUME SoloInv,
         UNCHANGED <<isAsync_, toDay_, lineCount_, fp_, day, newFile, count,
                     files, logged, authors>>,
         \A w \in Writers :
           pc'[w] = pc[w] \/ {pc[w], pc'[w]} \subseteq {"idle", "load", "flush"}
  PROVE  SoloInv'
<1> SUFFICES ASSUME ~isAsync_, NEW w \in Writers, authors \subseteq {w}
             PROVE  Rotates(w)' /\ ExactFiles'
  BY DEF SoloInv
<1>1. Rotates(w) /\ ExactFiles
  BY DEF SoloInv
<1>2. ExactFiles'
  BY <1>1 DEF ExactFiles
<1>3. Rotates(w)'
  BY <1>1 DEF Rotates, Later, Offset
<1> QED
  BY <1>2, <1>3

\* A thread that takes a step of write() is the only one, or there are others.
LEMMA SoloStep ==
  ASSUME SoloInv, AuthorsLog, NEW w \in Writers, pc[w] # "idle",
         UNCHANGED <<isAsync_, authors>>,
         ~isAsync_ /\ Rotates(w) /\ ExactFiles => Rotates(w)' /\ ExactFiles'
  PROVE  SoloInv'
<1> SUFFICES ASSUME ~isAsync_, NEW v \in Writers, authors \subseteq {v}
             PROVE  Rotates(v)' /\ ExactFiles'
  BY DEF SoloInv
<1>1. w \in authors /\ v = w
  BY DEF AuthorsLog
<1> QED
  BY <1>1 DEF SoloInv

\* With a queue nothing is claimed.
LEMMA SoloByQueue ==
  ASSUME isAsync_, isAsync_' = isAsync_
  PROVE  SoloInv'
BY DEF SoloInv

-----------------------------------------------------------------------------
(* The environment and the destructor.                                     *)

\* A new day begins: from now on lineCount_ may be set back.
LEMMA MidnightIInv == IInv /\ Midnight => IInv'
<1> SUFFICES ASSUME IInv, Midnight PROVE IInv'
  OBVIOUS
<1>1. TypeOK'
  BY ConstantFacts DEF IInv, TypeOK, Midnight, object, writers, history
<1>2. LinesInv'
  BY LinesStay DEF IInv, Midnight, object, history
<1>3. SoloInv'
  BY SoloStays DEF IInv, Midnight, object, writers, history
<1>4. RoomForLines' /\ MutexIsHeld' /\ AuthorsLog' /\ Emptied'
  BY DEF IInv, Midnight, object, writers, history, RoomForLines, MutexIsHeld,
     AuthorsLog, Emptied, Unlogged
<1>5. FirstDayCounts'
  BY DEF IInv, TypeOK, Midnight, FirstDayCounts
<1> QED
  BY <1>1, <1>2, <1>3, <1>4, <1>5 DEF IInv

\* The steps of the destructor change nothing but its place: the queue it
\* closes is empty.
LEMMA DestructorIInv ==
  ASSUME IInv, Destroy \/ Destructor
  PROVE  IInv'
<1>1. /\ UNCHANGED <<today, isAsync_, toDay_, lineCount_, fp_, deque_, mtx_,
                     writers, str, files, history>>
      /\ closed_' \in BOOLEAN
      /\ dtor' \in {"drain", "join", "lock", "done"}
  BY DEF IInv, TypeOK, Destroy, Destructor, Close, Drained, Join, CloseFile, object
<1>2. TypeOK'
  BY <1>1 DEF IInv, TypeOK, writers, history
<1>3. LinesInv'
  BY <1>1, LinesStay DEF IInv, history
<1>4. SoloInv'
  BY <1>1, SoloStays DEF IInv, writers, history
<1>5. RoomForLines' /\ MutexIsHeld' /\ FirstDayCounts'
  BY <1>1 DEF IInv, writers, history, RoomForLines, MutexIsHeld, FirstDayCounts, Unlogged
<1>6. AuthorsLog'
  <2>1. \A w \in Writers : pc[w] = "idle"
    BY DEF IInv, AuthorsLog, Destroy, Destructor, Close, Join, CloseFile
  <2> QED
    BY <1>1, <2>1 DEF AuthorsLog, writers
<1>7. Emptied'
  BY <1>1 DEF IInv, TypeOK, Emptied, Destroy, Destructor, Close, Drained, Join,
     ThreadEnded, CloseFile, object
<1> QED
  BY <1>2, <1>3, <1>4, <1>5, <1>6, <1>7 DEF IInv

-----------------------------------------------------------------------------
(* Log::write() and flush().                                               *)

\* A thread that has begun a line reads the date, which is no earlier than the
\* one it read for its last line.
LEMMA WriteIInv ==
  ASSUME IInv, NEW w \in Writers, Write(w)
  PROVE  IInv'
<1>1. /\ pc[w] = "idle" /\ pc' = [pc EXCEPT ![w] = "test"]
      /\ dtor = "no" /\ Len(logged) + Cardinality(Unlogged) < MaxLogged
      /\ day' = [day EXCEPT ![w] = today] /\ authors' = authors \cup {w}
      /\ UNCHANGED <<today, object, mtx_, newFile, loaded, count, str, dtor,
                     files, logged, bypass>>
  BY DEF Write, Goto
<1>2. TypeOK'
  BY <1>1, ConstantFacts DEF IInv, TypeOK, Pcs, WritePcs, object
<1>3. LinesInv'
  BY <1>1, LinesStay DEF IInv, object
<1>4. RoomForLines'
  <2>1. Unlogged' = Unlogged \cup {w} /\ w \notin Unlogged
    BY <1>1 DEF IInv, TypeOK, Unlogged
  <2>2. Cardinality(Unlogged') = Cardinality(Unlogged) + 1
    BY <2>1, UnloggedIsFinite, FS_AddElement
  <2>3. Len(logged) \in Nat /\ MaxLogged \in Nat
    BY ConstantFacts DEF IInv, TypeOK
  <2> QED
    BY <1>1, <2>2, <2>3, UnloggedIsFinite DEF RoomForLines
<1>5. MutexIsHeld' /\ AuthorsLog' /\ Emptied' /\ FirstDayCounts'
  BY <1>1 DEF IInv, TypeOK, MutexIsHeld, AuthorsLog, Emptied, FirstDayCounts, object
<1>6. SoloInv'
  <2> SUFFICES ASSUME ~isAsync_, NEW v \in Writers, authors' \subseteq {v}
               PROVE  Rotates(v)' /\ ExactFiles'
    BY <1>1 DEF SoloInv, object
  <2>1. v = w /\ authors \subseteq {w}
    BY <1>1
  <2>2. Rotates(w) /\ ExactFiles
    BY <2>1 DEF IInv, SoloInv
  <2>3. ExactFiles'
    BY <1>1, <2>2 DEF ExactFiles
  <2>4. Rotates(w)'
    BY <1>1, <2>2 DEF IInv, TypeOK, Rotates, Later, Offset, object
  <2> QED
    BY <2>1, <2>3, <2>4
<1> QED
  BY <1>2, <1>3, <1>4, <1>5, <1>6 DEF IInv

\* What a step of w leaves alone that does not touch lines.
LEMMA WriterMoves ==
  ASSUME IInv, NEW w \in Writers, NEW to \in Pcs, pc[w] # "idle",
         pc' = [pc EXCEPT ![w] = to],
         UNCHANGED <<today, isAsync_, deque_, str, files, logged, bypass, authors>>,
         dtor' = dtor \/ (dtor' = "crashed" /\ dtor = "no"),
         pc[w] \in WritePcs <=> to \in WritePcs
  PROVE  LinesInv' /\ RoomForLines' /\ AuthorsLog' /\ Emptied'
<1>1. LinesInv'
  BY LinesStay DEF IInv
<1>2. Unlogged' = Unlogged
  BY DEF IInv, TypeOK, Unlogged, WritePcs
<1>3. RoomForLines'
  BY <1>2 DEF IInv, RoomForLines
<1>4. AuthorsLog' /\ Emptied'
  BY DEF IInv, TypeOK, AuthorsLog, Emptied
<1> QED
  BY <1>1, <1>3, <1>4

\* The test for rotation: lineCount_ is a whole number of files when the open
\* file is full, and not otherwise.
LEMMA TestIInv ==
  ASSUME IInv, NEW w \in Writers, Test(w)
  PROVE  IInv'
<1>1. PICK to \in {"name", "lock"} :
        /\ to = IF toDay_ # day[w] \/ FileIsFull THEN "name" ELSE "lock"
        /\ pc[w] = "test" /\ pc' = [pc EXCEPT ![w] = to]
  BY DEF Test, Goto
<1>2. UNCHANGED <<today, object, mtx_, day, newFile, loaded, count, str, dtor,
                  files, history>>
  BY DEF Test
<1>3. TypeOK'
  BY <1>1, <1>2 DEF IInv, TypeOK, Pcs, WritePcs, object, history
<1>4. LinesInv' /\ RoomForLines' /\ AuthorsLog' /\ Emptied'
  BY <1>1, <1>2, WriterMoves DEF Pcs, WritePcs, object, history
<1>5. MutexIsHeld' /\ FirstDayCounts'
  BY <1>1, <1>2 DEF IInv, TypeOK, MutexIsHeld, FirstDayCounts, object, history
<1>6. ASSUME Rotates(w), ExactFiles, toDay_ = day[w]
      PROVE  FileIsFull <=> Len(files[fp_.name]) = MAX_LINES
  <2> DEFINE filled == Len(files[fp_.name])
             part == fp_.name.part
  <2>1. /\ fp_.name \in Names /\ part \in -1 .. MaxLogged
        /\ filled \in Nat /\ filled <= MAX_LINES
    BY <1>6, ConstantFacts DEF IInv, TypeOK, Names, ExactFiles
  <2>2. /\ lineCount_ = Offset(fp_.name) + filled
        /\ part # Plain => filled > 0
    BY <1>1, <1>6 DEF Rotates
  <2> HIDE DEF filled, part
  <2>3. ASSUME part = Plain PROVE FileIsFull <=> filled = MAX_LINES
    <3>1. lineCount_ = filled
      BY <2>1, <2>2, <2>3 DEF Offset, part
    <3>2. filled = MAX_LINES => filled % MAX_LINES = 0
      BY ConstantFacts
    <3>3. filled \in 1 .. MAX_LINES - 1 => filled % MAX_LINES # 0
      BY ConstantFacts
    <3> QED
      BY <2>1, <3>1, <3>2, <3>3, ConstantFacts DEF FileIsFull
  <2>4. ASSUME part # Plain PROVE FileIsFull <=> filled = MAX_LINES
    <3>1. part \in Nat /\ lineCount_ = part * MAX_LINES + filled /\ filled > 0
      BY <2>1, <2>2, <2>4, ConstantFacts DEF Offset, part
    <3>2. filled = MAX_LINES => lineCount_ % MAX_LINES = 0
      <4>1. part * MAX_LINES + MAX_LINES = (part + 1) * MAX_LINES
        BY <3>1, ConstantFacts
      <4>2. part + 1 \in Nat
        BY <3>1
      <4>3. ((part + 1) * MAX_LINES) % MAX_LINES = 0
        BY <4>2, ConstantFacts, WholeFiles
      <4> QED
        BY <3>1, <4>1, <4>3
    <3>3. filled \in 1 .. MAX_LINES - 1 => lineCount_ % MAX_LINES # 0
      BY <3>1, ConstantFacts, PartFile
    <3>4. lineCount_ > 0
      <4>1. part * MAX_LINES \in Nat
        BY <3>1, ConstantFacts
      <4> QED
        BY <2>1, <3>1, <4>1
    <3> QED
      BY <2>1, <3>1, <3>2, <3>3, <3>4, ConstantFacts DEF FileIsFull
  <2> QED
    BY <2>3, <2>4 DEF filled
<1>7. SoloInv'
  <2> SUFFICES ASSUME ~isAsync_, Rotates(w), ExactFiles
               PROVE  Rotates(w)' /\ ExactFiles'
    BY <1>1, <1>2, SoloStep DEF IInv, object, history
  <2>1. ExactFiles'
    BY <1>2 DEF ExactFiles, history
  <2>2. to = "name" => toDay_ # day[w] \/ Len(files[fp_.name]) = MAX_LINES
    BY <1>1, <1>6
  <2>3. to = "lock" => toDay_ = day[w] /\ Len(files[fp_.name]) < MAX_LINES
    <3>1. Len(files[fp_.name]) \in Nat /\ Len(files[fp_.name]) <= MAX_LINES
      BY DEF IInv, TypeOK, ExactFiles
    <3> QED
      BY <1>1, <1>6, <3>1, ConstantFacts
  <2>4. pc'[w] = to
    BY <1>1 DEF IInv, TypeOK
  <2> QED
    BY <1>1, <1>2, <2>1, <2>2, <2>3, <2>4 DEF Rotates, Later, Offset, object
<1> QED
  BY <1>3, <1>4, <1>5, <1>7 DEF IInv

\* A single thread finds toDay_ as it was at the test.
LEMMA NameIInv ==
  ASSUME IInv, NEW w \in Writers, Name(w)
  PROVE  IInv'
<1>1. PICK to \in {"date", "part"} :
        /\ to = IF toDay_ # day[w] THEN "date" ELSE "part"
        /\ pc[w] = "name" /\ pc' = [pc EXCEPT ![w] = to]
  BY DEF Name, Goto
<1>2. UNCHANGED <<today, object, mtx_, day, newFile, loaded, count, str, dtor,
                  files, history>>
  BY DEF Name
<1>3. TypeOK'
  BY <1>1, <1>2 DEF IInv, TypeOK, Pcs, WritePcs, object, history
<1>4. LinesInv' /\ RoomForLines' /\ AuthorsLog' /\ Emptied'
  BY <1>1, <1>2, WriterMoves DEF Pcs, WritePcs, object, history
<1>5. MutexIsHeld'
  BY <1>1, <1>2 DEF IInv, TypeOK, MutexIsHeld
<1>6. FirstDayCounts'
  <2>1. today = 1 => to = "part"
    BY <1>1 DEF IInv, TypeOK
  <2> QED
    BY <1>1, <1>2, <2>1 DEF IInv, TypeOK, FirstDayCounts, object, history
<1>7. SoloInv'
  <2> SUFFICES ASSUME ~isAsync_, Rotates(w), ExactFiles
               PROVE  Rotates(w)' /\ ExactFiles'
    BY <1>1, <1>2, SoloStep DEF IInv, object, history
  <2>1. ExactFiles'
    BY <1>2 DEF ExactFiles, history
  <2>2. pc'[w] = to
    BY <1>1 DEF IInv, TypeOK
  <2> QED
    BY <1>1, <1>2, <2>1, <2>2 DEF Rotates, Later, Offset, object
<1> QED
  BY <1>3, <1>4, <1>5, <1>6, <1>7 DEF IInv

\* The file of a new day is later than the one that is open.
LEMMA NameOfDayIInv ==
  ASSUME IInv, NEW w \in Writers, NameOfDay(w)
  PROVE  IInv'
<1> DEFINE n == [day |-> day[w], part |-> Plain]
<1>1. /\ pc[w] = "date" /\ pc' = [pc EXCEPT ![w] = "reset"]
      /\ newFile' = [newFile EXCEPT ![w] = n] /\ toDay_' = day[w]
      /\ UNCHANGED <<today, isAsync_, lineCount_, fp_, deque_, closed_, mtx_, day,
                     loaded, count, str, dtor, files, history>>
  BY DEF NameOfDay, Goto
<1>2. n \in Names /\ n.day = day[w] /\ n.part = Plain
  BY ConstantFacts DEF IInv, TypeOK, Names
<1> HIDE DEF n
<1>3. TypeOK'
  BY <1>1, <1>2 DEF IInv, TypeOK, Pcs, WritePcs, history
<1>4. LinesInv' /\ RoomForLines' /\ AuthorsLog' /\ Emptied'
  BY <1>1, WriterMoves DEF Pcs, WritePcs, history
<1>5. MutexIsHeld' /\ FirstDayCounts'
  BY <1>1 DEF IInv, TypeOK, MutexIsHeld, FirstDayCounts, history
<1>6. SoloInv'
  <2> SUFFICES ASSUME ~isAsync_, Rotates(w), ExactFiles
               PROVE  Rotates(w)' /\ ExactFiles'
    BY <1>1, SoloStep DEF IInv, history
  <2>1. ExactFiles'
    BY <1>1 DEF ExactFiles, history
  <2>2. pc'[w] = "reset" /\ newFile'[w] = n
    BY <1>1 DEF IInv, TypeOK
  <2>3. toDay_ <= day[w] /\ toDay_ # day[w] /\ fp_.name.day = toDay_
    BY <1>1 DEF Rotates
  <2>4. Later(n, fp_.name)
    BY <1>2, <2>3 DEF IInv, TypeOK, Later
  <2> QED
    BY <1>1, <1>2, <2>1, <2>2, <2>4 DEF IInv, TypeOK, Rotates, Later, Offset, history
<1> QED
  BY <1>3, <1>4, <1>5, <1>6 DEF IInv

\* No line has been counted for it.
LEMMA ResetCountIInv ==
  ASSUME IInv, NEW w \in Writers, ResetCount(w)
  PROVE  IInv'
<1>1. /\ pc[w] = "reset" /\ pc' = [pc EXCEPT ![w] = "reopen"]
      /\ lineCount_' = 0
      /\ UNCHANGED <<today, isAsync_, toDay_, fp_, deque_, closed_, mtx_, day,
                     newFile, loaded, count, str, dtor, files, history>>
  BY DEF ResetCount, Goto
<1>2. TypeOK'
  BY <1>1 DEF IInv, TypeOK, Pcs, WritePcs, history
<1>3. LinesInv' /\ RoomForLines' /\ AuthorsLog' /\ Emptied'
  BY <1>1, WriterMoves DEF Pcs, WritePcs, history
<1>4. MutexIsHeld' /\ FirstDayCounts'
  BY <1>1 DEF IInv, TypeOK, MutexIsHeld, FirstDayCounts
<1>5. SoloInv'
  <2> SUFFICES ASSUME ~isAsync_, Rotates(w), ExactFiles
               PROVE  Rotates(w)' /\ ExactFiles'
    BY <1>1, SoloStep DEF IInv, history
  <2>1. ExactFiles'
    BY <1>1 DEF ExactFiles, history
  <2>2. pc'[w] = "reopen"
    BY <1>1 DEF IInv, TypeOK
  <2> QED
    BY <1>1, <2>1, <2>2 DEF Rotates, Later, Offset, history
<1> QED
  BY <1>2, <1>3, <1>4, <1>5 DEF IInv

\* The next file of a day has the number of the full ones before it.
LEMMA NameOfPartIInv ==
  ASSUME IInv, NEW w \in Writers, NameOfPart(w)
  PROVE  IInv'
<1> DEFINE n == [day |-> day[w], part |-> lineCount_ \div MAX_LINES]
<1>1. /\ pc[w] = "part" /\ pc' = [pc EXCEPT ![w] = "reopen"]
      /\ newFile' = [newFile EXCEPT ![w] = n]
      /\ UNCHANGED <<today, object, mtx_, day, loaded, count, str, dtor, files,
                     history>>
  BY DEF NameOfPart, Goto
<1>2. n \in Names /\ n.day = day[w] /\ n.part = lineCount_ \div MAX_LINES
  <2>1. day[w] \in 1 .. MaxDay
    BY ConstantFacts DEF IInv, TypeOK
  <2>2. lineCount_ \in Nat /\ lineCount_ <= MaxLogged
    BY ConstantFacts, UnloggedIsFinite DEF IInv, TypeOK, RoomForLines
  <2>3. lineCount_ \div MAX_LINES \in Plain .. MaxLogged
    BY <2>2, ConstantFacts, Quotient
  <2> QED
    BY <2>1, <2>3 DEF Names
<1> HIDE DEF n
<1>3. TypeOK'
  BY <1>1, <1>2 DEF IInv, TypeOK, Pcs, WritePcs, object, history
<1>4. LinesInv' /\ RoomForLines' /\ AuthorsLog' /\ Emptied'
  BY <1>1, WriterMoves DEF Pcs, WritePcs, object, history
<1>5. MutexIsHeld' /\ FirstDayCounts'
  BY <1>1 DEF IInv, TypeOK, MutexIsHeld, FirstDayCounts, object, history
<1>6. SoloInv'
  <2> SUFFICES ASSUME ~isAsync_, Rotates(w), ExactFiles
               PROVE  Rotates(w)' /\ ExactFiles'
    BY <1>1, SoloStep DEF IInv, object, history
  <2>1. ExactFiles'
    BY <1>1 DEF ExactFiles, history
  <2>2. pc'[w] = "reopen" /\ newFile'[w] = n
    BY <1>1 DEF IInv, TypeOK
  <2>3. /\ toDay_ = day[w] /\ fp_.name.day = toDay_
        /\ fp_.name.part \in -1 .. MaxLogged
        /\ lineCount_ = Offset(fp_.name) + MAX_LINES
    BY <1>1 DEF IInv, TypeOK, Names, Plain, Rotates
  <2>4. PICK q \in Nat : lineCount_ = q * MAX_LINES /\ q > fp_.name.part /\ q # Plain
    <3>1. CASE fp_.name.part = Plain
      BY <2>3, <3>1, ConstantFacts, 1 * MAX_LINES = MAX_LINES DEF Offset
    <3>2. CASE fp_.name.part # Plain
      <4>1. /\ fp_.name.part + 1 \in Nat
            /\ lineCount_ = (fp_.name.part + 1) * MAX_LINES
        BY <2>3, <3>2, ConstantFacts DEF Offset
      <4> QED
        BY <2>3, <4>1, ConstantFacts
    <3> QED
      BY <3>1, <3>2
  <2>5. n.part = q
    BY <1>2, <2>4, ConstantFacts, WholeFiles
  <2>6. Later(n, fp_.name) /\ lineCount_ = Offset(n)
    BY <1>2, <2>3, <2>4, <2>5 DEF Later, Offset
  <2> QED
    BY <1>1, <1>2, <2>1, <2>2, <2>3, <2>6 DEF Rotates, Later, Offset, object
<1> QED
  BY <1>3, <1>4, <1>5, <1>6 DEF IInv

\* The new file is open, and has room for a line.
LEMMA ReopenIInv ==
  ASSUME IInv, NEW w \in Writers, Reopen(w)
  PROVE  IInv'
<1>1. /\ pc[w] = "reopen" /\ pc' = [pc EXCEPT ![w] = "lock"] /\ ~mtx_
      /\ fp_' = [name |-> newFile[w], file |-> fp_.file + 1]
      /\ UNCHANGED <<today, isAsync_, toDay_, lineCount_, deque_, closed_, mtx_,
                     day, newFile, loaded, count, str, dtor, files, history>>
  BY DEF Reopen, Goto, MutexFree
<1>2. newFile[w] \in Names
  BY DEF IInv, TypeOK
<1>3. TypeOK'
  BY <1>1, <1>2 DEF IInv, TypeOK, Pcs, WritePcs, history
<1>4. LinesInv' /\ RoomForLines' /\ AuthorsLog' /\ Emptied'
  BY <1>1, WriterMoves DEF Pcs, WritePcs, history
<1>5. MutexIsHeld' /\ FirstDayCounts'
  BY <1>1 DEF IInv, TypeOK, MutexIsHeld, FirstDayCounts, history
<1>6. SoloInv'
  <2> SUFFICES ASSUME ~isAsync_, Rotates(w), ExactFiles
               PROVE  Rotates(w)' /\ ExactFiles'
    BY <1>1, SoloStep DEF IInv, history
  <2>1. ExactFiles'
    BY <1>1 DEF ExactFiles, history
  <2>2. /\ newFile[w].day = toDay_ /\ Later(newFile[w], fp_.name)
        /\ lineCount_ = Offset(newFile[w])
    BY <1>1 DEF Rotates
  <2>3. /\ files[newFile[w]] = <<>>
        /\ \A n \in Names : Later(n, newFile[w]) => files[n] = <<>>
    BY <1>2, <2>2 DEF IInv, TypeOK, Rotates, Later, Names
  <2>4. pc'[w] = "lock" /\ fp_'.name = newFile[w] /\ toDay_ = day[w]
    BY <1>1 DEF IInv, TypeOK, Rotates
  <2> QED
    BY <1>1, <2>1, <2>2, <2>3, <2>4, ConstantFacts
       DEF IInv, TypeOK, Rotates, Later, Offset, history
<1> QED
  BY <1>3, <1>4, <1>5, <1>6 DEF IInv

\* The mutex is taken, by the only thread that is between the halves.
LEMMA LockIInv ==
  ASSUME IInv, NEW w \in Writers, Lock(w)
  PROVE  IInv'
<1>1. /\ pc[w] = "lock" /\ pc' = [pc EXCEPT ![w] = "append"] /\ ~mtx_
      /\ mtx_' = TRUE /\ count' = [count EXCEPT ![w] = lineCount_]
      /\ UNCHANGED <<today, object, day, newFile, loaded, str, dtor, files, history>>
  BY DEF Lock, Goto, MutexFree
<1>2. TypeOK'
  BY <1>1 DEF IInv, TypeOK, Pcs, WritePcs, object, history
<1>3. LinesInv' /\ RoomForLines' /\ AuthorsLog' /\ Emptied'
  BY <1>1, WriterMoves DEF Pcs, WritePcs, object, history
<1>4. MutexIsHeld'
  BY <1>1 DEF IInv, TypeOK, MutexIsHeld
<1>5. FirstDayCounts'
  BY <1>1 DEF IInv, TypeOK, MutexIsHeld, FirstDayCounts, object, history
<1>6. SoloInv'
  <2> SUFFICES ASSUME ~isAsync_, Rotates(w), ExactFiles
               PROVE  Rotates(w)' /\ ExactFiles'
    BY <1>1, SoloStep DEF IInv, object, history
  <2>1. ExactFiles'
    BY <1>1 DEF ExactFiles, history
  <2>2. pc'[w] = "append" /\ count'[w] = lineCount_
    BY <1>1 DEF IInv, TypeOK
  <2> QED
    BY <1>1, <2>1, <2>2 DEF Rotates, Later, Offset, object, history
<1> QED
  BY <1>2, <1>3, <1>4, <1>5, <1>6 DEF IInv

-----------------------------------------------------------------------------
(* The lines.                                                              *)

\* A line at the end of the open file.
LEMMA PutAppends ==
  ASSUME TypeOK, NEW l \in Lines, Put(l)
  PROVE  LET n == fp_.name IN
         /\ files' \in [Names -> Seq(Lines)] /\ n \in Names
         /\ \A m \in Names \ {n} : files'[m] = files[m]
         /\ Len(files[n]) \in Nat /\ Len(files'[n]) = Len(files[n]) + 1
         /\ DOMAIN files'[n] = DOMAIN files[n] \cup {Len(files[n]) + 1}
         /\ \A i \in DOMAIN files[n] : files'[n][i] = files[n][i] /\ i < Len(files[n]) + 1
         /\ files'[n][Len(files[n]) + 1] = l
         /\ InFiles' = InFiles \cup {l}
<1> DEFINE n == fp_.name
           q == files[n]
<1>1. n \in Names /\ q \in Seq(Lines) /\ Len(q) \in Nat /\ DOMAIN q = 1 .. Len(q)
  BY DEF TypeOK
<1>2. files' = [files EXCEPT ![n] = Append(q, l)]
  BY DEF Put
<1>3. /\ Append(q, l) \in Seq(Lines) /\ Len(Append(q, l)) = Len(q) + 1
      /\ DOMAIN Append(q, l) = 1 .. Len(q) + 1
      /\ \A i \in 1 .. Len(q) : Append(q, l)[i] = q[i]
      /\ Append(q, l)[Len(q) + 1] = l
  BY <1>1
<1>4. /\ files' \in [Names -> Seq(Lines)]
      /\ \A m \in Names \ {n} : files'[m] = files[m]
      /\ files'[n] = Append(q, l)
  BY <1>1, <1>2, <1>3 DEF TypeOK
<1>5. 1 .. Len(q) + 1 = (1 .. Len(q)) \cup {Len(q) + 1}
  BY <1>1
<1>6. Range(files'[n]) = Range(q) \cup {l}
  BY <1>1, <1>3, <1>4, <1>5 DEF Range
<1>7. InFiles' = InFiles \cup {l}
  <2>1. \A m \in Names \ {n} : Range(files'[m]) = Range(files[m])
    BY <1>4
  <2> HIDE DEF n
  <2> QED
    BY <1>1, <1>6, <2>1 DEF InFiles
<1> QED
  BY <1>1, <1>3, <1>4, <1>5, <1>7

\* The first line of the queue leaves it.
LEMMA HeadLeaves ==
  ASSUME NEW q \in Seq(Lines), q # <<>>
  PROVE  /\ Head(q) \in Lines /\ Tail(q) \in Seq(Lines)
         /\ 1 \in DOMAIN q /\ Head(q) = q[1]
         /\ \A i \in DOMAIN Tail(q) :
              i \in Nat /\ i + 1 \in DOMAIN q /\ i + 1 > 1 /\ Tail(q)[i] = q[i + 1]
         /\ Range(q) = Range(Tail(q)) \cup {Head(q)}
<1>1. /\ Len(q) \in Nat \ {0} /\ DOMAIN q = 1 .. Len(q)
      /\ Head(q) = q[1] /\ Head(q) \in Lines
      /\ Tail(q) \in Seq(Lines) /\ Len(Tail(q)) = Len(q) - 1
      /\ DOMAIN Tail(q) = 1 .. Len(q) - 1
      /\ \A i \in 1 .. Len(q) - 1 : Tail(q)[i] = q[i + 1]
  OBVIOUS
<1>2. \A i \in DOMAIN q : i = 1 \/ (i - 1 \in DOMAIN Tail(q) /\ Tail(q)[i - 1] = q[i])
  <2> SUFFICES ASSUME NEW i \in 2 .. Len(q)
               PROVE  i - 1 \in DOMAIN Tail(q) /\ Tail(q)[i - 1] = q[i]
    BY <1>1
  <2>1. i - 1 \in 1 .. Len(q) - 1 /\ (i - 1) + 1 = i
    BY <1>1
  <2> QED
    BY <1>1, <2>1
<1>3. \A i \in DOMAIN Tail(q) : i + 1 \in DOMAIN q /\ Tail(q)[i] = q[i + 1]
  BY <1>1
<1>4. Range(q) = Range(Tail(q)) \cup {Head(q)}
  <2>1. ASSUME NEW l \in Range(q) PROVE l \in Range(Tail(q)) \cup {Head(q)}
    <3>1. PICK i \in DOMAIN q : l = q[i]
      BY DEF Range
    <3>2. CASE i = 1
      BY <1>1, <3>1, <3>2
    <3>3. CASE i - 1 \in DOMAIN Tail(q) /\ Tail(q)[i - 1] = q[i]
      BY <3>1, <3>3 DEF Range
    <3> QED
      BY <1>2, <3>1, <3>2, <3>3
  <2>2. Head(q) \in Range(q) /\ \A l \in Range(Tail(q)) : l \in Range(q)
    BY <1>1, <1>3 DEF Range
  <2> QED
    BY <2>1, <2>2
<1> QED
  BY <1>1, <1>4

\* The thread that stores takes the oldest line of the queue.
LEMMA PopIInv == IInv /\ Pop => IInv'
<1> SUFFICES ASSUME IInv, Pop PROVE IInv'
  OBVIOUS
<1>1. /\ isAsync_ /\ str = NoLine /\ deque_ # <<>>
      /\ str' = Head(deque_) /\ deque_' = Tail(deque_) /\ dtor # "crashed"
      /\ UNCHANGED <<today, isAsync_, toDay_, lineCount_, fp_, closed_, mtx_,
                     writers, dtor, files, history>>
  BY DEF Pop, Crashed
<1>2. deque_ \in Seq(Lines)
  BY DEF IInv, TypeOK
<1>3. TypeOK'
  BY <1>1, <1>2, HeadLeaves DEF IInv, TypeOK, writers, history
<1>4. RoomForLines' /\ MutexIsHeld' /\ AuthorsLog' /\ FirstDayCounts'
  BY <1>1 DEF IInv, RoomForLines, MutexIsHeld, AuthorsLog, FirstDayCounts, Unlogged,
     writers, history
<1>5. Emptied'
  BY <1>1 DEF IInv, TypeOK, Emptied
<1>6. SoloInv'
  BY <1>1, SoloByQueue
<1>7. InFiles' = InFiles /\ str' \in Lines /\ NoLine \notin Lines
  BY <1>1, <1>2, HeadLeaves, ConstantFacts DEF InFiles
<1>8. Placed' /\ BypassIsStored'
  BY <1>1, <1>2, <1>7, HeadLeaves DEF IInv, LinesInv, Placed, BypassIsStored, history
<1>9. EachOnce'
  <2>1. IsInjective(deque_') /\ str' \notin Range(deque_')
    BY <1>1, <1>2, HeadLeaves DEF IInv, LinesInv, EachOnce, IsInjective, Range
  <2>2. str' \notin InFiles' /\ Range(deque_') \cap InFiles' = {}
    BY <1>1, <1>2, <1>7, HeadLeaves DEF IInv, LinesInv, EachOnce
  <2> QED
    BY <1>1, <2>1, <2>2 DEF IInv, LinesInv, EachOnce
<1>10. QueueAscends'
  <2>1. \A i, j \in DOMAIN deque_' : i < j => deque_'[i] < deque_'[j]
    BY <1>1, <1>2, HeadLeaves DEF IInv, LinesInv, QueueAscends
  <2>2. \A i \in DOMAIN deque_' : str' < deque_'[i]
    BY <1>1, <1>2, HeadLeaves DEF IInv, LinesInv, QueueAscends
  <2>3. \A n \in Names : \A k \in DOMAIN files[n] : files[n][k] \notin bypass =>
          files[n][k] < str' /\ \A i \in DOMAIN deque_' : files[n][k] < deque_'[i]
    BY <1>1, <1>2, HeadLeaves DEF IInv, LinesInv, QueueAscends
  <2> QED
    BY <1>1, <2>1, <2>2, <2>3 DEF QueueAscends, history
<1>11. FilesAscend'
  BY <1>1 DEF IInv, LinesInv, FilesAscend, history
<1> QED
  BY <1>3, <1>4, <1>5, <1>6, <1>8, <1>9, <1>10, <1>11 DEF IInv, LinesInv

\* It puts that line behind all lines of the open file that were queued before.
LEMMA StoreIInv == IInv /\ Store => IInv'
<1> SUFFICES ASSUME IInv, Store PROVE IInv'
  OBVIOUS
<1>1. /\ str # NoLine /\ Put(str) /\ str' = NoLine /\ dtor # "crashed"
      /\ UNCHANGED <<today, object, mtx_, writers, dtor, history>>
  BY DEF Store, Crashed
<1>2. TypeOK /\ str \in Lines /\ str \in Nat
  BY <1>1, ConstantFacts DEF IInv, TypeOK
<1>3. TypeOK'
  BY <1>1, <1>2, PutAppends DEF TypeOK, object, writers, history
<1>4. RoomForLines' /\ MutexIsHeld' /\ AuthorsLog' /\ FirstDayCounts'
  BY <1>1 DEF IInv, RoomForLines, MutexIsHeld, AuthorsLog, FirstDayCounts, Unlogged,
     object, writers, history
<1>5. Emptied'
  BY <1>1 DEF IInv, TypeOK, Emptied, object
<1>6. SoloInv'
  <2>1. isAsync_ /\ isAsync_' = isAsync_
    BY <1>1 DEF IInv, Emptied, object
  <2> QED
    BY <2>1, SoloByQueue
<1>7. InFiles' = InFiles \cup {str} /\ NoLine \notin Lines
  BY <1>1, <1>2, PutAppends, ConstantFacts
<1>8. Placed' /\ BypassIsStored'
  BY <1>1, <1>7 DEF IInv, LinesInv, Placed, BypassIsStored, object, history
<1> DEFINE n == fp_.name
           last == Len(files[n]) + 1
<1>9. /\ n \in Names
      /\ \A m \in Names \ {n} : files'[m] = files[m]
      /\ last \in Nat /\ DOMAIN files'[n] = DOMAIN files[n] \cup {last}
      /\ \A i \in DOMAIN files[n] : files'[n][i] = files[n][i] /\ i < last
      /\ files'[n][last] = str
  BY <1>1, <1>2, PutAppends
<1> HIDE DEF n, last
<1>10. \A m \in Names : \A i \in DOMAIN files[m] : files[m][i] \in InFiles
  BY DEF InFiles, Range
<1>11. EachOnce'
  <2>1. IsInjective(deque_') /\ Range(deque_') \cap InFiles' = {}
    BY <1>1, <1>7 DEF IInv, LinesInv, EachOnce, object
  <2>2. str' \notin Range(deque_') \cup InFiles'
    <3>1. \A i \in DOMAIN deque_ : deque_[i] \in Lines
      BY <1>2 DEF TypeOK
    <3>2. InFiles \subseteq Lines
      BY <1>2 DEF TypeOK, InFiles, Range
    <3> QED
      BY <1>1, <1>2, <1>7, <3>1, <3>2 DEF Range, object
  <2>3. \A k, m \in Names : \A i \in DOMAIN files'[k], j \in DOMAIN files'[m] :
          files'[k][i] = files'[m][j] => k = m /\ i = j
    BY <1>9, <1>10 DEF IInv, LinesInv, EachOnce
  <2> QED
    BY <2>1, <2>2, <2>3 DEF EachOnce
<1>12. QueueAscends'
  BY <1>1, <1>9 DEF IInv, LinesInv, QueueAscends, object, history
<1>13. FilesAscend'
  <2> SUFFICES ASSUME NEW m \in Names, NEW i \in DOMAIN files'[m], NEW j \in DOMAIN files'[m],
                      files'[m][i] \notin bypass, files'[m][j] \notin bypass,
                      files'[m][i] < files'[m][j]
               PROVE  i < j
    BY <1>1 DEF FilesAscend, history
  <2>1. CASE m # n \/ (i # last /\ j # last)
    BY <1>9, <2>1 DEF IInv, LinesInv, FilesAscend
  <2>2. CASE m = n /\ i = last /\ j # last
    <3>1. files[n][j] < str /\ files[n][j] \in Nat
      <4>1. j \in DOMAIN files[n] /\ files'[m][j] = files[n][j]
        BY <1>9, <2>2
      <4>2. files[n][j] \in Lines
        BY <1>2, <1>9, <4>1 DEF TypeOK
      <4>3. files[n][j] < str
        BY <1>1, <1>9, <4>1 DEF IInv, LinesInv, QueueAscends
      <4> QED
        BY <4>2, <4>3, ConstantFacts
    <3> QED
      BY <1>2, <1>9, <2>2, <3>1
  <2>3. CASE m = n /\ j = last
    BY <1>2, <1>9, <2>3
  <2> QED
    BY <2>1, <2>2, <2>3
<1> QED
  BY <1>3, <1>4, <1>5, <1>6, <1>8, <1>11, <1>12, <1>13 DEF IInv, LinesInv

\* A new line, whose number nobody has, is last in the queue or goes into the
\* open file.
LEMMA NewLine ==
  ASSUME IInv, NEW w \in Writers, pc[w] = "append"
  PROVE  /\ Len(logged) \in Nat /\ Len(logged) + 1 \in Lines
         /\ Len(logged) + Cardinality(Unlogged) <= MaxLogged
         /\ \A l \in Range(deque_) \cup ({str} \ {NoLine}) \cup InFiles :
              l \in Nat /\ l < Len(logged) + 1
         /\ \A n \in Names : \A i \in DOMAIN files[n] :
              files[n][i] \in Nat /\ files[n][i] < Len(logged) + 1
<1>1. Len(logged) \in Nat
  BY DEF IInv, TypeOK
<1>2. Cardinality(Unlogged) \in Nat \ {0}
  <2>1. Unlogged # {}
    BY DEF Unlogged
  <2> QED
    BY <2>1, UnloggedIsFinite, FS_EmptySet
<1>3. Len(logged) + 1 \in Lines /\ Len(logged) + Cardinality(Unlogged) <= MaxLogged
  BY <1>1, <1>2, ConstantFacts DEF IInv, RoomForLines, Lines
<1>4. \A l \in Range(deque_) \cup ({str} \ {NoLine}) \cup InFiles :
        l \in Nat /\ l < Len(logged) + 1
  BY <1>1 DEF IInv, LinesInv, Placed
<1>5. \A n \in Names : \A i \in DOMAIN files[n] : files[n][i] \in InFiles
  BY DEF InFiles, Range
<1> QED
  BY <1>1, <1>3, <1>4, <1>5

\* It is last in the queue, ...
LEMMA EnqueuedLine ==
  ASSUME IInv, NEW w \in Writers, pc[w] = "append",
         Len(logged') = Len(logged) + 1, Enqueue(Len(logged) + 1),
         UNCHANGED <<str, files, bypass>>
  PROVE  deque_' \in Seq(Lines) /\ LinesInv'
<1> DEFINE l == Len(logged) + 1
           q == deque_
<1>1. /\ Len(logged) \in Nat /\ l \in Lines /\ l \in Nat
      /\ \A k \in Range(q) \cup ({str} \ {NoLine}) \cup InFiles : k \in Nat /\ k < l
      /\ \A n \in Names : \A i \in DOMAIN files[n] : files[n][i] < l
  BY NewLine
<1>2. q \in Seq(Lines) /\ deque_' = Append(q, l)
  BY DEF IInv, TypeOK, Enqueue
<1> HIDE DEF q
<1>3. /\ Len(q) \in Nat /\ DOMAIN q = 1 .. Len(q)
      /\ Append(q, l) \in Seq(Lines)
      /\ DOMAIN Append(q, l) = 1 .. Len(q) + 1
      /\ \A i \in 1 .. Len(q) : Append(q, l)[i] = q[i]
      /\ Append(q, l)[Len(q) + 1] = l
  BY <1>1, <1>2
<1>4. 1 .. Len(q) + 1 = (1 .. Len(q)) \cup {Len(q) + 1}
  BY <1>3
<1>5. Range(deque_') = Range(q) \cup {l} /\ InFiles' = InFiles
  BY <1>2, <1>3, <1>4 DEF Range, InFiles
<1>6. \A i \in 1 .. Len(q) : q[i] \in Nat /\ q[i] < l
  BY <1>1, <1>3 DEF Range
<1>7. 1 .. Len(logged') = (1 .. Len(logged)) \cup {l}
  BY <1>1
<1> HIDE DEF l
<1>8. Placed' /\ BypassIsStored'
  BY <1>5, <1>7 DEF IInv, LinesInv, Placed, BypassIsStored, q
<1>9. EachOnce'
  <2>1. IsInjective(deque_')
    <3>1. \A i, j \in 1 .. Len(q) : q[i] = q[j] => i = j
      BY <1>3 DEF IInv, LinesInv, EachOnce, IsInjective, q
    <3>2. \A i, j \in 1 .. Len(q) + 1 :
            Append(q, l)[i] = Append(q, l)[j] => i = j
      BY <1>1, <1>3, <1>4, <1>6, <3>1
    <3> QED
      BY <1>2, <1>3, <3>2 DEF IsInjective
  <2>2. str \notin Range(deque_') \cup InFiles' /\ Range(deque_') \cap InFiles' = {}
    <3>1. l \notin InFiles /\ str # l
      BY <1>1, ConstantFacts
    <3> QED
      BY <1>5, <3>1 DEF IInv, LinesInv, EachOnce, q
  <2> QED
    BY <2>1, <2>2 DEF IInv, LinesInv, EachOnce
<1>10. QueueAscends'
  <2>1. \A i, j \in DOMAIN deque_' : i < j => deque_'[i] < deque_'[j]
    <3>1. \A i, j \in 1 .. Len(q) : i < j => q[i] < q[j]
      BY <1>3 DEF IInv, LinesInv, QueueAscends, q
    <3> QED
      BY <1>2, <1>3, <1>4, <1>6, <3>1
  <2>2. str # NoLine => \A i \in DOMAIN deque_' : str < deque_'[i]
    BY <1>1, <1>2, <1>3, <1>4 DEF IInv, LinesInv, QueueAscends, q
  <2>3. \A n \in Names : \A k \in DOMAIN files[n] : files[n][k] \notin bypass =>
          \A i \in DOMAIN deque_' : files[n][k] < deque_'[i]
    BY <1>1, <1>2, <1>3, <1>4 DEF IInv, LinesInv, QueueAscends, q
  <2> QED
    BY <2>1, <2>2, <2>3 DEF IInv, LinesInv, QueueAscends
<1>11. FilesAscend'
  BY DEF IInv, LinesInv, FilesAscend
<1> QED
  BY <1>2, <1>3, <1>8, <1>9, <1>10, <1>11 DEF LinesInv

\* ... or in the open file, ahead of those that are in the queue.
LEMMA BypassingLine ==
  ASSUME IInv, NEW w \in Writers, pc[w] = "append",
         Len(logged') = Len(logged) + 1, Put(Len(logged) + 1),
         bypass' = bypass \cup {Len(logged) + 1},
         UNCHANGED <<str, deque_>>
  PROVE  LinesInv'
<1> DEFINE l == Len(logged) + 1
           n == fp_.name
           last == Len(files[n]) + 1
<1>1. /\ Len(logged) \in Nat /\ l \in Lines /\ l \in Nat
      /\ \A k \in Range(deque_) \cup ({str} \ {NoLine}) \cup InFiles : k \in Nat /\ k < l
      /\ \A m \in Names : \A i \in DOMAIN files[m] : files[m][i] < l
  BY NewLine
<1>2. TypeOK /\ Put(l)
  BY DEF IInv
<1>3. /\ n \in Names
      /\ \A m \in Names \ {n} : files'[m] = files[m]
      /\ last \in Nat /\ DOMAIN files'[n] = DOMAIN files[n] \cup {last}
      /\ \A i \in DOMAIN files[n] : files'[n][i] = files[n][i] /\ i < last
      /\ files'[n][last] = l
      /\ InFiles' = InFiles \cup {l}
  BY <1>1, <1>2, PutAppends
<1>4. 1 .. Len(logged') = (1 .. Len(logged)) \cup {l} /\ bypass' = bypass \cup {l}
  BY <1>1
<1> HIDE DEF l, n, last
<1>5. Placed' /\ BypassIsStored'
  BY <1>3, <1>4 DEF IInv, LinesInv, Placed, BypassIsStored
<1>6. EachOnce'
  <2>1. \A k, m \in Names : \A i \in DOMAIN files'[k], j \in DOMAIN files'[m] :
          files'[k][i] = files'[m][j] => k = m /\ i = j
    BY <1>1, <1>3 DEF IInv, LinesInv, EachOnce
  <2>2. l \notin Range(deque_) /\ str # l
    BY <1>1, ConstantFacts
  <2> QED
    BY <1>3, <2>1, <2>2 DEF IInv, LinesInv, EachOnce
<1>7. QueueAscends'
  BY <1>3, <1>4 DEF IInv, LinesInv, QueueAscends
<1>8. FilesAscend'
  BY <1>3, <1>4 DEF IInv, LinesInv, FilesAscend
<1> QED
  BY <1>5, <1>6, <1>7, <1>8 DEF LinesInv

\* The line is written, and lineCount_ one more than it was when it was read.
LEMMA AppendLineIInv ==
  ASSUME IInv, NEW w \in Writers, AppendLine(w)
  PROVE  IInv'
<1> DEFINE l == Len(logged) + 1
<1>1. /\ pc[w] = "append" /\ pc' = [pc EXCEPT ![w] = "load"] /\ dtor # "crashed"
      /\ mtx_' = FALSE /\ lineCount_' = count[w] + 1
      /\ logged' = Append(logged, day[w])
      /\ UNCHANGED <<today, isAsync_, toDay_, fp_, closed_, day, newFile, loaded,
                     count, str, dtor, authors>>
  BY DEF AppendLine, Goto, Crashed
<1>2. /\ Len(logged) \in Nat /\ l \in Lines
      /\ Len(logged) + Cardinality(Unlogged) <= MaxLogged
      /\ \A k \in InFiles : k \in Nat /\ k < l
      /\ \A n \in Names : \A i \in DOMAIN files[n] :
           files[n][i] \in Nat /\ files[n][i] < l
  BY <1>1, NewLine
<1>3. /\ logged \in Seq(1 .. MaxDay) /\ day[w] \in 1 .. MaxDay
      /\ count[w] \in 0 .. Len(logged)
  BY ConstantFacts DEF IInv, TypeOK
<1>4. /\ logged' \in Seq(1 .. MaxDay) /\ Len(logged') = l
      /\ logged'[l] = day[w] /\ \A i \in 1 .. Len(logged) : logged'[i] = logged[i]
  BY <1>1, <1>2, <1>3
<1>5. \/ isAsync_ /\ Enqueue(l) /\ UNCHANGED <<files, bypass>>
      \/ /\ ~isAsync_ \/ Len(deque_) >= Capacity
         /\ Put(l) /\ bypass' = bypass \cup {l} /\ UNCHANGED deque_
  BY <1>4 DEF AppendLine
<1>6. TypeOK /\ MutexIsHeld
  BY DEF IInv
<1> HIDE DEF l
<1>7. LinesInv' /\ deque_' \in Seq(Lines) /\ files' \in [Names -> Seq(Lines)]
      /\ bypass' \subseteq Lines
  <2>1. CASE isAsync_ /\ Enqueue(l) /\ UNCHANGED <<files, bypass>>
    BY <1>1, <1>4, <1>6, <2>1, EnqueuedLine DEF TypeOK, l
  <2>2. CASE Put(l) /\ bypass' = bypass \cup {l} /\ UNCHANGED deque_
    <3>1. LinesInv'
      BY <1>1, <1>4, <2>2, BypassingLine DEF l
    <3>2. files' \in [Names -> Seq(Lines)]
      BY <1>2, <1>6, <2>2, PutAppends
    <3> QED
      BY <1>2, <1>6, <2>2, <3>1, <3>2 DEF TypeOK
  <2> QED
    BY <1>5, <2>1, <2>2
<1>8. TypeOK'
  <2>1. lineCount_' \in 0 .. Len(logged') /\ count' \in [Writers -> 0 .. Len(logged')]
    BY <1>1, <1>2, <1>3, <1>4, <1>6 DEF TypeOK, l
  <2>2. pc' \in [Writers -> Pcs]
    BY <1>1, <1>6 DEF TypeOK, Pcs, WritePcs
  <2> QED
    BY <1>1, <1>4, <1>6, <1>7, <2>1, <2>2 DEF TypeOK
<1>9. RoomForLines'
  <2>1. Unlogged' = Unlogged \ {w} /\ w \in Unlogged
    BY <1>1, <1>6 DEF TypeOK, Unlogged
  <2>2. Cardinality(Unlogged') = Cardinality(Unlogged) - 1
    BY <2>1, UnloggedIsFinite, FS_RemoveElement
  <2> QED
    BY <1>2, <1>4, <2>2, UnloggedIsFinite, ConstantFacts DEF RoomForLines, l
<1>10. MutexIsHeld' /\ AuthorsLog'
  BY <1>1, <1>6 DEF IInv, TypeOK, MutexIsHeld, AuthorsLog
<1>11. Emptied'
  <2>1. dtor \in {"no", "crashed"}
    BY <1>1 DEF IInv, AuthorsLog
  <2> QED
    BY <1>1, <1>5, <2>1 DEF IInv, Emptied
<1>12. FirstDayCounts'
  <2>1. today = 1 => count[w] = Len(logged)
    BY <1>1 DEF IInv, FirstDayCounts
  <2>2. \A v \in Writers : pc'[v] # "append"
    BY <1>1, <1>6 DEF TypeOK, MutexIsHeld
  <2>3. today = 1 => \A v \in Writers : pc'[v] \notin {"date", "reset"}
    BY <1>1, <1>6 DEF IInv, TypeOK, FirstDayCounts
  <2> QED
    BY <1>1, <1>4, <2>1, <2>2, <2>3 DEF FirstDayCounts, l
<1>13. SoloInv'
  <2> SUFFICES ASSUME ~isAsync_, Rotates(w), ExactFiles
               PROVE  Rotates(w)' /\ ExactFiles'
    BY <1>1, SoloStep DEF IInv
  <2> DEFINE n == fp_.name
             last == Len(files[n]) + 1
  <2>1. /\ n \in Names /\ files' \in [Names -> Seq(Lines)]
        /\ \A m \in Names \ {n} : files'[m] = files[m]
        /\ Len(files[n]) \in Nat /\ Len(files'[n]) = Len(files[n]) + 1
        /\ last \in Nat /\ DOMAIN files'[n] = DOMAIN files[n] \cup {last}
        /\ \A i \in DOMAIN files[n] : files'[n][i] = files[n][i]
        /\ files'[n][last] = l
    BY <1>2, <1>5, <1>6, PutAppends
  <2>2. /\ toDay_ = day[w] /\ n.day = toDay_ /\ Len(files[n]) < MAX_LINES
        /\ lineCount_ = Offset(n) + Len(files[n]) /\ count[w] = lineCount_
        /\ \A m \in Names : Later(m, n) => files[m] = <<>>
    BY <1>1 DEF Rotates
  <2>3. ExactFiles'
    <3>1. \A m \in Names : Len(files'[m]) <= MAX_LINES
      BY <2>1, <2>2, ConstantFacts DEF ExactFiles
    <3>2. ASSUME NEW m \in Names, NEW i \in DOMAIN files'[m]
          PROVE  logged'[files'[m][i]] = m.day
      <4>1. CASE m = n /\ i = last
        BY <1>4, <2>1, <2>2, <4>1
      <4>2. CASE m # n \/ i # last
        <5>1. i \in DOMAIN files[m] /\ files'[m][i] = files[m][i]
          BY <2>1, <3>2, <4>2
        <5>2. files[m][i] \in 1 .. Len(logged)
          <6>1. files[m][i] \in Lines
            BY <1>6, <5>1 DEF TypeOK
          <6> QED
            BY <1>2, <5>1, <6>1 DEF Lines, l
        <5> QED
          BY <1>4, <5>1, <5>2 DEF ExactFiles
      <4> QED
        BY <4>1, <4>2
    <3> QED
      BY <3>1, <3>2 DEF ExactFiles
  <2>4. /\ pc'[w] = "load" /\ fp_'.name = n
        /\ Offset(n) \in Int
        /\ lineCount_' = Offset(n) + Len(files'[n]) /\ Len(files'[n]) > 0
    <3>1. n.part \in Int
      BY <2>1, ConstantFacts DEF Names
    <3>2. Offset(n) \in Int
      BY <3>1, ConstantFacts DEF Offset
    <3> QED
      BY <1>1, <1>6, <2>1, <2>2, <3>2 DEF TypeOK
  <2>5. \A m \in Names : Later(m, n) => files'[m] = <<>>
    <3>1. ~Later(n, n)
      BY <2>1, ConstantFacts DEF Later, Names
    <3> QED
      BY <2>1, <2>2, <3>1
  <2>6. toDay_' <= day'[w] /\ toDay_' = day'[w] /\ n.day = toDay_'
    BY <1>1, <1>6, <2>2 DEF TypeOK
  <2> HIDE DEF n, last
  <2>7. Rotates(w)'
    BY <2>4, <2>5, <2>6 DEF Rotates, Later, Offset
  <2> QED
    BY <2>3, <2>7
<1> QED
  BY <1>7, <1>8, <1>9, <1>10, <1>11, <1>12, <1>13 DEF IInv

\* flush(), which may end the process, but loses no line.
LEMMA FlushIInv ==
  ASSUME IInv, NEW w \in Writers, FlushLoad(w) \/ Flush(w)
  PROVE  IInv'
<1>1. /\ UNCHANGED <<today, object, mtx_, day, newFile, count, str, files, history>>
      /\ loaded' \in [Writers -> Nat]
      /\ dtor # "crashed" /\ (dtor' = dtor \/ dtor' = "crashed")
  <2>1. fp_.file \in Nat /\ loaded \in [Writers -> Nat]
    BY DEF IInv, TypeOK
  <2>2. CASE FlushLoad(w)
    BY <2>1, <2>2 DEF FlushLoad, Goto, Crashed
  <2>3. CASE Flush(w)
    BY <2>1, <2>3 DEF Flush, Goto, Crashed
  <2> QED
    BY <2>2, <2>3
<1>2. PICK to \in {"flush", "idle"} :
        pc[w] \in {"load", "flush"} /\ pc' = [pc EXCEPT ![w] = to]
  BY DEF FlushLoad, Flush, Goto
<1>3. dtor = "no"
  BY <1>1, <1>2 DEF IInv, AuthorsLog
<1>4. LinesInv' /\ RoomForLines' /\ AuthorsLog' /\ Emptied'
  BY <1>1, <1>2, <1>3, WriterMoves DEF Pcs, WritePcs, object, history
<1>5. TypeOK'
  BY <1>1, <1>2 DEF IInv, TypeOK, Pcs, WritePcs, object, history
<1>6. MutexIsHeld' /\ FirstDayCounts'
  BY <1>1, <1>2 DEF IInv, TypeOK, MutexIsHeld, FirstDayCounts, object, history
<1>7. SoloInv'
  BY <1>1, <1>2, SoloStays DEF IInv, TypeOK, object, history
<1> QED
  BY <1>4, <1>5, <1>6, <1>7 DEF IInv

-----------------------------------------------------------------------------
(* The theorems.                                                           *)

\* After init() no line is anywhere.
LEMMA InitIInv == Init => IInv
<1> SUFFICES ASSUME Init PROVE IInv
  OBVIOUS
<1>1. [day |-> 1, part |-> Plain] \in Names
  BY ConstantFacts DEF Names
<1>2. Len(logged) = 0 /\ logged \in Seq(1 .. MaxDay) /\ deque_ \in Seq(Lines)
  BY DEF Init
<1>3. files \in [Names -> Seq(Lines)] /\ \A n \in Names : files[n] = <<>>
  BY DEF Init
<1>4. TypeOK
  <2>1. /\ today \in 1 .. MaxDay /\ toDay_ \in 1 .. today
        /\ lineCount_ \in 0 .. Len(logged)
    BY <1>2, ConstantFacts DEF Init
  <2>2. fp_ \in [name : Names, file : Nat] /\ newFile \in [Writers -> Names]
    BY <1>1 DEF Init
  <2>3. /\ pc \in [Writers -> Pcs] /\ day \in [Writers -> 1 .. today]
        /\ loaded \in [Writers -> Nat] /\ count \in [Writers -> 0 .. Len(logged)]
    BY <1>2 DEF Init, Pcs
  <2> QED
    BY <1>2, <1>3, <2>1, <2>2, <2>3 DEF Init, TypeOK
<1>5. Unlogged = {}
  BY DEF Init, Unlogged
<1>6. RoomForLines
  BY <1>2, <1>5, FS_EmptySet, ConstantFacts DEF RoomForLines
<1>7. MutexIsHeld /\ AuthorsLog /\ Emptied /\ FirstDayCounts
  BY <1>2 DEF Init, MutexIsHeld, AuthorsLog, Emptied, FirstDayCounts
<1>8. InFiles = {} /\ Range(deque_) = {}
  BY <1>3 DEF Init, InFiles, Range
<1>9. LinesInv
  <2>1. \A n \in Names : DOMAIN files[n] = {}
    BY <1>3
  <2>2. DOMAIN deque_ = {} /\ str = NoLine /\ bypass = {}
    BY DEF Init
  <2>3. Placed /\ BypassIsStored
    BY <1>2, <1>8, <2>2 DEF Placed, BypassIsStored
  <2>4. EachOnce
    BY <1>8, <2>1, <2>2 DEF EachOnce, IsInjective
  <2>5. QueueAscends /\ FilesAscend
    BY <2>1, <2>2 DEF QueueAscends, FilesAscend
  <2> QED
    BY <2>3, <2>4, <2>5 DEF LinesInv
<1>10. SoloInv
  <2>1. \A n \in Names : Len(files[n]) = 0 /\ DOMAIN files[n] = {}
    BY <1>3
  <2>2. ExactFiles
    BY <2>1, ConstantFacts DEF ExactFiles
  <2>3. ASSUME NEW w \in Writers PROVE Rotates(w)
    BY <1>1, <1>3, <2>1 DEF Init, Rotates, Offset
  <2> QED
    BY <2>2, <2>3 DEF SoloInv
<1> QED
  BY <1>4, <1>6, <1>7, <1>9, <1>10 DEF IInv

\* Every step keeps the invariant.
LEMMA NextIInv == IInv /\ [Next]_vars => IInv'
<1> SUFFICES ASSUME IInv, [Next]_vars PROVE IInv'
  OBVIOUS
<1>1. CASE UNCHANGED vars
  <2>1. LinesInv'
    BY <1>1, LinesStay DEF IInv, vars, object, history
  <2>2. SoloInv'
    BY <1>1, SoloStays DEF IInv, vars, object, writers, history
  <2>3. TypeOK'
    BY <1>1 DEF IInv, TypeOK, vars, object, writers, history
  <2>4. RoomForLines' /\ MutexIsHeld' /\ AuthorsLog' /\ Emptied' /\ FirstDayCounts'
    BY <1>1 DEF IInv, vars, object, writers, history, RoomForLines, MutexIsHeld,
       AuthorsLog, Emptied, FirstDayCounts, Unlogged
  <2> QED
    BY <2>1, <2>2, <2>3, <2>4 DEF IInv
<1>2. CASE Midnight
  BY <1>2, MidnightIInv
<1>3. ASSUME NEW w \in Writers, Write(w) \/ Logging(w) PROVE IInv'
  BY <1>3, WriteIInv, TestIInv, NameIInv, NameOfDayIInv, ResetCountIInv,
     NameOfPartIInv, ReopenIInv, LockIInv, AppendLineIInv, FlushIInv DEF Logging
<1>4. CASE AsyncWrite_
  BY <1>4, PopIInv, StoreIInv DEF AsyncWrite_
<1>5. CASE Destroy \/ Destructor
  BY <1>5, DestructorIInv
<1> QED
  BY <1>1, <1>2, <1>3, <1>4, <1>5 DEF Next

\* The invariant holds in every reachable state.
THEOREM Inductive == SafeSpec => []IInv
<1> QED
  BY InitIInv, NextIInv, PTL DEF SafeSpec

\* Each line is in one place, once, and in a file when the destructor is done;
\* what was queued is stored in its order, across rotations, whatever threads
\* log and however full the queue is.
THEOREM NoLineIsLost == SafeSpec => []LinesAreKept
<1>1. ASSUME IInv PROVE LinesAreKept
  <2> DEFINE under == {str} \ {NoLine}
             queued == 1 .. Len(logged) \ bypass
  <2>1. Range(deque_) \cup under \cup InFiles = 1 .. Len(logged) /\ EachOnce
    BY <1>1 DEF IInv, LinesInv, Placed
  <2>2. dtor = "done" => InFiles = 1 .. Len(logged)
    <3>1. dtor = "done" => Range(deque_) = {} /\ under = {}
      BY <1>1 DEF IInv, Emptied, Range
    <3> QED
      BY <2>1, <3>1
  <2>3. today = 1 => lineCount_ = Len(logged)
    BY <1>1 DEF IInv, FirstDayCounts
  <2>4. ASSUME NEW k \in queued, NEW l \in queued, k < l, l \in InFiles \cup under
        PROVE  k \in InFiles
    <3>1. k \in Nat /\ l \in Nat /\ k \notin bypass /\ l \notin bypass
      BY <1>1 DEF IInv, TypeOK
    <3>2. \A x \in Range(deque_) : l < x
      <4>1. CASE l \in under
        BY <1>1, <4>1 DEF IInv, LinesInv, QueueAscends, Range
      <4>2. CASE l \in InFiles
        <5>1. PICK n \in Names : l \in Range(files[n])
          BY <4>2 DEF InFiles
        <5>2. PICK i \in DOMAIN files[n] : l = files[n][i]
          BY <5>1 DEF Range
        <5> QED
          BY <1>1, <3>1, <5>2 DEF IInv, LinesInv, QueueAscends, Range
      <4> QED
        BY <2>4, <4>1, <4>2
    <3>3. k \notin Range(deque_)
      BY <2>4, <3>1, <3>2
    <3>4. k \notin under
      <4>1. CASE l \in under
        BY <2>4, <3>1, <4>1
      <4>2. CASE l \in InFiles
        <5>1. PICK n \in Names : l \in Range(files[n])
          BY <4>2 DEF InFiles
        <5>2. PICK i \in DOMAIN files[n] : l = files[n][i]
          BY <5>1 DEF Range
        <5>3. str # NoLine => l < str
          BY <1>1, <3>1, <5>2 DEF IInv, LinesInv, QueueAscends
        <5> QED
          BY <2>4, <3>1, <5>3
      <4> QED
        BY <2>4, <4>1, <4>2
    <3> QED
      BY <2>1, <3>3, <3>4
  <2>5. ASSUME NEW k \in queued, NEW l \in queued, k < l, NEW n \in Names,
               NEW i \in DOMAIN files[n], NEW j \in DOMAIN files[n],
               files[n][i] = k, files[n][j] = l
        PROVE  i < j
    BY <1>1, <2>5 DEF IInv, LinesInv, FilesAscend
  <2> QED
    BY <2>1, <2>2, <2>3, <2>4, <2>5 DEF LinesAreKept
<1> QED
  BY <1>1, Inductive, PTL

\* The files of a single thread that logs without a queue have the lines of their
\* day, at most MAX_LINES each, for any MAX_LINES and over any number of days.
THEOREM SingleThreadRotatesExactly == SafeSpec => []RotationIsExact
<1>1. ASSUME IInv PROVE RotationIsExact
  <2> SUFFICES ASSUME ~isAsync_, Cardinality(authors) <= 1 PROVE ExactFiles
    BY DEF RotationIsExact, ExactFiles
  <2>1. PICK w \in Writers : authors \subseteq {w}
    <3>1. authors \subseteq Writers /\ IsFiniteSet(authors)
      BY <1>1, LogAssumption, FS_Subset DEF IInv, TypeOK
    <3>2. CASE authors = {}
      BY <3>2, LogAssumption
    <3>3. ASSUME NEW w \in authors PROVE authors = {w}
      <4>1. /\ Cardinality(authors) \in Nat
            /\ Cardinality(authors \ {w}) = Cardinality(authors) - 1
            /\ IsFiniteSet(authors \ {w}) /\ Cardinality(authors \ {w}) \in Nat
        BY <3>1, <3>3, FS_RemoveElement, FS_CardinalityType
      <4>2. Cardinality(authors \ {w}) = 0
        BY <4>1
      <4>3. authors \ {w} = {}
        BY <4>1, <4>2, FS_EmptySet
      <4> QED
        BY <3>3, <4>3
    <3> QED
      BY <3>1, <3>2, <3>3
  <2> QED
    BY <1>1, <2>1 DEF IInv, SoloInv
<1> QED
  BY <1>1, Inductive, PTL
=============================================================================

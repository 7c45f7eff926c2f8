------------------------------- MODULE AsyncLog -------------------------------
(***************************************************************************)
(* The logger of the web server (log.cpp): threads that log, a thread that *)
(* stores what they queue, the rotation of the file at midnight and after  *)
(* MAX_LINES lines, and the destructor.  The queue BlockDeque is not part  *)
(* of the repository; what is used of it is that full() and empty() answer *)
(* at once, pop() blocks until there is a line or the queue was closed,    *)
(* and Close() throws away what is left.                                   *)
(*                                                                         *)
(* The test for rotation, the choice of the new name and the flush() that  *)
(* ends a LOG macro happen without mtx_.  The locked part of the rotation  *)
(* is one action: a flush() that loads fp_ between its fclose() and its    *)
(* fopen() meets what one meets that has loaded fp_ before both.           *)
(***************************************************************************)
EXTENDS Integers, Sequences, FiniteSets, Functions, SequencesExt

CONSTANTS
  Writers,      \* the threads that log
  Capacity,     \* maxQueueSize
  MAX_LINES,
  \* Bounds of the environment.
  MaxLogged,    \* lines
  MaxDay        \* days

ASSUME LogAssumption ==
  /\ IsFiniteSet(Writers) /\ Writers # {}
  /\ Capacity \in Nat \ {0} /\ MAX_LINES \in Nat \ {0}
  /\ MaxLogged \in Nat /\ MaxDay \in Nat \ {0}

VARIABLES
  today,            \* the date
  \* The object.
  isAsync_, toDay_, lineCount_,
  fp_,              \* the open file: its name, and a number for the FILE
  deque_,
  closed_,          \* deque_ was closed
  mtx_,             \* a thread is between the two halves of lineCount_++
  \* The threads that log.
  pc,
  day,              \* the date that write() has read
  newFile,          \* the name that write() has chosen
  loaded,           \* the FILE that flush() is about to use
  count,            \* lineCount_, as lineCount_++ has read it
  \* The thread of AsyncWrite_() and the destructor.
  str,              \* the line that was popped, or NoLine
  dtor,             \* where the destructor is
  \* What becomes of the lines.
  files,            \* per file name: its lines
  logged,           \* the date of each line, in the order of the lock
  bypass,           \* lines that found the queue full
  authors           \* the threads that have begun to log

object == <<isAsync_, toDay_, lineCount_, fp_, deque_, closed_>>
writers == <<pc, day, newFile, loaded, count>>
history == <<logged, bypass, authors>>
vars == <<today, object, mtx_, writers, str, dtor, files, history>>

NoLine == 0
Plain == -1     \* path/date.log; path/date-n.log otherwise
Names == [day : 1 .. MaxDay, part : Plain .. MaxLogged]
Lines == 1 .. MaxLogged

Crashed == dtor = "crashed"
InFiles == UNION {Range(files[n]) : n \in Names}

-----------------------------------------------------------------------------
\* After init(), with or without a queue.
Init ==
  /\ today = 1
  /\ isAsync_ \in BOOLEAN
  /\ toDay_ = 1 /\ lineCount_ = 0
  /\ fp_ = [name |-> [day |-> 1, part |-> Plain], file |-> 1]
  /\ deque_ = <<>> /\ closed_ = FALSE
  /\ mtx_ = FALSE
  /\ pc = [w \in Writers |-> "idle"]
  /\ day = [w \in Writers |-> 1]
  /\ newFile = [w \in Writers |-> fp_.name]
  /\ loaded = [w \in Writers |-> 0]
  /\ count = [w \in Writers |-> 0]
  /\ str = NoLine
  /\ dtor = "no"
  /\ files = [n \in Names |-> <<>>]
  /\ logged = <<>> /\ bypass = {} /\ authors = {}

\* Seeded bug: the lock is forgotten.
MutexIgnored == TRUE

MutexFree == ~mtx_

Goto(w, from, to) == ~Crashed /\ pc[w] = from /\ pc' = [pc EXCEPT ![w] = to]

Midnight ==
  /\ today < MaxDay
  /\ today' = today + 1
  /\ UNCHANGED <<object, mtx_, writers, str, dtor, files, history>>

-----------------------------------------------------------------------------
(* Log::write().                                                           *)

Unlogged ==
  {w \in Writers : pc[w] \in {"test", "name", "date", "reset", "part", "reopen",
                              "lock", "append"}}

\* LOG_BASE: gettimeofday().
Write(w) ==
  /\ Goto(w, "idle", "test")
  /\ dtor = "no"
  /\ Len(logged) + Cardinality(Unlogged) < MaxLogged
  /\ day' = [day EXCEPT ![w] = today]
  /\ authors' = authors \cup {w}
  /\ UNCHANGED <<today, object, mtx_, newFile, loaded, count, str, dtor,
                 files, logged, bypass>>

\* Seeded bug: a new file when the old one has a line too many.
FileIsFullLate == lineCount_ > 1 /\ lineCount_ % MAX_LINES = 1

FileIsFull == lineCount_ > 0 /\ lineCount_ % MAX_LINES = 0

\* toDay_ and lineCount_ are read without the lock.
Test(w) ==
  /\ Goto(w, "test", IF toDay_ # day[w] \/ FileIsFull THEN "name" ELSE "lock")
  /\ UNCHANGED <<today, object, mtx_, day, newFile, loaded, count, str, dtor,
                 files, history>>

\* The lock is taken and released, which orders nothing.  Then toDay_ is read
\* again,
Name(w) ==
  /\ Goto(w, "name", IF toDay_ # day[w] THEN "date" ELSE "part")
  /\ UNCHANGED <<today, object, mtx_, day, newFile, loaded, count, str, dtor,
                 files, history>>

\* and on a new day written,
NameOfDay(w) ==
  /\ Goto(w, "date", "reset")
  /\ newFile' = [newFile EXCEPT ![w] = [day |-> day[w], part |-> Plain]]
  /\ toDay_' = day[w]
  /\ UNCHANGED <<today, isAsync_, lineCount_, fp_, deque_, closed_, mtx_, day,
                 loaded, count, str, dtor, files, history>>

\* and then lineCount_;
ResetCount(w) ==
  /\ Goto(w, "reset", "reopen")
  /\ lineCount_' = 0
  /\ UNCHANGED <<today, isAsync_, toDay_, fp_, deque_, closed_, mtx_, day,
                 newFile, loaded, count, str, dtor, files, history>>

\* on the same day the next file gets a number.
NameOfPart(w) ==
  /\ Goto(w, "part", "reopen")
  /\ newFile' = [newFile EXCEPT ![w] =
                   [day |-> day[w], part |-> lineCount_ \div MAX_LINES]]
  /\ UNCHANGED <<today, object, mtx_, day, loaded, count, str, dtor, files,
                 history>>

\* Under the lock: flush, fclose(fp_), fopen(newFile, "a").
Reopen(w) ==
  /\ MutexFree
  /\ Goto(w, "reopen", "lock")
  /\ fp_' = [name |-> newFile[w], file |-> fp_.file + 1]
  /\ UNCHANGED <<today, isAsync_, toDay_, lineCount_, deque_, closed_, mtx_,
                 day, newFile, loaded, count, str, dtor, files, history>>

\* The lock, and the first half of lineCount_++,
Lock(w) ==
  /\ MutexFree
  /\ Goto(w, "lock", "append")
  /\ mtx_' = TRUE
  /\ count' = [count EXCEPT ![w] = lineCount_]
  /\ UNCHANGED <<today, object, day, newFile, loaded, str, dtor, files, history>>

Put(l) == files' = [files EXCEPT ![fp_.name] = Append(@, l)]

\* Seeded bug: the newest line is stored first.
EnqueueFront(l) == deque_' = <<l>> \o deque_

Enqueue(l) == deque_' = Append(deque_, l)

\* and the second, which undoes a lineCount_ = 0 of another thread.  The line
\* goes into the queue, or into the file when there is no queue or it is full.
\* Only here lines are queued, so push_back() does not block.
AppendLine(w) ==
  /\ Goto(w, "append", "load")
  /\ mtx_' = FALSE
  /\ lineCount_' = count[w] + 1
  /\ logged' = Append(logged, day[w])
  /\ LET l == Len(logged') IN
       \/ isAsync_ /\ Len(deque_) < Capacity /\ Enqueue(l) /\ UNCHANGED <<files, bypass>>
       \/ /\ ~isAsync_ \/ Len(deque_) >= Capacity
          /\ Put(l)
          /\ bypass' = bypass \cup {l}
          /\ UNCHANGED deque_
  /\ UNCHANGED <<today, isAsync_, toDay_, fp_, closed_, day, newFile, loaded,
                 count, str, dtor, authors>>

\* LOG_BASE calls flush() after write(): fp_ is loaded without the lock,
FlushLoad(w) ==
  /\ Goto(w, "load", "flush")
  /\ loaded' = [loaded EXCEPT ![w] = fp_.file]
  /\ UNCHANGED <<today, object, mtx_, day, newFile, count, str, dtor, files, history>>

\* and fflush() may find the FILE closed, which is undefined: nothing, or the
\* end of the process.
Flush(w) ==
  /\ Goto(w, "flush", "idle")
  /\ \/ UNCHANGED dtor
     \/ loaded[w] # fp_.file /\ dtor' = "crashed"
  /\ loaded' = [loaded EXCEPT ![w] = 0]
  /\ UNCHANGED <<today, object, mtx_, day, newFile, count, str, files, history>>

-----------------------------------------------------------------------------
(* Log::AsyncWrite_().                                                     *)

\* Seeded bug: lines are only fetched from a full queue.
PopWhenFull ==
  /\ isAsync_ /\ ~Crashed
  /\ str = NoLine /\ Len(deque_) = Capacity
  /\ str' = Head(deque_)
  /\ deque_' = Tail(deque_)
  /\ UNCHANGED <<today, isAsync_, toDay_, lineCount_, fp_, closed_, mtx_,
                 writers, dtor, files, history>>

Pop ==
  /\ isAsync_ /\ ~Crashed
  /\ str = NoLine /\ deque_ # <<>>
  /\ str' = Head(deque_)
  /\ deque_' = Tail(deque_)
  /\ UNCHANGED <<today, isAsync_, toDay_, lineCount_, fp_, closed_, mtx_,
                 writers, dtor, files, history>>

\* Under the lock.
Store ==
  /\ ~Crashed /\ MutexFree
  /\ str # NoLine
  /\ Put(str)
  /\ str' = NoLine
  /\ UNCHANGED <<today, object, mtx_, writers, dtor, history>>

-----------------------------------------------------------------------------
(* Log::~Log(), at the end of the process, when nobody logs any more.      *)

\* Seeded bug: the queue is closed with lines in it.
DrainedNever == TRUE

\* while(!deque_->empty()) deque_->flush()
Drained == deque_ = <<>>

Destroy ==
  /\ dtor = "no"
  /\ \A w \in Writers : pc[w] = "idle"
  /\ dtor' = IF isAsync_ THEN "drain" ELSE "lock"
  /\ UNCHANGED <<today, object, mtx_, writers, str, files, history>>

Close ==
  /\ dtor = "drain" /\ Drained
  /\ dtor' = "join"
  /\ closed_' = TRUE /\ deque_' = <<>>
  /\ UNCHANGED <<today, isAsync_, toDay_, lineCount_, fp_, mtx_, writers,
                 str, files, history>>

\* pop() returns false.
ThreadEnded == closed_ /\ str = NoLine

Join ==
  /\ dtor = "join" /\ ThreadEnded
  /\ dtor' = "lock"
  /\ UNCHANGED <<today, object, mtx_, writers, str, files, history>>

\* Under the lock: flush() and fclose(fp_).
CloseFile ==
  /\ dtor = "lock" /\ MutexFree
  /\ dtor' = "done"
  /\ UNCHANGED <<today, object, mtx_, writers, str, files, history>>

-----------------------------------------------------------------------------
Logging(w) ==
  \/ Test(w) \/ Name(w) \/ NameOfDay(w) \/ ResetCount(w) \/ NameOfPart(w)
  \/ Reopen(w) \/ Lock(w) \/ AppendLine(w) \/ FlushLoad(w) \/ Flush(w)

AsyncWrite_ == Pop \/ Store

Destructor == Close \/ Join \/ CloseFile

Next ==
  \/ Midnight
  \/ \E w \in Writers : Write(w) \/ Logging(w)
  \/ AsyncWrite_
  \/ Destroy \/ Destructor

SafeSpec == Init /\ [][Next]_vars

\* Every thread runs on and mtx_ is given to each that waits for it.  Nobody
\* has to log, and the process may go on for ever.
Fairness ==
  /\ \A w \in Writers : SF_vars(Logging(w))
  /\ SF_vars(AsyncWrite_)
  /\ SF_vars(Destructor)

Spec == SafeSpec /\ Fairness

-----------------------------------------------------------------------------
(* Properties.                                                             *)

\* No line is twice in the queue, in the files, or in the thread that stores.
EachOnce ==
  /\ IsInjective(deque_)
  /\ str \notin Range(deque_) \cup InFiles
  /\ Range(deque_) \cap InFiles = {}
  /\ \A m, n \in Names : \A i \in DOMAIN files[m], j \in DOMAIN files[n] :
       files[m][i] = files[n][j] => m = n /\ i = j

\* Whatever threads, rotations and the destructor do, each line is exactly once
\* in the queue, with the thread that stores, or in a file, and all lines are
\* in files when the destructor closes the last one.  Until the first midnight
\* lineCount_ has counted them all.  A line that was queued is stored after every
\* line queued before it, across rotations; lines that find the queue full
\* overtake the ones in it.
LinesAreKept ==
  LET under == {str} \ {NoLine}
      queued == 1 .. Len(logged) \ bypass
  IN
  /\ Range(deque_) \cup under \cup InFiles = 1 .. Len(logged)
  /\ EachOnce
  /\ dtor = "done" => InFiles = 1 .. Len(logged)
  /\ today = 1 => lineCount_ = Len(logged)
  /\ \A k, l \in queued : k < l =>
       /\ l \in InFiles \cup under => k \in InFiles
       /\ \A n \in Names : \A i, j \in DOMAIN files[n] :
            files[n][i] = k /\ files[n][j] = l => i < j

\* A single thread that logs without a queue gets what the rotation is for: the
\* lines of a file are of its day, and a file has at most MAX_LINES of them.
RotationIsExact ==
  ~isAsync_ /\ Cardinality(authors) <= 1 =>
    \A n \in Names :
      /\ Len(files[n]) <= MAX_LINES
      /\ \A i \in DOMAIN files[n] : logged[files[n][i]] = n.day

\* A line that was queued reaches a file with nobody logging after it, and the
\* destructor waits for ever neither for the queue nor for the thread, unless
\* the process crashes.
LinesAreStored ==
  /\ \A l \in Lines : l <= Len(logged) ~> l \in InFiles \/ Crashed
  /\ dtor # "no" ~> dtor = "done" \/ Crashed
=============================================================================

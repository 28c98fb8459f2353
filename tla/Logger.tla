-------------------------------- MODULE Logger --------------------------------
(***************************************************************************)
(* The log (src/src/utils/logger.cpp): any thread puts lines into a        *)
(* bounded queue, the writer thread takes them out, writes them to the     *)
(* file and starts a new file when it has grown.  The destructor runs when *)
(* the program ends, after the threads that log are gone.                  *)
(*                                                                         *)
(* A line is its number.  A file is the sequence of its lines, and its     *)
(* size their number.  fopen, rename and pthread_create may fail.  The     *)
(* buffer of stdio is left out: a line handed to fputs is in the file.     *)
(***************************************************************************)
EXTENDS Naturals, SequencesExt

CONSTANTS
    kMaxQueueSize,
    MaxFileLines,  \* max_size_mb_: a file with more lines is put aside
    MaxLines       \* bound: lines logged

ASSUME LoggerAssumption == kMaxQueueSize \in Nat \ {0} /\ MaxFileLines \in Nat
ASSUME LoggerBound == MaxLines \in Nat

VARIABLES
    queue,      \* queue_
    running,    \* running_
    file,       \* file_: "null", "open", "closed" between fclose and fopen, or "done" when
                \* the destructor closed it
    size,       \* current_size_
    wpc,        \* the writer thread; "none" when there is none
    hand,       \* entry, taken and not yet written
    epc,        \* the main thread: "out", "in" (Init), then the destructor
    clearedAt,  \* history: where the writer was when the destructor cleared running_
    log,        \* leavr.log
    oldLog,     \* leavr.log.old
    rotations,  \* history: files put aside
    accepted,   \* history: lines put into the queue
    logged      \* history: lines logged

diskVars   == <<log, oldLog, rotations>>
queueVars  == <<queue, accepted, logged>>
fileVars   == <<file, size>>
writerVars == <<wpc, hand>>
mainVars   == <<epc, running, clearedAt>>
vars == <<diskVars, queueVars, fileVars, writerVars, mainVars>>

Init ==
    /\ queue = <<>> /\ accepted = <<>> /\ logged = 0
    /\ file = "null" /\ size = 0
    /\ wpc = "none" /\ hand = <<>>
    /\ epc = "out" /\ running = FALSE /\ clearedAt = "nowhere"
    /\ log = <<>> /\ oldLog = <<>> /\ rotations = 0

\* The writer holds queue_lock_ from the test of its predicate to its sleep.
LockFree == wpc # "deciding"

\* pthread_cond_signal: a sleeping writer goes back to test its predicate.
Signalled == IF wpc = "asleep" THEN "test" ELSE wpc

-----------------------------------------------------------------------------
(* Any thread *)

\* Mutant: a line is queued and nobody told.
LogSilently ==
    /\ epc = "in" /\ LockFree /\ logged < MaxLines
    /\ logged' = logged + 1
    /\ IF Len(queue) < kMaxQueueSize
       THEN queue' = Append(queue, logged') /\ accepted' = Append(accepted, logged')
       ELSE UNCHANGED <<queue, accepted>>
    /\ UNCHANGED <<diskVars, fileVars, writerVars, mainVars>>

\* A line that finds the queue full goes to stderr instead.
Log ==
    /\ epc = "in" /\ LockFree /\ logged < MaxLines
    /\ logged' = logged + 1
    /\ IF Len(queue) < kMaxQueueSize
       THEN queue' = Append(queue, logged') /\ accepted' = Append(accepted, logged')
       ELSE UNCHANGED <<queue, accepted>>
    /\ wpc' = Signalled
    /\ UNCHANGED <<diskVars, fileVars, hand, mainVars>>

\* Flush wakes the writer; it neither waits for it nor empties the queue.
Flush ==
    /\ epc = "in" /\ LockFree
    /\ wpc' = Signalled
    /\ UNCHANGED <<diskVars, queueVars, fileVars, hand, mainVars>>

-----------------------------------------------------------------------------
(* The main thread: Init, and the destructor. *)

\* No file: Init fails, and lines stay in the queue.
InitOpenFails ==
    /\ epc = "out"
    /\ epc' = "in"
    /\ UNCHANGED <<diskVars, queueVars, fileVars, writerVars, running, clearedAt>>

InitStarts ==
    /\ epc = "out"
    /\ epc' = "in" /\ file' = "open"
    /\ \/ running' = TRUE /\ wpc' = "loop"
       \/ UNCHANGED <<running, wpc>>
    /\ UNCHANGED <<diskVars, queueVars, size, hand, clearedAt>>

\* running_ is cleared without the lock, ...
DestroyClears ==
    /\ epc = "in"
    /\ epc' = "signal" /\ running' = FALSE /\ clearedAt' = wpc
    /\ UNCHANGED <<diskVars, queueVars, fileVars, writerVars>>

\* Mutant: the writer is not woken.
DestroyForgets ==
    /\ epc = "signal"
    /\ epc' = "join"
    /\ UNCHANGED <<diskVars, queueVars, fileVars, writerVars, running, clearedAt>>

\* ... and so is the signal sent.
DestroySignals ==
    /\ epc = "signal"
    /\ epc' = "join" /\ wpc' = Signalled
    /\ UNCHANGED <<diskVars, queueVars, fileVars, hand, running, clearedAt>>

DestroyJoins ==
    /\ epc = "join" /\ wpc \in {"none", "ended"}
    /\ epc' = "gone"
    /\ file' = IF file = "open" THEN "done" ELSE file
    /\ UNCHANGED <<diskVars, queueVars, size, writerVars, running, clearedAt>>

Destroy == DestroyClears \/ DestroySignals \/ DestroyJoins

-----------------------------------------------------------------------------
(* The writer thread. *)

\* Each round begins with a look at running_; the loop ends without one at the queue.
WriterLoops ==
    /\ wpc = "loop"
    /\ wpc' = IF running THEN "test" ELSE "ended"
    /\ UNCHANGED <<diskVars, queueVars, fileVars, hand, mainVars>>

WriterDecides ==
    /\ wpc = "test" /\ queue = <<>> /\ running
    /\ wpc' = "deciding"
    /\ UNCHANGED <<diskVars, queueVars, fileVars, hand, mainVars>>

WriterSleeps ==
    /\ wpc = "deciding"
    /\ wpc' = "asleep"
    /\ UNCHANGED <<diskVars, queueVars, fileVars, hand, mainVars>>

\* A spurious wakeup.
WriterWakes ==
    /\ wpc = "asleep"
    /\ wpc' = "test"
    /\ UNCHANGED <<diskVars, queueVars, fileVars, hand, mainVars>>

\* Mutant: the lines that are left are not written.
WriterGivesUp ==
    /\ wpc = "test" /\ ~running
    /\ wpc' = "ended"
    /\ UNCHANGED <<diskVars, queueVars, fileVars, hand, mainVars>>

\* The lines that are left are written under the lock, if there is a file.
WriterDrains ==
    /\ wpc = "test" /\ ~running
    /\ queue' = <<>>
    /\ log' = IF file = "open" THEN log \o queue ELSE log
    /\ wpc' = "ended"
    /\ UNCHANGED <<oldLog, rotations, accepted, logged, fileVars, hand, mainVars>>

WriterTakes ==
    /\ wpc = "test" /\ queue # <<>> /\ running
    /\ hand' = <<Head(queue)>> /\ queue' = Tail(queue)
    /\ wpc' = "write"
    /\ UNCHANGED <<diskVars, accepted, logged, fileVars, mainVars>>

WriterWrites ==
    /\ wpc = "write"
    /\ hand' = <<>>
    /\ IF file = "open"
       THEN /\ log' = log \o hand /\ size' = size + 1
            /\ wpc' = IF size' > MaxFileLines THEN "close" ELSE "loop"
       ELSE wpc' = "loop" /\ UNCHANGED <<log, size>>
    /\ UNCHANGED <<oldLog, rotations, queueVars, file, mainVars>>

WriterCloses ==
    /\ wpc = "close"
    /\ file' = "closed"
    /\ wpc' = "reopen"
    /\ UNCHANGED <<diskVars, queueVars, size, hand, mainVars>>

\* Mutant: the new file is opened to be written from its beginning.
WriterTruncates ==
    /\ wpc = "reopen"
    /\ \/ oldLog' = log /\ rotations' = rotations + 1
       \/ UNCHANGED <<oldLog, rotations>>
    /\ log' = <<>>
    /\ file' \in {"open", "null"} /\ size' = 0
    /\ wpc' = "loop"
    /\ UNCHANGED <<queueVars, hand, mainVars>>

\* rename replaces the file put aside before; when it fails, the new file is the old one
\* and grows on.  When fopen fails, there is no file any more.
WriterReopens ==
    /\ wpc = "reopen"
    /\ \/ oldLog' = log /\ log' = <<>> /\ rotations' = rotations + 1
       \/ UNCHANGED diskVars
    /\ file' \in {"open", "null"} /\ size' = 0
    /\ wpc' = "loop"
    /\ UNCHANGED <<queueVars, hand, mainVars>>

\* What the writer does of itself.
Writer ==
    \/ WriterLoops \/ WriterDecides \/ WriterSleeps \/ WriterDrains \/ WriterTakes
    \/ WriterWrites \/ WriterCloses \/ WriterReopens

-----------------------------------------------------------------------------
Next ==
    \/ Log \/ Flush
    \/ InitOpenFails \/ InitStarts \/ Destroy
    \/ Writer \/ WriterWakes

Spec == Init /\ [][Next]_vars

\* The writer is scheduled, and the destructor goes on once it has begun.
FairSpec ==
    /\ Spec
    /\ WF_vars(Writer)
    /\ WF_vars(DestroySignals \/ DestroyJoins)

-----------------------------------------------------------------------------
(* Properties *)

\* The writer goes on without a file.
FileLost == file = "null" /\ wpc # "none"

\* The files and the line in the writer's hand hold the newest of the lines taken from the
\* queue, in their order, with none missing between them, and the queue the accepted lines
\* behind those: a line taken disappears only with a whole file, when the one put aside is
\* replaced, whichever calls of a rotation fail.  Not in the files are, besides, a new line
\* that finds the queue full (it goes to stderr, while the oldest line stays queued: not as
\* the comment at logger.cpp:118 has it), and what is still queued when the writer has
\* ended.  When fopen fails in a rotation the log ends.
KeepsNewestLines ==
    ~FileLost =>
        LET taken == SubSeq(accepted, 1, Len(accepted) - Len(queue))
            kept == oldLog \o log \o hand
        IN  /\ IsSuffix(queue, accepted)
            /\ IF rotations < 2 THEN kept = taken ELSE IsSuffix(kept, taken)

\* A program that ends while the writer waits, or is about to test its predicate, leaves no
\* line in the queue.  One that ends while the writer is busy with a line, or before
\* it has come to wait, may: the loop then ends without the drain, and the lines are lost.
QuietExitDrains ==
    wpc = "ended" /\ clearedAt \in {"asleep", "deciding", "test"} => queue = <<>>

\* An accepted line is taken from the queue, unless the program ends or has no writer.
LinesAreTaken ==
    \A l \in 1..MaxLines :
        (l \in Range(queue) /\ wpc # "none") ~> (l \notin Range(queue) \/ ~running)

\* The destructor returns, unless it cleared running_ and signalled between the writer's
\* test of its predicate and its wait (as with Stop of the recorder).
ExitReturnsOutsideWindow ==
    (epc = "signal" /\ clearedAt # "deciding") ~> (epc = "gone")
=================================================================================

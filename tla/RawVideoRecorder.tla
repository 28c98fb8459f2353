--------------------------- MODULE RawVideoRecorder ---------------------------
(***************************************************************************)
(* The raw-stream recorder (src/src/storage/raw_video_recorder.cpp).       *)
(*                                                                         *)
(* Three threads meet in it:                                               *)
(*   - the controller (main) calls Start and Stop;                         *)
(*   - the stream thread of the media pipeline calls Push per frame;       *)
(*   - the writer thread, created by Start and joined by Stop, drains the  *)
(*     bounded queue into <path>.tmp.                                      *)
(* lock_ and cond_ protect the queue only; recording_, running_ and        *)
(* write_failed_ are atomics that the threads read and write without it.   *)
(*                                                                         *)
(* A critical section is one action when nothing it reads can change       *)
(* under it.  The exception is the writer's wait predicate: it reads       *)
(* running_, which Stop writes without the lock, so the writer holds the   *)
(* lock in a state of its own, "deciding", between the test and the wait.  *)
(* The lock is held across steps there and nowhere else.  The counters     *)
(* bytes_written_ and dropped_frames_ are only reported, and left out.     *)
(*                                                                         *)
(* Power may be lost at any step.  rename(2) is visible at once but        *)
(* reaches the disk at some later time (the code does not sync the         *)
(* directory), and the data of a file survives only if fsync returned 0.   *)
(***************************************************************************)
EXTENDS Naturals, SequencesExt

CONSTANTS
    Paths,             \* the record paths the caller may pass
    kMaxQueuedFrames,  \* capacity of queue_
    MaxSessions,       \* bound: calls of Start that pass its checks
    MaxFrames,         \* bound: calls of Push that pass its checks
    MaxCrashes,        \* bound: power losses
    NoFile,            \* the path names no file
    Torn               \* what a failed write leaves of a frame in the file

Frame == [sess : Nat, id : Nat]

ASSUME QueueAssumption == kMaxQueuedFrames \in Nat \ {0}
ASSUME BoundAssumption ==
    MaxSessions \in Nat /\ MaxFrames \in Nat /\ MaxCrashes \in Nat
ASSUME SentinelAssumption == Torn \notin Frame

VARIABLES
    ctl,           \* where the controller is inside Start or Stop
    session,       \* number of the current or last recording session
    path,          \* final_path_ (temp_path_ is its .tmp)
    result,        \* the code Start or Stop returns, or is about to
    recording,     \* recording_
    running,       \* running_
    writeFailed,   \* write_failed_
    queue,         \* queue_
    wpc,           \* where the writer thread is; "none" before create and after join
    hand,          \* the frame the writer popped, as a sequence of length 0 or 1
    spc,           \* the stream thread: "out" of Push, or "copied" the frame
    copy,          \* the frame in the stream thread's hands
    fdOpen,        \* fd_ >= 0
    content,       \* what was written through fd_ since open truncated the file
    synced,        \* fsync succeeded on content
    final,         \* what each record path names: NoFile or a file
    durable,       \* what each record path names on the disk itself
    frames,        \* history: frames that passed the checks of Push
    accepted,      \* history: frames enqueued since Start cleared the queue
    promised,      \* history: accepted, at the moment Stop cleared recording_
    crashes        \* history: power losses

callVars   == <<session, path, promised>>
ctlVars    == <<ctl, result, callVars>>
flagVars   == <<recording, running, writeFailed>>
queueVars  == <<queue, accepted>>
writerVars == <<wpc, hand>>
streamVars == <<spc, copy, frames>>
fileVars   == <<fdOpen, content, synced>>
diskVars   == <<final, durable, crashes>>
storeVars  == <<fileVars, diskVars>>
vars == <<ctlVars, flagVars, queueVars, writerVars, streamVars, storeVars>>

LockFree == wpc # "deciding"

\* Mutant: nobody signals.
SignalledNever == wpc

\* pthread_cond_signal: a sleeping writer goes back to test its predicate.
Signalled == IF wpc = "asleep" THEN "test" ELSE wpc

NoFrame == [sess |-> 0, id |-> 0]

Init ==
    /\ ctl = "idle" /\ result = "OK"
    /\ recording = FALSE /\ running = FALSE /\ writeFailed = FALSE
    /\ queue = <<>> /\ wpc = "none" /\ hand = <<>>
    /\ spc = "out" /\ copy = NoFrame
    /\ fdOpen = FALSE /\ content = <<>> /\ synced = FALSE
    /\ accepted = <<>> /\ promised = <<>>
    /\ session = 0 /\ path \in Paths /\ frames = 0 /\ crashes = 0
    /\ final = [p \in Paths |-> NoFile]
    /\ durable = [p \in Paths |-> NoFile]

-----------------------------------------------------------------------------
(* Start, in the controller. *)

StartBusy ==
    /\ ctl = "idle" /\ recording
    /\ result' = "BUSY"
    /\ UNCHANGED <<ctl, callVars, flagVars, queueVars, writerVars, streamVars, storeVars>>

\* Mutant: the queue keeps what an earlier session left in it.
KeptQueue == queue

\* queue_.clear()
ClearedQueue == <<>>

\* The checks, the paths, and the locked clear of the queue.
StartClear(p) ==
    /\ ctl = "idle" /\ ~recording /\ LockFree
    /\ session < MaxSessions
    /\ session' = session + 1
    /\ path' = p
    /\ queue' = ClearedQueue /\ accepted' = ClearedQueue /\ promised' = <<>>
    /\ ctl' = "open"
    /\ UNCHANGED <<result, flagVars, writerVars, streamVars, storeVars>>

StartOpenFails ==
    /\ ctl = "open"
    /\ ctl' = "idle" /\ result' = "FILE_OPEN"
    /\ UNCHANGED <<callVars, flagVars, queueVars, writerVars, streamVars, storeVars>>

\* open truncates the .tmp; the flags are armed before the thread exists.
StartOpens ==
    /\ ctl = "open"
    /\ ctl' = "create"
    /\ fdOpen' = TRUE /\ content' = <<>> /\ synced' = FALSE
    /\ writeFailed' = FALSE /\ running' = TRUE /\ recording' = TRUE
    /\ UNCHANGED <<callVars, result, queueVars, writerVars, streamVars, diskVars>>

StartCreates ==
    /\ ctl = "create"
    /\ ctl' = "idle" /\ result' = "OK"
    /\ wpc' = "test"
    /\ UNCHANGED <<callVars, flagVars, queueVars, hand, streamVars, storeVars>>

StartCreateFails ==
    /\ ctl = "create"
    /\ ctl' = "idle" /\ result' = "NOT_INIT"
    /\ running' = FALSE /\ recording' = FALSE
    /\ fdOpen' = FALSE
    /\ UNCHANGED <<callVars, writeFailed, queueVars, writerVars, streamVars, content, synced,
                   diskVars>>

-----------------------------------------------------------------------------
(* Push, in the stream thread. *)

\* recording_ is read and the frame is copied, without the lock.
PushCopies ==
    /\ spc = "out" /\ recording
    /\ frames < MaxFrames
    /\ frames' = frames + 1
    /\ copy' = [sess |-> session, id |-> frames + 1]
    /\ spc' = "copied"
    /\ UNCHANGED <<ctlVars, flagVars, queueVars, writerVars, storeVars>>

\* Mutants: the capacity test is off by one; the frame enters at the wrong end.
HasRoomForOneMore == Len(queue) <= kMaxQueuedFrames
EnqueuedFirst == <<copy>> \o queue

HasRoom == Len(queue) < kMaxQueuedFrames
Enqueued == Append(queue, copy)

PushEnqueues ==
    /\ spc = "copied" /\ LockFree /\ HasRoom
    /\ queue' = Enqueued
    /\ accepted' = Append(accepted, copy)
    /\ wpc' = Signalled /\ spc' = "out"
    /\ UNCHANGED <<ctlVars, flagVars, hand, copy, storeVars, frames>>

PushDrops ==
    /\ spc = "copied" /\ LockFree /\ ~HasRoom
    /\ spc' = "out"
    /\ UNCHANGED <<ctlVars, flagVars, queueVars, writerVars, copy, storeVars, frames>>

-----------------------------------------------------------------------------
(* WriterThread. *)

\* The wait predicate holds; the lock stays held until the wait.
WriterDecidesToWait ==
    /\ wpc = "test" /\ queue = <<>> /\ running
    /\ wpc' = "deciding"
    /\ UNCHANGED <<ctlVars, flagVars, queueVars, hand, streamVars, storeVars>>

\* pthread_cond_wait gives up the lock and sleeps in one step.
WriterWaits ==
    /\ wpc = "deciding"
    /\ wpc' = "asleep"
    /\ UNCHANGED <<ctlVars, flagVars, queueVars, hand, streamVars, storeVars>>

\* pthread_cond_wait may return without a signal.
SpuriousWakeup ==
    /\ wpc = "asleep"
    /\ wpc' = "test"
    /\ UNCHANGED <<ctlVars, flagVars, queueVars, hand, streamVars, storeVars>>

WriterPops ==
    /\ wpc = "test" /\ queue # <<>>
    /\ hand' = <<Head(queue)>> /\ queue' = Tail(queue)
    /\ wpc' = "writing"
    /\ UNCHANGED <<ctlVars, flagVars, streamVars, storeVars, accepted>>

WriterExits ==
    /\ wpc = "test" /\ queue = <<>> /\ ~running
    /\ wpc' = "gone"
    /\ UNCHANGED <<ctlVars, flagVars, queueVars, hand, streamVars, storeVars>>

WriterWrites ==
    /\ wpc = "writing"
    /\ content' = content \o hand /\ synced' = FALSE
    /\ hand' = <<>> /\ wpc' = "test"
    /\ UNCHANGED <<ctlVars, flagVars, queueVars, streamVars, fdOpen, diskVars>>

\* Mutant: the failed write is logged and forgotten.
WriterForgetsFailure ==
    /\ wpc = "writing"
    /\ content' = Append(content, Torn)
    /\ hand' = <<>> /\ wpc' = "test"
    /\ UNCHANGED <<ctlVars, flagVars, queueVars, streamVars, fdOpen, synced, diskVars>>

\* WriteAll gives up after none or some of the bytes, and the loop goes on.
WriterFails ==
    /\ wpc = "writing"
    /\ content' \in {content, Append(content, Torn)} /\ synced' = FALSE
    /\ writeFailed' = TRUE
    /\ hand' = <<>> /\ wpc' = "test"
    /\ UNCHANGED <<ctlVars, recording, running, queueVars, streamVars, fdOpen, diskVars>>

-----------------------------------------------------------------------------
(* Stop, in the controller. *)

StopIdle ==
    /\ ctl = "idle" /\ ~recording
    /\ result' = "OK"
    /\ UNCHANGED <<ctl, callVars, flagVars, queueVars, writerVars, streamVars, storeVars>>

StopClearsFlags ==
    /\ ctl = "idle" /\ recording
    /\ recording' = FALSE /\ running' = FALSE
    /\ promised' = accepted
    /\ ctl' = "signal"
    /\ UNCHANGED <<session, path, result, writeFailed, queueVars, writerVars, streamVars,
                   storeVars>>

\* The signal is sent without the lock: it is lost on a writer that is "deciding".
StopSignals ==
    /\ ctl = "signal"
    /\ wpc' = Signalled
    /\ ctl' = "join"
    /\ UNCHANGED <<callVars, result, flagVars, queueVars, hand, streamVars, storeVars>>

\* Mutant: Stop does not wait for the writer to end.
StopDetaches ==
    /\ ctl = "join"
    /\ ctl' = "sync"
    /\ UNCHANGED <<callVars, result, flagVars, queueVars, writerVars, streamVars, storeVars>>

StopJoins ==
    /\ ctl = "join" /\ wpc = "gone"
    /\ wpc' = "none"
    /\ ctl' = "sync"
    /\ UNCHANGED <<callVars, result, flagVars, queueVars, hand, streamVars, storeVars>>

\* Mutant: failed writes do not count.
StopResultOfClose(code) == code

\* write_failed_ overrides what fsync and close reported.
StopResult(code) == IF writeFailed THEN "FILE_WRITE" ELSE code

\* A failed fsync short-circuits the close: fd_ is forgotten and its descriptor leaks.
StopSyncs ==
    /\ ctl = "sync"
    /\ fdOpen' = FALSE /\ synced' \in BOOLEAN
    /\ \E code \in {"OK", "FILE_CLOSE"} :
          (code = "OK" => synced') /\ result' = StopResult(code)
    /\ ctl' = "rename"
    /\ UNCHANGED <<callVars, flagVars, queueVars, writerVars, streamVars, content, diskVars>>

ThisFile == [sess |-> session, frames |-> content, synced |-> synced, promised |-> promised]

\* Mutant: the file is renamed whatever the result.
RenameAlways == TRUE

MayRename == result = "OK"

StopRenames ==
    /\ ctl = "rename" /\ MayRename
    /\ final' = [final EXCEPT ![path] = ThisFile]
    /\ ctl' = "idle"
    /\ UNCHANGED <<callVars, result, flagVars, queueVars, writerVars, streamVars, fileVars,
                   durable, crashes>>

StopRenameFails ==
    /\ ctl = "rename" /\ MayRename
    /\ result' = "FILE_CLOSE"
    /\ ctl' = "idle"
    /\ UNCHANGED <<callVars, flagVars, queueVars, writerVars, streamVars, storeVars>>

\* The .tmp stays behind.
StopAbandons ==
    /\ ctl = "rename" /\ ~MayRename
    /\ ctl' = "idle"
    /\ UNCHANGED <<callVars, result, flagVars, queueVars, writerVars, streamVars, storeVars>>

-----------------------------------------------------------------------------
(* The file system and the power supply. *)

Writeback(p) ==
    /\ durable[p] # final[p]
    /\ durable' = [durable EXCEPT ![p] = final[p]]
    /\ UNCHANGED <<ctlVars, flagVars, queueVars, writerVars, streamVars, fileVars, final,
                   crashes>>

\* What is left of a file whose name reached the disk.
AfterPowerLoss(f) ==
    IF f = NoFile \/ f.synced THEN f ELSE [f EXCEPT !.frames = <<>>]

\* The power goes, and the recorder is constructed again at the next boot.
Crash ==
    /\ crashes < MaxCrashes
    /\ crashes' = crashes + 1
    /\ final' = [p \in Paths |-> AfterPowerLoss(durable[p])]
    /\ durable' = final'
    /\ ctl' = "idle" /\ result' = "OK"
    /\ recording' = FALSE /\ running' = FALSE /\ writeFailed' = FALSE
    /\ queue' = <<>> /\ wpc' = "none" /\ hand' = <<>>
    /\ spc' = "out" /\ copy' = NoFrame
    /\ fdOpen' = FALSE /\ content' = <<>> /\ synced' = FALSE
    /\ accepted' = <<>> /\ promised' = <<>>
    /\ UNCHANGED <<session, path, frames>>

-----------------------------------------------------------------------------
Start ==
    \/ StartBusy
    \/ \E p \in Paths : StartClear(p)
    \/ StartOpenFails \/ StartOpens
    \/ StartCreates \/ StartCreateFails

Push == PushCopies \/ PushEnqueues \/ PushDrops

WriterThread ==
    \/ WriterDecidesToWait \/ WriterWaits
    \/ WriterPops \/ WriterWrites \/ WriterFails
    \/ WriterExits

Stop ==
    \/ StopIdle \/ StopClearsFlags \/ StopSignals \/ StopJoins \/ StopSyncs
    \/ StopRenames \/ StopRenameFails \/ StopAbandons

Environment ==
    \/ SpuriousWakeup
    \/ \E p \in Paths : Writeback(p)
    \/ Crash

Next == Start \/ Push \/ WriterThread \/ Stop \/ Environment

Spec == Init /\ [][Next]_vars

(***************************************************************************)
(* Threads that can run do run: the writer, the stream thread inside Push, *)
(* and the controller inside Start or Stop.  Nobody has to call Start,     *)
(* Stop or Push, and no spurious wakeup may be counted on.                 *)
(***************************************************************************)
InsideCall == ctl # "idle" /\ (Start \/ Stop)
Fairness ==
    /\ WF_vars(WriterThread)
    /\ WF_vars(PushEnqueues \/ PushDrops)
    /\ WF_vars(InsideCall)

FairSpec == Spec /\ Fairness

-----------------------------------------------------------------------------
File == [sess : Nat, frames : Seq(Frame \cup {Torn}), synced : BOOLEAN,
         promised : Seq(Frame)]

\* A path that names no file can be told from one that names a file.
ASSUME NoFileAssumption == NoFile \notin File

\* Every variable holds a value of the kind the code gives it.
TypeOK ==
    /\ ctl \in {"idle", "open", "create", "signal", "join", "sync", "rename"}
    /\ session \in Nat /\ path \in Paths
    /\ result \in {"OK", "BUSY", "FILE_OPEN", "NOT_INIT", "FILE_CLOSE", "FILE_WRITE"}
    /\ recording \in BOOLEAN /\ running \in BOOLEAN /\ writeFailed \in BOOLEAN
    /\ queue \in Seq(Frame) /\ Len(queue) <= kMaxQueuedFrames
    /\ wpc \in {"none", "test", "deciding", "asleep", "writing", "gone"}
    /\ hand \in Seq(Frame)
    /\ spc \in {"out", "copied"} /\ copy \in Frame
    /\ fdOpen \in BOOLEAN /\ synced \in BOOLEAN
    /\ content \in Seq(Frame \cup {Torn})
    /\ final \in [Paths -> File \cup {NoFile}]
    /\ durable \in [Paths -> File \cup {NoFile}]
    /\ frames \in Nat /\ crashes \in Nat
    /\ accepted \in Seq(Frame) /\ promised \in Seq(Frame)

\* The writer never sleeps on a queue that holds a frame: Push signals under the lock,
\* and the wait predicate is re-tested under it (raw_video_recorder.cpp:100, 113).
SleepsOnlyOnEmptyQueue == wpc \in {"deciding", "asleep"} => queue = <<>>

\* Between open and close nothing enqueued is lost, duplicated or reordered: the file,
\* the popped frame and the queue are together exactly what Push accepted, as long as
\* no write failed.
NothingLostInSession ==
    fdOpen /\ ~writeFailed => accepted = content \o hand \o queue

\* A record path names nothing, or a file that was synced before it got its name and
\* that starts with every frame accepted before Stop was called, whatever failed and
\* whenever the power was lost (the .tmp, fsync, rename order of Stop).
Complete(f) == f.synced /\ IsPrefix(f.promised, f.frames) /\ \A i \in DOMAIN f.frames : f.frames[i] # Torn
SavedFilesAreComplete == \A p \in Paths : final[p] # NoFile => Complete(final[p])

\* A Push that read recording_ in an earlier session may enqueue into this one (nothing
\* re-checks the session under the lock), but the one stream thread can do so at most
\* once, before its first frame of this session.
StaleFrameOnlyAtHead ==
    \A i \in DOMAIN accepted : i > 1 => accepted[i].sess = session

\* As long as the writer thread exists, the descriptor it writes to is open and is the
\* one of its session: Stop joins it before it closes, Start opens before it creates.  A
\* call that failed, or a Stop that returned, leaves no writer thread, and none of fd_ and
\* running_ set.  Nothing is said of the queue, where a Push that came late, or the time
\* before pthread_create failed, may leave frames until the next Start clears it (see
\* StaleFrameOnlyAtHead), nor of a descriptor that fd_ forgot when fsync failed.
NothingOutlivesSession ==
    /\ wpc # "none" => fdOpen /\ (recording \/ ctl \in {"signal", "join"})
    /\ ctl = "idle" /\ ~recording => wpc = "none" /\ ~fdOpen /\ ~running

\* When Stop of a recording returns OK, the record path names this very session's file.
StopOkMeansSaved ==
    [][ctl = "rename" /\ ctl' = "idle" /\ result' = "OK" /\ crashes' = crashes
         => final'[path].sess = session /\ Complete(final'[path])]_vars


-----------------------------------------------------------------------------
(* The promise of the recorder to its caller. *)

PhaseBar ==
    IF recording THEN "recording"
    ELSE IF ctl \in {"signal", "join", "sync", "rename"} THEN "closing" ELSE "idle"
FramesOf(f) == IF f = NoFile THEN NoFile ELSE f.frames

Promise == INSTANCE DurableRecording WITH
    phase    <- PhaseBar,
    log      <- IF PhaseBar = "idle" THEN <<>> ELSE accepted,
    promised <- IF PhaseBar = "closing" THEN promised ELSE <<>>,
    library  <- [p \in Paths |-> FramesOf(final[p])],
    stored   <- [p \in Paths |-> FramesOf(durable[p])]

\* The recorder implements the durable recording of the interface: its threads, its
\* queue and its failures never show in what a record path names.
KeepsPromise == Promise!Spec

-----------------------------------------------------------------------------
(* Liveness, under FairSpec. *)

Queued(n) == \E i \in DOMAIN queue : queue[i].id = n

\* A frame queued for a live writer is taken from the queue (the recorder keeps up
\* whether or not the caller ever stops it).
QueuedIsTaken ==
    \A n \in 1..MaxFrames : (Queued(n) /\ wpc \notin {"none", "gone"}) ~> ~Queued(n)

\* A Stop that sends its signal while the writer is not between its test of the
\* predicate and the wait returns.
StopReturnsOutsideWindow == (ctl = "signal" /\ wpc # "deciding") ~> ctl = "idle"

\* Every Stop returns: "正常停止时文件原子落盘" (raw_video_recorder.h:11).
StopTerminates == ctl = "join" ~> ctl = "idle"
=============================================================================

----------------------------- MODULE LeavrAppProofs -----------------------------
(***************************************************************************)
(* Proofs about the life of the program, for every set of events the loop  *)
(* may post.                                                               *)
(*                                                                         *)
(* AppInv is inductive.  Handling says what the call of PostEvent that     *)
(* main is inside of knows and owes (an action that succeeded has left the *)
(* recorder as its new state shows it); Order says which parts are up at   *)
(* each place of main, from the first Start to the last Stop; Threads ties *)
(* a thread inside a part to that part.                                    *)
(***************************************************************************)
EXTENDS LeavrApp, TLAPS

USE DEF deviceVars, partVars, threadVars, Row, NoPost

StartUp == {"start_media", "start_rtsp", "start_eis", "start_imu"}
Running == {"post_init", "spawn", "post_record", "loop", "post_stop", "join", "stop_recorder"}
ShutDown == {"stop_rtsp", "stop_imu", "stop_eis", "stop_media"}
Places == StartUp \cup Running \cup ShutDown \cup {"exited", "failed"}

\* The values of the variables of main and of the parts.
AppTypes ==
    /\ TypeOK
    /\ pc \in Places /\ gRunning \in BOOLEAN
    /\ mediaOn \in BOOLEAN /\ rtspOn \in BOOLEAN /\ eisOn \in BOOLEAN
    /\ imuPolling \in BOOLEAN /\ imuAvailable \in BOOLEAN
    /\ inSink \in BOOLEAN /\ inPush \in BOOLEAN
    /\ crop \in {"none", "loop", "checked", "ended"}

HasRecorder == state \in {"RECORDING", "PAUSED"} => recorderOn \/ stopFailed

\* What holds between the look at the table and the new state: the row still fits the
\* state, and an action that is over has left the recorder as the result says.
Owed ==
    LET m == pending[Main]
    IN  /\ m.at # "acted" => HasRecorder
        /\ m.at # "idle" => state = m.row.from
        /\ m.at = "acted" => /\ m.row.event = "KEY_RECORD" /\ m.ok => recorderOn
                             /\ m.row.event = "KEY_STOP" /\ ~m.ok => stopFailed

\* Main is inside PostEvent at four places only, and owes nothing once the parts stop.
Handling ==
    /\ pc \notin {"post_init", "post_record", "loop", "post_stop"} => Idle(Main)
    /\ pc \notin ShutDown \cup {"exited"} => Owed

\* Which parts are up at each place of main.
Order ==
    /\ pc \in {"start_media", "failed"} =>
         ~recorderOn /\ ~mediaOn /\ ~rtspOn /\ ~eisOn /\ crop = "none"
    /\ pc \notin {"start_media", "failed", "exited"} => mediaOn
    /\ pc \in StartUp \cup {"failed"} => ~imuPolling /\ ~imuAvailable
    /\ pc = "start_imu" => eisOn
    /\ crop \in {"loop", "checked"} => pc \in {"post_record", "loop", "post_stop", "join"}
    /\ pc \in ShutDown \cup {"exited"} => ~recorderOn
    /\ pc \in {"stop_imu", "stop_eis", "stop_media", "exited"} => ~rtspOn
    /\ pc \in {"stop_eis", "stop_media", "exited"} => ~imuPolling
    /\ pc \in {"stop_media", "exited"} => ~eisOn
    /\ pc = "exited" => ~mediaOn

\* A thread is inside a part only while the part is up.
Threads ==
    /\ inPush => imuPolling
    /\ imuPolling => imuAvailable /\ eisOn

\* The inductive invariant.
AppInv == AppTypes /\ Handling /\ Order /\ Threads

\* Main is the one poster.
LEMMA MainPosts == Main \in Posters /\ \A p \in Posters : p = Main
BY MainAssumption

\* The plain rows of the table lead to RECORDING and PAUSED only from these two.
LEMMA PlainRowsKeepRecording ==
    \A r \in Transitions \ ActionRows :
        /\ r.to \in States
        /\ r.to \in {"RECORDING", "PAUSED"} => r.from \in {"RECORDING", "PAUSED"}
BY DEF Transitions, ActionRows, States

\* The rows with an action: only KEY_RECORD leads to RECORDING, only KEY_STOP from it.
LEMMA ActionRowsKnown ==
    \A r \in ActionRows :
        /\ r.to \in States
        /\ r.to \in {"RECORDING", "PAUSED"} => r.event = "KEY_RECORD"
        /\ r.from \in {"RECORDING", "PAUSED"} => r.event = "KEY_STOP"
BY DEF ActionRows, States

\* The steps main takes inside PostEvent keep the types and what Handling promises.
LEMMA PostingStep ==
    ASSUME AppInv, NEW e, NEW next \in Places, Posting(e, next),
           pc \in {"post_init", "post_record", "loop", "post_stop"},
           next \notin ShutDown \cup {"exited"}
    PROVE  /\ TypeOK' /\ pc' \in {pc, next}
           /\ pc' \notin {"post_init", "post_record", "loop", "post_stop"} => Idle(Main)'
           /\ Owed'
<1> DEFINE m == pending[Main]
<1> USE DEF Owed
<1>1. /\ Main \in Posters /\ pending \in [Posters -> Post] /\ m \in Post
      /\ state \in States /\ recorderOn \in BOOLEAN /\ stopFailed \in BOOLEAN
  BY MainPosts DEF AppInv, AppTypes, TypeOK
<1>2. /\ m.at # "acted" => HasRecorder
      /\ m.at # "idle" => state = m.row.from
      /\ m.at = "acted" =>
           /\ m.row.event = "KEY_RECORD" /\ m.ok => recorderOn
           /\ m.row.event = "KEY_STOP" /\ ~m.ok => stopFailed
  BY DEF AppInv, Handling, ShutDown
<1>3. CASE PostBegins(Main, e) /\ UNCHANGED pc
  <2>1. PICK r \in ActionRows :
          /\ r.from = state /\ pending' = [pending EXCEPT ![Main] = [at |-> "acting", row |-> r]]
    BY <1>3 DEF PostBegins
  <2>2. m = [at |-> "idle"]
    BY <1>3 DEF PostBegins, Idle
  <2>3. pending'[Main] = [at |-> "acting", row |-> r] /\ pending'[Main] \in Post
    BY <1>1, <2>1 DEF Post
  <2>4. pending' \in [Posters -> Post]
    BY <1>1, <2>1, <2>3
  <2> QED
    BY <1>1, <1>2, <1>3, <2>1, <2>2, <2>3, <2>4 DEF PostBegins, TypeOK, HasRecorder
<1>4. CASE (ActInitDone(Main) \/ ActKeyRecord(Main) \/ ActKeyStop(Main)) /\ UNCHANGED pc
  <2>0. m.at = "acting"
    BY <1>4 DEF ActInitDone, ActKeyRecord, ActKeyStop, Acting
  <2>1. m.at = "acting" /\ m.row \in ActionRows
    BY <1>1, <2>0 DEF Post
  <2>2. \E ok \in BOOLEAN : Acted(Main, ok)
    BY <1>4 DEF ActInitDone, ActKeyRecord, ActKeyStop
  <2>3. PICK ok \in BOOLEAN : Acted(Main, ok)
    BY <2>2
  <2>4. /\ pending'[Main] = [at |-> "acted", row |-> m.row, ok |-> ok]
        /\ pending'[Main] \in Post
    BY <1>1, <2>1, <2>3 DEF Acted, Post
  <2>5. pending' \in [Posters -> Post]
    BY <1>1, <2>3, <2>4 DEF Acted
  <2>6. TypeOK'
    BY <1>1, <1>4, <2>5 DEF TypeOK, ActInitDone, ActKeyRecord, ActKeyStop
  <2>7. pending'[Main].at = "acted" /\ state' = pending'[Main].row.from
    <3>1. state' = state
      BY <1>4 DEF ActInitDone, ActKeyRecord, ActKeyStop
    <3>2. state = m.row.from
      BY <1>2, <2>1
    <3> QED
      BY <2>4, <3>1, <3>2
  <2>8. m.row.event = "KEY_RECORD" /\ pending'[Main].ok => recorderOn'
    <3>1. m.row.event = "KEY_RECORD" => ActKeyRecord(Main)
      BY <1>4 DEF ActInitDone, ActKeyRecord, ActKeyStop, Acting
    <3>2. ActKeyRecord(Main) /\ ~recorderOn' => pending'[Main].ok = FALSE
      BY <1>1, <2>1 DEF ActKeyRecord, Acted
    <3> QED
      BY <3>1, <3>2
  <2>9. m.row.event = "KEY_STOP" /\ ~pending'[Main].ok => stopFailed'
    <3>1. m.row.event = "KEY_STOP" => ActKeyStop(Main)
      BY <1>4 DEF ActInitDone, ActKeyRecord, ActKeyStop, Acting
    <3>2. ActKeyStop(Main) /\ ~stopFailed' => pending'[Main].ok = TRUE
      BY <1>1, <2>1 DEF ActKeyStop, Acted
    <3> QED
      BY <3>1, <3>2
  <2> QED
    BY <1>4, <2>4, <2>6, <2>7, <2>8, <2>9
<1>5. CASE Commit(Main) /\ pc' = next
  <2>1. m.at = "acted" /\ m.row \in ActionRows /\ m.ok /\ state' = m.row.to
    BY <1>1, <1>5 DEF Commit, Post
  <2>2. pending'[Main] = [at |-> "idle"] /\ pending' \in [Posters -> Post]
    BY <1>1, <1>5 DEF Commit, Post
  <2>3. state' \in States /\ HasRecorder'
    BY <1>2, <1>5, <2>1, ActionRowsKnown DEF Commit, HasRecorder
  <2> QED
    BY <1>1, <1>5, <2>2, <2>3 DEF Commit, TypeOK, Idle
<1>6. CASE Refuse(Main) /\ pc' = next
  <2>1. m.at = "acted" /\ m.row \in ActionRows /\ ~m.ok /\ state' = m.row.from
    BY <1>1, <1>2, <1>6 DEF Refuse, Post
  <2>2. pending'[Main] = [at |-> "idle"] /\ pending' \in [Posters -> Post]
    BY <1>1, <1>6 DEF Refuse, Post
  <2>3. HasRecorder'
    BY <1>2, <1>6, <2>1, ActionRowsKnown DEF Refuse, HasRecorder
  <2> QED
    BY <1>1, <1>6, <2>2, <2>3 DEF Refuse, TypeOK, Idle
<1>7. CASE PostIgnored(Main, e) /\ pc' = next
  BY <1>1, <1>2, <1>7 DEF PostIgnored, vars, Idle, TypeOK, HasRecorder
<1>8. CASE PostPlain(Main, e) /\ pc' = next
  <2>1. PICK r \in Transitions \ ActionRows : r.from = state /\ state' = r.to
    BY <1>8 DEF PostPlain
  <2>2. state' \in States /\ HasRecorder'
    BY <1>2, <1>8, <2>1, PlainRowsKeepRecording DEF PostPlain, Idle, HasRecorder
  <2>3. pending' = pending /\ m = [at |-> "idle"]
    BY <1>8 DEF PostPlain, Idle
  <2> QED
    BY <1>1, <1>8, <2>2, <2>3 DEF PostPlain, TypeOK, Idle
<1> QED
  BY <1>3, <1>4, <1>5, <1>6, <1>7, <1>8 DEF Posting

\* A post keeps the invariant, when main comes from and goes to a place between start-up
\* and the shutdown of the parts.
LEMMA PostingKeeps ==
    ASSUME AppInv, NEW e, NEW next \in {"spawn", "loop", "join"}, Posting(e, next),
           pc \in {"post_init", "post_record", "loop", "post_stop"},
           pc = "post_init" => next = "spawn",
           pc # "post_init" => next # "spawn"
    PROVE  AppInv'
<1>1. next \in Places /\ next \notin ShutDown \cup {"exited"}
  BY DEF Places, Running, ShutDown
<1>2. /\ TypeOK' /\ pc' \in {pc, next}
      /\ pc' \notin {"post_init", "post_record", "loop", "post_stop"} => Idle(Main)'
      /\ Owed'
  BY <1>1, PostingStep
<1>3. UNCHANGED <<gRunning, partVars, threadVars>>
  BY DEF Posting
<1>4. AppTypes'
  BY <1>2, <1>3 DEF AppInv, AppTypes, Places, Running
<1>5. Handling'
  BY <1>2 DEF Handling
<1>6. Order'
  BY <1>2, <1>3 DEF AppInv, Order, Running, ShutDown, StartUp
<1>7. Threads'
  BY <1>3 DEF AppInv, Threads
<1> QED
  BY <1>4, <1>5, <1>6, <1>7 DEF AppInv

\* The steps that leave the device alone and main between posts.
LEMMA DeviceStays ==
    ASSUME AppInv, UNCHANGED deviceVars, pc' \notin ShutDown \cup {"exited"},
           pc \notin ShutDown \cup {"exited"},
           pc' # pc => Idle(Main)
    PROVE  TypeOK' /\ Handling'
<1>1. TypeOK' /\ Idle(Main)' = Idle(Main)
  BY DEF AppInv, AppTypes, TypeOK, Idle
<1>2. Handling'
  BY <1>1 DEF AppInv, Handling, HasRecorder, Idle, Owed
<1> QED
  BY <1>1, <1>2

\* Every step of the program keeps AppInv.
LEMMA AppStepPreserves == AppInv /\ [AppNext]_appVars => AppInv'
<1> SUFFICES ASSUME AppInv, [AppNext]_appVars PROVE AppInv'
  OBVIOUS
<1> USE DEF StartUp, Running, ShutDown
<1>1. CASE StartMedia \/ StartRtsp \/ StartEis \/ StartImu \/ Spawn \/ LoopEnds \/ JoinThreads
  <2>1. UNCHANGED deviceVars /\ Idle(Main) /\ pc' \notin ShutDown \cup {"exited"}
        /\ pc \notin ShutDown \cup {"exited"}
    BY <1>1 DEF StartMedia, StartRtsp, StartEis, StartImu, Spawn, LoopEnds, JoinThreads,
       AppInv, Handling
  <2>2. TypeOK' /\ Handling'
    BY <2>1, DeviceStays
  <2>3. AppTypes'
    <3>1. TypeOK'
      BY <2>2
    <3>2. pc' \in Places
      BY <1>1 DEF StartMedia, StartRtsp, StartEis, StartImu, Spawn, LoopEnds,
         JoinThreads, AppInv, AppTypes, Places
    <3>3. gRunning' \in BOOLEAN /\ mediaOn' \in BOOLEAN /\ rtspOn' \in BOOLEAN /\ eisOn' \in BOOLEAN
      BY <1>1, Zenon DEF StartMedia, StartRtsp, StartEis, StartImu, Spawn, LoopEnds,
         JoinThreads, AppInv, AppTypes
    <3>4. imuPolling' \in BOOLEAN /\ imuAvailable' \in BOOLEAN
      BY <1>1, Zenon DEF StartMedia, StartRtsp, StartEis, StartImu, Spawn, LoopEnds,
         JoinThreads, AppInv, AppTypes
    <3>5. inSink' \in BOOLEAN /\ inPush' \in BOOLEAN
          /\ crop' \in {"none", "loop", "checked", "ended"}
      BY <1>1 DEF StartMedia, StartRtsp, StartEis, StartImu, Spawn, LoopEnds,
         JoinThreads, AppInv, AppTypes
    <3> QED
      BY <3>1, <3>2, <3>3, <3>4, <3>5 DEF AppTypes
  <2>4. Order'
    BY <1>1, <2>1 DEF StartMedia, StartRtsp, StartEis, StartImu, Spawn, LoopEnds,
       JoinThreads, AppInv, AppTypes, Order, Threads
  <2>5. Threads'
    BY <1>1 DEF StartMedia, StartRtsp, StartEis, StartImu, Spawn, LoopEnds, JoinThreads,
       AppInv, AppTypes, Order, Threads
  <2> QED
    BY <2>2, <2>3, <2>4, <2>5 DEF AppInv
<1>2. CASE PostInitDone
  BY <1>2, PostingKeeps DEF PostInitDone
<1>3. CASE PostRecord
  BY <1>3, PostingKeeps DEF PostRecord
<1>4. CASE LoopPost
  BY <1>4, PostingKeeps DEF LoopPost
<1>5. CASE PostStop
  BY <1>5, PostingKeeps DEF PostStop
<1>6. CASE StopRecorder \/ StopRtsp \/ StopImu \/ StopEis \/ StopMedia
  <2>1. Idle(Main)' /\ TypeOK' /\ pc' \in ShutDown \cup {"exited"}
    BY <1>6 DEF StopRecorder, StopRtsp, StopImu, StopEis, StopMedia, AppInv, AppTypes,
       TypeOK, Handling, Idle
  <2>2. AppTypes'
    <3>1. TypeOK'
      BY <2>1
    <3>2. pc' \in Places
      BY <1>6 DEF StopRecorder, StopRtsp, StopImu, StopEis, StopMedia, AppInv, AppTypes, Places
    <3>3. gRunning' \in BOOLEAN /\ mediaOn' \in BOOLEAN /\ rtspOn' \in BOOLEAN /\ eisOn' \in BOOLEAN
      BY <1>6, Zenon DEF StopRecorder, StopRtsp, StopImu, StopEis, StopMedia, AppInv, AppTypes
    <3>4. imuPolling' \in BOOLEAN /\ imuAvailable' \in BOOLEAN
      BY <1>6, Zenon DEF StopRecorder, StopRtsp, StopImu, StopEis, StopMedia, AppInv, AppTypes
    <3>5. inSink' \in BOOLEAN /\ inPush' \in BOOLEAN
          /\ crop' \in {"none", "loop", "checked", "ended"}
      BY <1>6 DEF StopRecorder, StopRtsp, StopImu, StopEis, StopMedia, AppInv, AppTypes
    <3> QED
      BY <3>1, <3>2, <3>3, <3>4, <3>5 DEF AppTypes
  <2>3. Handling'
    BY <2>1 DEF Handling
  <2>4. Order'
    BY <1>6 DEF StopRecorder, StopRtsp, StopImu, StopEis, StopMedia, AppInv, AppTypes,
       Order, Threads
  <2>5. Threads'
    BY <1>6 DEF StopRecorder, StopRtsp, StopImu, StopEis, StopMedia, AppInv, AppTypes,
       Order, Threads
  <2> QED
    BY <2>2, <2>3, <2>4, <2>5 DEF AppInv
<1>7. CASE \/ Signal \/ StreamEnters \/ StreamLeaves \/ ImuEnters \/ ImuLeaves
           \/ CropChecks \/ CropSets \/ CropEnds \/ Over \/ UNCHANGED appVars
  <2>1. UNCHANGED <<deviceVars, pc, partVars>>
    BY <1>7 DEF Signal, StreamEnters, StreamLeaves, ImuEnters, ImuLeaves, CropChecks,
       CropSets, CropEnds, Over, appVars
  <2>2. TypeOK' /\ Handling'
    BY <2>1 DEF AppInv, AppTypes, TypeOK, Handling, Owed, HasRecorder, Idle
  <2>3. AppTypes'
    <3>1. TypeOK'
      BY <2>2
    <3>2. pc' \in Places
      BY <1>7 DEF Signal, StreamEnters, StreamLeaves, ImuEnters, ImuLeaves,
         CropChecks, CropSets, CropEnds, Over, appVars, AppInv, AppTypes, Places
    <3>3. gRunning' \in BOOLEAN /\ mediaOn' \in BOOLEAN /\ rtspOn' \in BOOLEAN /\ eisOn' \in BOOLEAN
      BY <1>7, Zenon DEF Signal, StreamEnters, StreamLeaves, ImuEnters, ImuLeaves,
         CropChecks, CropSets, CropEnds, Over, appVars, AppInv, AppTypes
    <3>4. imuPolling' \in BOOLEAN /\ imuAvailable' \in BOOLEAN
      BY <1>7, Zenon DEF Signal, StreamEnters, StreamLeaves, ImuEnters, ImuLeaves,
         CropChecks, CropSets, CropEnds, Over, appVars, AppInv, AppTypes
    <3>5. inSink' \in BOOLEAN /\ inPush' \in BOOLEAN
          /\ crop' \in {"none", "loop", "checked", "ended"}
      BY <1>7 DEF Signal, StreamEnters, StreamLeaves, ImuEnters, ImuLeaves,
         CropChecks, CropSets, CropEnds, Over, appVars, AppInv, AppTypes
    <3> QED
      BY <3>1, <3>2, <3>3, <3>4, <3>5 DEF AppTypes
  <2>4. Order'
    BY <1>7, <2>1 DEF Signal, StreamEnters, StreamLeaves, ImuEnters, ImuLeaves,
       CropChecks, CropSets, CropEnds, Over, appVars, AppInv, Order
  <2>5. Threads'
    BY <1>7, <2>1 DEF Signal, StreamEnters, StreamLeaves, ImuEnters, ImuLeaves,
       CropChecks, CropSets, CropEnds, Over, appVars, AppInv, Threads
  <2> QED
    BY <2>2, <2>3, <2>4, <2>5 DEF AppInv
<1> QED
  BY <1>1, <1>2, <1>3, <1>4, <1>5, <1>6, <1>7 DEF AppNext, MainStep

\* The program begins in AppInv.
LEMMA AppInitEstablishes == AppInit => AppInv
<1> SUFFICES ASSUME AppInit PROVE AppInv
  OBVIOUS
<1>1. TypeOK /\ pending[Main] = [at |-> "idle"]
  BY MainPosts DEF AppInit, Init, TypeOK, Post, States
<1>2. AppTypes
  BY <1>1 DEF AppInit, AppTypes, Places, StartUp
<1>3. Handling
  BY <1>1 DEF AppInit, Init, Handling, Owed, Idle, HasRecorder, ShutDown
<1> QED
  BY <1>2, <1>3 DEF AppInv, AppInit, Init, Order, Threads, StartUp, ShutDown

\* Every reachable state of the program satisfies AppInv.
THEOREM AppInvariance == AppSpec => []AppInv
BY AppInitEstablishes, AppStepPreserves, PTL DEF AppSpec

\* Whatever events the loop posts, a device that shows RECORDING or PAUSED has its
\* recorder on until shutdown, unless StopRecording failed.
THEOREM LoopRecords == AppSpec => []LoopHasRecorder
<1>1. AppInv => LoopHasRecorder
  <2> SUFFICES ASSUME AppInv, pc \in {"loop", "post_stop", "join"}, Quiet
               PROVE  HasRecorder
    BY DEF LoopHasRecorder, RecordingHasRecorder, HasRecorder
  <2>1. pending[Main].at = "idle"
    BY MainPosts DEF Quiet, Idle
  <2> QED
    BY <2>1 DEF AppInv, Handling, Owed, ShutDown
<1> QED
  BY <1>1, AppInvariance, PTL

\* No gyro sample is pushed into an EIS that is down, and no crop window is set in a VPSS
\* group that is down: shutdown joins these two threads in time.  (Nothing is said of the
\* stream thread inside a stopped recorder or server.)
THEOREM PartsOutlive == AppSpec => []PartsOutliveTheirUsers
<1>1. AppInv => PartsOutliveTheirUsers
  BY DEF AppInv, Order, Threads, PartsOutliveTheirUsers
<1> QED
  BY <1>1, AppInvariance, PTL

\* The program leaves with the recorder stopped and its threads joined, however it started.
THEOREM ExitClean == AppSpec => []ExitIsClean
<1>1. AppInv => ExitIsClean
  BY DEF AppInv, AppTypes, Order, ExitIsClean, StartUp, ShutDown
<1> QED
  BY <1>1, AppInvariance, PTL
\* With main as the only poster, as in today's program, a change of the device's state is
\* always a row of the table, although the lock is given up while an action runs: the race
\* of two posters (run DeviceRace) needs a second thread that posts.
THEOREM OnePosterFollowsTable == AppSpec => ChangesFollowTable
<1> DEFINE Follows == state' # state => \E r \in Transitions : r.from = state /\ r.to = state'
<1>1. ActionRows \subseteq Transitions
  BY DEF ActionRows, Transitions
<1>2. ASSUME AppInv, NEW e, NEW next, Posting(e, next), pc \notin ShutDown \cup {"exited"}
      PROVE  Follows
  <2>1. CASE Commit(Main)
    <3>1. pending[Main] \in Post /\ pending[Main].at = "acted"
      BY <1>2, <2>1, MainPosts DEF Commit, AppInv, AppTypes, TypeOK
    <3>2. pending[Main].row \in ActionRows
      BY <3>1 DEF Post
    <3>3. state = pending[Main].row.from /\ state' = pending[Main].row.to
      BY <1>2, <2>1, <3>1 DEF Commit, AppInv, Handling, Owed
    <3> QED
      BY <1>1, <3>2, <3>3
  <2>2. CASE PostPlain(Main, e)
    BY <2>2 DEF PostPlain
  <2>3. CASE ~Commit(Main) /\ ~PostPlain(Main, e)
    BY <1>2, <2>3 DEF Posting, PostBegins, ActInitDone, ActKeyRecord, ActKeyStop, Refuse,
       PostIgnored, vars
  <2> QED
    BY <2>1, <2>2, <2>3
<1>3. AppInv /\ [AppNext]_appVars => [Follows]_state
  <2> SUFFICES ASSUME AppInv, AppNext PROVE Follows \/ UNCHANGED state
    BY DEF appVars
  <2>1. CASE PostInitDone \/ PostRecord \/ PostStop \/ LoopPost
    BY <1>2, <2>1 DEF PostInitDone, PostRecord, PostStop, LoopPost, ShutDown
  <2>2. CASE ~(PostInitDone \/ PostRecord \/ PostStop \/ LoopPost)
    BY <2>2 DEF AppNext, MainStep, StartMedia, StartRtsp, StartEis, StartImu, Spawn,
       LoopEnds, JoinThreads, StopRecorder, StopRtsp, StopImu, StopEis, StopMedia, Over,
       Signal, StreamEnters, StreamLeaves, ImuEnters, ImuLeaves, CropChecks, CropSets,
       CropEnds, appVars
  <2> QED
    BY <2>1, <2>2
<1> QED
  BY <1>3, AppInvariance, PTL DEF AppSpec, ChangesFollowTable
=============================================================================

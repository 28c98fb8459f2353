------------------------------- MODULE LeavrApp -------------------------------
(***************************************************************************)
(* The life of the program (src/src/app/main.cpp): main starts the parts   *)
(* one after another, drives the device state machine, waits for a signal  *)
(* and stops the parts again.  The threads of the other parts run beside   *)
(* it, each known by the one thing that must not outlive what it uses:     *)
(*   - the stream thread of the media pipeline inside a sink;              *)
(*   - the IMU thread inside EisProcessor::PushGyroData, whose ring buffer *)
(*     EisProcessor::Stop clears;                                          *)
(*   - the crop thread between SetCropWindow's look at vpss_started_ and   *)
(*     the call into the VPSS group.                                       *)
(* SIGTERM may come at any time, during start-up too.                      *)
(*                                                                         *)
(* LoopEvents are events posted from the main loop.  Today's loop posts    *)
(* none; the rows of the table that no code posts yet (keys, USB, battery, *)
(* timers) are exercised with LoopEvents = EventTypes.                     *)
(***************************************************************************)
EXTENDS DeviceStateMachine

CONSTANTS Main, LoopEvents

ASSUME MainAssumption == Posters = {Main} /\ LoopEvents \subseteq Events
ASSUME PostedAssumption == {"INIT_DONE", "KEY_RECORD", "KEY_STOP"} \subseteq Events

VARIABLES
    pc,            \* where main is
    gRunning,      \* g_running
    mediaOn,       \* the pipeline and its stream thread run
    rtspOn,        \* the RTSP server runs
    eisOn,         \* the EIS thread runs
    imuPolling,    \* the IMU thread runs
    imuAvailable,  \* g_imu_available
    inSink,        \* the stream thread is inside a sink's OnVideoFrame
    inPush,        \* the IMU thread is inside PushGyroData
    crop           \* the crop thread: "none", "loop", "checked" or "ended"

deviceVars == <<state, pending, recorderOn, stopFailed>>
partVars   == <<mediaOn, rtspOn, eisOn, imuPolling, imuAvailable>>
threadVars == <<inSink, inPush, crop>>
appVars == <<deviceVars, pc, gRunning, partVars, threadVars>>

AppInit ==
    /\ Init
    /\ pc = "start_media" /\ gRunning = TRUE
    /\ mediaOn = FALSE /\ rtspOn = FALSE /\ eisOn = FALSE
    /\ imuPolling = FALSE /\ imuAvailable = FALSE
    /\ inSink = FALSE /\ inPush = FALSE /\ crop = "none"

-----------------------------------------------------------------------------
(* system_init: each part may fail to start. *)

\* Logger, configuration, Init and Start of the pipeline: a failure ends the program.
StartMedia ==
    /\ pc = "start_media"
    /\ \/ pc' = "start_rtsp" /\ mediaOn' = TRUE
       \/ pc' = "failed" /\ UNCHANGED mediaOn
    /\ UNCHANGED <<deviceVars, gRunning, rtspOn, eisOn, imuPolling, imuAvailable, threadVars>>

\* Without a network the local media stay active.
StartRtsp ==
    /\ pc = "start_rtsp" /\ pc' = "start_eis"
    /\ rtspOn' \in BOOLEAN
    /\ UNCHANGED <<deviceVars, gRunning, mediaOn, eisOn, imuPolling, imuAvailable, threadVars>>

\* EIS may be disabled or fail to start, and then no IMU is started either.
StartEis ==
    /\ pc = "start_eis"
    /\ \/ pc' = "start_imu" /\ eisOn' = TRUE
       \/ pc' = "post_init" /\ UNCHANGED eisOn
    /\ UNCHANGED <<deviceVars, gRunning, mediaOn, rtspOn, imuPolling, imuAvailable, threadVars>>

\* A missing IMU leaves the centred crop.
StartImu ==
    /\ pc = "start_imu" /\ pc' = "post_init"
    /\ \E ok \in BOOLEAN : imuPolling' = ok /\ imuAvailable' = ok
    /\ UNCHANGED <<deviceVars, gRunning, mediaOn, rtspOn, eisOn, threadVars>>

-----------------------------------------------------------------------------
(* The posts of main; PostEvent is the whole handler of DeviceStateMachine. *)

\* Main is inside PostEvent(e), and stays at its place until the call returns.
Posting(e, next) ==
    /\ \/ PostBegins(Main, e) /\ UNCHANGED pc
       \/ ActInitDone(Main) /\ UNCHANGED pc
       \/ ActKeyRecord(Main) /\ UNCHANGED pc
       \/ ActKeyStop(Main) /\ UNCHANGED pc
       \/ Commit(Main) /\ pc' = next
       \/ Refuse(Main) /\ pc' = next
       \/ PostIgnored(Main, e) /\ pc' = next
       \/ PostPlain(Main, e) /\ pc' = next
    /\ UNCHANGED <<gRunning, partVars, threadVars>>

PostInitDone == pc = "post_init" /\ Posting("INIT_DONE", "spawn")

\* The monitor and crop threads; the monitor only reads.  The result of pthread_create
\* is not looked at: without a crop thread there is none to join.
Spawn ==
    /\ pc = "spawn"
    /\ crop' \in {"loop", "none"}
    /\ pc' \in {"post_record", "loop"}
    /\ UNCHANGED <<deviceVars, gRunning, partVars, inSink, inPush>>

PostRecord == pc = "post_record" /\ Posting("KEY_RECORD", "loop")

\* Mutant: the loop takes events although g_running is false.
LoopPostOn == pc = "loop" /\ \E e \in LoopEvents : Posting(e, "loop")

LoopPost ==
    /\ pc = "loop" /\ (gRunning \/ ~Idle(Main))
    /\ \E e \in LoopEvents : Posting(e, "loop")

LoopEnds ==
    /\ pc = "loop" /\ Idle(Main) /\ ~gRunning
    /\ pc' = IF state = "RECORDING" THEN "post_stop" ELSE "join"
    /\ UNCHANGED <<deviceVars, gRunning, partVars, threadVars>>

PostStop == pc = "post_stop" /\ Posting("KEY_STOP", "join")

-----------------------------------------------------------------------------
(* The orderly end. *)

\* Mutant: the crop thread is not waited for.
NoJoin ==
    /\ pc = "join" /\ pc' = "stop_recorder"
    /\ UNCHANGED <<deviceVars, gRunning, partVars, threadVars>>

JoinThreads ==
    /\ pc = "join" /\ crop \in {"ended", "none"} /\ pc' = "stop_recorder"
    /\ UNCHANGED <<deviceVars, gRunning, partVars, threadVars>>

\* Mutant: shutdown trusts the state machine, which PostStop has dealt with.
TrustState ==
    /\ pc = "stop_recorder" /\ pc' = "stop_rtsp"
    /\ UNCHANGED <<deviceVars, gRunning, partVars, threadVars>>

\* Whatever state the device is in, a live recorder is stopped.
StopRecorder ==
    /\ pc = "stop_recorder" /\ pc' = "stop_rtsp"
    /\ recorderOn' = FALSE
    /\ IF recorderOn THEN stopFailed' \in BOOLEAN ELSE UNCHANGED stopFailed
    /\ UNCHANGED <<state, pending, gRunning, partVars, threadVars>>

StopRtsp ==
    /\ pc = "stop_rtsp" /\ pc' = "stop_imu" /\ rtspOn' = FALSE
    /\ UNCHANGED <<deviceVars, gRunning, mediaOn, eisOn, imuPolling, imuAvailable, threadVars>>

\* Icm20948Hal::Stop joins the polling thread.
StopImu ==
    /\ pc = "stop_imu" /\ pc' = "stop_eis"
    /\ IF imuAvailable THEN ~inPush /\ imuPolling' = FALSE ELSE UNCHANGED imuPolling
    /\ UNCHANGED <<deviceVars, gRunning, mediaOn, rtspOn, eisOn, imuAvailable, threadVars>>

StopEis ==
    /\ pc = "stop_eis" /\ pc' = "stop_media" /\ eisOn' = FALSE
    /\ UNCHANGED <<deviceVars, gRunning, mediaOn, rtspOn, imuPolling, imuAvailable, threadVars>>

\* MppMediaPipeline::Stop joins the stream thread.
StopMedia ==
    /\ pc = "stop_media" /\ ~inSink /\ pc' = "exited" /\ mediaOn' = FALSE
    /\ UNCHANGED <<deviceVars, gRunning, rtspOn, eisOn, imuPolling, imuAvailable, threadVars>>

-----------------------------------------------------------------------------
(* The other threads, and the signal. *)

Signal ==
    /\ gRunning /\ gRunning' = FALSE
    /\ UNCHANGED <<deviceVars, pc, partVars, threadVars>>

StreamEnters ==
    /\ mediaOn /\ ~inSink /\ inSink' = TRUE
    /\ UNCHANGED <<deviceVars, pc, gRunning, partVars, inPush, crop>>

StreamLeaves ==
    /\ inSink /\ inSink' = FALSE
    /\ UNCHANGED <<deviceVars, pc, gRunning, partVars, inPush, crop>>

ImuEnters ==
    /\ imuPolling /\ ~inPush /\ inPush' = TRUE
    /\ UNCHANGED <<deviceVars, pc, gRunning, partVars, inSink, crop>>

ImuLeaves ==
    /\ inPush /\ inPush' = FALSE
    /\ UNCHANGED <<deviceVars, pc, gRunning, partVars, inSink, crop>>

\* The crop thread sees vpss_started_, or skips this round.
CropChecks ==
    /\ crop = "loop" /\ gRunning /\ mediaOn /\ crop' = "checked"
    /\ UNCHANGED <<deviceVars, pc, gRunning, partVars, inSink, inPush>>

CropSets ==
    /\ crop = "checked" /\ crop' = "loop"
    /\ UNCHANGED <<deviceVars, pc, gRunning, partVars, inSink, inPush>>

CropEnds ==
    /\ crop = "loop" /\ ~gRunning /\ crop' = "ended"
    /\ UNCHANGED <<deviceVars, pc, gRunning, partVars, inSink, inPush>>

Over == pc \in {"exited", "failed"} /\ UNCHANGED appVars

MainStep ==
    \/ StartMedia \/ StartRtsp \/ StartEis \/ StartImu
    \/ PostInitDone \/ Spawn \/ PostRecord \/ LoopEnds \/ PostStop
    \/ JoinThreads \/ StopRecorder \/ StopRtsp \/ StopImu \/ StopEis \/ StopMedia

AppNext ==
    \/ MainStep \/ LoopPost \/ Over
    \/ Signal \/ StreamEnters \/ StreamLeaves \/ ImuEnters \/ ImuLeaves
    \/ CropChecks \/ CropSets \/ CropEnds

(***************************************************************************)
(* Every thread runs when it can.  A post begun from the loop is finished, *)
(* but nothing need be posted.  The IMU and the stream thread leave what   *)
(* they entered and, to be joined, get to see their flag between two       *)
(* rounds, hence the strong fairness of the joins.                         *)
(***************************************************************************)
AppFairness ==
    /\ WF_appVars(MainStep) /\ WF_appVars(~Idle(Main) /\ LoopPost)
    /\ WF_appVars(StreamLeaves) /\ WF_appVars(ImuLeaves)
    /\ WF_appVars(CropSets) /\ WF_appVars(CropEnds)
    /\ SF_appVars(StopImu) /\ SF_appVars(StopMedia)

AppSpec == AppInit /\ [][AppNext]_appVars /\ AppFairness

-----------------------------------------------------------------------------
\* Until shutdown stops the recorder itself, a device that shows RECORDING or PAUSED has
\* its recorder on, unless StopRecording failed, whatever was posted before.
LoopHasRecorder == pc \in {"loop", "post_stop", "join"} => RecordingHasRecorder

\* The two threads beside the controller that shutdown has to join in time, those of the
\* gyro and of the crop window: a gyro sample is only pushed into a running EIS, whose Start
\* and Stop clear the ring (ring_buffer.h:71), and the crop thread only sets the window of
\* a VPSS group that is up, although SetCropWindow reads vpss_started_ without any lock.
\* (The stream thread does call into a recorder and a server that were stopped before it;
\* RawVideoRecorder and RtspServer say what becomes of that.)
PartsOutliveTheirUsers == (inPush => eisOn) /\ (crop = "checked" => mediaOn)

\* However far start-up came and whatever was posted, the program leaves with the
\* recorder stopped and every thread of its parts joined.
ExitIsClean ==
    pc \in {"exited", "failed"} =>
        ~recorderOn /\ ~mediaOn /\ ~rtspOn /\ ~eisOn /\ ~imuPolling /\ crop \in {"none", "ended"}

\* SIGTERM ends the program, whenever it comes (prototype_status.md:18), as long as the
\* Stop of each part returns.
SignalLeadsToExit == ~gRunning ~> pc \in {"exited", "failed"}
=============================================================================

# LEAVR: a TLA+ verification project

LEAVR is the prototype firmware of a body-worn recorder (HI3516CV610 SoC, SC4336P sensor):
it encodes two streams, records the main one to an SD card, serves the sub stream over
RTSP, stabilises the picture with a gyro, and is driven by a device state machine. This
directory models its concurrent parts in TLA+, checks them with TLC on small instances and
proves with TLAPS, for every value of the constants, every safety property the passing
runs check (section 5). Paths below are relative to the repository root inside `src/` (so `src/storage/...` is
`src/src/storage/...`).

## 1. Inventory

| Component | State it keeps | Operations | Hard behaviour | What makes it correct |
|---|---|---|---|---|
| Raw recorder `src/storage/raw_video_recorder.cpp` | flags, bounded queue, writer thread, `.tmp` descriptor | `StartRecording`, `OnVideoFrame`→`Push`, writer loop, `StopRecording` | three threads; atomics read outside the lock; condition variable; every system call may fail; power loss | no accepted frame lost; a named file is complete; `Stop` returns; OK means saved |
| State machine `src/app/state_machine.cpp` | `state_`, transition table | `PostEvent`, `RegisterTransition` | lock given up around the action | state changes follow the table; state and recorder agree |
| Application `src/app/main.cpp` | `g_running`, which parts run | `system_init`, main loop, `system_shutdown`, crop and monitor threads, signal handler | partial start-up failures, signal at any time, order of stopping | nothing outlives what it uses; SIGTERM leads to a clean exit |
| Media pipeline `src/media/pipeline/mpp_media_pipeline.cpp` | stage flags, stream thread, sinks | `Init`, `Start`, `Stop`, `RegisterSink`, `UnregisterSink`, `Pause`, `Resume`, dispatch | a failure at every stage, dispatch from a copied list, join | stages nest, frames delivered in order, encoder buffers given back |
| RTSP server `src/network/rtsp_server.cpp` | bounded queue, clients, descriptors | `Start`, `Stop`, `Push`, server thread | overflow policy, slow clients, clients in any protocol order | descriptors owned once, the newest key frame kept, the player gets the encoder's units, `Stop` returns |
| EIS `src/media/eis/eis_processor.cpp` | filter, bias, ring buffer, crop window | `Init`, `Start`, `Stop`, `PushGyroData`, processor thread, `GetCropWindow` | ring cleared beside a push, bias shared without a lock, rounding | samples filtered once and in order, corrected by this run's bias; crop inside the sensor |
| IMU `src/hal/icm20948_hal.cpp` | I2C descriptor, register bank of the device, polling thread | `Init`, `Set*`, `Start`, `Stop`, `ReadData` | transfers fail half-way, bank selected apart from the access | only a configured sensor is polled, in the right bank |
| Ring buffers `src/utils/ring_buffer.{h,cpp}` | indices and slots; GOP slots, index and count | `Push`, `Pop`, `Clear`; `Init`, `WriteGop`, `FlushToFile`, `Clear` | lock-free indices, wrap-around, failing writes | FIFO; a flush writes the newest GOPs in order |
| Logger `src/utils/logger.cpp` | queue, writer thread, file | `Log`, `Flush`, rotation, destructor | overflow, flush beside the writer, end with messages queued | a line taken is lost only with a whole file; none is left queued at the end |
| Configuration `src/utils/config_parser.cpp` | sections | `Load`, `Save`, getters | shared return buffer | defaults on failure |
| Frame utilities `src/media/frame_utils.cpp` | none | `SplitAnnexBNalus` | boundary cases | the player gets the encoder's NAL units |

How they meet: `main` registers the recorder and the RTSP server as sinks of the pipeline;
the pipeline's stream thread calls both for every frame, so `Push` of either must never
wait; the state machine's actions call the recorder from main's thread; the IMU thread
pushes samples into EIS; the crop thread reads EIS and sets the pipeline's VPSS crop.
Everything that is persistent is the recorder's file (and the log). PROJECT.json lists
the hazards at their lines with the properties that cover them.

## 2. Modules

`*Vars` tuples group variables for UNCHANGED. A definition commented "Mutant" is a
plausible bug that a run is shown to detect; no specification uses it.

**RawVideoRecorder** (core). One action per step of `Start`, `Push`, `WriterThread`,
`Stop`; `ctl` is the controller's place, `wpc` the writer's, `spc` the stream thread's.
A critical section is one action when nothing it reads can change under it. The exception
is line 113: the writer's predicate reads `running_`, which `Stop` clears without the
lock, so the writer is in state `deciding` (lock held) between its test and its sleep.
A write may fail whole or torn; fsync, close, rename, open and pthread_create may fail;
power may go at any step. `final` is what the record paths name for the program, `durable`
what they will name after a power loss: `Writeback` copies one to the other at any later
time, since the directory is not synced; unsynced data does not survive. Frames are
`[sess, id]`; `accepted` and `promised` are history.

**DurableRecording**. What `IRecorder` promises, without threads or queues: a recording
appears under its name in one step, with all frames accepted before the close began; it
is only ever lost by a power loss before its name reached the disk. RawVideoRecorder
implements it under the mapping in its `Promise` instance.

**DeviceStateMachine**. The table after `Init`, and `PostEvent` as three actions: look-up
(lock released), the action, the store of the new state. The recorder is what the actions
see of it. `Posters` are the threads that post.

**LeavrApp** extends it with the life of the program: one action per step of
`system_init`, `main` and `system_shutdown`, and the threads of the other parts reduced to
the one thing that must not outlive what it uses. Every part may fail to start, the signal
may come at any step. Today's main loop posts no event of its own; `LoopEvents` is set to
every event of the table, so the rows nobody posts yet are exercised as well.

**MediaPipeline**. Stages sys, vi, vpss, venc0, venc1: `held` is the set of `xxx_started_`
flags, `bound` the bindings. A stage may fail before or after its flag is set. Stop is
`StopClears`, `StopJoins`, `StageStops` from the top, `StopReturns`. The stream thread
goes through select, get_stream with the copied sink list, one `OnVideoFrame` per sink,
release. Clients register, unregister and pause from other threads.

**RtspServer**. The controller, the stream thread's `Push` (check, then lock), and the
rounds of the server thread: accept, handle the known clients, take one frame, send it to
those that play. A request is modelled by what it changes; a response that is not taken
closes the client; a frame that is not taken stops it. Descriptors are numbers with the
kernel's lowest-free rule, so that a descriptor closed twice or kept after close is seen.

**RingBuffer** is the lock-free ring: `Push` is look (`PushFindsRoom`), copy
(`PushStores`), publish (`PushPublishes`); `Pop` likewise; `Clear` is two stores.
**EisProcessor** extends it with the stabiliser's steps: `Start` and `Stop` for the
controller, `PushGyroData` for the driver's thread, the processor thread. A bias is the set
of samples in it and what the sum was divided by, so that a bias that is read too early or
mixes runs is seen; filter and `AngleToPixel` are an arbitrary offset; the window is
followed along one axis with its clamp and the smoothing that is cut to an integer.
**GyroPath** puts the driver beside it: `Init` transfer by transfer with the bank that the
device has selected, any of which may fail, the polling thread, and the order of
`start_eis` and `system_shutdown`. The same objects are started twice, which `main` does not
do, so that what one run leaves behind (`g_imu_available`, say, is never cleared) is there
for the next.

**Logger**. `Log` and `Flush` in any thread, the writer with its wait (a state `deciding`
as in the recorder) and its rotation in three steps, `Init`, the destructor. Lines are
numbers; `oldLog` is what `leavr.log.old` holds. A line that finds the queue full is only in
`logged`: it goes to stderr.

**PreRecordBuffer**. One action per operation, since each holds the lock; `FlushToFile(n)`
is a flush whose n-th write is the last that succeeds. The test of `is_valid` is
`OnlyValid`, which numbers the valid places; that it never leaves one out is part of the
proof.

**FrameUtils** and **RtpSender**. The loops of the code, an action per round:
`SplitAnnexBNalus` over the bytes of a frame (`Splits`), then `BroadcastFrame` and
`SendNalu` for one client, a packet at a time (`SendRtp`), whole units and FU-A fragments
under one sequence number that wraps around. The client changes between UDP and TCP with
`Setup`. A packet may be refused whole (`SendRtpFails`), or TCP may take a part of it
(`SendRtpTears`): the connection stays open, and the player reads what follows on it, the
reply to PLAY first, as the rest of the packet (`cut`, `FillsCut`). `stage` is where
`BroadcastFrame` is, `nalus` what still has to go out, `offset` how far into the first of
them; `first` in the code is `offset = 1`. The splitter has no thread beside it, so its
rounds interleave with nothing; they are steps so that the loop can be reasoned about.
Encoder, network and player are external definitions. A frame comes with the units it was
made of and the places of their start codes, which only the properties and `Broadcast`'s
history look at; the sender gets the bytes. `sent`, `missing`, `blind` and `torn` are history.

**RawVideoRecorderProofs**, **GyroPathProofs**, **LeavrAppProofs**, **LoggerProofs**,
**MediaPipelineProofs**, **RtspServerProofs**, **RtpSenderProofs** and
**PreRecordBufferProofs** hold the TLAPS proofs. **MC\*** modules only add value sets
(and one symmetry) for TLC. LeavrApp extends DeviceStateMachine; GyroPath extends
EisProcessor extends RingBuffer; RtpSender extends FrameUtils; RawVideoRecorder
instantiates DurableRecording.

## 3. Runs

| Run | Instance | Result | What it shows |
|---|---|---|---|
| Recorder | 2 paths, queue 2, 2 sessions, 3 frames, 1 power loss | 204k states, holds | conservation, complete files, stale frames, descriptor and thread life, refinement of DurableRecording; every queued frame is taken; Stop returns if its signal is not lost |
| RecorderStopHangs | 1 session, 1 frame | **violated** | finding 1 |
| DeviceRace | 2 posters | **violated** | finding 2 |
| LeavrApp | all events | 8k, holds | agreement of state and recorder, order of start and stop, clean exit, SIGTERM |
| MediaPipeline | 2 sinks, 2 starts, 3 frames, 3 client calls | 217k, holds | nesting, delivery, late frames, release, Stop |
| RtspSafety | 2 peers, 2 clients, queue 2, 3 frames, 1 session | 631k (up to symmetry), holds | descriptors, newest key frame, order |
| RtspRestarts | 2 peers, 1 client, queue 2, 3 frames, 2 sessions | 153k, holds | stop and restart, straggling frame, slow clients, Stop |
| GyroPath | ring of 4, calibration of 2, 2 starts, 9 samples, sensor 10 and window 6 | 90k, holds | order of samples, bias of this run, window on the sensor, sensor ready when polled, samples filtered |
| Logger | queue 2, files of 2 lines, 7 lines | 39k, holds | what the files hold of the lines taken, when the exit leaves none queued, lines taken, exit returns |
| PreRecordBuffer | 4 slots, 7 GOPs, 3 other calls | 19k, holds | a flush writes the newest GOPs, in order, none twice |
| RtpSender | payload 4, numbers modulo 3, 2 frames of up to 2 units, 3 losses | 2758k, holds | the player rebuilds the encoder's units, over UDP and TCP, as long as TCP takes packets whole or not at all |
| RtpTornStream | payload 4, numbers modulo 8, 2 frames, no losses | **violated** | finding 3 |

Why the bounds suffice: queues of 2 reach full, empty and one in between, and frames
outnumber them, so every overflow happens with frames before and behind it; two sessions
are what one straggling Push, one reused path or one leftover frame needs; one power loss
can fall at every step, and the recorder records again after it (safety is
proved for all bounds besides); two sinks and two peers give one that is affected and one that must
not be; the pipeline's two starts cover a restart after a failure at each stage. A ring of
4 holds three samples and fills up; nine samples are two calibrations and enough for one
run to wrap around; two starts show what one run leaves for the next. Offsets of 0 and
beyond either edge drive the window as far to either side as the smoothing, which cuts
off, lets it go. Seven lines are three rotations, the second and third of which replace a file.
Seven GOPs wrap four slots whatever part of them counts. The units of RtpSender have one
byte, just a packet's length, two full fragments, and three with zeros at the cuts;
its numbers wrap around within a frame, and three losses are the fewest after which
the player cannot tell that packets are missing. RtpTornStream needs no loss, and numbers
that do not repeat within its packets. History counters are bounded by the constants named
`Max...` in the guards, nowhere else.

### Findings

1. **Stop of the recorder may never return** (`RecorderStopHangs`). `Stop` clears
   `running_` and signals without `lock_` (lines 134-135). If both fall between the
   writer's test of the predicate and its wait (line 113), the wakeup is lost, no frame
   comes any more and the join waits for ever. The counterexample: start, the writer tests
   the empty queue, Stop clears and signals, the writer sleeps. Recorder shows
   that this window is the only way for Stop not to return.
2. **PostEvent is not atomic** (`DeviceRace`). The target looked up before the action is
   stored after it, over whatever another thread posted meanwhile, although
   `state_machine.h:30` calls it callable from any thread. The program today posts from
   main only; then nothing comes between.
3. **A torn packet spoils the stream over TCP** (`RtpTornStream`). A short send counts as a
   refusal (`SendAllNonBlocking`, `rtsp_server.cpp:49-52`), though a part of the interleaved
   packet is in the stream; `BroadcastFrame` only clears `playing` and the connection stays
   open. When the player asks for PLAY again, the reply lies inside the packet, and the
   player has a unit that the encoder did not produce, although
   `docs/prototype_status.md:16` lists TCP beside UDP.

Three more disagreements can be read off the code. The models follow the code, and no run
states the other side:

- BATTERY_LOW does not stop the recording, unlike `plans/software_architecture.md:375`
  ("强制停止保存", forced stop and save): the row has no action. The state leaves RECORDING and
  the recorder runs on until shutdown, which stops it whatever the state (`ExitIsClean`).
- A full log queue refuses the newest line (`Log`), where the comment at `logger.cpp:118`
  says that it gives up the oldest ("队列满时丢弃最旧的"): the line just logged goes to stderr
  and the queue stays as it is.
- Lines are lost when the program ends. The drain (`logger.cpp:147-158`, "写出剩余日志", write
  the lines that are left) is only reached from the wait. A writer that has not come to it
  when the destructor clears `running_`, because it writes a line or rotates, leaves its
  loop at the condition, and what is queued is in no file (`WriterLoops`).

### Properties worth a remark

- `NothingLostInSession` and `SavedFilesAreComplete` hold in spite of stragglers, torn
  writes and power loss: the write-failure flag overrides fsync's result, and the rename
  comes after fsync.
- `StaleFrameOnlyAtHead` and RTSP's `StaleAtMostOne` bound what the unlocked check in
  `Push` can do: one frame of an earlier session, since there is one stream thread.
- `LoopHasRecorder` needs its exception `stopFailed`: a `StopRecording` that fails leaves
  RECORDING shown with the recorder off.
- `AtMostOneLateFrame`: after `UnregisterSink` returns, the sink may be called for one
  more frame. A client must keep it alive that long.
- `NothingOutlivesSession` is about the writer thread, `fd_` and `running_`. A late Push, or
  a pthread_create that failed, may leave frames in the queue until the next Start clears
  it, and a failed fsync leaks the descriptor that `fd_` forgets.
- `PartsOutliveTheirUsers` is about the gyro's and the crop window's threads. The stream
  thread does call into a recorder or server that was stopped before it: that is what
  `StaleFrameOnlyAtHead` and `StaleAtMostOne` are for.
- `NewestKeyIsKept` needs a queue of at least two frames (it has 32). It is about the key
  frame alone: a full queue gives up its oldest other frame, which may be the one right
  behind the newest key frame, and those that refer to it stay queued. No document says
  what a client that falls behind can decode.
- `StoppedHoldsNothing` is about thread, descriptors and clients: frames pushed while a
  Start fails stay in the queue until the next Stop, and may be sent in the next session.
- `ReceiverRebuildsUnits` excludes a player whose TCP stream was torn (finding 3) and one
  that missed as many packets in a row as there are numbers.
- `SamplesInOrder` is what the order of `system_shutdown` buys: if the driver's thread
  could outlive `g_eis.Stop`, its Push would publish into the ring that `Clear` empties.
- `PollsReadySensor` says nothing of the descriptor that a failed bank select or WHO_AM_I
  leaves open; main calls `Init` once.
- `QuietExitDrains` says when no line is lost at the end; without its condition TLC finds
  the loss. `system_shutdown` calls `LOG_FLUSH` before, but `Flush` only wakes the writer.
- `ExitReturnsOutsideWindow` excludes the window of finding 1, which the logger has too.
- `KeepsNewestLines` is about the lines taken from the queue. It says nothing of a line
  that a full queue refused and of those still queued at the end,
  and excludes a rotation whose `fopen` fails: from then on lines are taken and thrown
  away.

## 4. Fairness

Only threads of the program are fair. Recorder: WF of the writer, of a Push that has
copied its frame, and of the controller inside a call; there is none for a spurious
wakeup, for write-back or for callers. App: WF of main's own steps and of leaving what a
thread entered; SF of the two joins, since the joined thread tests its flag between
rounds. Pipeline: WF of the controller inside a call and of the stream thread, sinks
return (both sinks never block). RTSP: the send of a frame returns, that it succeeds is
not relied upon (sockets are non-blocking, line 49). GyroPath: WF of the processor thread;
nothing is asked of the sensor or of main. Logger: WF of the writer, and of the destructor
once it has begun; a spurious wakeup is not fair. No caller has to call anything.

## 5. Proofs

A proof holds for every value of the constants, so for every length of a queue, number of
clients, sessions, frames and so on. Each proof module defines an inductive invariant,
named below, with one lemma per part and under it one step per action that can disturb
the part; the properties of the runs follow from it. None of those properties is
inductive alone. PROJECT.json lists the theorems with the properties they state.

### Recorder

`RawVideoRecorderProofs` proves `TypeOK`, `SleepsOnlyOnEmptyQueue`, `NothingLostInSession`,
`SavedFilesAreComplete`, `StaleFrameOnlyAtHead`, `NothingOutlivesSession`,
`StopOkMeansSaved` and the refinement `KeepsPromise`. (`SleepsOnlyOnEmptyQueue` is proved
only; in a run `QueuedIsTaken` says more.) Assumptions: `QueueAssumption` (capacity at
least 1), `BoundAssumption` (bounds are naturals), `SentinelAssumption` (a torn write is no
frame), `NoFileAssumption` (no file is no file; only the refinement needs it, to tell a
name that appeared from one that was there). `IInv` adds
- `Phases`: the flags, the descriptor and the writer that go with each place of the
  controller;
- `Accounting`: accepted = file, then hand, then queue, while no write failed (and what is
  in the queue when Start has cleared it);
- `Promises`: the frames owed since Stop cleared `recording_` are a prefix of the accepted
  ones, then, when the writer has ended and the queue is empty, of the file, then of a
  synced file;
- `DiskComplete`: names on the disk, not only the visible ones, are of complete files;
- `Stale`: while a straggling Push holds an old frame nothing was accepted.

`PromiseKept` is the refinement: the initial states map to the initial state of
DurableRecording, and `StepRefines` maps each step to its `Begin`, `Accept`, `Close`, `Save`,
`GiveUp`, `Store` or `PowerLoss`, or to a stutter. It needs `Origins` beside `IInv`: a recording begins with at most the one frame of
a straggling Push, and the file about to be renamed holds accepted frames only.

`StopWakesWriter` is the safety part of `StopReturnsOutsideWindow`: a writer that is awake
when Stop signals, or is woken by it, stays awake until it is joined. So the order of steps
in finding 1 is the only one that loses the wakeup, and what TLC adds is fairness.

### Gyro path

`GyroPathProofs` proves all safety invariants of GyroPath (`TypeOK`,
`CropOnSensor`, `PollsReadySensor`, `SamplesInOrder`, `BiasIsFinished`).
Assumptions: `CapacityAssumption` (at least 2), `CalibrationAssumption` (at least 1),
`ExtentAssumption` (what `EisProcessor::Init` accepts), `OffsetAssumption` (integers) and
`GyroBounds`. The ring's `% Capacity` needs no power of two; the code's mask does.
- `Types` adds that the count is below `kCalibrationSamples` until calibrated, and that Push
  holds a sample while it is under way.
- `Driver` and `Phases` say which threads and which flags go with each place of the
  controller: the ring is cleared only where neither thread exists.
- `Pushing` and `Popping` say what a thread still knows of its look at the other's index.
  `Matching` gives each slot between tail and head its accepted sample; a push adds the
  place at head (`SizeGrows`), a pop shifts the places by one (`SizeShrinks`), and the slot
  being filled is none of them (`HeadIsFree`). `OrderImplies` turns places into sequences.
- `Calibration` and `Apart` follow the bias: it is of the samples counted, none of which is
  accepted, and it is final before the first sample is. That the processor thread sees it
  final is `Matching` again: what it filters was accepted.

### Application

`LeavrAppProofs` proves `LoopHasRecorder`, `PartsOutliveTheirUsers` and `ExitIsClean` for
every set of events the loop may post, and that with `main` as the only poster every change
of state is a row of the table (`OnePosterFollowsTable`): finding 2 needs the second
poster. Assumptions: `MainAssumption`, `PostedAssumption`, `EventsAssumption`. `AppInv` is
- `Handling`: main is inside `PostEvent` at four places; `Owed` is what such a call still
  has to make true (until it stores the new state, the row it found fits the old one, and
  an action that succeeded has left the recorder as the new state will show it);
- `Order`: which parts are up at each place of main;
- `Threads`: who is inside a part, and that the part is up.

### Logger

`LoggerProofs` proves `KeepsNewestLines` and `QuietExitDrains`. Assumptions:
`LoggerAssumption` (a queue of at least one line), `LoggerBound`. The property speaks of a
suffix; `Newest` says the same, for files, hand and queue together, with the lines that
disappeared as a witness, which each step keeps, or extends by the file a rotation replaces. `QuietWriter` follows a writer
that the destructor found waiting: it can only drain the queue and end.

`Wakeups` is an invariant of the waits: the writer never sleeps on a queued line
(`NoSleepOnLines`), and the one the destructor joins is asleep only if `running_` was
cleared between its test and its wait (`JoinedWriterIsAwake`). These are the safety parts of
`LinesAreTaken` and `ExitReturnsOutsideWindow`.

### Media pipeline

`MediaPipelineProofs` proves all safety invariants of MediaPipeline for every set of
sinks. Assumption: `MediaBounds` (bounds are naturals). `MediaInv` adds
- `Phases`: stages and stream thread at each place of the controller; a thread means that
  all stages are up, since Stop joins it before the first goes down;
- `Lists` and `Round`: no sink is in `sinks_` or in the thread's copy twice, and only a
  thread that delivers holds a frame;
- `Late`: a sink that is registered or still in the copy was not called late so far;
- `Logs`: the last frame of a channel in a sink's log is the one before `Due`, the frame
  it is to get next: the one in hand while it waits for it, else the channel's newest.

### RTSP server

`RtspServerProofs` proves `TypeOK`, `FdsOwnedOnce`, `StoppedHoldsNothing`,
`NewestKeyIsKept`, `StaleAtMostOne` and the action property `SentInOrder`. Assumption:
`RtspAssumption` (a client, a queue of at least two frames). `RtspInv` adds
- `Descriptors`: `Owned` gives every open descriptor one owner in one role. That one is
  free whenever the server asks for it is counted (`SlotsCounted`, `TwoSlotsEach`): the
  listening socket and two for each client are all there are. That the kernel gives the
  lowest is `LeastOf`, from the library's theorem on well-founded relations;
- `Phases` and `Places`: what goes with the controller and with the round of the thread;
- `Order`: the queue is in the order of Push, and every number sent or taken is `Passed`,
  older than all that wait;
- `Keys`: the newest key frame is queued as a key frame, or was taken. `RemoveLeaves`
  and `MakeRoomLeaves` say what is left when a full queue gives up a frame;
- `Sessions`: only the copy that Push held during a Stop is queued behind it.

### Pre-record buffer

`PreRecordBufferProofs` proves `FlushWritesNewest` for every number of slots. Assumptions:
`SlotsAssumption` (`max_slots_` of a new object is within `kMaxGopSlots`), `GopBounds`,
`MarksAssumption` (the marks for no GOP and for a torn one are no GOPs). `BufferInv` says
that `gopCount` is the number of GOPs since the buffer was emptied up to `maxSlots`, and
(`Holding`) that each slot which counts holds its GOP. `Spot` is `SlotOf` without the
remainder; a write leaves the spots where they are (`SpotsStay`) or moves each to the
place before (`SpotsShift`). So no slot that counts is invalid, and `OnlyValid` leaves
none out (`AllAreValid`).

### RTP

`RtpSenderProofs` proves `ReceiverRebuildsUnits` and that the splitter finds exactly the
units of the frame (`SplitFindsUnits`), for frames of any length. Of the player nothing is
proved once TCP took a part of a packet (`torn`). Assumptions:
`EncoderAssumption` (what the H.264 standard says of an Annex-B stream: units behind start
codes of three or four bytes, none of which contains a start code or ends in a zero; and no
unit of the encoder's has the type of a fragment), `PayloadAssumption` (a packet has room
for more than the two bytes of a fragment's header) and `SenderBounds`. Since each round
of a loop is a step, its invariant takes the place of an induction over bytes. `Inv` is
- `SplitInOrder`: the units found are the frame's first and the splitter is at the next
  start code. `CodeFound` and `NoCodeInUnit` say where `StartCodeSize` finds one: a code
  that began in a unit would lie in it, or its zeros would be the unit's last bytes;
- `SendInOrder`: what still has to go out are the last of the units sent, and the first
  of them may be gone up to `offset`;
- `NumbersAgree`: the client's number is as far ahead of the player's as packets are
  missing, modulo `SeqLimit`, as long as no packet was torn; so a gap shows unless that
  many are missing in a row, which is what `blind` excludes;
- `PartIsPrefix`: what the player holds of a unit went out of the first of `nalus`. With
  `FragmentRead` (the two header bytes give back the unit's first byte and the marks) a
  packet adds nothing or that unit (`Reception`);
- `PlayerInOrder` and `PlayerComplete`: the player's units lie, in order, among those
  behind the sender; without losses they are all of those.

`LoopsEnd` gives the measures of the loops: a round of the splitter moves on in the frame
and stays in it, and a packet leaves fewer units, or less of the same unit.

### Only model-checked

- The state machine outside of `main`: its runs are counterexamples. What holds of it with
  `main` as the only poster is proved with the application.
- All liveness (`QueuedIsTaken`, `StopReturnsOutsideWindow`, `SignalLeadsToExit`,
  `StreamsAreReleased`, `StopTerminates`, `SlowClientsDoNotStall`, `SamplesAreFiltered`,
  `LinesAreTaken`, `ExitReturnsOutsideWindow`), and what depends on ENABLED: fairness is
  beyond the provers. For the waits of the recorder and of the logger the steps are proved
  (`NoSleepOnFrames`, `StopWakesWriter`, `NoSleepOnLines`, `JoinedWriterIsAwake`), and only
  that a thread which can go on does is left to TLC.

## 6. Not modelled

- Encoders and VPSS beyond their being up and bound; pipeline statistics and RequestIdr.
- The text of RTSP requests, responses and SDP; RTP header fields other than the number
  and the marker; the four bytes of the framing over TCP. A torn packet is cut in its
  payload, and a player that reads on behind it is followed to the next packet it finds.
- The recorder's counters of bytes and drops; the descriptor a failed fsync leaks (the
  model forgets it as the code does). Two recordings in the same second share a path; the
  model lets sessions reuse a path and the later file wins.
- The arithmetic of the filter and `AngleToPixel` (whose conversion to int is taken to
  be in range), register values and units of the IMU, `Calibrate` of both (no callers),
  `SetStrength`, `SelfTest`, `GetDebugInfo`, and the setters of the IMU outside `Init`.
- The level filter and formatting of the log, and the buffer of stdio: `Flush` also calls
  `fflush` on a `file_` that the writer may just be replacing.
- Destruction of the global objects after main, where destructors that log may meet a
  Logger that is already gone.
- The configuration parser: sequential, its state is shared with nobody, and main falls
  back to defaults. The monitor thread, which only reads.

## 7. Open ends

1. A second client in RtpSender.
2. State machine: the comment "任意状态到 USB" (any state to USB) against the table.

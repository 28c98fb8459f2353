----------------------------- MODULE MediaPipeline -----------------------------
(***************************************************************************)
(* The media pipeline (src/src/media/pipeline/mpp_media_pipeline.cpp).     *)
(*                                                                         *)
(* The controller brings the hardware up stage by stage: system, video     *)
(* input, VPSS, main and sub encoder; any stage may fail, and Stop takes   *)
(* down whatever is up, in the reverse order.  The stream thread takes     *)
(* encoded frames and hands each to the sinks registered at that moment:   *)
(* it copies the list under sinks_lock_ and calls the sinks without it.    *)
(* Clients register and unregister sinks, and pause and resume, from other *)
(* threads.                                                                *)
(*                                                                         *)
(* Frames are known by their channel and their sequence number.  A stage   *)
(* is "held" when its xxx_started_ flag is set.                            *)
(***************************************************************************)
EXTENDS Naturals, SequencesExt

CONSTANTS
    Sinks,      \* the sinks clients may register
    MaxStarts,  \* bound: calls of Start that begin to start
    MaxFrames,  \* bound: frames the encoders produce
    MaxToggles  \* bound: calls of Pause, RegisterSink and UnregisterSink

ASSUME MediaBounds == MaxStarts \in Nat /\ MaxFrames \in Nat /\ MaxToggles \in Nat

Stages == <<"sys", "vi", "vpss", "venc0", "venc1">>
Channels == {0, 1}
Encoder == [ch \in Channels |-> IF ch = 0 THEN "venc0" ELSE "venc1"]

VARIABLES
    ctl,          \* the controller: "idle", "starting", "joining" or "stopping"
    initialized,  \* initialized_
    running,      \* running_
    paused,       \* paused_
    held,         \* stages whose flag is set
    bound,        \* stages bound to the one before them
    spc,          \* the stream thread; "none" when stream_thread_ is 0
    todo,         \* channels select reported, still to dispatch
    inHand,       \* the frame between get_stream and release_stream, or none
    snap,         \* the sinks it is still to be given to
    sequence,     \* the next sequence number of each channel
    ready,        \* channels whose encoder has a frame
    sinks,        \* sinks_
    members,      \* history: the sinks their clients take for registered
    late,         \* history: frames a sink got since it was unregistered
    log,          \* history: frames a sink got since it was registered, this run
    starts, produced, toggles  \* history: for the bounds

lifeVars   == <<initialized, running, paused, starts>>
stageVars  == <<held, bound>>
ctlVars    == <<ctl, lifeVars, stageVars>>
roundVars  == <<todo, inHand, snap, sequence>>
threadVars == <<spc, roundVars>>
sinkVars   == <<sinks, members, late, log>>
encVars    == <<ready, produced>>
dataVars   == <<sinkVars, encVars, toggles>>
vars == <<ctlVars, threadVars, dataVars>>

NoFrame == [ch |-> 0, seq |-> 0, held |-> FALSE]

Init ==
    /\ ctl = "idle" /\ initialized = FALSE /\ running = FALSE /\ paused = FALSE
    /\ held = {} /\ bound = {}
    /\ spc = "none" /\ todo = <<>> /\ inHand = NoFrame /\ snap = <<>>
    /\ sequence = [ch \in Channels |-> 0]
    /\ ready = {} /\ produced = 0
    /\ sinks = <<>> /\ members = {}
    /\ late = [s \in Sinks |-> 0] /\ log = [s \in Sinks |-> <<>>]
    /\ starts = 0 /\ toggles = 0

-----------------------------------------------------------------------------
(* Init and Start, in the controller. *)

\* Init of the interface: refused while running.
Configure ==
    /\ ctl = "idle" /\ ~running
    /\ initialized' = TRUE
    /\ UNCHANGED <<ctl, running, paused, stageVars, threadVars, dataVars, starts>>

StartBegins ==
    /\ ctl = "idle" /\ initialized /\ ~running
    /\ starts < MaxStarts
    /\ starts' = starts + 1
    /\ ctl' = "starting"
    /\ UNCHANGED <<initialized, running, paused, stageVars, threadVars, dataVars>>

\* The stage that Start comes to next: those before it are held.
Comes(i) == ctl = "starting" /\ held = {Stages[j] : j \in 1..(i - 1)}

\* VPSS and the encoders are bound to their source once they are up.
StageStarts(i) ==
    /\ Comes(i)
    /\ held' = held \cup {Stages[i]}
    /\ bound' = IF i <= 2 THEN bound ELSE bound \cup {Stages[i]}
    /\ UNCHANGED <<ctl, lifeVars, threadVars, dataVars>>

\* The stage does not come up, or it does and cannot be bound.  running_ is false, and
\* there is no thread: Stop is left with the stages.
StageFails(i) ==
    /\ Comes(i)
    /\ held' \in {held, held \cup IF i <= 2 THEN {} ELSE {Stages[i]}}
    /\ ctl' = "joining"
    /\ UNCHANGED <<lifeVars, bound, threadVars, dataVars>>

AllHeld == held = Range(Stages)

StartCreates ==
    /\ ctl = "starting" /\ AllHeld
    /\ running' = TRUE /\ paused' = FALSE
    /\ spc' = "loop"
    /\ sequence' = [ch \in Channels |-> 0] /\ log' = [s \in Sinks |-> <<>>]
    /\ ctl' = "idle"
    /\ UNCHANGED <<initialized, stageVars, todo, inHand, snap, encVars, sinks, members, late,
                   starts, toggles>>

\* pthread_create fails, and running_ is cleared again.
StartCreateFails ==
    /\ ctl = "starting" /\ AllHeld
    /\ paused' = FALSE
    /\ ctl' = "joining"
    /\ UNCHANGED <<initialized, running, stageVars, threadVars, dataVars, starts>>

-----------------------------------------------------------------------------
(* Stop, in the controller. *)

\* Mutant: the thread is joined before it is told to end.
StopForgets ==
    /\ ctl = "idle"
    /\ ctl' = "joining"
    /\ UNCHANGED <<lifeVars, stageVars, threadVars, dataVars>>

StopClears ==
    /\ ctl = "idle"
    /\ running' = FALSE
    /\ ctl' = "joining"
    /\ UNCHANGED <<initialized, paused, stageVars, threadVars, dataVars, starts>>

\* Mutant: the encoders are taken down under the stream thread.
StopDetaches ==
    /\ ctl = "joining"
    /\ ctl' = "stopping"
    /\ UNCHANGED <<lifeVars, stageVars, threadVars, dataVars>>

StopJoins ==
    /\ ctl = "joining" /\ spc \in {"none", "gone"}
    /\ spc' = "none"
    /\ ctl' = "stopping"
    /\ UNCHANGED <<lifeVars, stageVars, roundVars, dataVars>>

\* Mutants: a stage is stopped while it is bound; from the input to the encoders.
StillBound(i) == bound
Lowest(i) == \A j \in 1..(i - 1) : Stages[j] \notin held

Unbound(i) == bound \ {Stages[i]}
Topmost(i) == \A j \in (i + 1)..Len(Stages) : Stages[j] \notin held

\* Stages go in the reverse order, each unbound first.
StageStops(i) ==
    /\ ctl = "stopping" /\ Stages[i] \in held /\ Topmost(i)
    /\ held' = held \ {Stages[i]} /\ bound' = Unbound(i)
    /\ ready' = {ch \in ready : Encoder[ch] # Stages[i]}
    /\ UNCHANGED <<ctl, lifeVars, threadVars, sinkVars, produced, toggles>>

StopReturns ==
    /\ ctl = "stopping" /\ held = {}
    /\ paused' = FALSE
    /\ ctl' = "idle"
    /\ UNCHANGED <<initialized, running, stageVars, threadVars, dataVars, starts>>

-----------------------------------------------------------------------------
(* StreamThread and DispatchStream. *)

\* The hardware encodes: the encoder and everything before it is up and bound.
EncoderProduces(ch) ==
    /\ Encoder[ch] \in bound /\ "vpss" \in bound /\ ch \notin ready
    /\ produced < MaxFrames
    /\ ready' = ready \cup {ch} /\ produced' = produced + 1
    /\ UNCHANGED <<ctlVars, threadVars, sinkVars, toggles>>

\* One round: running_, paused_ and select.  A paused or timed-out round changes nothing.
\* The main stream is dispatched first, and running_ is not looked at in between.
Selects ==
    /\ spc = "loop" /\ running /\ ~paused /\ ready # {}
    /\ todo' \in {<<0>>, <<1>>, <<0, 1>>} /\ Range(todo') = ready
    /\ spc' = "dispatch"
    /\ UNCHANGED <<ctlVars, inHand, snap, sequence, dataVars>>

StreamEnds ==
    /\ spc = "loop" /\ ~running
    /\ spc' = "gone"
    /\ UNCHANGED <<ctlVars, roundVars, dataVars>>

\* The query or get_stream fails, or there is nothing to get after all.
NothingToGet ==
    /\ spc = "dispatch" /\ todo # <<>>
    /\ todo' = Tail(todo)
    /\ UNCHANGED <<ctlVars, spc, inHand, snap, sequence, dataVars>>

\* The frame is got and numbered, and the list of sinks copied under sinks_lock_.
GetsStream ==
    /\ spc = "dispatch" /\ todo # <<>> /\ Head(todo) \in ready
    /\ LET ch == Head(todo) IN
         /\ ready' = ready \ {ch}
         /\ inHand' = [ch |-> ch, seq |-> sequence[ch], held |-> TRUE]
         /\ sequence' = [sequence EXCEPT ![ch] = @ + 1]
    /\ snap' = sinks
    /\ todo' = Tail(todo)
    /\ spc' = "deliver"
    /\ UNCHANGED <<ctlVars, sinkVars, produced, toggles>>

\* OnVideoFrame of one sink, which takes as long as the sink does.
Delivers ==
    /\ spc = "deliver" /\ snap # <<>>
    /\ LET s == Head(snap) IN
         /\ log' = [log EXCEPT ![s] = Append(@, [ch |-> inHand.ch, seq |-> inHand.seq])]
         /\ late' = IF s \in members THEN late ELSE [late EXCEPT ![s] = @ + 1]
    /\ snap' = Tail(snap)
    /\ UNCHANGED <<ctlVars, spc, todo, inHand, sequence, encVars, sinks, members, toggles>>

\* Mutant: release_stream is forgotten.
KeepsStream ==
    /\ spc = "deliver" /\ snap = <<>>
    /\ spc' = "dispatch"
    /\ UNCHANGED <<ctlVars, roundVars, dataVars>>

ReleasesStream ==
    /\ spc = "deliver" /\ snap = <<>>
    /\ inHand' = NoFrame
    /\ spc' = "dispatch"
    /\ UNCHANGED <<ctlVars, todo, snap, sequence, dataVars>>

RoundEnds ==
    /\ spc = "dispatch" /\ todo = <<>>
    /\ spc' = "loop"
    /\ UNCHANGED <<ctlVars, roundVars, dataVars>>

-----------------------------------------------------------------------------
(* The clients, in threads of their own. *)

CanToggle == toggles < MaxToggles /\ toggles' = toggles + 1

\* Mutants: the list is not searched first; std::remove without erase.
WithTwice(s) == Append(sinks, s)
StillWith(s) == sinks

\* RegisterSink looks first, so that the list never holds a sink twice: to remove all
\* that equal s is to remove one.
With(s) == IF s \in Range(sinks) THEN sinks ELSE Append(sinks, s)
Without(s) ==
    IF s \notin Range(sinks) THEN sinks
    ELSE RemoveAt(sinks, CHOOSE i \in DOMAIN sinks : sinks[i] = s)

\* A sink that is in the list already stays where it is.
RegisterSink(s) ==
    /\ CanToggle
    /\ sinks' = With(s)
    /\ members' = members \cup {s}
    /\ IF s \in members THEN UNCHANGED <<late, log>>
                        ELSE late' = [late EXCEPT ![s] = 0] /\ log' = [log EXCEPT ![s] = <<>>]
    /\ UNCHANGED <<ctl, lifeVars, stageVars, threadVars, encVars>>

\* It returns at once, whether or not the stream thread is inside the sink.
UnregisterSink(s) ==
    /\ CanToggle
    /\ sinks' = Without(s)
    /\ members' = members \ {s} /\ late' = [late EXCEPT ![s] = 0]
    /\ UNCHANGED <<ctlVars, threadVars, encVars, log>>

Pause ==
    /\ ~paused /\ paused' = TRUE
    /\ CanToggle
    /\ UNCHANGED <<ctl, initialized, running, stageVars, threadVars, encVars, sinkVars,
                   starts>>

Resume ==
    /\ paused /\ paused' = FALSE
    /\ UNCHANGED <<ctl, initialized, running, stageVars, threadVars, dataVars, starts>>

-----------------------------------------------------------------------------
Start ==
    \/ StartBegins
    \/ \E i \in 1..Len(Stages) : StageStarts(i) \/ StageFails(i)
    \/ StartCreates \/ StartCreateFails

Stop == StopClears \/ StopJoins \/ (\E i \in 1..Len(Stages) : StageStops(i)) \/ StopReturns

DispatchStream == NothingToGet \/ GetsStream \/ Delivers \/ ReleasesStream

StreamThread == Selects \/ StreamEnds \/ DispatchStream \/ RoundEnds

Client == (\E s \in Sinks : RegisterSink(s) \/ UnregisterSink(s)) \/ Pause \/ Resume

Next ==
    \/ Configure \/ Start \/ Stop \/ StreamThread \/ Client
    \/ \E ch \in Channels : EncoderProduces(ch)

\* The threads run; every sink returns from OnVideoFrame.  Nobody has to call anything.
Fairness == WF_vars(ctl # "idle" /\ (Start \/ Stop)) /\ WF_vars(StreamThread)

Spec == Init /\ [][Next]_vars /\ Fairness

-----------------------------------------------------------------------------
Frame == [ch : Channels, seq : Nat]

\* Every variable is of its kind, and only a stage that is up is bound.
TypeOK ==
    /\ ctl \in {"idle", "starting", "joining", "stopping"}
    /\ initialized \in BOOLEAN /\ running \in BOOLEAN /\ paused \in BOOLEAN
    /\ bound \subseteq held /\ held \subseteq Range(Stages)
    /\ spc \in {"none", "loop", "dispatch", "deliver", "gone"}
    /\ todo \in Seq(Channels) /\ snap \in Seq(Sinks)
    /\ inHand \in [ch : Channels, seq : Nat, held : BOOLEAN]
    /\ sequence \in [Channels -> Nat] /\ ready \subseteq Channels
    /\ sinks \in Seq(Sinks) /\ members \subseteq Sinks
    /\ late \in [Sinks -> Nat] /\ log \in [Sinks -> Seq(Frame)]
    /\ {starts, produced, toggles} \subseteq Nat

\* No stage is ever up on top of one that is down, whichever stage fails to start and
\* wherever Stop has got to: "按逆序释放" (docs/prototype_status.md:12).  Between calls the
\* pipeline is up with its thread and all its stages, or holds nothing at all; a Start
\* that failed half-way is no exception.
StagesNest ==
    /\ \A i, j \in 1..Len(Stages) : i < j /\ Stages[j] \in held => Stages[i] \in held
    /\ ctl = "idle" => IF running THEN AllHeld /\ spc \notin {"none", "gone"}
                       ELSE held = {} /\ spc = "none"

\* While the stream thread may touch an encoder, or holds one of its frames, both
\* encoders are up (they share one thread, and Stop joins it first).
ThreadOnLiveEncoders ==
    spc \notin {"none", "gone"} \/ inHand.held => {"venc0", "venc1"} \subseteq held

\* As long as it stays registered, a sink gets the frames of a channel in order, none
\* twice and none left out, from a run of the pipeline that started or not before it
\* registered.
InOrder(l, ch) ==
    \A i, j \in DOMAIN l :
        /\ i < j /\ l[i].ch = ch /\ l[j].ch = ch
        /\ \A k \in (i + 1)..(j - 1) : l[k].ch # ch
        => l[j].seq = l[i].seq + 1
SinksSeeEveryFrame == \A s \in Sinks, ch \in Channels : InOrder(log[s], ch)

\* After UnregisterSink returned a sink may still be called, but only for the one frame
\* the stream thread was dispatching: a client must keep the sink alive for that long.
AtMostOneLateFrame == \A s \in Sinks : late[s] <= 1

\* Every frame got from an encoder is given back to it, whatever the sinks and Stop do
\* in the meantime (the encoder's ring is only drained by release_stream).
StreamsAreReleased == inHand.held ~> ~inHand.held

\* Stop, called or run by a failing Start, returns; it waits for no more than the
\* frames of one round to pass through the sinks.
StopTerminates == ctl \in {"joining", "stopping"} ~> ctl = "idle"
=============================================================================

--------------------------- MODULE DurableRecording ---------------------------
(***************************************************************************)
(* What a recorder promises its caller (IRecorder, and the comment at      *)
(* src/src/storage/raw_video_recorder.h:9-12), free of threads, queues     *)
(* and descriptors.  A recording appears under its name in one step, with  *)
(* every frame accepted before the close began and possibly some later     *)
(* ones; it disappears only by a power loss that its name did not reach    *)
(* the disk before.                                                        *)
(***************************************************************************)
EXTENDS Naturals, SequencesExt

CONSTANTS Paths, NoFile

VARIABLES
    phase,     \* "idle", "recording" or "closing"
    log,       \* the frames accepted for this recording
    promised,  \* the frames a successful close must have saved
    library,   \* what each path names: NoFile or a sequence of frames
    stored     \* what each path will name after a power loss

vars == <<phase, log, promised, library, stored>>

Init ==
    /\ phase = "idle" /\ log = <<>> /\ promised = <<>>
    /\ library = [p \in Paths |-> NoFile] /\ stored = library

\* One frame of an earlier recording may be the first of this one.
Begin ==
    /\ phase = "idle" /\ phase' = "recording"
    /\ Len(log') <= 1
    /\ UNCHANGED <<promised, library, stored>>

Accept ==
    /\ phase # "idle"
    /\ Len(log') = Len(log) + 1 /\ IsPrefix(log, log')
    /\ UNCHANGED <<phase, promised, library, stored>>

Close ==
    /\ phase = "recording" /\ phase' = "closing"
    /\ promised' = log
    /\ UNCHANGED <<log, library, stored>>

\* Back to idle, with nothing pending.
Ends == phase # "idle" /\ phase' = "idle" /\ log' = <<>> /\ promised' = <<>>

Save(p) ==
    /\ phase = "closing" /\ Ends
    /\ \E n \in Len(promised)..Len(log) : library' = [library EXCEPT ![p] = SubSeq(log, 1, n)]
    /\ UNCHANGED stored

GiveUp == Ends /\ UNCHANGED <<library, stored>>

Store(p) ==
    /\ stored' = [stored EXCEPT ![p] = library[p]]
    /\ UNCHANGED <<phase, log, promised, library>>

PowerLoss ==
    /\ phase' = "idle" /\ log' = <<>> /\ promised' = <<>>
    /\ library' = stored
    /\ UNCHANGED stored

Next ==
    \/ Begin \/ Accept \/ Close \/ GiveUp \/ PowerLoss
    \/ \E p \in Paths : Save(p) \/ Store(p)

Spec == Init /\ [][Next]_vars
=============================================================================

-------------------------- MODULE DeviceStateMachine --------------------------
(***************************************************************************)
(* The device state machine (src/src/app/state_machine.cpp) with the       *)
(* transition actions main registers (src/src/app/main.cpp:75-108).        *)
(*                                                                         *)
(* PostEvent looks the transition up under lock_, gives the lock up while  *)
(* the action runs, and stores the new state under the lock again; the     *)
(* three parts are three actions here.  A transition without an action is  *)
(* one critical section, hence one step.  The recorder is known by what    *)
(* the actions see of it: recorderOn is its recording_ flag, and its       *)
(* StartRecording and StopRecording may fail.                              *)
(***************************************************************************)
EXTENDS Naturals, FiniteSets

CONSTANTS
    Posters,   \* threads that post events
    Events     \* the events they post

VARIABLES
    state,       \* state_
    pending,     \* per poster: the PostEvent under way, or NoPost
    recorderOn,  \* recording_ of the recorder
    stopFailed   \* history: the last StopRecording of a live recorder failed

vars == <<state, pending, recorderOn, stopFailed>>

States == {"BOOT", "STANDBY", "RECORDING", "PAUSED", "CAPTURING", "PLAYBACK", "MENU",
           "USB", "SUSPEND"}

Row(from, event, to) == [from |-> from, event |-> event, to |-> to]

\* transitions_ after Init; main's registrations name three of the rows again.
Transitions == {
    Row("BOOT", "INIT_DONE", "STANDBY"),
    Row("STANDBY", "KEY_RECORD", "RECORDING"),   Row("STANDBY", "KEY_CAPTURE", "CAPTURING"),
    Row("STANDBY", "KEY_PLAYBACK", "PLAYBACK"),  Row("STANDBY", "KEY_MENU", "MENU"),
    Row("STANDBY", "USB_CONNECT", "USB"),        Row("STANDBY", "TIMER_TIMEOUT", "SUSPEND"),
    Row("STANDBY", "SDCARD_FULL", "STANDBY"),
    Row("RECORDING", "KEY_STOP", "STANDBY"),     Row("RECORDING", "KEY_PAUSE", "PAUSED"),
    Row("RECORDING", "BATTERY_LOW", "STANDBY"),  Row("RECORDING", "BATTERY_CRITICAL", "STANDBY"),
    Row("RECORDING", "SDCARD_FULL", "STANDBY"),  Row("RECORDING", "TIMED_STOP", "STANDBY"),
    Row("RECORDING", "SEGMENT_TIMER", "RECORDING"),
    Row("RECORDING", "OVERRUN_TIMER", "RECORDING"),
    Row("RECORDING", "USB_CONNECT", "USB"),
    Row("PAUSED", "KEY_RESUME", "RECORDING"),    Row("PAUSED", "KEY_STOP", "STANDBY"),
    Row("PAUSED", "BATTERY_CRITICAL", "STANDBY"),
    Row("CAPTURING", "CAPTURE_DONE", "STANDBY"),
    Row("PLAYBACK", "KEY_BACK", "STANDBY"),      Row("PLAYBACK", "USB_CONNECT", "USB"),
    Row("MENU", "KEY_BACK", "STANDBY"),          Row("MENU", "USB_CONNECT", "USB"),
    Row("USB", "USB_DISCONNECT", "STANDBY"),
    Row("SUSPEND", "KEY_RECORD", "STANDBY"),     Row("SUSPEND", "USB_CONNECT", "STANDBY") }

EventTypes == {r.event : r \in Transitions}

ASSUME EventsAssumption == Events \subseteq EventTypes

\* The rows main registers an action for.
ActionRows == {Row("BOOT", "INIT_DONE", "STANDBY"), Row("STANDBY", "KEY_RECORD", "RECORDING"),
               Row("RECORDING", "KEY_STOP", "STANDBY")}

NoPost == [at |-> "idle"]

Init ==
    /\ state = "BOOT"
    /\ pending = [p \in Posters |-> NoPost]
    /\ recorderOn = FALSE /\ stopFailed = FALSE

Idle(p) == pending[p] = NoPost

\* No transition matches: PostEvent returns OK and nothing changes.
PostIgnored(p, e) ==
    /\ Idle(p)
    /\ \A r \in Transitions : ~(r.from = state /\ r.event = e)
    /\ UNCHANGED vars

\* A transition without an action.
PostPlain(p, e) ==
    /\ Idle(p)
    /\ \E r \in Transitions \ ActionRows :
         r.from = state /\ r.event = e /\ state' = r.to
    /\ UNCHANGED <<pending, recorderOn, stopFailed>>

\* A transition with an action: the lock is given up before it runs.
PostBegins(p, e) ==
    /\ Idle(p)
    /\ \E r \in ActionRows :
         /\ r.from = state /\ r.event = e
         /\ pending' = [pending EXCEPT ![p] = [at |-> "acting", row |-> r]]
    /\ UNCHANGED <<state, recorderOn, stopFailed>>

Acting(p, e) == pending[p].at = "acting" /\ pending[p].row.event = e

Acted(p, ok) == pending' = [pending EXCEPT ![p] = [at |-> "acted", row |-> @.row, ok |-> ok]]

ActInitDone(p) ==
    /\ Acting(p, "INIT_DONE") /\ Acted(p, TRUE)
    /\ UNCHANGED <<state, recorderOn, stopFailed>>

\* The directories are made and StartRecording is called; it refuses when it is on.
ActKeyRecord(p) ==
    /\ Acting(p, "KEY_RECORD")
    /\ \/ Acted(p, FALSE) /\ UNCHANGED <<recorderOn, stopFailed>>
       \/ ~recorderOn /\ Acted(p, TRUE) /\ recorderOn' = TRUE /\ stopFailed' = FALSE
    /\ UNCHANGED state

\* StopRecording: whatever it returns, the recorder is off afterwards.
ActKeyStop(p) ==
    /\ Acting(p, "KEY_STOP")
    /\ \/ Acted(p, TRUE) /\ UNCHANGED stopFailed
       \/ recorderOn /\ Acted(p, FALSE) /\ stopFailed' = TRUE
    /\ recorderOn' = FALSE
    /\ UNCHANGED state

\* Mutant: the result of the action is not looked at.
CommitRegardless(p) ==
    /\ pending[p].at = "acted"
    /\ state' = pending[p].row.to
    /\ pending' = [pending EXCEPT ![p] = NoPost]
    /\ UNCHANGED <<recorderOn, stopFailed>>

\* The new state is stored without a look at what state_ is by now.
Commit(p) ==
    /\ pending[p].at = "acted" /\ pending[p].ok
    /\ state' = pending[p].row.to
    /\ pending' = [pending EXCEPT ![p] = NoPost]
    /\ UNCHANGED <<recorderOn, stopFailed>>

\* The error goes to the event callback and the caller; the state stays.
Refuse(p) ==
    /\ pending[p].at = "acted" /\ ~pending[p].ok
    /\ pending' = [pending EXCEPT ![p] = NoPost]
    /\ UNCHANGED <<state, recorderOn, stopFailed>>

PostEvent(p) ==
    \/ \E e \in Events : PostIgnored(p, e) \/ PostPlain(p, e) \/ PostBegins(p, e)
    \/ ActInitDone(p) \/ ActKeyRecord(p) \/ ActKeyStop(p)
    \/ Commit(p) \/ Refuse(p)

Next == \E p \in Posters : PostEvent(p)

Spec == Init /\ [][Next]_vars

-----------------------------------------------------------------------------
Post == {NoPost} \cup [at : {"acting"}, row : ActionRows]
                 \cup [at : {"acted"}, row : ActionRows, ok : BOOLEAN]

TypeOK ==
    /\ state \in States
    /\ pending \in [Posters -> Post]
    /\ recorderOn \in BOOLEAN /\ stopFailed \in BOOLEAN

Quiet == \A p \in Posters : Idle(p)

\* Every change of state is a row of the table, from the state the device is in:
\* "投递事件（线程安全，可从任意线程调用）" (state_machine.h:30).
ChangesFollowTable ==
    [][state' # state => \E r \in Transitions : r.from = state /\ r.to = state']_state

\* A device that shows RECORDING or PAUSED has its recorder on, unless StopRecording
\* failed: then the recorder is off and the state stays RECORDING.
RecordingHasRecorder ==
    Quiet /\ state \in {"RECORDING", "PAUSED"} => recorderOn \/ stopFailed
=============================================================================

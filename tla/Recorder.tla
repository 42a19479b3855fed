------------------------------- MODULE Recorder -------------------------------
(***************************************************************************)
(* steps/recorder.py: one recorder shared by API requests, the Zoom         *)
(* detector, the maximum-duration guard and the server's cleanup, all tasks *)
(* of one event loop.  `_state_lock` serialises the transitions; requests   *)
(* can be cancelled or fail at each await, and undoing what they began is   *)
(* shielded.  An ffmpeg process is named by its recording and track.        *)
(***************************************************************************)
EXTENDS Naturals, FiniteSets

CONSTANTS
    Callers,          \* requests and the Zoom callback
    MaxRecordings,    \* bound of recordings started
    MaxDisturbances   \* bound of cancellations and spawn failures

ASSUME RecorderBounds == MaxRecordings \in Nat /\ MaxDisturbances \in Nat

VARIABLES
    recState,      \* _state
    recLock,       \* holder of _state_lock
    recCleaning,   \* _cleanup_in_progress
    recNow,        \* number of the current recording, 0 if none
    recTracks,     \* tracks the current start selected
    recPc,         \* where each task is
    held,          \* processes referenced by _process and _processes
    ffmpeg,        \* processes that are alive
    outcome,       \* what became of each recording
    recLeft        \* what is left of the bounds

recVars == <<recState, recLock, recCleaning, recNow, recTracks, recPc, held, ffmpeg,
             outcome, recLeft>>

Recordings == 1..MaxRecordings
Tracks == {"system", "mic"}
RecRequests == {"request"} \X Callers
Guard(r) == <<"guard", r>>
Cleaner == <<"cleaner", 0>>
RecTasks == RecRequests \cup {Guard(r) : r \in Recordings} \cup {Cleaner}
Nobody == <<"nobody", 0>>

RecInit ==
    /\ recState = "idle" /\ recLock = Nobody /\ recCleaning = FALSE
    /\ recNow = 0 /\ recTracks = {}
    /\ recPc = [t \in RecTasks |-> "idle"]
    /\ held = {} /\ ffmpeg = {}
    /\ outcome = [r \in Recordings |-> "none"]
    /\ recLeft = [recordings |-> MaxRecordings, disturbances |-> MaxDisturbances]

Continue(t, pc) == recPc' = [recPc EXCEPT ![t] = pc]
Disturb ==
    /\ recLeft.disturbances > 0
    /\ recLeft' = [recLeft EXCEPT !.disturbances = @ - 1]

RecAcquire(t) == recLock = Nobody /\ recLock' = t
RecRelease == recLock' = Nobody

\* _reset_recording_state
RecReset ==
    /\ recState' = "idle" /\ recNow' = 0 /\ recTracks' = {}
    /\ held' = {}

\* _kill_orphan_process, _cleanup_multitrack_processes
KillHeld == ffmpeg' = ffmpeg \ held

\* Mutant: a failed start forgets its processes without ending them.
ForgetsHeld == ffmpeg' = ffmpeg

EndProcessesOfFailedStart == KillHeld

------------------------------------------------------------------------------
(* Starting. *)

RequestStart(t) ==
    /\ recPc[t] = "idle" /\ t \in RecRequests
    /\ recLeft.recordings > 0
    /\ Continue(t, "startLock")
    /\ UNCHANGED <<recState, recLock, recCleaning, recNow, recTracks, held, ffmpeg,
                   outcome, recLeft>>

\* Mutant: a start is not refused while the recorder is cleaned up.
StartsWhileCleaning == recState = "idle" /\ recLeft.recordings > 0

StartAllowed == ~recCleaning /\ recState = "idle" /\ recLeft.recordings > 0

EnterStart(t) ==
    /\ recPc[t] = "startLock" /\ recLock = Nobody
    /\ IF StartAllowed
       THEN /\ RecAcquire(t)
            /\ recNow' = MaxRecordings - recLeft.recordings + 1
            /\ recLeft' = [recLeft EXCEPT !.recordings = @ - 1]
            /\ outcome' = [outcome EXCEPT ![recNow'] = "recording"]
            /\ Continue(t, "select")
       ELSE /\ Continue(t, "idle")
            /\ UNCHANGED <<recLock, recNow, recLeft, outcome>>
    /\ UNCHANGED <<recState, recCleaning, recTracks, held, ffmpeg>>

\* detect_audio_devices: the devices that could serve the tracks.
Detected == SUBSET Tracks

\* One device is recorded, or each role that has one.
SingleSelections(found) == {{k} : k \in found}
SelectionsByRole(found) == {found} \ {{}}

SelectDevices(t) ==
    /\ recPc[t] = "select"
    /\ \E found \in Detected :
          IF found = {}
          THEN Continue(t, "undo") /\ UNCHANGED recTracks
          ELSE /\ recTracks' \in SingleSelections(found) \cup SelectionsByRole(found)
               /\ Continue(t, "spawn")
    /\ UNCHANGED <<recState, recLock, recCleaning, recNow, held, ffmpeg, outcome, recLeft>>

\* One ffmpeg per track.  With the last one the recording counts as running
\* and its guard is created, without an await in between.
Spawn(t) ==
    /\ recPc[t] = "spawn"
    /\ \E k \in recTracks :
          /\ <<recNow, k>> \notin held
          /\ held' = held \cup {<<recNow, k>>}
          /\ ffmpeg' = ffmpeg \cup {<<recNow, k>>}
    /\ IF Cardinality(held') = Cardinality(recTracks)
       THEN /\ recState' = "recording"
            /\ recPc' = [recPc EXCEPT ![t] = "announce", ![Guard(recNow)] = "sleeping"]
       ELSE UNCHANGED <<recState, recPc>>
    /\ UNCHANGED <<recLock, recCleaning, recNow, recTracks, outcome, recLeft>>

Announce(t) ==
    /\ recPc[t] = "announce"
    /\ RecRelease
    /\ Continue(t, "idle")
    /\ UNCHANGED <<recState, recCleaning, recNow, recTracks, held, ffmpeg, outcome, recLeft>>

\* A start that fails or is cancelled before it returns.
StartFails(t) ==
    /\ recPc[t] \in {"select", "spawn", "announce"}
    /\ Disturb
    /\ Continue(t, "undo")
    /\ UNCHANGED <<recState, recLock, recCleaning, recNow, recTracks, held, ffmpeg, outcome>>

\* _cleanup_failed_start: the guard is cancelled and awaited, the processes
\* are ended, and the state is reset, shielded from further cancellations.
RollBackStart(t) ==
    /\ recPc[t] = "undo"
    /\ EndProcessesOfFailedStart
    /\ RecReset /\ RecRelease
    /\ outcome' = [outcome EXCEPT ![recNow] = "undone"]
    /\ recPc' = [recPc EXCEPT ![t] = "idle", ![Guard(recNow)] = "idle"]
    /\ UNCHANGED <<recCleaning, recLeft>>

------------------------------------------------------------------------------
(* Stopping: requests, the guard, the cleanup. *)

RequestStop(t) ==
    /\ recPc[t] = "idle" /\ t \in RecRequests
    /\ recState = "recording"
    /\ Continue(t, "stopLock")
    /\ UNCHANGED <<recState, recLock, recCleaning, recNow, recTracks, held, ffmpeg,
                   outcome, recLeft>>

GuardFires(r) ==
    /\ recPc[Guard(r)] = "sleeping"
    /\ Continue(Guard(r), "stopLock")
    /\ UNCHANGED <<recState, recLock, recCleaning, recNow, recTracks, held, ffmpeg,
                   outcome, recLeft>>

AfterStop(t) == IF t = Cleaner THEN "killLock" ELSE "idle"

EnterStop(t) ==
    /\ recPc[t] = "stopLock" /\ recLock = Nobody
    /\ IF recState = "recording"
       THEN RecAcquire(t) /\ recState' = "stopping" /\ Continue(t, "cancelGuard")
       ELSE Continue(t, AfterStop(t)) /\ UNCHANGED <<recLock, recState>>
    /\ UNCHANGED <<recCleaning, recNow, recTracks, held, ffmpeg, outcome, recLeft>>

\* Mutant: the guard's own stop waits for the guard to end.
AwaitsItself(t) == recPc[Guard(recNow)] \in {"sleeping", "stopLock", "idle"}

\* _cancel_background_tasks: awaiting the cancelled guard, which sleeps or
\* waits for the lock, unless it is the guard that stops.
GuardCancelled(t) ==
    t # Guard(recNow) => recPc[Guard(recNow)] \in {"sleeping", "stopLock", "idle"}

CancelGuard(t) ==
    /\ recPc[t] = "cancelGuard"
    /\ GuardCancelled(t)
    /\ recPc' = [recPc EXCEPT ![Guard(recNow)] = "idle", ![t] = "terminate"]
    /\ UNCHANGED <<recState, recLock, recCleaning, recNow, recTracks, held, ffmpeg,
                   outcome, recLeft>>

\* 'q', then SIGTERM, then SIGKILL: each process of the recording ends.
Terminate(t) ==
    /\ recPc[t] = "terminate"
    /\ \E p \in held \cap ffmpeg :
          /\ ffmpeg' = ffmpeg \ {p}
          /\ Continue(t, IF held \cap ffmpeg = {p} THEN "save" ELSE "terminate")
    /\ UNCHANGED <<recState, recLock, recCleaning, recNow, recTracks, held, outcome, recLeft>>

\* The tracks go to audio_input, or are discarded as too short, empty or
\* silent, or the file is missing and the stop raises.
Outcomes == {"input", "discarded", "missing"}

Save(t) ==
    /\ recPc[t] = "save"
    /\ \E o \in Outcomes :
          /\ outcome' = [outcome EXCEPT ![recNow] = o]
          /\ Continue(t, IF o = "missing" THEN AfterStop(t) ELSE "notify")
    /\ RecReset /\ RecRelease
    /\ UNCHANGED <<recCleaning, ffmpeg, recLeft>>

\* The stop is cancelled: the processes are ended, the file stays behind.
StopCancelled(t) ==
    /\ recPc[t] \in {"cancelGuard", "terminate"} /\ t \in RecRequests
    /\ Disturb
    /\ KillHeld
    /\ RecReset /\ RecRelease
    /\ outcome' = [outcome EXCEPT ![recNow] = "left"]
    /\ Continue(t, "idle")
    /\ UNCHANGED recCleaning

WaitCancelled(t) ==
    /\ recPc[t] \in {"startLock", "stopLock"} /\ t \in RecRequests
    /\ Disturb
    /\ Continue(t, "idle")
    /\ UNCHANGED <<recState, recLock, recCleaning, recNow, recTracks, held, ffmpeg, outcome>>

\* Outside the lock: the event first, then the callbacks, one of which may
\* start the next recording in the same task.
Notify(t) ==
    /\ recPc[t] = "notify"
    /\ \/ Continue(t, AfterStop(t))
       \/ t # Cleaner /\ recLeft.recordings > 0 /\ Continue(t, "startLock")
    /\ UNCHANGED <<recState, recLock, recCleaning, recNow, recTracks, held, ffmpeg,
                   outcome, recLeft>>

------------------------------------------------------------------------------
(* cleanup() *)

BeginCleanup ==
    /\ recPc[Cleaner] = "idle" /\ recLock = Nobody
    /\ ~recCleaning
    /\ recCleaning' = TRUE
    /\ Continue(Cleaner, "checkLock")
    /\ UNCHANGED <<recState, recLock, recNow, recTracks, held, ffmpeg, outcome, recLeft>>

CheckRunning ==
    /\ recPc[Cleaner] = "checkLock" /\ recLock = Nobody
    /\ Continue(Cleaner, IF recState = "recording" THEN "stopLock" ELSE "killLock")
    /\ UNCHANGED <<recState, recLock, recCleaning, recNow, recTracks, held, ffmpeg,
                   outcome, recLeft>>

KillLeftovers ==
    /\ recPc[Cleaner] = "killLock" /\ recLock = Nobody
    /\ KillHeld /\ RecReset
    /\ Continue(Cleaner, "doneLock")
    /\ UNCHANGED <<recLock, recCleaning, outcome, recLeft>>

EndCleanup ==
    /\ recPc[Cleaner] = "doneLock" /\ recLock = Nobody
    /\ recCleaning' = FALSE
    /\ Continue(Cleaner, "idle")
    /\ UNCHANGED <<recState, recLock, recNow, recTracks, held, ffmpeg, outcome, recLeft>>

------------------------------------------------------------------------------

RecTaskStep(t) ==
    \/ EnterStart(t) \/ SelectDevices(t) \/ Spawn(t) \/ Announce(t) \/ RollBackStart(t)
    \/ EnterStop(t) \/ CancelGuard(t) \/ Terminate(t) \/ Save(t) \/ Notify(t)

RecRequest(t) ==
    RequestStart(t) \/ RequestStop(t) \/ StartFails(t) \/ StopCancelled(t) \/ WaitCancelled(t)

RecCleanupStep == CheckRunning \/ KillLeftovers \/ EndCleanup

RecNext ==
    \/ \E t \in RecTasks : RecTaskStep(t) \/ RecRequest(t)
    \/ \E r \in Recordings : GuardFires(r)
    \/ BeginCleanup \/ RecCleanupStep

\* RecTasks of the event loop keep running, sleeps end; the lock is FIFO, and the
\* bounded number of callers makes weak fairness enough to get it.
RecFairness ==
    /\ \A t \in RecTasks : WF_recVars(RecTaskStep(t))
    /\ \A r \in Recordings : WF_recVars(GuardFires(r))
    /\ WF_recVars(RecCleanupStep)

RecSpec == RecInit /\ [][RecNext]_recVars /\ RecFairness

------------------------------------------------------------------------------
(* Properties. *)

\* No ffmpeg process outlives the recorder's memory of it: whenever nobody is
\* in a transition an idle recorder has none, and a finished cleanup has left
\* none although starts, stops and the guard raced with it.
NoOrphanRecorder ==
    /\ recLock = Nobody /\ recState = "idle" => ffmpeg = {}
    /\ recPc[Cleaner] = "doneLock" => ffmpeg = {} /\ recState = "idle"

\* A recording always ends by itself: the guard's stop never waits for its own
\* cancellation or for a lock that nobody gives back.
RecordingEnds == recState = "recording" ~> recState = "idle"
==============================================================================

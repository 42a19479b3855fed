------------------------------ MODULE BulkCohort ------------------------------
(***************************************************************************)
(* The opt-in bulk cohort of core/orchestrator.py: the worker takes two     *)
(* queued jobs through the pipeline phase by phase, records each stage in   *)
(* the stage table, and on any way out puts the jobs it has started back in *)
(* the queue.  Cancellations, changed settings and sources, native work     *)
(* that does not end, failing writes and a shutdown come in between.        *)
(* _process_job, which JobProcessor models await by await, is cut here at   *)
(* its thermal wait and at the end of its run; its last checks make what    *)
(* lies between as good as atomic.                                          *)
(***************************************************************************)
EXTENDS JobRows, StageWork, Sequences

CONSTANTS
    Full,           \* the intent a cohort takes
    Session,        \* the session of this process
    MaxBulkCancels, \* bound of cancellations of running jobs
    MaxBulkTroubles \* bound of shutdowns and failing writes of the stage table

ASSUME BulkAssumption ==
    /\ Full \in Intents /\ Session \in Sessions /\ StagedMeetings \subseteq Meetings
    /\ {MaxBulkCancels, MaxBulkTroubles} \subseteq Nat /\ Tokens # {}

VARIABLES
    bulk,        \* the worker in _process_bulk_cohort
    checkpoint,  \* per meeting, the phases whose results are on disk
    bulkFlags,   \* _cancellation_requests
    flagging,    \* meetings whose cancel handler has yet to set the flag
    changed,     \* "llm", "native" and the meetings whose source was replaced
    bulkLeft     \* what is left of the bounds

bulkVars == <<jobs, work, bulk, checkpoint, bulkFlags, flagging, changed, bulkLeft>>

Sequence == INSTANCE SequencesExt

\* The order in which the jobs were accepted.
CohortOrder == Sequence!SetToSeq(StagedMeetings)
IsFirstPending(m) ==
    \E i \in DOMAIN CohortOrder :
        /\ CohortOrder[i] = m /\ m \in bulk.pending
        /\ \A j \in 1..(i - 1) : CohortOrder[j] \notin bulk.pending

BulkMember == bulk.at
BulkPhase == bulk.phase
LastPhase == 4

\* The job status a phase leads to.
PhaseStatus == <<"transcribing", "merging", "embedding", "embedding">>

BulkAt(pc) == bulk.pc = pc
BulkGo(pc) == bulk' = [bulk EXCEPT !.pc = pc]
BulkRequested(m) == m \in bulkFlags \/ HasCancelClaim(jobs[m])
Interrupted == changed \cap {"llm", "native"} # {}

\* Any return or exception reaches the finally clause.
BulkLeave == bulk' = [bulk EXCEPT !.pc = "restore", !.at = NoOwner]

BulkRows ==
    jobs \in [Meetings -> [status : {"queued"}, action : {Plain(Full)}, retries : {0},
                           error : {"none"}, selection : Selections]]

\* The cohort has been selected and its stages are recorded, all or none.
BulkLocals ==
    /\ bulk = [pc |-> "phase", phase |-> 1, at |-> NoOwner, pending |-> {},
               active |-> StagedMeetings, started |-> {}]
    /\ checkpoint \in [StagedMeetings -> {0, 2}]
    /\ bulkFlags = {} /\ flagging = {} /\ changed = {}
    /\ bulkLeft = [cancels |-> MaxBulkCancels, troubles |-> MaxBulkTroubles]

BulkInit == BulkRows /\ work = Enqueued(StagedMeetings) /\ BulkLocals

BulkTrouble == bulkLeft.troubles > 0 /\ bulkLeft' = [bulkLeft EXCEPT !.troubles = @ - 1]

------------------------------------------------------------------------------
(* The phases. *)

\* Every member has been through the last phase, or the phase begins.
BeginPhase ==
    /\ BulkAt("phase")
    /\ bulk' = IF BulkPhase > LastPhase THEN [bulk EXCEPT !.pc = "restore", !.started = {}]
               ELSE IF Interrupted THEN [bulk EXCEPT !.pc = "restore"]
               ELSE [bulk EXCEPT !.pc = "next", !.pending = bulk.active]
    /\ UNCHANGED <<jobs, work, checkpoint, bulkFlags, flagging, changed, bulkLeft>>

NextMember ==
    /\ BulkAt("next")
    /\ \/ /\ bulk.pending = {}
          /\ bulk' = [bulk EXCEPT !.pc = "phase", !.phase = @ + 1]
          /\ UNCHANGED <<work, bulkLeft>>
       \/ /\ bulk.pending # {} /\ Interrupted
          /\ BulkLeave /\ UNCHANGED <<work, bulkLeft>>
       \/ /\ ~Interrupted
          /\ \E m \in StagedMeetings :
                /\ IsFirstPending(m)
                /\ bulk' = [bulk EXCEPT !.pc = "checks", !.at = m]
                /\ ClaimReady(m, BulkPhase, Session)
          /\ UNCHANGED bulkLeft
       \/ BulkTrouble /\ BulkLeave /\ UNCHANGED work      \* or the model does not load
    /\ UNCHANGED <<jobs, checkpoint, bulkFlags, flagging, changed>>

\* _finalize_user_cancellation
BulkFinalize(m) ==
    /\ \/ FinalizeCancellationClaim(m)
       \/ ~HasCancelClaim(jobs[m]) /\ ForceSetStatus(m, "recorded", "cancelled")
    /\ bulkFlags' = bulkFlags \ {m}

\* Mutant: a run that did not end well counts as one that did.
CountsAsSuccess == BulkGo("successful")

Unsuccessful == BulkGo("unsuccessful")

\* Under the meeting's mutation lease.
CheckMember ==
    /\ BulkAt("checks")
    /\ \/ BulkRequested(BulkMember) /\ BulkFinalize(BulkMember) /\ Unsuccessful
       \/ /\ ~BulkRequested(BulkMember) /\ BulkMember \in changed
          /\ UpdateStatus(BulkMember, "failed", "other")
          /\ Unsuccessful
          /\ UNCHANGED bulkFlags
       \/ /\ ~BulkRequested(BulkMember) /\ BulkMember \notin changed
          /\ bulk' = [bulk EXCEPT !.pc = "take", !.started = @ \cup {BulkMember}]
          /\ UNCHANGED <<jobs, bulkFlags>>
    /\ UNCHANGED <<work, checkpoint, flagging, changed, bulkLeft>>

\* After the thermal wait: the first phase claims the job, and gives it back if
\* it is not the one that was polled; a later one looks at what it holds.
TakeMember ==
    /\ BulkAt("take")
    /\ \/ /\ BulkPhase = 1 /\ jobs[BulkMember].action = Plain(Full)
          /\ ClaimQueuedJobForProcessing(BulkMember) /\ BulkGo("run") /\ UNCHANGED bulkFlags
       \/ /\ BulkPhase = 1 /\ jobs[BulkMember].status = "queued"
          /\ jobs[BulkMember].action # Plain(Full)
          /\ Store(BulkMember, [jobs[BulkMember] EXCEPT !.error = "other"])
          /\ Unsuccessful /\ UNCHANGED bulkFlags
       \/ /\ BulkPhase = 1 /\ jobs[BulkMember].status # "queued"
          /\ Unsuccessful /\ UNCHANGED <<jobs, bulkFlags>>
       \/ BulkPhase > 1 /\ BulkRequested(BulkMember) /\ BulkFinalize(BulkMember) /\ Unsuccessful
       \/ /\ BulkPhase > 1 /\ ~BulkRequested(BulkMember)
          /\ BulkGo(IF jobs[BulkMember].status \in ActiveStatuses THEN "run" ELSE "unsuccessful")
          /\ UNCHANGED <<jobs, bulkFlags>>
    /\ UNCHANGED <<work, checkpoint, flagging, changed, bulkLeft>>

\* A step of the phase starts; a refused transition is only logged.
MarkMember ==
    /\ BulkAt("run")
    /\ jobs[BulkMember].status # PhaseStatus[BulkPhase]
    /\ \E status \in ActiveStatuses : UpdateStatus(BulkMember, status, "none")
    /\ UNCHANGED <<work, bulk, checkpoint, bulkFlags, flagging, changed, bulkLeft>>

\* The run comes back: paused or completed, cancelled, failed, or refused.
RunEndsWell ==
    /\ BulkAt("run") /\ ~BulkRequested(BulkMember)
    /\ checkpoint' = [checkpoint EXCEPT ![BulkMember] = IF @ < BulkPhase THEN BulkPhase ELSE @]
    /\ IF BulkPhase = LastPhase THEN ForceSetStatus(BulkMember, "completed", "none") ELSE UNCHANGED jobs
    /\ BulkGo("successful")
    /\ UNCHANGED <<work, bulkFlags, flagging, changed, bulkLeft>>

RunEndsBadly ==
    /\ BulkAt("run")
    /\ \/ BulkRequested(BulkMember) /\ BulkFinalize(BulkMember)
       \/ /\ ~BulkRequested(BulkMember)
          /\ \/ UpdateStatus(BulkMember, "failed", "other")
             \/ ForceSetStatus(BulkMember, "recorded", "none")
          /\ UNCHANGED bulkFlags
    /\ Unsuccessful
    /\ UNCHANGED <<work, checkpoint, flagging, changed, bulkLeft>>

AfterMember(next) ==
    bulk' = IF "native" \in changed THEN [next EXCEPT !.pc = "restore", !.at = NoOwner]
            ELSE [next EXCEPT !.pc = "next", !.at = NoOwner, !.pending = @ \ {BulkMember}]

RecordSuccess ==
    /\ BulkAt("successful")
    /\ \/ /\ Finish(BulkMember, BulkPhase, Session, work[BulkMember][BulkPhase].attempt, "completed")
          /\ AfterMember(bulk)
          /\ UNCHANGED bulkLeft
       \/ BulkTrouble /\ BulkLeave /\ UNCHANGED work
    /\ UNCHANGED <<jobs, checkpoint, bulkFlags, flagging, changed>>

\* A cancelled stage is released when nothing runs for it any more; the two
\* writes that takes may be cut by a failure of the second.
RecordFailure ==
    /\ BulkAt("unsuccessful")
    /\ \/ /\ jobs[BulkMember].error = "cancelled"
          /\ RequestCancel(BulkMember)
          /\ BulkGo(IF "native" \in changed THEN "drop" ELSE "release")
          /\ UNCHANGED bulkLeft
       \/ /\ jobs[BulkMember].error # "cancelled"
          /\ Finish(BulkMember, BulkPhase, Session, work[BulkMember][BulkPhase].attempt, "failed")
          /\ BulkGo("drop")
          /\ UNCHANGED bulkLeft
       \/ BulkTrouble /\ BulkLeave /\ UNCHANGED work
    /\ UNCHANGED <<jobs, checkpoint, bulkFlags, flagging, changed>>

ReleaseStage ==
    /\ BulkAt("release")
    /\ \/ /\ AcknowledgeCancel(BulkMember, BulkPhase, Session, work[BulkMember][BulkPhase].attempt)
          /\ BulkGo("drop") /\ UNCHANGED bulkLeft
       \/ BulkTrouble /\ BulkLeave /\ UNCHANGED work
    /\ UNCHANGED <<jobs, checkpoint, bulkFlags, flagging, changed>>

DropMember ==
    /\ BulkAt("drop")
    /\ AfterMember([bulk EXCEPT !.active = @ \ {BulkMember}, !.started = @ \ {BulkMember}])
    /\ UNCHANGED <<jobs, work, checkpoint, bulkFlags, flagging, changed, bulkLeft>>

------------------------------------------------------------------------------
(* The way out. *)

\* Mutant: members that run are not put back.
RestoresNobody == {}

ToRestore == bulk.started

Restored(m) == bulk' = [bulk EXCEPT !.pc = "restore", !.started = @ \ {m}, !.at = NoOwner]

RestoreLooks ==
    /\ BulkAt("restore")
    /\ \/ /\ ToRestore = {} /\ BulkGo("over")
          /\ UNCHANGED <<jobs, bulkFlags>>
       \/ \E m \in ToRestore :
             \/ BulkRequested(m) /\ BulkFinalize(m) /\ Restored(m)
             \/ /\ ~BulkRequested(m) /\ jobs[m].status \in ActiveStatuses
                /\ bulk' = [bulk EXCEPT !.pc = "requeue", !.at = m]
                /\ UNCHANGED <<jobs, bulkFlags>>
             \/ /\ ~BulkRequested(m) /\ jobs[m].status \notin ActiveStatuses
                /\ Restored(m)
                /\ UNCHANGED <<jobs, bulkFlags>>
    /\ UNCHANGED <<work, checkpoint, flagging, changed, bulkLeft>>

\* Mutant: a restoration that is refused is not looked into.
RefusedRestoreDropped == UNCHANGED <<jobs, bulkFlags>>

\* A cancellation was accepted since the look: it wins.
RefusedRestore ==
    BulkRequested(BulkMember) /\ BulkFinalize(BulkMember)

RestoreRequeues ==
    /\ BulkAt("requeue")
    /\ \/ ForceSetStatus(BulkMember, "queued", "other") /\ UNCHANGED bulkFlags
       \/ ~CanForceSetStatus(jobs[BulkMember]) /\ RefusedRestore
    /\ Restored(BulkMember)
    /\ UNCHANGED <<work, checkpoint, flagging, changed, bulkLeft>>

\* stop() cancels the task at one of its awaits.  A run that a user cancelled
\* too swallows it, and the cohort goes on; a run is requeued by its own
\* handler; and a stop during the way out leaves the rest to the next start.
BulkStop ==
    /\ bulk.pc # "over" /\ BulkTrouble
    /\ \/ BulkAt("run") /\ BulkRequested(BulkMember) /\ BulkFinalize(BulkMember) /\ Unsuccessful
       \/ /\ BulkAt("run") /\ ~BulkRequested(BulkMember)
          /\ ForceSetStatus(BulkMember, "queued", "other")
          /\ BulkLeave /\ UNCHANGED bulkFlags
       \/ /\ bulk.pc \in {"restore", "requeue"}
          /\ BulkGo("stopped") /\ UNCHANGED <<jobs, bulkFlags>>
       \/ /\ bulk.pc \notin {"run", "restore", "requeue", "stopped", "drop"}
          /\ BulkLeave /\ UNCHANGED <<jobs, bulkFlags>>
    /\ UNCHANGED <<work, checkpoint, flagging, changed>>

------------------------------------------------------------------------------
(* Everyone else. *)

UserCancelsRunning(m) ==
    /\ bulkLeft.cancels > 0
    /\ bulkLeft' = [bulkLeft EXCEPT !.cancels = @ - 1]
    /\ ClaimActiveJobForCancellation(m, CHOOSE t \in Tokens : TRUE)   \* the row's only claim
    /\ flagging' = flagging \cup {m}
    /\ UNCHANGED <<work, bulk, checkpoint, bulkFlags, changed>>

FlagFollows(m) ==
    /\ m \in flagging
    /\ flagging' = flagging \ {m} /\ bulkFlags' = bulkFlags \cup {m}
    /\ UNCHANGED <<jobs, work, bulk, checkpoint, changed, bulkLeft>>

\* Before the first phase reaches it, a member can be cancelled and queued anew.
\* What happens to a job after the cohort dropped it is not the cohort's.
UserChangesQueued(m) ==
    /\ m \in bulk.active \ bulk.started /\ bulk.pc \notin {"restore", "requeue", "over", "stopped"}
    /\ \/ /\ bulkLeft.cancels > 0
          /\ bulkLeft' = [bulkLeft EXCEPT !.cancels = @ - 1]
          /\ CancelQueuedJob(m)
       \/ /\ \E i \in Intents, s \in Selections : QueueJob(m, i, s)
          /\ UNCHANGED bulkLeft
    /\ UNCHANGED <<work, bulk, checkpoint, bulkFlags, flagging, changed>>

Disturb ==
    /\ changed = {}
    /\ \E what \in {"llm", "native"} \cup StagedMeetings : changed' = {what}
    /\ UNCHANGED <<jobs, work, bulk, checkpoint, bulkFlags, flagging, bulkLeft>>

BulkWorker ==
    \/ BeginPhase \/ NextMember \/ CheckMember \/ TakeMember
    \/ RunEndsWell \/ RunEndsBadly \/ RecordSuccess \/ RecordFailure \/ ReleaseStage
    \/ DropMember \/ RestoreLooks \/ RestoreRequeues

BulkNext ==
    \/ BulkWorker \/ MarkMember \/ BulkStop \/ Disturb
    \/ \E m \in StagedMeetings :
          UserCancelsRunning(m) \/ FlagFollows(m) \/ UserChangesQueued(m)

BulkSpec == BulkInit /\ [][BulkNext]_bulkVars

------------------------------------------------------------------------------

\* However a cohort ends (done, a changed setting, native work left behind, a
\* failing write, a shutdown), no member is left in a running status, and no
\* cancellation that was accepted meanwhile is left open.  (A shutdown that
\* comes during the way out leaves the rest to the recovery of the next start.)
CohortStrandsNone ==
    BulkAt("over") =>
        \A m \in StagedMeetings :
            jobs[m].status \notin ActiveStatuses /\ ~HasCancelClaim(jobs[m])

\* The stage table never says more than is on disk, and a meeting that was
\* cancelled, failed or given back gets no further stage in this cohort.
StageFollowsRow ==
    \A m \in StagedMeetings, s \in StageNumbers :
        /\ work'[m][s].status = "completed" => checkpoint'[m] >= s
        /\ work'[m][s].status = "running" /\ work[m][s].status = "queued" =>
              \A p \in StageNumbers : work[m][p].status \notin {"failed", "cancel_requested"}
        /\ work[m][s].status = "running" /\ work'[m][s].status = "completed" =>
              jobs[m].status \in ActiveStatuses \cup {"completed"} \/ HasCancelClaim(jobs[m])
==============================================================================

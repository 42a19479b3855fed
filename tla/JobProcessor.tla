---------------------------- MODULE JobProcessor -----------------------------
(***************************************************************************)
(* core/orchestrator.py: the one worker task that polls the queue and runs  *)
(* the pipeline, interleaved with the HTTP handlers that cancel, requeue    *)
(* and reconcile jobs, with shutdown, and with crash and startup recovery.  *)
(* A handler or the worker is cut at its awaits: each step is one queue     *)
(* transaction, or the code up to the next await.  The table and the        *)
(* pipeline checkpoints survive a crash; the cancellation flags, handlers   *)
(* and the worker do not.  The opt-in bulk cohorts are in BulkCohort.       *)
(***************************************************************************)
EXTENDS JobRows, Sequences

CONSTANTS
    Reconciling,    \* TRUE: responses reconcile failed rows with checkpoints
    MaxCancels,     \* bound on accepted cancellations of running jobs
    MaxCrashes,     \* bound on process crashes and restarts
    MaxFaults       \* bound on queue writes that fail for no logical reason

ASSUME ReconcilingAssumption == Reconciling \in BOOLEAN
ASSUME BoundsAssumption == MaxCancels \in Nat /\ MaxCrashes \in Nat /\ MaxFaults \in Nat

VARIABLES
    progress,   \* per meeting, pipeline steps completed (pipeline_state.json)
    flags,      \* JobProcessor._cancellation_requests
    worker,     \* the worker task: pc, meeting, intent it runs, rows to recover
    cancel,     \* per meeting, the cancel handler's pc
    requeue,    \* per meeting, the retry / transcribe handler's pc
    reconcile,  \* per meeting, the response reconciler's pc
    spent       \* cancellations, crashes and faults so far, and whether a run
                \* was ended by a flag without a claim

handlers == <<cancel, requeue, reconcile>>
pvars == <<jobs, progress, flags, worker, handlers, spent>>

\* PIPELINE_STEPS by the job status their start is mapped to: convert and
\* transcribe, diarize, merge, correct to embed.
Steps == <<"transcribing", "diarizing", "merging", "embedding">>
Finished == Len(Steps)

Nobody == "nobody"
RecoveryPcs == {"snapshot", "claims", "orphans"}
RunPcs ==
    {"boundary", "mark", "recheck", "work", "unwind", "finished", "complete", "force",
     "failed", "refused", "save_failed", "save_recorded", "confirm", "finalize",
     "fallback", "requeue"}
WorkerPcs == RecoveryPcs \cup {"poll", "wait"} \cup RunPcs \cup {"announce", "off"}

\* Where a CancelledError from stop() still meets _process_job's own handler.
InterruptiblePcs ==
    {"boundary", "mark", "recheck", "work", "unwind", "finished", "complete", "force",
     "announce"}

Started ==
    [pc |-> "snapshot", at |-> Nobody, intent |-> DefaultIntent, claims |-> {},
     orphans |-> {}, stopping |-> FALSE]

Active(m) == jobs[m].status \in ActiveStatuses
At(pc) == worker.pc = pc
Here == worker.at
Goto(pc) == worker' = [worker EXCEPT !.pc = pc]

\* _is_job_cancellation_requested: the flag, else the durable claim.
CancelRequested(m) == m \in flags \/ HasCancelClaim(jobs[m])

Fault == spent.faults < MaxFaults /\ spent' = [spent EXCEPT !.faults = @ + 1]

------------------------------------------------------------------------------
(* Startup recovery: one snapshot, then row by row. *)

TakeSnapshot ==
    /\ At("snapshot")
    /\ worker' = [worker EXCEPT !.pc = "claims",
                                !.claims = {m \in Meetings : HasCancelClaim(jobs[m])},
                                !.orphans = {m \in Meetings : Active(m)}]
    /\ UNCHANGED <<jobs, progress, flags, handlers, spent>>

FinalizeOrphanedClaim ==
    /\ At("claims")
    /\ \/ \E m \in worker.claims :
             /\ \/ FinalizeCancellationClaim(m) /\ UNCHANGED spent
                \/ Fault /\ UNCHANGED jobs
             /\ worker' = [worker EXCEPT !.claims = @ \ {m}]
       \/ worker.claims = {} /\ Goto("orphans") /\ UNCHANGED <<jobs, spent>>
    /\ UNCHANGED <<progress, flags, handlers>>

RequeueOrphan ==
    /\ At("orphans")
    /\ \/ \E m \in worker.orphans :
             /\ \/ ForceSetStatus(m, "queued", "none") /\ UNCHANGED spent
                \/ Fault /\ UNCHANGED jobs
             /\ worker' = [worker EXCEPT !.orphans = @ \ {m}]
       \/ worker.orphans = {} /\ Goto("poll") /\ UNCHANGED <<jobs, spent>>
    /\ UNCHANGED <<progress, flags, handlers>>

------------------------------------------------------------------------------
(* The worker: poll, claim, run the steps. *)

\* The polled row is a snapshot: its intent is the one the run will use.
Poll(m) ==
    /\ At("poll")
    /\ jobs[m].status = "queued"
    /\ worker' = [worker EXCEPT !.pc = "wait", !.at = m, !.intent = jobs[m].action.intent]
    /\ UNCHANGED <<jobs, progress, flags, handlers, spent>>

\* After the thermal wait, which may take minutes.
Claim ==
    /\ At("wait")
    /\ \/ ClaimQueuedJobForProcessing(Here) /\ Goto("boundary")
       \/ jobs[Here].status # "queued" /\ Goto("poll") /\ UNCHANGED jobs
    /\ UNCHANGED <<progress, flags, handlers, spent>>

\* A cancellation found where nothing is left to unwind: the flag is dropped
\* before the first await of the finalization.
FinalizeCancellation ==
    /\ Goto("finalize")
    /\ flags' = flags \ {Here}

\* Mutant: a finished step leaves no checkpoint.
StepNotSaved == Goto("boundary") /\ UNCHANGED progress

\* A step is checkpointed; after the last one the state is saved as completed
\* and the pipeline returns.
StepDone ==
    /\ progress' = [progress EXCEPT ![Here] = @ + 1]
    /\ Goto(IF progress[Here] + 1 = Finished THEN "finished" ELSE "boundary")

\* The callback's first check, or a step skipped without one (LLM steps when
\* the intent, the settings or the memory say so), or nothing left to resume.
Boundary ==
    /\ At("boundary")
    /\ \/ progress[Here] = Finished /\ Goto("finished") /\ UNCHANGED <<progress, flags>>
       \/ progress[Here] = Finished - 1 /\ StepDone /\ UNCHANGED flags
       \/ /\ progress[Here] < Finished
          /\ IF CancelRequested(Here) THEN FinalizeCancellation
                                      ELSE Goto("mark") /\ UNCHANGED flags
          /\ UNCHANGED progress
    /\ UNCHANGED <<jobs, handlers, spent>>

\* _update_job_status_safe: a refused transition is only logged.  A resumed run
\* keeps "transcribing" to the end, because its next status is refused.
MarkStep ==
    /\ At("mark")
    /\ LET status == Steps[progress[Here] + 1]
       IN  \/ UpdateStatus(Here, status, "none") /\ UNCHANGED spent
           \/ ~CanUpdateStatus(jobs[Here], status) /\ UNCHANGED <<jobs, spent>>
           \/ Fault /\ UNCHANGED jobs
    /\ Goto("recheck")
    /\ UNCHANGED <<progress, flags, handlers>>

Recheck ==
    /\ At("recheck")
    /\ IF CancelRequested(Here) THEN FinalizeCancellation ELSE Goto("work") /\ UNCHANGED flags
    /\ UNCHANGED <<jobs, progress, handlers, spent>>

\* The step ends: done, failed after its retries, refused as invalid input, or
\* (OpenAI) given up between two chunks, which unwinds through an await.
WorkEnds ==
    /\ At("work")
    /\ \/ StepDone
       \/ Goto("failed") /\ UNCHANGED progress
       \/ Goto("refused") /\ UNCHANGED progress
       \/ CancelRequested(Here) /\ Goto("unwind") /\ UNCHANGED progress
    /\ UNCHANGED <<jobs, flags, handlers, spent>>

\* The pipeline may also raise outside a step (validating the request against
\* the checkpoints, restoring results, saving state).
PipelineRaises ==
    /\ At("boundary")
    /\ Goto("failed")
    /\ UNCHANGED <<jobs, progress, flags, handlers, spent>>

RunReturns ==
    /\ At("finished")
    /\ IF CancelRequested(Here) THEN FinalizeCancellation
                                ELSE Goto("complete") /\ UNCHANGED flags
    /\ UNCHANGED <<jobs, progress, handlers, spent>>

\* _mark_job_completed_after_pipeline: the ordinary transition, then by force.
MarkCompleted ==
    /\ At("complete")
    /\ \/ UpdateStatus(Here, "completed", "none") /\ Goto("announce") /\ UNCHANGED spent
       \/ /\ ~CanUpdateStatus(jobs[Here], "completed")
          /\ Goto("force") /\ UNCHANGED <<jobs, spent>>
       \/ Fault /\ Goto("force") /\ UNCHANGED jobs
    /\ UNCHANGED <<progress, flags, handlers>>

ForceCompleted ==
    /\ At("force")
    /\ \/ ForceSetStatus(Here, "completed", "none") /\ Goto("announce") /\ UNCHANGED spent
       \/ ~CanForceSetStatus(jobs[Here]) /\ Goto("confirm") /\ UNCHANGED <<jobs, spent>>
       \/ Fault /\ Goto("confirm") /\ UNCHANGED jobs
    /\ UNCHANGED <<progress, flags, handlers>>

\* _process_job returns; a stopped loop does not poll again.
Idle ==
    worker' = [worker EXCEPT !.pc = IF worker.stopping THEN "off" ELSE "poll",
                             !.at = Nobody, !.intent = DefaultIntent]

LoopEnds ==
    worker' = [worker EXCEPT !.pc = "off", !.at = Nobody, !.intent = DefaultIntent,
                             !.stopping = TRUE]

Announce ==
    /\ At("announce")
    /\ Idle
    /\ UNCHANGED <<jobs, progress, flags, handlers, spent>>

\* `except Exception` and `except InvalidInputError`: a cancellation wins, both
\* before the write and after it.
RunEndsEarly ==
    /\ worker.pc \in {"failed", "refused"}
    /\ IF CancelRequested(Here)
       THEN FinalizeCancellation
       ELSE /\ Goto(IF At("failed") THEN "save_failed" ELSE "save_recorded")
            /\ UNCHANGED flags
    /\ UNCHANGED <<jobs, progress, handlers, spent>>

SaveFailed ==
    /\ At("save_failed")
    /\ \/ UpdateStatus(Here, "failed", "other") /\ UNCHANGED spent
       \/ ~CanUpdateStatus(jobs[Here], "failed") /\ UNCHANGED <<jobs, spent>>
       \/ Fault /\ UNCHANGED jobs
    /\ Goto("confirm")
    /\ UNCHANGED <<progress, flags, handlers>>

SaveRecorded ==
    /\ At("save_recorded")
    /\ \/ ForceSetStatus(Here, "recorded", "none") /\ UNCHANGED spent
       \/ ~CanForceSetStatus(jobs[Here]) /\ UNCHANGED <<jobs, spent>>
       \/ Fault /\ UNCHANGED jobs
    /\ Goto("confirm")
    /\ UNCHANGED <<progress, flags, handlers>>

\* Mutant: no second look for a cancellation after the final write.
ConfirmsBlindly ==
    /\ At("confirm")
    /\ Idle
    /\ UNCHANGED <<jobs, progress, flags, handlers, spent>>

Confirm ==
    /\ At("confirm")
    /\ IF CancelRequested(Here) THEN FinalizeCancellation ELSE Idle /\ UNCHANGED flags
    /\ UNCHANGED <<jobs, progress, handlers, spent>>

\* `except CancelledError` after the cleanup: the user's, or else a shutdown.
Unwind ==
    /\ At("unwind")
    /\ Goto(IF CancelRequested(Here) THEN "finalize" ELSE "requeue")
    /\ flags' = flags \ {Here}
    /\ UNCHANGED <<jobs, progress, handlers, spent>>

\* _finalize_user_cancellation: the durable claim, or the flag alone.
FinalizeClaim ==
    /\ At("finalize")
    /\ \/ FinalizeCancellationClaim(Here) /\ Idle /\ UNCHANGED spent
       \/ /\ ~HasCancelClaim(jobs[Here])
          /\ Goto("fallback")
          /\ spent' = [spent EXCEPT !.stale = TRUE]
          /\ UNCHANGED jobs
       \/ Fault /\ Idle /\ UNCHANGED jobs
    /\ UNCHANGED <<progress, flags, handlers>>

FinalizeFlag ==
    /\ At("fallback")
    /\ \/ ForceSetStatus(Here, "recorded", "cancelled") /\ UNCHANGED spent
       \/ ~CanForceSetStatus(jobs[Here]) /\ UNCHANGED <<jobs, spent>>
       \/ Fault /\ UNCHANGED jobs
    /\ Idle
    /\ UNCHANGED <<progress, flags, handlers>>

\* The interrupted job waits for the next start; the loop ends.
RequeueInterrupted ==
    /\ At("requeue")
    /\ \/ ForceSetStatus(Here, "queued", "other") /\ UNCHANGED spent
       \/ ~CanForceSetStatus(jobs[Here]) /\ UNCHANGED <<jobs, spent>>
       \/ Fault /\ UNCHANGED jobs
    /\ LoopEnds
    /\ UNCHANGED <<progress, flags, handlers>>

WorkerNext ==
    \/ TakeSnapshot \/ FinalizeOrphanedClaim \/ RequeueOrphan
    \/ (\E m \in Meetings : Poll(m)) \/ Claim
    \/ Boundary \/ MarkStep \/ Recheck \/ WorkEnds \/ PipelineRaises
    \/ RunReturns \/ MarkCompleted \/ ForceCompleted \/ Announce
    \/ RunEndsEarly \/ SaveFailed \/ SaveRecorded \/ Confirm
    \/ Unwind \/ FinalizeClaim \/ FinalizeFlag \/ RequeueInterrupted

------------------------------------------------------------------------------
(* HTTP handlers. *)

\* JobProcessor is published to the handlers after its recovery.
Published == worker.pc \notin RecoveryPcs

CancelReads(m) ==
    /\ cancel[m] = "idle"
    /\ \/ jobs[m].status = "queued" /\ cancel' = [cancel EXCEPT ![m] = "queued"]
       \/ Active(m) /\ Published /\ cancel' = [cancel EXCEPT ![m] = "claim"]
    /\ UNCHANGED <<jobs, progress, flags, worker, requeue, reconcile, spent>>

\* The row was queued when it was read; the worker may have claimed it since.
CancelWaiting(m) ==
    /\ cancel[m] = "queued"
    /\ \/ CancelQueuedJob(m) /\ cancel' = [cancel EXCEPT ![m] = "idle"]
       \/ /\ jobs[m].status # "queued"
          /\ cancel' = [cancel EXCEPT ![m] = IF Active(m) /\ Published THEN "claim" ELSE "idle"]
          /\ UNCHANGED jobs
    /\ UNCHANGED <<progress, flags, worker, requeue, reconcile, spent>>

\* The claim is durable when the await returns; the flag follows it.
CancelRunning(m) ==
    /\ cancel[m] = "claim"
    /\ \/ /\ spent.cancels < MaxCancels
          /\ spent' = [spent EXCEPT !.cancels = @ + 1]
          /\ \E token \in Tokens : ClaimActiveJobForCancellation(m, token)
          /\ cancel' = [cancel EXCEPT ![m] = "flag"]
       \/ /\ ~CanClaimForCancellation(jobs[m])
          /\ cancel' = [cancel EXCEPT ![m] = "idle"]
          /\ UNCHANGED <<jobs, spent>>
    /\ UNCHANGED <<progress, flags, worker, requeue, reconcile>>

RequestCancellation(m) ==
    /\ cancel[m] = "flag"
    /\ flags' = flags \cup {m}
    /\ cancel' = [cancel EXCEPT ![m] = "idle"]
    /\ UNCHANGED <<jobs, progress, worker, requeue, reconcile, spent>>

\* /transcribe and /retry drop an old flag after the job is queued.
UserRequeues(m) ==
    /\ requeue[m] = "idle"
    /\ \E selection \in Selections :
          QueueJob(m, DefaultIntent, selection) \/ RetryJob(m, selection)
    /\ requeue' = [requeue EXCEPT ![m] = IF Published THEN "discard" ELSE "idle"]
    /\ UNCHANGED <<progress, flags, worker, cancel, reconcile, spent>>

DiscardFlag(m) ==
    /\ requeue[m] = "discard"
    /\ flags' = flags \ {m}
    /\ requeue' = [requeue EXCEPT ![m] = "idle"]
    /\ UNCHANGED <<jobs, progress, worker, cancel, reconcile, spent>>

\* A batch or auto-processing queues recorded meetings and drops no flag.
BatchQueues(m) ==
    /\ \E intent \in Intents, selection \in Selections :
          QueueJobsAtomically({m}, intent, selection)
    /\ UNCHANGED <<progress, flags, worker, handlers, spent>>

\* Mutant: completes failed jobs without looking at their checkpoints.
ReconcilesAnyFailed(m) ==
    /\ Reconciling
    /\ reconcile[m] = "idle"
    /\ jobs[m].status = "failed"
    /\ reconcile' = [reconcile EXCEPT ![m] = "force"]
    /\ UNCHANGED <<jobs, progress, flags, worker, cancel, requeue, spent>>

\* reconcile_job_state_for_response: reads, then completes by force.
ReconcileReads(m) ==
    /\ Reconciling
    /\ reconcile[m] = "idle"
    /\ jobs[m].status = "failed"
    /\ progress[m] = Finished
    /\ reconcile' = [reconcile EXCEPT ![m] = "force"]
    /\ UNCHANGED <<jobs, progress, flags, worker, cancel, requeue, spent>>

ReconcileForces(m) ==
    /\ reconcile[m] = "force"
    /\ \/ ForceSetStatus(m, "completed", "none")
       \/ ~CanForceSetStatus(jobs[m]) /\ UNCHANGED jobs
    /\ reconcile' = [reconcile EXCEPT ![m] = "idle"]
    /\ UNCHANGED <<progress, flags, worker, cancel, requeue, spent>>

HandlerNext(m) ==
    \/ CancelWaiting(m) \/ CancelRunning(m) \/ RequestCancellation(m)
    \/ DiscardFlag(m) \/ ReconcileForces(m)

Requests(m) == CancelReads(m) \/ UserRequeues(m) \/ BatchQueues(m) \/ ReconcileReads(m)

------------------------------------------------------------------------------
(* Shutdown and crash. *)

\* stop() cancels the task.  Its own handler sees it during a run; elsewhere it
\* ends the loop, and a claim already in the thread may still be committed.
Stop ==
    /\ Published
    /\ ~worker.stopping
    /\ IF worker.pc \in InterruptiblePcs
       THEN /\ worker' = [worker EXCEPT !.pc = "unwind", !.stopping = TRUE]
            /\ UNCHANGED jobs
       ELSE /\ LoopEnds
            /\ \/ At("wait") /\ ClaimQueuedJobForProcessing(Here)
               \/ UNCHANGED jobs
    /\ UNCHANGED <<progress, flags, handlers, spent>>

Crash ==
    /\ spent.crashes < MaxCrashes
    /\ spent' = [spent EXCEPT !.crashes = @ + 1]
    /\ worker' = Started
    /\ flags' = {}
    /\ cancel' = [m \in Meetings |-> "idle"]
    /\ requeue' = [m \in Meetings |-> "idle"]
    /\ reconcile' = [m \in Meetings |-> "idle"]
    /\ UNCHANGED <<jobs, progress>>

PInit ==
    /\ jobs \in [Meetings -> {Row("recorded", NoAction, 0, "none", selection) :
                                 selection \in Selections}]
    /\ progress = [m \in Meetings |-> 0]
    /\ flags = {}
    /\ worker = [Started EXCEPT !.pc = "poll"]
    /\ cancel = [m \in Meetings |-> "idle"]
    /\ requeue = [m \in Meetings |-> "idle"]
    /\ reconcile = [m \in Meetings |-> "idle"]
    /\ spent = [cancels |-> 0, crashes |-> 0, faults |-> 0, stale |-> FALSE]

PNext ==
    \/ WorkerNext
    \/ \E m \in Meetings : HandlerNext(m) \/ Requests(m)
    \/ Stop
    \/ Crash

PSpec == PInit /\ [][PNext]_pvars

\* The worker and a handler that has begun are asyncio tasks: each keeps being
\* scheduled while the process is up.  No request, shutdown or crash is owed.
PFairSpec ==
    /\ PSpec
    /\ WF_pvars(WorkerNext)
    /\ \A m \in Meetings : WF_pvars(HandlerNext(m))
------------------------------------------------------------------------------
(* Properties. *)

\* Every variable has its type, and the table holds only rows of the queue.
PTypeOK ==
    /\ jobs \in [Meetings -> Rows]
    /\ progress \in [Meetings -> 0..Finished]
    /\ flags \in SUBSET Meetings
    /\ worker \in [pc : WorkerPcs, at : Meetings \cup {Nobody}, intent : Intents,
                   claims : SUBSET Meetings, orphans : SUBSET Meetings,
                   stopping : BOOLEAN]
    /\ cancel \in [Meetings -> {"idle", "queued", "claim", "flag"}]
    /\ requeue \in [Meetings -> {"idle", "discard"}]
    /\ reconcile \in [Meetings -> {"idle", "force"}]
    /\ spent \in [cancels : 0..MaxCancels, crashes : 0..MaxCrashes,
                  faults : 0..MaxFaults, stale : BOOLEAN]

\* Somebody will still settle this row: the run it belongs to, the recovery
\* that has it in hand, or the next start.
Owned(m) ==
    \/ Here = m /\ worker.pc \in RunPcs
    \/ worker.pc \in {"snapshot", "off"}
    \/ At("claims") /\ m \in worker.claims \cup worker.orphans
    \/ At("orphans") /\ m \in worker.orphans

\* A queue write failed, or a flag ended a run it was not meant for.
Disturbed == spent.faults > 0 \/ spent.stale

\* Otherwise a row in an active status or under a cancel claim always has an
\* owner: no exit of a run, no shutdown and no cancellation that races with it
\* leaves a meeting stuck in progress until a restart.
RowsOwned ==
    ~Disturbed =>
        \A m \in Meetings : Active(m) \/ HasCancelClaim(jobs[m]) => Owned(m)

\* A meeting is completed only with all its pipeline steps checkpointed, also
\* where completion is forced over a refused transition or reconciled.
CompletedMeansFinished ==
    \A m \in Meetings : jobs[m].status = "completed" => progress[m] = Finished

\* A row taken out of progress and back into the queue keeps its request, and
\* only the shutdown handler and the startup recovery take it there.
KeepsRequest(m) ==
    Active(m) /\ jobs'[m].status = "queued" =>
        /\ jobs'[m].action = jobs[m].action
        /\ jobs'[m].selection = jobs[m].selection
        /\ jobs'[m].retries = jobs[m].retries
        /\ worker.pc \in {"requeue", "orphans"}

\* An interrupted run, whether by shutdown or by a crash, is queued again as it
\* was requested: same intent, same model, same retry budget.
InterruptionKeepsRequest == [][\A m \in Meetings : KeepsRequest(m)]_pvars

\* An accepted cancellation takes effect, through completion, failure, shutdown
\* or restart, if the worker is not disturbed and a stopped process starts again.
CancelSettles ==
    \A m \in Meetings :
        HasCancelClaim(jobs[m]) ~>
            (~HasCancelClaim(jobs[m]) \/ At("off") \/ Disturbed)

\* A run the worker has begun comes to an end.
RunEnds == worker.pc \in RunPcs ~> worker.pc \notin RunPcs

\* What the comment on dropping an old flag defends against (meeting_detail.py:
\* 1733, 1914, 2301): a run is not cancelled by the flag of an earlier one.  A
\* run ends as cancelled by the user only from its own durable claim.
NoStaleCancel ==
    [][\A m \in Meetings :
          Active(m) /\ jobs'[m].status = "recorded" =>
              jobs'[m].error # "cancelled"]_pvars

\* What reconcile_job_state_for_response says (meeting_detail.py:1208): it
\* repairs a completed checkpoint that conflicts with a failed job.
ReconcilesOnlyFailed ==
    [][\A m \in Meetings :
          ReconcileForces(m) /\ jobs'[m] # jobs[m] => jobs[m].status = "failed"]_pvars

\* What claim_queued_job_for_processing says (job_queue.py:1990): the worker
\* does not run a stale snapshot.  A run has the intent of the row it claimed.
RunsClaimedRequest ==
    worker.pc \in RunPcs /\ Active(Here) => worker.intent = jobs[Here].action.intent
==============================================================================

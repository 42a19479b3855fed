------------------------------- MODULE JobRows -------------------------------
(***************************************************************************)
(* The jobs table of core/job_queue.py.  Every public operation is one      *)
(* SQLite transaction under `_write_lock`, so each is one atomic action on  *)
(* the variable `jobs`; what its callers do around it is in the modules     *)
(* that extend this one.                                                    *)
(*                                                                          *)
(* A row keeps the columns the operations read: status, requested_action    *)
(* (`action`), retry_count (`retries`), error_message (`error`) and the     *)
(* pinned STT provider/model (`selection`).  requested_action holds either  *)
(* an execution intent or one of six JSON payloads; a payload is a record   *)
(* whose `kind` tells it from the others, as the strict parsers do.  Row    *)
(* ids are never reused (AUTOINCREMENT): a row is named by its meeting and  *)
(* an operation on a deleted row is not enabled (JobNotFoundError).         *)
(***************************************************************************)
EXTENDS Naturals

CONSTANTS
    Meetings,        \* meeting_id values (UNIQUE in the table)
    Tokens,          \* uuid4 claim tokens
    Intents,         \* requested_action intents: "", "transcribe", "full"
    DefaultIntent,   \* the empty requested_action
    Selections,      \* (stt_provider, stt_model) snapshots
    MaxRetries       \* JobQueue.max_retries, bound of retry_count

ASSUME IntentAssumption == DefaultIntent \in Intents
ASSUME RetryAssumption == MaxRetries \in Nat

VARIABLE jobs

------------------------------------------------------------------------------
(* Row contents. *)

ActiveStatuses == {"transcribing", "diarizing", "merging", "embedding"}

Statuses ==
    {"recorded", "queued", "recording", "completed", "failed"} \cup ActiveStatuses

ValidTransitions ==
    [recorded     |-> {"queued", "failed"},
     queued       |-> {"recording", "transcribing", "failed"},
     recording    |-> {"transcribing", "failed"},
     transcribing |-> {"diarizing", "failed"},
     diarizing    |-> {"merging", "failed"},
     merging      |-> {"embedding", "completed", "failed"},
     embedding    |-> {"completed", "failed"},
     completed    |-> {},
     failed       |-> {"queued"}]

\* error_message, as far as any reader tells its values apart: "" / user
\* cancelled / cancellation accepted / any other text.
Errors == {"none", "cancelled", "cancelling", "other"}

Plain(intent) == [kind |-> "plain", intent |-> intent]
NoAction == Plain(DefaultIntent)
PlainActions == [kind : {"plain"}, intent : Intents]

Holds ==
    [kind : {"hold"}, status : {"queued", "failed"}, action : PlainActions,
     token : Tokens]

CancelClaims ==
    [kind : {"cancel"}, status : ActiveStatuses, action : PlainActions,
     token : Tokens]

RejectionClaims ==
    [kind : {"reject"}, status : {"recorded", "queued", "failed"},
     action : PlainActions, token : Tokens]

DeletePhases == {"claimed", "quarantining", "quarantined", "purging", "committing"}

\* `sourced`: the claim pins the source and quarantine paths and the source
\* identity, without which the parser refuses the quarantining phase.  The
\* claimed row may itself have been an audio-admission hold.
DeleteClaims ==
    {c \in [kind : {"delete"}, status : {"recorded", "completed", "failed"},
            action : PlainActions \cup Holds, error : Errors, token : Tokens,
            phase : DeletePhases, sourced : BOOLEAN] :
        c.phase = "quarantining" => c.sourced}

ABClaims ==
    [kind : {"ab"}, status : {"completed"}, action : PlainActions,
     error : Errors, token : Tokens]

RetranscribePhases == {"claimed", "staging", "purging", "committing"}

RetranscribeClaims ==
    [kind : {"retranscribe"}, status : {"completed", "failed"},
     action : PlainActions, selection : Selections, requested : Selections,
     token : Tokens, phase : RetranscribePhases]

Claims ==
    CancelClaims \cup RejectionClaims \cup DeleteClaims \cup ABClaims
        \cup RetranscribeClaims

Actions == PlainActions \cup Holds \cup Claims
RetryCounts == 0..MaxRetries

Rows ==
    [status : Statuses, action : Actions, retries : RetryCounts,
     error : Errors, selection : Selections]

Gone == [status |-> "gone"]     \* no row for this meeting

Row(status, action, retries, error, selection) ==
    [status |-> status, action |-> action, retries |-> retries,
     error |-> error, selection |-> selection]

\* _has_durable_requested_action
Durable(row) == row.action.kind # "plain"

\* A recording row that holds a claim of this kind and token.
Claimed(row, kind, token) ==
    /\ row.status = "recording"
    /\ row.action.kind = kind
    /\ row.action.token = token

\* A delete claim that carries a hold was taken on a recorded row.
HoldInsideRecorded(action) ==
    action \in DeleteClaims /\ action.action \in Holds => action.status = "recorded"

\* Status and payload of a row agree (ClaimCoherence of JobQueue).
Coherent(row) ==
    /\ row.status = "recording" <=> row.action \in Claims
    /\ row.action \in Holds => row.status = "recorded"
    /\ HoldInsideRecorded(row.action)

Store(m, row) == jobs' = [jobs EXCEPT ![m] = row]

------------------------------------------------------------------------------
(* Registration and ordinary transitions. *)

AddJob(m, status, selection) ==
    /\ jobs[m] = Gone
    /\ Store(m, Row(status, NoAction, 0, "none", selection))

\* Mutant: the ordinary transition ignores a durable payload.
UpdatesOverPayload(row, new) ==
    row.status \in Statuses /\ new \in {"queued", "failed", "completed"}

CanUpdateStatus(row, new) ==
    /\ row.status \in Statuses
    /\ ~Durable(row)
    /\ new \in ValidTransitions[row.status]

UpdateStatus(m, new, error) ==
    /\ CanUpdateStatus(jobs[m], new)
    /\ Store(m, [jobs[m] EXCEPT
                    !.status = new,
                    !.action = IF new = "queued" THEN NoAction ELSE @,
                    !.error = IF new = "failed" THEN error ELSE "none"])

\* Mutant: recovery forces a status over a durable payload.
ForcesOverPayload(row) == row.status \in Statuses

CanForceSetStatus(row) == row.status \in Statuses /\ ~Durable(row)

\* Mutant: a forced requeue drops the intent, as a forced recorded does.
ForceForgetsIntent(m, new, error) ==
    /\ CanForceSetStatus(jobs[m])
    /\ Store(m, [jobs[m] EXCEPT !.status = new, !.action = NoAction, !.error = error])

ForceSetStatus(m, new, error) ==
    /\ CanForceSetStatus(jobs[m])
    /\ Store(m, [jobs[m] EXCEPT
                    !.status = new,
                    !.action = IF new = "recorded" THEN NoAction ELSE @,
                    !.error = error])

ClaimQueuedJobForProcessing(m) ==
    /\ jobs[m].status = "queued"
    /\ Store(m, [jobs[m] EXCEPT !.status = "transcribing", !.error = "none"])

CancelQueuedJob(m) ==
    /\ jobs[m].status = "queued"
    /\ Store(m, [jobs[m] EXCEPT
                    !.status = "recorded", !.action = NoAction, !.error = "cancelled"])

Requeued(row, action, selection) ==
    [row EXCEPT !.status = "queued", !.action = action, !.error = "none",
                !.selection = selection]

QueueJob(m, intent, selection) ==
    /\ jobs[m].status \in {"recorded", "failed"}
    /\ Store(m, Requeued(jobs[m], Plain(intent), selection))

QueueFailedJob(m, selection) ==
    /\ jobs[m].status = "failed"
    /\ Store(m, Requeued(jobs[m], NoAction, selection))

QueueJobsAtomically(batch, intent, selection) ==
    /\ \A m \in batch : jobs[m].status = "recorded"
    /\ jobs' = [m \in Meetings |->
                   IF m \in batch THEN Requeued(jobs[m], Plain(intent), selection)
                   ELSE jobs[m]]

Retried(row, selection) ==
    [row EXCEPT !.status = "queued", !.retries = @ + 1, !.error = "none",
                !.selection = selection]

\* Mutant: one retry too many.
RetriesOnceMore(row) == row.status = "failed" /\ row.retries <= MaxRetries

CanRetry(row) == row.status = "failed" /\ row.retries < MaxRetries

RetryJob(m, selection) ==
    /\ CanRetry(jobs[m])
    /\ Store(m, Retried(jobs[m], selection))

RetryAllFailed ==
    jobs' = [m \in Meetings |->
                IF CanRetry(jobs[m]) THEN Retried(jobs[m], jobs[m].selection)
                ELSE jobs[m]]

------------------------------------------------------------------------------
(* Audio-admission holds and audio rejections (the watcher's re-audit). *)

HoldJobForAudioAdmission(m, token) ==
    /\ jobs[m].status \in {"queued", "failed"}
    /\ Store(m, [jobs[m] EXCEPT
                    !.status = "recorded",
                    !.action = [kind |-> "hold", status |-> jobs[m].status,
                                action |-> jobs[m].action, token |-> token],
                    !.error = "none"])

CanFinalizeHold(row, token) ==
    /\ row.status = "recorded"
    /\ row.action.kind = "hold"
    /\ row.action.token = token

\* Mutant: an accepted hold queues the job without its intent.
HoldLosesIntent(row) ==
    [row EXCEPT !.status = IF row.action.status = "queued" THEN "queued" ELSE @,
                !.action = NoAction, !.error = "none"]

HoldReleased(row) ==
    IF row.action.status = "queued"
    THEN [row EXCEPT !.status = "queued", !.action = row.action.action, !.error = "none"]
    ELSE [row EXCEPT !.action = NoAction, !.error = "none"]

FinalizeAudioAdmissionHold(m, token) ==
    /\ CanFinalizeHold(jobs[m], token)
    /\ Store(m, HoldReleased(jobs[m]))

\* Mutant: a rejection saves the hold it replaces as it is.
SavesHold(row) == row

\* What a row was before the hold, if there is one.
Underlying(row) ==
    IF row.status = "recorded" /\ row.action.kind = "hold"
    THEN row.action
    ELSE row

ClaimForAudioRejection(m, token) ==
    /\ jobs[m].status \in {"recorded", "queued", "failed"}
    /\ Store(m, [jobs[m] EXCEPT
                    !.status = "recording",
                    !.action = [kind |-> "reject", token |-> token,
                                status |-> Underlying(jobs[m]).status,
                                action |-> Underlying(jobs[m]).action],
                    !.error = "none"])

FinalizeAudioRejection(m, token) ==
    /\ Claimed(jobs[m], "reject", token)
    /\ Store(m, Gone)

------------------------------------------------------------------------------
(* Cancelling a running job. *)

CanClaimForCancellation(row) == row.status \in ActiveStatuses /\ ~Durable(row)

ClaimActiveJobForCancellation(m, token) ==
    /\ CanClaimForCancellation(jobs[m])
    /\ Store(m, [jobs[m] EXCEPT
                    !.status = "recording",
                    !.action = [kind |-> "cancel", status |-> jobs[m].status,
                                action |-> jobs[m].action, token |-> token],
                    !.error = "cancelling"])

HasCancelClaim(row) == row.status = "recording" /\ row.action.kind = "cancel"

FinalizeCancellationClaim(m) ==
    /\ HasCancelClaim(jobs[m])
    /\ Store(m, [jobs[m] EXCEPT
                    !.status = "recorded", !.action = NoAction, !.error = "cancelled"])

------------------------------------------------------------------------------
(* Meeting deletion. *)

\* Mutant: a deletion does not save the payload it replaces.
DeletionForgetsPayload(m, token) ==
    /\ jobs[m].status \in {"recorded", "completed", "failed"}
    /\ Store(m, [jobs[m] EXCEPT
                    !.status = "recording",
                    !.action = [kind |-> "delete", status |-> jobs[m].status,
                                action |-> NoAction, error |-> jobs[m].error,
                                token |-> token, phase |-> "claimed",
                                sourced |-> FALSE],
                    !.error = "none"])

\* Mutant: a deletion takes the row from a cancellation that is not finished.
DeletionPreempts(m, token) ==
    /\ jobs[m].status \in {"recorded", "completed", "failed", "recording"}
    /\ Store(m, [jobs[m] EXCEPT
                    !.status = "recording",
                    !.action = [kind |-> "delete", status |-> "recorded",
                                action |-> NoAction, error |-> jobs[m].error,
                                token |-> token, phase |-> "claimed",
                                sourced |-> FALSE],
                    !.error = "none"])

ClaimForDeletion(m, token) ==
    /\ jobs[m].status \in {"recorded", "completed", "failed"}
    /\ Store(m, [jobs[m] EXCEPT
                    !.status = "recording",
                    !.action = [kind |-> "delete", status |-> jobs[m].status,
                                action |-> jobs[m].action, error |-> jobs[m].error,
                                token |-> token, phase |-> "claimed",
                                sourced |-> FALSE],
                    !.error = "none"])

CanRestoreDeleteClaim(row, token) == Claimed(row, "delete", token)

RestoreDeleteClaim(m, token) ==
    /\ CanRestoreDeleteClaim(jobs[m], token)
    /\ Store(m, [jobs[m] EXCEPT
                    !.status = jobs[m].action.status,
                    !.action = jobs[m].action.action,
                    !.error = jobs[m].action.error])

CanPrepareDeleteQuarantine(row, token) ==
    Claimed(row, "delete", token) /\ row.action.phase = "claimed"

\* Mutant: the phase moves on before the paths are pinned.
PreparesWithoutSource(m, token) ==
    /\ CanPrepareDeleteQuarantine(jobs[m], token)
    /\ Store(m, [jobs[m] EXCEPT !.action.phase = "quarantining"])

PrepareDeleteQuarantine(m, token) ==
    /\ CanPrepareDeleteQuarantine(jobs[m], token)
    /\ Store(m, [jobs[m] EXCEPT !.action.phase = "quarantining",
                                !.action.sourced = TRUE])

DeletePhaseSources ==
    [quarantined |-> {"claimed", "quarantining"},
     purging     |-> {"quarantined"},
     committing  |-> {"purging"}]

CanUpdateDeleteClaimPhase(row, token, phase) ==
    /\ Claimed(row, "delete", token)
    /\ row.action.phase \in DeletePhaseSources[phase]
    /\ row.action.phase = "claimed" => ~row.action.sourced

UpdateDeleteClaimPhase(m, token, phase) ==
    /\ CanUpdateDeleteClaimPhase(jobs[m], token, phase)
    /\ Store(m, [jobs[m] EXCEPT !.action.phase = phase])

CanDeleteClaimedJob(row, token) ==
    Claimed(row, "delete", token) /\ row.action.phase = "committing"

DeleteClaimedJob(m, token) ==
    /\ CanDeleteClaimedJob(jobs[m], token)
    /\ Store(m, Gone)

------------------------------------------------------------------------------
(* STT A/B source lease. *)

ClaimForSTTABTest(m, token) ==
    /\ jobs[m].status = "completed"
    /\ Store(m, [jobs[m] EXCEPT
                    !.status = "recording",
                    !.action = [kind |-> "ab", status |-> "completed",
                                action |-> jobs[m].action, error |-> jobs[m].error,
                                token |-> token],
                    !.error = "none"])

RestoreSTTABTestClaim(m, token) ==
    /\ Claimed(jobs[m], "ab", token)
    /\ Store(m, [jobs[m] EXCEPT
                    !.status = jobs[m].action.status,
                    !.action = jobs[m].action.action,
                    !.error = jobs[m].action.error])

------------------------------------------------------------------------------
(* Re-transcription. *)

ClaimForRetranscribe(m, token, requested) ==
    /\ jobs[m].status \in {"completed", "failed"}
    /\ Store(m, [jobs[m] EXCEPT
                    !.status = "recording",
                    !.action = [kind |-> "retranscribe", status |-> jobs[m].status,
                                action |-> jobs[m].action,
                                selection |-> jobs[m].selection,
                                requested |-> requested,
                                token |-> token, phase |-> "claimed"]])

RetranscribePhaseSource ==
    [staging |-> "claimed", purging |-> "staging", committing |-> "purging"]

UpdateRetranscribeClaimPhase(m, token, phase) ==
    /\ Claimed(jobs[m], "retranscribe", token)
    /\ jobs[m].action.phase = RetranscribePhaseSource[phase]
    /\ Store(m, [jobs[m] EXCEPT !.action.phase = phase])

RestoreRetranscribeClaim(m, token) ==
    /\ Claimed(jobs[m], "retranscribe", token)
    /\ Store(m, [jobs[m] EXCEPT
                    !.status = jobs[m].action.status,
                    !.action = jobs[m].action.action,
                    !.selection = jobs[m].action.selection])

ResetForRetranscribe(m, token) ==
    /\ Claimed(jobs[m], "retranscribe", token)
    /\ jobs[m].action.phase = "committing"
    /\ Store(m, Row("queued", NoAction, 0, "none", jobs[m].action.requested))
==============================================================================

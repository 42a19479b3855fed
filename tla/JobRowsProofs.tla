---------------------------- MODULE JobRowsProofs ----------------------------
(***************************************************************************)
(* Every operation of the jobs table writes well-formed rows in which      *)
(* status and payload agree: lemmas for the proofs about JobQueue and the  *)
(* modules that call it, for every set of meetings, tokens, intents and    *)
(* selections and every retry limit.                                       *)
(***************************************************************************)
EXTENDS JobRows, TLAPS

GoodRow(row) == row \in Rows /\ Coherent(row)

\* The part of the inductive invariant that speaks of the table alone.
GoodTable ==
    /\ jobs \in [Meetings -> Rows \cup {Gone}]
    /\ \A m \in Meetings : jobs[m] # Gone => Coherent(jobs[m])

------------------------------------------------------------------------------
(* Lemmas about rows and payloads. *)

\* The kind of a payload tells which set it belongs to, as the strict parsers do.
LEMMA KindOfAction ==
    ASSUME NEW action \in Actions
    PROVE  /\ action \in PlainActions <=> action.kind = "plain"
           /\ action \in Holds <=> action.kind = "hold"
           /\ action \in CancelClaims <=> action.kind = "cancel"
           /\ action \in RejectionClaims <=> action.kind = "reject"
           /\ action \in DeleteClaims <=> action.kind = "delete"
           /\ action \in ABClaims <=> action.kind = "ab"
           /\ action \in RetranscribeClaims <=> action.kind = "retranscribe"
           /\ action \in Claims <=>
                action.kind \in {"cancel", "reject", "delete", "ab", "retranscribe"}
  BY DEF Actions, PlainActions, Holds, Claims, CancelClaims, RejectionClaims,
         DeleteClaims, ABClaims, RetranscribeClaims

\* An intent on its own is a plain requested_action.
LEMMA PlainFits ==
    ASSUME NEW intent \in Intents
    PROVE  Plain(intent) \in PlainActions
  BY DEF Plain, PlainActions

\* The empty requested_action is plain.
LEMMA NoActionFits == NoAction \in PlainActions
  BY PlainFits, IntentAssumption DEF NoAction

\* A meeting whose row shows a status has a well-formed row.
LEMMA LiveRow ==
    ASSUME GoodTable, NEW m \in Meetings, jobs[m].status \in Statuses
    PROVE  GoodRow(jobs[m]) /\ jobs[m] # Gone
  <1>1. jobs[m] # Gone
    BY DEF Gone, Statuses, ActiveStatuses
  <1> QED
    BY <1>1 DEF GoodTable, GoodRow

\* Only recording and recorded rows carry a payload.
LEMMA PlainRow ==
    ASSUME NEW row, GoodRow(row), row.status \notin {"recording", "recorded"}
    PROVE  row.action \in PlainActions
  BY DEF GoodRow, Coherent, Rows, Actions

\* Outside recording a row carries an intent or an audio-admission hold.
LEMMA RecordedRow ==
    ASSUME NEW row, GoodRow(row), row.status # "recording"
    PROVE  row.action \in PlainActions \cup Holds
  BY DEF GoodRow, Coherent, Rows, Actions

\* Writing a well-formed row, or deleting one, keeps the table good.
LEMMA StoreGood ==
    ASSUME GoodTable, NEW m \in Meetings, NEW row, row = Gone \/ GoodRow(row),
           Store(m, row)
    PROVE  GoodTable'
  BY DEF GoodTable, GoodRow, Store

\* A plain payload fits every row that is not recording.
LEMMA PlainGood ==
    ASSUME NEW row \in Rows, row.status # "recording", row.action \in PlainActions
    PROVE  GoodRow(row)
  <1>1. row.action.kind = "plain" /\ row.action \in Actions
    BY DEF PlainActions, Actions
  <1> QED
    BY <1>1, KindOfAction DEF GoodRow, Coherent, HoldInsideRecorded

\* A claim payload makes a recording row coherent.
LEMMA ClaimedGood ==
    ASSUME NEW row \in Rows, row.status = "recording", row.action \in Claims,
           HoldInsideRecorded(row.action)
    PROVE  GoodRow(row)
  <1>1. row.action \in Actions
    BY DEF Actions
  <1> QED
    BY <1>1, KindOfAction DEF GoodRow, Coherent

\* A hold makes a recorded row coherent.
LEMMA HeldGood ==
    ASSUME NEW row \in Rows, row.status = "recorded", row.action \in Holds
    PROVE  GoodRow(row)
  <1>1. row.action \in Actions
    BY DEF Actions
  <1> QED
    BY <1>1, KindOfAction DEF GoodRow, Coherent, HoldInsideRecorded

------------------------------------------------------------------------------
(* Every operation keeps the table good. *)

\* add_job inserts a well-formed row.
LEMMA AddJobGood ==
    ASSUME GoodTable, NEW m \in Meetings, NEW status \in {"recorded", "queued"},
           NEW selection \in Selections, AddJob(m, status, selection)
    PROVE  GoodTable'
  <1> DEFINE row == Row(status, NoAction, 0, "none", selection)
  <1>1. row \in Rows
    BY NoActionFits, RetryAssumption
       DEF Row, Rows, Actions, Statuses, RetryCounts, Errors
  <1>2. row.status # "recording" /\ row.action \in PlainActions
    BY NoActionFits DEF Row
  <1>3. GoodRow(row)
    BY <1>1, <1>2, PlainGood
  <1> QED
    BY <1>3, StoreGood DEF AddJob

\* update_status keeps the table good: it refuses payloads, never enters recording.
LEMMA UpdateStatusGood ==
    ASSUME GoodTable, NEW m \in Meetings, NEW new \in Statuses \ {"recording"},
           NEW error \in Errors, UpdateStatus(m, new, error)
    PROVE  GoodTable'
  <1> DEFINE old == jobs[m]
  <1> DEFINE row == [old EXCEPT !.status = new,
                                !.action = IF new = "queued" THEN NoAction ELSE @,
                                !.error = IF new = "failed" THEN error ELSE "none"]
  <1>1. GoodRow(old) /\ old.action.kind = "plain"
    BY LiveRow DEF UpdateStatus, CanUpdateStatus, Durable
  <1>2. old.action \in PlainActions
    BY <1>1, KindOfAction DEF GoodRow, Rows
  <1>3. row \in Rows /\ row.status # "recording" /\ row.action \in PlainActions
    BY <1>1, <1>2, NoActionFits DEF GoodRow, Rows, Errors, Actions
  <1>4. GoodRow(row)
    BY <1>3, PlainGood
  <1> QED
    BY <1>4, StoreGood DEF UpdateStatus

\* force_set_status keeps the table good: it skips the transition map, not the payloads.
LEMMA ForceSetStatusGood ==
    ASSUME GoodTable, NEW m \in Meetings, NEW new \in Statuses \ {"recording"},
           NEW error \in Errors, ForceSetStatus(m, new, error)
    PROVE  GoodTable'
  <1> DEFINE old == jobs[m]
  <1> DEFINE row == [old EXCEPT !.status = new,
                                !.action = IF new = "recorded" THEN NoAction ELSE @,
                                !.error = error]
  <1>1. GoodRow(old) /\ old.action.kind = "plain"
    BY LiveRow DEF ForceSetStatus, CanForceSetStatus, Durable
  <1>2. old.action \in PlainActions
    BY <1>1, KindOfAction DEF GoodRow, Rows
  <1>3. row \in Rows /\ row.status # "recording" /\ row.action \in PlainActions
    BY <1>1, <1>2, NoActionFits DEF GoodRow, Rows, Actions
  <1>4. GoodRow(row)
    BY <1>3, PlainGood
  <1> QED
    BY <1>4, StoreGood DEF ForceSetStatus

\* claim_queued_job_for_processing keeps the table good.
LEMMA ClaimQueuedGood ==
    ASSUME GoodTable, NEW m \in Meetings, ClaimQueuedJobForProcessing(m)
    PROVE  GoodTable'
  <1> DEFINE old == jobs[m]
  <1> DEFINE row == [old EXCEPT !.status = "transcribing", !.error = "none"]
  <1>1. GoodRow(old) /\ old.action \in PlainActions
    BY LiveRow, PlainRow DEF ClaimQueuedJobForProcessing, Statuses
  <1>2. row \in Rows /\ row.status # "recording" /\ row.action \in PlainActions
    BY <1>1 DEF GoodRow, Rows, Errors, Statuses, ActiveStatuses
  <1> QED
    BY <1>2, PlainGood, StoreGood DEF ClaimQueuedJobForProcessing

\* A row whose status, action and error become recorded, none and cancelled.
LEMMA RecordedAsCancelledGood ==
    ASSUME GoodTable, NEW m \in Meetings, jobs[m] \in Rows,
           Store(m, [jobs[m] EXCEPT
                    !.status = "recorded", !.action = NoAction, !.error = "cancelled"])
    PROVE  GoodTable'
  <1> DEFINE old == jobs[m]
  <1> DEFINE row == [old EXCEPT !.status = "recorded", !.action = NoAction,
                                !.error = "cancelled"]
  <1>1. row \in Rows /\ row.status # "recording" /\ row.action \in PlainActions
    BY NoActionFits DEF Rows, Errors, Statuses, Actions
  <1> QED
    BY <1>1, PlainGood, StoreGood

\* cancel_queued_job keeps the table good.
LEMMA CancelQueuedGood ==
    ASSUME GoodTable, NEW m \in Meetings, CancelQueuedJob(m)
    PROVE  GoodTable'
  BY LiveRow, RecordedAsCancelledGood DEF CancelQueuedJob, Statuses, GoodRow

\* finalize_cancellation_claim keeps the table good.
LEMMA FinalizeCancellationGood ==
    ASSUME GoodTable, NEW m \in Meetings, FinalizeCancellationClaim(m)
    PROVE  GoodTable'
  BY LiveRow, RecordedAsCancelledGood
     DEF FinalizeCancellationClaim, HasCancelClaim, Statuses, GoodRow

\* A row that is queued again is well formed, whatever payload it had before.
LEMMA RequeuedGood ==
    ASSUME NEW row \in Rows, NEW action \in PlainActions, NEW selection \in Selections
    PROVE  GoodRow(Requeued(row, action, selection))
  <1> DEFINE new == Requeued(row, action, selection)
  <1>1. new \in Rows /\ new.status # "recording" /\ new.action \in PlainActions
    BY DEF Requeued, Rows, Errors, Statuses, Actions
  <1> QED
    BY <1>1, PlainGood

\* queue_job keeps the table good.
LEMMA QueueJobGood ==
    ASSUME GoodTable, NEW m \in Meetings, NEW intent \in Intents,
           NEW selection \in Selections, QueueJob(m, intent, selection)
    PROVE  GoodTable'
  <1>1. jobs[m] \in Rows
    BY LiveRow DEF QueueJob, Statuses, GoodRow
  <1>2. GoodRow(Requeued(jobs[m], Plain(intent), selection))
    BY <1>1, RequeuedGood, PlainFits
  <1> QED
    BY <1>2, StoreGood DEF QueueJob

\* queue_failed_job keeps the table good.
LEMMA QueueFailedGood ==
    ASSUME GoodTable, NEW m \in Meetings, NEW selection \in Selections,
           QueueFailedJob(m, selection)
    PROVE  GoodTable'
  <1>1. jobs[m] \in Rows
    BY LiveRow DEF QueueFailedJob, Statuses, GoodRow
  <1>2. GoodRow(Requeued(jobs[m], NoAction, selection))
    BY <1>1, RequeuedGood, NoActionFits
  <1> QED
    BY <1>2, StoreGood DEF QueueFailedJob

\* queue_jobs_atomically keeps every row of the table good.
LEMMA QueueBatchGood ==
    ASSUME GoodTable, NEW batch \in SUBSET Meetings, NEW intent \in Intents,
           NEW selection \in Selections, QueueJobsAtomically(batch, intent, selection)
    PROVE  GoodTable'
  <1>1. ASSUME NEW m \in Meetings
        PROVE  /\ jobs'[m] = Gone \/ GoodRow(jobs'[m])
    <2>1. CASE m \in batch
      <3>1. jobs[m] \in Rows
        BY <2>1, LiveRow DEF QueueJobsAtomically, Statuses, GoodRow
      <3> QED
        BY <2>1, <3>1, RequeuedGood, PlainFits DEF QueueJobsAtomically
    <2>2. CASE m \notin batch
      BY <2>2 DEF QueueJobsAtomically, GoodTable, GoodRow
    <2> QED
      BY <2>1, <2>2
  <1> QED
    BY <1>1 DEF GoodTable, GoodRow, QueueJobsAtomically

\* A retry of a row below the limit stays within the limit and is well formed.
LEMMA RetriedGood ==
    ASSUME NEW row, GoodRow(row), CanRetry(row), NEW selection \in Selections
    PROVE  GoodRow(Retried(row, selection))
  <1> DEFINE new == Retried(row, selection)
  <1>1. row \in Rows /\ row.action \in PlainActions
    BY PlainRow DEF CanRetry, GoodRow
  <1>2. row.retries + 1 \in RetryCounts
    BY <1>1, RetryAssumption DEF Rows, RetryCounts, CanRetry
  <1>3. new \in Rows /\ new.status # "recording" /\ new.action \in PlainActions
    BY <1>1, <1>2 DEF Retried, Rows, Errors, Statuses
  <1> QED
    BY <1>3, PlainGood

\* retry_job keeps the table good.
LEMMA RetryJobGood ==
    ASSUME GoodTable, NEW m \in Meetings, NEW selection \in Selections,
           RetryJob(m, selection)
    PROVE  GoodTable'
  <1>1. GoodRow(jobs[m]) /\ CanRetry(jobs[m])
    BY LiveRow DEF RetryJob, CanRetry, Statuses
  <1> QED
    BY <1>1, RetriedGood, StoreGood DEF RetryJob

\* retry_all_failed keeps every row of the table good.
LEMMA RetryAllGood ==
    ASSUME GoodTable, RetryAllFailed
    PROVE  GoodTable'
  <1>1. ASSUME NEW m \in Meetings
        PROVE  jobs'[m] = Gone \/ GoodRow(jobs'[m])
    <2>1. CASE CanRetry(jobs[m])
      <3>1. GoodRow(jobs[m]) /\ jobs[m].selection \in Selections
        BY <2>1, LiveRow DEF CanRetry, Statuses, GoodRow, Rows
      <3> QED
        BY <2>1, <3>1, RetriedGood DEF RetryAllFailed
    <2>2. CASE ~CanRetry(jobs[m])
      BY <2>2 DEF RetryAllFailed, GoodTable, GoodRow
    <2> QED
      BY <2>1, <2>2
  <1> QED
    BY <1>1 DEF GoodTable, GoodRow, RetryAllFailed

------------------------------------------------------------------------------
(* Operations that take, advance or end a claim or a hold. *)

\* Taking a claim writes a payload of Claims into a recording row.
LEMMA TakenGood ==
    ASSUME NEW row \in Rows, NEW claim \in Claims, HoldInsideRecorded(claim),
           NEW error \in Errors
    PROVE  /\ GoodRow([row EXCEPT !.status = "recording", !.action = claim,
                                  !.error = error])
           /\ GoodRow([row EXCEPT !.status = "recording", !.action = claim])
  <1> DEFINE new == [row EXCEPT !.status = "recording", !.action = claim, !.error = error]
  <1> DEFINE kept == [row EXCEPT !.status = "recording", !.action = claim]
  <1>1. new \in Rows /\ new.status = "recording" /\ new.action = claim
    BY DEF Rows, Statuses, Actions
  <1>2. kept \in Rows /\ kept.status = "recording" /\ kept.action = claim
    BY DEF Rows, Statuses, Actions
  <1> QED
    BY <1>1, <1>2, ClaimedGood

\* Giving a row back its status and action, with any error and selection.
LEMMA GivenBackGood ==
    ASSUME NEW row \in Rows, NEW status \in Statuses \ {"recording"},
           NEW action \in PlainActions \cup Holds,
           action \in Holds => status = "recorded",
           NEW error \in Errors, NEW selection \in Selections
    PROVE  /\ GoodRow([row EXCEPT !.status = status, !.action = action,
                                  !.error = error])
           /\ GoodRow([row EXCEPT !.status = status, !.action = action,
                                  !.selection = selection])
  <1> DEFINE new == [row EXCEPT !.status = status, !.action = action, !.error = error]
  <1> DEFINE kept == [row EXCEPT !.status = status, !.action = action,
                                 !.selection = selection]
  <1>1. /\ new \in Rows /\ new.status = status /\ new.action = action
        /\ kept \in Rows /\ kept.status = status /\ kept.action = action
    BY DEF Rows, Actions
  <1> QED
    BY <1>1, PlainGood, HeldGood

\* hold_job_for_audio_admission writes a hold its parser accepts on a recorded row.
LEMMA HoldGood ==
    ASSUME GoodTable, NEW m \in Meetings, NEW token \in Tokens,
           HoldJobForAudioAdmission(m, token)
    PROVE  GoodTable'
  <1> DEFINE old == jobs[m]
  <1> DEFINE hold == [kind |-> "hold", status |-> old.status,
                      action |-> old.action, token |-> token]
  <1> DEFINE row == [old EXCEPT !.status = "recorded", !.action = hold, !.error = "none"]
  <1>1. GoodRow(old) /\ old.action \in PlainActions
    BY LiveRow, PlainRow DEF HoldJobForAudioAdmission, Statuses
  <1>2. hold \in Holds
    BY <1>1 DEF Holds, HoldJobForAudioAdmission
  <1>3. row \in Rows /\ row.status = "recorded" /\ row.action \in Holds
    BY <1>1, <1>2 DEF GoodRow, Rows, Errors, Statuses, Actions
  <1> QED
    BY <1>3, HeldGood, StoreGood DEF HoldJobForAudioAdmission

\* finalize_audio_admission_hold keeps the table good.
LEMMA FinalizeHoldGood ==
    ASSUME GoodTable, NEW m \in Meetings, NEW token \in Tokens,
           FinalizeAudioAdmissionHold(m, token)
    PROVE  GoodTable'
  <1> DEFINE old == jobs[m]
  <1>1. GoodRow(old) /\ old.action.kind = "hold" /\ old.status = "recorded"
    BY LiveRow DEF FinalizeAudioAdmissionHold, CanFinalizeHold, Statuses
  <1>2. old \in Rows /\ old.action \in Holds
    BY <1>1, KindOfAction DEF GoodRow, Rows
  <1>3. old.action.action \in PlainActions
    BY <1>2 DEF Holds
  <1> DEFINE queued == [old EXCEPT !.status = "queued", !.action = old.action.action,
                                   !.error = "none"]
  <1> DEFINE waiting == [old EXCEPT !.action = NoAction, !.error = "none"]
  <1>4. queued \in Rows /\ queued.status # "recording" /\ queued.action \in PlainActions
    BY <1>2, <1>3 DEF Rows, Errors, Statuses, Actions
  <1>5. waiting \in Rows /\ waiting.status # "recording" /\ waiting.action \in PlainActions
    BY <1>1, <1>2, NoActionFits DEF Rows, Errors, Actions
  <1>6. GoodRow(HoldReleased(old))
    BY <1>4, <1>5, PlainGood DEF HoldReleased
  <1> QED
    BY <1>6, StoreGood DEF FinalizeAudioAdmissionHold

\* claim_for_audio_rejection writes a claim its parser accepts, taken through a hold.
LEMMA ClaimRejectionGood ==
    ASSUME GoodTable, NEW m \in Meetings, NEW token \in Tokens,
           ClaimForAudioRejection(m, token)
    PROVE  GoodTable'
  <1> DEFINE old == jobs[m]
  <1> DEFINE claim == [kind |-> "reject", token |-> token,
                       status |-> Underlying(old).status,
                       action |-> Underlying(old).action]
  <1>1. /\ GoodRow(old)
        /\ old \in Rows
        /\ old.status \in {"recorded", "queued", "failed"}
    BY LiveRow DEF ClaimForAudioRejection, Statuses, GoodRow
  <1>2. old.action \in PlainActions \cup Holds
    BY <1>1, RecordedRow
  <1>3. claim \in RejectionClaims
    <2>1. CASE old.action \in Holds
      <3>1. old.status = "recorded" /\ old.action.kind = "hold"
        BY <1>1, <2>1 DEF GoodRow, Coherent, Holds
      <3> QED
        BY <2>1, <3>1 DEF Underlying, Holds, RejectionClaims
    <2>2. CASE old.action \in PlainActions
      BY <1>1, <2>2 DEF Underlying, PlainActions, RejectionClaims
    <2> QED
      BY <1>2, <2>1, <2>2
  <1>4. claim \in Claims /\ HoldInsideRecorded(claim) /\ "none" \in Errors
    BY <1>3 DEF Claims, Errors, HoldInsideRecorded, DeleteClaims
  <1>5. GoodRow([old EXCEPT !.status = "recording", !.action = claim, !.error = "none"])
    BY <1>1, <1>4, TakenGood
  <1> QED
    BY <1>5, StoreGood DEF ClaimForAudioRejection

\* claim_active_job_for_cancellation writes a claim its parser accepts.
LEMMA ClaimCancellationGood ==
    ASSUME GoodTable, NEW m \in Meetings, NEW token \in Tokens,
           ClaimActiveJobForCancellation(m, token)
    PROVE  GoodTable'
  <1> DEFINE old == jobs[m]
  <1> DEFINE claim == [kind |-> "cancel", status |-> old.status,
                       action |-> old.action, token |-> token]
  <1>1. /\ GoodRow(old)
        /\ old \in Rows
        /\ old.status \in ActiveStatuses
        /\ old.action \in PlainActions
    BY LiveRow, PlainRow
       DEF ClaimActiveJobForCancellation, CanClaimForCancellation, Statuses,
           ActiveStatuses, GoodRow
  <1>2. claim \in Claims /\ HoldInsideRecorded(claim) /\ "cancelling" \in Errors
    BY <1>1 DEF CancelClaims, Claims, Errors, HoldInsideRecorded, DeleteClaims
  <1>3. GoodRow([old EXCEPT !.status = "recording", !.action = claim,
                            !.error = "cancelling"])
    BY <1>1, <1>2, TakenGood
  <1> QED
    BY <1>3, StoreGood DEF ClaimActiveJobForCancellation

\* A row that holds a claim of a known kind.
LEMMA ClaimedRow ==
    ASSUME GoodTable, NEW m \in Meetings, NEW kind, NEW token,
           Claimed(jobs[m], kind, token)
    PROVE  /\ jobs[m] \in Rows
           /\ jobs[m].action \in Claims
           /\ jobs[m].action \in Actions
           /\ jobs[m].action.kind = kind
  BY LiveRow DEF Claimed, Statuses, GoodRow, Coherent, Rows

\* Deleting a row keeps the table good.
LEMMA DropGood ==
    ASSUME GoodTable, NEW m \in Meetings, Store(m, Gone)
    PROVE  GoodTable'
  BY StoreGood

\* claim_for_deletion writes a claim its parser accepts, with a hold inside or not.
LEMMA ClaimDeletionGood ==
    ASSUME GoodTable, NEW m \in Meetings, NEW token \in Tokens,
           ClaimForDeletion(m, token)
    PROVE  GoodTable'
  <1> DEFINE old == jobs[m]
  <1> DEFINE claim == [kind |-> "delete", status |-> old.status, action |-> old.action,
                       error |-> old.error, token |-> token, phase |-> "claimed",
                       sourced |-> FALSE]
  <1>1. /\ GoodRow(old)
        /\ old \in Rows
        /\ old.status \in {"recorded", "completed", "failed"}
    BY LiveRow DEF ClaimForDeletion, Statuses, GoodRow
  <1>2. old.action \in PlainActions \cup Holds /\ old.error \in Errors
    BY <1>1, RecordedRow DEF Rows
  <1>3. claim \in DeleteClaims
    BY <1>1, <1>2 DEF DeleteClaims, DeletePhases
  <1>4. HoldInsideRecorded(claim)
    BY <1>1 DEF HoldInsideRecorded, GoodRow, Coherent
  <1>6. claim \in Claims /\ "none" \in Errors
    BY <1>3 DEF Claims, Errors
  <1>5. GoodRow([old EXCEPT !.status = "recording", !.action = claim, !.error = "none"])
    BY <1>1, <1>4, <1>6, TakenGood
  <1> QED
    BY <1>5, StoreGood DEF ClaimForDeletion

\* restore_delete_claim brings back a coherent row, its hold included.
LEMMA RestoreDeleteGood ==
    ASSUME GoodTable, NEW m \in Meetings, NEW token \in Tokens,
           RestoreDeleteClaim(m, token)
    PROVE  GoodTable'
  <1> DEFINE old == jobs[m]
  <1>1. old \in Rows /\ old.action \in DeleteClaims /\ old.status = "recording"
    BY ClaimedRow, KindOfAction DEF RestoreDeleteClaim, CanRestoreDeleteClaim, Claimed
  <1>2. /\ old.action.status \in Statuses \ {"recording"}
        /\ old.action.action \in PlainActions \cup Holds
        /\ old.action.error \in Errors
        /\ old.selection \in Selections
    BY <1>1 DEF DeleteClaims, Statuses, Rows
  <1>3. old.action.action \in Holds => old.action.status = "recorded"
    BY <1>1, LiveRow DEF GoodRow, Coherent, HoldInsideRecorded, Statuses
  <1>4. GoodRow([old EXCEPT !.status = old.action.status, !.action = old.action.action,
                            !.error = old.action.error])
    BY <1>1, <1>2, <1>3, GivenBackGood
  <1> QED
    BY <1>4, StoreGood DEF RestoreDeleteClaim

\* Rewriting the payload of a claimed row by another claim.
LEMMA AdvancedGood ==
    ASSUME GoodTable, NEW m \in Meetings, jobs[m] \in Rows,
           jobs[m].status = "recording", NEW claim \in Claims, HoldInsideRecorded(claim),
           Store(m, [jobs[m] EXCEPT !.action = claim])
    PROVE  GoodTable'
  <1> DEFINE row == [jobs[m] EXCEPT !.action = claim]
  <1>1. row \in Rows /\ row.status = "recording" /\ row.action = claim
    BY DEF Rows, Actions
  <1> QED
    BY <1>1, ClaimedGood, StoreGood

\* prepare_delete_quarantine keeps the claim one its parser accepts.
LEMMA PrepareQuarantineGood ==
    ASSUME GoodTable, NEW m \in Meetings, NEW token \in Tokens,
           PrepareDeleteQuarantine(m, token)
    PROVE  GoodTable'
  <1> DEFINE old == jobs[m]
  <1> DEFINE claim == [old.action EXCEPT !.phase = "quarantining", !.sourced = TRUE]
  <1>1. old \in Rows /\ old.action \in DeleteClaims /\ old.status = "recording"
    BY ClaimedRow, KindOfAction
       DEF PrepareDeleteQuarantine, CanPrepareDeleteQuarantine, Claimed
  <1>2. claim \in DeleteClaims
    BY <1>1 DEF DeleteClaims, DeletePhases
  <1>3. claim \in Claims /\ HoldInsideRecorded(claim)
    BY <1>1, <1>2, LiveRow
       DEF Claims, GoodRow, Coherent, HoldInsideRecorded, Statuses, DeleteClaims
  <1>4. [old EXCEPT !.action.phase = "quarantining", !.action.sourced = TRUE]
            = [old EXCEPT !.action = claim]
    OBVIOUS
  <1> QED
    BY <1>1, <1>3, <1>4, AdvancedGood DEF PrepareDeleteQuarantine

\* update_delete_claim_phase keeps the claim one its parser accepts.
LEMMA UpdateDeletePhaseGood ==
    ASSUME GoodTable, NEW m \in Meetings, NEW token \in Tokens,
           NEW phase \in DOMAIN DeletePhaseSources,
           UpdateDeleteClaimPhase(m, token, phase)
    PROVE  GoodTable'
  <1> DEFINE old == jobs[m]
  <1> DEFINE claim == [old.action EXCEPT !.phase = phase]
  <1>1. old \in Rows /\ old.action \in DeleteClaims /\ old.status = "recording"
    BY ClaimedRow, KindOfAction
       DEF UpdateDeleteClaimPhase, CanUpdateDeleteClaimPhase, Claimed
  <1>2. phase \in DeletePhases \ {"quarantining"}
    BY DEF DeletePhaseSources, DeletePhases
  <1>3. claim \in DeleteClaims
    BY <1>1, <1>2 DEF DeleteClaims
  <1>4. claim \in Claims /\ HoldInsideRecorded(claim)
    BY <1>1, <1>3, LiveRow
       DEF Claims, GoodRow, Coherent, HoldInsideRecorded, Statuses, DeleteClaims
  <1>5. [old EXCEPT !.action.phase = phase] = [old EXCEPT !.action = claim]
    OBVIOUS
  <1> QED
    BY <1>1, <1>4, <1>5, AdvancedGood DEF UpdateDeleteClaimPhase

\* claim_for_stt_ab_test writes a claim its parser accepts.
LEMMA ClaimABGood ==
    ASSUME GoodTable, NEW m \in Meetings, NEW token \in Tokens,
           ClaimForSTTABTest(m, token)
    PROVE  GoodTable'
  <1> DEFINE old == jobs[m]
  <1> DEFINE claim == [kind |-> "ab", status |-> "completed", action |-> old.action,
                       error |-> old.error, token |-> token]
  <1>1. GoodRow(old) /\ old \in Rows /\ old.action \in PlainActions
    BY LiveRow, PlainRow DEF ClaimForSTTABTest, Statuses, GoodRow
  <1>2. claim \in ABClaims
    BY <1>1 DEF ABClaims, Rows
  <1>3. claim \in Claims /\ HoldInsideRecorded(claim) /\ "none" \in Errors
    BY <1>2, KindOfAction DEF Claims, Errors, HoldInsideRecorded, Actions
  <1>4. GoodRow([old EXCEPT !.status = "recording", !.action = claim, !.error = "none"])
    BY <1>1, <1>3, TakenGood
  <1> QED
    BY <1>4, StoreGood DEF ClaimForSTTABTest

\* restore_stt_ab_test_claim brings back a coherent row.
LEMMA RestoreABGood ==
    ASSUME GoodTable, NEW m \in Meetings, NEW token \in Tokens,
           RestoreSTTABTestClaim(m, token)
    PROVE  GoodTable'
  <1> DEFINE old == jobs[m]
  <1>1. old \in Rows /\ old.action \in ABClaims
    BY ClaimedRow, KindOfAction DEF RestoreSTTABTestClaim
  <1>2. /\ old.action.status \in Statuses \ {"recording"}
        /\ old.action.action \in PlainActions
        /\ old.action.error \in Errors
        /\ old.selection \in Selections
    BY <1>1 DEF ABClaims, Statuses, Rows
  <1>3. old.action.action \notin Holds
    BY <1>2 DEF PlainActions, Holds
  <1>4. GoodRow([old EXCEPT !.status = old.action.status, !.action = old.action.action,
                            !.error = old.action.error])
    BY <1>1, <1>2, <1>3, GivenBackGood
  <1> QED
    BY <1>4, StoreGood DEF RestoreSTTABTestClaim

\* claim_for_retranscribe writes a claim its parser accepts.
LEMMA ClaimRetranscribeGood ==
    ASSUME GoodTable, NEW m \in Meetings, NEW token \in Tokens,
           NEW requested \in Selections, ClaimForRetranscribe(m, token, requested)
    PROVE  GoodTable'
  <1> DEFINE old == jobs[m]
  <1> DEFINE claim == [kind |-> "retranscribe", status |-> old.status,
                       action |-> old.action, selection |-> old.selection,
                       requested |-> requested, token |-> token, phase |-> "claimed"]
  <1>1. GoodRow(old) /\ old \in Rows /\ old.action \in PlainActions
    BY LiveRow, PlainRow DEF ClaimForRetranscribe, Statuses, GoodRow
  <1>2. claim \in RetranscribeClaims
    BY <1>1 DEF RetranscribeClaims, RetranscribePhases, Rows, ClaimForRetranscribe
  <1>3. claim \in Claims /\ HoldInsideRecorded(claim) /\ "none" \in Errors
    BY <1>2, KindOfAction DEF Claims, Errors, HoldInsideRecorded, Actions
  <1>4. GoodRow([old EXCEPT !.status = "recording", !.action = claim])
    BY <1>1, <1>3, TakenGood
  <1> QED
    BY <1>4, StoreGood DEF ClaimForRetranscribe

\* update_retranscribe_claim_phase keeps the claim one its parser accepts.
LEMMA UpdateRetranscribePhaseGood ==
    ASSUME GoodTable, NEW m \in Meetings, NEW token \in Tokens,
           NEW phase \in DOMAIN RetranscribePhaseSource,
           UpdateRetranscribeClaimPhase(m, token, phase)
    PROVE  GoodTable'
  <1> DEFINE old == jobs[m]
  <1> DEFINE claim == [old.action EXCEPT !.phase = phase]
  <1>1. old \in Rows /\ old.action \in RetranscribeClaims /\ old.status = "recording"
    BY ClaimedRow, KindOfAction DEF UpdateRetranscribeClaimPhase, Claimed
  <1>2. claim \in RetranscribeClaims
    BY <1>1 DEF RetranscribeClaims, RetranscribePhases, RetranscribePhaseSource
  <1>3. claim \in Claims /\ HoldInsideRecorded(claim)
    BY <1>2 DEF Claims, HoldInsideRecorded, DeleteClaims, RetranscribeClaims
  <1>4. [old EXCEPT !.action.phase = phase] = [old EXCEPT !.action = claim]
    OBVIOUS
  <1> QED
    BY <1>1, <1>3, <1>4, AdvancedGood DEF UpdateRetranscribeClaimPhase

\* restore_retranscribe_claim brings back a coherent row.
LEMMA RestoreRetranscribeGood ==
    ASSUME GoodTable, NEW m \in Meetings, NEW token \in Tokens,
           RestoreRetranscribeClaim(m, token)
    PROVE  GoodTable'
  <1> DEFINE old == jobs[m]
  <1>1. old \in Rows /\ old.action \in RetranscribeClaims
    BY ClaimedRow, KindOfAction DEF RestoreRetranscribeClaim
  <1>2. /\ old.action.status \in Statuses \ {"recording"}
        /\ old.action.action \in PlainActions
        /\ old.action.selection \in Selections
        /\ old.error \in Errors
    BY <1>1 DEF RetranscribeClaims, Statuses, Rows
  <1>3. old.action.action \notin Holds
    BY <1>2 DEF PlainActions, Holds
  <1>4. GoodRow([old EXCEPT !.status = old.action.status, !.action = old.action.action,
                            !.selection = old.action.selection])
    BY <1>1, <1>2, <1>3, GivenBackGood
  <1> QED
    BY <1>4, StoreGood DEF RestoreRetranscribeClaim

\* reset_for_retranscribe leaves a queued row with a fresh retry count.
LEMMA ResetForRetranscribeGood ==
    ASSUME GoodTable, NEW m \in Meetings, NEW token \in Tokens,
           ResetForRetranscribe(m, token)
    PROVE  GoodTable'
  <1> DEFINE old == jobs[m]
  <1> DEFINE row == Row("queued", NoAction, 0, "none", old.action.requested)
  <1>1. old \in Rows /\ old.action \in RetranscribeClaims
    BY ClaimedRow, KindOfAction DEF ResetForRetranscribe
  <1>2. row \in Rows
    BY <1>1, NoActionFits, RetryAssumption
       DEF Row, Rows, Actions, Statuses, RetryCounts, Errors, RetranscribeClaims
  <1>3. row.status # "recording" /\ row.action \in PlainActions
    BY NoActionFits DEF Row
  <1> QED
    BY <1>2, <1>3, PlainGood, StoreGood DEF ResetForRetranscribe
==============================================================================

--------------------------- MODULE JobQueueProofs ----------------------------
(***************************************************************************)
(* Type correctness and claim coherence of JobQueue, and what the table    *)
(* remembers: every stored payload says what the row was when its token    *)
(* was issued, so that ending a claim or a hold brings back what it put    *)
(* aside; and that it implements the abstract lease MeetingClaim.  Proved  *)
(* for every set of meetings, tokens, intents and selections and every     *)
(* retry limit.                                                            *)
(***************************************************************************)
EXTENDS JobQueue, JobRowsProofs

------------------------------------------------------------------------------
(* Types and coherence are invariants. *)

IInv == GoodTable /\ taken \in [Tokens -> Snapshots \cup {Unissued}]

\* A token is issued for a live row.
LEMMA IssueTyped ==
    ASSUME IInv, NEW m \in Meetings, NEW token \in Tokens, Issue(m, token),
           jobs[m] # Gone
    PROVE  (taken \in [Tokens -> Snapshots \cup {Unissued}])'
  <1>1. [meeting |-> m, row |-> jobs[m]] \in Snapshots
    BY DEF IInv, GoodTable, Snapshots
  <1> QED
    BY <1>1 DEF IInv, Issue

\* Taking a hold or a claim keeps the table good, and only a live row can be taken.
LEMMA TakeClaimGood ==
    ASSUME GoodTable, NEW m \in Meetings, NEW token \in Tokens, TakeClaim(m, token)
    PROVE  GoodTable' /\ jobs[m] # Gone
  <1>1. CASE HoldJobForAudioAdmission(m, token)
    BY <1>1, HoldGood, LiveRow DEF HoldJobForAudioAdmission, Statuses
  <1>2. CASE ClaimForAudioRejection(m, token)
    BY <1>2, ClaimRejectionGood, LiveRow DEF ClaimForAudioRejection, Statuses
  <1>3. CASE ClaimActiveJobForCancellation(m, token)
    BY <1>3, ClaimCancellationGood, LiveRow
       DEF ClaimActiveJobForCancellation, CanClaimForCancellation, Statuses
  <1>4. CASE ClaimForDeletion(m, token)
    BY <1>4, ClaimDeletionGood, LiveRow DEF ClaimForDeletion, Statuses
  <1>5. CASE ClaimForSTTABTest(m, token)
    BY <1>5, ClaimABGood, LiveRow DEF ClaimForSTTABTest, Statuses
  <1>6. CASE \E requested \in Selections : ClaimForRetranscribe(m, token, requested)
    BY <1>6, ClaimRetranscribeGood, LiveRow DEF ClaimForRetranscribe, Statuses
  <1> QED
    BY <1>1, <1>2, <1>3, <1>4, <1>5, <1>6 DEF TakeClaim

\* A phase change keeps the table good.
LEMMA AdvanceClaimGood ==
    ASSUME GoodTable, NEW m \in Meetings, NEW token \in Tokens, AdvanceClaim(m, token)
    PROVE  GoodTable'
  BY PrepareQuarantineGood, UpdateDeletePhaseGood, UpdateRetranscribePhaseGood
     DEF AdvanceClaim

\* Ending a hold or a claim keeps the table good.
LEMMA EndClaimGood ==
    ASSUME GoodTable, NEW m \in Meetings, NEW token \in Tokens, EndClaim(m, token)
    PROVE  GoodTable'
  <1>1. CASE FinalizeAudioRejection(m, token) \/ DeleteClaimedJob(m, token)
    BY <1>1, DropGood DEF FinalizeAudioRejection, DeleteClaimedJob
  <1> QED
    BY <1>1, FinalizeHoldGood, RestoreDeleteGood, RestoreABGood,
       RestoreRetranscribeGood, ResetForRetranscribeGood DEF EndClaim

\* The ordinary and forced transitions keep the table good.
LEMMA OrdinaryGood ==
    ASSUME GoodTable, NEW m \in Meetings, OrdinaryTransition(m)
    PROVE  GoodTable'
  <1>1. CASE \E new \in UpdateTargets : UpdateStatus(m, new, "other")
    BY <1>1, UpdateStatusGood DEF Errors, UpdateTargets
  <1>2. CASE \E new \in DOMAIN ForcedErrors :
                \E error \in ForcedErrors[new] : ForceSetStatus(m, new, error)
    <2>1. PICK new \in DOMAIN ForcedErrors :
             \E error \in ForcedErrors[new] : ForceSetStatus(m, new, error)
      BY <1>2
    <2>2. PICK error \in ForcedErrors[new] : ForceSetStatus(m, new, error)
      BY <2>1
    <2>3. error \in Errors /\ new \in Statuses \ {"recording"}
      BY <2>2 DEF ForcedErrors, Errors, Statuses
    <2> QED
      BY <2>2, <2>3, ForceSetStatusGood
  <1> QED
    BY <1>1, <1>2, ClaimQueuedGood, CancelQueuedGood DEF OrdinaryTransition

\* Queueing or retrying one job keeps the table good.
LEMMA EnqueueGood ==
    ASSUME GoodTable, NEW m \in Meetings, Enqueue(m)
    PROVE  GoodTable'
  BY QueueJobGood, QueueFailedGood, RetryJobGood DEF Enqueue

\* Queueing or retrying many jobs keeps the table good.
LEMMA EnqueueBatchGood ==
    ASSUME GoodTable, EnqueueBatch
    PROVE  GoodTable'
  BY QueueBatchGood, RetryAllGood DEF EnqueueBatch

\* Registering a meeting keeps the table good.
LEMMA RegisterGood ==
    ASSUME GoodTable, NEW m \in Meetings, Register(m)
    PROVE  GoodTable'
  BY AddJobGood DEF Register

\* The table stays typed and coherent, and the history variable typed, from
\* the empty table through any interleaving of the queue's operations.
THEOREM InductiveInvariant == Spec => []IInv
  <1>1. Init => IInv
    BY DEF Init, IInv, GoodTable
  <1>2. IInv /\ [Next]_vars => IInv'
    <2> SUFFICES ASSUME IInv, [Next]_vars PROVE IInv'
      OBVIOUS
    <2>1. GoodTable
      BY DEF IInv
    <2>2. CASE EnqueueBatch /\ UNCHANGED taken
      BY <2>1, <2>2, EnqueueBatchGood DEF IInv
    <2>3. CASE /\ \E m \in Meetings : Register(m) \/ OrdinaryTransition(m)
                    \/ Enqueue(m) \/ FinalizeCancellationClaim(m)
               /\ UNCHANGED taken
      BY <2>1, <2>3, RegisterGood, OrdinaryGood, EnqueueGood, FinalizeCancellationGood
         DEF IInv
    <2>4. CASE /\ \E m \in Meetings, token \in Tokens :
                    AdvanceClaim(m, token) \/ EndClaim(m, token)
               /\ UNCHANGED taken
      BY <2>1, <2>4, AdvanceClaimGood, EndClaimGood DEF IInv
    <2>5. CASE \E m \in Meetings, token \in Tokens :
                  TakeClaim(m, token) /\ Issue(m, token)
      BY <2>1, <2>5, TakeClaimGood, IssueTyped DEF IInv
    <2>6. CASE UNCHANGED vars
      BY <2>6 DEF IInv, GoodTable, vars
    <2> QED
      BY <2>2, <2>3, <2>4, <2>5, <2>6 DEF Next
  <1> QED
    BY <1>1, <1>2, PTL DEF Spec

\* Every reachable table is typed: in particular every stored claim is one its
\* parser accepts and no retry count passes max_retries.
THEOREM TypeCorrectness == Spec => []TypeOK
  <1>1. IInv => TypeOK
    BY DEF IInv, GoodTable, TypeOK
  <1> QED
    BY <1>1, InductiveInvariant, PTL

\* A row is recording exactly while one of the five claims owns it, and a hold
\* is only on a recorded row or inside the delete claim taken on one.
THEOREM Coherence == Spec => []ClaimCoherence
  <1>1. IInv => ClaimCoherence
    BY DEF IInv, GoodTable, ClaimCoherence, Live
  <1> QED
    BY <1>1, InductiveInvariant, PTL

------------------------------------------------------------------------------
(* What payloads remember.  ClaimsRemember is not inductive: a hold has to  *)
(* give back the selection and the retries of its origin too, through a     *)
(* deletion taken on it.                                                    *)

\* The row of meeting m still has what it had when `saved` was written, and
\* `saved` keeps what was overwritten then.
KeptFrom(history, m, row, saved) ==
    LET origin == history[saved.token]
    IN  /\ saved.token \in Tokens
        /\ origin # Unissued
        /\ origin.meeting = m
        /\ row.selection = origin.row.selection
        /\ row.retries = origin.row.retries
        /\ saved.kind = "reject" =>
              /\ saved.status = Underlying(origin.row).status
              /\ saved.action = Underlying(origin.row).action
        /\ saved.kind # "reject" =>
              /\ saved.status = origin.row.status
              /\ saved.action = origin.row.action
        /\ saved.kind \in {"delete", "ab"} => saved.error = origin.row.error
        /\ saved.kind = "retranscribe" =>
              /\ saved.selection = origin.row.selection
              /\ row.error = origin.row.error

RowKept(history, m, row) ==
    /\ row.action.kind # "plain" => KeptFrom(history, m, row, row.action)
    /\ row.action.kind = "delete" /\ row.action.action.kind = "hold" =>
          KeptFrom(history, m, row, row.action.action)

HistoryKept == \A m \in Meetings : jobs[m] # Gone => RowKept(taken, m, jobs[m])

HInv == IInv /\ HistoryKept

------------------------------------------------------------------------------
(* Writing rows. *)

\* A row that carries an intent only has nothing to remember.
LEMMA PlainKept ==
    ASSUME NEW history, NEW m, NEW row, row.action \in PlainActions
    PROVE  RowKept(history, m, row)
  BY DEF RowKept, PlainActions

\* Issuing a new token leaves what older payloads remember as it was.
LEMMA IssueKeeps ==
    ASSUME IInv, NEW m \in Meetings, NEW token \in Tokens, Issue(m, token),
           NEW other, NEW row, RowKept(taken, other, row)
    PROVE  RowKept(taken', other, row)
  <1>1. ASSUME NEW saved, KeptFrom(taken, other, row, saved)
        PROVE  KeptFrom(taken', other, row, saved)
    <2>1. saved.token # token /\ saved.token \in Tokens
      BY <1>1 DEF KeptFrom, Issue, Fresh
    <2>2. taken'[saved.token] = taken[saved.token]
      BY <2>1 DEF IInv, Issue
    <2> QED
      BY <1>1, <2>2 DEF KeptFrom
  <1> QED
    BY <1>1 DEF RowKept

\* Writing one row that remembers, or deleting it, under the same history.
LEMMA StoreKept ==
    ASSUME HInv, NEW m \in Meetings, NEW row, row = Gone \/ RowKept(taken, m, row),
           Store(m, row), UNCHANGED taken
    PROVE  HistoryKept'
  BY DEF HInv, IInv, GoodTable, HistoryKept, Store

\* Writing one row with the payload of a token that is issued with it.
LEMMA IssuedKept ==
    ASSUME HInv, NEW m \in Meetings, NEW token \in Tokens, Issue(m, token),
           NEW row, RowKept(taken', m, row), Store(m, row)
    PROVE  HistoryKept'
  <1>1. ASSUME NEW other \in Meetings, other # m, jobs[other] # Gone
        PROVE  RowKept(taken', other, jobs[other])
    BY <1>1, IssueKeeps DEF HInv, HistoryKept
  <1> QED
    BY <1>1 DEF HInv, IInv, GoodTable, HistoryKept, Store

\* What the ordinary operations do to a row: it is untouched, or its new
\* content carries an intent only and it was not recording.
PlainStep ==
    \A m \in Meetings :
        \/ jobs'[m] = jobs[m]
        \/ jobs'[m].action \in PlainActions /\ jobs[m].status # "recording"

\* One row written by an ordinary operation.
LEMMA StorePlain ==
    ASSUME GoodTable, NEW m \in Meetings, NEW row, Store(m, row),
           row.action \in PlainActions, jobs[m].status # "recording"
    PROVE  PlainStep
  BY DEF PlainStep, Store, GoodTable

\* A row that carries an intent only is not recording.
LEMMA PlainNotRecording ==
    ASSUME GoodTable, NEW m \in Meetings, jobs[m].status \in Statuses, ~Durable(jobs[m])
    PROVE  /\ jobs[m].status # "recording"
           /\ jobs[m].action \in PlainActions
           /\ jobs[m] \in Rows
  <1>1. GoodRow(jobs[m]) /\ jobs[m].action \in PlainActions
    BY LiveRow, KindOfAction DEF Durable, GoodRow, Rows
  <1>2. jobs[m].action \notin Claims
    BY <1>1, KindOfAction DEF GoodRow, Rows, Durable
  <1> QED
    BY <1>1, <1>2 DEF GoodRow, Coherent

\* The worker's claim, a cancellation of a queued job and the ordinary
\* transitions write an intent into a row no claim owns.
LEMMA OrdinaryPlain ==
    ASSUME GoodTable, NEW m \in Meetings, OrdinaryTransition(m)
    PROVE  PlainStep
  <1> DEFINE old == jobs[m]
  <1>1. ASSUME NEW new, NEW error,
               UpdateStatus(m, new, error) \/ ForceSetStatus(m, new, error)
        PROVE  PlainStep
    <2>1. old.status # "recording" /\ old.action \in PlainActions /\ old \in Rows
      BY <1>1, PlainNotRecording
         DEF UpdateStatus, CanUpdateStatus, ForceSetStatus, CanForceSetStatus
    <2>2. CASE UpdateStatus(m, new, error)
      <3> DEFINE row == [old EXCEPT !.status = new,
                                    !.action = IF new = "queued" THEN NoAction ELSE @,
                                    !.error = IF new = "failed" THEN error ELSE "none"]
      <3>1. row.action \in PlainActions
        BY <2>1, NoActionFits DEF Rows
      <3> QED
        BY <2>1, <2>2, <3>1, StorePlain DEF UpdateStatus
    <2>3. CASE ForceSetStatus(m, new, error)
      <3> DEFINE row == [old EXCEPT !.status = new,
                                    !.action = IF new = "recorded" THEN NoAction ELSE @,
                                    !.error = error]
      <3>1. row.action \in PlainActions
        BY <2>1, NoActionFits DEF Rows
      <3> QED
        BY <2>1, <2>3, <3>1, StorePlain DEF ForceSetStatus
    <2> QED
      BY <1>1, <2>2, <2>3
  <1>2. CASE ClaimQueuedJobForProcessing(m)
    <2>1. old \in Rows /\ old.action \in PlainActions /\ old.status # "recording"
      BY <1>2, LiveRow, PlainRow DEF ClaimQueuedJobForProcessing, Statuses, GoodRow
    <2>2. [old EXCEPT !.status = "transcribing", !.error = "none"].action \in PlainActions
      BY <2>1 DEF Rows
    <2> QED
      BY <1>2, <2>1, <2>2, StorePlain DEF ClaimQueuedJobForProcessing
  <1>3. CASE CancelQueuedJob(m)
    <2>1. old \in Rows /\ old.status # "recording"
      BY <1>3, LiveRow DEF CancelQueuedJob, Statuses, GoodRow
    <2>2. [old EXCEPT !.status = "recorded", !.action = NoAction,
                      !.error = "cancelled"].action \in PlainActions
      BY <2>1, NoActionFits DEF Rows
    <2> QED
      BY <1>3, <2>1, <2>2, StorePlain DEF CancelQueuedJob
  <1> QED
    BY <1>1, <1>2, <1>3 DEF OrdinaryTransition

\* A row queued again carries the intent it was queued with; a retried one
\* the intent it failed with.
LEMMA QueuedPlain ==
    ASSUME NEW row \in Rows, NEW action \in PlainActions, NEW selection
    PROVE  /\ Requeued(row, action, selection).action \in PlainActions
           /\ row.action \in PlainActions =>
                 Retried(row, selection).action \in PlainActions
  BY DEF Requeued, Retried, Rows

\* Registering, queueing and retrying write an intent into a row no claim owns.
LEMMA EnqueuePlain ==
    ASSUME GoodTable, NEW m \in Meetings, Register(m) \/ Enqueue(m)
    PROVE  PlainStep
  <1> DEFINE old == jobs[m]
  <1>1. CASE Register(m)
    <2>1. PICK status \in {"recorded", "queued"}, selection \in Selections :
             AddJob(m, status, selection)
      BY <1>1 DEF Register
    <2>2. Row(status, NoAction, 0, "none", selection).action \in PlainActions
      BY NoActionFits DEF Row
    <2>3. jobs'[m].action \in PlainActions /\ \A n \in Meetings \ {m} : jobs'[n] = jobs[n]
      BY <2>1, <2>2 DEF AddJob, Store, GoodTable
    <2>4. jobs[m].status # "recording"
      BY <2>1 DEF AddJob, Gone
    <2> QED
      BY <2>3, <2>4 DEF PlainStep
  <1>2. CASE Enqueue(m)
    <2>1. PICK selection \in Selections :
             \/ \E intent \in Intents : QueueJob(m, intent, selection)
             \/ QueueFailedJob(m, selection)
             \/ RetryJob(m, selection)
      BY <1>2 DEF Enqueue
    <2>2. old \in Rows /\ old.status # "recording"
      BY <2>1, LiveRow
         DEF QueueJob, QueueFailedJob, RetryJob, CanRetry, Statuses, GoodRow
    <2>3. CASE RetryJob(m, selection)
      <3>1. old.action \in PlainActions
        BY <2>3, LiveRow, PlainRow DEF RetryJob, CanRetry, Statuses
      <3> QED
        BY <2>2, <2>3, <3>1, NoActionFits, QueuedPlain, StorePlain DEF RetryJob
    <2> QED
      BY <2>1, <2>2, <2>3, PlainFits, NoActionFits, QueuedPlain, StorePlain
         DEF QueueJob, QueueFailedJob
  <1> QED
    BY <1>1, <1>2

\* So do the operations on many rows at once.
LEMMA EnqueueBatchPlain ==
    ASSUME GoodTable, EnqueueBatch
    PROVE  PlainStep
  <1>1. ASSUME NEW batch \in SUBSET Meetings, NEW intent \in Intents,
               NEW selection \in Selections,
               QueueJobsAtomically(batch, intent, selection), NEW m \in batch
        PROVE  jobs'[m].action \in PlainActions /\ jobs[m].status # "recording"
    <2>1. jobs[m] \in Rows /\ jobs[m].status # "recording"
      BY <1>1, LiveRow DEF QueueJobsAtomically, Statuses, GoodRow
    <2> QED
      BY <1>1, <2>1, PlainFits, QueuedPlain DEF QueueJobsAtomically
  <1>2. ASSUME RetryAllFailed, NEW m \in Meetings, CanRetry(jobs[m])
        PROVE  jobs'[m].action \in PlainActions /\ jobs[m].status # "recording"
    <2>1. jobs[m] \in Rows /\ jobs[m].action \in PlainActions
      BY <1>2, LiveRow, PlainRow DEF CanRetry, Statuses, GoodRow
    <2> QED
      BY <1>2, <2>1, NoActionFits, QueuedPlain DEF RetryAllFailed, CanRetry
  <1>3. CASE RetryAllFailed
    BY <1>2, <1>3 DEF RetryAllFailed, PlainStep
  <1>4. CASE \E batch \in (SUBSET Meetings) \ {{}}, intent \in Intents,
                selection \in Selections : QueueJobsAtomically(batch, intent, selection)
    <2>1. PICK batch \in SUBSET Meetings, intent \in Intents, selection \in Selections :
             QueueJobsAtomically(batch, intent, selection)
      BY <1>4
    <2>2. \A m \in Meetings \ batch : jobs'[m] = jobs[m]
      BY <2>1 DEF QueueJobsAtomically
    <2> QED
      BY <1>1, <2>1, <2>2 DEF PlainStep
  <1> QED
    BY <1>3, <1>4 DEF EnqueueBatch

\* An ordinary operation leaves nothing new to remember.
LEMMA PlainStepKept ==
    ASSUME HInv, PlainStep, UNCHANGED taken
    PROVE  HistoryKept'
  <1>1. ASSUME NEW m \in Meetings, jobs'[m] # Gone
        PROVE  RowKept(taken, m, jobs'[m])
    BY <1>1, PlainKept DEF HInv, HistoryKept, PlainStep
  <1> QED
    BY <1>1 DEF HistoryKept

------------------------------------------------------------------------------
(* Taking, advancing and ending claims and holds. *)

\* A payload written with a new token remembers the row it is written over.
LEMMA TakeClaimKept ==
    ASSUME HInv, NEW m \in Meetings, NEW token \in Tokens,
           TakeClaim(m, token), Issue(m, token)
    PROVE  HistoryKept'
  <1> DEFINE old == jobs[m]
  <1>0. /\ GoodTable
        /\ taken'[token] = [meeting |-> m, row |-> old]
        /\ taken'[token] # Unissued
    BY DEF HInv, IInv, Issue, Unissued
  <1>1. GoodRow(old) /\ old \in Rows /\ old # Gone /\ old.status # "recording"
    BY <1>0, LiveRow
       DEF TakeClaim, HoldJobForAudioAdmission, ClaimForAudioRejection,
           ClaimActiveJobForCancellation, CanClaimForCancellation, ClaimForDeletion,
           ClaimForSTTABTest, ClaimForRetranscribe, Statuses, ActiveStatuses, GoodRow
  <1>2. old.action \in PlainActions \cup Holds
    BY <1>1, RecordedRow
  <1>3. CASE HoldJobForAudioAdmission(m, token)
    <2> DEFINE hold == [kind |-> "hold", status |-> old.status,
                        action |-> old.action, token |-> token]
    <2> DEFINE row == [old EXCEPT !.status = "recorded", !.action = hold, !.error = "none"]
    <2>1. /\ row.action = hold
          /\ row.selection = old.selection
          /\ row.retries = old.retries
      BY <1>1 DEF Rows
    <2>2. RowKept(taken', m, row)
      BY <1>0, <2>1 DEF RowKept, KeptFrom
    <2> QED
      BY <1>3, <2>2, IssuedKept DEF HoldJobForAudioAdmission
  <1>4. CASE ClaimForAudioRejection(m, token)
    <2> DEFINE claim == [kind |-> "reject", token |-> token,
                         status |-> Underlying(old).status,
                         action |-> Underlying(old).action]
    <2> DEFINE row == [old EXCEPT !.status = "recording", !.action = claim, !.error = "none"]
    <2>1. /\ row.action = claim
          /\ row.selection = old.selection
          /\ row.retries = old.retries
      BY <1>1 DEF Rows
    <2>2. RowKept(taken', m, row)
      BY <1>0, <2>1 DEF RowKept, KeptFrom
    <2> QED
      BY <1>4, <2>2, IssuedKept DEF ClaimForAudioRejection
  <1>5. CASE ClaimActiveJobForCancellation(m, token)
    <2> DEFINE claim == [kind |-> "cancel", status |-> old.status,
                         action |-> old.action, token |-> token]
    <2> DEFINE row == [old EXCEPT !.status = "recording", !.action = claim,
                                  !.error = "cancelling"]
    <2>1. /\ row.action = claim
          /\ row.selection = old.selection
          /\ row.retries = old.retries
      BY <1>1 DEF Rows
    <2>2. RowKept(taken', m, row)
      BY <1>0, <2>1 DEF RowKept, KeptFrom
    <2> QED
      BY <1>5, <2>2, IssuedKept DEF ClaimActiveJobForCancellation
  <1>6. CASE ClaimForDeletion(m, token)
    <2> DEFINE claim == [kind |-> "delete", status |-> old.status, action |-> old.action,
                         error |-> old.error, token |-> token, phase |-> "claimed",
                         sourced |-> FALSE]
    <2> DEFINE row == [old EXCEPT !.status = "recording", !.action = claim, !.error = "none"]
    <2>1. /\ row.action = claim
          /\ row.selection = old.selection
          /\ row.retries = old.retries
      BY <1>1 DEF Rows
    <2>2. KeptFrom(taken', m, row, claim)
      BY <1>0, <2>1 DEF KeptFrom
    <2>3. ASSUME old.action.kind = "hold"
          PROVE  KeptFrom(taken', m, row, old.action)
      <3>1. RowKept(taken, m, old)
        BY <1>1 DEF HInv, HistoryKept
      <3>2. RowKept(taken', m, old)
        BY <3>1, IssueKeeps DEF HInv
      <3>3. KeptFrom(taken', m, old, old.action)
        BY <2>3, <3>2 DEF RowKept
      <3> QED
        BY <2>1, <2>3, <3>3 DEF KeptFrom
    <2>4. RowKept(taken', m, row)
      BY <2>1, <2>2, <2>3 DEF RowKept
    <2> QED
      BY <1>6, <2>4, IssuedKept DEF ClaimForDeletion
  <1>7. CASE ClaimForSTTABTest(m, token)
    <2> DEFINE claim == [kind |-> "ab", status |-> "completed", action |-> old.action,
                         error |-> old.error, token |-> token]
    <2> DEFINE row == [old EXCEPT !.status = "recording", !.action = claim, !.error = "none"]
    <2>1. /\ row.action = claim
          /\ row.selection = old.selection
          /\ row.retries = old.retries
      BY <1>1 DEF Rows
    <2>2. RowKept(taken', m, row)
      BY <1>0, <1>7, <2>1 DEF RowKept, KeptFrom, ClaimForSTTABTest
    <2> QED
      BY <1>7, <2>2, IssuedKept DEF ClaimForSTTABTest
  <1>8. CASE \E requested \in Selections : ClaimForRetranscribe(m, token, requested)
    <2> PICK requested \in Selections : ClaimForRetranscribe(m, token, requested)
      BY <1>8
    <2> DEFINE claim == [kind |-> "retranscribe", status |-> old.status,
                         action |-> old.action, selection |-> old.selection,
                         requested |-> requested, token |-> token, phase |-> "claimed"]
    <2> DEFINE row == [old EXCEPT !.status = "recording", !.action = claim]
    <2>1. /\ row.action = claim
          /\ row.selection = old.selection
          /\ row.retries = old.retries
          /\ row.error = old.error
      BY <1>1 DEF Rows
    <2>2. RowKept(taken', m, row)
      BY <1>0, <2>1 DEF RowKept, KeptFrom
    <2> QED
      BY <2>2, IssuedKept DEF ClaimForRetranscribe
  <1> QED
    BY <1>3, <1>4, <1>5, <1>6, <1>7, <1>8 DEF TakeClaim

\* A claim whose phase moves on remembers what it remembered.
LEMMA AdvancedKept ==
    ASSUME HInv, NEW m \in Meetings, NEW claim,
           jobs[m] \in Rows, jobs[m].action.kind \in {"delete", "retranscribe"},
           claim.kind = jobs[m].action.kind, claim.token = jobs[m].action.token,
           claim.status = jobs[m].action.status, claim.action = jobs[m].action.action,
           claim.kind = "delete" => claim.error = jobs[m].action.error,
           claim.kind = "retranscribe" => claim.selection = jobs[m].action.selection,
           Store(m, [jobs[m] EXCEPT !.action = claim]), UNCHANGED taken
    PROVE  HistoryKept'
  <1> DEFINE old == jobs[m]
  <1> DEFINE row == [old EXCEPT !.action = claim]
  <1>1. /\ row.action = claim
        /\ row.selection = old.selection
        /\ row.retries = old.retries
        /\ row.error = old.error
    BY DEF Rows
  <1>2. old # Gone
    BY DEF Rows, Gone, Statuses, ActiveStatuses
  <1>3. RowKept(taken, m, old)
    BY <1>2 DEF HInv, HistoryKept
  <1>4. KeptFrom(taken, m, row, claim)
    BY <1>1, <1>3 DEF RowKept, KeptFrom
  <1>5. ASSUME claim.kind = "delete", claim.action.kind = "hold"
        PROVE  KeptFrom(taken, m, row, claim.action)
    BY <1>1, <1>3, <1>5 DEF RowKept, KeptFrom
  <1>6. RowKept(taken, m, row)
    BY <1>1, <1>4, <1>5 DEF RowKept
  <1> QED
    BY <1>6, StoreKept

\* The row an operation of a claim's own protocol acts on.
LEMMA OwnedRow ==
    ASSUME HInv, NEW m \in Meetings, NEW token, NEW kind, Claimed(jobs[m], kind, token)
    PROVE  /\ jobs[m] \in Rows
           /\ jobs[m] # Gone
           /\ jobs[m].action \in Claims
           /\ jobs[m].action \in Actions
           /\ jobs[m].action.kind = kind
           /\ jobs[m].action.token = token
           /\ GoodRow(jobs[m])
           /\ KeptFrom(taken, m, jobs[m], jobs[m].action)
  <1>1. GoodTable /\ jobs[m].status = "recording" /\ jobs[m].action.token = token
    BY DEF HInv, IInv, Claimed
  <1>2. GoodRow(jobs[m]) /\ jobs[m] # Gone
    BY <1>1, LiveRow DEF Statuses
  <1>3. /\ jobs[m] \in Rows
        /\ jobs[m].action \in Claims
        /\ jobs[m].action \in Actions
        /\ jobs[m].action.kind = kind
    BY <1>1, ClaimedRow
  <1>4. kind # "plain"
    BY <1>3, KindOfAction
  <1> QED
    BY <1>1, <1>2, <1>3, <1>4 DEF HInv, HistoryKept, RowKept

\* How an operation rewrites the payload of a claimed row: the phase is the next
\* one, and everything the claim remembers is kept.
LEMMA Advance ==
    ASSUME HInv, NEW m \in Meetings, NEW token \in Tokens, AdvanceClaim(m, token)
    PROVE  \E claim :
              /\ jobs[m] \in Rows
              /\ jobs[m].action.kind \in {"delete", "retranscribe"}
              /\ claim.kind = jobs[m].action.kind
              /\ claim.token = jobs[m].action.token
              /\ claim.status = jobs[m].action.status
              /\ claim.action = jobs[m].action.action
              /\ claim.kind = "delete" => claim.error = jobs[m].action.error
              /\ claim.kind = "retranscribe" =>
                    claim.selection = jobs[m].action.selection
              /\ claim.phase \in PhaseSuccessors[jobs[m].action.phase]
              /\ jobs[m].status = "recording"
              /\ Store(m, [jobs[m] EXCEPT !.action = claim])
  <1> DEFINE old == jobs[m]
  <1>1. CASE PrepareDeleteQuarantine(m, token)
    <2> DEFINE claim == [old.action EXCEPT !.phase = "quarantining", !.sourced = TRUE]
    <2>1. /\ old \in Rows /\ old.status = "recording" /\ old.action.kind = "delete"
          /\ old.action \in DeleteClaims /\ old.action.phase = "claimed"
      BY <1>1, OwnedRow, KindOfAction
         DEF PrepareDeleteQuarantine, CanPrepareDeleteQuarantine, Claimed, Rows
    <2>2. /\ claim.kind = "delete" /\ claim.phase = "quarantining"
          /\ claim.token = old.action.token /\ claim.status = old.action.status
          /\ claim.action = old.action.action /\ claim.error = old.action.error
      BY <2>1 DEF DeleteClaims
    <2>3. Store(m, [old EXCEPT !.action = claim])
      BY <1>1 DEF PrepareDeleteQuarantine
    <2>4. claim.phase \in PhaseSuccessors[old.action.phase]
      BY <2>1, <2>2 DEF PhaseSuccessors
    <2> QED
      BY <2>1, <2>2, <2>3, <2>4
  <1>2. CASE \E phase \in DOMAIN DeletePhaseSources : UpdateDeleteClaimPhase(m, token, phase)
    <2> PICK phase \in DOMAIN DeletePhaseSources : UpdateDeleteClaimPhase(m, token, phase)
      BY <1>2
    <2> DEFINE claim == [old.action EXCEPT !.phase = phase]
    <2>1. /\ old \in Rows /\ old.status = "recording" /\ old.action.kind = "delete"
          /\ old.action \in DeleteClaims /\ old.action.phase \in DeletePhaseSources[phase]
      BY OwnedRow, KindOfAction
         DEF UpdateDeleteClaimPhase, CanUpdateDeleteClaimPhase, Claimed, Rows
    <2>2. /\ claim.kind = "delete" /\ claim.phase = phase
          /\ claim.token = old.action.token /\ claim.status = old.action.status
          /\ claim.action = old.action.action /\ claim.error = old.action.error
      BY <2>1 DEF DeleteClaims
    <2>3. Store(m, [old EXCEPT !.action = claim])
      BY DEF UpdateDeleteClaimPhase
    <2>4. claim.phase \in PhaseSuccessors[old.action.phase]
      BY <2>1, <2>2 DEF PhaseSuccessors, DeletePhaseSources
    <2> QED
      BY <2>1, <2>2, <2>3, <2>4
  <1>3. CASE \E phase \in DOMAIN RetranscribePhaseSource :
                UpdateRetranscribeClaimPhase(m, token, phase)
    <2> PICK phase \in DOMAIN RetranscribePhaseSource :
                UpdateRetranscribeClaimPhase(m, token, phase)
      BY <1>3
    <2> DEFINE claim == [old.action EXCEPT !.phase = phase]
    <2>1. /\ old \in Rows /\ old.status = "recording" /\ old.action.kind = "retranscribe"
          /\ old.action \in RetranscribeClaims
          /\ old.action.phase = RetranscribePhaseSource[phase]
      BY OwnedRow, KindOfAction DEF UpdateRetranscribeClaimPhase, Claimed, Rows
    <2>2. /\ claim.kind = "retranscribe" /\ claim.phase = phase
          /\ claim.token = old.action.token /\ claim.status = old.action.status
          /\ claim.action = old.action.action /\ claim.selection = old.action.selection
      BY <2>1 DEF RetranscribeClaims
    <2>3. Store(m, [old EXCEPT !.action = claim])
      BY DEF UpdateRetranscribeClaimPhase
    <2>4. claim.phase \in PhaseSuccessors[old.action.phase]
      BY <2>1, <2>2 DEF PhaseSuccessors, RetranscribePhaseSource
    <2> QED
      BY <2>1, <2>2, <2>3, <2>4
  <1> QED
    BY <1>1, <1>2, <1>3 DEF AdvanceClaim

\* Two rows with the same columns are the same row.
LEMMA SameRow ==
    ASSUME NEW row \in Rows, NEW other \in Rows, row.status = other.status,
           row.action = other.action, row.retries = other.retries,
           row.error = other.error, row.selection = other.selection
    PROVE  row = other
  BY DEF Rows

\* Undoing a claim brings back exactly the row its token was issued for.
LEMMA Restored ==
    ASSUME HInv, NEW m \in Meetings, NEW token \in Tokens,
           \/ RestoreDeleteClaim(m, token)
           \/ RestoreSTTABTestClaim(m, token)
           \/ RestoreRetranscribeClaim(m, token)
    PROVE  /\ jobs[m].action.token = token
           /\ jobs[m].action.kind \in {"delete", "ab", "retranscribe"}
           /\ Store(m, taken[token].row)
           /\ taken[token].row.action = jobs[m].action.action
  <1> DEFINE old == jobs[m]
  <1> DEFINE origin == taken[token].row
  <1>1. PICK kind \in {"delete", "ab", "retranscribe"} : Claimed(old, kind, token)
    BY DEF RestoreDeleteClaim, CanRestoreDeleteClaim, RestoreSTTABTestClaim,
           RestoreRetranscribeClaim
  <1>2. /\ old \in Rows /\ old.action.kind = kind /\ old.action.token = token
        /\ KeptFrom(taken, m, old, old.action)
    BY <1>1, OwnedRow
  <1>3. origin \in Rows
    BY <1>2 DEF HInv, IInv, KeptFrom, Snapshots
  <1>4. ASSUME NEW row \in Rows, row.status = old.action.status,
               row.action = old.action.action, row.retries = old.retries,
               row.error = origin.error, row.selection = origin.selection
        PROVE  row = origin
    BY <1>1, <1>2, <1>3, <1>4, SameRow DEF KeptFrom
  <1>5. CASE RestoreDeleteClaim(m, token) \/ RestoreSTTABTestClaim(m, token)
    <2> DEFINE row == [old EXCEPT !.status = old.action.status,
                                  !.action = old.action.action,
                                  !.error = old.action.error]
    <2>1. kind \in {"delete", "ab"}
      BY <1>2, <1>5, OwnedRow
         DEF RestoreDeleteClaim, CanRestoreDeleteClaim, RestoreSTTABTestClaim
    <2>2. Store(m, row)
      BY <1>5 DEF RestoreDeleteClaim, RestoreSTTABTestClaim
    <2>3. row.status = origin.status /\ row.action = origin.action
      BY <1>1, <1>2 DEF Rows, KeptFrom
    <2>4. row \in Rows
      <3>1. /\ origin.status \in Statuses /\ origin.action \in Actions
            /\ origin.error \in Errors
        BY <1>3 DEF Rows
      <3>2. old.action.error = origin.error
        BY <1>2, <2>1 DEF KeptFrom
      <3> QED
        BY <1>2, <2>3, <3>1, <3>2 DEF Rows
    <2>5. row = origin
      BY <1>2, <1>4, <2>1, <2>4 DEF KeptFrom, Rows
    <2> QED
      BY <1>1, <1>2, <2>2, <2>5 DEF KeptFrom
  <1>6. CASE RestoreRetranscribeClaim(m, token)
    <2> DEFINE row == [old EXCEPT !.status = old.action.status,
                                  !.action = old.action.action,
                                  !.selection = old.action.selection]
    <2>1. kind = "retranscribe"
      BY <1>2, <1>6, OwnedRow DEF RestoreRetranscribeClaim
    <2>2. Store(m, row)
      BY <1>6 DEF RestoreRetranscribeClaim
    <2>3. row.status = origin.status /\ row.action = origin.action
      BY <1>1, <1>2 DEF Rows, KeptFrom
    <2>4. row \in Rows
      <3>1. /\ origin.status \in Statuses /\ origin.action \in Actions
            /\ origin.selection \in Selections
        BY <1>3 DEF Rows
      <3>2. old.action.selection = origin.selection
        BY <1>2, <2>1 DEF KeptFrom
      <3> QED
        BY <1>2, <2>3, <3>1, <3>2 DEF Rows
    <2>5. row = origin
      BY <1>2, <1>4, <2>1, <2>4 DEF KeptFrom, Rows
    <2> QED
      BY <1>1, <1>2, <2>2, <2>5 DEF KeptFrom
  <1> QED
    BY <1>5, <1>6

\* Undoing a deletion uncovers the hold it was taken on, which still remembers
\* its own origin; every other ending leaves an intent, or no row.
LEMMA EndClaimKept ==
    ASSUME HInv, NEW m \in Meetings, NEW token \in Tokens, EndClaim(m, token),
           UNCHANGED taken
    PROVE  HistoryKept'
  <1> DEFINE old == jobs[m]
  <1>1. CASE FinalizeAudioAdmissionHold(m, token)
    <2>1. /\ GoodRow(old) /\ old \in Rows
          /\ old.action.kind = "hold" /\ old.action \in Holds
      BY <1>1, LiveRow, KindOfAction
         DEF FinalizeAudioAdmissionHold, CanFinalizeHold, Statuses, HInv, IInv, GoodRow, Rows
    <2>2. HoldReleased(old).action \in PlainActions
      BY <2>1, NoActionFits DEF HoldReleased, Rows, Holds
    <2> QED
      BY <1>1, <2>2, PlainKept, StoreKept DEF FinalizeAudioAdmissionHold
  <1>2. CASE FinalizeAudioRejection(m, token) \/ DeleteClaimedJob(m, token)
    BY <1>2, StoreKept DEF FinalizeAudioRejection, DeleteClaimedJob
  <1>3. CASE RestoreDeleteClaim(m, token)
    <2> DEFINE row == [old EXCEPT !.status = old.action.status,
                                  !.action = old.action.action,
                                  !.error = old.action.error]
    <2>1. /\ old \in Rows /\ old # Gone /\ old.action.kind = "delete"
          /\ old.action \in DeleteClaims
      <3>1. /\ old \in Rows /\ old # Gone /\ old.action.kind = "delete"
            /\ old.action \in Actions
        BY <1>3, OwnedRow DEF RestoreDeleteClaim, CanRestoreDeleteClaim
      <3> QED
        BY <3>1, KindOfAction
    <2>2. /\ row.action = old.action.action
          /\ row.selection = old.selection
          /\ row.retries = old.retries
          /\ row.action \in PlainActions \cup Holds
      BY <2>1 DEF Rows, DeleteClaims
    <2>3. CASE row.action \in PlainActions
      BY <1>3, <2>3, PlainKept, StoreKept DEF RestoreDeleteClaim
    <2>4. CASE row.action \in Holds
      <3>1. row.action.kind = "hold"
        BY <2>4 DEF Holds
      <3>2. KeptFrom(taken, m, old, row.action)
        BY <2>1, <2>2, <3>1 DEF HInv, HistoryKept, RowKept
      <3>3. RowKept(taken, m, row)
        BY <2>2, <3>1, <3>2 DEF RowKept, KeptFrom
      <3> QED
        BY <1>3, <3>3, StoreKept DEF RestoreDeleteClaim
    <2> QED
      BY <2>2, <2>3, <2>4
  <1>4. CASE RestoreSTTABTestClaim(m, token) \/ RestoreRetranscribeClaim(m, token)
    <2>1. \E kind \in {"ab", "retranscribe"} : Claimed(old, kind, token)
      BY <1>4 DEF RestoreSTTABTestClaim, RestoreRetranscribeClaim
    <2>2. old.action \in ABClaims \cup RetranscribeClaims
      <3>1. old.action \in Actions /\ old.action.kind \in {"ab", "retranscribe"}
        BY <2>1, OwnedRow
      <3> QED
        BY <3>1, KindOfAction
    <2>3. taken[token].row.action \in PlainActions
      BY <1>4, <2>2, Restored DEF ABClaims, RetranscribeClaims
    <2> QED
      BY <1>4, <2>3, Restored, PlainKept, StoreKept
  <1>5. CASE ResetForRetranscribe(m, token)
    <2>1. Row("queued", NoAction, 0, "none", old.action.requested).action \in PlainActions
      BY NoActionFits DEF Row
    <2> QED
      BY <1>5, <2>1, PlainKept, StoreKept DEF ResetForRetranscribe
  <1> QED
    BY <1>1, <1>2, <1>3, <1>4, <1>5 DEF EndClaim

\* Finishing a cancellation leaves the empty action.
LEMMA FinalizeCancellationKept ==
    ASSUME HInv, NEW m \in Meetings, FinalizeCancellationClaim(m), UNCHANGED taken
    PROVE  HistoryKept'
  <1> DEFINE row == [jobs[m] EXCEPT !.status = "recorded", !.action = NoAction,
                                    !.error = "cancelled"]
  <1>1. jobs[m] \in Rows
    BY LiveRow DEF FinalizeCancellationClaim, HasCancelClaim, Statuses, HInv, IInv, GoodRow
  <1>2. row.action \in PlainActions
    BY <1>1, NoActionFits DEF Rows
  <1> QED
    BY <1>2, PlainKept, StoreKept DEF FinalizeCancellationClaim

------------------------------------------------------------------------------
(* The history is an invariant. *)

\* Every payload of every row remembers the row its token was issued for, and
\* the row keeps the columns the payload does not save.
THEOREM HistoryInvariant == Spec => []HInv
  <1>1. Init => HistoryKept
    BY DEF Init, HistoryKept
  <1>2. HInv /\ [Next]_vars => HistoryKept'
    <2> SUFFICES ASSUME HInv, [Next]_vars PROVE HistoryKept'
      OBVIOUS
    <2>1. GoodTable
      BY DEF HInv, IInv
    <2>2. CASE EnqueueBatch /\ UNCHANGED taken
      BY <2>1, <2>2, EnqueueBatchPlain, PlainStepKept
    <2>3. CASE /\ \E m \in Meetings : Register(m) \/ OrdinaryTransition(m)
                    \/ Enqueue(m) \/ FinalizeCancellationClaim(m)
               /\ UNCHANGED taken
      BY <2>1, <2>3, EnqueuePlain, OrdinaryPlain, PlainStepKept, FinalizeCancellationKept
    <2>4. CASE /\ \E m \in Meetings, token \in Tokens :
                    AdvanceClaim(m, token) \/ EndClaim(m, token)
               /\ UNCHANGED taken
      <3>1. PICK m \in Meetings, token \in Tokens :
               AdvanceClaim(m, token) \/ EndClaim(m, token)
        BY <2>4
      <3>2. CASE AdvanceClaim(m, token)
        BY <2>4, <3>2, Advance, AdvancedKept
      <3>3. CASE EndClaim(m, token)
        BY <2>4, <3>3, EndClaimKept
      <3> QED
        BY <3>1, <3>2, <3>3
    <2>5. CASE \E m \in Meetings, token \in Tokens :
                  TakeClaim(m, token) /\ Issue(m, token)
      BY <2>5, TakeClaimKept
    <2>6. CASE UNCHANGED vars
      BY <2>6 DEF HInv, HistoryKept, vars
    <2> QED
      BY <2>2, <2>3, <2>4, <2>5, <2>6 DEF Next
  <1>3. HInv <=> IInv /\ HistoryKept
    BY DEF HInv
  <1> QED
    BY <1>1, <1>2, <1>3, InductiveInvariant, PTL DEF Spec

\* Whatever happened since a claim or a hold was taken, its payload says what
\* the row was: the right meeting, status, action, error and model.
THEOREM Remembrance == Spec => []ClaimsRemember
  <1>1. HInv => ClaimsRemember
    <2> SUFFICES ASSUME HInv, NEW m \in Meetings, Live(m)
                 PROVE  /\ Durable(jobs[m]) => Remembers(m, jobs[m].action)
                        /\ /\ jobs[m].status = "recording"
                           /\ jobs[m].action.kind = "delete"
                           /\ jobs[m].action.action.kind = "hold"
                           => Remembers(m, jobs[m].action.action)
      BY DEF ClaimsRemember
    <2>1. RowKept(taken, m, jobs[m])
      BY DEF HInv, HistoryKept, Live
    <2>2. ASSUME NEW saved, KeptFrom(taken, m, jobs[m], saved),
                 saved.kind \in {"hold", "cancel", "delete", "ab", "retranscribe", "reject"}
          PROVE  Remembers(m, saved)
      BY <2>2 DEF KeptFrom, Remembers
    <2>3. Durable(jobs[m]) =>
             jobs[m].action.kind \in
                {"hold", "cancel", "delete", "ab", "retranscribe", "reject"}
      <3>1. jobs[m] \in Rows
        BY DEF HInv, IInv, GoodTable, Live
      <3> QED
        BY <3>1, KindOfAction DEF Durable, Rows, Actions
    <2> QED
      BY <2>1, <2>2, <2>3 DEF RowKept, Durable
  <1> QED
    BY <1>1, HistoryInvariant, PTL

------------------------------------------------------------------------------
(* What a step may do to a row that is owned or held. *)

\* An operation that writes another meeting's row leaves this one alone.
LEMMA StoreElsewhere ==
    ASSUME GoodTable, NEW m \in Meetings, NEW n \in Meetings, m # n, NEW row,
           Store(n, row)
    PROVE  jobs'[m] = jobs[m]
  BY DEF GoodTable, Store

\* The row an operation writes.
LEMMA StoreHere ==
    ASSUME GoodTable, NEW m \in Meetings, NEW row, Store(m, row)
    PROVE  jobs'[m] = row
  BY DEF GoodTable, Store

\* No operation that takes a claim or a hold touches a recording row.
LEMMA TakenUnowned ==
    ASSUME NEW m \in Meetings, NEW token \in Tokens, TakeClaim(m, token)
    PROVE  jobs[m].status # "recording"
  BY DEF TakeClaim, HoldJobForAudioAdmission, ClaimForAudioRejection,
         ClaimActiveJobForCancellation, CanClaimForCancellation, ClaimForDeletion,
         ClaimForSTTABTest, ClaimForRetranscribe, ActiveStatuses

\* Every single-row operation writes only the row it is called for.
LEMMA OneRow ==
    ASSUME NEW m \in Meetings, NEW token \in Tokens,
           \/ AdvanceClaim(m, token) \/ EndClaim(m, token) \/ TakeClaim(m, token)
           \/ FinalizeCancellationClaim(m)
    PROVE  \E row : Store(m, row)
  BY DEF AdvanceClaim, PrepareDeleteQuarantine, UpdateDeleteClaimPhase,
         UpdateRetranscribeClaimPhase, EndClaim, FinalizeAudioAdmissionHold,
         FinalizeAudioRejection, RestoreDeleteClaim, DeleteClaimedJob,
         RestoreSTTABTestClaim, RestoreRetranscribeClaim, ResetForRetranscribe,
         TakeClaim, HoldJobForAudioAdmission, ClaimForAudioRejection,
         ClaimActiveJobForCancellation, ClaimForDeletion, ClaimForSTTABTest,
         ClaimForRetranscribe, FinalizeCancellationClaim

\* Ending the claim of a recording row is one of the outcomes of its kind.
LEMMA EndOwned ==
    ASSUME HInv, NEW m \in Meetings, NEW token \in Tokens, EndClaim(m, token),
           jobs[m].status = "recording"
    PROVE  ClaimStep(m)
  <1>0. GoodTable
    BY DEF HInv, IInv
  <1>1. ~FinalizeAudioAdmissionHold(m, token)
    BY DEF FinalizeAudioAdmissionHold, CanFinalizeHold
  <1>2. CASE FinalizeAudioRejection(m, token) \/ DeleteClaimedJob(m, token)
    <2>1. jobs'[m] = Gone
      BY <1>0, <1>2, StoreHere DEF FinalizeAudioRejection, DeleteClaimedJob
    <2> QED
      BY <1>2, <2>1
         DEF ClaimStep, RowDropped, FinalizeAudioRejection, DeleteClaimedJob,
             CanDeleteClaimedJob, Claimed
  <1>3. CASE \/ RestoreDeleteClaim(m, token)
             \/ RestoreSTTABTestClaim(m, token)
             \/ RestoreRetranscribeClaim(m, token)
    BY <1>0, <1>3, Restored, StoreHere DEF ClaimStep, RolledBack
  <1>4. CASE ResetForRetranscribe(m, token)
    <2>1. jobs'[m] = Row("queued", NoAction, 0, "none", jobs[m].action.requested)
      BY <1>0, <1>4, StoreHere DEF ResetForRetranscribe
    <2> QED
      BY <1>4, <2>1
         DEF ClaimStep, RetranscriptionCommitted, ResetForRetranscribe, Claimed
  <1> QED
    BY <1>1, <1>2, <1>3, <1>4 DEF EndClaim

\* A phase change of a recording row is the next phase of the same claim.
LEMMA AdvanceOwned ==
    ASSUME HInv, NEW m \in Meetings, NEW token \in Tokens, AdvanceClaim(m, token)
    PROVE  ClaimStep(m)
  <1> PICK claim :
         /\ jobs[m] \in Rows
         /\ jobs[m].action.kind \in {"delete", "retranscribe"}
         /\ claim.kind = jobs[m].action.kind
         /\ claim.token = jobs[m].action.token
         /\ claim.status = jobs[m].action.status
         /\ claim.action = jobs[m].action.action
         /\ claim.phase \in PhaseSuccessors[jobs[m].action.phase]
         /\ jobs[m].status = "recording"
         /\ Store(m, [jobs[m] EXCEPT !.action = claim])
    BY Advance
  <1>1. jobs'[m] = [jobs[m] EXCEPT !.action = claim]
    BY StoreHere DEF HInv, IInv
  <1>2. jobs'[m].status = "recording" /\ jobs'[m].action = claim
    BY <1>1 DEF Rows
  <1> QED
    BY <1>2 DEF ClaimStep, PhaseAdvanced

\* A recording row is written only by the protocol of the claim that owns it.
LEMMA OwnedStep ==
    ASSUME HInv, Next, NEW m \in Meetings
    PROVE  ClaimStep(m)
  <1> SUFFICES ASSUME Live(m), jobs[m].status = "recording", jobs'[m] # jobs[m]
               PROVE  ClaimStep(m)
    BY DEF ClaimStep
  <1>1. GoodTable
    BY DEF HInv, IInv
  <1>2. CASE \/ EnqueueBatch
             \/ \E n \in Meetings : Register(n) \/ OrdinaryTransition(n) \/ Enqueue(n)
    <2>1. PlainStep
      BY <1>1, <1>2, EnqueueBatchPlain, EnqueuePlain, OrdinaryPlain
    <2> QED
      BY <2>1 DEF PlainStep
  <1>3. CASE \E n \in Meetings : FinalizeCancellationClaim(n)
    <2>1. FinalizeCancellationClaim(m)
      BY <1>1, <1>3, StoreElsewhere DEF FinalizeCancellationClaim
    <2>2. jobs'[m] = [jobs[m] EXCEPT !.status = "recorded", !.action = NoAction,
                                     !.error = "cancelled"]
      BY <1>1, <2>1, StoreHere DEF FinalizeCancellationClaim
    <2>3. jobs[m] \in Rows
      BY <1>1 DEF GoodTable, Live
    <2> QED
      BY <2>1, <2>2, <2>3
         DEF ClaimStep, Cancelled, FinalizeCancellationClaim, HasCancelClaim, Rows
  <1>4. CASE \E n \in Meetings, token \in Tokens :
                AdvanceClaim(n, token) \/ EndClaim(n, token) \/ TakeClaim(n, token)
    <2>1. PICK n \in Meetings, token \in Tokens :
             AdvanceClaim(n, token) \/ EndClaim(n, token) \/ TakeClaim(n, token)
      BY <1>4
    <2>2. n = m
      <3>1. PICK row : Store(n, row)
        BY <2>1, OneRow
      <3> QED
        BY <1>1, <3>1, StoreElsewhere
    <2> QED
      BY <2>1, <2>2, AdvanceOwned, EndOwned, TakenUnowned
  <1> QED
    BY <1>2, <1>3, <1>4 DEF Next

\* From the moment a claim owns a row, nobody but the claim's own protocol
\* changes it: the next phase, the exact row it was taken on, or its outcome.
THEOREM Lifecycle == Spec => ClaimLifecycle
  <1>1. HInv /\ [Next]_vars => [\A m \in Meetings : ClaimStep(m)]_vars
    BY OwnedStep
  <1> QED
    BY <1>1, HistoryInvariant, PTL DEF Spec, ClaimLifecycle

\* Accepting a hold gives back what was put aside, model and retries included,
\* even when a deletion was taken on the hold and undone.
THEOREM HoldsGiveBack == Spec => HoldKeepsIntent
  <1>1. HInv => \A m \in Meetings, token \in Tokens : HoldStep(m, token)
    <2> SUFFICES ASSUME HInv, NEW m \in Meetings, NEW token \in Tokens,
                        FinalizeAudioAdmissionHold(m, token)
                 PROVE  HoldStep(m, token)
      BY DEF HoldStep
    <2> DEFINE old == jobs[m]
    <2> DEFINE origin == taken[token].row
    <2>1. /\ GoodTable
          /\ old.status = "recorded" /\ old.action.kind = "hold"
          /\ old.action.token = token
      BY DEF HInv, IInv, FinalizeAudioAdmissionHold, CanFinalizeHold
    <2>2. old \in Rows /\ old # Gone
      BY <2>1, LiveRow DEF Statuses, GoodRow
    <2>3. KeptFrom(taken, m, old, old.action)
      BY <2>1, <2>2 DEF HInv, HistoryKept, RowKept
    <2>4. jobs'[m] = HoldReleased(old)
      BY <2>1, StoreHere DEF FinalizeAudioAdmissionHold
    <2>5. /\ HoldReleased(old).status =
                IF old.action.status = "queued" THEN "queued" ELSE "recorded"
          /\ HoldReleased(old).action =
                IF old.action.status = "queued" THEN old.action.action ELSE NoAction
          /\ HoldReleased(old).selection = old.selection
          /\ HoldReleased(old).retries = old.retries
      BY <2>1, <2>2 DEF HoldReleased, Rows
    <2>6. /\ old.action.status = origin.status /\ old.action.action = origin.action
          /\ old.selection = origin.selection /\ old.retries = origin.retries
      BY <2>1, <2>3 DEF KeptFrom
    <2> QED
      BY <2>4, <2>5, <2>6 DEF HoldStep
  <1> QED
    BY <1>1, HistoryInvariant, PTL DEF Spec, HoldKeepsIntent

------------------------------------------------------------------------------
(* The queue implements MeetingClaim: under the mapping of JobQueue, every *)
(* operation is a step of one non-preemptive lease per meeting, or leaves  *)
(* every lease as it is.                                                   *)

Holder == [m \in Meetings |-> HolderOf(m)]

HolderIn(row) ==
    IF row = Gone THEN "absent"
    ELSE IF row.status = "recording" THEN row.action.token
    ELSE "free"

\* A row nobody holds.
Unheld(row) == row # Gone /\ row.status # "recording"

LeaseStep == Lease!LeaseNext \/ Holder' = Holder

------------------------------------------------------------------------------
(* Writing one row, by what it does to the lease. *)

\* The holders after one row is written.
LEMMA StoredHolder ==
    ASSUME GoodTable, NEW m \in Meetings, NEW row, Store(m, row)
    PROVE  Holder' = [Holder EXCEPT ![m] = HolderIn(row)]
  BY DEF GoodTable, Store, Holder, HolderOf, HolderIn, Live

\* The holder of a good recording row is a token.
LEMMA HeldByToken ==
    ASSUME NEW row, GoodRow(row), row.status = "recording"
    PROVE  HolderIn(row) \in Tokens /\ row # Gone
  <1>1. row.action \in Claims /\ row # Gone
    BY DEF GoodRow, Coherent, Rows, Gone, Statuses, ActiveStatuses
  <1>2. row.action.token \in Tokens
    BY <1>1 DEF Claims, CancelClaims, RejectionClaims, DeleteClaims, ABClaims,
                RetranscribeClaims
  <1> QED
    BY <1>1, <1>2 DEF HolderIn

\* A row whose holder is the same before and after: no lease changes.
LEMMA SameHolder ==
    ASSUME GoodTable, NEW m \in Meetings, NEW row, Store(m, row),
           HolderIn(row) = HolderIn(jobs[m])
    PROVE  LeaseStep
  <1>1. HolderIn(jobs[m]) = Holder[m]
    BY DEF Holder, HolderOf, HolderIn, Live
  <1>2. Holder' = [Holder EXCEPT ![m] = Holder[m]]
    BY <1>1, StoredHolder
  <1> QED
    BY <1>2 DEF Holder, LeaseStep

\* A row that nobody holds before or after: no lease changes.
LEMMA StaysUnheld ==
    ASSUME GoodTable, NEW m \in Meetings, NEW row, Store(m, row),
           Unheld(jobs[m]), Unheld(row)
    PROVE  LeaseStep
  BY SameHolder DEF Unheld, HolderIn

\* A row that was not there and is held by nobody is a registration.
LEMMA RegisterStep ==
    ASSUME GoodTable, NEW m \in Meetings, NEW row, Store(m, row),
           jobs[m] = Gone, Unheld(row)
    PROVE  LeaseStep
  <1>1. Lease!Register(m)
    BY StoredHolder DEF Lease!Register, Unheld, Holder, HolderOf, HolderIn, Live
  <1> QED
    BY <1>1 DEF LeaseStep, Lease!LeaseNext

\* Writing a token into a row nobody holds takes the lease.
LEMMA AcquireStep ==
    ASSUME GoodTable, NEW m \in Meetings, NEW row, Store(m, row), Unheld(jobs[m]),
           NEW token \in Tokens, row # Gone, row.status = "recording",
           row.action.token = token
    PROVE  LeaseStep
  <1>1. Lease!Acquire(m, token)
    BY StoredHolder DEF Lease!Acquire, Unheld, Holder, HolderOf, HolderIn, Live
  <1> QED
    BY <1>1 DEF LeaseStep, Lease!LeaseNext

\* A claimed row that becomes unheld gives the lease back.
LEMMA ReleaseStep ==
    ASSUME GoodTable, NEW m \in Meetings, NEW row, Store(m, row),
           GoodRow(jobs[m]), jobs[m].status = "recording", Unheld(row)
    PROVE  LeaseStep
  <1>1. Holder[m] \in Tokens
    BY HeldByToken DEF Holder, HolderOf, HolderIn, Live
  <1>2. Lease!Release(m)
    BY <1>1, StoredHolder DEF Lease!Release, Unheld, Holder, HolderIn
  <1> QED
    BY <1>2 DEF LeaseStep, Lease!LeaseNext

\* A claimed row that is deleted ends the lease with the meeting.
LEMMA DestroyStep ==
    ASSUME GoodTable, NEW m \in Meetings, Store(m, Gone),
           GoodRow(jobs[m]), jobs[m].status = "recording"
    PROVE  LeaseStep
  <1>1. Holder[m] \in Tokens
    BY HeldByToken DEF Holder, HolderOf, HolderIn, Live
  <1>2. Lease!Destroy(m)
    BY <1>1, StoredHolder DEF Lease!Destroy, Holder, HolderIn
  <1> QED
    BY <1>2 DEF LeaseStep, Lease!LeaseNext

\* A claimed row whose claim keeps its token keeps its lease.
LEMMA SameTokenStep ==
    ASSUME GoodTable, NEW m \in Meetings, NEW row, Store(m, row),
           jobs[m] # Gone, jobs[m].status = "recording", row # Gone,
           row.status = "recording", row.action.token = jobs[m].action.token
    PROVE  LeaseStep
  BY SameHolder DEF HolderIn

------------------------------------------------------------------------------
(* The operations of the queue. *)

\* A good row in any other status than recording is unheld.
LEMMA UnheldRow ==
    ASSUME GoodTable, NEW m \in Meetings, jobs[m].status \in Statuses \ {"recording"}
    PROVE  Unheld(jobs[m]) /\ jobs[m] \in Rows
  BY LiveRow DEF Unheld, GoodRow

\* A row that carries an intent only is unheld.
LEMMA PlainUnheld ==
    ASSUME GoodTable, NEW m \in Meetings, jobs[m].status \in Statuses, ~Durable(jobs[m])
    PROVE  Unheld(jobs[m]) /\ jobs[m] \in Rows
  <1>1. GoodRow(jobs[m]) /\ jobs[m] # Gone
    BY LiveRow
  <1>2. jobs[m].action \notin Claims
    BY <1>1, KindOfAction DEF Durable, GoodRow, Rows
  <1> QED
    BY <1>1, <1>2 DEF Unheld, GoodRow, Coherent

\* A row with a status of the table other than recording is unheld.
LEMMA UnheldStatus ==
    ASSUME NEW row, row.status \in Statuses \ {"recording"}
    PROVE  Unheld(row)
  BY DEF Unheld, Gone, Statuses, ActiveStatuses

\* add_job registers a meeting that nobody holds.
LEMMA RegisterLease ==
    ASSUME GoodTable, NEW m \in Meetings, Register(m)
    PROVE  LeaseStep
  <1>1. PICK status \in {"recorded", "queued"}, selection \in Selections :
            AddJob(m, status, selection)
    BY DEF Register
  <1>2. Unheld(Row(status, NoAction, 0, "none", selection))
    BY UnheldStatus DEF Row, Statuses
  <1> QED
    BY <1>1, <1>2, RegisterStep DEF AddJob

\* update_status and force_set_status refuse a held row and hold none.
LEMMA StatusLease ==
    ASSUME GoodTable, NEW m \in Meetings, NEW new \in Statuses \ {"recording"},
           NEW error, UpdateStatus(m, new, error) \/ ForceSetStatus(m, new, error)
    PROVE  LeaseStep
  <1>1. Unheld(jobs[m]) /\ jobs[m] \in Rows
    BY PlainUnheld
       DEF UpdateStatus, CanUpdateStatus, ForceSetStatus, CanForceSetStatus
  <1>2. ASSUME NEW action, NEW text
        PROVE  Unheld([jobs[m] EXCEPT !.status = new, !.action = action, !.error = text])
    BY <1>1, UnheldStatus DEF Rows
  <1>3. CASE UpdateStatus(m, new, error)
    BY <1>1, <1>2, <1>3, StaysUnheld DEF UpdateStatus
  <1>4. CASE ForceSetStatus(m, new, error)
    BY <1>1, <1>2, <1>4, StaysUnheld DEF ForceSetStatus
  <1> QED
    BY <1>3, <1>4

\* The worker's claim of a queued job and the cancellation of one move an
\* unheld row.
LEMMA QueuedLease ==
    ASSUME GoodTable, NEW m \in Meetings,
           ClaimQueuedJobForProcessing(m) \/ CancelQueuedJob(m)
    PROVE  LeaseStep
  <1>1. Unheld(jobs[m]) /\ jobs[m] \in Rows
    BY UnheldRow DEF ClaimQueuedJobForProcessing, CancelQueuedJob, Statuses
  <1>2. Unheld([jobs[m] EXCEPT !.status = "transcribing", !.error = "none"])
    BY <1>1, UnheldStatus DEF Rows, Statuses, ActiveStatuses
  <1>3. Unheld([jobs[m] EXCEPT
                   !.status = "recorded", !.action = NoAction, !.error = "cancelled"])
    BY <1>1, UnheldStatus DEF Rows, Statuses
  <1> QED
    BY <1>1, <1>2, <1>3, StaysUnheld DEF ClaimQueuedJobForProcessing, CancelQueuedJob

\* The ordinary and forced transitions leave every lease alone.
LEMMA OrdinaryLease ==
    ASSUME GoodTable, NEW m \in Meetings, OrdinaryTransition(m)
    PROVE  LeaseStep
  <1>1. CASE \E new \in UpdateTargets : UpdateStatus(m, new, "other")
    BY <1>1, StatusLease DEF UpdateTargets
  <1>2. CASE \E new \in DOMAIN ForcedErrors :
                \E error \in ForcedErrors[new] : ForceSetStatus(m, new, error)
    <2>1. DOMAIN ForcedErrors \subseteq Statuses \ {"recording"}
      BY DEF ForcedErrors, Statuses
    <2> QED
      BY <1>2, <2>1, StatusLease
  <1> QED
    BY <1>1, <1>2, QueuedLease DEF OrdinaryTransition

\* A row queued again is unheld.
LEMMA RequeuedUnheld ==
    ASSUME NEW row \in Rows, NEW action, NEW selection
    PROVE  Unheld(Requeued(row, action, selection)) /\ Unheld(Retried(row, selection))
  BY UnheldStatus DEF Requeued, Retried, Rows, Statuses

\* Queueing or retrying a job leaves every lease alone.
LEMMA EnqueueLease ==
    ASSUME GoodTable, NEW m \in Meetings, Enqueue(m)
    PROVE  LeaseStep
  <1>1. jobs[m].status \in {"recorded", "failed"}
    BY DEF Enqueue, QueueJob, QueueFailedJob, RetryJob, CanRetry
  <1>2. Unheld(jobs[m]) /\ jobs[m] \in Rows
    BY <1>1, UnheldRow DEF Statuses
  <1> QED
    BY <1>2, RequeuedUnheld, StaysUnheld DEF Enqueue, QueueJob, QueueFailedJob, RetryJob

\* Queueing or retrying many jobs leaves every lease alone.
LEMMA EnqueueBatchLease ==
    ASSUME GoodTable, EnqueueBatch
    PROVE  LeaseStep
  <1>1. ASSUME NEW m \in Meetings, jobs'[m] # jobs[m]
        PROVE  Unheld(jobs[m]) /\ Unheld(jobs'[m])
    <2>1. CASE RetryAllFailed
      <3>1. CanRetry(jobs[m]) /\ jobs'[m] = Retried(jobs[m], jobs[m].selection)
        BY <1>1, <2>1 DEF RetryAllFailed
      <3> QED
        BY <3>1, UnheldRow, RequeuedUnheld DEF CanRetry, Statuses
    <2>2. CASE \E batch \in (SUBSET Meetings) \ {{}}, intent \in Intents,
                  selection \in Selections :
                     QueueJobsAtomically(batch, intent, selection)
      <3>1. PICK batch \in SUBSET Meetings, intent \in Intents, selection \in Selections :
                     QueueJobsAtomically(batch, intent, selection)
        BY <2>2
      <3>2. /\ jobs[m].status = "recorded"
            /\ jobs'[m] = Requeued(jobs[m], Plain(intent), selection)
        BY <1>1, <3>1 DEF QueueJobsAtomically
      <3> QED
        BY <3>2, UnheldRow, RequeuedUnheld DEF Statuses
    <2> QED
      BY <2>1, <2>2 DEF EnqueueBatch
  <1>2. ASSUME NEW m \in Meetings
        PROVE  HolderOf(m)' = HolderOf(m)
    BY <1>1 DEF HolderOf, Live, Unheld
  <1> QED
    BY <1>2 DEF Holder, LeaseStep

\* Finishing a cancellation releases its claim.
LEMMA FinalizeCancellationLease ==
    ASSUME GoodTable, NEW m \in Meetings, FinalizeCancellationClaim(m)
    PROVE  LeaseStep
  <1>1. GoodRow(jobs[m]) /\ jobs[m] \in Rows /\ jobs[m].status = "recording"
    BY LiveRow DEF FinalizeCancellationClaim, HasCancelClaim, Statuses, GoodRow
  <1>2. Unheld([jobs[m] EXCEPT
                   !.status = "recorded", !.action = NoAction, !.error = "cancelled"])
    BY <1>1, UnheldStatus DEF Rows, Statuses
  <1> QED
    BY <1>1, <1>2, ReleaseStep DEF FinalizeCancellationClaim

\* A hold puts an unheld row aside without taking its lease.
LEMMA HoldLease ==
    ASSUME GoodTable, NEW m \in Meetings, NEW token \in Tokens,
           HoldJobForAudioAdmission(m, token)
    PROVE  LeaseStep
  <1> DEFINE hold == [kind |-> "hold", status |-> jobs[m].status,
                      action |-> jobs[m].action, token |-> token]
  <1>1. Unheld(jobs[m]) /\ jobs[m] \in Rows
    BY UnheldRow DEF HoldJobForAudioAdmission, Statuses
  <1>2. Unheld([jobs[m] EXCEPT !.status = "recorded", !.action = hold, !.error = "none"])
    BY <1>1, UnheldStatus DEF Rows, Statuses
  <1> QED
    BY <1>1, <1>2, StaysUnheld DEF HoldJobForAudioAdmission

\* Writing a claim with a token into an unheld row takes the lease.
LEMMA TakenLease ==
    ASSUME GoodTable, NEW m \in Meetings, NEW token \in Tokens,
           jobs[m].status \in Statuses \ {"recording"},
           NEW claim, claim.token = token, NEW error,
           \/ Store(m, [jobs[m] EXCEPT
                            !.status = "recording", !.action = claim, !.error = error])
           \/ Store(m, [jobs[m] EXCEPT !.status = "recording", !.action = claim])
    PROVE  LeaseStep
  <1> DEFINE new == [jobs[m] EXCEPT
                        !.status = "recording", !.action = claim, !.error = error]
  <1> DEFINE kept == [jobs[m] EXCEPT !.status = "recording", !.action = claim]
  <1>1. Unheld(jobs[m]) /\ jobs[m] \in Rows
    BY UnheldRow
  <1>2. /\ new.status = "recording" /\ new.action = claim
        /\ kept.status = "recording" /\ kept.action = claim
    BY <1>1 DEF Rows
  <1>3. new # Gone /\ kept # Gone
    BY <1>2 DEF Gone
  <1> QED
    BY <1>1, <1>2, <1>3, AcquireStep

\* Taking a claim takes the lease of an unheld row; taking a hold does not.
LEMMA TakeClaimLease ==
    ASSUME GoodTable, NEW m \in Meetings, NEW token \in Tokens, TakeClaim(m, token)
    PROVE  LeaseStep
  <1>1. CASE HoldJobForAudioAdmission(m, token)
    BY <1>1, HoldLease
  <1>2. CASE ClaimForAudioRejection(m, token)
    BY <1>2, TakenLease DEF ClaimForAudioRejection, Statuses
  <1>3. CASE ClaimActiveJobForCancellation(m, token)
    BY <1>3, TakenLease
       DEF ClaimActiveJobForCancellation, CanClaimForCancellation, Statuses, ActiveStatuses
  <1>4. CASE ClaimForDeletion(m, token)
    BY <1>4, TakenLease DEF ClaimForDeletion, Statuses
  <1>5. CASE ClaimForSTTABTest(m, token)
    BY <1>5, TakenLease DEF ClaimForSTTABTest, Statuses
  <1>6. CASE \E requested \in Selections : ClaimForRetranscribe(m, token, requested)
    BY <1>6, TakenLease DEF ClaimForRetranscribe, Statuses
  <1> QED
    BY <1>1, <1>2, <1>3, <1>4, <1>5, <1>6 DEF TakeClaim

\* A phase change keeps the token, and so the lease.
LEMMA AdvancedLease ==
    ASSUME GoodTable, NEW m \in Meetings, NEW claim,
           jobs[m] \in Rows, jobs[m].status = "recording",
           claim.token = jobs[m].action.token,
           Store(m, [jobs[m] EXCEPT !.action = claim])
    PROVE  LeaseStep
  <1> DEFINE row == [jobs[m] EXCEPT !.action = claim]
  <1>1. row.status = "recording" /\ row.action = claim
    BY DEF Rows
  <1>2. row # Gone /\ jobs[m] # Gone
    BY <1>1 DEF Gone
  <1> QED
    BY <1>1, <1>2, SameTokenStep

\* Advancing a deletion or a re-transcription keeps its lease.
LEMMA AdvanceClaimLease ==
    ASSUME GoodTable, NEW m \in Meetings, NEW token \in Tokens, AdvanceClaim(m, token)
    PROVE  LeaseStep
  <1> DEFINE old == jobs[m]
  <1>1. /\ old \in Rows
        /\ old.status = "recording"
        /\ old.action \in DeleteClaims \cup RetranscribeClaims
    BY ClaimedRow, KindOfAction
       DEF AdvanceClaim, PrepareDeleteQuarantine, CanPrepareDeleteQuarantine,
           UpdateDeleteClaimPhase, CanUpdateDeleteClaimPhase,
           UpdateRetranscribeClaimPhase, Claimed
  <1>2. CASE PrepareDeleteQuarantine(m, token)
    <2> DEFINE claim == [old.action EXCEPT !.phase = "quarantining", !.sourced = TRUE]
    <2>1. claim.token = old.action.token
      BY <1>1 DEF DeleteClaims, RetranscribeClaims
    <2>2. Store(m, [old EXCEPT !.action = claim])
      BY <1>2 DEF PrepareDeleteQuarantine
    <2> QED
      BY <1>1, <2>1, <2>2, AdvancedLease
  <1>3. CASE \E phase : Store(m, [old EXCEPT !.action.phase = phase])
    <2>1. PICK phase : Store(m, [old EXCEPT !.action.phase = phase])
      BY <1>3
    <2> DEFINE claim == [old.action EXCEPT !.phase = phase]
    <2>2. claim.token = old.action.token
      BY <1>1 DEF DeleteClaims, RetranscribeClaims
    <2>3. Store(m, [old EXCEPT !.action = claim])
      BY <2>1
    <2> QED
      BY <1>1, <2>2, <2>3, AdvancedLease
  <1> QED
    BY <1>2, <1>3
       DEF AdvanceClaim, UpdateDeleteClaimPhase, UpdateRetranscribeClaimPhase

\* Accepting a hold requeues or frees a row that nobody holds.
LEMMA FinalizeHoldLease ==
    ASSUME GoodTable, NEW m \in Meetings, NEW token \in Tokens,
           FinalizeAudioAdmissionHold(m, token)
    PROVE  LeaseStep
  <1>1. Unheld(jobs[m]) /\ jobs[m] \in Rows /\ jobs[m].status = "recorded"
    BY UnheldRow DEF FinalizeAudioAdmissionHold, CanFinalizeHold, Statuses
  <1>2. Unheld(HoldReleased(jobs[m]))
    BY <1>1, UnheldStatus DEF HoldReleased, Rows, Statuses
  <1> QED
    BY <1>1, <1>2, StaysUnheld DEF FinalizeAudioAdmissionHold

\* Giving a claimed row back its status releases the lease.
LEMMA GivenBackLease ==
    ASSUME GoodTable, NEW m \in Meetings, NEW row, Store(m, row),
           jobs[m].status = "recording", row.status \in Statuses \ {"recording"}
    PROVE  LeaseStep
  <1>1. GoodRow(jobs[m])
    BY LiveRow DEF Statuses
  <1> QED
    BY <1>1, UnheldStatus, ReleaseStep

\* Ending a claim releases or ends its lease; ending a hold touches none.
LEMMA EndClaimLease ==
    ASSUME GoodTable, NEW m \in Meetings, NEW token \in Tokens, EndClaim(m, token)
    PROVE  LeaseStep
  <1> DEFINE old == jobs[m]
  <1>1. CASE FinalizeAudioAdmissionHold(m, token)
    BY <1>1, FinalizeHoldLease
  <1>2. CASE FinalizeAudioRejection(m, token) \/ DeleteClaimedJob(m, token)
    <2>1. Store(m, Gone) /\ old.status = "recording"
      BY <1>2 DEF FinalizeAudioRejection, DeleteClaimedJob, CanDeleteClaimedJob, Claimed
    <2>2. GoodRow(old)
      BY <2>1, LiveRow DEF Statuses
    <2> QED
      BY <2>1, <2>2, DestroyStep
  <1>3. CASE RestoreDeleteClaim(m, token)
    <2>1. old \in Rows /\ old.action \in DeleteClaims /\ old.status = "recording"
      BY <1>3, ClaimedRow, KindOfAction
         DEF RestoreDeleteClaim, CanRestoreDeleteClaim, Claimed
    <2>2. old.action.status \in Statuses \ {"recording"}
      BY <2>1 DEF DeleteClaims, Statuses
    <2> DEFINE row == [old EXCEPT !.status = old.action.status,
                                  !.action = old.action.action,
                                  !.error = old.action.error]
    <2>3. row.status = old.action.status
      BY <2>1 DEF Rows
    <2> QED
      BY <1>3, <2>1, <2>2, <2>3, GivenBackLease DEF RestoreDeleteClaim
  <1>4. CASE RestoreSTTABTestClaim(m, token)
    <2>1. old \in Rows /\ old.action \in ABClaims /\ old.status = "recording"
      BY <1>4, ClaimedRow, KindOfAction DEF RestoreSTTABTestClaim, Claimed
    <2>2. old.action.status \in Statuses \ {"recording"}
      BY <2>1 DEF ABClaims, Statuses
    <2> DEFINE row == [old EXCEPT !.status = old.action.status,
                                  !.action = old.action.action,
                                  !.error = old.action.error]
    <2>3. row.status = old.action.status
      BY <2>1 DEF Rows
    <2> QED
      BY <1>4, <2>1, <2>2, <2>3, GivenBackLease DEF RestoreSTTABTestClaim
  <1>5. CASE RestoreRetranscribeClaim(m, token)
    <2>1. old \in Rows /\ old.action \in RetranscribeClaims /\ old.status = "recording"
      BY <1>5, ClaimedRow, KindOfAction DEF RestoreRetranscribeClaim, Claimed
    <2>2. old.action.status \in Statuses \ {"recording"}
      BY <2>1 DEF RetranscribeClaims, Statuses
    <2> DEFINE row == [old EXCEPT !.status = old.action.status,
                                  !.action = old.action.action,
                                  !.selection = old.action.selection]
    <2>3. row.status = old.action.status
      BY <2>1 DEF Rows
    <2> QED
      BY <1>5, <2>1, <2>2, <2>3, GivenBackLease DEF RestoreRetranscribeClaim
  <1>6. CASE ResetForRetranscribe(m, token)
    <2> DEFINE row == Row("queued", NoAction, 0, "none", old.action.requested)
    <2>1. row.status \in Statuses \ {"recording"}
      BY DEF Row, Statuses
    <2> QED
      BY <1>6, <2>1, GivenBackLease DEF ResetForRetranscribe, Claimed
  <1> QED
    BY <1>1, <1>2, <1>3, <1>4, <1>5, <1>6 DEF EndClaim

------------------------------------------------------------------------------
(* The refinement. *)

\* The claims of the jobs table are leases: whatever its callers do, no claim
\* is taken on a row that another one holds, and a registered meeting goes away
\* only in the hands of its holder.
THEOREM Refinement == Spec => ClaimsAreLeases
  <1>1. Init => Lease!LeaseInit
    BY DEF Init, Lease!LeaseInit, HolderOf, Live
  <1>2. IInv /\ [Next]_vars => [Lease!LeaseNext]_Holder
    <2> SUFFICES ASSUME IInv, [Next]_vars PROVE LeaseStep
      BY DEF LeaseStep
    <2>1. GoodTable
      BY DEF IInv
    <2>2. CASE UNCHANGED vars
      BY <2>2 DEF vars, LeaseStep, Holder, HolderOf, Live
    <2>3. CASE Next
      BY <2>1, <2>3, EnqueueBatchLease, RegisterLease, OrdinaryLease, EnqueueLease,
         FinalizeCancellationLease, AdvanceClaimLease, EndClaimLease, TakeClaimLease
         DEF Next
    <2> QED
      BY <2>2, <2>3
  <1>3. IInv /\ [Next]_vars => [Lease!LeaseNext]_([m \in Meetings |-> HolderOf(m)])
    BY <1>2 DEF Holder
  <1> QED
    BY <1>1, <1>3, InductiveInvariant, PTL
       DEF Spec, ClaimsAreLeases, Lease!LeaseSpec
==============================================================================

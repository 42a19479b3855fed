------------------------------ MODULE JobQueue -------------------------------
(***************************************************************************)
(* core/job_queue.py under any interleaving of its callers: the HTTP        *)
(* handlers, the watcher, the JobProcessor and startup recovery each call   *)
(* one operation at a time and may stop (or crash: the table is durable)    *)
(* between any two.  An operation called with a token that no longer holds  *)
(* the row, or in the wrong status, raises and changes nothing.             *)
(*                                                                          *)
(* `taken` is a history variable: the meeting and the row a token was       *)
(* issued for, as it was just before.                                       *)
(***************************************************************************)
EXTENDS JobRows

VARIABLE taken

vars == <<jobs, taken>>

Unissued == [meeting |-> "none"]

Snapshots == [meeting : Meetings, row : Rows]

Fresh(token) == taken[token] = Unissued

\* Every claim and every hold is taken under a new uuid4 token.
Issue(m, token) ==
    /\ Fresh(token)
    /\ taken' = [taken EXCEPT ![token] = [meeting |-> m, row |-> jobs[m]]]

\* The statuses update_status is asked for; RECORDING never is: a row becomes
\* recording only through a claim.
UpdateTargets == Statuses \ {"recording"}

\* The statuses and messages force_set_status is given by recovery, the worker
\* and the response reconciler.
ForcedErrors ==
    [queued |-> {"none", "other"}, recorded |-> {"none", "cancelled"},
     completed |-> {"none"}]

------------------------------------------------------------------------------
Init ==
    /\ jobs = [m \in Meetings |-> Gone]
    /\ taken = [t \in Tokens |-> Unissued]

\* The watcher registers new audio as recorded, other callers as queued.
Register(m) ==
    \E status \in {"recorded", "queued"}, selection \in Selections :
        AddJob(m, status, selection)

OrdinaryTransition(m) ==
    \/ \E new \in UpdateTargets : UpdateStatus(m, new, "other")
    \/ \E new \in DOMAIN ForcedErrors :
          \E error \in ForcedErrors[new] : ForceSetStatus(m, new, error)
    \/ ClaimQueuedJobForProcessing(m)
    \/ CancelQueuedJob(m)

Enqueue(m) ==
    \E selection \in Selections :
        \/ \E intent \in Intents : QueueJob(m, intent, selection)
        \/ QueueFailedJob(m, selection)
        \/ RetryJob(m, selection)

EnqueueBatch ==
    \/ \E batch \in (SUBSET Meetings) \ {{}}, intent \in Intents,
          selection \in Selections : QueueJobsAtomically(batch, intent, selection)
    \/ RetryAllFailed

TakeClaim(m, token) ==
    \/ HoldJobForAudioAdmission(m, token)
    \/ ClaimForAudioRejection(m, token)
    \/ ClaimActiveJobForCancellation(m, token)
    \/ ClaimForDeletion(m, token)
    \/ ClaimForSTTABTest(m, token)
    \/ \E requested \in Selections : ClaimForRetranscribe(m, token, requested)

AdvanceClaim(m, token) ==
    \/ PrepareDeleteQuarantine(m, token)
    \/ \E phase \in DOMAIN DeletePhaseSources : UpdateDeleteClaimPhase(m, token, phase)
    \/ \E phase \in DOMAIN RetranscribePhaseSource :
          UpdateRetranscribeClaimPhase(m, token, phase)

EndClaim(m, token) ==
    \/ FinalizeAudioAdmissionHold(m, token)
    \/ FinalizeAudioRejection(m, token)
    \/ RestoreDeleteClaim(m, token)
    \/ DeleteClaimedJob(m, token)
    \/ RestoreSTTABTestClaim(m, token)
    \/ RestoreRetranscribeClaim(m, token)
    \/ ResetForRetranscribe(m, token)

Next ==
    \/ /\ \/ EnqueueBatch
          \/ \E m \in Meetings :
                Register(m) \/ OrdinaryTransition(m) \/ Enqueue(m)
                    \/ FinalizeCancellationClaim(m)
          \/ \E m \in Meetings, token \in Tokens :
                AdvanceClaim(m, token) \/ EndClaim(m, token)
       /\ UNCHANGED taken
    \/ \E m \in Meetings, token \in Tokens : TakeClaim(m, token) /\ Issue(m, token)

Spec == Init /\ [][Next]_vars

------------------------------------------------------------------------------
(* Properties. *)

\* Every row is well formed, and every stored payload is one its strict
\* parser accepts: a claim that no longer parses could never be resolved.
TypeOK ==
    /\ jobs \in [Meetings -> Rows \cup {Gone}]
    /\ taken \in [Tokens -> Snapshots \cup {Unissued}]

Live(m) == jobs[m] # Gone

\* Status and payload agree: a row is recording exactly while one of the five
\* claims owns it, and a hold sits on a recorded row only.  Every recovery and
\* every worker decides from the status which payload to look for.
ClaimCoherence == \A m \in Meetings : Live(m) => Coherent(jobs[m])

\* The row a claim or hold says it will go back to is the row it was taken
\* on: same meeting, status and action, and the error and STT selection where
\* the payload or the row keeps them.
Remembers(m, saved) ==
    LET origin == taken[saved.token]
    IN  /\ origin # Unissued
        /\ origin.meeting = m
        /\ CASE saved.kind \in {"hold", "cancel"} ->
                    saved.status = origin.row.status /\ saved.action = origin.row.action
             [] saved.kind \in {"delete", "ab"} ->
                    /\ saved.status = origin.row.status
                    /\ saved.action = origin.row.action
                    /\ saved.error = origin.row.error
                    /\ jobs[m].selection = origin.row.selection
                    /\ jobs[m].retries = origin.row.retries
             [] saved.kind = "retranscribe" ->
                    /\ saved.status = origin.row.status
                    /\ saved.action = origin.row.action
                    /\ saved.selection = origin.row.selection
                    /\ jobs[m].error = origin.row.error
                    /\ jobs[m].retries = origin.row.retries
             [] saved.kind = "reject" ->
                    /\ saved.status = Underlying(origin.row).status
                    /\ saved.action = Underlying(origin.row).action

\* Both payloads of a row remember where they were taken: the one it carries
\* and the hold a delete claim may carry inside.
ClaimsRemember ==
    \A m \in Meetings : Live(m) =>
        /\ Durable(jobs[m]) => Remembers(m, jobs[m].action)
        /\ /\ jobs[m].status = "recording"
           /\ jobs[m].action.kind = "delete"
           /\ jobs[m].action.action.kind = "hold"
           => Remembers(m, jobs[m].action.action)

PhaseSuccessors ==
    [claimed |-> {"quarantining", "quarantined", "staging"},
     quarantining |-> {"quarantined"}, quarantined |-> {"purging"},
     staging |-> {"purging"}, purging |-> {"committing"}, committing |-> {}]

PhaseAdvanced(before, after) ==
    /\ before.action.kind \in {"delete", "retranscribe"}
    /\ after.status = "recording"
    /\ after.action.kind = before.action.kind
    /\ after.action.phase \in PhaseSuccessors[before.action.phase]
    /\ after.action.token = before.action.token
    /\ after.action.status = before.action.status
    /\ after.action.action = before.action.action

RolledBack(before, after) ==
    /\ before.action.kind \in {"delete", "ab", "retranscribe"}
    /\ after = taken[before.action.token].row

Cancelled(before, after) ==
    /\ before.action.kind = "cancel"
    /\ <<after.status, after.action, after.error>> = <<"recorded", NoAction, "cancelled">>

RowDropped(before, after) ==
    /\ after = Gone
    /\ \/ before.action.kind = "reject"
       \/ before.action.kind = "delete" /\ before.action.phase = "committing"

RetranscriptionCommitted(before, after) ==
    /\ before.action.kind = "retranscribe"
    /\ before.action.phase = "committing"
    /\ after = Row("queued", NoAction, 0, "none", before.action.requested)

ClaimStep(m) ==
    Live(m) /\ jobs[m].status = "recording" /\ jobs'[m] # jobs[m] =>
        \/ PhaseAdvanced(jobs[m], jobs'[m])
        \/ RolledBack(jobs[m], jobs'[m])
        \/ Cancelled(jobs[m], jobs'[m])
        \/ RowDropped(jobs[m], jobs'[m])
        \/ RetranscriptionCommitted(jobs[m], jobs'[m])

\* From the moment a claim owns a row to the moment it ends, the row changes
\* only by the claim's own protocol: the next phase of the same claim, the
\* exact row it was taken on, or the one outcome its kind commits to.
ClaimLifecycle == [][\A m \in Meetings : ClaimStep(m)]_vars

HoldStep(m, token) ==
    FinalizeAudioAdmissionHold(m, token) =>
        LET origin == taken[token].row
        IN  /\ jobs'[m].status = IF origin.status = "queued" THEN "queued" ELSE "recorded"
            /\ jobs'[m].action = IF origin.status = "queued" THEN origin.action ELSE NoAction
            /\ jobs'[m].selection = origin.selection
            /\ jobs'[m].retries = origin.retries

\* Accepting a hold gives back the execution the token's holder put aside,
\* through any deletion that was started and undone meanwhile: a queued job is
\* queued again with its intent, model and retries, a failed one waits as
\* recorded with no intent.
HoldKeepsIntent == [][\A m \in Meetings, token \in Tokens : HoldStep(m, token)]_vars

\* The five claim kinds together are one non-preemptive lease per meeting.
HolderOf(m) ==
    IF ~Live(m) THEN "absent"
    ELSE IF jobs[m].status = "recording" THEN jobs[m].action.token
    ELSE "free"

Lease == INSTANCE MeetingClaim
            WITH holder <- [m \in Meetings |-> HolderOf(m)],
                 Free <- "free", Absent <- "absent"

ClaimsAreLeases == Lease!LeaseSpec

\* What the comment on _has_durable_requested_action says (job_queue.py:675):
\* a durable payload is not overwritten by an ordinary transition.  A held row
\* leaves its hold only by its token or by a claim that remembers the hold.
HoldNotOverwritten ==
    [][\A m \in Meetings :
          /\ Live(m)
          /\ jobs[m].action.kind = "hold"
          /\ jobs'[m] # jobs[m]
          => \/ FinalizeAudioAdmissionHold(m, jobs[m].action.token)
             \/ jobs'[m].status = "recording"]_vars
==============================================================================

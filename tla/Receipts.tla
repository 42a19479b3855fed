------------------------------- MODULE Receipts -------------------------------
(***************************************************************************)
(* core/batch_history.py and the operations of core/job_queue.py on it: the *)
(* receipt of a batch or title request, written once, and the outcome of    *)
(* each of its meetings, which is the status of the last event recorded.    *)
(***************************************************************************)
EXTENDS Naturals, FiniteSets

CONSTANTS
    Requests,      \* request ids
    Listed         \* the meetings they name

VARIABLES
    receipts,      \* per request, what was accepted
    outcome        \* per request and meeting, the last recorded status

NoReceipt == [action |-> "none"]

\* A meeting with one of these has no further events, but that an applied title
\* may be restored.
FinalOutcomes ==
    {"completed", "failed", "cancelled", "interrupted", "blocked", "skipped", "restored"}

\* insert_receipt: the request id is the primary key.
SaveReceipt(r, receipt) ==
    /\ receipts[r] = NoReceipt
    /\ receipts' = [receipts EXCEPT ![r] = receipt]

Accepted(r) == receipts[r] # NoReceipt

\* Mutant: an event is recorded whatever came before.
AnyOutcome(r, m) == TRUE

OutcomeOpen(r, m) == outcome[r][m] \notin FinalOutcomes

\* The pipeline of a request that goes on with titles only ends a first part.
Recorded(r, status) ==
    IF receipts[r].action = "full_title" /\ status = "completed"
    THEN "pipeline_completed" ELSE status

\* record_batch_event for one request.
RecordEvent(r, m, status) ==
    outcome' =
        IF Accepted(r) /\ m \in receipts[r].queued /\ OutcomeOpen(r, m)
        THEN [outcome EXCEPT ![r][m] = status] ELSE outcome

\* The requests an event of a run may belong to: of the open ones, the latest.
OpenFor(m) ==
    {r \in Requests : /\ Accepted(r) /\ receipts[r].action # "title"
                      /\ m \in receipts[r].queued /\ OutcomeOpen(r, m)}

RecordRunEvent(m, status) ==
    \/ OpenFor(m) = {} /\ UNCHANGED outcome
    \/ \E r \in OpenFor(m) :
          /\ \A p \in OpenFor(m) : receipts[p].at <= receipts[r].at
          /\ outcome' = [outcome EXCEPT ![r][m] = Recorded(r, status)]

NextReceipt == Cardinality({r \in Requests : Accepted(r)})

ReceiptsInit ==
    /\ receipts = [r \in Requests |-> NoReceipt]
    /\ outcome = [r \in Requests |-> [m \in Listed |-> "none"]]

\* Once the outcome of a meeting is recorded nothing replaces it, but that a
\* title that was applied is taken back.
OutcomeKept ==
    \A r \in Requests, m \in Listed :
        outcome[r][m] \in FinalOutcomes =>
            outcome'[r][m] = outcome[r][m]
                \/ (outcome[r][m] = "completed" /\ outcome'[r][m] = "restored")
===============================================================================

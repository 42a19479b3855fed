------------------------------- MODULE TitleJobs -------------------------------
(***************************************************************************)
(* api/routers/meeting_titles.py with the title operations of               *)
(* core/job_queue.py: one worker generates titles for the meetings of the   *)
(* accepted requests while users rename meetings, cancel a request or undo   *)
(* it, and the queue and the editors change rows and transcripts.  A step   *)
(* ends at an await; a queue operation is one transaction.                  *)
(***************************************************************************)
EXTENDS Receipts, Sequences

CONSTANTS
    Titled,          \* the listed meetings whose titles are asked for or changed
    MaxRowChanges,   \* bound of row changes by others
    MaxTitleStops    \* bound of stops

ASSUME TitleBounds ==
    /\ Titled \subseteq Listed /\ IsFiniteSet(Titled)
    /\ MaxRowChanges \in Nat /\ MaxTitleStops \in Nat

VARIABLES
    titled,       \* per meeting, the row: title, updated_at, and the status
    transcript,   \* per meeting, the revision of the transcript
    titleEvents,  \* per request and meeting, what a "completed" event keeps
    admission,    \* the request being admitted, under the worker's lock
    pending,      \* meetings that have an item
    items,        \* the queue of the worker
    titleWork,    \* the item the worker has, and its step
    undoing,      \* the row an undo has read
    titleLeft     \* what is left of the bounds

titleVars ==
    <<receipts, outcome, titled, transcript, titleEvents, admission, pending,
      items, titleWork, undoing, titleLeft>>

NoWork == [step |-> "none"]
Untitled == "untitled"

TitlesInit ==
    /\ ReceiptsInit
    /\ titled \in [Listed -> [title : {Untitled}, rev : {0}, status : {"completed", "busy"}]]
    /\ transcript = [m \in Listed |-> 0]
    /\ titleEvents = [r \in Requests |-> [m \in Listed |-> NoWork]]
    /\ admission = NoWork /\ titleWork = NoWork /\ undoing = NoWork
    /\ pending = {} /\ items = <<>>
    /\ titleLeft = [changes |-> MaxRowChanges, stops |-> MaxTitleStops]

\* The worker and an undo hold the lease of their meeting.
LeaseFree(m) ==
    /\ titleWork.step \in {"generate", "apply"} => titleWork.meeting # m
    /\ undoing.step = "read" => undoing.meeting # m

------------------------------------------------------------------------------
(* What others do to the rows. *)

RowWritten(m, row) == titled' = [titled EXCEPT ![m] = [row EXCEPT !.rev = titled[m].rev + 1]]

\* update_title takes no lease, and a queue transition none either.
Renamed(m) ==
    \E title \in {"user", Untitled} : RowWritten(m, [titled[m] EXCEPT !.title = title])

StatusChanged(m) ==
    RowWritten(m, [titled[m] EXCEPT !.status = IF @ = "busy" THEN "completed" ELSE "busy"])

OthersWrite ==
    /\ titleLeft.changes > 0
    /\ titleLeft' = [titleLeft EXCEPT !.changes = @ - 1]
    /\ \E m \in Titled :
          \/ (Renamed(m) \/ StatusChanged(m)) /\ UNCHANGED transcript
          \/ /\ LeaseFree(m) /\ transcript' = [transcript EXCEPT ![m] = @ + 1]
             /\ UNCHANGED titled
    /\ UNCHANGED <<receipts, outcome, titleEvents, admission, pending, items, titleWork, undoing>>

------------------------------------------------------------------------------
(* Admission. *)

TitleItem(r, m, follows) ==
    [step |-> "queued", request |-> r, meeting |-> m, row |-> titled[m],
     revision |-> transcript[m], follows |-> follows]

\* The rows of a request are read one after the other; what is not busy and
\* has no item is accepted.
AdmitTitles(r) ==
    /\ admission = NoWork /\ ~Accepted(r)
    /\ \E chosen \in SUBSET Titled \ {{}} :
          admission' = [step |-> "read", request |-> r, chosen |-> chosen,
                        items |-> {TitleItem(r, m, FALSE) : m \in
                            {n \in chosen : /\ n \notin pending
                                            /\ titled[n].status = "completed"
                                            /\ LeaseFree(n)}}]
    /\ UNCHANGED <<receipts, outcome, titled, transcript, titleEvents, pending,
                   items, titleWork, undoing, titleLeft>>

Appended(more) ==
    CHOOSE s \in [1..Cardinality(more) -> more] : \A i, j \in DOMAIN s : i # j => s[i] # s[j]

AcceptTitles ==
    /\ admission.step = "read"
    /\ LET accepted == {item.meeting : item \in admission.items} IN
          /\ SaveReceipt(admission.request,
                 [action |-> "title", queued |-> accepted, at |-> NextReceipt,
                  session |-> titleLeft.stops,
                  titles |-> [m \in accepted |->
                      (CHOOSE item \in admission.items : item.meeting = m).row.title]])
          /\ pending' = pending \cup accepted
    /\ items' = items \o Appended(admission.items)
    /\ admission' = NoWork
    /\ UNCHANGED <<outcome, titled, transcript, titleEvents, titleWork, undoing, titleLeft>>

\* A batch that goes on with titles, and the end of its pipeline.
AcceptBatch(r) ==
    /\ \E m \in Titled :
          SaveReceipt(r, [action |-> "full_title", queued |-> {m}, at |-> NextReceipt,
                          session |-> titleLeft.stops,
                          titles |-> [n \in {m} |-> titled[m].title]])
    /\ UNCHANGED <<outcome, titled, transcript, titleEvents, admission, pending,
                   items, titleWork, undoing, titleLeft>>

PipelineEnds(m) ==
    /\ OpenFor(m) # {}
    /\ \E status \in {"completed", "failed"} : RecordRunEvent(m, status)
    /\ UNCHANGED <<receipts, titled, transcript, titleEvents, admission, pending,
                   items, titleWork, undoing, titleLeft>>

\* follow_batch_titles and submit_followup: the meeting must be complete, not
\* queued already, and still have the title it was accepted with.  The task
\* that waits for it ends with the server.
FollowUp(r, m) ==
    /\ outcome[r][m] = "pipeline_completed" /\ admission = NoWork
    /\ receipts[r].session = titleLeft.stops
    /\ IF m \notin pending /\ titled[m].status = "completed"
             /\ titled[m].title = receipts[r].titles[m]
       THEN /\ RecordEvent(r, m, "running")
            /\ pending' = pending \cup {m} /\ items' = Append(items, TitleItem(r, m, TRUE))
       ELSE RecordEvent(r, m, "skipped") /\ UNCHANGED <<pending, items>>
    /\ UNCHANGED <<receipts, titled, transcript, titleEvents, admission,
                   titleWork, undoing, titleLeft>>

------------------------------------------------------------------------------
(* The worker. *)

WorkerRest == UNCHANGED <<receipts, titled, transcript, titleEvents, admission, undoing, titleLeft>>

DropItem == titleWork' = NoWork /\ pending' = pending \ {titleWork.meeting}

TakeItem ==
    /\ titleWork = NoWork /\ items # <<>>
    /\ titleWork' = [Head(items) EXCEPT !.step = "check"]
    /\ items' = Tail(items)
    /\ UNCHANGED <<outcome, pending>> /\ WorkerRest

Unchanged(work) ==
    /\ titled[work.meeting] = work.row
    /\ transcript[work.meeting] = work.revision

\* process, up to the model: a cancelled item is dropped; under the lease, the
\* row and the transcript must be those of the admission.
CheckItem ==
    /\ titleWork.step = "check"
    /\ undoing.step = "read" => undoing.meeting # titleWork.meeting
    /\ LET r == titleWork.request  m == titleWork.meeting IN
          IF outcome[r][m] = "cancelled" THEN DropItem /\ UNCHANGED outcome
          ELSE IF ~Unchanged(titleWork) THEN DropItem /\ RecordEvent(r, m, "skipped")
          ELSE /\ titleWork' = [titleWork EXCEPT !.step = "generate"]
               /\ RecordEvent(r, m, "running") /\ UNCHANGED pending
    /\ UNCHANGED items /\ WorkerRest

GenerateTitle ==
    /\ titleWork.step = "generate"
    /\ \/ titleWork' = [titleWork EXCEPT !.step = "apply"] /\ UNCHANGED <<outcome, pending>>
       \/ DropItem /\ RecordEvent(titleWork.request, titleWork.meeting, "failed")
    /\ UNCHANGED items /\ WorkerRest

\* Mutant: the row is found again by its meeting and status alone.
SameMeeting(m, row) == titled[m].status = row.status

\* What the UPDATE of apply_generated_title asks of the row.
SameRow(m, row) == titled[m] = row

\* apply_generated_title: the title and the event that can undo it.
TitleApplied(r, m, row, title, status) ==
    /\ RowWritten(m, [titled[m] EXCEPT !.title = title])
    /\ outcome' = [outcome EXCEPT ![r][m] = status]
    /\ titleEvents' = [titleEvents EXCEPT ![r][m] =
           [step |-> status, previous |-> row.title, applied |-> title,
            rev |-> titled[m].rev + 1]]

ApplyTitle ==
    /\ titleWork.step = "apply"
    /\ LET r == titleWork.request  m == titleWork.meeting IN
          IF OutcomeOpen(r, m) /\ SameRow(m, titleWork.row)
          THEN TitleApplied(r, m, titleWork.row, r, "completed")
          ELSE RecordEvent(r, m, "skipped") /\ UNCHANGED <<titled, titleEvents>>
    /\ DropItem
    /\ UNCHANGED <<receipts, transcript, admission, items, undoing, titleLeft>>

\* The server ends: what is left is recorded as interrupted, or nothing is.
WorkerStops ==
    /\ titleLeft.stops > 0
    /\ titleLeft' = [titleLeft EXCEPT !.stops = @ - 1]
    /\ LET left == {items[i] : i \in DOMAIN items} \cup ({titleWork} \ {NoWork}) IN
          outcome' \in {outcome,
              [r \in Requests |-> [m \in Listed |->
                  IF OutcomeOpen(r, m) /\ \E w \in left : w.request = r /\ w.meeting = m
                  THEN "interrupted" ELSE outcome[r][m]]]}
    /\ items' = <<>> /\ titleWork' = NoWork /\ pending' = {}
    /\ admission' = NoWork /\ undoing' = NoWork
    /\ UNCHANGED <<receipts, titled, transcript, titleEvents>>

------------------------------------------------------------------------------
(* Requests about an accepted request. *)

CancelTitles(r) ==
    /\ Accepted(r) /\ receipts[r].action = "title"
    /\ outcome' = [outcome EXCEPT ![r] = [m \in Listed |->
           IF m \in receipts[r].queued /\ OutcomeOpen(r, m) THEN "cancelled" ELSE @[m]]]
    /\ UNCHANGED <<receipts, titled, transcript, titleEvents, admission, pending,
                   items, titleWork, undoing, titleLeft>>

\* undo_title_jobs, for one meeting and under its lease: the row must be as the
\* event left it, and is written when it is still the one that was read.
ReadForUndo(r, m) ==
    /\ undoing = NoWork /\ LeaseFree(m)
    /\ outcome[r][m] = "completed" /\ titleEvents[r][m].step = "completed"
    /\ titled[m].title = titleEvents[r][m].applied /\ titled[m].rev = titleEvents[r][m].rev
    /\ undoing' = [step |-> "read", request |-> r, meeting |-> m, row |-> titled[m]]
    /\ UNCHANGED <<receipts, outcome, titled, transcript, titleEvents, admission,
                   pending, items, titleWork, titleLeft>>

WriteUndo ==
    /\ undoing.step = "read"
    /\ LET r == undoing.request  m == undoing.meeting IN
          IF outcome[r][m] = "completed" /\ SameRow(m, undoing.row)
          THEN TitleApplied(r, m, undoing.row, titleEvents[r][m].previous, "restored")
          ELSE UNCHANGED <<titled, outcome, titleEvents>>
    /\ undoing' = NoWork
    /\ UNCHANGED <<receipts, transcript, admission, pending, items, titleWork, titleLeft>>

------------------------------------------------------------------------------

TitlesNext ==
    \/ OthersWrite \/ AcceptTitles
    \/ \E r \in Requests : AdmitTitles(r) \/ AcceptBatch(r) \/ CancelTitles(r)
    \/ \E r \in Requests, m \in Titled : FollowUp(r, m) \/ ReadForUndo(r, m)
    \/ \E m \in Titled : PipelineEnds(m)
    \/ TakeItem \/ CheckItem \/ GenerateTitle \/ ApplyTitle \/ WorkerStops
    \/ WriteUndo

TitlesSpec == TitlesInit /\ [][TitlesNext]_titleVars

------------------------------------------------------------------------------

\* A generated title replaces the title its request was accepted with, never
\* one that came later; an undo replaces the title that was applied with the
\* one before it.  A request that ended, or was cancelled, changes no title.
TitleStep ==
    /\ OutcomeKept
    /\ \A r \in Requests, m \in Listed :
          outcome'[r][m] # outcome[r][m] =>
              /\ (outcome'[r][m] = "completed" /\ titleWork.step = "apply") =>
                     titled[m].title = receipts[r].titles[m]
              /\ outcome'[r][m] = "restored" =>
                     /\ titled[m].title = r
                     /\ titled'[m].title = titleEvents[r][m].previous
================================================================================

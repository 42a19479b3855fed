----------------------------- MODULE BatchRequests -----------------------------
(***************************************************************************)
(* Batch requests (api/routers/meetings_batch.py) and the nightly automatic *)
(* processing (core/auto_processing.py, core/auto_processing_scheduler.py): *)
(* both read rows and artifacts meeting by meeting, and queue or run them   *)
(* later.  A request may be posted twice with the same id, and the server    *)
(* may end between any two steps.                                           *)
(***************************************************************************)
EXTENDS JobRows, Receipts

CONSTANTS
    Posts,          \* handlers; each posts a request
    PostsOf,        \* handler -> request id
    Moving,         \* the meetings whose rows others move meanwhile
    MaxBatchStops   \* bound of server restarts

ASSUME BatchBounds ==
    PostsOf \in [Posts -> Requests] /\ Moving \subseteq Listed /\ MaxBatchStops \in Nat

VARIABLES
    artifacts,     \* per meeting, what merge.json and the summary say of it
    post,          \* per handler: its step and the class it gave each meeting
    background,    \* per request, the meetings its task has left
    autoRun,       \* the automatic run: its step, and the meetings it chose
    autoLock,      \* _run_lock of the scheduler
    batchActor,    \* which of the two moves, when one is enough
    taken,         \* history: how often a request queued or ran a meeting
    batchLeft      \* restarts left

batchLocals == <<receipts, outcome, artifacts, post, background, autoRun, autoLock,
                 batchActor, taken, batchLeft>>
batchVars == <<jobs, batchLocals>>

Classes == {"transcribe", "summarize", "done"}
Unread == [m \in Listed |-> "unread"]
IdlePost == [step |-> "new", class |-> Unread, checked |-> {}]
IdleAuto == [step |-> "idle", chosen |-> {}]

BatchRows ==
    jobs \in [Meetings -> [status : {"recorded", "completed"}, action : {NoAction},
                           retries : {0}, error : {"none"}, selection : Selections]]

BatchLocals ==
    /\ ReceiptsInit
    /\ artifacts \in [Listed -> Classes]
    /\ post = [p \in Posts |-> IdlePost]
    /\ background = [r \in Requests |-> {}]
    /\ autoRun = IdleAuto /\ autoLock = FALSE
    /\ batchActor \in {"requests", "scheduler"}
    /\ taken = [r \in Requests |-> [m \in Listed |-> 0]]
    /\ batchLeft = MaxBatchStops

BatchInit == BatchRows /\ BatchLocals

PostGo(p, step) == post' = [post EXCEPT ![p].step = step]
ClassIs(p, class) == {m \in Listed : post[p].class[m] = class}
Take(r, meetings) == taken' = [taken EXCEPT ![r] = [m \in Listed |->
                                  IF m \in meetings THEN @[m] + 1 ELSE @[m]]]

------------------------------------------------------------------------------
(* A request. *)

\* batch_action: a known id is answered from its receipt.
ReadReceipt(p) ==
    /\ post[p].step = "new"
    /\ PostGo(p, IF Accepted(PostsOf[p]) THEN "answered" ELSE "prepare")
    /\ UNCHANGED <<jobs, receipts, outcome, artifacts, background, autoRun, autoLock,
                   batchActor, taken, batchLeft>>

\* _is_job_status_safe_for_batch
SafeForBatch(m, class) ==
    CASE class = "transcribe" -> jobs[m].status = "recorded"
      [] class = "summarize"  -> jobs[m].status \in {"completed", "recorded"}
      [] OTHER                -> FALSE

\* _prepare_batch for one meeting: its class, if it is eligible and safe.
PrepareMeeting(p) ==
    /\ post[p].step = "prepare"
    /\ \E m \in ClassIs(p, "unread") :
          post' = [post EXCEPT ![p].class[m] =
                      IF SafeForBatch(m, artifacts[m]) THEN artifacts[m] ELSE "out"]
    /\ UNCHANGED <<jobs, receipts, outcome, artifacts, background, autoRun, autoLock,
                   batchActor, taken, batchLeft>>

\* _recheck_transcribe_items: the row once more, and the audio gate.
RecheckMeeting(p) ==
    /\ post[p].step = "prepare" /\ ClassIs(p, "unread") = {}
    /\ \E m \in ClassIs(p, "transcribe") \ post[p].checked :
          post' = [post EXCEPT ![p].checked = @ \cup {m},
                               ![p].class[m] =
                      IF SafeForBatch(m, "transcribe") THEN @ ELSE "out"]
    /\ UNCHANGED <<jobs, receipts, outcome, artifacts, background, autoRun, autoLock,
                   batchActor, taken, batchLeft>>

ReadyToCommit(p) ==
    /\ post[p].step = "prepare" /\ ClassIs(p, "unread") = {}
    /\ ClassIs(p, "transcribe") \subseteq post[p].checked

BatchReceipt(queued, later) ==
    [action |-> "full", queued |-> queued, later |-> later, at |-> NextReceipt,
     session |-> batchLeft]

\* Mutant: a second receipt with the same id replaces the first.
ReceiptReplaced(r, receipt) == receipts' = [receipts EXCEPT ![r] = receipt]

ReceiptInserted(r, receipt) == SaveReceipt(r, receipt)

\* One transaction queues what is to be transcribed and keeps the receipt; the
\* rest is left to a task.
CommitBatch(p) ==
    /\ ReadyToCommit(p)
    /\ LET r == PostsOf[p]
           now == ClassIs(p, "transcribe")
           later == ClassIs(p, "summarize")
       IN  /\ ReceiptInserted(r, BatchReceipt(now \cup later, later))
           /\ QueueJobsAtomically(now, DefaultIntent, CHOOSE s \in Selections : TRUE)
           /\ Take(r, now)
    /\ PostGo(p, "committed")
    /\ UNCHANGED <<outcome, artifacts, background, autoRun, autoLock, batchActor,
                   batchLeft>>

\* A row that is no longer recorded or a receipt that exists undoes the
\* transaction; an audio gate or a changed model refuses before it.  A refusal
\* is kept in a receipt without meetings, unless there is one.
RefuseBatch(p) ==
    /\ post[p].step = "prepare"
    /\ LET r == PostsOf[p] IN
          IF Accepted(r) THEN UNCHANGED receipts ELSE SaveReceipt(r, BatchReceipt({}, {}))
    /\ PostGo(p, "refused")
    /\ UNCHANGED <<jobs, outcome, artifacts, background, autoRun, autoLock,
                   batchActor, taken, batchLeft>>

StartBackground(p) ==
    /\ post[p].step = "committed"
    /\ background' = [background EXCEPT ![PostsOf[p]] = ClassIs(p, "summarize")]
    /\ PostGo(p, "answered")
    /\ UNCHANGED <<jobs, receipts, outcome, artifacts, autoRun, autoLock, batchActor,
                   taken, batchLeft>>

\* run_llm_steps keeps a summary that is there; a failure does not stop the
\* other meetings.
RunBackground(r) ==
    /\ \E m \in background[r] :
          /\ background' = [background EXCEPT ![r] = @ \ {m}]
          /\ Take(r, {m})
          /\ \/ /\ artifacts[m] # "transcribe"
                /\ artifacts' = [artifacts EXCEPT ![m] = "done"]
                /\ RecordEvent(r, m, "completed")
             \/ RecordEvent(r, m, "failed") /\ UNCHANGED artifacts
    /\ UNCHANGED <<jobs, receipts, post, autoRun, autoLock, batchActor, batchLeft>>

------------------------------------------------------------------------------
(* The scheduler. *)

AutoRest == UNCHANGED <<receipts, outcome, post, background, batchActor, taken,
                        batchLeft>>

\* run_once, or a request's reservation, takes the lock without waiting.
ReserveAuto ==
    /\ ~autoLock /\ autoRun.step = "idle"
    /\ autoLock' = TRUE
    /\ autoRun' \in {[IdleAuto EXCEPT !.step = s] : s \in {"reserved", "prepare"}}
    /\ UNCHANGED <<jobs, artifacts>> /\ AutoRest

\* Mutant: a task that is cancelled before its first step keeps the lock.
LockAfterLoss == TRUE

LockAfterNeverStarted == FALSE

\* The reserved task starts, or is cancelled before it does.
StartReserved ==
    /\ autoRun.step = "reserved"
    /\ \/ autoRun' = [autoRun EXCEPT !.step = "prepare"] /\ UNCHANGED autoLock
       \/ autoRun' = IdleAuto /\ autoLock' = LockAfterNeverStarted
    /\ UNCHANGED <<jobs, artifacts>> /\ AutoRest

\* is_job_safe_to_auto_process, on the rows read at once.
SafeForAuto(m) ==
    /\ SafeForBatch(m, artifacts[m])
    /\ ~(jobs[m].status = "recorded" /\ jobs[m].error = "cancelled")

\* prepare and max_items_per_run; a run whose configuration is unsafe ends.
PrepareAuto ==
    /\ autoRun.step = "prepare"
    /\ \/ /\ \E chosen \in SUBSET {m \in Listed : SafeForAuto(m)} :
                autoRun' = [step |-> "run", chosen |-> {<<m, artifacts[m]>> : m \in chosen}]
          /\ UNCHANGED autoLock
       \/ autoRun' = IdleAuto /\ autoLock' = FALSE
    /\ UNCHANGED <<jobs, artifacts>> /\ AutoRest

\* queue_job refuses only what is neither recorded nor failed by now.
AutoItem ==
    /\ autoRun.step = "run"
    /\ \E item \in autoRun.chosen :
          /\ autoRun' = [autoRun EXCEPT !.chosen = @ \ {item}]
          /\ IF item[2] = "transcribe"
             THEN /\ \/ QueueJob(item[1], DefaultIntent, CHOOSE s \in Selections : TRUE)
                     \/ jobs[item[1]].status \notin {"recorded", "failed"} /\ UNCHANGED jobs
                  /\ UNCHANGED artifacts
             ELSE /\ \/ artifacts' = [artifacts EXCEPT ![item[1]] = "done"]
                     \/ UNCHANGED artifacts
                  /\ UNCHANGED jobs
    /\ UNCHANGED autoLock /\ AutoRest

AutoEnds ==
    /\ autoRun.step = "run" /\ autoRun.chosen = {}
    /\ autoRun' = IdleAuto /\ autoLock' = FALSE
    /\ UNCHANGED <<jobs, artifacts>> /\ AutoRest

\* stop, update_config: the loop's task is cancelled, the lock is an `async with`.
AutoStopped ==
    /\ autoRun.step \in {"prepare", "run"}
    /\ autoRun' = IdleAuto /\ autoLock' = FALSE
    /\ UNCHANGED <<jobs, artifacts>> /\ AutoRest

------------------------------------------------------------------------------
(* The rest of the system. *)

\* The worker runs a queued meeting, a user queues one or cancels it.
RowMoves(m) ==
    \/ /\ jobs[m].status = "queued"
       /\ \E end \in {"completed", "failed"} :
             /\ Store(m, [jobs[m] EXCEPT !.status = end])
             /\ RecordRunEvent(m, end)
             /\ IF end = "completed" THEN artifacts' = [artifacts EXCEPT ![m] = "done"]
                ELSE UNCHANGED artifacts
    \/ CancelQueuedJob(m) /\ RecordRunEvent(m, "cancelled") /\ UNCHANGED artifacts
    \/ QueueJob(m, DefaultIntent, jobs[m].selection) /\ UNCHANGED <<outcome, artifacts>>

OthersMoveRows ==
    /\ \E m \in Moving : RowMoves(m)
    /\ UNCHANGED <<receipts, post, background, autoRun, autoLock, batchActor, taken,
                   batchLeft>>

BatchRestart ==
    /\ batchLeft > 0 /\ batchLeft' = batchLeft - 1
    /\ post' = [p \in Posts |-> IF post[p].step \in {"answered", "refused"} THEN post[p]
                                ELSE IdlePost]
    /\ background' = [r \in Requests |-> {}]
    /\ autoRun' = IdleAuto /\ autoLock' = FALSE
    /\ UNCHANGED <<jobs, receipts, outcome, artifacts, batchActor, taken>>

\* batch_history: what the task of an earlier session left open is shown as
\* interrupted.
Shown(r, m) ==
    IF m \in receipts[r].later /\ receipts[r].session # batchLeft /\ OutcomeOpen(r, m)
    THEN "interrupted" ELSE outcome[r][m]

BatchNext ==
    \/ /\ batchActor = "requests"
       /\ \/ \E p \in Posts :
                ReadReceipt(p) \/ PrepareMeeting(p) \/ RecheckMeeting(p) \/ CommitBatch(p)
                    \/ RefuseBatch(p) \/ StartBackground(p)
          \/ \E r \in Requests : RunBackground(r)
    \/ /\ batchActor = "scheduler"
       /\ ReserveAuto \/ StartReserved \/ PrepareAuto \/ AutoItem \/ AutoEnds \/ AutoStopped
    \/ OthersMoveRows \/ BatchRestart

BatchSpec == BatchInit /\ [][BatchNext]_batchVars

------------------------------------------------------------------------------

\* A request takes a meeting at most once, however often it is posted, and only
\* one its receipt names; what the receipt names was queued with it, is left to
\* a task that lives, was run by it, or is shown as interrupted.  The lock of
\* the automatic runs is held by a run and by nothing else.
ReceiptsTellTheTruth ==
    /\ \A r \in Requests, m \in Listed :
          /\ taken[r][m] <= 1
          /\ taken[r][m] = 1 => Accepted(r) /\ m \in receipts[r].queued
          /\ (Accepted(r) /\ m \in receipts[r].queued /\ taken[r][m] = 0) =>
                m \in background[r] \/ Shown(r, m) \in FinalOutcomes
                    \/ \E p \in Posts : PostsOf[p] = r /\ post[p].step = "committed"
    /\ autoLock <=> autoRun.step # "idle"
================================================================================

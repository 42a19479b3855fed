-------------------------- MODULE JobProcessorProofs ---------------------------
(***************************************************************************)
(* Proofs about JobProcessor, for every set of meetings, tokens, intents    *)
(* and models, any retry limit and any number of cancellations, crashes and *)
(* failing writes: types, that completed means finished, that no row is     *)
(* left in progress without an owner, and that an interrupted run is queued *)
(* again as it was requested.                                               *)
(***************************************************************************)
EXTENDS JobProcessor, JobRowsProofs

------------------------------------------------------------------------------
(* The table under the operations the worker and the handlers call. *)

\* Every meeting has a row, well formed and coherent.
Table == GoodTable /\ \A m \in Meetings : jobs[m] # Gone

\* A row of the table, and what its status says of its payload.
LEMMA RowOf ==
    ASSUME Table, NEW m \in Meetings
    PROVE  /\ jobs[m] \in Rows /\ GoodRow(jobs[m])
           /\ Active(m) => jobs[m].action \in PlainActions /\ ~Durable(jobs[m])
           /\ Active(m) => ~HasCancelClaim(jobs[m])
           /\ jobs[m].status = "queued" => jobs[m].action \in PlainActions
  <1>1. jobs[m] \in Rows /\ GoodRow(jobs[m])
    BY DEF Table, GoodTable, GoodRow
  <1>2. ASSUME Active(m) \/ jobs[m].status = "queued"
        PROVE  jobs[m].action \in PlainActions
    BY <1>1, <1>2, PlainRow DEF Active, ActiveStatuses
  <1>3. jobs[m].action \in PlainActions => ~Durable(jobs[m])
    BY DEF PlainActions, Durable
  <1> QED
    BY <1>1, <1>2, <1>3 DEF Active, ActiveStatuses, HasCancelClaim

\* A status that is never recording, written by either of the two ways.
LEMMA StatusTable ==
    ASSUME Table, NEW m \in Meetings, NEW new \in Statuses \ {"recording"},
           NEW error \in Errors, UpdateStatus(m, new, error) \/ ForceSetStatus(m, new, error)
    PROVE  /\ Table' /\ jobs'[m].status = new
           /\ \A n \in Meetings \ {m} : jobs'[n] = jobs[n]
  <1>1. GoodTable'
    BY UpdateStatusGood, ForceSetStatusGood DEF Table
  <1>2. jobs'[m].status = new
    <2>1. CASE UpdateStatus(m, new, error)
      BY <2>1, RowOf DEF UpdateStatus, Store, Table, GoodTable, Rows
    <2>2. CASE ForceSetStatus(m, new, error)
      BY <2>2, RowOf DEF ForceSetStatus, Store, Table, GoodTable, Rows
    <2> QED
      BY <2>1, <2>2
  <1>3. \A n \in Meetings \ {m} : jobs'[n] = jobs[n]
    BY DEF UpdateStatus, ForceSetStatus, Store, Table, GoodTable
  <1> QED
    BY <1>1, <1>2, <1>3 DEF Table, Statuses, ActiveStatuses, Gone

\* Claiming a queued job for the run.
LEMMA ClaimTable ==
    ASSUME Table, NEW m \in Meetings, ClaimQueuedJobForProcessing(m)
    PROVE  /\ Table' /\ jobs'[m].status = "transcribing"
           /\ \A n \in Meetings \ {m} : jobs'[n] = jobs[n]
  <1>1. GoodTable'
    BY ClaimQueuedGood DEF Table
  <1>2. jobs'[m].status = "transcribing" /\ jobs'[m] # Gone
    BY RowOf DEF ClaimQueuedJobForProcessing, Store, Table, GoodTable, Rows, Gone
  <1>3. \A n \in Meetings \ {m} : jobs'[n] = jobs[n]
    BY DEF ClaimQueuedJobForProcessing, Store, Table, GoodTable
  <1> QED
    BY <1>1, <1>2, <1>3 DEF Table

\* Ending a cancellation, of a run or of a waiting job.
LEMMA CancelledTable ==
    ASSUME Table, NEW m \in Meetings, FinalizeCancellationClaim(m) \/ CancelQueuedJob(m)
    PROVE  /\ Table' /\ jobs'[m].status = "recorded"
           /\ \A n \in Meetings \ {m} : jobs'[n] = jobs[n]
  <1>1. GoodTable'
    BY FinalizeCancellationGood, CancelQueuedGood DEF Table
  <1>2. jobs'[m].status = "recorded"
    <2>1. CASE FinalizeCancellationClaim(m)
      BY <2>1, RowOf DEF FinalizeCancellationClaim, Store, Table, GoodTable, Rows
    <2>2. CASE CancelQueuedJob(m)
      BY <2>2, RowOf DEF CancelQueuedJob, Store, Table, GoodTable, Rows
    <2> QED
      BY <2>1, <2>2
  <1>3. \A n \in Meetings \ {m} : jobs'[n] = jobs[n]
    BY DEF FinalizeCancellationClaim, CancelQueuedJob, Store, Table, GoodTable
  <1> QED
    BY <1>1, <1>2, <1>3 DEF Table, Statuses, ActiveStatuses, Gone

\* A cancellation takes a running job.
LEMMA CancelClaimTable ==
    ASSUME Table, NEW m \in Meetings, NEW token \in Tokens,
           ClaimActiveJobForCancellation(m, token)
    PROVE  /\ Table' /\ jobs'[m].status = "recording" /\ Active(m)
           /\ \A n \in Meetings \ {m} : jobs'[n] = jobs[n]
  <1>1. GoodTable'
    BY ClaimCancellationGood DEF Table
  <1>2. jobs'[m].status = "recording" /\ jobs'[m] # Gone
    BY RowOf DEF ClaimActiveJobForCancellation, Store, Table, GoodTable, Rows, Gone
  <1>3. Active(m) /\ \A n \in Meetings \ {m} : jobs'[n] = jobs[n]
    BY DEF ClaimActiveJobForCancellation, CanClaimForCancellation, Active, Store, Table,
           GoodTable
  <1> QED
    BY <1>1, <1>2, <1>3 DEF Table

\* A user or a batch queues a job that is not running.
LEMMA QueuedTable ==
    ASSUME Table, NEW m \in Meetings, NEW intent \in Intents, NEW selection \in Selections,
           \/ QueueJob(m, intent, selection)
           \/ RetryJob(m, selection)
           \/ QueueJobsAtomically({m}, intent, selection)
    PROVE  /\ Table' /\ jobs'[m].status = "queued" /\ ~Active(m)
           /\ \A n \in Meetings \ {m} : jobs'[n] = jobs[n]
  <1>1. GoodTable'
    BY QueueJobGood, RetryJobGood, QueueBatchGood DEF Table
  <1>2. jobs'[m].status = "queued" /\ jobs'[m] # Gone
    BY RowOf DEF QueueJob, RetryJob, QueueJobsAtomically, Requeued, Retried, Store, Table,
                 GoodTable, Rows, Gone
  <1>3. ~Active(m)
    BY DEF QueueJob, RetryJob, CanRetry, QueueJobsAtomically, Active, ActiveStatuses
  <1>4. \A n \in Meetings \ {m} : jobs'[n] = jobs[n]
    BY DEF QueueJob, RetryJob, QueueJobsAtomically, Store, Table, GoodTable
  <1> QED
    BY <1>1, <1>2, <1>3, <1>4 DEF Table

------------------------------------------------------------------------------
(* The inductive invariant. *)

WorkerType ==
    [pc : WorkerPcs, at : Meetings \cup {Nobody}, intent : Intents,
     claims : SUBSET Meetings, orphans : SUBSET Meetings, stopping : BOOLEAN]

SpentType ==
    [cancels : 0..MaxCancels, crashes : 0..MaxCrashes, faults : 0..MaxFaults,
     stale : BOOLEAN]

HandlersTyped ==
    /\ flags \in SUBSET Meetings
    /\ cancel \in [Meetings -> {"idle", "queued", "claim", "flag"}]
    /\ requeue \in [Meetings -> {"idle", "discard"}]
    /\ reconcile \in [Meetings -> {"idle", "force"}]

\* The worker has a meeting from the poll that chose it to the end of its run,
\* and a step under way is one of the pipeline's.
AtWork ==
    /\ worker.pc \in {"wait", "announce"} \cup RunPcs => Here \in Meetings
    /\ worker.pc \in {"mark", "recheck", "work"} => progress[Here] < Finished

Shapes ==
    /\ progress \in [Meetings -> 0..Finished]
    /\ worker \in WorkerType
    /\ spent \in SpentType
    /\ HandlersTyped
    /\ AtWork

\* Whoever is about to complete a meeting has seen all its checkpoints.
Earned ==
    /\ CompletedMeansFinished
    /\ worker.pc \in {"finished", "complete", "force"} => progress[Here] = Finished
    /\ \A m \in Meetings : reconcile[m] = "force" => progress[m] = Finished

\* No cancellation of a run is under way while the processor is unpublished,
\* and the flag alone settles a run only where that has been recorded.
Waits ==
    /\ worker.pc \in RecoveryPcs =>
           \A m \in Meetings : cancel[m] \notin {"claim", "flag"}
    /\ At("fallback") => spent.stale

\* RowsOwned, with what recovery has still in hand and what a run that is about
\* to be left has already settled.
Settled ==
    /\ \A m \in Meetings : Active(m) \/ HasCancelClaim(jobs[m]) => Owned(m)
    /\ At("claims") => \A m \in Meetings :
           /\ HasCancelClaim(jobs[m]) => m \in worker.claims
           /\ Active(m) => m \in worker.orphans
    /\ At("orphans") => \A m \in Meetings : ~HasCancelClaim(jobs[m])
    /\ At("confirm") => ~Active(Here)

OwnInv == Waits /\ (~Disturbed => Settled)

PInv == Table /\ Shapes /\ Earned /\ OwnInv

\* The pipeline has four steps, each marked by an active status.
LEMMA StepStatuses ==
    /\ Finished = 4
    /\ \A i \in 1..4 : Steps[i] \in ActiveStatuses
    /\ ActiveStatuses \subseteq Statuses \ {"recording", "completed", "queued", "failed"}
  BY DEF Finished, Steps, ActiveStatuses, Statuses

\* Moving the worker on leaves the rest of what it knows.
LEMMA GotoTyped ==
    ASSUME worker \in WorkerType, NEW pc \in WorkerPcs, Goto(pc)
    PROVE  /\ worker' \in WorkerType
           /\ worker'.pc = pc /\ Here' = Here /\ worker'.stopping = worker.stopping
           /\ worker'.claims = worker.claims /\ worker'.orphans = worker.orphans
  BY DEF Goto, WorkerType, Here

\* The end of a run, and of the loop.
LEMMA IdleTyped ==
    ASSUME worker \in WorkerType, Idle \/ LoopEnds
    PROVE  /\ worker' \in WorkerType
           /\ worker'.pc \in {"poll", "off"}
           /\ LoopEnds => worker'.pc = "off"
  <1>1. CASE Idle
    BY <1>1, IntentAssumption DEF Idle, LoopEnds, WorkerType, WorkerPcs
  <1>2. CASE LoopEnds
    BY <1>2, IntentAssumption DEF LoopEnds, WorkerType, WorkerPcs
  <1> QED
    BY <1>1, <1>2

\* A cancellation that has nothing to unwind.
LEMMA FinalizeTyped ==
    ASSUME worker \in WorkerType, FinalizeCancellation
    PROVE  worker' \in WorkerType /\ worker'.pc = "finalize" /\ Here' = Here
  BY GotoTyped DEF FinalizeCancellation, WorkerPcs, RunPcs

\* A failed write is counted.
LEMMA FaultTyped ==
    ASSUME spent \in SpentType, Fault
    PROVE  spent' \in SpentType /\ spent'.faults > 0 /\ spent'.stale = spent.stale
  BY BoundsAssumption DEF Fault, SpentType

\* The program counters, spelled out.
LEMMA Pcs ==
    /\ RunPcs \subseteq WorkerPcs
    /\ RecoveryPcs \subseteq WorkerPcs
    /\ {"poll", "wait", "announce", "off"} \subseteq WorkerPcs
    /\ InterruptiblePcs \subseteq RunPcs \cup {"announce"}
    /\ RecoveryPcs \cap (RunPcs \cup {"poll", "wait", "announce", "off"}) = {}
    /\ RunPcs \cap {"poll", "wait", "announce", "off"} = {}
  BY DEF WorkerPcs, RunPcs, RecoveryPcs, InterruptiblePcs

------------------------------------------------------------------------------
(* Every step keeps the table. *)

LEMMA WorkerTable ==
    ASSUME Table, Shapes, WorkerNext
    PROVE  Table'
  <1>1. UNCHANGED jobs => Table'
    BY DEF Table, GoodTable
  <1>2. \A m \in Meetings, error \in Errors, new \in Statuses \ {"recording"} :
           UpdateStatus(m, new, error) \/ ForceSetStatus(m, new, error) => Table'
    BY StatusTable
  <1>3. \A m \in Meetings : FinalizeCancellationClaim(m) => Table'
    BY CancelledTable
  <1>4. worker.pc \in RunPcs \cup {"wait"} => Here \in Meetings
    BY DEF Shapes, AtWork
  <1>5. {"queued", "completed", "failed", "recorded"} \subseteq Statuses \ {"recording"}
    BY DEF Statuses
  <1>6. {"none", "cancelled", "other"} \subseteq Errors
    BY DEF Errors
  <1>7. CASE TakeSnapshot
    BY <1>7, <1>1 DEF TakeSnapshot
  <1>8. CASE FinalizeOrphanedClaim
    BY <1>8, <1>1, <1>3 DEF FinalizeOrphanedClaim, Shapes, WorkerType
  <1>9. CASE RequeueOrphan
    BY <1>9, <1>1, <1>2, <1>5, <1>6 DEF RequeueOrphan, Shapes, WorkerType
  <1>10. CASE \E m \in Meetings : Poll(m)
    BY <1>10, <1>1 DEF Poll
  <1>11. CASE Claim
    BY <1>11, <1>1, <1>4, ClaimTable DEF Claim, At
  <1>12. CASE MarkStep
    <2>1. Here \in Meetings /\ progress[Here] < Finished /\ progress[Here] \in Nat
      BY <1>12 DEF MarkStep, At, Shapes, AtWork, RunPcs
    <2>2. Steps[progress[Here] + 1] \in Statuses \ {"recording"}
      BY <2>1, StepStatuses
    <2> QED
      BY <1>12, <1>1, <1>2, <1>6, <2>1, <2>2 DEF MarkStep
  <1>13. CASE Boundary \/ Recheck \/ WorkEnds \/ PipelineRaises \/ RunReturns
    BY <1>13, <1>1 DEF Boundary, Recheck, WorkEnds, PipelineRaises, RunReturns
  <1>14. CASE MarkCompleted
    BY <1>14, <1>1, <1>2, <1>4, <1>5, <1>6 DEF MarkCompleted, At, RunPcs
  <1>15. CASE ForceCompleted
    BY <1>15, <1>1, <1>2, <1>4, <1>5, <1>6 DEF ForceCompleted, At, RunPcs
  <1>16. CASE SaveFailed
    BY <1>16, <1>1, <1>2, <1>4, <1>5, <1>6 DEF SaveFailed, At, RunPcs
  <1>17. CASE SaveRecorded
    BY <1>17, <1>1, <1>2, <1>4, <1>5, <1>6 DEF SaveRecorded, At, RunPcs
  <1>18. CASE Announce \/ RunEndsEarly \/ Confirm \/ Unwind
    BY <1>18, <1>1 DEF Announce, RunEndsEarly, Confirm, Unwind
  <1>19. CASE FinalizeClaim
    BY <1>19, <1>1, <1>3, <1>4 DEF FinalizeClaim, At, RunPcs
  <1>20. CASE FinalizeFlag
    BY <1>20, <1>1, <1>2, <1>4, <1>5, <1>6 DEF FinalizeFlag, At, RunPcs
  <1>21. CASE RequeueInterrupted
    BY <1>21, <1>1, <1>2, <1>4, <1>5, <1>6 DEF RequeueInterrupted, At, RunPcs
  <1> QED
    BY <1>7, <1>8, <1>9, <1>10, <1>11, <1>12, <1>13, <1>14, <1>15, <1>16, <1>17, <1>18, <1>19, <1>20, <1>21 DEF WorkerNext

LEMMA HandlerTable ==
    ASSUME Table, Shapes, NEW m \in Meetings, HandlerNext(m) \/ Requests(m)
    PROVE  Table'
  <1>1. UNCHANGED jobs => Table'
    BY DEF Table, GoodTable
  <1>2. {"none"} \subseteq Errors /\ {"completed"} \subseteq Statuses \ {"recording"}
    BY DEF Errors, Statuses
  <1>3. CASE CancelReads(m) \/ RequestCancellation(m) \/ DiscardFlag(m) \/ ReconcileReads(m)
    BY <1>1, <1>3 DEF CancelReads, RequestCancellation, DiscardFlag, ReconcileReads
  <1>4. CASE CancelWaiting(m)
    BY <1>1, <1>4, CancelledTable DEF CancelWaiting
  <1>5. CASE CancelRunning(m)
    BY <1>1, <1>5, CancelClaimTable DEF CancelRunning
  <1>6. CASE UserRequeues(m)
    BY <1>6, QueuedTable, IntentAssumption DEF UserRequeues
  <1>7. CASE BatchQueues(m)
    BY <1>7, QueuedTable DEF BatchQueues
  <1>8. CASE ReconcileForces(m)
    BY <1>1, <1>2, <1>8, StatusTable DEF ReconcileForces
  <1> QED
    BY <1>3, <1>4, <1>5, <1>6, <1>7, <1>8 DEF HandlerNext, Requests

LEMMA TableStep ==
    ASSUME Table, Shapes, PNext
    PROVE  Table'
  <1>1. CASE Stop
    <2>1. At("wait") => Here \in Meetings
      BY DEF Shapes, AtWork, At
    <2>2. UNCHANGED jobs => Table'
      BY DEF Table, GoodTable
    <2> QED
      BY <1>1, <2>1, <2>2, ClaimTable DEF Stop
  <1>2. CASE Crash
    BY <1>2 DEF Crash, Table, GoodTable
  <1> QED
    BY <1>1, <1>2, WorkerTable, HandlerTable DEF PNext

------------------------------------------------------------------------------
(* Every step keeps the shapes. *)

\* The worker's own steps, one at a time: what they leave is well shaped.
LEMMA WorkerShapes ==
    ASSUME Table, Shapes, WorkerNext
    PROVE  Shapes'
  <1> USE DEF Shapes
  <1>1. HandlersTyped /\ UNCHANGED handlers /\ flags' \subseteq flags => HandlersTyped'
    BY DEF HandlersTyped, handlers
  <1>2. UNCHANGED progress => progress' \in [Meetings -> 0..Finished]
    OBVIOUS
  <1>3. UNCHANGED spent \/ Fault => spent' \in SpentType
    BY FaultTyped
  <1>4. worker.pc \in {"wait", "announce"} \cup RunPcs => Here \in Meetings
    BY DEF AtWork
  <1>5. \A pc \in RunPcs \ {"mark", "recheck", "work"} :
           worker.pc \in {"wait", "announce"} \cup RunPcs /\ Goto(pc)
               => worker' \in WorkerType /\ AtWork'
    BY <1>4, GotoTyped, Pcs DEF AtWork
  <1>6. worker.pc \in {"wait", "announce"} \cup RunPcs /\ FinalizeCancellation
            => worker' \in WorkerType /\ AtWork'
    BY <1>5 DEF FinalizeCancellation, RunPcs
  <1>7. Idle \/ LoopEnds => worker' \in WorkerType /\ AtWork'
    BY IdleTyped, Pcs DEF AtWork
  <1>8. worker.pc \in {"boundary", "work"} /\ progress[Here] < Finished /\ StepDone
            => /\ progress' \in [Meetings -> 0..Finished]
               /\ worker' \in WorkerType /\ AtWork'
    <2>1. worker.pc \in {"boundary", "work"} => worker.pc \in RunPcs
      BY DEF RunPcs
    <2>2. Finished \in Nat
      BY StepStatuses
    <2>3. StepDone => Goto("finished") \/ Goto("boundary")
      BY DEF StepDone
    <2>4. StepDone /\ worker.pc \in RunPcs => worker' \in WorkerType /\ AtWork'
      BY <1>5, <2>3 DEF RunPcs
    <2>5. StepDone /\ Here \in Meetings /\ progress[Here] < Finished
              => progress' \in [Meetings -> 0..Finished]
      BY <2>2 DEF StepDone
    <2> QED
      BY <1>4, <2>1, <2>4, <2>5
  <1>9. CASE TakeSnapshot
    BY <1>9, <1>1, <1>2, <1>3, Pcs DEF TakeSnapshot, WorkerType, AtWork, RecoveryPcs
  <1>10. CASE FinalizeOrphanedClaim
    <2>1. worker' \in WorkerType /\ worker'.pc \in {"claims", "orphans"}
      BY <1>10, GotoTyped, Pcs DEF FinalizeOrphanedClaim, WorkerType, RecoveryPcs, At
    <2>2. AtWork'
      BY <2>1, Pcs DEF AtWork, RecoveryPcs, RunPcs
    <2> QED
      BY <1>10, <1>1, <1>2, <1>3, <2>1, <2>2 DEF FinalizeOrphanedClaim
  <1>11. CASE RequeueOrphan
    <2>1. worker' \in WorkerType /\ worker'.pc \in {"orphans", "poll"}
      BY <1>11, GotoTyped, Pcs DEF RequeueOrphan, WorkerType, RecoveryPcs, At
    <2>2. AtWork'
      BY <2>1, Pcs DEF AtWork, RecoveryPcs, RunPcs
    <2> QED
      BY <1>11, <1>1, <1>2, <1>3, <2>1, <2>2 DEF RequeueOrphan
  <1>12. CASE \E m \in Meetings : Poll(m)
    <2> PICK m \in Meetings : Poll(m)
      BY <1>12
    <2>1. jobs[m].action.intent \in Intents
      BY RowOf DEF Poll, PlainActions
    <2>2. worker' \in WorkerType /\ worker'.pc = "wait" /\ Here' = m
      BY <2>1, Pcs DEF Poll, WorkerType, Here
    <2> QED
      BY <1>1, <1>2, <1>3, <2>2 DEF Poll, AtWork
  <1>13. CASE Claim
    <2>1. Goto("boundary") \/ Goto("poll")
      BY <1>13 DEF Claim
    <2>2. worker' \in WorkerType /\ AtWork'
      BY <1>13, <1>5, <2>1, GotoTyped, Pcs DEF Claim, At, AtWork, RunPcs
    <2> QED
      BY <1>13, <1>1, <1>2, <1>3, <2>2 DEF Claim
  <1>14. CASE Boundary
    <2>1. worker.pc = "boundary" /\ Here \in Meetings /\ progress[Here] \in 0..Finished
      BY <1>14, <1>4 DEF Boundary, At, RunPcs
    <2>2. Finished \in Nat
      BY StepStatuses
    <2>3. CASE progress[Here] = Finished /\ Goto("finished") /\ UNCHANGED <<progress, flags>>
      BY <1>14, <1>1, <1>2, <1>3, <1>5, <2>1, <2>3 DEF Boundary, RunPcs
    <2>4. CASE progress[Here] = Finished - 1 /\ StepDone /\ UNCHANGED flags
      BY <1>14, <1>1, <1>3, <1>8, <2>1, <2>2, <2>4 DEF Boundary
    <2>5. CASE progress[Here] < Finished /\ FinalizeCancellation /\ UNCHANGED progress
      BY <1>14, <1>1, <1>2, <1>3, <1>6, <2>1, <2>5 DEF Boundary, FinalizeCancellation, RunPcs
    <2>6. CASE progress[Here] < Finished /\ Goto("mark") /\ UNCHANGED <<flags, progress>>
      <3>1. worker' \in WorkerType /\ AtWork'
        BY <2>1, <2>6, GotoTyped, Pcs DEF AtWork, RunPcs
      <3> QED
        BY <1>14, <1>1, <1>2, <1>3, <2>6, <3>1 DEF Boundary
    <2> QED
      BY <1>14, <2>3, <2>4, <2>5, <2>6 DEF Boundary
  <1>15. CASE MarkStep
    <2>1. worker' \in WorkerType /\ AtWork'
      BY <1>15, <1>4, GotoTyped, Pcs DEF MarkStep, At, AtWork, RunPcs
    <2> QED
      BY <1>15, <1>1, <1>2, <1>3, <2>1 DEF MarkStep
  <1>16. CASE Recheck
    <2>1. worker.pc \in RunPcs /\ progress[Here] < Finished
      BY <1>16 DEF Recheck, At, AtWork, RunPcs
    <2>2. CASE FinalizeCancellation
      BY <1>16, <1>1, <1>2, <1>3, <1>6, <2>1, <2>2 DEF Recheck, FinalizeCancellation
    <2>3. CASE Goto("work") /\ UNCHANGED flags
      <3>1. worker' \in WorkerType /\ AtWork'
        BY <1>16, <1>4, <2>1, <2>3, GotoTyped, Pcs DEF AtWork, RunPcs, Recheck
      <3> QED
        BY <1>16, <1>1, <1>2, <1>3, <2>3, <3>1 DEF Recheck
    <2> QED
      BY <1>16, <2>2, <2>3 DEF Recheck
  <1>17. CASE WorkEnds
    <2>1. worker.pc = "work" /\ worker.pc \in RunPcs /\ progress[Here] < Finished
      BY <1>17 DEF WorkEnds, At, AtWork, RunPcs
    <2>2. CASE StepDone
      BY <1>17, <1>1, <1>3, <1>8, <2>1, <2>2 DEF WorkEnds
    <2>3. CASE Goto("failed") \/ Goto("refused") \/ Goto("unwind")
      <3>1. worker' \in WorkerType /\ AtWork'
        BY <1>5, <2>1, <2>3 DEF RunPcs
      <3>2. CASE StepDone
        BY <2>2, <3>2
      <3> QED
        BY <1>17, <1>1, <1>2, <1>3, <3>1, <3>2 DEF WorkEnds
    <2> QED
      BY <1>17, <2>2, <2>3 DEF WorkEnds
  <1>18. CASE PipelineRaises
    BY <1>18, <1>1, <1>2, <1>3, <1>5 DEF PipelineRaises, At, RunPcs
  <1>19. CASE RunReturns
    BY <1>19, <1>1, <1>2, <1>3, <1>5, <1>6 DEF RunReturns, At, RunPcs, FinalizeCancellation
  <1>20. CASE MarkCompleted \/ ForceCompleted
    <2>1. Goto("announce") => worker' \in WorkerType /\ AtWork'
      BY <1>20, <1>4, GotoTyped, Pcs DEF AtWork, MarkCompleted, ForceCompleted, At, RunPcs
    <2>2. Goto("force") \/ Goto("confirm") => worker' \in WorkerType /\ AtWork'
      BY <1>20, <1>5 DEF MarkCompleted, ForceCompleted, At, RunPcs
    <2>3. Goto("announce") \/ Goto("force") \/ Goto("confirm")
      BY <1>20 DEF MarkCompleted, ForceCompleted
    <2> QED
      BY <1>20, <1>1, <1>2, <1>3, <2>1, <2>2, <2>3 DEF MarkCompleted, ForceCompleted
  <1>21. CASE Announce
    BY <1>21, <1>1, <1>2, <1>3, <1>7 DEF Announce
  <1>22. CASE RunEndsEarly
    <2>1. worker.pc \in RunPcs
      BY <1>22 DEF RunEndsEarly, RunPcs
    <2>2. CASE FinalizeCancellation
      BY <1>22, <1>1, <1>2, <1>3, <1>6, <2>1, <2>2 DEF RunEndsEarly, FinalizeCancellation
    <2>3. CASE (Goto("save_failed") \/ Goto("save_recorded")) /\ UNCHANGED flags
      BY <1>22, <1>1, <1>2, <1>3, <1>5, <2>1, <2>3 DEF RunEndsEarly, RunPcs
    <2> QED
      BY <1>22, <2>2, <2>3 DEF RunEndsEarly
  <1>23. CASE SaveFailed \/ SaveRecorded
    <2>1. worker' \in WorkerType /\ AtWork'
      BY <1>23, <1>5 DEF SaveFailed, SaveRecorded, At, RunPcs
    <2> QED
      BY <1>23, <1>1, <1>2, <1>3, <2>1 DEF SaveFailed, SaveRecorded
  <1>24. CASE Confirm
    BY <1>24, <1>1, <1>2, <1>3, <1>6, <1>7 DEF Confirm, At, RunPcs, FinalizeCancellation
  <1>25. CASE Unwind
    BY <1>25, <1>1, <1>2, <1>3, <1>5 DEF Unwind, At, RunPcs
  <1>26. CASE FinalizeClaim
    <2>1. spent' \in SpentType
      BY <1>26, <1>3 DEF FinalizeClaim, SpentType
    <2>2. worker' \in WorkerType /\ AtWork'
      BY <1>26, <1>5, <1>7 DEF FinalizeClaim, At, RunPcs
    <2> QED
      BY <1>26, <1>1, <1>2, <2>1, <2>2 DEF FinalizeClaim
  <1>27. CASE FinalizeFlag \/ RequeueInterrupted
    BY <1>27, <1>1, <1>2, <1>3, <1>7 DEF FinalizeFlag, RequeueInterrupted
  <1> QED
    BY <1>9, <1>10, <1>11, <1>12, <1>13, <1>14, <1>15, <1>16, <1>17, <1>18, <1>19,
       <1>20, <1>21, <1>22, <1>23, <1>24, <1>25, <1>26, <1>27 DEF WorkerNext

LEMMA HandlerShapes ==
    ASSUME Table, Shapes, NEW m \in Meetings, HandlerNext(m) \/ Requests(m)
    PROVE  Shapes'
  <1>1. /\ UNCHANGED <<worker, progress>>
        /\ \/ UNCHANGED spent
           \/ spent.cancels < MaxCancels /\ spent' = [spent EXCEPT !.cancels = @ + 1]
    BY DEF HandlerNext, Requests, CancelReads, CancelWaiting, CancelRunning,
           RequestCancellation, UserRequeues, DiscardFlag, BatchQueues, ReconcileReads,
           ReconcileForces
  <1>2. spent' \in SpentType
    BY <1>1, BoundsAssumption DEF Shapes, SpentType
  <1>3. HandlersTyped'
    <2> USE DEF Shapes, HandlersTyped
    <2>1. CASE CancelReads(m) \/ CancelWaiting(m) \/ CancelRunning(m)
      BY <2>1 DEF CancelReads, CancelWaiting, CancelRunning
    <2>2. CASE RequestCancellation(m) \/ UserRequeues(m) \/ DiscardFlag(m)
      BY <2>2 DEF RequestCancellation, UserRequeues, DiscardFlag
    <2>3. CASE BatchQueues(m) \/ ReconcileReads(m) \/ ReconcileForces(m)
      BY <2>3 DEF BatchQueues, ReconcileReads, ReconcileForces, handlers
    <2> QED
      BY <2>1, <2>2, <2>3 DEF HandlerNext, Requests
  <1> QED
    BY <1>1, <1>2, <1>3 DEF Shapes, AtWork, Here

LEMMA ShapesStep ==
    ASSUME Table, Shapes, PNext
    PROVE  Shapes'
  <1>1. CASE Stop
    <2>1. UNCHANGED <<progress, flags, handlers, spent>>
      BY <1>1 DEF Stop
    <2>2. CASE worker' = [worker EXCEPT !.pc = "unwind", !.stopping = TRUE]
               /\ worker.pc \in InterruptiblePcs
      BY <2>1, <2>2, Pcs DEF Shapes, AtWork, WorkerType, HandlersTyped, handlers, RunPcs, Here
    <2>3. CASE LoopEnds
      <3>1. worker' \in WorkerType /\ worker'.pc = "off"
        BY <2>3, IdleTyped DEF Shapes
      <3> QED
        BY <2>1, <3>1, Pcs DEF Shapes, AtWork, HandlersTyped, handlers
    <2> QED
      BY <1>1, <2>2, <2>3 DEF Stop
  <1>2. CASE Crash
    <2>1. worker' \in WorkerType /\ worker'.pc = "snapshot"
      BY <1>2, IntentAssumption DEF Crash, Started, WorkerType, WorkerPcs, RecoveryPcs
    <2>2. spent' \in SpentType
      BY <1>2, BoundsAssumption DEF Crash, Shapes, SpentType
    <2>3. AtWork'
      BY <2>1, Pcs DEF AtWork, RecoveryPcs
    <2> QED
      BY <1>2, <2>1, <2>2, <2>3 DEF Crash, Shapes, HandlersTyped
  <1> QED
    BY <1>1, <1>2, WorkerShapes, HandlerShapes DEF PNext

------------------------------------------------------------------------------
(* Completed means finished. *)

\* A step of the worker writes only the row it is at or recovers; what it may
\* write there, by where it is.
LEMMA WorkerWrites ==
    ASSUME Table, Shapes, WorkerNext, NEW m \in Meetings, jobs'[m] # jobs[m]
    PROVE  \/ At("claims") /\ m \in worker.claims /\ jobs'[m].status = "recorded"
           \/ At("orphans") /\ m \in worker.orphans /\ jobs'[m].status = "queued"
           \/ At("wait") /\ m = Here /\ jobs'[m].status = "transcribing" /\ Goto("boundary")
           \/ At("mark") /\ m = Here /\ jobs'[m].status \in ActiveStatuses /\ Goto("recheck")
           \/ At("complete") /\ m = Here /\ jobs'[m].status = "completed"
           \/ At("force") /\ m = Here /\ jobs'[m].status = "completed"
           \/ At("save_failed") /\ m = Here /\ jobs'[m].status = "failed"
           \/ At("save_recorded") /\ m = Here /\ jobs'[m].status = "recorded"
           \/ At("finalize") /\ m = Here /\ jobs'[m].status = "recorded"
           \/ At("fallback") /\ m = Here /\ jobs'[m].status = "recorded"
           \/ At("requeue") /\ m = Here /\ jobs'[m].status = "queued"
  <1>1. \A n \in Meetings, error \in Errors, new \in Statuses \ {"recording"} :
           UpdateStatus(n, new, error) \/ ForceSetStatus(n, new, error)
               => jobs'[n].status = new /\ (m = n \/ jobs'[m] = jobs[m])
    BY StatusTable
  <1>2. \A n \in Meetings : FinalizeCancellationClaim(n)
               => jobs'[n].status = "recorded" /\ (m = n \/ jobs'[m] = jobs[m])
    BY CancelledTable
  <1>3. worker.pc \in RunPcs \cup {"wait"} => Here \in Meetings
    BY DEF Shapes, AtWork
  <1>4. {"queued", "completed", "failed", "recorded"} \subseteq Statuses \ {"recording"}
    BY DEF Statuses
  <1>5. {"none", "cancelled", "other"} \subseteq Errors
    BY DEF Errors
  <1>6. UNCHANGED jobs => FALSE
    OBVIOUS
  <1>7. CASE TakeSnapshot \/ (\E n \in Meetings : Poll(n)) \/ Boundary \/ Recheck
    BY <1>6, <1>7 DEF TakeSnapshot, Poll, Boundary, Recheck
  <1>8. CASE WorkEnds \/ PipelineRaises \/ RunReturns \/ Announce \/ RunEndsEarly
    BY <1>6, <1>8 DEF WorkEnds, PipelineRaises, RunReturns, Announce, RunEndsEarly
  <1>9. CASE Confirm \/ Unwind
    BY <1>6, <1>9 DEF Confirm, Unwind
  <1>10. CASE FinalizeOrphanedClaim
    BY <1>2, <1>6, <1>10 DEF FinalizeOrphanedClaim, Shapes, WorkerType
  <1>11. CASE RequeueOrphan
    BY <1>1, <1>4, <1>5, <1>6, <1>11 DEF RequeueOrphan, Shapes, WorkerType
  <1>12. CASE Claim
    BY <1>3, <1>6, <1>12, ClaimTable DEF Claim, At
  <1>13. CASE MarkStep
    <2>1. Here \in Meetings /\ progress[Here] < Finished /\ progress[Here] \in Nat
      BY <1>13 DEF MarkStep, At, Shapes, AtWork, RunPcs
    <2>2. /\ Steps[progress[Here] + 1] \in Statuses \ {"recording"}
          /\ Steps[progress[Here] + 1] \in ActiveStatuses
      BY <2>1, StepStatuses
    <2> QED
      BY <1>1, <1>5, <1>6, <1>13, <2>1, <2>2 DEF MarkStep
  <1>14. CASE MarkCompleted
    BY <1>1, <1>3, <1>4, <1>5, <1>6, <1>14 DEF MarkCompleted, At, RunPcs
  <1>15. CASE ForceCompleted
    BY <1>1, <1>3, <1>4, <1>5, <1>6, <1>15 DEF ForceCompleted, At, RunPcs
  <1>16. CASE SaveFailed
    BY <1>1, <1>3, <1>4, <1>5, <1>6, <1>16 DEF SaveFailed, At, RunPcs
  <1>17. CASE SaveRecorded
    BY <1>1, <1>3, <1>4, <1>5, <1>6, <1>17 DEF SaveRecorded, At, RunPcs
  <1>18. CASE FinalizeClaim
    BY <1>2, <1>3, <1>6, <1>18 DEF FinalizeClaim, At, RunPcs
  <1>19. CASE FinalizeFlag
    BY <1>1, <1>3, <1>4, <1>5, <1>6, <1>19 DEF FinalizeFlag, At, RunPcs
  <1>20. CASE RequeueInterrupted
    BY <1>1, <1>3, <1>4, <1>5, <1>6, <1>20 DEF RequeueInterrupted, At, RunPcs
  <1> QED
    BY <1>7, <1>8, <1>9, <1>10, <1>11, <1>12, <1>13, <1>14, <1>15, <1>16, <1>17, <1>18,
       <1>19, <1>20 DEF WorkerNext

\* A handler writes only its meeting's row, and takes it out of progress unless
\* it is the cancellation of a run.
LEMMA HandlerWrites ==
    ASSUME Table, Shapes, NEW m \in Meetings, HandlerNext(m) \/ Requests(m),
           NEW n \in Meetings, jobs'[n] # jobs[n]
    PROVE  /\ n = m
           /\ \/ jobs'[m].status = "recorded" /\ cancel[m] = "queued"
              \/ jobs'[m].status = "recording" /\ Active(m) /\ cancel[m] = "claim"
              \/ jobs'[m].status = "queued" /\ ~Active(m)
              \/ jobs'[m].status = "completed" /\ reconcile[m] = "force"
  <1>1. UNCHANGED jobs => FALSE
    OBVIOUS
  <1>2. "none" \in Errors /\ "completed" \in Statuses \ {"recording"}
    BY DEF Errors, Statuses
  <1>3. CASE CancelReads(m) \/ RequestCancellation(m) \/ DiscardFlag(m) \/ ReconcileReads(m)
    BY <1>1, <1>3 DEF CancelReads, RequestCancellation, DiscardFlag, ReconcileReads
  <1>4. CASE CancelWaiting(m)
    <2>1. CancelQueuedJob(m) /\ cancel[m] = "queued"
      BY <1>1, <1>4 DEF CancelWaiting
    <2> QED
      BY <2>1, CancelledTable
  <1>5. CASE CancelRunning(m)
    <2>1. cancel[m] = "claim" /\ \E token \in Tokens : ClaimActiveJobForCancellation(m, token)
      BY <1>1, <1>5 DEF CancelRunning
    <2> QED
      BY <2>1, CancelClaimTable
  <1>6. CASE UserRequeues(m)
    BY <1>6, QueuedTable, IntentAssumption DEF UserRequeues
  <1>7. CASE BatchQueues(m)
    BY <1>7, QueuedTable DEF BatchQueues
  <1>8. CASE ReconcileForces(m)
    <2>1. reconcile[m] = "force" /\ ForceSetStatus(m, "completed", "none")
      BY <1>1, <1>8 DEF ReconcileForces
    <2> QED
      BY <1>2, <2>1, StatusTable
  <1> QED
    BY <1>3, <1>4, <1>5, <1>6, <1>7, <1>8 DEF HandlerNext, Requests

\* A checkpoint is never taken back.
LEMMA Checkpoints ==
    ASSUME Table, Shapes, PNext, NEW m \in Meetings, progress[m] = Finished
    PROVE  progress'[m] = Finished
  <1>1. CASE StepDone /\ Here \in Meetings /\ progress[Here] < Finished
    BY <1>1, StepStatuses DEF StepDone, Shapes
  <1>2. CASE Boundary
    BY <1>1, <1>2, StepStatuses DEF Boundary, Shapes, AtWork, RunPcs, At
  <1>3. CASE WorkEnds
    BY <1>1, <1>3 DEF WorkEnds, Shapes, AtWork, RunPcs, At
  <1>4. CASE WorkerNext /\ ~Boundary /\ ~WorkEnds
    BY <1>4 DEF WorkerNext, TakeSnapshot, FinalizeOrphanedClaim, RequeueOrphan, Poll,
        Claim, MarkStep, Recheck, PipelineRaises, RunReturns, MarkCompleted,
        ForceCompleted, Announce, RunEndsEarly, SaveFailed, SaveRecorded, Confirm, Unwind,
        FinalizeClaim, FinalizeFlag, RequeueInterrupted
  <1>5. CASE \E n \in Meetings : HandlerNext(n) \/ Requests(n)
    BY <1>5 DEF HandlerNext, Requests, CancelReads, CancelWaiting, CancelRunning,
        RequestCancellation, UserRequeues, DiscardFlag, BatchQueues, ReconcileReads,
        ReconcileForces
  <1>6. CASE Stop \/ Crash
    BY <1>6 DEF Stop, Crash
  <1> QED
    BY <1>2, <1>3, <1>4, <1>5, <1>6 DEF PNext

\* The worker comes to completing a meeting only through its last checkpoint.
LEMMA WorkerEarns ==
    ASSUME Table, Shapes, Earned, WorkerNext,
           worker'.pc \in {"finished", "complete", "force"}
    PROVE  Here' \in Meetings /\ progress'[Here'] = Finished
  <1> USE DEF Shapes
  <1>1. worker.pc \in RunPcs => Here \in Meetings
    BY DEF AtWork
  <1>2. \A pc \in WorkerPcs : Goto(pc) => worker'.pc = pc /\ Here' = Here
    BY GotoTyped
  <1>3. CASE TakeSnapshot \/ (\E m \in Meetings : Poll(m)) \/ RequeueOrphan
    BY <1>3, GotoTyped, Pcs DEF TakeSnapshot, Poll, RequeueOrphan, WorkerType, At
  <1>4. CASE FinalizeOrphanedClaim
    BY <1>2, <1>4, Pcs DEF FinalizeOrphanedClaim, WorkerType, At, RecoveryPcs
  <1>5. CASE Claim \/ MarkStep \/ PipelineRaises
    BY <1>2, <1>5, Pcs DEF Claim, MarkStep, PipelineRaises, RunPcs
  <1>6. CASE Boundary \/ WorkEnds
    <2>1. worker.pc \in {"boundary", "work"} /\ Here \in Meetings
      BY <1>1, <1>6 DEF Boundary, WorkEnds, At, RunPcs
    <2>2. CASE StepDone
      <3>1. Here' = Here
        BY <1>2, <2>2 DEF StepDone, WorkerPcs, RunPcs
      <3>2. progress[Here] + 1 = Finished
        BY <1>2, <2>2 DEF StepDone, WorkerPcs, RunPcs
      <3> QED
        BY <2>1, <2>2, <3>1, <3>2 DEF StepDone
    <2>3. CASE ~StepDone
      <3>1. CASE Goto("finished") /\ progress[Here] = Finished /\ UNCHANGED progress
        BY <1>2, <2>1, <3>1 DEF WorkerPcs, RunPcs
      <3>2. CASE Goto("failed") \/ Goto("refused") \/ Goto("unwind") \/ Goto("mark")
                 \/ FinalizeCancellation
        BY <1>2, <3>2 DEF WorkerPcs, RunPcs, FinalizeCancellation
      <3> QED
        BY <1>6, <2>3, <3>1, <3>2 DEF Boundary, WorkEnds
    <2> QED
      BY <2>2, <2>3
  <1>7. CASE Recheck \/ RunEndsEarly \/ SaveFailed \/ SaveRecorded
    BY <1>2, <1>7 DEF Recheck, RunEndsEarly, SaveFailed, SaveRecorded, FinalizeCancellation,
                      WorkerPcs, RunPcs
  <1>8. CASE RunReturns
    BY <1>1, <1>2, <1>8 DEF RunReturns, FinalizeCancellation, WorkerPcs, RunPcs, Earned, At
  <1>9. CASE MarkCompleted
    BY <1>1, <1>2, <1>9 DEF MarkCompleted, WorkerPcs, RunPcs, Earned, At
  <1>10. CASE ForceCompleted
    BY <1>2, <1>10 DEF ForceCompleted, WorkerPcs, RunPcs
  <1>11. CASE Announce \/ FinalizeFlag \/ RequeueInterrupted
    BY <1>11, IdleTyped DEF Announce, FinalizeFlag, RequeueInterrupted
  <1>12. CASE Confirm \/ FinalizeClaim \/ Unwind
    BY <1>2, <1>12, IdleTyped DEF Confirm, FinalizeClaim, Unwind, FinalizeCancellation,
                                 WorkerPcs, RunPcs
  <1> QED
    BY <1>3, <1>4, <1>5, <1>6, <1>7, <1>8, <1>9, <1>10, <1>11, <1>12 DEF WorkerNext

\* The worker and the reconciler write completed only over finished checkpoints.
LEMMA EarnedStep ==
    ASSUME Table, Shapes, Earned, PNext
    PROVE  Earned'
  <1>1. CompletedMeansFinished'
    <2> SUFFICES ASSUME NEW m \in Meetings, jobs'[m].status = "completed"
                 PROVE  progress'[m] = Finished
      BY StepStatuses DEF CompletedMeansFinished, Finished, Steps
    <2>1. CASE jobs'[m] = jobs[m]
      BY <2>1, Checkpoints DEF Earned, CompletedMeansFinished
    <2>2. CASE WorkerNext /\ jobs'[m] # jobs[m]
      <3>1. m = Here /\ worker.pc \in {"complete", "force"}
        BY <2>2, WorkerWrites DEF At, ActiveStatuses
      <3> QED
        BY <3>1, Checkpoints DEF Earned
    <2>3. CASE (\E n \in Meetings : HandlerNext(n) \/ Requests(n)) /\ jobs'[m] # jobs[m]
      <3>1. reconcile[m] = "force"
        BY <2>3, HandlerWrites
      <3> QED
        BY <3>1, Checkpoints DEF Earned
    <2>4. CASE Stop
      <3>1. ~(At("wait") /\ ClaimQueuedJobForProcessing(Here)) \/ Here \in Meetings
        BY DEF At, Shapes, AtWork
      <3>2. jobs'[m] = jobs[m]
        BY <2>4, <3>1, ClaimTable DEF Stop
      <3> QED
        BY <2>1, <3>2
    <2> QED
      BY <2>1, <2>2, <2>3, <2>4 DEF PNext, Crash
  <1>2. worker'.pc \in {"finished", "complete", "force"} => progress'[Here'] = Finished
    <2>1. CASE UNCHANGED worker
      BY <2>1, Checkpoints DEF Earned, Shapes, AtWork, RunPcs, Here
    <2>2. CASE Stop \/ Crash
      <3>1. CASE worker' = [worker EXCEPT !.pc = "unwind", !.stopping = TRUE]
        BY <3>1 DEF Shapes, WorkerType
      <3>2. CASE LoopEnds
        BY <3>2, IdleTyped DEF Shapes
      <3>3. CASE worker' = Started
        BY <3>3 DEF Started
      <3> QED
        BY <2>2, <3>1, <3>2, <3>3 DEF Stop, Crash
    <2>3. CASE \E n \in Meetings : HandlerNext(n) \/ Requests(n)
      BY <2>1, <2>3 DEF HandlerNext, Requests, CancelReads, CancelWaiting, CancelRunning,
        RequestCancellation, UserRequeues, DiscardFlag, BatchQueues, ReconcileReads,
        ReconcileForces
    <2> QED
      BY <2>2, <2>3, WorkerEarns DEF PNext
  <1>3. ASSUME NEW m \in Meetings, reconcile'[m] = "force"
        PROVE  progress'[m] = Finished
    <2>1. progress[m] = Finished
      <3>1. CASE reconcile'[m] = reconcile[m]
        BY <1>3, <3>1 DEF Earned
      <3>2. CASE WorkerNext \/ Stop \/ Crash
        BY <1>3, <3>1, <3>2 DEF WorkerNext, TakeSnapshot, FinalizeOrphanedClaim,
          RequeueOrphan, Poll, Claim, Boundary, WorkEnds, MarkStep, Recheck,
          PipelineRaises, RunReturns, MarkCompleted, ForceCompleted, Announce,
          RunEndsEarly, SaveFailed, SaveRecorded, Confirm, Unwind, FinalizeClaim,
          FinalizeFlag, RequeueInterrupted, Stop, Crash, handlers
      <3>3. CASE \E n \in Meetings : ReconcileReads(n) \/ ReconcileForces(n)
        BY <1>3, <3>1, <3>3 DEF ReconcileReads, ReconcileForces, Shapes, HandlersTyped
      <3>4. CASE \E n \in Meetings : /\ HandlerNext(n) \/ Requests(n)
                                     /\ ~ReconcileReads(n) /\ ~ReconcileForces(n)
        BY <3>1, <3>4 DEF HandlerNext, Requests, CancelReads, CancelWaiting, CancelRunning,
          RequestCancellation, UserRequeues, DiscardFlag, BatchQueues, handlers
      <3> QED
        BY <3>2, <3>3, <3>4 DEF PNext
    <2> QED
      BY <2>1, Checkpoints
  <1> QED
    BY <1>1, <1>2, <1>3, StepStatuses DEF Earned, Finished, Steps

------------------------------------------------------------------------------
(* Nothing is left in progress without an owner. *)

\* A disturbance is never forgotten.
LEMMA DisturbanceStays ==
    ASSUME Table, Shapes, PNext
    PROVE  (Disturbed => Disturbed') /\ (spent.stale => spent'.stale)
  <1> USE DEF Shapes
  <1>1. CASE UNCHANGED spent
    BY <1>1 DEF Disturbed
  <1>2. CASE Fault
    BY <1>2, FaultTyped DEF Disturbed
  <1>3. CASE \/ spent' = [spent EXCEPT !.stale = TRUE]
             \/ spent' = [spent EXCEPT !.cancels = @ + 1]
             \/ spent' = [spent EXCEPT !.crashes = @ + 1]
    BY <1>3 DEF SpentType, Disturbed
  <1>4. CASE WorkerNext
    BY <1>1, <1>2, <1>3, <1>4 DEF WorkerNext, TakeSnapshot, FinalizeOrphanedClaim,
      RequeueOrphan, Poll, Claim, Boundary, WorkEnds, MarkStep, Recheck, PipelineRaises,
      RunReturns, MarkCompleted, ForceCompleted, Announce, RunEndsEarly, SaveFailed,
      SaveRecorded, Confirm, Unwind, FinalizeClaim, FinalizeFlag, RequeueInterrupted
  <1>5. CASE \E m \in Meetings : HandlerNext(m) \/ Requests(m)
    BY <1>1, <1>3, <1>5 DEF HandlerNext, Requests, CancelReads, CancelWaiting,
      CancelRunning, RequestCancellation, UserRequeues, DiscardFlag, BatchQueues,
      ReconcileReads, ReconcileForces
  <1>6. CASE Stop \/ Crash
    BY <1>1, <1>3, <1>6 DEF Stop, Crash
  <1> QED
    BY <1>4, <1>5, <1>6 DEF PNext

\* Where a step of the worker takes it, as far as recovery and the flag-only
\* settlement are concerned.
LEMMA WorkerStays ==
    ASSUME Table, Shapes, WorkerNext
    PROVE  /\ worker'.pc \in RecoveryPcs => worker.pc \in RecoveryPcs
           /\ worker'.pc = "fallback" => spent'.stale
           /\ UNCHANGED handlers
  <1> USE DEF Shapes
  <1>1. \A pc \in WorkerPcs : Goto(pc) => worker'.pc = pc
    BY GotoTyped
  <1>2. CASE TakeSnapshot \/ FinalizeOrphanedClaim
    BY <1>1, <1>2, Pcs DEF TakeSnapshot, FinalizeOrphanedClaim, At, RecoveryPcs, WorkerType
  <1>3. CASE RequeueOrphan \/ \E m \in Meetings : Poll(m)
    BY <1>1, <1>3, Pcs DEF RequeueOrphan, Poll, At, RecoveryPcs, WorkerType
  <1>4. CASE Boundary \/ WorkEnds
    BY <1>1, <1>4 DEF Boundary, WorkEnds, StepDone, FinalizeCancellation, WorkerPcs,
                      RunPcs, RecoveryPcs
  <1>5. CASE Claim \/ MarkStep \/ Recheck \/ PipelineRaises \/ RunReturns
    BY <1>1, <1>5 DEF Claim, MarkStep, Recheck, PipelineRaises, RunReturns,
                      FinalizeCancellation, WorkerPcs, RunPcs, RecoveryPcs
  <1>6. CASE MarkCompleted \/ ForceCompleted \/ RunEndsEarly \/ SaveFailed \/ SaveRecorded
    BY <1>1, <1>6 DEF MarkCompleted, ForceCompleted, RunEndsEarly, SaveFailed,
                      SaveRecorded, FinalizeCancellation, WorkerPcs, RunPcs, RecoveryPcs
  <1>7. CASE Announce \/ FinalizeFlag \/ RequeueInterrupted
    BY <1>7, IdleTyped, Pcs DEF Announce, FinalizeFlag, RequeueInterrupted
  <1>8. CASE Confirm \/ Unwind
    BY <1>1, <1>8, IdleTyped, Pcs DEF Confirm, Unwind, FinalizeCancellation, WorkerPcs,
                                      RunPcs, RecoveryPcs
  <1>9. CASE FinalizeClaim
    <2>1. CASE Goto("fallback") /\ spent' = [spent EXCEPT !.stale = TRUE]
      BY <1>1, <1>9, <2>1 DEF FinalizeClaim, WorkerPcs, RunPcs, RecoveryPcs, SpentType
    <2>2. CASE Idle
      BY <1>9, <2>2, IdleTyped, Pcs DEF FinalizeClaim
    <2> QED
      BY <1>9, <2>1, <2>2 DEF FinalizeClaim
  <1> QED
    BY <1>2, <1>3, <1>4, <1>5, <1>6, <1>7, <1>8, <1>9 DEF WorkerNext

\* A handler leaves the worker alone.
LEMMA HandlerStays ==
    ASSUME NEW m \in Meetings, HandlerNext(m) \/ Requests(m)
    PROVE  UNCHANGED worker
  BY DEF HandlerNext, Requests, CancelReads, CancelWaiting, CancelRunning,
         RequestCancellation, UserRequeues, DiscardFlag, BatchQueues, ReconcileReads,
         ReconcileForces

LEMMA WaitsStep ==
    ASSUME Table, Shapes, Waits, PNext
    PROVE  Waits'
  <1> USE DEF Waits
  <1>1. CASE WorkerNext
    BY <1>1, WorkerStays DEF handlers, At
  <1>2. ASSUME NEW m \in Meetings, HandlerNext(m) \/ Requests(m)
        PROVE  Waits'
    <2>1. UNCHANGED worker
      BY <1>2, HandlerStays
    <2>2. At("fallback")' => spent'.stale
      BY <1>2, <2>1, DisturbanceStays DEF PNext, At
    <2>3. ASSUME worker.pc \in RecoveryPcs, NEW n \in Meetings
          PROVE  cancel'[n] \notin {"claim", "flag"}
      <3>1. ~Published /\ cancel[n] \notin {"claim", "flag"}
            /\ cancel[m] \notin {"claim", "flag"}
        BY <2>3 DEF Published
      <3>2. CASE CancelReads(m) \/ CancelWaiting(m)
        BY <3>1, <3>2 DEF CancelReads, CancelWaiting, Shapes, HandlersTyped
      <3>3. CASE CancelRunning(m) \/ RequestCancellation(m)
        BY <3>1, <3>3 DEF CancelRunning, RequestCancellation
      <3>4. CASE UNCHANGED cancel
        BY <3>1, <3>4
      <3> QED
        BY <1>2, <3>2, <3>3, <3>4 DEF HandlerNext, Requests, UserRequeues, DiscardFlag,
           BatchQueues, ReconcileReads, ReconcileForces, handlers
    <2> QED
      BY <2>1, <2>2, <2>3
  <1>3. CASE Stop
    <2>1. worker'.pc \in {"unwind", "off"}
      BY <1>3, IdleTyped DEF Stop, Shapes, WorkerType
    <2> QED
      BY <2>1, Pcs DEF RecoveryPcs, At
  <1>4. CASE Crash
    BY <1>4 DEF Crash, Started, At
  <1> QED
    BY <1>1, <1>2, <1>3, <1>4 DEF PNext

\* Nobody owns a row while the worker is between runs: none is in progress.
LEMMA Quiet ==
    ASSUME Settled, worker.pc \notin RunPcs \cup RecoveryPcs \cup {"off"}
    PROVE  \A m \in Meetings : ~Active(m) /\ ~HasCancelClaim(jobs[m])
  BY DEF Settled, Owned, At, RecoveryPcs

\* A row that is recorded, queued, completed or failed is nobody's.
LEMMA Rests ==
    ASSUME NEW m \in Meetings,
           jobs'[m].status \in {"recorded", "queued", "completed", "failed"}
    PROVE  ~Active(m)' /\ ~HasCancelClaim(jobs'[m])
  BY DEF Active, ActiveStatuses, HasCancelClaim

\* A step inside the run leaves the other rows at rest.
LEMMA RunGoesOn ==
    ASSUME Settled, worker.pc \in RunPcs, worker'.pc \in RunPcs, Here' = Here,
           \A m \in Meetings : m # Here => jobs'[m] = jobs[m],
           worker'.pc = "confirm" => ~Active(Here)'
    PROVE  Settled'
  <1>1. \A m \in Meetings : Active(m) \/ HasCancelClaim(jobs[m]) => m = Here
    BY Pcs DEF Settled, Owned, At, RecoveryPcs
  <1>2. \A m \in Meetings : Active(m)' \/ HasCancelClaim(jobs'[m]) => m = Here
    BY <1>1 DEF Active
  <1>3. \A m \in Meetings : Active(m)' \/ HasCancelClaim(jobs'[m]) => Owned(m)'
    BY <1>2 DEF Owned
  <1>4. ~At("claims")' /\ ~At("orphans")'
    BY Pcs DEF At, RecoveryPcs
  <1> QED
    BY <1>3, <1>4 DEF Settled, At

\* The run is left with its row at rest, or with the loop.
LEMMA RunIsLeft ==
    ASSUME Settled, worker.pc \in RunPcs, worker'.pc \in {"poll", "off", "announce"},
           \A m \in Meetings : m # Here => jobs'[m] = jobs[m],
           \/ worker'.pc = "off"
           \/ /\ jobs'[Here].status \notin ActiveStatuses
              /\ ~HasCancelClaim(jobs'[Here])
    PROVE  Settled'
  <1>1. \A m \in Meetings : Active(m) \/ HasCancelClaim(jobs[m]) => m = Here
    BY Pcs DEF Settled, Owned, At, RecoveryPcs
  <1>2. \A m \in Meetings : Active(m)' \/ HasCancelClaim(jobs'[m]) => worker'.pc = "off"
    BY <1>1 DEF Active
  <1> QED
    BY <1>2 DEF Settled, At, Owned

\* Recovery: what it has not settled yet it still has in hand.
LEMMA RecoverySettles ==
    ASSUME Table, Shapes, OwnInv, ~Disturbed, ~Disturbed',
           TakeSnapshot \/ FinalizeOrphanedClaim \/ RequeueOrphan
    PROVE  Settled'
  <1> USE DEF Shapes
  <1>1. Settled
    BY DEF OwnInv
  <1>2. ~Fault
    BY FaultTyped DEF Disturbed
  <1>3. CASE TakeSnapshot
    BY <1>3 DEF TakeSnapshot, Settled, Owned, At, Active, WorkerType
  <1>4. CASE FinalizeOrphanedClaim
    <2>1. ASSUME NEW m \in worker.claims, FinalizeCancellationClaim(m),
                 worker' = [worker EXCEPT !.claims = @ \ {m}]
          PROVE  Settled'
      <3>1. m \in Meetings /\ worker.pc = "claims"
        BY <1>4, <2>1 DEF FinalizeOrphanedClaim, At, WorkerType
      <3>2. /\ worker'.pc = "claims" /\ worker'.orphans = worker.orphans
            /\ worker'.claims = worker.claims \ {m} /\ Here' = Here
        BY <2>1, <3>1 DEF WorkerType, Here
      <3>3. ~Active(m)' /\ ~HasCancelClaim(jobs'[m])
        BY <2>1, <3>1, CancelledTable, Rests
      <3>4. \A n \in Meetings \ {m} : jobs'[n] = jobs[n]
        BY <2>1, <3>1, CancelledTable
      <3>5. \A n \in Meetings :
               /\ HasCancelClaim(jobs'[n]) => n \in worker'.claims
               /\ Active(n)' => n \in worker'.orphans
        BY <1>1, <3>1, <3>2, <3>3, <3>4 DEF Settled, At, Active
      <3> QED
        BY <3>2, <3>5 DEF Settled, Owned, At
    <2>2. CASE worker.claims = {} /\ Goto("orphans") /\ UNCHANGED jobs
      <3>1. worker'.pc = "orphans" /\ worker'.orphans = worker.orphans
        BY <2>2, GotoTyped, Pcs DEF RecoveryPcs
      <3>2. \A n \in Meetings :
               ~HasCancelClaim(jobs[n]) /\ (Active(n) => n \in worker.orphans)
        BY <1>1, <1>4, <2>2 DEF Settled, At, FinalizeOrphanedClaim
      <3> QED
        BY <2>2, <3>1, <3>2 DEF Settled, Owned, At, Active
    <2> QED
      BY <1>2, <1>4, <2>1, <2>2 DEF FinalizeOrphanedClaim
  <1>5. CASE RequeueOrphan
    <2>1. ASSUME NEW m \in worker.orphans, ForceSetStatus(m, "queued", "none"),
                 worker' = [worker EXCEPT !.orphans = @ \ {m}]
          PROVE  Settled'
      <3>1. m \in Meetings /\ worker.pc = "orphans"
        BY <1>5, <2>1 DEF RequeueOrphan, At, WorkerType
      <3>2. worker'.pc = "orphans" /\ worker'.orphans = worker.orphans \ {m}
        BY <2>1, <3>1 DEF WorkerType
      <3>3. /\ ~Active(m)' /\ ~HasCancelClaim(jobs'[m])
            /\ \A n \in Meetings \ {m} : jobs'[n] = jobs[n]
        BY <2>1, <3>1, StatusTable, Rests DEF Statuses, Errors
      <3>4. \A n \in Meetings :
               ~HasCancelClaim(jobs'[n]) /\ (Active(n)' => n \in worker'.orphans)
        BY <1>1, <3>1, <3>2, <3>3 DEF Settled, Owned, At, Active, RunPcs
      <3> QED
        BY <3>2, <3>4 DEF Settled, Owned, At
    <2>2. CASE worker.orphans = {} /\ Goto("poll") /\ UNCHANGED jobs
      <3>1. worker'.pc = "poll"
        BY <2>2, GotoTyped, Pcs
      <3>2. \A n \in Meetings : ~HasCancelClaim(jobs[n]) /\ ~Active(n)
        BY <1>1, <1>5, <2>2 DEF Settled, Owned, At, RequeueOrphan, RunPcs
      <3> QED
        BY <2>2, <3>1, <3>2 DEF Settled, Owned, At, Active
    <2> QED
      BY <1>2, <1>5, <2>1, <2>2 DEF RequeueOrphan
  <1> QED
    BY <1>3, <1>4, <1>5

\* The worker between runs and inside one.
LEMMA WorkerSettles ==
    ASSUME Table, Shapes, OwnInv, ~Disturbed, ~Disturbed', WorkerNext
    PROVE  Settled'
  <1> USE DEF Shapes
  <1>1. Settled
    BY DEF OwnInv
  <1>2. ~Fault
    BY FaultTyped DEF Disturbed
  <1>3. \A pc \in WorkerPcs : Goto(pc) => worker'.pc = pc /\ Here' = Here
    BY GotoTyped
  <1>4. \A m \in Meetings : jobs'[m] # jobs[m] /\ worker.pc \in RunPcs => m = Here
    BY WorkerWrites, Pcs DEF At, RecoveryPcs, RunPcs
  <1>5. worker.pc \in RunPcs => Here \in Meetings
    BY DEF AtWork
  <1>6. \A pc \in RunPcs \ {"confirm"} :
           worker.pc \in RunPcs /\ Goto(pc) => Settled'
    BY <1>1, <1>3, <1>4, RunGoesOn, Pcs
  <1>7. worker.pc \in RunPcs /\ FinalizeCancellation => Settled'
    BY <1>6 DEF FinalizeCancellation, RunPcs
  <1>8. CASE TakeSnapshot \/ FinalizeOrphanedClaim \/ RequeueOrphan
    BY <1>8, RecoverySettles
  <1>9. CASE \E m \in Meetings : Poll(m)
    <2>1. worker.pc = "poll" /\ worker'.pc = "wait" /\ UNCHANGED jobs
      BY <1>9 DEF Poll, At, WorkerType
    <2> QED
      BY <1>1, <2>1, Quiet, Pcs DEF Settled, At, Active
  <1>10. CASE Claim
    <2>1. \A m \in Meetings : ~Active(m) /\ ~HasCancelClaim(jobs[m])
      BY <1>1, <1>10, Quiet, Pcs DEF Claim, At
    <2>2. CASE Goto("boundary") /\ ClaimQueuedJobForProcessing(Here)
      <3>1. worker'.pc = "boundary" /\ Here' = Here /\ Here \in Meetings
        BY <1>3, <1>10, <2>2 DEF WorkerPcs, RunPcs, Claim, At, AtWork
      <3>2. \A m \in Meetings : m # Here => jobs'[m] = jobs[m]
        BY <2>2, <3>1, ClaimTable
      <3> QED
        BY <2>1, <3>1, <3>2 DEF Settled, At, Active, Owned, RunPcs
    <2>3. CASE Goto("poll") /\ UNCHANGED jobs
      BY <1>3, <2>1, <2>3, Pcs DEF Settled, At, Active
    <2> QED
      BY <1>10, <2>2, <2>3 DEF Claim
  <1>11. CASE Boundary \/ MarkStep \/ Recheck \/ PipelineRaises
    BY <1>6, <1>7, <1>11 DEF Boundary, MarkStep, Recheck, PipelineRaises, StepDone,
                             At, RunPcs
  <1>12. CASE WorkEnds \/ RunReturns \/ RunEndsEarly \/ Unwind
    BY <1>6, <1>7, <1>12 DEF WorkEnds, StepDone, RunReturns, RunEndsEarly, Unwind, At,
                             RunPcs
  <1>13. CASE MarkCompleted \/ ForceCompleted
    <2>1. worker.pc \in RunPcs /\ Here \in Meetings
      BY <1>5, <1>13 DEF MarkCompleted, ForceCompleted, At, RunPcs
    <2>2. CASE Goto("force")
      BY <1>6, <2>1, <2>2 DEF RunPcs
    <2>3. CASE /\ Goto("announce")
               /\ \/ UpdateStatus(Here, "completed", "none")
                  \/ ForceSetStatus(Here, "completed", "none")
      <3>1. worker'.pc = "announce"
        BY <1>3, <2>3, Pcs
      <3>2. jobs'[Here].status = "completed"
        BY <2>1, <2>3, StatusTable DEF Statuses, Errors
      <3> QED
        BY <1>1, <1>4, <2>1, <3>1, <3>2, RunIsLeft DEF HasCancelClaim, ActiveStatuses
    <2>4. CASE Goto("confirm") /\ ~CanForceSetStatus(jobs[Here]) /\ UNCHANGED jobs
      <3>1. worker'.pc = "confirm" /\ Here' = Here
        BY <1>3, <2>4 DEF WorkerPcs, RunPcs
      <3>2. ~Active(Here)
        BY <2>1, <2>4, RowOf DEF CanForceSetStatus, Rows
      <3> QED
        BY <1>1, <1>4, <2>1, <2>4, <3>1, <3>2, RunGoesOn DEF Active, RunPcs
    <2> QED
      BY <1>2, <1>13, <2>2, <2>3, <2>4 DEF MarkCompleted, ForceCompleted
  <1>14. CASE Announce
    <2>1. \A m \in Meetings : ~Active(m) /\ ~HasCancelClaim(jobs[m])
      BY <1>1, <1>14, Quiet, Pcs DEF Announce, At
    <2>2. worker'.pc \in {"poll", "off"} /\ UNCHANGED jobs
      BY <1>14, IdleTyped DEF Announce
    <2> QED
      BY <2>1, <2>2 DEF Settled, At, Active
  <1>15. CASE SaveFailed \/ SaveRecorded
    <2>1. worker.pc \in RunPcs /\ Here \in Meetings
      BY <1>5, <1>15 DEF SaveFailed, SaveRecorded, At, RunPcs
    <2>2. worker'.pc = "confirm" /\ Here' = Here
      BY <1>3, <1>15 DEF SaveFailed, SaveRecorded, WorkerPcs, RunPcs
    <2>3. jobs'[Here].status \notin ActiveStatuses
      <3>1. CASE \/ UpdateStatus(Here, "failed", "other")
                 \/ ForceSetStatus(Here, "recorded", "none")
        BY <2>1, <3>1, StatusTable DEF Statuses, Errors, ActiveStatuses
      <3>2. CASE ~CanUpdateStatus(jobs[Here], "failed") /\ UNCHANGED jobs
        BY <2>1, <3>2, RowOf DEF CanUpdateStatus, Rows, ValidTransitions, ActiveStatuses,
                                 Active
      <3>3. CASE ~CanForceSetStatus(jobs[Here]) /\ UNCHANGED jobs
        BY <2>1, <3>3, RowOf DEF CanForceSetStatus, Rows, Active
      <3> QED
        BY <1>2, <1>15, <3>1, <3>2, <3>3 DEF SaveFailed, SaveRecorded
    <2> QED
      BY <1>1, <1>4, <2>1, <2>2, <2>3, RunGoesOn DEF RunPcs, Active
  <1>16. CASE Confirm
    <2>1. worker.pc \in RunPcs /\ Here \in Meetings /\ At("confirm")
      BY <1>5, <1>16 DEF Confirm, At, RunPcs
    <2>2. CASE Idle /\ ~CancelRequested(Here) /\ UNCHANGED jobs
      <3>1. ~HasCancelClaim(jobs[Here]) /\ ~Active(Here)
        BY <1>1, <2>1, <2>2 DEF CancelRequested, Settled
      <3>2. worker'.pc \in {"poll", "off"}
        BY <2>2, IdleTyped
      <3> QED
        BY <1>1, <1>4, <2>1, <2>2, <3>1, <3>2, RunIsLeft DEF Active
    <2> QED
      BY <1>7, <1>16, <2>1, <2>2 DEF Confirm
  <1>17. CASE FinalizeClaim
    <2>1. worker.pc \in RunPcs /\ Here \in Meetings
      BY <1>5, <1>17 DEF FinalizeClaim, At, RunPcs
    <2>2. CASE FinalizeCancellationClaim(Here) /\ Idle
      <3>1. jobs'[Here].status = "recorded"
        BY <2>1, <2>2, CancelledTable
      <3>2. worker'.pc \in {"poll", "off"}
        BY <2>2, IdleTyped
      <3> QED
        BY <1>1, <1>4, <2>1, <3>1, <3>2, RunIsLeft DEF HasCancelClaim, ActiveStatuses
    <2>3. CASE spent' = [spent EXCEPT !.stale = TRUE]
      BY <2>3 DEF Disturbed, SpentType
    <2> QED
      BY <1>2, <1>17, <2>2, <2>3 DEF FinalizeClaim
  <1>18. CASE FinalizeFlag
    BY <1>18 DEF FinalizeFlag, OwnInv, Waits, Disturbed
  <1>19. CASE RequeueInterrupted
    <2>1. worker.pc \in RunPcs /\ worker'.pc = "off"
      BY <1>19, IdleTyped DEF RequeueInterrupted, At, RunPcs
    <2> QED
      BY <1>1, <1>4, <2>1, RunIsLeft
  <1> QED
    BY <1>8, <1>9, <1>10, <1>11, <1>12, <1>13, <1>14, <1>15, <1>16, <1>17, <1>18, <1>19
       DEF WorkerNext

\* A handler takes over only a row that already has an owner.
LEMMA HandlerSettles ==
    ASSUME Table, Shapes, OwnInv, ~Disturbed,
           NEW m \in Meetings, HandlerNext(m) \/ Requests(m)
    PROVE  Settled'
  <1>1. Settled /\ UNCHANGED worker
    BY HandlerStays DEF OwnInv
  <1>2. \A n \in Meetings \ {m} : jobs'[n] = jobs[n]
    BY HandlerWrites
  <1>6. ASSUME \A n \in Meetings :
                  /\ Active(n)' => Active(n)
                  /\ HasCancelClaim(jobs'[n]) => HasCancelClaim(jobs[n])
        PROVE  Settled'
    <2>1. At("confirm")' => ~Active(Here)'
      <3>1. At("confirm") => Here \in Meetings /\ ~Active(Here)
        BY <1>1 DEF Shapes, AtWork, At, RunPcs, Settled
      <3> QED
        BY <1>1, <1>6, <3>1 DEF At, Here, Active
    <2>2. \A n \in Meetings : Active(n)' \/ HasCancelClaim(jobs'[n]) => Owned(n)'
      BY <1>1, <1>6 DEF Settled, Owned, At, Here
    <2>3. At("claims")' => \A n \in Meetings :
             /\ HasCancelClaim(jobs'[n]) => n \in worker'.claims
             /\ Active(n)' => n \in worker'.orphans
      BY <1>1, <1>6 DEF Settled, At
    <2>4. At("orphans")' => \A n \in Meetings : ~HasCancelClaim(jobs'[n])
      BY <1>1, <1>6 DEF Settled, At
    <2> QED
      BY <2>1, <2>2, <2>3, <2>4 DEF Settled
  <1>3. CASE jobs'[m] = jobs[m]
    BY <1>2, <1>3, <1>6 DEF Active
  <1>4. CASE jobs'[m].status \in {"recorded", "queued", "completed", "failed"}
    <2>1. ~Active(m)' /\ ~HasCancelClaim(jobs'[m])
      BY <1>4, Rests
    <2> QED
      BY <1>2, <1>6, <2>1 DEF Active
  <1>5. CASE jobs'[m].status = "recording" /\ Active(m) /\ cancel[m] = "claim"
    <2>1. ~At("claims") /\ ~At("orphans")
      BY <1>5 DEF OwnInv, Waits, At, RecoveryPcs
    <2>2. Owned(m) /\ ~Active(m)'
      BY <1>1, <1>5 DEF Settled, Active, ActiveStatuses
    <2> QED
      BY <1>1, <1>2, <2>1, <2>2 DEF Settled, Active, Owned, At, Here
  <1> QED
    BY <1>3, <1>4, <1>5, HandlerWrites

LEMMA OwnStep ==
    ASSUME Table, Shapes, OwnInv, PNext
    PROVE  OwnInv'
  <1>1. Waits'
    BY WaitsStep DEF OwnInv
  <1> SUFFICES ASSUME ~Disturbed' PROVE Settled'
    BY <1>1 DEF OwnInv
  <1>2. ~Disturbed /\ Settled
    BY DisturbanceStays DEF OwnInv
  <1>3. CASE Stop
    <2>1. CASE LoopEnds
      BY <2>1, IdleTyped DEF Shapes, Settled, Owned, At
    <2>2. CASE /\ worker.pc \in InterruptiblePcs /\ UNCHANGED jobs
               /\ worker' = [worker EXCEPT !.pc = "unwind", !.stopping = TRUE]
      <3>1. worker'.pc = "unwind" /\ Here' = Here
        BY <2>2 DEF Shapes, WorkerType, Here
      <3>2. CASE worker.pc \in RunPcs
        BY <1>2, <2>2, <3>1, <3>2, RunGoesOn DEF RunPcs
      <3>3. CASE worker.pc = "announce"
        BY <1>2, <2>2, <3>1, <3>3, Quiet, Pcs DEF Settled, At, Active
      <3> QED
        BY <2>2, <3>2, <3>3, Pcs
    <2> QED
      BY <1>3, <2>1, <2>2 DEF Stop
  <1>4. CASE Crash
    BY <1>4 DEF Crash, Started, Settled, Owned, At
  <1> QED
    BY <1>2, <1>3, <1>4, WorkerSettles, HandlerSettles DEF PNext

------------------------------------------------------------------------------
(* Theorems. *)

LEMMA InitInv ==
    ASSUME PInit
    PROVE  PInv
  <1>1. Table
    <2>1. \A selection \in Selections :
             LET row == Row("recorded", NoAction, 0, "none", selection)
             IN  row \in Rows /\ Coherent(row) /\ row # Gone
      BY IntentAssumption, RetryAssumption DEF Row, Rows, Statuses, Errors, Actions,
         RetryCounts, NoAction, Plain, PlainActions, Coherent, Claims, Holds, CancelClaims,
         RejectionClaims, DeleteClaims, ABClaims, RetranscribeClaims, HoldInsideRecorded,
         Gone
    <2> QED
      BY <2>1 DEF PInit, Table, GoodTable, GoodRow
  <1>2. Shapes
    <2>1. worker \in WorkerType /\ worker.pc = "poll"
      BY IntentAssumption, Pcs DEF PInit, Started, WorkerType
    <2>2. spent \in SpentType
      BY BoundsAssumption DEF PInit, SpentType
    <2>3. AtWork
      BY <2>1, Pcs DEF AtWork
    <2> QED
      BY <2>1, <2>2, <2>3, StepStatuses DEF PInit, Shapes, HandlersTyped
  <1>3. \A m \in Meetings : jobs[m].status = "recorded"
    <2>1. \A selection \in Selections :
             Row("recorded", NoAction, 0, "none", selection).status = "recorded"
      BY DEF Row
    <2> QED
      BY <2>1 DEF PInit
  <1>4. Earned
    <2>1. worker.pc = "poll" /\ \A m \in Meetings : reconcile[m] = "idle"
      BY DEF PInit, Started
    <2> QED
      BY <1>3, <2>1 DEF Earned, CompletedMeansFinished
  <1>5. OwnInv
    <2>1. worker.pc = "poll"
      BY DEF PInit, Started
    <2>2. \A m \in Meetings : ~Active(m) /\ ~HasCancelClaim(jobs[m])
      BY <1>3 DEF Active, ActiveStatuses, HasCancelClaim
    <2> QED
      BY <2>1, <2>2, Pcs DEF OwnInv, Waits, Settled, At
  <1> QED
    BY <1>1, <1>2, <1>4, <1>5 DEF PInv

\* The invariant the other theorems are read off: the table's rows are well
\* formed and coherent, the worker is at work on a meeting, whoever completes
\* a meeting has seen its checkpoints, and every row in progress has an owner.
THEOREM ProcessorInvariant == PSpec => []PInv
  <1>1. PInit => PInv
    BY InitInv
  <1>2. PInv /\ [PNext]_pvars => PInv'
    <2> SUFFICES ASSUME PInv, [PNext]_pvars PROVE PInv'
      OBVIOUS
    <2>1. CASE PNext
      BY <2>1, TableStep, ShapesStep, EarnedStep, OwnStep DEF PInv
    <2>2. CASE UNCHANGED pvars
      <3>1. UNCHANGED <<jobs, progress, flags, worker, cancel, requeue, reconcile, spent>>
        BY <2>2 DEF pvars, handlers
      <3>2. Table' /\ Shapes'
        BY <3>1 DEF PInv, Table, GoodTable, Shapes, HandlersTyped, AtWork, Here
      <3>3. Earned'
        BY <3>1 DEF PInv, Earned, CompletedMeansFinished, Here
      <3>4. OwnInv'
        BY <3>1 DEF PInv, OwnInv, Waits, Settled, At, Active, Here, Owned, Disturbed
      <3> QED
        BY <3>2, <3>3, <3>4 DEF PInv
    <2> QED
      BY <2>1, <2>2
  <1> QED
    BY <1>1, <1>2, PTL DEF PSpec

\* Every variable of the processor has its type and every meeting a row of the
\* queue, through cancellations, failing writes, shutdowns and crashes.
THEOREM ProcessorTypes == PSpec => []PTypeOK
  <1>1. PInv => PTypeOK
    BY DEF PInv, Table, GoodTable, Shapes, HandlersTyped, WorkerType, SpentType, PTypeOK
  <1> QED
    BY <1>1, ProcessorInvariant, PTL

\* As long as no write has failed and no stale flag ended a run, no row is left
\* in an active status or under a cancel claim without somebody to settle it.
THEOREM NothingStranded == PSpec => []RowsOwned
  <1>1. PInv => RowsOwned
    BY DEF PInv, OwnInv, Settled, RowsOwned
  <1> QED
    BY <1>1, ProcessorInvariant, PTL

\* A completed meeting has all its pipeline steps checkpointed, whichever of the
\* ordinary, the forced and the reconciling write completed it.
THEOREM CompletionIsEarned == PSpec => []CompletedMeansFinished
  <1>1. PInv => CompletedMeansFinished
    BY DEF PInv, Earned
  <1> QED
    BY <1>1, ProcessorInvariant, PTL

\* Only shutdown and startup recovery put a row in progress back in the queue,
\* and they put it back with its intent, its model and its retry budget.
THEOREM RequestIsKept == PSpec => InterruptionKeepsRequest
  <1>1. PInv /\ [PNext]_pvars => \A m \in Meetings : KeepsRequest(m)
    <2> SUFFICES ASSUME PInv, [PNext]_pvars, NEW m \in Meetings,
                        Active(m), jobs'[m].status = "queued"
                 PROVE  KeepsRequest(m)
      BY DEF KeepsRequest
    <2>1. PNext /\ jobs'[m] # jobs[m]
      BY DEF pvars, Active, ActiveStatuses
    <2>2. Table /\ Shapes
      BY DEF PInv
    <2>3. \A n \in Meetings : ~(HandlerNext(n) \/ Requests(n))
      BY <2>1, <2>2, HandlerWrites
    <2>4. ~Stop /\ ~Crash
      <3>1. At("wait") => Here \in Meetings
        BY <2>2 DEF Shapes, AtWork, At
      <3> QED
        BY <2>1, <2>2, <3>1, ClaimTable DEF Stop, Crash
    <2>5. /\ WorkerNext
          /\ At("orphans") \/ (At("requeue") /\ m = Here)
      BY <2>1, <2>2, <2>3, <2>4, WorkerWrites DEF PNext, ActiveStatuses
    <2>6. RequeueOrphan \/ RequeueInterrupted
      <3>1. worker.pc \in {"orphans", "requeue"}
        BY <2>5 DEF At
      <3>2. /\ ~TakeSnapshot /\ ~FinalizeOrphanedClaim /\ ~(\E n \in Meetings : Poll(n))
            /\ ~Claim /\ ~Boundary /\ ~MarkStep /\ ~Recheck
        BY <3>1 DEF At, TakeSnapshot, FinalizeOrphanedClaim, Poll, Claim, Boundary, MarkStep,
                    Recheck
      <3>3. /\ ~WorkEnds /\ ~PipelineRaises /\ ~RunReturns /\ ~MarkCompleted
            /\ ~ForceCompleted /\ ~Announce /\ ~RunEndsEarly
        BY <3>1 DEF At, WorkEnds, PipelineRaises, RunReturns, MarkCompleted, ForceCompleted,
                    Announce, RunEndsEarly
      <3>4. /\ ~SaveFailed /\ ~SaveRecorded /\ ~Confirm /\ ~Unwind /\ ~FinalizeClaim
            /\ ~FinalizeFlag
        BY <3>1 DEF At, SaveFailed, SaveRecorded, Confirm, Unwind, FinalizeClaim, FinalizeFlag
      <3> QED
        BY <2>5, <3>2, <3>3, <3>4 DEF WorkerNext
    <2>7. ASSUME NEW n \in Meetings, NEW error \in Errors, ForceSetStatus(n, "queued", error)
          PROVE  KeepsRequest(m)
      <3>1. n = m
        BY <2>1, <2>2, <2>7, StatusTable DEF Statuses
      <3>2. jobs[m] \in Rows /\ jobs \in [Meetings -> Rows \cup {Gone}]
        BY <2>2, RowOf DEF Table, GoodTable
      <3>3. jobs'[m] = [jobs[m] EXCEPT !.status = "queued", !.error = error]
        BY <2>7, <3>1, <3>2 DEF ForceSetStatus, Store, Rows
      <3>4. worker.pc \in {"requeue", "orphans"}
        BY <2>5 DEF At
      <3> QED
        BY <3>2, <3>3, <3>4 DEF Rows, KeepsRequest
    <2> QED
      BY <2>1, <2>2, <2>5, <2>6, <2>7 DEF RequeueOrphan, RequeueInterrupted, Shapes,
         WorkerType, Errors, AtWork, At, RunPcs
  <1> QED
    BY <1>1, ProcessorInvariant, PTL DEF PSpec, InterruptionKeepsRequest
==============================================================================

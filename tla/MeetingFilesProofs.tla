------------------------- MODULE MeetingFilesProofs --------------------------
(*****************************************************************************)
(* Proofs about the files of a meeting. Deletion, for every set of           *)
(* meetings, recordings and tokens and any number of crashes and faults:     *)
(* types hold whenever requests are served; the safety properties hold in    *)
(* every behaviour in which no DELETE request is accepted between a start    *)
(* and recovery's snapshot of the table; requests that arrive later, while   *)
(* recovery is at work on the snapshot, do no harm. They fail when one       *)
(* slips in before (the run `overlap`). Re-transcription, for any number of  *)
(* requests, failing steps and crashes: a claim that is given back gives     *)
(* every file back, and one that is queued leaves none.                      *)
(*****************************************************************************)
EXTENDS MeetingFiles, JobRowsProofs

------------------------------------------------------------------------------
(* Type correctness, with what the types of the table and of recovery need. *)

Recovering == recovery.pc \notin {"start", "pick", "done"}

\* The handlers' records and recovery's record, as DTypeOK types them.
Workers == [Meetings -> [pc : HandlerPcs, token : Tokens \cup {NoToken},
                         claim : DeleteClaims \cup {NoClaim}]]
Recoveries ==
    [pc : RecoveryPcs, at : Meetings \cup {Nowhere}, claim : DeleteClaims \cup {NoClaim},
     todo : [Meetings -> DeleteClaims \cup {NoClaim}], clean : BOOLEAN]

\* Sending one handler to another pc keeps the handlers typed.
LEMMA HandlerToTyped ==
    ASSUME handler \in Workers, NEW m \in Meetings, NEW pc \in HandlerPcs,
           HandlerTo(m, pc)
    PROVE  handler' \in Workers
  BY DEF Workers, HandlerTo

\* So does ending one.
LEMMA HandlerIdleTyped ==
    ASSUME handler \in Workers, NEW m \in Meetings,
           handler' = [handler EXCEPT ![m] = Idle]
    PROVE  handler' \in Workers
  BY DEF Workers, Idle, HandlerPcs

\* Sending recovery to another pc keeps it typed.
LEMMA RecoveryToTyped ==
    ASSUME recovery \in Recoveries, NEW pc \in RecoveryPcs, RecoveryTo(pc)
    PROVE  recovery' \in Recoveries /\ recovery'.at = recovery.at /\ recovery'.pc = pc
  BY DEF Recoveries, RecoveryTo

\* A delete claim of the table is one the parser accepts, and was taken with a token.
LEMMA ClaimOfRow ==
    ASSUME GoodTable, NEW m \in Meetings, HasDeleteClaim(jobs[m])
    PROVE  /\ jobs[m] \in Rows /\ jobs[m] # Gone
           /\ jobs[m].action \in DeleteClaims
           /\ jobs[m].action.token \in Tokens
  <1>1. GoodRow(jobs[m]) /\ jobs[m] # Gone
    BY LiveRow DEF HasDeleteClaim, Statuses
  <1>2. jobs[m] \in Rows /\ jobs[m].action \in Actions
    BY <1>1 DEF GoodRow, Rows
  <1>3. jobs[m].action \in DeleteClaims
    BY <1>2, KindOfAction DEF HasDeleteClaim
  <1> QED
    BY <1>1, <1>2, <1>3 DEF DeleteClaims

\* An undo step keeps the types of the files and goes on to an undo pc.
LEMMA UndoStepTyped ==
    ASSUME audio \in [Meetings -> SUBSET Places], index \in [Meetings -> SUBSET Stores],
           marker \in [Meetings -> BOOLEAN], NEW m \in Meetings, NEW claim, NEW from,
           NEW to, UndoStep(m, claim, from, to)
    PROVE  /\ audio' \in [Meetings -> SUBSET Places]
           /\ index' \in [Meetings -> SUBSET Stores]
           /\ marker' \in [Meetings -> BOOLEAN]
           /\ jobs' = jobs
  <1>1. CASE RestoreFile(m, claim, from, to)
    BY <1>1 DEF RestoreFile, Places
  <1>2. CASE Reindex(m, from, to)
    BY <1>2 DEF Reindex
  <1> QED
    BY <1>1, <1>2 DEF UndoStep

\* A step that may fail keeps the budget within its bounds.
LEMMA RaisesTyped ==
    ASSUME budget \in [crashes : 0..MaxCrashes, faults : 0..MaxFaults],
           NEW impossible \in BOOLEAN, Raises(impossible)
    PROVE  budget' \in [crashes : 0..MaxCrashes, faults : 0..MaxFaults]
  BY BudgetAssumption DEF Raises, Fault

\* Every type but the table's own, for the steps that leave some of it alone.
Typed ==
    /\ audio \in [Meetings -> SUBSET Places]
    /\ index \in [Meetings -> SUBSET Stores]
    /\ marker \in [Meetings -> BOOLEAN]
    /\ handler \in Workers
    /\ recovery \in Recoveries
    /\ issued \in SUBSET Tokens
    /\ budget \in [crashes : 0..MaxCrashes, faults : 0..MaxFaults]
    /\ Recovering => recovery.at \in Meetings

TypeInv == GoodTable /\ Typed

\* A step of a DELETE handler keeps the types.
LEMMA HandlerTyped ==
    ASSUME GoodTable, Typed, NEW m \in Meetings, HandlerNext(m)
    PROVE  GoodTable' /\ Typed'
  <1> USE DEF Typed, files
  <1>1. CASE InspectSource(m)
    BY <1>1, HandlerToTyped DEF InspectSource, GoodTable, Recovering, HandlerPcs, DoPcs
  <1>2. CASE PrepareQuarantine(m)
    <2>1. HasDeleteClaim(jobs[m]) /\ jobs[m].action.token = Token(m)
      BY <1>2
         DEF PrepareQuarantine, PrepareDeleteQuarantine, CanPrepareDeleteQuarantine,
             Claimed, HasDeleteClaim
    <2>2. GoodTable'
      BY <1>2, <2>1, ClaimOfRow, PrepareQuarantineGood DEF PrepareQuarantine
    <2> QED
      BY <1>2, <2>2, HandlerToTyped DEF PrepareQuarantine, Recovering, HandlerPcs, DoPcs
  <1>3. CASE LinkToQuarantine(m)
    BY <1>3, HandlerToTyped
       DEF LinkToQuarantine, GoodTable, Recovering, HandlerPcs, DoPcs, Places
  <1>4. CASE UnlinkSource(m)
    BY <1>4, HandlerToTyped
       DEF UnlinkSource, GoodTable, Recovering, HandlerPcs, DoPcs, Places
  <1>5. CASE AdvancePhase(m)
    <2>1. HasDeleteClaim(jobs[m]) /\ jobs[m].action.token = Token(m)
      BY <1>5 DEF AdvancePhase, UpdateDeleteClaimPhase, CanUpdateDeleteClaimPhase,
                  Claimed, HasDeleteClaim
    <2>2. /\ handler[m].pc \in DOMAIN DeletePhaseSources
          /\ NextPc[handler[m].pc] \in HandlerPcs
      BY <1>5 DEF AdvancePhase, NextPc, DeletePhaseSources, HandlerPcs, DoPcs
    <2>3. GoodTable'
      BY <1>5, <2>1, <2>2, ClaimOfRow, UpdateDeletePhaseGood DEF AdvancePhase
    <2> QED
      BY <1>5, <2>2, <2>3, HandlerToTyped DEF AdvancePhase, Recovering
  <1>6. CASE PurgeIndex(m)
    BY <1>6, HandlerToTyped
       DEF PurgeIndex, GoodTable, Recovering, HandlerPcs, DoPcs, Stores
  <1>7. CASE CleanupCaches(m)
    BY <1>7, HandlerToTyped DEF CleanupCaches, GoodTable, Recovering, HandlerPcs, DoPcs
  <1>8. CASE DropRow(m)
    BY <1>8, DropGood, HandlerIdleTyped DEF DropRow, DeleteClaimedJob, Recovering
  <1>9. CASE DeletionFails(m)
    <2>1. budget' \in [crashes : 0..MaxCrashes, faults : 0..MaxFaults]
      BY <1>9, RaisesTyped DEF DeletionFails, DoImpossible
    <2> QED
      BY <1>9, <2>1, HandlerToTyped
         DEF DeletionFails, GoodTable, Recovering, HandlerPcs, Places
  <1>10. CASE ReadClaim(m)
    <2>1. CASE Claimed(jobs[m], "delete", Token(m))
      <3>1. jobs[m].action \in DeleteClaims
        BY <2>1, ClaimOfRow DEF Claimed, HasDeleteClaim
      <3>2. UndoStart(jobs[m].action) \in HandlerPcs
        BY DEF UndoStart, AfterRestore, HandlerPcs, UndoPcs
      <3>3. handler' \in Workers
        BY <1>10, <3>1, <3>2, HandlerIdleTyped DEF ReadClaim, Workers
      <3> QED
        BY <1>10, <3>3 DEF ReadClaim, GoodTable, Recovering
    <2>2. CASE ~Claimed(jobs[m], "delete", Token(m))
      BY <1>10, <2>2, HandlerIdleTyped DEF ReadClaim, GoodTable, Recovering
    <2> QED
      BY <2>1, <2>2
  <1>11. CASE RollbackStep(m)
    <2>1. PICK to \in UndoPcs :
             UndoStep(m, handler[m].claim, handler[m].pc, to) /\ HandlerTo(m, to)
      BY <1>11 DEF RollbackStep
    <2>2. handler' \in Workers
      BY <2>1, HandlerToTyped DEF HandlerPcs
    <2>3. /\ audio' \in [Meetings -> SUBSET Places]
          /\ index' \in [Meetings -> SUBSET Stores]
          /\ marker' \in [Meetings -> BOOLEAN]
          /\ jobs' = jobs
      BY <2>1, UndoStepTyped
    <2> QED
      BY <1>11, <2>2, <2>3 DEF RollbackStep, GoodTable, Recovering
  <1>12. CASE ReleaseClaim(m)
    <2>1. HasDeleteClaim(jobs[m]) /\ jobs[m].action.token = Token(m)
      BY <1>12 DEF ReleaseClaim, RestoreDeleteClaim, CanRestoreDeleteClaim, Claimed,
                   HasDeleteClaim
    <2>2. GoodTable'
      BY <1>12, <2>1, ClaimOfRow, RestoreDeleteGood DEF ReleaseClaim
    <2> QED
      BY <1>12, <2>2, HandlerIdleTyped DEF ReleaseClaim, Recovering
  <1>13. CASE RollbackFails(m)
    <2>1. budget' \in [crashes : 0..MaxCrashes, faults : 0..MaxFaults]
      BY <1>13, RaisesTyped DEF RollbackFails, UndoImpossible
    <2> QED
      BY <1>13, <2>1, HandlerIdleTyped DEF RollbackFails, GoodTable, Recovering
  <1> QED
    BY <1>1, <1>2, <1>3, <1>4, <1>5, <1>6, <1>7, <1>8, <1>9, <1>10, <1>11, <1>12, <1>13
       DEF HandlerNext

\* A step of startup recovery keeps the types.
LEMMA RecoveryTyped ==
    ASSUME GoodTable, Typed, RecoveryNext
    PROVE  GoodTable' /\ Typed'
  <1> USE DEF Typed, files
  <1>1. CASE TakeSnapshot
    <2>1. recovery' \in Recoveries /\ recovery'.pc = "pick"
      BY <1>1, ClaimOfRow DEF TakeSnapshot, Recoveries, RecoveryPcs
    <2> QED
      BY <1>1, <2>1 DEF TakeSnapshot, GoodTable, Recovering
  <1>2. ASSUME NEW m \in Meetings, PickClaim(m)
        PROVE  GoodTable' /\ Typed'
    <2>1. UndoStart(recovery.todo[m]) \in RecoveryPcs
      BY DEF UndoStart, AfterRestore, RecoveryPcs, UndoPcs
    <2>2. recovery' \in Recoveries /\ recovery'.at = m
      BY <1>2, <2>1 DEF PickClaim, Recoveries, RecoveryPcs
    <2> QED
      BY <1>2, <2>2 DEF PickClaim, GoodTable
  <1>3. CASE RecoverCaches
    BY <1>3, RecoveryToTyped DEF RecoverCaches, GoodTable, Recovering, RecoveryPcs
  <1>4. CASE RollForward
    <2>1. recovery.at \in Meetings
      BY <1>4 DEF RollForward, Recovering
    <2> QED
      BY <1>4, <2>1, DropGood, RecoveryToTyped
         DEF RollForward, DeleteClaimedJob, Recovering, RecoveryPcs
  <1>5. CASE RecoveryStep
    <2>1. recovery.at \in Meetings
      BY <1>5 DEF RecoveryStep, Recovering, UndoPcs
    <2>2. PICK to \in UndoPcs :
             UndoStep(recovery.at, recovery.claim, recovery.pc, to) /\ RecoveryTo(to)
      BY <1>5 DEF RecoveryStep
    <2>3. recovery' \in Recoveries /\ recovery'.at = recovery.at
      BY <2>2, RecoveryToTyped DEF RecoveryPcs
    <2>4. /\ audio' \in [Meetings -> SUBSET Places]
          /\ index' \in [Meetings -> SUBSET Stores]
          /\ marker' \in [Meetings -> BOOLEAN]
          /\ jobs' = jobs
      BY <2>1, <2>2, UndoStepTyped
    <2> QED
      BY <1>5, <2>1, <2>3, <2>4 DEF RecoveryStep, GoodTable
  <1>6. CASE RecoveryReleases
    <2>1. recovery.at \in Meetings
      BY <1>6 DEF RecoveryReleases, Recovering
    <2>2. /\ HasDeleteClaim(jobs[recovery.at])
          /\ jobs[recovery.at].action.token = recovery.claim.token
      BY <1>6 DEF RecoveryReleases, RestoreDeleteClaim, CanRestoreDeleteClaim, Claimed,
                  HasDeleteClaim
    <2>3. GoodTable'
      BY <1>6, <2>1, <2>2, ClaimOfRow, RestoreDeleteGood DEF RecoveryReleases
    <2> QED
      BY <1>6, <2>3, RecoveryToTyped DEF RecoveryReleases, Recovering, RecoveryPcs
  <1>7. CASE RecoveryFails
    <2>1. budget' \in [crashes : 0..MaxCrashes, faults : 0..MaxFaults]
      BY <1>7, RaisesTyped DEF RecoveryFails, RecoveryImpossible
    <2>2. recovery' \in Recoveries /\ recovery'.pc \in {"done", "pick"}
      BY <1>7 DEF RecoveryFails, Recoveries, RecoveryPcs
    <2> QED
      BY <1>7, <2>1, <2>2 DEF RecoveryFails, GoodTable, Recovering
  <1>8. CASE FinishRecovery
    BY <1>8, RecoveryToTyped DEF FinishRecovery, GoodTable, Recovering, RecoveryPcs
  <1> QED
    BY <1>1, <1>2, <1>3, <1>4, <1>5, <1>6, <1>7, <1>8 DEF RecoveryNext

\* Types hold at the start and every step keeps them.
LEMMA TypeStep == (DInit => TypeInv) /\ (TypeInv /\ [DNext]_dvars => TypeInv')
  <1>1. ASSUME DInit PROVE TypeInv
    <2>1. GoodTable
      BY <1>1, NoActionFits, PlainGood, RetryAssumption
         DEF DInit, DRows, GoodTable, GoodRow, Row, Rows, Statuses, Actions, Errors,
             RetryCounts
    <2>2. /\ audio \in [Meetings -> SUBSET Places]
          /\ index \in [Meetings -> SUBSET Stores]
          /\ marker \in [Meetings -> BOOLEAN]
          /\ issued \in SUBSET Tokens
      BY <1>1 DEF DInit, DLocals, Places
    <2>3. handler \in Workers
      BY <1>1 DEF DInit, DLocals, Workers, Idle, HandlerPcs
    <2>4. recovery \in Recoveries /\ ~Recovering
      BY <1>1 DEF DInit, DLocals, Recoveries, NotRecovered, RecoveryPcs, Recovering
    <2>5. budget \in [crashes : 0..MaxCrashes, faults : 0..MaxFaults]
      BY <1>1, BudgetAssumption DEF DInit, DLocals
    <2> QED
      BY <2>1, <2>2, <2>3, <2>4, <2>5 DEF TypeInv, Typed
  <1>2. ASSUME GoodTable, Typed, [DNext]_dvars PROVE GoodTable' /\ Typed'
    <2>1. ASSUME NEW m \in Meetings, ClaimMeeting(m)
          PROVE  GoodTable' /\ Typed'
      <3>1. PICK token \in Tokens :
               /\ ClaimForDeletion(m, token)
               /\ issued' = issued \cup {token}
               /\ handler' = [handler EXCEPT ![m] =
                                [pc |-> "inspect", token |-> token, claim |-> NoClaim]]
        BY <2>1 DEF ClaimMeeting
      <3>2. GoodTable'
        BY <1>2, <3>1, ClaimDeletionGood
      <3>3. handler' \in Workers
        BY <1>2, <3>1 DEF Typed, Workers, HandlerPcs, DoPcs
      <3> QED
        BY <1>2, <2>1, <3>1, <3>2, <3>3 DEF ClaimMeeting, Typed, files, Recovering
    <2>2. ASSUME NEW m \in Meetings, QueueMeeting(m)
          PROVE  GoodTable' /\ Typed'
      <3>1. GoodTable'
        BY <1>2, <2>2, QueueJobGood, IntentAssumption DEF QueueMeeting
      <3> QED
        BY <1>2, <2>2, <3>1 DEF QueueMeeting, Typed, files, Recovering
    <2>3. CASE Crash
      <3>1. handler' \in Workers /\ recovery' \in Recoveries /\ recovery'.pc = "start"
        BY <2>3
           DEF Crash, Workers, Recoveries, Idle, NotRecovered, HandlerPcs, RecoveryPcs
      <3>2. budget' \in [crashes : 0..MaxCrashes, faults : 0..MaxFaults]
        BY <1>2, <2>3, BudgetAssumption DEF Crash, Typed
      <3> QED
        BY <1>2, <2>3, <3>1, <3>2 DEF Crash, Typed, files, GoodTable, Recovering
    <2>4. CASE UNCHANGED dvars
      BY <1>2, <2>4 DEF dvars, Typed, GoodTable, Recovering
    <2> QED
      BY <1>2, <2>1, <2>2, <2>3, <2>4, HandlerTyped, RecoveryTyped DEF DNext
  <1> QED
    BY <1>1, <1>2 DEF TypeInv

\* Every reachable state has its types, whenever requests are served.
THEOREM DeletionTypes == DSpec => []DTypeOK
  <1>1. DSpec => []TypeInv
    BY TypeStep, PTL DEF DSpec
  <1>2. TypeInv => DTypeOK
    BY DEF TypeInv, Typed, GoodTable, DTypeOK, Workers, Recoveries
  <1> QED
    BY <1>1, <1>2, PTL

------------------------------------------------------------------------------
(* The inductive invariant.  A claim's payload says how far the deletion may *)
(* have come: the first three operators bound what the files and the stores  *)
(* can look like for a row, whoever is at work; the others add what the      *)
(* actor at work knows.                                                      *)

Source(m) == IF m \in WithAudio THEN {"input"} ELSE {}
Taken(m) == IF m \in WithAudio THEN {"quarantine"} ELSE {}
Searchable(stores, mark) == stores = Stores /\ ~mark

ClaimFits(m, claim, places, stores, mark) ==
    /\ claim.sourced => m \in WithAudio /\ places # {} /\ claim.phase # "claimed"
    /\ ~claim.sourced =>
          places = Source(m) /\ (claim.phase # "claimed" => m \notin WithAudio)
    /\ claim.status = "completed" /\ claim.phase \notin {"purging", "committing"} =>
          Searchable(stores, mark)
    /\ claim.phase = "committing" => stores = {} /\ places = Taken(m)

MeetingFits(m, row, places, stores, mark) ==
    /\ row = Gone => stores = {} /\ places = Taken(m)
    /\ row # Gone /\ row.status # "recording" =>
          places = Source(m) /\ (row.status = "completed" => Searchable(stores, mark))
    /\ row # Gone /\ row.status = "recording" =>
          HasDeleteClaim(row) /\ ClaimFits(m, row.action, places, stores, mark)

\* An undo at `pc` acts on the payload that the row still has.
UndoFits(m, row, places, stores, mark, claim, pc) ==
    /\ HasDeleteClaim(row) /\ row.action = claim /\ claim.phase # "committing"
    /\ pc \in {"restore", "unlink_back"} => claim.sourced
    /\ pc = "unlink_back" => "input" \in places
    /\ pc \notin {"restore", "unlink_back"} => places = Source(m)
    /\ pc \in {"mark", "reindex", "consume"} => claim.phase = "purging"
    /\ pc = "consume" => stores = Stores
    /\ pc = "release" /\ claim.status = "completed" => Searchable(stores, mark)

DoFits(m, claim, places, stores, pc) ==
    CASE pc = "inspect" -> claim.phase = "claimed"
      [] pc = "prepare" -> claim.phase = "claimed" /\ "input" \in places
      [] pc = "link" -> claim.phase = "quarantining"
      [] pc = "unlink" -> claim.phase = "quarantining" /\ places = Places
      [] pc = "quarantined" ->
            \/ claim.phase = "claimed" /\ places = {}
            \/ claim.phase = "quarantining" /\ places = {"quarantine"}
      [] pc = "purging" -> claim.phase = "quarantined" /\ places = Taken(m)
      [] pc = "purge" -> claim.phase = "purging" /\ places = Taken(m)
      [] pc = "committing" ->
            claim.phase = "purging" /\ places = Taken(m) /\ stores = {}
      [] OTHER -> claim.phase = "committing"

HandlerFits(m, worker, row, places, stores, mark) ==
    worker.pc # "idle" =>
        /\ HasDeleteClaim(row) /\ row.action.token = worker.token
        /\ worker.pc \in DoPcs => DoFits(m, row.action, places, stores, worker.pc)
        /\ worker.pc \in UndoPcs =>
              UndoFits(m, row, places, stores, mark, worker.claim, worker.pc)

\* Recovery has this meeting's claim in hand or still to do.
Due(m) ==
    /\ recovery.pc # "done"
    /\ recovery.todo[m] # NoClaim \/ (Recovering /\ recovery.at = m)

MeetingInv(m) ==
    /\ MeetingFits(m, jobs[m], audio[m], index[m], marker[m])
    /\ HandlerFits(m, handler[m], jobs[m], audio[m], index[m], marker[m])
    /\ recovery.pc = "start" \/ Due(m) => handler[m].pc = "idle"
    /\ recovery.pc # "done" /\ recovery.todo[m] # NoClaim =>
          HasDeleteClaim(jobs[m]) /\ jobs[m].action = recovery.todo[m]

\* What recovery knows of the meetings when it has the process to itself.
Alone(m) ==
    ~ServeBeforeRecovery =>
        /\ recovery.pc # "done" => handler[m].pc = "idle"
        /\ recovery.pc \notin {"start", "done"} /\ recovery.clean
              /\ HasDeleteClaim(jobs[m]) => Due(m)

RecoveryInv ==
    LET m == recovery.at IN
    /\ Recovering => recovery.todo[m] = NoClaim
    /\ recovery.pc \in UndoPcs =>
          UndoFits(m, jobs[m], audio[m], index[m], marker[m], recovery.claim, recovery.pc)
    /\ recovery.pc \in {"cleanup", "drop"} =>
          /\ HasDeleteClaim(jobs[m]) /\ jobs[m].action = recovery.claim
          /\ recovery.claim.phase = "committing"

IInv ==
    /\ \A m \in Meetings : MeetingInv(m) /\ Alone(m)
    /\ RecoveryInv

------------------------------------------------------------------------------
(* The steps of a handler.  Nothing else runs then but other handlers, each  *)
(* on its own meeting.                                                       *)

\* A step leaves everything of this meeting as it was.
Untouched(n) ==
    /\ jobs'[n] = jobs[n] /\ audio'[n] = audio[n] /\ index'[n] = index[n]
    /\ marker'[n] = marker[n] /\ handler'[n] = handler[n]

\* What a step of the meeting's own actor has to establish.
Restored(m) ==
    /\ MeetingFits(m, jobs'[m], audio'[m], index'[m], marker'[m])
    /\ HandlerFits(m, handler'[m], jobs'[m], audio'[m], index'[m], marker'[m])

\* Recovery has nothing to do with the meeting, and where requests wait for it
\* it is done.
ClearOf(m) == ~Due(m) /\ (~ServeBeforeRecovery => recovery.pc = "done")

\* A step of one meeting that recovery has no part in.
LEMMA LocalStep ==
    ASSUME TypeInv, IInv, NEW m \in Meetings, ClearOf(m), recovery' = recovery,
           recovery.pc # "start" \/ handler' = handler,
           \A n \in Meetings \ {m} : Untouched(n), Restored(m)
    PROVE  IInv'
  <1>1. ASSUME NEW n \in Meetings PROVE (MeetingInv(n) /\ Alone(n))'
    <2>1. CASE n = m
      BY <2>1 DEF IInv, MeetingInv, Alone, ClearOf, Due, Recovering, Restored
    <2>2. CASE n # m
      BY <1>1, <2>2 DEF IInv, MeetingInv, Alone, Due, Recovering, Untouched
    <2> QED
      BY <2>1, <2>2
  <1>2. RecoveryInv'
    <2>1. CASE Recovering
      <3>1. recovery.at \in Meetings /\ recovery.at # m
        BY <2>1 DEF TypeInv, Typed, ClearOf, Due, Recovering
      <3> QED
        BY <2>1, <3>1 DEF IInv, RecoveryInv, Recovering, Untouched
    <2>2. CASE ~Recovering
      BY <2>2 DEF RecoveryInv, Recovering, UndoPcs
    <2> QED
      BY <2>1, <2>2
  <1> QED
    BY <1>1, <1>2 DEF IInv

\* A handler at work holds a claim that the files and the stores fit, and that
\* recovery has nothing to do with.
LEMMA AtWork ==
    ASSUME TypeInv, IInv, NEW m \in Meetings, handler[m].pc # "idle"
    PROVE  /\ ClearOf(m) /\ recovery.pc # "start"
           /\ HasDeleteClaim(jobs[m]) /\ jobs[m] \in Rows /\ jobs[m] # Gone
           /\ jobs[m].action \in DeleteClaims
           /\ jobs[m].action.token = Token(m) /\ Token(m) \in Tokens
           /\ ClaimFits(m, jobs[m].action, audio[m], index[m], marker[m])
  <1>1. /\ ClearOf(m) /\ recovery.pc # "start"
        /\ HasDeleteClaim(jobs[m]) /\ jobs[m].action.token = Token(m)
    BY DEF IInv, MeetingInv, Alone, HandlerFits, Token, ClearOf
  <1>2. /\ jobs[m] \in Rows /\ jobs[m] # Gone /\ jobs[m].action \in DeleteClaims
        /\ Token(m) \in Tokens
    BY <1>1, ClaimOfRow DEF TypeInv
  <1> QED
    BY <1>1, <1>2 DEF IInv, MeetingInv, MeetingFits, HasDeleteClaim

\* Sending the handler on without touching row, files or stores.
LEMMA MoveOn ==
    ASSUME TypeInv, IInv, NEW m \in Meetings, handler[m].pc # "idle",
           NEW worker, handler' = [handler EXCEPT ![m] = worker],
           HandlerFits(m, worker, jobs[m], audio[m], index[m], marker[m]),
           UNCHANGED <<jobs, files, recovery>>
    PROVE  IInv'
  <1>1. \A n \in Meetings \ {m} : Untouched(n)
    BY DEF Untouched, files, TypeInv, Typed, Workers
  <1>2. Restored(m)
    BY DEF Restored, files, TypeInv, Typed, Workers, IInv, MeetingInv
  <1> QED
    BY <1>1, <1>2, AtWork, LocalStep

\* Starting to undo a claim that is not committing fits the files and the stores.
LEMMA UndoStarts ==
    ASSUME NEW m, NEW row, NEW places, NEW stores, NEW mark, HasDeleteClaim(row),
           row.action.phase # "committing",
           ClaimFits(m, row.action, places, stores, mark)
    PROVE  UndoFits(m, row, places, stores, mark, row.action, UndoStart(row.action))
  BY DEF UndoFits, UndoStart, AfterRestore, ClaimFits

\* Each step of an undo fits what it leaves, and touches one meeting's files only.
LEMMA UndoGoesOn ==
    ASSUME Typed, NEW m \in Meetings, NEW claim, NEW from, NEW to,
           UndoFits(m, jobs[m], audio[m], index[m], marker[m], claim, from),
           ClaimFits(m, claim, audio[m], index[m], marker[m]),
           UndoStep(m, claim, from, to)
    PROVE  /\ UndoFits(m, jobs'[m], audio'[m], index'[m], marker'[m], claim, to)
           /\ ClaimFits(m, claim, audio'[m], index'[m], marker'[m])
           /\ jobs' = jobs
           /\ \A n \in Meetings \ {m} :
                 audio'[n] = audio[n] /\ index'[n] = index[n] /\ marker'[n] = marker[n]
  <1> USE DEF Typed
  <1>1. CASE RestoreFile(m, claim, from, to)
    <2>1. /\ jobs' = jobs /\ index' = index /\ marker' = marker /\ claim.sourced
          /\ \A n \in Meetings \ {m} : audio'[n] = audio[n]
      BY <1>1 DEF RestoreFile, UndoFits
    <2>2. m \in WithAudio /\ Source(m) = {"input"} /\ "input" \in audio'[m]
      BY <1>1, <2>1 DEF RestoreFile, ClaimFits, Source, Places
    <2>3. ClaimFits(m, claim, audio'[m], index'[m], marker'[m])
      <3>1. audio'[m] # {}
        BY <2>2
      <3> QED
        BY <2>1, <2>2, <3>1 DEF ClaimFits, UndoFits, Searchable
    <2>4. CASE to = "unlink_back"
      BY <2>1, <2>2, <2>3, <2>4 DEF UndoFits
    <2>5. CASE to = AfterRestore(claim) /\ audio'[m] = {"input"}
      BY <2>1, <2>2, <2>3, <2>5 DEF UndoFits, AfterRestore, ClaimFits
    <2>6. to = "unlink_back" \/ (to = AfterRestore(claim) /\ audio'[m] = {"input"})
      BY <1>1 DEF RestoreFile, Places
    <2> QED
      BY <2>1, <2>3, <2>4, <2>5, <2>6
  <1>2. CASE Reindex(m, from, to)
    <2>1. /\ jobs' = jobs /\ audio' = audio /\ claim.phase = "purging"
          /\ \A n \in Meetings \ {m} : index'[n] = index[n] /\ marker'[n] = marker[n]
      BY <1>2 DEF Reindex, UndoFits
    <2>2. ClaimFits(m, claim, audio'[m], index'[m], marker'[m])
      BY <2>1 DEF ClaimFits
    <2>3. UndoFits(m, jobs'[m], audio'[m], index'[m], marker'[m], claim, to)
      BY <1>2, <2>1 DEF Reindex, UndoFits, Searchable
    <2> QED
      BY <2>1, <2>2, <2>3
  <1> QED
    BY <1>1, <1>2 DEF UndoStep

\* Every step of a DELETE handler keeps the invariant.
LEMMA HandlerSafe ==
    ASSUME TypeInv, IInv, NEW m \in Meetings, HandlerNext(m)
    PROVE  IInv'
  <1> USE DEF files
  <1>1. CASE InspectSource(m)
    <2> DEFINE pc == IF "input" \in audio[m] THEN "prepare" ELSE "quarantined"
    <2> DEFINE worker == [handler[m] EXCEPT !.pc = pc]
    <2>1. handler' = [handler EXCEPT ![m] = worker]
      BY <1>1 DEF InspectSource, HandlerTo
    <2>2. DoFits(m, jobs[m].action, audio[m], index[m], pc)
      BY <1>1, AtWork
         DEF InspectSource, At, IInv, MeetingInv, HandlerFits, DoFits, DoPcs, ClaimFits,
             Source
    <2>3. HandlerFits(m, worker, jobs[m], audio[m], index[m], marker[m])
      BY <1>1, <2>2, AtWork
         DEF InspectSource, At, HandlerFits, DoPcs, UndoPcs, Token, TypeInv, Typed,
             Workers
    <2> QED
      BY <1>1, <2>1, <2>3, MoveOn DEF InspectSource, At
  <1>2. CASE PrepareQuarantine(m)
    <2> DEFINE claim == [jobs[m].action EXCEPT !.phase = "quarantining", !.sourced = TRUE]
    <2> DEFINE row == [jobs[m] EXCEPT !.action = claim]
    <2>1. /\ ClearOf(m) /\ recovery.pc # "start" /\ recovery' = recovery
          /\ \A n \in Meetings \ {m} : Untouched(n)
      BY <1>2, AtWork
         DEF PrepareQuarantine, At, PrepareDeleteQuarantine, Store, HandlerTo,
             Untouched, TypeInv, Typed, Workers, GoodTable
    <2>2. /\ jobs'[m] = row /\ handler'[m] = [handler[m] EXCEPT !.pc = "link"]
          /\ audio' = audio /\ index' = index /\ marker' = marker
      BY <1>2, AtWork
         DEF PrepareQuarantine, PrepareDeleteQuarantine, Store, HandlerTo, TypeInv,
             Typed, Workers, GoodTable
    <2>3. /\ claim.kind = "delete" /\ claim.phase = "quarantining" /\ claim.sourced
          /\ claim.status = jobs[m].action.status /\ claim.token = Token(m)
      BY <1>2, AtWork DEF PrepareQuarantine, At, DeleteClaims, HasDeleteClaim
    <2>4. row.status = "recording" /\ row.action = claim /\ row # Gone
      BY <1>2, AtWork DEF PrepareQuarantine, At, Rows, HasDeleteClaim, Gone
    <2>5. jobs[m].action.phase = "claimed" /\ "input" \in audio[m]
      BY <1>2, AtWork
         DEF PrepareQuarantine, At, IInv, MeetingInv, HandlerFits, DoFits, DoPcs
    <2>6. ClaimFits(m, claim, audio[m], index[m], marker[m])
      BY <1>2, <2>3, <2>5, AtWork DEF PrepareQuarantine, At, ClaimFits, Source
    <2>7. MeetingFits(m, row, audio[m], index[m], marker[m])
      BY <2>3, <2>4, <2>6 DEF MeetingFits, HasDeleteClaim
    <2> DEFINE worker == [handler[m] EXCEPT !.pc = "link"]
    <2>8. worker.pc = "link" /\ worker.token = Token(m)
      BY DEF Token, TypeInv, Typed, Workers
    <2>9. HandlerFits(m, worker, row, audio[m], index[m], marker[m])
      BY <2>3, <2>4, <2>8 DEF HandlerFits, HasDeleteClaim, DoFits, UndoPcs
    <2> QED
      BY <2>1, <2>2, <2>7, <2>9, LocalStep DEF Restored
  <1>3. CASE LinkToQuarantine(m)
    <2>1. /\ ClearOf(m) /\ recovery.pc # "start" /\ recovery' = recovery
          /\ \A n \in Meetings \ {m} : Untouched(n)
      BY <1>3, AtWork
         DEF LinkToQuarantine, At, HandlerTo, Untouched, TypeInv, Typed, Workers,
             GoodTable
    <2>2. Restored(m)
      BY <1>3, AtWork
         DEF LinkToQuarantine, At, HandlerTo, Restored, MeetingFits, ClaimFits,
             HandlerFits, DoFits, HasDeleteClaim, DoPcs, UndoPcs, Token, Source, Taken,
             Places, Gone, TypeInv, Typed, Workers, GoodTable, Rows, DeleteClaims, IInv,
             MeetingInv
    <2> QED
      BY <2>1, <2>2, LocalStep
  <1>4. CASE UnlinkSource(m)
    <2>1. /\ ClearOf(m) /\ recovery.pc # "start" /\ recovery' = recovery
          /\ \A n \in Meetings \ {m} : Untouched(n)
      BY <1>4, AtWork
         DEF UnlinkSource, At, HandlerTo, Untouched, TypeInv, Typed, Workers, GoodTable
    <2>2. Restored(m)
      BY <1>4, AtWork
         DEF UnlinkSource, At, HandlerTo, Restored, MeetingFits, ClaimFits, HandlerFits,
             DoFits, HasDeleteClaim, DoPcs, UndoPcs, Token, Source, Taken, Places, Gone,
             TypeInv, Typed, Workers, GoodTable, Rows, DeleteClaims, IInv, MeetingInv
    <2> QED
      BY <2>1, <2>2, LocalStep
  <1>6. CASE PurgeIndex(m)
    <2>1. /\ ClearOf(m) /\ recovery.pc # "start" /\ recovery' = recovery
          /\ \A n \in Meetings \ {m} : Untouched(n)
      BY <1>6, AtWork
         DEF PurgeIndex, At, HandlerTo, Stores, Untouched, TypeInv, Typed, Workers,
             GoodTable
    <2>2. Restored(m)
      BY <1>6, AtWork
         DEF PurgeIndex, At, HandlerTo, Stores, Restored, MeetingFits, ClaimFits,
             HandlerFits, DoFits, HasDeleteClaim, DoPcs, UndoPcs, Token, Source, Taken,
             Places, Gone, TypeInv, Typed, Workers, GoodTable, Rows, DeleteClaims, IInv,
             MeetingInv
    <2> QED
      BY <2>1, <2>2, LocalStep
  <1>7. CASE CleanupCaches(m)
    <2>1. /\ ClearOf(m) /\ recovery.pc # "start" /\ recovery' = recovery
          /\ \A n \in Meetings \ {m} : Untouched(n)
      BY <1>7, AtWork
         DEF CleanupCaches, At, HandlerTo, Untouched, TypeInv, Typed, Workers, GoodTable
    <2>2. Restored(m)
      BY <1>7, AtWork
         DEF CleanupCaches, At, HandlerTo, Restored, MeetingFits, ClaimFits,
             HandlerFits, DoFits, HasDeleteClaim, DoPcs, UndoPcs, Token, Source, Taken,
             Places, Gone, TypeInv, Typed, Workers, GoodTable, Rows, DeleteClaims, IInv,
             MeetingInv
    <2> QED
      BY <2>1, <2>2, LocalStep
  <1>8. CASE DropRow(m)
    <2>1. /\ ClearOf(m) /\ recovery.pc # "start" /\ recovery' = recovery
          /\ \A n \in Meetings \ {m} : Untouched(n)
      BY <1>8, AtWork
         DEF DropRow, At, DeleteClaimedJob, CanDeleteClaimedJob, Claimed, Store, Idle,
             Untouched, TypeInv, Typed, Workers, GoodTable
    <2>2. Restored(m)
      BY <1>8, AtWork
         DEF DropRow, At, DeleteClaimedJob, CanDeleteClaimedJob, Claimed, Store, Idle,
             Restored, MeetingFits, ClaimFits, HandlerFits, DoFits, HasDeleteClaim,
             DoPcs, UndoPcs, Token, Source, Taken, Places, Gone, TypeInv, Typed,
             Workers, GoodTable, Rows, DeleteClaims, IInv, MeetingInv
    <2> QED
      BY <2>1, <2>2, LocalStep
  <1>9. CASE DeletionFails(m)
    <2>1. handler[m].pc # "idle" /\ handler'[m] = [handler[m] EXCEPT !.pc = "read_claim"]
      BY <1>9 DEF DeletionFails, HandlerTo, DoPcs, TypeInv, Typed, Workers
    <2>2. /\ ClearOf(m) /\ recovery.pc # "start" /\ recovery' = recovery
          /\ \A n \in Meetings \ {m} : Untouched(n)
      BY <1>9, <2>1, AtWork
         DEF DeletionFails, HandlerTo, Untouched, TypeInv, Typed, Workers
    <2>3. ClaimFits(m, jobs[m].action, audio'[m], index[m], marker[m])
      <3>1. CASE handler[m].pc = "unlink"
        <4>1. jobs[m].action.phase = "quarantining" /\ audio[m] = Places
          BY <3>1, <2>1 DEF IInv, MeetingInv, HandlerFits, DoFits, DoPcs
        <4>2. jobs[m].action.sourced
          BY <2>1, <4>1, AtWork DEF DeleteClaims
        <4>3. audio'[m] = {"input"}
          BY <1>9, <3>1, <4>1 DEF DeletionFails, At, Places, TypeInv, Typed
        <4> QED
          BY <2>1, <4>1, <4>2, <4>3, AtWork DEF ClaimFits
      <3>2. CASE handler[m].pc # "unlink"
        BY <1>9, <2>1, <3>2, AtWork DEF DeletionFails, At
      <3> QED
        BY <3>1, <3>2
    <2>4. Restored(m)
      BY <1>9, <2>1, <2>3, AtWork
         DEF DeletionFails, Restored, MeetingFits, HandlerFits, HasDeleteClaim, DoPcs,
             UndoPcs, Token, TypeInv, Typed, Workers
    <2> QED
      BY <2>2, <2>4, LocalStep
  <1>12. CASE ReleaseClaim(m)
    <2> DEFINE claim == jobs[m].action
    <2> DEFINE row == [jobs[m] EXCEPT !.status = claim.status, !.action = claim.action,
                                      !.error = claim.error]
    <2>1. handler[m].pc = "release"
      BY <1>12 DEF ReleaseClaim, At
    <2>2. /\ ClearOf(m) /\ recovery.pc # "start" /\ recovery' = recovery
          /\ \A n \in Meetings \ {m} : Untouched(n)
      BY <1>12, <2>1, AtWork
         DEF ReleaseClaim, RestoreDeleteClaim, Store, Untouched, TypeInv, Typed,
             Workers, GoodTable
    <2>3. /\ jobs'[m] = row /\ handler'[m].pc = "idle"
          /\ audio' = audio /\ index' = index /\ marker' = marker
      BY <1>12, AtWork
         DEF ReleaseClaim, RestoreDeleteClaim, Store, Idle, TypeInv, Typed, Workers,
             GoodTable
    <2>4. row.status = claim.status /\ row # Gone /\ claim.status # "recording"
      BY <2>1, AtWork DEF Rows, DeleteClaims, Gone
    <2>5. UndoFits(m, jobs[m], audio[m], index[m], marker[m], claim, "release")
      BY <2>1 DEF IInv, MeetingInv, HandlerFits, UndoPcs, UndoFits
    <2>6. Restored(m)
      BY <2>3, <2>4, <2>5 DEF Restored, MeetingFits, HandlerFits, UndoFits
    <2> QED
      BY <2>2, <2>6, LocalStep
  <1>5. CASE AdvancePhase(m)
    <2> DEFINE pc == handler[m].pc
    <2> DEFINE claim == [jobs[m].action EXCEPT !.phase = pc]
    <2> DEFINE row == [jobs[m] EXCEPT !.action = claim]
    <2> DEFINE worker == [handler[m] EXCEPT !.pc = NextPc[pc]]
    <2>1. pc \in {"quarantined", "purging", "committing"}
      BY <1>5 DEF AdvancePhase, NextPc
    <2>2. /\ ClearOf(m) /\ recovery.pc # "start" /\ recovery' = recovery
          /\ \A n \in Meetings \ {m} : Untouched(n)
      BY <1>5, <2>1, AtWork
         DEF AdvancePhase, UpdateDeleteClaimPhase, Store, HandlerTo, Untouched, TypeInv,
             Typed, Workers, GoodTable
    <2>3. /\ jobs'[m] = row /\ handler'[m] = worker
          /\ audio' = audio /\ index' = index /\ marker' = marker
      BY <1>5
         DEF AdvancePhase, UpdateDeleteClaimPhase, Store, HandlerTo, TypeInv, Typed,
             Workers, GoodTable
    <2>4. /\ claim.kind = "delete" /\ claim.phase = pc
          /\ claim.sourced = jobs[m].action.sourced
          /\ claim.status = jobs[m].action.status /\ claim.token = Token(m)
      BY <2>1, AtWork DEF DeleteClaims
    <2>5. row.status = "recording" /\ row.action = claim /\ row # Gone
      BY <2>1, AtWork DEF Rows, HasDeleteClaim, Gone
    <2>6. DoFits(m, jobs[m].action, audio[m], index[m], pc)
      BY <2>1 DEF IInv, MeetingInv, HandlerFits, DoPcs
    <2>7. /\ ClaimFits(m, jobs[m].action, audio[m], index[m], marker[m])
          /\ jobs[m].action \in DeleteClaims
      BY <2>1, AtWork
    <2>8. /\ ClaimFits(m, claim, audio[m], index[m], marker[m])
          /\ DoFits(m, claim, audio[m], index[m], NextPc[pc])
      <3>1. CASE pc = "quarantined"
        <4>1. CASE jobs[m].action.phase = "claimed" /\ audio[m] = {}
          <5>1. ~jobs[m].action.sourced /\ Source(m) = {}
            BY <2>7, <4>1 DEF ClaimFits
          <5>2. m \notin WithAudio /\ Taken(m) = {}
            BY <5>1 DEF Source, Taken
          <5> QED
            BY <3>1, <2>4, <2>7, <4>1, <5>1, <5>2 DEF ClaimFits, DoFits, NextPc
        <4>2. CASE jobs[m].action.phase = "quarantining" /\ audio[m] = {"quarantine"}
          <5>1. jobs[m].action.sourced /\ m \in WithAudio
            BY <2>7, <4>2 DEF ClaimFits, DeleteClaims
          <5> QED
            BY <3>1, <2>4, <2>7, <4>2, <5>1 DEF ClaimFits, DoFits, NextPc, Taken
        <4> QED
          BY <2>6, <3>1, <4>1, <4>2 DEF DoFits
      <3>2. CASE pc = "purging"
        BY <3>2, <2>4, <2>6, <2>7 DEF ClaimFits, DoFits, NextPc
      <3>3. CASE pc = "committing"
        BY <3>3, <2>4, <2>6, <2>7 DEF ClaimFits, DoFits, NextPc
      <3> QED
        BY <2>1, <3>1, <3>2, <3>3
    <2>9. MeetingFits(m, row, audio[m], index[m], marker[m])
      BY <2>4, <2>5, <2>8 DEF MeetingFits, HasDeleteClaim
    <2>10. worker.pc = NextPc[pc] /\ worker.token = Token(m)
      BY DEF Token, TypeInv, Typed, Workers
    <2>11. HandlerFits(m, worker, row, audio[m], index[m], marker[m])
      <3>1. worker.pc \notin UndoPcs
        BY <2>1, <2>10 DEF NextPc, UndoPcs
      <3>2. HasDeleteClaim(row) /\ row.action.token = worker.token
        BY <2>4, <2>5, <2>10 DEF HasDeleteClaim
      <3>3. DoFits(m, row.action, audio[m], index[m], worker.pc)
        BY <2>5, <2>8, <2>10
      <3> QED
        BY <3>1, <3>2, <3>3 DEF HandlerFits
    <2> QED
      BY <2>2, <2>3, <2>9, <2>11, LocalStep DEF Restored
  <1>10. CASE ReadClaim(m)
    <2> DEFINE claim == jobs[m].action
    <2> DEFINE undoing == Claimed(jobs[m], "delete", Token(m)) /\ claim.phase # "committing"
    <2>1. handler[m].pc = "read_claim" /\ UNCHANGED <<jobs, files, recovery>>
      BY <1>10 DEF ReadClaim, At
    <2>2. CASE undoing
      <3> DEFINE worker == [handler[m] EXCEPT !.pc = UndoStart(claim), !.claim = claim]
      <3>1. handler' = [handler EXCEPT ![m] = worker]
        BY <1>10, <2>2 DEF ReadClaim
      <3>2. /\ worker.pc = UndoStart(claim) /\ worker.claim = claim
            /\ worker.token = Token(m)
        BY DEF Token, TypeInv, Typed, Workers
      <3>3. UndoFits(m, jobs[m], audio[m], index[m], marker[m], claim, UndoStart(claim))
        BY <2>1, <2>2, AtWork, UndoStarts
      <3>4. UndoStart(claim) \in UndoPcs /\ UndoStart(claim) \notin DoPcs
        BY DEF UndoStart, AfterRestore, UndoPcs, DoPcs
      <3>5. HandlerFits(m, worker, jobs[m], audio[m], index[m], marker[m])
        BY <2>1, <3>2, <3>3, <3>4, AtWork DEF HandlerFits
      <3> QED
        BY <2>1, <3>1, <3>5, MoveOn
    <2>3. CASE ~undoing
      <3>1. handler' = [handler EXCEPT ![m] = Idle]
        BY <1>10, <2>3 DEF ReadClaim
      <3>2. HandlerFits(m, Idle, jobs[m], audio[m], index[m], marker[m])
        BY DEF HandlerFits, Idle
      <3> QED
        BY <2>1, <3>1, <3>2, MoveOn
    <2> QED
      BY <2>2, <2>3
  <1>11. CASE RollbackStep(m)
    <2> DEFINE claim == handler[m].claim
    <2>1. PICK to \in UndoPcs :
             UndoStep(m, claim, handler[m].pc, to) /\ HandlerTo(m, to)
      BY <1>11 DEF RollbackStep
    <2>2. handler[m].pc \in UndoPcs /\ handler[m].pc # "idle"
      BY <2>1 DEF UndoStep, RestoreFile, Reindex, UndoPcs
    <2>3. UndoFits(m, jobs[m], audio[m], index[m], marker[m], claim, handler[m].pc)
      BY <2>2 DEF IInv, MeetingInv, HandlerFits
    <2>4. ClaimFits(m, claim, audio[m], index[m], marker[m])
      BY <2>2, <2>3, AtWork DEF UndoFits
    <2>5. /\ UndoFits(m, jobs'[m], audio'[m], index'[m], marker'[m], claim, to)
          /\ ClaimFits(m, claim, audio'[m], index'[m], marker'[m])
          /\ jobs' = jobs
          /\ \A n \in Meetings \ {m} :
                audio'[n] = audio[n] /\ index'[n] = index[n] /\ marker'[n] = marker[n]
      BY <2>1, <2>3, <2>4, UndoGoesOn DEF TypeInv
    <2>6. /\ ClearOf(m) /\ recovery.pc # "start" /\ recovery' = recovery
          /\ \A n \in Meetings \ {m} : Untouched(n)
      BY <1>11, <2>1, <2>2, <2>5, AtWork
         DEF RollbackStep, HandlerTo, Untouched, TypeInv, Typed, Workers
    <2>7. /\ handler'[m].pc = to /\ handler'[m].claim = claim
          /\ handler'[m].token = Token(m)
      BY <2>1 DEF HandlerTo, Token, TypeInv, Typed, Workers
    <2>8. MeetingFits(m, jobs'[m], audio'[m], index'[m], marker'[m])
      BY <2>2, <2>3, <2>5, AtWork DEF MeetingFits, UndoFits, HasDeleteClaim
    <2>9. HandlerFits(m, handler'[m], jobs'[m], audio'[m], index'[m], marker'[m])
      BY <2>2, <2>5, <2>7, AtWork DEF HandlerFits, UndoPcs, DoPcs
    <2> QED
      BY <2>6, <2>8, <2>9, LocalStep DEF Restored
  <1>13. CASE RollbackFails(m)
    <2>1. handler[m].pc # "idle" /\ handler' = [handler EXCEPT ![m] = Idle]
      BY <1>13 DEF RollbackFails, UndoPcs
    <2>2. HandlerFits(m, Idle, jobs[m], audio[m], index[m], marker[m])
      BY DEF HandlerFits, Idle
    <2> QED
      BY <1>13, <2>1, <2>2, MoveOn DEF RollbackFails
  <1> QED
    BY <1>1, <1>2, <1>3, <1>4, <1>5, <1>6, <1>7, <1>8, <1>9, <1>10, <1>11, <1>12, <1>13
       DEF HandlerNext

------------------------------------------------------------------------------
(* The steps of recovery, which works on one meeting at a time; a handler may *)
(* be at work on another one.                                                *)

\* No handler works on recovery's meeting, which fits its row.
LEMMA AtRecovery ==
    ASSUME TypeInv, IInv, Recovering
    PROVE  /\ recovery.at \in Meetings
           /\ recovery.todo[recovery.at] = NoClaim
           /\ handler[recovery.at].pc = "idle"
           /\ recovery.pc \in UndoPcs \cup {"cleanup", "drop"} =>
                /\ HasDeleteClaim(jobs[recovery.at])
                /\ jobs[recovery.at] \in Rows /\ jobs[recovery.at] # Gone
                /\ jobs[recovery.at].action = recovery.claim
                /\ recovery.claim \in DeleteClaims
                /\ ClaimFits(recovery.at, recovery.claim, audio[recovery.at],
                             index[recovery.at], marker[recovery.at])
  <1> DEFINE m == recovery.at
  <1>1. m \in Meetings
    BY DEF TypeInv, Typed
  <1>2. recovery.todo[m] = NoClaim /\ handler[m].pc = "idle"
    BY <1>1 DEF IInv, RecoveryInv, MeetingInv, Due, Recovering
  <1>3. ASSUME recovery.pc \in UndoPcs \cup {"cleanup", "drop"}
        PROVE  HasDeleteClaim(jobs[m]) /\ jobs[m].action = recovery.claim
    BY <1>3 DEF IInv, RecoveryInv, UndoFits
  <1>4. ASSUME recovery.pc \in UndoPcs \cup {"cleanup", "drop"}
        PROVE  /\ jobs[m] \in Rows /\ jobs[m] # Gone /\ recovery.claim \in DeleteClaims
               /\ ClaimFits(m, recovery.claim, audio[m], index[m], marker[m])
    <2>1. jobs[m] \in Rows /\ jobs[m] # Gone /\ jobs[m].action \in DeleteClaims
      BY <1>1, <1>3, <1>4, ClaimOfRow DEF TypeInv
    <2> QED
      BY <1>1, <1>3, <1>4, <2>1 DEF IInv, MeetingInv, MeetingFits, HasDeleteClaim
  <1> QED
    BY <1>1, <1>2, <1>3, <1>4

\* Every step of startup recovery keeps the invariant.
LEMMA RecoverySafe ==
    ASSUME TypeInv, IInv, RecoveryNext
    PROVE  IInv'
  <1> USE DEF files
  <1>1. CASE TakeSnapshot
    <2>1. /\ UNCHANGED <<jobs, audio, index, marker, handler>>
          /\ recovery.pc = "start" /\ recovery'.pc = "pick"
          /\ \A n \in Meetings : recovery'.todo[n] =
                IF HasDeleteClaim(jobs[n]) THEN jobs[n].action ELSE NoClaim
      BY <1>1 DEF TakeSnapshot, TypeInv, Typed, Recoveries
    <2>2. ASSUME NEW n \in Meetings PROVE (MeetingInv(n) /\ Alone(n))'
      <3>1. HasDeleteClaim(jobs[n]) => recovery'.todo[n] # NoClaim
        BY <2>1, ClaimOfRow DEF TypeInv, DeleteClaims, NoClaim
      <3> QED
        BY <2>1, <3>1 DEF IInv, MeetingInv, Alone, Due, Recovering
    <2> QED
      BY <2>1, <2>2 DEF IInv, RecoveryInv, Recovering, UndoPcs
  <1>2. ASSUME NEW m \in Meetings, PickClaim(m)
        PROVE  IInv'
    <2> DEFINE claim == recovery.todo[m]
    <2>1. /\ UNCHANGED <<jobs, audio, index, marker, handler>>
          /\ recovery.pc = "pick" /\ claim # NoClaim
          /\ recovery'.pc = IF claim.phase = "committing" THEN "cleanup"
                            ELSE UndoStart(claim)
          /\ recovery'.at = m /\ recovery'.claim = claim
          /\ recovery'.clean = recovery.clean
          /\ \A n \in Meetings : recovery'.todo[n] =
                IF n = m THEN NoClaim ELSE recovery.todo[n]
      BY <1>2 DEF PickClaim, TypeInv, Typed, Recoveries
    <2>2. /\ recovery'.pc \in UndoPcs \cup {"cleanup"}
          /\ claim.phase = "committing" => recovery'.pc = "cleanup"
          /\ recovery'.pc = "cleanup" => claim.phase = "committing"
      BY <2>1 DEF UndoStart, AfterRestore, UndoPcs
    <2>3. HasDeleteClaim(jobs[m]) /\ jobs[m].action = claim
      BY <2>1 DEF IInv, MeetingInv
    <2>4. ClaimFits(m, claim, audio[m], index[m], marker[m])
      BY <2>3, ClaimOfRow DEF IInv, MeetingInv, MeetingFits, TypeInv, HasDeleteClaim
    <2>5. RecoveryInv'
      <3>1. CASE claim.phase = "committing"
        BY <2>1, <2>2, <2>3, <3>1 DEF RecoveryInv, UndoPcs
      <3>2. CASE claim.phase # "committing"
        <4>1. UndoFits(m, jobs[m], audio[m], index[m], marker[m], claim, UndoStart(claim))
          BY <2>3, <2>4, <3>2, UndoStarts
        <4> QED
          BY <2>1, <2>2, <3>2, <4>1 DEF RecoveryInv, UndoPcs
      <3> QED
        BY <3>1, <3>2
    <2>6. ASSUME NEW n \in Meetings PROVE (MeetingInv(n) /\ Alone(n))'
      BY <2>1, <2>2 DEF IInv, MeetingInv, Alone, Due, Recovering, UndoPcs
    <2> QED
      BY <2>5, <2>6 DEF IInv
  <1>3. CASE RecoverCaches
    <2>1. /\ UNCHANGED <<jobs, audio, index, marker, handler>>
          /\ recovery.pc = "cleanup" /\ recovery'.pc = "drop"
          /\ recovery'.at = recovery.at /\ recovery'.claim = recovery.claim
          /\ recovery'.clean = recovery.clean /\ recovery'.todo = recovery.todo
      BY <1>3 DEF RecoverCaches, RecoveryTo, TypeInv, Typed, Recoveries
    <2>2. ASSUME NEW n \in Meetings PROVE (MeetingInv(n) /\ Alone(n))'
      BY <2>1 DEF IInv, MeetingInv, Alone, Due, Recovering
    <2> QED
      BY <2>1, <2>2 DEF IInv, RecoveryInv, Recovering, UndoPcs
  <1> DEFINE m == recovery.at
  \* Recovery is done with its meeting and goes back to pick another.
  <1> DEFINE Ends ==
        /\ \A n \in Meetings \ {m} : Untouched(n)
        /\ handler' = handler
        /\ recovery'.pc = "pick" /\ recovery'.todo = recovery.todo
        /\ recovery'.clean = recovery.clean
        /\ MeetingFits(m, jobs'[m], audio'[m], index'[m], marker'[m])
        /\ ~HasDeleteClaim(jobs'[m])
  <1>4. ASSUME Recovering, Ends
        PROVE  IInv'
    <2>1. ASSUME NEW n \in Meetings PROVE (MeetingInv(n) /\ Alone(n))'
      <3>1. CASE n = m
        BY <1>4, <3>1, AtRecovery
           DEF IInv, MeetingInv, Alone, Due, Recovering, HandlerFits
      <3>2. CASE n # m
        BY <1>4, <2>1, <3>2 DEF IInv, MeetingInv, Alone, Due, Untouched, Recovering
      <3> QED
        BY <3>1, <3>2
    <2>2. RecoveryInv'
      BY <1>4 DEF RecoveryInv, Recovering, UndoPcs
    <2> QED
      BY <2>1, <2>2 DEF IInv
  <1>5. CASE RollForward
    <2>1. Recovering /\ recovery.pc = "drop" /\ m \in Meetings
      BY <1>5, AtRecovery DEF RollForward, Recovering
    <2>2. jobs' = [jobs EXCEPT ![m] = Gone] /\ UNCHANGED <<audio, index, marker, handler>>
      BY <1>5 DEF RollForward, DeleteClaimedJob, Store
    <2>3. jobs'[m] = Gone /\ \A n \in Meetings \ {m} : jobs'[n] = jobs[n]
      BY <2>1, <2>2 DEF TypeInv, GoodTable
    <2>4. /\ recovery'.pc = "pick" /\ recovery'.todo = recovery.todo
          /\ recovery'.clean = recovery.clean
      BY <1>5 DEF RollForward, RecoveryTo, TypeInv, Typed, Recoveries
    <2>5. recovery.claim.phase = "committing"
      BY <2>1 DEF IInv, RecoveryInv
    <2>6. MeetingFits(m, Gone, audio[m], index[m], marker[m])
      BY <2>1, <2>5, AtRecovery DEF MeetingFits, ClaimFits, Gone
    <2> QED
      BY <1>4, <2>1, <2>2, <2>3, <2>4, <2>6 DEF Untouched, HasDeleteClaim, Gone
  <1>6. CASE RecoveryReleases
    <2> DEFINE claim == jobs[m].action
    <2> DEFINE row == [jobs[m] EXCEPT !.status = claim.status, !.action = claim.action,
                                      !.error = claim.error]
    <2>1. Recovering /\ recovery.pc = "release" /\ m \in Meetings
      BY <1>6, AtRecovery DEF RecoveryReleases, Recovering
    <2>2. jobs' = [jobs EXCEPT ![m] = row] /\ UNCHANGED <<audio, index, marker, handler>>
      BY <1>6 DEF RecoveryReleases, RestoreDeleteClaim, Store
    <2>3. jobs'[m] = row /\ \A n \in Meetings \ {m} : jobs'[n] = jobs[n]
      BY <2>1, <2>2 DEF TypeInv, GoodTable
    <2>4. /\ recovery'.pc = "pick" /\ recovery'.todo = recovery.todo
          /\ recovery'.clean = recovery.clean
      BY <1>6 DEF RecoveryReleases, RecoveryTo, TypeInv, Typed, Recoveries
    <2>5. row.status = claim.status /\ row # Gone /\ claim.status # "recording"
      BY <2>1, AtRecovery DEF Rows, DeleteClaims, Gone, UndoPcs
    <2>6. UndoFits(m, jobs[m], audio[m], index[m], marker[m], claim, "release")
      BY <2>1 DEF IInv, RecoveryInv, UndoPcs, UndoFits
    <2>7. MeetingFits(m, row, audio[m], index[m], marker[m]) /\ ~HasDeleteClaim(row)
      BY <2>5, <2>6 DEF MeetingFits, UndoFits, HasDeleteClaim
    <2> QED
      BY <1>4, <2>1, <2>2, <2>3, <2>4, <2>7 DEF Untouched
  <1>7. CASE RecoveryStep
    <2> DEFINE claim == recovery.claim
    <2>1. Recovering /\ recovery.pc \in UndoPcs /\ m \in Meetings
      BY <1>7, AtRecovery DEF RecoveryStep, Recovering, UndoPcs
    <2>2. PICK to \in UndoPcs : UndoStep(m, claim, recovery.pc, to) /\ RecoveryTo(to)
      BY <1>7 DEF RecoveryStep
    <2>3. UndoFits(m, jobs[m], audio[m], index[m], marker[m], claim, recovery.pc)
      BY <2>1 DEF IInv, RecoveryInv
    <2>4. /\ UndoFits(m, jobs'[m], audio'[m], index'[m], marker'[m], claim, to)
          /\ ClaimFits(m, claim, audio'[m], index'[m], marker'[m])
          /\ jobs' = jobs
          /\ \A n \in Meetings \ {m} :
                audio'[n] = audio[n] /\ index'[n] = index[n] /\ marker'[n] = marker[n]
      BY <2>1, <2>2, <2>3, AtRecovery, UndoGoesOn DEF TypeInv
    <2>5. /\ recovery'.pc = to /\ recovery'.at = m /\ recovery'.claim = claim
          /\ recovery'.clean = recovery.clean /\ recovery'.todo = recovery.todo
          /\ handler' = handler
      BY <1>7, <2>2 DEF RecoveryStep, RecoveryTo, TypeInv, Typed, Recoveries
    <2>6. MeetingFits(m, jobs[m], audio'[m], index'[m], marker'[m])
      BY <2>1, <2>4, AtRecovery DEF MeetingFits, HasDeleteClaim
    <2>7. ASSUME NEW n \in Meetings PROVE (MeetingInv(n) /\ Alone(n))'
      <3>1. CASE n = m
        BY <2>1, <2>4, <2>5, <2>6, <3>1, AtRecovery
           DEF IInv, MeetingInv, Alone, Due, Recovering, HandlerFits, UndoPcs
      <3>2. CASE n # m
        BY <2>1, <2>4, <2>5, <2>7, <3>2
           DEF IInv, MeetingInv, Alone, Due, Recovering, UndoPcs
      <3> QED
        BY <3>1, <3>2
    <2>8. RecoveryInv'
      BY <2>1, <2>4, <2>5, AtRecovery DEF RecoveryInv, UndoPcs
    <2> QED
      BY <2>7, <2>8 DEF IInv
  <1>8. CASE RecoveryFails \/ FinishRecovery
    <2>1. /\ UNCHANGED <<jobs, audio, index, marker, handler>>
          /\ recovery.pc # "done" /\ recovery'.pc \in {"pick", "done"}
          /\ recovery'.todo = recovery.todo
          /\ recovery'.pc = "pick" => ~recovery'.clean
      BY <1>8 DEF RecoveryFails, FinishRecovery, RecoveryTo, TypeInv, Typed, Recoveries
    <2>2. ASSUME NEW n \in Meetings PROVE (MeetingInv(n) /\ Alone(n))'
      BY <2>1 DEF IInv, MeetingInv, Alone, Due, Recovering
    <2> QED
      BY <2>1, <2>2 DEF IInv, RecoveryInv, Recovering, UndoPcs
  <1> QED
    BY <1>1, <1>2, <1>3, <1>5, <1>6, <1>7, <1>8 DEF RecoveryNext

------------------------------------------------------------------------------
(* The theorems.                                                             *)

\* The initial states satisfy the invariant.
LEMMA InitSafe ==
    ASSUME DInit
    PROVE  IInv
  <1>1. recovery.pc = "done"
    BY DEF DInit, DLocals, NotRecovered
  <1>2. ASSUME NEW m \in Meetings PROVE MeetingInv(m) /\ Alone(m)
    <2>1. jobs[m].status \in {"recorded", "completed", "failed"} /\ jobs[m] # Gone
      BY DEF DInit, DRows, Row, Gone
    <2>2. /\ audio[m] = Source(m) /\ handler[m].pc = "idle" /\ ~marker[m]
          /\ jobs[m].status = "completed" => index[m] = Stores
      BY DEF DInit, DLocals, Source, Idle
    <2> QED
      BY <1>1, <2>1, <2>2 DEF MeetingInv, Alone, MeetingFits, HandlerFits, Searchable
  <1> QED
    BY <1>1, <1>2 DEF IInv, RecoveryInv, Recovering, UndoPcs

\* Recovery has nothing to do with a meeting under no claim.
LEMMA Unclaimed ==
    ASSUME TypeInv, IInv, NEW m \in Meetings, jobs[m].status # "recording"
    PROVE  ~Due(m)
  <1>1. CASE recovery.pc # "done" /\ recovery.todo[m] # NoClaim
    BY <1>1 DEF IInv, MeetingInv, HasDeleteClaim
  <1>2. CASE Recovering /\ recovery.at = m
    <2>1. recovery.pc \in UndoPcs \cup {"cleanup", "drop"}
      BY <1>2 DEF TypeInv, Typed, Recoveries, RecoveryPcs, Recovering
    <2> QED
      BY <1>2, <2>1, AtRecovery DEF HasDeleteClaim
  <1> QED
    BY <1>1, <1>2 DEF Due

\* A DELETE request is accepted only when recovery has read its snapshot.
SnapshotFirst == \A m \in Meetings : ClaimMeeting(m) => recovery.pc # "start"

\* Then every step keeps the invariant.
LEMMA StepSafe ==
    ASSUME TypeInv, IInv, [DNext]_dvars, [SnapshotFirst]_dvars
    PROVE  IInv'
  <1>1. ASSUME NEW m \in Meetings, ClaimMeeting(m)
        PROVE  IInv'
    <2>1. PICK token \in Tokens :
             /\ ClaimForDeletion(m, token)
             /\ handler' = [handler EXCEPT ![m] =
                              [pc |-> "inspect", token |-> token, claim |-> NoClaim]]
      BY <1>1 DEF ClaimMeeting
    <2> DEFINE claim == [kind |-> "delete", status |-> jobs[m].status,
                         action |-> jobs[m].action, error |-> jobs[m].error,
                         token |-> token, phase |-> "claimed", sourced |-> FALSE]
    <2> DEFINE row == [jobs[m] EXCEPT !.status = "recording", !.action = claim,
                                      !.error = "none"]
    <2>2. /\ UNCHANGED <<audio, index, marker, recovery>>
          /\ ServeBeforeRecovery \/ recovery.pc = "done"
          /\ jobs[m].status \in {"recorded", "completed", "failed"}
          /\ jobs' = [jobs EXCEPT ![m] = row]
      BY <1>1, <2>1 DEF ClaimMeeting, Serving, ClaimForDeletion, Store, files
    <2>3. jobs[m] \in Rows /\ jobs[m] # Gone
      BY <2>2, LiveRow DEF TypeInv, Statuses, GoodRow
    <2>4. row.status = "recording" /\ row.action = claim /\ row # Gone
      BY <2>3 DEF Rows, Gone
    <2>5. /\ audio[m] = Source(m)
          /\ jobs[m].status = "completed" => Searchable(index[m], marker[m])
      BY <2>2, <2>3 DEF IInv, MeetingInv, MeetingFits
    <2>6. ClaimFits(m, claim, audio[m], index[m], marker[m])
      BY <2>5 DEF ClaimFits
    <2>7. /\ jobs'[m] = row /\ handler'[m].pc = "inspect" /\ handler'[m].token = token
          /\ \A n \in Meetings \ {m} : Untouched(n)
      BY <2>1, <2>2 DEF Untouched, TypeInv, Typed, Workers, GoodTable
    <2>8. MeetingFits(m, row, audio[m], index[m], marker[m])
      BY <2>4, <2>6 DEF MeetingFits, HasDeleteClaim
    <2>9. HandlerFits(m, handler'[m], row, audio[m], index[m], marker[m])
      BY <2>4, <2>7 DEF HandlerFits, HasDeleteClaim, DoFits, UndoPcs
    <2>10. recovery.pc # "start"
      <3>1. jobs' # jobs
        BY <2>2, <2>3, <2>4, <2>7
      <3> QED
        BY <1>1, <3>1 DEF SnapshotFirst, dvars
    <2>11. ClearOf(m)
      BY <2>2, Unclaimed DEF ClearOf
    <2> QED
      BY <2>2, <2>7, <2>8, <2>9, <2>10, <2>11, LocalStep DEF Restored
  <1>2. ASSUME NEW m \in Meetings, QueueMeeting(m)
        PROVE  IInv'
    <2>1. PICK selection \in Selections : QueueJob(m, DefaultIntent, selection)
      BY <1>2 DEF QueueMeeting
    <2> DEFINE row == Requeued(jobs[m], Plain(DefaultIntent), selection)
    <2>2. /\ UNCHANGED <<audio, index, marker, handler, recovery>>
          /\ ServeBeforeRecovery \/ recovery.pc = "done"
          /\ jobs[m].status \in {"recorded", "failed"}
          /\ jobs' = [jobs EXCEPT ![m] = row]
      BY <1>2, <2>1 DEF QueueMeeting, Serving, QueueJob, Store, files
    <2>3. jobs[m] \in Rows /\ jobs[m] # Gone
      BY <2>2, LiveRow DEF TypeInv, Statuses, GoodRow
    <2>4. row.status = "queued" /\ row # Gone
      BY <2>3 DEF Requeued, Rows, Gone
    <2>5. audio[m] = Source(m) /\ handler[m].pc = "idle"
      BY <2>2, <2>3 DEF IInv, MeetingInv, MeetingFits, HandlerFits, HasDeleteClaim
    <2>6. jobs'[m] = row /\ \A n \in Meetings \ {m} : Untouched(n)
      BY <2>2 DEF Untouched, TypeInv, GoodTable
    <2>7. MeetingFits(m, row, audio[m], index[m], marker[m])
      BY <2>4, <2>5 DEF MeetingFits
    <2>8. HandlerFits(m, handler[m], row, audio[m], index[m], marker[m])
      BY <2>5 DEF HandlerFits
    <2>9. ClearOf(m)
      BY <2>2, Unclaimed DEF ClearOf
    <2> QED
      BY <2>2, <2>6, <2>7, <2>8, <2>9, LocalStep DEF Restored
  <1>3. CASE Crash
    <2>1. /\ UNCHANGED <<jobs, audio, index, marker>> /\ recovery'.pc = "start"
          /\ \A n \in Meetings :
                handler'[n].pc = "idle" /\ recovery'.todo[n] = NoClaim
      BY <1>3 DEF Crash, files, Idle, NotRecovered
    <2>2. ASSUME NEW n \in Meetings PROVE (MeetingInv(n) /\ Alone(n))'
      BY <2>1 DEF IInv, MeetingInv, Alone, Due, Recovering, HandlerFits
    <2> QED
      BY <2>1, <2>2 DEF IInv, RecoveryInv, Recovering, UndoPcs
  <1>4. CASE UNCHANGED dvars
    <2>1. UNCHANGED <<jobs, audio, index, marker, handler, recovery>>
      BY <1>4 DEF dvars
    <2> QED
      BY <2>1 DEF IInv, MeetingInv, Alone, Due, RecoveryInv, Recovering
  <1> QED
    BY <1>1, <1>2, <1>3, <1>4, HandlerSafe, RecoverySafe DEF DNext

\* The files, the stores and the rows agree as the claims say, in every state.
THEOREM DeletionInvariant ==
    DSpec /\ [][SnapshotFirst]_dvars => [](TypeInv /\ IInv)
  <1>1. DInit => TypeInv /\ IInv
    BY TypeStep, InitSafe
  <1>2. TypeInv /\ IInv /\ [DNext]_dvars /\ [SnapshotFirst]_dvars => (TypeInv /\ IInv)'
    BY TypeStep, StepSafe
  <1> QED
    BY <1>1, <1>2, PTL DEF DSpec

\* That is so when requests wait for recovery to be done.
THEOREM WaitingIsEnough ==
    ASSUME ~ServeBeforeRecovery
    PROVE  DSpec => [][SnapshotFirst]_dvars
  <1>1. [DNext]_dvars => [SnapshotFirst]_dvars
    BY DEF SnapshotFirst, ClaimMeeting, Serving
  <1> QED
    BY <1>1, PTL DEF DSpec

\* What the invariant says of a meeting with a recording.
LEMMA RecordingFits ==
    ASSUME IInv, NEW m \in WithAudio
    PROVE  /\ Live(m) /\ jobs[m].status # "recording" => audio[m] = {"input"}
           /\ audio[m] # {}
  <1>1. MeetingFits(m, jobs[m], audio[m], index[m], marker[m])
    BY AudioAssumption DEF IInv, MeetingInv
  <1>2. Source(m) = {"input"} /\ Taken(m) = {"quarantine"}
    BY DEF Source, Taken
  <1> QED
    BY <1>1, <1>2 DEF MeetingFits, ClaimFits, Live

\* A usable meeting has its recording in the input folder and nowhere else.
THEOREM RecordingInPlace ==
    DSpec /\ [][SnapshotFirst]_dvars => []SourceInPlace
  <1>1. IInv => SourceInPlace
    BY RecordingFits DEF SourceInPlace
  <1> QED
    BY <1>1, DeletionInvariant, PTL

\* No interleaving of moves, rollbacks and crashes loses the recording.
THEOREM RecordingKept ==
    DSpec /\ [][SnapshotFirst]_dvars => []AudioNeverLost
  <1>1. IInv => AudioNeverLost
    BY RecordingFits DEF AudioNeverLost
  <1> QED
    BY <1>1, DeletionInvariant, PTL

\* A deletion that is through left neither chunks nor a recording that the
\* watcher could register again.
THEOREM DeletionIsWhole ==
    DSpec /\ [][SnapshotFirst]_dvars => []DeletionComplete
  <1>1. IInv => DeletionComplete
    BY DEF IInv, MeetingInv, MeetingFits, DeletionComplete, Live, Taken
  <1> QED
    BY <1>1, DeletionInvariant, PTL

\* A completed meeting is searchable, whatever deletion was undone on it.
THEOREM CompletedStaysSearchable ==
    DSpec /\ [][SnapshotFirst]_dvars => []CompletedIsSearchable
  <1>1. IInv => CompletedIsSearchable
    BY DEF IInv, MeetingInv, MeetingFits, Searchable, CompletedIsSearchable, Live
  <1> QED
    BY <1>1, DeletionInvariant, PTL

\* A recovery in which no operation failed leaves no delete claim behind.
THEOREM RecoveryIsComplete ==
    ASSUME ~ServeBeforeRecovery
    PROVE  DSpec => []RecoveryResolves
  <1>1. IInv => RecoveryResolves
    BY DEF IInv, Alone, Due, Recovering, RecoveryResolves
  <1> QED
    BY <1>1, DeletionInvariant, WaitingIsEnough, PTL

\* Past the point of no return the row of a deleted meeting only disappears.
THEOREM CommitIsFinal ==
    DSpec /\ [][SnapshotFirst]_dvars => CommitRollsForward
  <1>1. ASSUME TypeInv, IInv, [DNext]_dvars, NEW m \in Meetings
        PROVE  CommitStep(m)
    <2> SUFFICES ASSUME Live(m), HasDeleteClaim(jobs[m]),
                        jobs[m].action.phase = "committing", jobs'[m] # jobs[m]
                 PROVE  jobs'[m] = Gone
      BY DEF CommitStep
    <2>1. ASSUME NEW n \in Meetings, ClaimMeeting(n) \/ QueueMeeting(n)
          PROVE  FALSE
      BY <1>1, <2>1
         DEF ClaimMeeting, QueueMeeting, ClaimForDeletion, QueueJob, Store,
             HasDeleteClaim, TypeInv, GoodTable
    <2>2. ASSUME NEW n \in Meetings, HandlerNext(n)
          PROVE  jobs'[m] = Gone
      <3>1. CASE PrepareQuarantine(n)
        BY <1>1, <3>1
           DEF PrepareQuarantine, PrepareDeleteQuarantine, CanPrepareDeleteQuarantine,
               Store, TypeInv, GoodTable
      <3>2. CASE AdvancePhase(n)
        BY <1>1, <3>2
           DEF AdvancePhase, NextPc, UpdateDeleteClaimPhase, CanUpdateDeleteClaimPhase,
               DeletePhaseSources, Store, TypeInv, GoodTable
      <3>3. CASE DropRow(n)
        BY <1>1, <3>3 DEF DropRow, DeleteClaimedJob, Store, TypeInv, GoodTable
      <3>4. CASE ReleaseClaim(n)
        <4>1. jobs[n].action.phase # "committing"
          BY <1>1, <2>2, <3>4
             DEF ReleaseClaim, At, IInv, MeetingInv, HandlerFits, UndoFits, UndoPcs
        <4> QED
          BY <1>1, <3>4, <4>1
             DEF ReleaseClaim, RestoreDeleteClaim, Store, TypeInv, GoodTable
      <3>5. CASE RollbackStep(n)
        BY <3>5 DEF RollbackStep, UndoStep, RestoreFile, Reindex
      <3> QED
        BY <2>2, <3>1, <3>2, <3>3, <3>4, <3>5
           DEF HandlerNext, InspectSource, LinkToQuarantine, UnlinkSource, PurgeIndex,
               CleanupCaches, DeletionFails, ReadClaim, RollbackFails
    <2>3. CASE RecoveryNext
      <3>1. CASE RollForward
        BY <1>1, <3>1 DEF RollForward, DeleteClaimedJob, Store, TypeInv, GoodTable
      <3>2. CASE RecoveryReleases
        <4>1. jobs[recovery.at].action.phase # "committing"
          BY <1>1, <3>2 DEF RecoveryReleases, IInv, RecoveryInv, UndoFits, UndoPcs
        <4> QED
          BY <1>1, <3>2, <4>1
             DEF RecoveryReleases, RestoreDeleteClaim, Store, TypeInv, GoodTable
      <3>3. CASE RecoveryStep
        BY <3>3 DEF RecoveryStep, UndoStep, RestoreFile, Reindex
      <3> QED
        BY <2>3, <3>1, <3>2, <3>3
           DEF RecoveryNext, TakeSnapshot, PickClaim, RecoverCaches, RecoveryFails,
               FinishRecovery
    <2> QED
      BY <1>1, <2>1, <2>2, <2>3 DEF DNext, Crash, dvars
  <1>2. TypeInv /\ IInv /\ [DNext]_dvars => [\A m \in Meetings : CommitStep(m)]_dvars
    BY <1>1
  <1> QED
    BY <1>2, DeletionInvariant, PTL DEF DSpec, CommitRollsForward

------------------------------------------------------------------------------
(* The inductive invariant. *)

RedoPcs ==
    {"idle", "mark", "stage", "purge", "commit", "clean", "undo", "marker", "restore"}

RedoTyped ==
    /\ GoodTable
    /\ place \in [Meetings -> [RedoFiles -> {"original", "staged", "none"}]]
    /\ redoPc \in [Meetings -> RedoPcs]
    /\ undone \in [Meetings -> SUBSET RedoFiles]
    /\ starting \in [Meetings -> BOOLEAN]
    /\ before \in [Meetings -> SUBSET RedoFiles]

\* A request, a rollback and a recovery that is due work under the claim, and
\* the recovery has not begun while it is due.
UnderClaim(m) ==
    /\ redoPc[m] # "idle" => Redoing(m)
    /\ starting[m] => Redoing(m) /\ redoPc[m] = "idle"

\* Until the commit is marked no file the claim found is lost; from then on
\* there is no way back to the old results.
NothingLost(m) ==
    Redoing(m) /\ RedoPhase(m) # "committing" =>
        \A f \in before[m] : place[m][f] \in {"original", "staged"}

CommitHolds(m) ==
    Redoing(m) /\ RedoPhase(m) = "committing" =>
        RedoAt(m, "original") = {} /\ redoPc[m] \in {"clean", "idle"}

\* What the steps behind the request and behind the rollback have achieved.
StepsDone(m) ==
    /\ redoPc[m] \in {"purge", "commit", "clean"} => RedoAt(m, "original") = {}
    /\ redoPc[m] = "clean" => RedoPhase(m) = "committing"
    /\ redoPc[m] \in {"marker", "restore"} => RedoAt(m, "staged") = {}
    /\ redoPc[m] = "restore" /\ RedoPhase(m) = "purging" =>
          place[m][RedoMarker] = "original"

RedoSound(m) ==
    UnderClaim(m) /\ NothingLost(m) /\ CommitHolds(m) /\ StepsDone(m)

RedoInv == RedoTyped /\ \A m \in Meetings : RedoSound(m)

\* A row under a re-transcription claim is recording, and no other row is.
LEMMA RedoingRow ==
    ASSUME GoodTable, NEW m \in Meetings
    PROVE  /\ Redoing(m) => /\ jobs[m] \in Rows /\ jobs[m].status = "recording"
                            /\ jobs[m].action \in RetranscribeClaims
                            /\ RedoPhase(m) \in RetranscribePhases
                            /\ RedoToken(m) \in Tokens
           /\ jobs[m].status \in {"completed", "failed", "queued"} => ~Redoing(m)
  <1>1. jobs[m] # Gone => jobs[m] \in Rows /\ Coherent(jobs[m])
    BY DEF GoodTable
  <1>2. ASSUME Redoing(m)
        PROVE  jobs[m].action \in RetranscribeClaims /\ jobs[m].action \in Claims
    BY <1>1, <1>2, KindOfAction DEF Redoing, Rows
  <1> QED
    BY <1>1, <1>2 DEF Redoing, Coherent, RetranscribeClaims, RedoPhase, RedoToken

------------------------------------------------------------------------------
(* What a step on one meeting leaves alone. *)

Elsewhere(m) ==
    \A n \in Meetings \ {m} :
        /\ jobs'[n] = jobs[n] /\ place'[n] = place[n] /\ redoPc'[n] = redoPc[n]
        /\ starting'[n] = starting[n] /\ before'[n] = before[n]

\* A meeting no step is about stays sound, and its claim does not end.
LEMMA OthersSound ==
    ASSUME RedoInv, NEW n \in Meetings,
           jobs'[n] = jobs[n], place'[n] = place[n], redoPc'[n] = redoPc[n],
           starting'[n] = starting[n], before'[n] = before[n]
    PROVE  RedoSound(n)' /\ RedoEnds(n)
  <1>1. RedoSound(n)
    BY DEF RedoInv
  <1>2. RedoSound(n)'
    BY <1>1 DEF RedoSound, UnderClaim, NothingLost, CommitHolds, StepsDone, RedoAt, Redoing,
                RedoPhase
  <1>3. RedoEnds(n)
    BY RedoingRow DEF RedoEnds, RedoInv, RedoTyped
  <1> QED
    BY <1>2, <1>3

\* What a step on a meeting has to show.
Keeps(m) == RedoTyped' /\ RedoSound(m)' /\ RedoEnds(m) /\ Elsewhere(m)

\* A step that leaves the row alone ends no claim.
LEMMA SameRow ==
    ASSUME RedoInv, NEW m \in Meetings, jobs' = jobs
    PROVE  /\ GoodTable' /\ RedoEnds(m)
           /\ Redoing(m)' = Redoing(m) /\ RedoPhase(m)' = RedoPhase(m)
  BY RedoingRow DEF RedoInv, RedoTyped, GoodTable, RedoEnds, Redoing, RedoPhase

\* A step of the pc, from a state whose parts are typed.
LEMMA PcGoes ==
    ASSUME RedoInv, NEW m \in Meetings, NEW pc \in RedoPcs, RedoGo(m, pc)
    PROVE  /\ redoPc' \in [Meetings -> RedoPcs] /\ redoPc'[m] = pc
           /\ \A n \in Meetings \ {m} : redoPc'[n] = redoPc[n]
  BY DEF RedoInv, RedoTyped, RedoGo

\* One file of one meeting moves.
LEMMA FileMoves ==
    ASSUME RedoInv, NEW m \in Meetings, NEW f \in RedoFiles,
           NEW to \in {"original", "staged", "none"}, MoveRedo(m, f, to)
    PROVE  /\ place' \in [Meetings -> [RedoFiles -> {"original", "staged", "none"}]]
           /\ place'[m][f] = to
           /\ \A g \in RedoFiles \ {f} : place'[m][g] = place[m][g]
           /\ \A n \in Meetings \ {m} : place'[n] = place[n]
  <1>1. place \in [Meetings -> [RedoFiles -> {"original", "staged", "none"}]]
    BY DEF RedoInv, RedoTyped
  <1>2. place' = [place EXCEPT ![m] = [place[m] EXCEPT ![f] = to]]
    BY <1>1 DEF MoveRedo
  <1>3. place[m] \in [RedoFiles -> {"original", "staged", "none"}]
    BY <1>1
  <1>4. place'[m] = [place[m] EXCEPT ![f] = to]
    BY <1>1, <1>2
  <1>5. \A n \in Meetings \ {m} : place'[n] = place[n]
    BY <1>1, <1>2
  <1>6. place' \in [Meetings -> [RedoFiles -> {"original", "staged", "none"}]]
    BY <1>1, <1>2, <1>3
  <1> QED
    BY <1>3, <1>4, <1>5, <1>6

------------------------------------------------------------------------------
(* The request. *)

\* claim_for_retranscribe remembers the files the meeting has.
LEMMA ClaimRedoKeeps ==
    ASSUME RedoInv, NEW m \in Meetings, ClaimRedo(m)
    PROVE  Keeps(m)
  <1>1. PICK t \in Tokens, s \in Selections : ClaimForRetranscribe(m, t, s)
    BY DEF ClaimRedo
  <1>2. GoodTable'
    BY <1>1, ClaimRetranscribeGood DEF RedoInv, RedoTyped
  <1>3. ~Redoing(m) /\ jobs'[m].action.kind = "retranscribe"
        /\ jobs'[m].action.phase = "claimed" /\ jobs'[m] # Gone
        /\ \A n \in Meetings \ {m} : jobs'[n] = jobs[n]
    <2>1. jobs[m] \in Rows /\ ~Redoing(m)
      BY <1>1, LiveRow, RedoingRow
         DEF RedoInv, RedoTyped, ClaimForRetranscribe, Statuses, GoodRow
    <2> QED
      BY <1>1, <2>1
         DEF RedoInv, RedoTyped, GoodTable, ClaimForRetranscribe, Store, Rows, Gone
  <1>4. redoPc' \in [Meetings -> RedoPcs] /\ redoPc'[m] = "mark"
        /\ \A n \in Meetings \ {m} : redoPc'[n] = redoPc[n]
    BY PcGoes DEF ClaimRedo, RedoPcs
  <1>5. before' \in [Meetings -> SUBSET RedoFiles] /\ before'[m] = RedoAt(m, "original")
        /\ \A n \in Meetings \ {m} : before'[n] = before[n]
    BY DEF ClaimRedo, RedoInv, RedoTyped, RedoAt
  <1>6. place' = place /\ undone' = undone /\ starting' = starting
    BY DEF ClaimRedo, redoFiles
  <1>7. ~starting[m]
    BY <1>3 DEF RedoInv, RedoSound, UnderClaim
  <1>8. RedoTyped' /\ Elsewhere(m)
    BY <1>2, <1>3, <1>4, <1>5, <1>6 DEF RedoInv, RedoTyped, Elsewhere
  <1>9. RedoSound(m)'
    BY <1>3, <1>4, <1>5, <1>6, <1>7
       DEF RedoSound, UnderClaim, NothingLost, CommitHolds, StepsDone, RedoAt, Redoing,
           RedoPhase
  <1> QED
    BY <1>3, <1>8, <1>9 DEF Keeps, RedoEnds

\* A phase is written for a claim that has the one before it.
LEMMA PhaseGoes ==
    ASSUME RedoInv, NEW m \in Meetings, NEW phase \in DOMAIN RetranscribePhaseSource,
           UpdateRetranscribeClaimPhase(m, RedoToken(m), phase)
    PROVE  /\ GoodTable' /\ RedoEnds(m) /\ Redoing(m) /\ Redoing(m)'
           /\ RedoPhase(m) = RetranscribePhaseSource[phase] /\ RedoPhase(m)' = phase
           /\ \A n \in Meetings \ {m} : jobs'[n] = jobs[n]
  <1>1. Claimed(jobs[m], "retranscribe", RedoToken(m))
    BY DEF UpdateRetranscribeClaimPhase
  <1>2. Redoing(m) /\ jobs[m] \in Rows /\ jobs[m].status = "recording"
        /\ jobs[m].action \in RetranscribeClaims /\ RedoToken(m) \in Tokens
    BY <1>1, ClaimedRow, RedoingRow DEF Redoing, RedoInv, RedoTyped, Claimed, Gone
  <1>3. GoodTable'
    BY <1>2, UpdateRetranscribePhaseGood DEF RedoInv, RedoTyped
  <1>4. jobs' = [jobs EXCEPT ![m] = [jobs[m] EXCEPT !.action.phase = phase]]
        /\ RedoPhase(m) = RetranscribePhaseSource[phase]
    BY DEF UpdateRetranscribeClaimPhase, Store, RedoPhase
  <1>5. jobs'[m] = [jobs[m] EXCEPT !.action.phase = phase]
        /\ \A n \in Meetings \ {m} : jobs'[n] = jobs[n]
    BY <1>4 DEF RedoInv, RedoTyped, GoodTable
  <1>6. jobs'[m].status = "recording" /\ jobs'[m].action.kind = "retranscribe"
        /\ jobs'[m].action.phase = phase
    BY <1>2, <1>5 DEF Rows, RetranscribeClaims
  <1> QED
    BY <1>2, <1>3, <1>4, <1>5, <1>6 DEF Redoing, RedoEnds, RedoPhase, Gone

\* Staging, purging and committing are durable before the step they announce.
LEMMA MarkKeeps ==
    ASSUME RedoInv, NEW m \in Meetings,
           MarkStaging(m) \/ MarkPurging(m) \/ MarkCommitting(m)
    PROVE  Keeps(m)
  <1>1. PICK phase \in DOMAIN RetranscribePhaseSource, pc \in {"stage", "purge", "clean"} :
           /\ UpdateRetranscribeClaimPhase(m, RedoToken(m), phase) /\ RedoGo(m, pc)
           /\ redoPc[m] \in {"mark", "stage", "commit"}
           /\ pc # "stage" => RedoAt(m, "original") = {}
           /\ pc = "clean" <=> phase = "committing"
           /\ UNCHANGED <<place, undone, starting, before>>
    <2>1. CASE MarkStaging(m)
      <3>1. "staging" \in DOMAIN RetranscribePhaseSource
        BY DEF RetranscribePhaseSource
      <3> QED
        BY <2>1, <3>1 DEF MarkStaging, redoFiles
    <2>2. CASE MarkPurging(m)
      <3>1. "purging" \in DOMAIN RetranscribePhaseSource
        BY DEF RetranscribePhaseSource
      <3> QED
        BY <2>2, <3>1 DEF MarkPurging, redoFiles
    <2>3. CASE MarkCommitting(m)
      <3>1. "committing" \in DOMAIN RetranscribePhaseSource
        BY DEF RetranscribePhaseSource
      <3>2. RedoAt(m, "original") = {}
        BY <2>3 DEF MarkCommitting, RedoInv, RedoSound, StepsDone
      <3> QED
        BY <2>3, <3>1, <3>2 DEF MarkCommitting, redoFiles
    <2> QED
      BY <2>1, <2>2, <2>3
  <1>2. /\ GoodTable' /\ RedoEnds(m) /\ Redoing(m) /\ Redoing(m)'
        /\ RedoPhase(m) = RetranscribePhaseSource[phase] /\ RedoPhase(m)' = phase
        /\ \A n \in Meetings \ {m} : jobs'[n] = jobs[n]
    BY <1>1, PhaseGoes
  <1>3. redoPc' \in [Meetings -> RedoPcs] /\ redoPc'[m] = pc
        /\ \A n \in Meetings \ {m} : redoPc'[n] = redoPc[n]
    BY <1>1, PcGoes DEF RedoPcs
  <1>4. RedoTyped' /\ Elsewhere(m)
    BY <1>1, <1>2, <1>3 DEF RedoInv, RedoTyped, Elsewhere
  <1>5. RedoSound(m) /\ ~starting[m] /\ RedoPhase(m) # "committing"
    BY <1>1, <1>2 DEF RedoInv, RedoSound, UnderClaim, RetranscribePhaseSource
  <1>6. UnderClaim(m)' /\ NothingLost(m)'
    BY <1>1, <1>2, <1>3, <1>5 DEF RedoSound, UnderClaim, NothingLost
  <1>7. CommitHolds(m)' /\ StepsDone(m)'
    BY <1>1, <1>2, <1>3 DEF CommitHolds, StepsDone, RedoAt
  <1> QED
    BY <1>2, <1>4, <1>6, <1>7 DEF Keeps, RedoSound

\* Staging moves a file that is there, cleaning drops one of a commit, and a
\* rollback moves one back.
LEMMA FileStepKeeps ==
    ASSUME RedoInv, NEW m \in Meetings, StageFile(m) \/ CleanFile(m) \/ UndoFile(m)
    PROVE  Keeps(m)
  <1>1. PICK f \in RedoFiles, to \in {"original", "staged", "none"} :
           /\ MoveRedo(m, f, to)
           /\ \/ redoPc[m] = "stage" /\ to = "staged"
              \/ redoPc[m] = "clean" /\ to = "none"
              \/ redoPc[m] = "undo" /\ to = "original"
    BY DEF StageFile, CleanFile, UndoFile, RedoAt
  <1>2. /\ place' \in [Meetings -> [RedoFiles -> {"original", "staged", "none"}]]
        /\ place'[m][f] = to
        /\ \A g \in RedoFiles \ {f} : place'[m][g] = place[m][g]
        /\ \A n \in Meetings \ {m} : place'[n] = place[n]
    BY <1>1, FileMoves
  <1>3. jobs' = jobs /\ redoPc' = redoPc /\ starting' = starting /\ before' = before
    BY DEF StageFile, CleanFile, UndoFile
  <1>4. undone' \in [Meetings -> SUBSET RedoFiles]
    <2>1. CASE StageFile(m) \/ CleanFile(m)
      BY <2>1 DEF StageFile, CleanFile, RedoInv, RedoTyped
    <2>2. CASE UndoFile(m)
      <3>1. PICK g \in RedoAt(m, "staged") :
               undone' = [undone EXCEPT ![m] = undone[m] \cup {g}]
        BY <2>2 DEF UndoFile
      <3>2. undone \in [Meetings -> SUBSET RedoFiles] /\ g \in RedoFiles
        BY DEF RedoInv, RedoTyped, RedoAt
      <3>3. undone[m] \cup {g} \in SUBSET RedoFiles
        BY <3>2
      <3> QED
        BY <3>1, <3>2, <3>3
    <2> QED
      BY <2>1, <2>2
  <1>5. /\ GoodTable' /\ RedoEnds(m)
        /\ Redoing(m)' = Redoing(m) /\ RedoPhase(m)' = RedoPhase(m)
    BY <1>3, SameRow
  <1>6. RedoTyped' /\ Elsewhere(m)
    BY <1>2, <1>3, <1>4, <1>5 DEF RedoInv, RedoTyped, Elsewhere
  <1>7. RedoSound(m) /\ before[m] \subseteq RedoFiles
    BY DEF RedoInv, RedoTyped
  <1>8. UnderClaim(m)'
    BY <1>3, <1>5, <1>7 DEF RedoSound, UnderClaim
  <1>9. NothingLost(m)'
    <2>1. redoPc[m] = "clean" => RedoPhase(m) = "committing"
      BY <1>7 DEF RedoSound, StepsDone
    <2>2. ASSUME Redoing(m), RedoPhase(m) # "committing", NEW g \in before[m]
          PROVE  place'[m][g] \in {"original", "staged"}
      <3>1. place[m][g] \in {"original", "staged"} /\ g \in RedoFiles
        BY <1>7, <2>2 DEF RedoSound, NothingLost
      <3>2. to # "none"
        BY <1>1, <2>1, <2>2
      <3> QED
        BY <1>2, <3>1, <3>2
    <2> QED
      BY <1>3, <1>5, <2>2 DEF NothingLost
  <1>10. RedoAt(m, "original") = {} /\ redoPc[m] # "undo" => RedoAt(m, "original")' = {}
    BY <1>1, <1>2 DEF RedoAt
  <1>11. CommitHolds(m)' /\ StepsDone(m)'
    BY <1>1, <1>3, <1>5, <1>7, <1>10 DEF RedoSound, CommitHolds, StepsDone
  <1> QED
    BY <1>5, <1>6, <1>8, <1>9, <1>11 DEF Keeps, RedoSound

\* The purge touches the index alone, and the rollback goes on once nothing is
\* staged.
LEMMA PcStepKeeps ==
    ASSUME RedoInv, NEW m \in Meetings, PurgeRedo(m) \/ FilesUndone(m)
    PROVE  Keeps(m)
  <1>1. PICK pc \in {"commit", "marker", "restore"} :
           /\ RedoGo(m, pc)
           /\ pc = "commit" => redoPc[m] = "purge"
           /\ pc # "commit" => redoPc[m] = "undo" /\ RedoAt(m, "staged") = {}
           /\ pc = "restore" => RedoPhase(m) # "purging"
    BY DEF PurgeRedo, FilesUndone, AfterUndo
  <1>2. UNCHANGED <<jobs, place, undone, starting, before>>
    BY DEF PurgeRedo, FilesUndone, redoFiles
  <1>3. redoPc' \in [Meetings -> RedoPcs] /\ redoPc'[m] = pc
        /\ \A n \in Meetings \ {m} : redoPc'[n] = redoPc[n]
    BY <1>1, PcGoes DEF RedoPcs
  <1>4. /\ GoodTable' /\ RedoEnds(m)
        /\ Redoing(m)' = Redoing(m) /\ RedoPhase(m)' = RedoPhase(m)
    BY <1>2, SameRow
  <1>5. RedoTyped' /\ Elsewhere(m)
    BY <1>2, <1>3, <1>4 DEF RedoInv, RedoTyped, Elsewhere
  <1>6. RedoSound(m) /\ redoPc[m] \in {"purge", "undo"}
    BY <1>1 DEF RedoInv
  <1>7. UnderClaim(m)' /\ NothingLost(m)' /\ CommitHolds(m)'
    BY <1>2, <1>3, <1>4, <1>6
       DEF RedoSound, UnderClaim, NothingLost, CommitHolds, RedoAt
  <1>8. StepsDone(m)'
    BY <1>1, <1>2, <1>3, <1>4, <1>6 DEF RedoSound, StepsDone, RedoAt
  <1> QED
    BY <1>4, <1>5, <1>7, <1>8 DEF Keeps, RedoSound

\* reset_for_retranscribe queues the row once no old file is left.
LEMMA ResetRowKeeps ==
    ASSUME RedoInv, NEW m \in Meetings, ResetRow(m)
    PROVE  Keeps(m)
  <1>1. /\ Claimed(jobs[m], "retranscribe", RedoToken(m))
        /\ jobs[m].action.phase = "committing"
        /\ jobs' = [jobs EXCEPT ![m] =
                       Row("queued", NoAction, 0, "none", jobs[m].action.requested)]
    BY DEF ResetRow, ResetForRetranscribe, Store
  <1>2. Redoing(m) /\ RedoToken(m) \in Tokens
    BY <1>1, ClaimedRow, RedoingRow DEF Redoing, RedoInv, RedoTyped, Claimed, Gone
  <1>3. GoodTable'
    BY <1>2, ResetForRetranscribeGood DEF ResetRow, RedoInv, RedoTyped
  <1>4. jobs'[m].status = "queued" /\ \A n \in Meetings \ {m} : jobs'[n] = jobs[n]
    BY <1>1 DEF RedoInv, RedoTyped, GoodTable, Row
  <1>5. ~Redoing(m)'
    BY <1>1 DEF RedoInv, RedoTyped, GoodTable, Redoing, Row, NoAction, Plain
  <1>6. redoPc' \in [Meetings -> RedoPcs] /\ redoPc'[m] = "idle"
        /\ \A n \in Meetings \ {m} : redoPc'[n] = redoPc[n]
    BY PcGoes DEF ResetRow, RedoPcs
  <1>7. UNCHANGED <<place, undone, starting, before>>
    BY DEF ResetRow, redoFiles
  <1>8. RedoTyped' /\ Elsewhere(m)
    BY <1>3, <1>4, <1>6, <1>7 DEF RedoInv, RedoTyped, Elsewhere
  <1>9. RedoAt(m, "original") = {} /\ RedoAt(m, "staged") = {} /\ ~starting[m]
    BY <1>1 DEF ResetRow, RedoCleaned, RedoInv, RedoSound, StepsDone, UnderClaim
  <1>10. \A f \in RedoFiles : place'[m][f] = "none"
    BY <1>7, <1>9 DEF RedoInv, RedoTyped, RedoAt
  <1>11. RedoSound(m)'
    BY <1>5, <1>6, <1>7, <1>9
       DEF RedoSound, UnderClaim, NothingLost, CommitHolds, StepsDone
  <1> QED
    BY <1>4, <1>8, <1>10, <1>11 DEF Keeps, RedoEnds

\* A step that raises leaves the claim for the rollback or for the next start.
LEMMA StepFailsKeeps ==
    ASSUME RedoInv, NEW m \in Meetings, RedoStepFails(m)
    PROVE  Keeps(m)
  <1>1. PICK pc \in {"undo", "idle"} :
           RedoGo(m, pc) /\ (RedoPhase(m) = "committing" => pc = "idle")
    BY DEF RedoStepFails
  <1>2. UNCHANGED <<jobs, place, starting, before>>
    BY DEF RedoStepFails
  <1>3. redoPc' \in [Meetings -> RedoPcs] /\ redoPc'[m] = pc
        /\ \A n \in Meetings \ {m} : redoPc'[n] = redoPc[n]
    BY <1>1, PcGoes DEF RedoPcs
  <1>4. undone' \in [Meetings -> SUBSET RedoFiles]
    BY DEF RedoStepFails, RedoInv, RedoTyped
  <1>5. /\ GoodTable' /\ RedoEnds(m)
        /\ Redoing(m)' = Redoing(m) /\ RedoPhase(m)' = RedoPhase(m)
    BY <1>2, SameRow
  <1>6. RedoTyped' /\ Elsewhere(m)
    BY <1>2, <1>3, <1>4, <1>5 DEF RedoInv, RedoTyped, Elsewhere
  <1>7. RedoSound(m) /\ redoPc[m] # "idle"
    BY DEF RedoInv, RedoStepFails
  <1>8. UnderClaim(m)' /\ NothingLost(m)'
    BY <1>2, <1>3, <1>5, <1>7 DEF RedoSound, UnderClaim, NothingLost
  <1>9. CommitHolds(m)' /\ StepsDone(m)'
    BY <1>1, <1>2, <1>3, <1>5, <1>7 DEF RedoSound, CommitHolds, StepsDone, RedoAt
  <1> QED
    BY <1>5, <1>6, <1>8, <1>9 DEF Keeps, RedoSound

------------------------------------------------------------------------------
(* The rollback. *)

\* The marker is there before a purged meeting is given back.
LEMMA WriteMarkerKeeps ==
    ASSUME RedoInv, NEW m \in Meetings, WriteMarker(m)
    PROVE  Keeps(m)
  <1>1. RedoMarker \in RedoFiles
    BY DEF RedoFiles
  <1>2. /\ place' \in [Meetings -> [RedoFiles -> {"original", "staged", "none"}]]
        /\ place'[m][RedoMarker] = "original"
        /\ \A g \in RedoFiles \ {RedoMarker} : place'[m][g] = place[m][g]
        /\ \A n \in Meetings \ {m} : place'[n] = place[n]
    BY <1>1, FileMoves DEF WriteMarker
  <1>3. redoPc' \in [Meetings -> RedoPcs] /\ redoPc'[m] = "restore"
        /\ \A n \in Meetings \ {m} : redoPc'[n] = redoPc[n]
    BY PcGoes DEF WriteMarker, RedoPcs
  <1>4. UNCHANGED <<jobs, undone, starting, before>>
    BY DEF WriteMarker
  <1>5. /\ GoodTable' /\ RedoEnds(m)
        /\ Redoing(m)' = Redoing(m) /\ RedoPhase(m)' = RedoPhase(m)
    BY <1>4, SameRow
  <1>6. RedoTyped' /\ Elsewhere(m)
    BY <1>2, <1>3, <1>4, <1>5 DEF RedoInv, RedoTyped, Elsewhere
  <1>7. /\ RedoSound(m) /\ before[m] \subseteq RedoFiles
        /\ redoPc[m] = "marker" /\ RedoPhase(m) # "committing"
    BY DEF RedoInv, RedoTyped, WriteMarker, RedoSound, UnderClaim, CommitHolds
  <1>8. NothingLost(m)'
    BY <1>2, <1>4, <1>5, <1>7 DEF RedoSound, NothingLost
  <1>9. RedoAt(m, "staged")' = {}
    <2>1. RedoAt(m, "staged") = {}
      BY <1>7 DEF RedoSound, StepsDone
    <2> QED
      BY <1>2, <2>1 DEF RedoAt
  <1>10. UnderClaim(m)' /\ CommitHolds(m)' /\ StepsDone(m)'
    BY <1>2, <1>3, <1>4, <1>5, <1>7, <1>9 DEF RedoSound, UnderClaim, CommitHolds, StepsDone
  <1> QED
    BY <1>5, <1>6, <1>8, <1>10 DEF Keeps, RedoSound

\* restore_retranscribe_claim gives the meeting back with every file in its place.
LEMMA RestoreRowKeeps ==
    ASSUME RedoInv, NEW m \in Meetings, RestoreRow(m)
    PROVE  Keeps(m)
  <1> DEFINE old == jobs[m]
  <1>1. /\ Claimed(old, "retranscribe", RedoToken(m))
        /\ jobs' = [jobs EXCEPT ![m] = [old EXCEPT !.status = old.action.status,
                                                   !.action = old.action.action,
                                                   !.selection = old.action.selection]]
    BY DEF RestoreRow, RestoreRetranscribeClaim, Store
  <1>2. Redoing(m) /\ old \in Rows /\ old.action \in RetranscribeClaims
        /\ RedoToken(m) \in Tokens
    BY <1>1, ClaimedRow, RedoingRow DEF Redoing, RedoInv, RedoTyped, Claimed, Gone
  <1>3. GoodTable'
    BY <1>2, RestoreRetranscribeGood DEF RestoreRow, RedoInv, RedoTyped
  <1>4. jobs'[m].action = old.action.action /\ jobs'[m].status \in {"completed", "failed"}
        /\ \A n \in Meetings \ {m} : jobs'[n] = jobs[n]
    BY <1>1, <1>2 DEF RedoInv, RedoTyped, GoodTable, Rows, RetranscribeClaims
  <1>5. ~Redoing(m)'
    BY <1>2, <1>4 DEF Redoing, RetranscribeClaims, PlainActions
  <1>6. redoPc' \in [Meetings -> RedoPcs] /\ redoPc'[m] = "idle"
        /\ \A n \in Meetings \ {m} : redoPc'[n] = redoPc[n]
    BY PcGoes DEF RestoreRow, RedoPcs
  <1>7. UNCHANGED <<place, undone, starting, before>>
    BY DEF RestoreRow, redoFiles
  <1>8. RedoTyped' /\ Elsewhere(m)
    BY <1>3, <1>4, <1>6, <1>7 DEF RedoInv, RedoTyped, Elsewhere
  <1>9. RedoSound(m) /\ redoPc[m] = "restore" /\ before[m] \subseteq RedoFiles
    BY DEF RedoInv, RedoTyped, RestoreRow
  <1>10. RedoPhase(m) # "committing" /\ RedoAt(m, "staged") = {} /\ ~starting[m]
    BY <1>2, <1>9 DEF RedoSound, UnderClaim, CommitHolds, StepsDone
  <1>11. \A f \in before[m] : place'[m][f] = "original"
    BY <1>2, <1>7, <1>9, <1>10 DEF RedoSound, NothingLost, RedoAt
  <1>12. old.action.phase = "purging" => place'[m][RedoMarker] = "original"
    BY <1>7, <1>9 DEF RedoSound, StepsDone, RedoPhase
  <1>13. RedoSound(m)'
    BY <1>5, <1>6, <1>7, <1>10
       DEF RedoSound, UnderClaim, NothingLost, CommitHolds, StepsDone
  <1> QED
    BY <1>4, <1>8, <1>11, <1>12, <1>13 DEF Keeps, RedoEnds

\* A rollback that fails, with some of what it moved put back.
LEMMA UndoFailsKeeps ==
    ASSUME RedoInv, NEW m \in Meetings, UndoFails(m)
    PROVE  Keeps(m)
  <1>1. PICK back \in SUBSET RedoFiles :
           place' = [place EXCEPT ![m] = [f \in RedoFiles |->
                        IF f \in back THEN "staged" ELSE place[m][f]]]
    <2>1. undone[m] \in SUBSET RedoFiles
      BY DEF RedoInv, RedoTyped
    <2> QED
      BY <2>1 DEF UndoFails
  <1>2. /\ place' \in [Meetings -> [RedoFiles -> {"original", "staged", "none"}]]
        /\ \A f \in RedoFiles : place'[m][f] \in {"staged", place[m][f]}
        /\ \A n \in Meetings \ {m} : place'[n] = place[n]
    <2>1. place \in [Meetings -> [RedoFiles -> {"original", "staged", "none"}]]
      BY DEF RedoInv, RedoTyped
    <2>2. [f \in RedoFiles |-> IF f \in back THEN "staged" ELSE place[m][f]]
             \in [RedoFiles -> {"original", "staged", "none"}]
      BY <2>1
    <2> QED
      BY <1>1, <2>1, <2>2
  <1>3. redoPc' \in [Meetings -> RedoPcs] /\ redoPc'[m] = "idle"
        /\ \A n \in Meetings \ {m} : redoPc'[n] = redoPc[n]
    BY PcGoes DEF UndoFails, RedoPcs
  <1>4. UNCHANGED <<jobs, undone, starting, before>>
    BY DEF UndoFails
  <1>5. /\ GoodTable' /\ RedoEnds(m)
        /\ Redoing(m)' = Redoing(m) /\ RedoPhase(m)' = RedoPhase(m)
    BY <1>4, SameRow
  <1>6. RedoTyped' /\ Elsewhere(m)
    BY <1>2, <1>3, <1>4, <1>5 DEF RedoInv, RedoTyped, Elsewhere
  <1>7. /\ RedoSound(m) /\ before[m] \subseteq RedoFiles /\ ~starting[m]
        /\ Redoing(m) /\ RedoPhase(m) # "committing"
    BY DEF RedoInv, RedoTyped, UndoFails, RedoSound, UnderClaim, CommitHolds
  <1>8. NothingLost(m)'
    BY <1>2, <1>4, <1>5, <1>7 DEF RedoSound, NothingLost
  <1>9. UnderClaim(m)' /\ CommitHolds(m)' /\ StepsDone(m)'
    BY <1>3, <1>4, <1>5, <1>7 DEF UnderClaim, CommitHolds, StepsDone
  <1> QED
    BY <1>5, <1>6, <1>8, <1>9 DEF Keeps, RedoSound

------------------------------------------------------------------------------
(* Crash, recovery and the run. *)

\* The recovery of a claim rolls a commit forward and anything else back.
LEMMA RecoverRedoKeeps ==
    ASSUME RedoInv, NEW m \in Meetings, RecoverRedo(m)
    PROVE  Keeps(m)
  <1>1. UNCHANGED <<jobs, place, before>>
    BY DEF RecoverRedo, redoFiles
  <1>2. redoPc' \in [Meetings -> RedoPcs] /\ redoPc'[m] = RecoveryPath(m)
        /\ RecoveryPath(m) \in {"clean", "undo"}
        /\ \A n \in Meetings \ {m} : redoPc'[n] = redoPc[n]
    <2>1. RecoveryPath(m) \in {"clean", "undo"}
      BY DEF RecoveryPath
    <2>2. RecoveryPath(m) \in RedoPcs
      BY <2>1 DEF RedoPcs
    <2> QED
      BY <2>1, <2>2, PcGoes DEF RecoverRedo
  <1>3. /\ starting' \in [Meetings -> BOOLEAN] /\ ~starting'[m]
        /\ \A n \in Meetings \ {m} : starting'[n] = starting[n]
        /\ undone' \in [Meetings -> SUBSET RedoFiles]
    BY DEF RecoverRedo, RedoInv, RedoTyped
  <1>4. /\ GoodTable' /\ RedoEnds(m)
        /\ Redoing(m)' = Redoing(m) /\ RedoPhase(m)' = RedoPhase(m)
    BY <1>1, SameRow
  <1>5. RedoTyped' /\ Elsewhere(m)
    BY <1>1, <1>2, <1>3, <1>4 DEF RedoInv, RedoTyped, Elsewhere
  <1>6. RedoSound(m) /\ Redoing(m)
    BY DEF RedoInv, RedoSound, UnderClaim, RecoverRedo
  <1>7. UnderClaim(m)' /\ NothingLost(m)'
    BY <1>1, <1>3, <1>4, <1>6 DEF RedoSound, UnderClaim, NothingLost
  <1>8. CommitHolds(m)' /\ StepsDone(m)'
    BY <1>1, <1>2, <1>4, <1>6
       DEF RedoSound, CommitHolds, StepsDone, RedoAt, RecoveryPath
  <1> QED
    BY <1>4, <1>5, <1>7, <1>8 DEF Keeps, RedoSound

\* A run is of a queued row, which is under no claim.
LEMMA RunEndsKeeps ==
    ASSUME RedoInv, NEW m \in Meetings, RedoneRunEnds(m)
    PROVE  Keeps(m)
  <1>1. PICK end \in {"completed", "failed"}, written \in SUBSET RedoFiles :
           /\ jobs' = [jobs EXCEPT ![m] = [jobs[m] EXCEPT !.status = end]]
           /\ place' = [place EXCEPT ![m] = [f \in RedoFiles |->
                           IF f \in written THEN "original" ELSE place[m][f]]]
    BY DEF RedoneRunEnds, Store
  <1>2. jobs[m] \in Rows /\ GoodRow(jobs[m]) /\ jobs[m].action \in PlainActions
        /\ ~Redoing(m)
    BY LiveRow, PlainRow, RedoingRow
       DEF RedoneRunEnds, RedoInv, RedoTyped, Statuses, GoodRow
  <1>3. GoodRow([jobs[m] EXCEPT !.status = end])
    <2>1. [jobs[m] EXCEPT !.status = end] \in Rows
          /\ [jobs[m] EXCEPT !.status = end].status = end
          /\ [jobs[m] EXCEPT !.status = end].action = jobs[m].action
      BY <1>2 DEF Rows, Statuses
    <2> QED
      BY <1>2, <2>1, PlainGood
  <1>4. GoodTable'
    BY <1>1, <1>3, StoreGood DEF RedoInv, RedoTyped, Store
  <1>5. /\ jobs'[m].action = jobs[m].action
        /\ \A n \in Meetings \ {m} : jobs'[n] = jobs[n]
    BY <1>1, <1>2 DEF RedoInv, RedoTyped, GoodTable, Rows
  <1>6. ~Redoing(m)'
    BY <1>2, <1>5 DEF Redoing, PlainActions
  <1>7. /\ place' \in [Meetings -> [RedoFiles -> {"original", "staged", "none"}]]
        /\ \A n \in Meetings \ {m} : place'[n] = place[n]
    <2>1. place \in [Meetings -> [RedoFiles -> {"original", "staged", "none"}]]
      BY DEF RedoInv, RedoTyped
    <2>2. [f \in RedoFiles |-> IF f \in written THEN "original" ELSE place[m][f]]
             \in [RedoFiles -> {"original", "staged", "none"}]
      BY <2>1
    <2> QED
      BY <1>1, <2>1, <2>2
  <1>8. UNCHANGED <<redoPc, undone, starting, before>>
    BY DEF RedoneRunEnds
  <1>9. RedoTyped' /\ Elsewhere(m)
    BY <1>4, <1>5, <1>7, <1>8 DEF RedoInv, RedoTyped, Elsewhere
  <1>10. redoPc[m] = "idle" /\ ~starting[m]
    BY <1>2 DEF RedoInv, RedoSound, UnderClaim
  <1>11. RedoSound(m)'
    BY <1>6, <1>8, <1>10
       DEF RedoSound, UnderClaim, NothingLost, CommitHolds, StepsDone
  <1> QED
    BY <1>2, <1>9, <1>11 DEF Keeps, RedoEnds

\* A restart interrupts every request and finds every claim.
LEMMA RestartKeeps ==
    ASSUME RedoInv, RedoRestart
    PROVE  RedoInv' /\ \A m \in Meetings : RedoEnds(m)
  <1>1. UNCHANGED <<jobs, place, undone, before>>
    BY DEF RedoRestart, redoFiles
  <1>2. redoPc' = [m \in Meetings |-> "idle"]
        /\ starting' = [m \in Meetings |-> Redoing(m)]
    BY DEF RedoRestart
  <1>3. GoodTable' /\ \A m \in Meetings : RedoEnds(m)
    BY <1>1, SameRow DEF RedoInv, RedoTyped, GoodTable
  <1>4. RedoTyped'
    BY <1>1, <1>2, <1>3 DEF RedoInv, RedoTyped, RedoPcs, Redoing
  <1>5. ASSUME NEW m \in Meetings
        PROVE  RedoSound(m)'
    <2>1. /\ Redoing(m)' = Redoing(m) /\ RedoPhase(m)' = RedoPhase(m)
          /\ redoPc'[m] = "idle" /\ starting'[m] = Redoing(m)
      BY <1>1, <1>2, SameRow
    <2>2. RedoSound(m)
      BY DEF RedoInv
    <2> QED
      BY <1>1, <2>1, <2>2
         DEF RedoSound, UnderClaim, NothingLost, CommitHolds, StepsDone, RedoAt
  <1> QED
    BY <1>3, <1>4, <1>5 DEF RedoInv

------------------------------------------------------------------------------
(* The theorems. *)

\* Before the first request every file is in its place or not there at all.
LEMMA RedoStarts ==
    ASSUME RedoInit
    PROVE  RedoInv
  <1>1. /\ place \in [Meetings -> [RedoFiles -> {"original", "none"}]]
        /\ redoPc = [m \in Meetings |-> "idle"]
        /\ undone = [m \in Meetings |-> {}]
        /\ starting = [m \in Meetings |-> FALSE]
        /\ before = [m \in Meetings |-> {}]
    BY DEF RedoInit, RedoLocals
  <1>2. ASSUME NEW m \in Meetings
        PROVE  GoodRow(jobs[m]) /\ ~Redoing(m)
    <2>1. jobs[m] \in [status : {"completed", "failed"}, action : {NoAction},
                       retries : {0}, error : {"none"}, selection : Selections]
      BY DEF RedoInit, RedoRows
    <2>2. jobs[m] \in Rows /\ jobs[m].action \in PlainActions
          /\ jobs[m].status # "recording"
      BY <2>1, NoActionFits, RetryAssumption
         DEF Rows, Statuses, Actions, RetryCounts, Errors
    <2> QED
      BY <2>2, PlainGood DEF Redoing, PlainActions
  <1>3. GoodTable
    BY <1>2 DEF GoodTable, GoodRow, RedoInit, RedoRows
  <1>4. RedoTyped
    BY <1>1, <1>3 DEF RedoTyped, RedoPcs
  <1>5. \A m \in Meetings : RedoSound(m)
    BY <1>1, <1>2 DEF RedoSound, UnderClaim, NothingLost, CommitHolds, StepsDone
  <1> QED
    BY <1>4, <1>5 DEF RedoInv

\* Every step keeps the invariant and ends a claim only as it may.
LEMMA RedoSteps ==
    ASSUME RedoInv, [RedoNext]_redoVars
    PROVE  RedoInv' /\ \A m \in Meetings : RedoEnds(m)
  <1>1. ASSUME NEW m \in Meetings, Keeps(m)
        PROVE  RedoInv' /\ \A n \in Meetings : RedoEnds(n)
    <2>1. \A n \in Meetings \ {m} : RedoSound(n)' /\ RedoEnds(n)
      BY <1>1, OthersSound DEF Keeps, Elsewhere
    <2> QED
      BY <1>1, <2>1 DEF Keeps, RedoInv
  <1>2. ASSUME NEW m \in Meetings, RedoStep(m)
        PROVE  Keeps(m)
    BY <1>2, MarkKeeps, FileStepKeeps, PcStepKeeps, ResetRowKeeps, WriteMarkerKeeps,
       RestoreRowKeeps, RecoverRedoKeeps DEF RedoStep
  <1>3. ASSUME NEW m \in Meetings,
               \/ ClaimRedo(m) \/ RedoStep(m) \/ RedoStepFails(m) \/ UndoFails(m)
               \/ RedoneRunEnds(m)
        PROVE  Keeps(m)
    BY <1>2, <1>3, ClaimRedoKeeps, StepFailsKeeps, UndoFailsKeeps, RunEndsKeeps
  <1>4. CASE UNCHANGED redoVars
    <2>1. ASSUME NEW n \in Meetings
          PROVE  RedoSound(n)' /\ RedoEnds(n)
      BY <1>4, OthersSound DEF redoVars, redoFiles
    <2>2. RedoTyped'
      BY <1>4 DEF redoVars, redoFiles, RedoInv, RedoTyped, GoodTable
    <2> QED
      BY <2>1, <2>2 DEF RedoInv
  <1> QED
    BY <1>1, <1>3, <1>4, RestartKeeps DEF RedoNext

\* The claim, the files and the step under way agree in every state: no file of
\* the claim is lost before the commit, none is back after it.
THEOREM RetranscriptionInvariant == RedoSpec => []RedoInv
  <1>1. RedoInit => RedoInv
    BY RedoStarts
  <1>2. RedoInv /\ [RedoNext]_redoVars => RedoInv'
    BY RedoSteps
  <1> QED
    BY <1>1, <1>2, PTL DEF RedoSpec

\* RedoAllOrNothing: however the request, its rollback and the recovery are
\* interrupted, a meeting that is given back has every file it had when it was
\* claimed, marked for reindexing after a purge, and one that is queued has none.
THEOREM AllOrNothing == RedoSpec => RedoAllOrNothing
  <1>1. RedoInv /\ [RedoNext]_redoVars => \A m \in Meetings : RedoEnds(m)
    BY RedoSteps
  <1> QED
    BY <1>1, RetranscriptionInvariant, PTL DEF RedoSpec, RedoAllOrNothing
==============================================================================

------------------------------ MODULE Deletion -------------------------------
(***************************************************************************)
(* Deleting a meeting: the DELETE handler of api/routers/meeting_detail.py, *)
(* the file moves of core/quarantine.py, the search stores, and the part of *)
(* JobProcessor._recover_orphaned_jobs that resolves delete claims at       *)
(* startup.  The handler runs under the meeting's mutation lease; recovery  *)
(* reads one snapshot of the table and takes the lease only to reindex.     *)
(* Each step is one queue transaction or one file-system or index           *)
(* operation; the process may crash between any two, and any operation may  *)
(* fail.  The table, the files, the stores and the reindex marker survive a *)
(* crash; handlers and recovery do not.                                     *)
(***************************************************************************)
EXTENDS JobRows

CONSTANTS
    WithAudio,          \* meetings whose recording is in the input folder
    ServeBeforeRecovery,\* TRUE: requests are served while recovery is pending
    MaxCrashes,         \* bound on process crashes
    MaxFaults           \* bound on failing operations

ASSUME AudioAssumption == WithAudio \subseteq Meetings
ASSUME ServeAssumption == ServeBeforeRecovery \in BOOLEAN
ASSUME BudgetAssumption == MaxCrashes \in Nat /\ MaxFaults \in Nat

VARIABLES
    audio,      \* the directories in which the recording has an entry
    index,      \* the search stores that hold the meeting's chunks
    marker,     \* reindex_required.json exists
    handler,    \* per meeting, its DELETE handler: pc, token, claim it read back
    recovery,   \* startup recovery: pc, meeting and claim in hand, claims to do
    issued,     \* tokens used so far
    budget      \* crashes and faults so far

files == <<audio, index, marker>>
dvars == <<jobs, audio, index, marker, handler, recovery, issued, budget>>

Stores == {"chroma", "fts"}
Places == {"input", "quarantine"}
NoClaim == [kind |-> "none"]
NoToken == "none"
Nowhere == "nowhere"

\* Program counters: the deletion itself, its rollback, and the recovery loop.
DoPcs == {"inspect", "prepare", "link", "unlink", "quarantined", "purging", "purge",
          "committing", "cleanup", "drop"}
UndoPcs == {"restore", "unlink_back", "mark", "reindex", "consume", "release"}
HandlerPcs == {"idle", "read_claim"} \cup DoPcs \cup UndoPcs
RecoveryPcs == {"start", "pick", "cleanup", "drop", "done"} \cup UndoPcs

Idle == [pc |-> "idle", token |-> NoToken, claim |-> NoClaim]

NotRecovered ==
    [pc |-> "start", at |-> Nowhere, claim |-> NoClaim,
     todo |-> [m \in Meetings |-> NoClaim], clean |-> TRUE]

At(m, pc) == handler[m].pc = pc
Token(m) == handler[m].token
HandlerTo(m, pc) == handler' = [handler EXCEPT ![m].pc = pc]
RecoveryTo(pc) == recovery' = [recovery EXCEPT !.pc = pc]

HasDeleteClaim(row) == row.status = "recording" /\ row.action.kind = "delete"

\* meeting_mutation lease: held by the handler from its claim to its last
\* cleanup, and by recovery while it reindexes.
LeaseFree(m) ==
    At(m, "idle") /\ ~(recovery.pc = "reindex" /\ recovery.at = m)

Serving == ServeBeforeRecovery \/ recovery.pc = "done"

------------------------------------------------------------------------------
(* Undoing a deletion: shared by the handler's `finally` and by recovery.   *)
(* `claim` is the payload the actor read; `from` and `to` are its pcs.      *)

\* Mutant: undoing a purge does not rebuild the index.
ForgetsReindex(claim) == "release"

AfterRestore(claim) ==
    IF claim.phase = "purging" /\ claim.status = "completed" THEN "mark" ELSE "release"

\* Mutant: the row is restored without its file.
ForgetsFile(claim) == AfterRestore(claim)

UndoStart(claim) == IF claim.sourced THEN "restore" ELSE AfterRestore(claim)

\* Mutant: unlinks the quarantine entry before it links the source back.
UnlinksBeforeLinking(m, claim, from, to) ==
    /\ \/ /\ from = "restore"
          /\ audio' = [audio EXCEPT ![m] = @ \ {"quarantine"}]
          /\ to = "unlink_back"
       \/ /\ from = "unlink_back"
          /\ audio' = [audio EXCEPT ![m] = {"input"}]
          /\ to = AfterRestore(claim)
    /\ UNCHANGED <<jobs, index, marker>>

\* restore_from_quarantine: a source that is there is kept and the quarantine
\* link dropped; otherwise link back, then unlink.
RestoreFile(m, claim, from, to) ==
    /\ \/ /\ from = "restore" /\ "input" \in audio[m]
          /\ audio' = [audio EXCEPT ![m] = {"input"}]
          /\ to = AfterRestore(claim)
       \/ /\ from = "restore" /\ audio[m] = {"quarantine"}
          /\ audio' = [audio EXCEPT ![m] = Places]
          /\ to = "unlink_back"
       \/ /\ from = "unlink_back" /\ "input" \in audio[m]
          /\ audio' = [audio EXCEPT ![m] = @ \ {"quarantine"}]
          /\ to = AfterRestore(claim)
    /\ UNCHANGED <<jobs, index, marker>>

\* The marker is durable before the reindex and goes after both stores hold
\* the meeting again.
Reindex(m, from, to) ==
    /\ \/ /\ from = "mark" /\ to = "reindex"
          /\ marker' = [marker EXCEPT ![m] = TRUE]
          /\ UNCHANGED index
       \/ /\ from = "reindex" /\ to = "reindex"
          /\ \E store \in Stores \ index[m] :
                index' = [index EXCEPT ![m] = @ \cup {store}]
          /\ UNCHANGED marker
       \/ /\ from = "reindex" /\ index[m] = Stores /\ to = "consume"
          /\ UNCHANGED <<index, marker>>
       \/ /\ from = "consume" /\ to = "release"
          /\ marker' = [marker EXCEPT ![m] = FALSE]
          /\ UNCHANGED index
    /\ UNCHANGED <<jobs, audio>>

UndoStep(m, claim, from, to) == RestoreFile(m, claim, from, to) \/ Reindex(m, from, to)

\* An undo step that raises whatever happens: nothing to restore, or the claim
\* is no longer the row's.
UndoImpossible(m, claim, pc) ==
    \/ pc = "restore" /\ audio[m] = {}
    \/ pc = "unlink_back" /\ "input" \notin audio[m]
    \/ pc = "release" /\ ~CanRestoreDeleteClaim(jobs[m], claim.token)

------------------------------------------------------------------------------
(* The DELETE handler. *)

ClaimMeeting(m) ==
    /\ Serving
    /\ LeaseFree(m)
    /\ \E token \in Tokens \ issued :
          /\ ClaimForDeletion(m, token)
          /\ issued' = issued \cup {token}
          /\ handler' = [handler EXCEPT ![m] =
                            [pc |-> "inspect", token |-> token, claim |-> NoClaim]]
    /\ UNCHANGED <<files, recovery, budget>>

\* A missing source is no error: there is nothing to quarantine.
InspectSource(m) ==
    /\ At(m, "inspect")
    /\ HandlerTo(m, IF "input" \in audio[m] THEN "prepare" ELSE "quarantined")
    /\ UNCHANGED <<jobs, files, recovery, issued, budget>>

PrepareQuarantine(m) ==
    /\ At(m, "prepare")
    /\ PrepareDeleteQuarantine(m, Token(m))
    /\ HandlerTo(m, "link")
    /\ UNCHANGED <<files, recovery, issued, budget>>

\* move_to_quarantine_exact: hardlink at the pinned destination, then unlink
\* the source and check that the destination is still there.
LinkToQuarantine(m) ==
    /\ At(m, "link")
    /\ audio[m] = {"input"}
    /\ audio' = [audio EXCEPT ![m] = Places]
    /\ HandlerTo(m, "unlink")
    /\ UNCHANGED <<jobs, index, marker, recovery, issued, budget>>

UnlinkSource(m) ==
    /\ At(m, "unlink")
    /\ audio' = [audio EXCEPT ![m] = @ \ {"input"}]
    /\ HandlerTo(m, IF "quarantine" \in audio[m] THEN "quarantined" ELSE "read_claim")
    /\ UNCHANGED <<jobs, index, marker, recovery, issued, budget>>

NextPc ==
    [quarantined |-> "purging", purging |-> "purge", committing |-> "cleanup"]

AdvancePhase(m) ==
    /\ handler[m].pc \in DOMAIN NextPc
    /\ UpdateDeleteClaimPhase(m, Token(m), handler[m].pc)
    /\ HandlerTo(m, NextPc[handler[m].pc])
    /\ UNCHANGED <<files, recovery, issued, budget>>

\* Mutant: stops after the vector store.
PurgesOneStore(m) ==
    /\ At(m, "purge")
    /\ \/ /\ \E store \in index[m] : index' = [index EXCEPT ![m] = @ \ {store}]
          /\ UNCHANGED handler
       \/ /\ "chroma" \notin index[m]
          /\ HandlerTo(m, "committing")
          /\ UNCHANGED index
    /\ UNCHANGED <<jobs, audio, marker, recovery, issued, budget>>

\* _purge_meeting_search_index: each store in turn, whichever succeeds first.
PurgeIndex(m) ==
    /\ At(m, "purge")
    /\ \/ /\ \E store \in index[m] : index' = [index EXCEPT ![m] = @ \ {store}]
          /\ UNCHANGED handler
       \/ /\ index[m] = {}
          /\ HandlerTo(m, "committing")
          /\ UNCHANGED index
    /\ UNCHANGED <<jobs, audio, marker, recovery, issued, budget>>

CleanupCaches(m) ==
    /\ At(m, "cleanup")
    /\ HandlerTo(m, "drop")
    /\ UNCHANGED <<jobs, files, recovery, issued, budget>>

DropRow(m) ==
    /\ At(m, "drop")
    /\ DeleteClaimedJob(m, Token(m))
    /\ handler' = [handler EXCEPT ![m] = Idle]
    /\ UNCHANGED <<files, recovery, issued, budget>>

\* A queue transaction or a move that cannot succeed on what is there now.
DoImpossible(m) ==
    \/ At(m, "prepare") /\ ~CanPrepareDeleteQuarantine(jobs[m], Token(m))
    \/ At(m, "link") /\ audio[m] # {"input"}
    \/ /\ handler[m].pc \in DOMAIN NextPc
       /\ ~CanUpdateDeleteClaimPhase(jobs[m], Token(m), handler[m].pc)
    \/ At(m, "drop") /\ ~CanDeleteClaimedJob(jobs[m], Token(m))

Fault == budget.faults < MaxFaults /\ budget' = [budget EXCEPT !.faults = @ + 1]
Raises(impossible) == (impossible /\ UNCHANGED budget) \/ Fault

\* An exception on the way: a move that had only linked drops its link again,
\* and the handler goes to its `finally`.
DeletionFails(m) ==
    /\ handler[m].pc \in DoPcs
    /\ Raises(DoImpossible(m))
    /\ audio' = IF At(m, "unlink") THEN [audio EXCEPT ![m] = @ \ {"quarantine"}] ELSE audio
    /\ HandlerTo(m, "read_claim")
    /\ UNCHANGED <<jobs, index, marker, recovery, issued>>

\* Mutant: rolls back a deletion past its point of no return.
RollsBackCommitting(m) ==
    /\ At(m, "read_claim")
    /\ IF Claimed(jobs[m], "delete", Token(m))
       THEN handler' = [handler EXCEPT ![m].pc = UndoStart(jobs[m].action),
                                       ![m].claim = jobs[m].action]
       ELSE handler' = [handler EXCEPT ![m] = Idle]
    /\ UNCHANGED <<jobs, files, recovery, issued, budget>>

\* The rollback acts on the durable claim, if it is still this handler's and
\* not yet committing.
ReadClaim(m) ==
    /\ At(m, "read_claim")
    /\ IF Claimed(jobs[m], "delete", Token(m)) /\ jobs[m].action.phase # "committing"
       THEN handler' = [handler EXCEPT ![m].pc = UndoStart(jobs[m].action),
                                       ![m].claim = jobs[m].action]
       ELSE handler' = [handler EXCEPT ![m] = Idle]
    /\ UNCHANGED <<jobs, files, recovery, issued, budget>>

RollbackStep(m) ==
    /\ \E to \in UndoPcs :
          UndoStep(m, handler[m].claim, handler[m].pc, to) /\ HandlerTo(m, to)
    /\ UNCHANGED <<recovery, issued, budget>>

ReleaseClaim(m) ==
    /\ At(m, "release")
    /\ RestoreDeleteClaim(m, Token(m))
    /\ handler' = [handler EXCEPT ![m] = Idle]
    /\ UNCHANGED <<files, recovery, issued, budget>>

\* Mutant: a failing rollback is tried again at once.
RollbackRetries(m) ==
    /\ handler[m].pc \in UndoPcs \cup {"read_claim"}
    /\ Raises(UndoImpossible(m, handler[m].claim, handler[m].pc))
    /\ HandlerTo(m, "read_claim")
    /\ UNCHANGED <<jobs, files, recovery, issued>>

\* A failing rollback keeps the claim for the next startup.
RollbackFails(m) ==
    /\ handler[m].pc \in UndoPcs \cup {"read_claim"}
    /\ Raises(UndoImpossible(m, handler[m].claim, handler[m].pc))
    /\ handler' = [handler EXCEPT ![m] = Idle]
    /\ UNCHANGED <<jobs, files, recovery, issued>>

HandlerNext(m) ==
    \/ InspectSource(m) \/ PrepareQuarantine(m)
    \/ LinkToQuarantine(m) \/ UnlinkSource(m)
    \/ AdvancePhase(m) \/ PurgeIndex(m) \/ CleanupCaches(m) \/ DropRow(m)
    \/ DeletionFails(m)
    \/ ReadClaim(m) \/ RollbackStep(m) \/ ReleaseClaim(m) \/ RollbackFails(m)

------------------------------------------------------------------------------
(* Startup recovery of delete claims. *)

\* Mutant: recovery looks for unfinished deletions only before the commit.
SkipsCommitting ==
    /\ recovery.pc = "start"
    /\ recovery' = [recovery EXCEPT
                       !.pc = "pick",
                       !.todo = [m \in Meetings |->
                                   IF HasDeleteClaim(jobs[m])
                                      /\ jobs[m].action.phase # "committing"
                                   THEN jobs[m].action
                                   ELSE NoClaim]]
    /\ UNCHANGED <<jobs, files, handler, issued, budget>>

TakeSnapshot ==
    /\ recovery.pc = "start"
    /\ recovery' = [recovery EXCEPT
                       !.pc = "pick",
                       !.todo = [m \in Meetings |->
                                   IF HasDeleteClaim(jobs[m]) THEN jobs[m].action
                                   ELSE NoClaim]]
    /\ UNCHANGED <<jobs, files, handler, issued, budget>>

PickClaim(m) ==
    /\ recovery.pc = "pick"
    /\ recovery.todo[m] # NoClaim
    /\ recovery' = [recovery EXCEPT
                       !.pc = IF recovery.todo[m].phase = "committing" THEN "cleanup"
                              ELSE UndoStart(recovery.todo[m]),
                       !.at = m, !.claim = recovery.todo[m], !.todo[m] = NoClaim]
    /\ UNCHANGED <<jobs, files, handler, issued, budget>>

RecoverCaches ==
    /\ recovery.pc = "cleanup"
    /\ RecoveryTo("drop")
    /\ UNCHANGED <<jobs, files, handler, issued, budget>>

RollForward ==
    /\ recovery.pc = "drop"
    /\ DeleteClaimedJob(recovery.at, recovery.claim.token)
    /\ RecoveryTo("pick")
    /\ UNCHANGED <<files, handler, issued, budget>>

\* Only the reindex waits for the meeting's lease.
RecoveryStep ==
    /\ recovery.pc \in UndoPcs
    /\ recovery.pc = "mark" => At(recovery.at, "idle")
    /\ \E to \in UndoPcs :
          /\ UndoStep(recovery.at, recovery.claim, recovery.pc, to)
          /\ RecoveryTo(to)
    /\ UNCHANGED <<handler, issued, budget>>

RecoveryReleases ==
    /\ recovery.pc = "release"
    /\ RestoreDeleteClaim(recovery.at, recovery.claim.token)
    /\ RecoveryTo("pick")
    /\ UNCHANGED <<files, handler, issued, budget>>

RecoveryImpossible ==
    \/ recovery.pc = "drop" /\ ~CanDeleteClaimedJob(jobs[recovery.at], recovery.claim.token)
    \/ /\ recovery.pc \in UndoPcs
       /\ UndoImpossible(recovery.at, recovery.claim, recovery.pc)

\* Mutant: a claim that fails is tried again in the same recovery.
RecoveryRetries ==
    /\ recovery.pc \notin {"pick", "done"}
    /\ Raises(RecoveryImpossible)
    /\ recovery' = IF recovery.pc = "start" THEN [recovery EXCEPT !.pc = "done"]
                   ELSE [recovery EXCEPT !.pc = "pick", !.todo[recovery.at] = recovery.claim]
    /\ UNCHANGED <<jobs, files, handler, issued>>

\* One claim that fails does not stop the others; a failing snapshot ends it.
RecoveryFails ==
    /\ recovery.pc \notin {"pick", "done"}
    /\ Raises(RecoveryImpossible)
    /\ recovery' = [recovery EXCEPT !.pc = IF @ = "start" THEN "done" ELSE "pick",
                                    !.clean = FALSE]
    /\ UNCHANGED <<jobs, files, handler, issued>>

FinishRecovery ==
    /\ recovery.pc = "pick"
    /\ \A m \in Meetings : recovery.todo[m] = NoClaim
    /\ RecoveryTo("done")
    /\ UNCHANGED <<jobs, files, handler, issued, budget>>

RecoveryNext ==
    \/ TakeSnapshot \/ (\E m \in Meetings : PickClaim(m))
    \/ RecoverCaches \/ RollForward
    \/ RecoveryStep \/ RecoveryReleases \/ RecoveryFails \/ FinishRecovery

------------------------------------------------------------------------------
\* Any other caller that would queue the meeting (transcribe, auto-processing).
QueueMeeting(m) ==
    /\ Serving
    /\ \E selection \in Selections : QueueJob(m, DefaultIntent, selection)
    /\ UNCHANGED <<files, handler, recovery, issued, budget>>

Crash ==
    /\ budget.crashes < MaxCrashes
    /\ budget' = [budget EXCEPT !.crashes = @ + 1]
    /\ handler' = [m \in Meetings |-> Idle]
    /\ recovery' = NotRecovered
    /\ UNCHANGED <<jobs, files, issued>>

DRows ==
    jobs \in [Meetings -> {Row(status, NoAction, 0, "none", selection) :
                    status \in {"recorded", "completed", "failed"},
                    selection \in Selections}]

DLocals ==
    /\ audio = [m \in Meetings |-> IF m \in WithAudio THEN {"input"} ELSE {}]
    /\ index = [m \in Meetings |-> IF jobs[m].status = "completed" THEN Stores ELSE {}]
    /\ marker = [m \in Meetings |-> FALSE]
    /\ handler = [m \in Meetings |-> Idle]
    /\ recovery = [NotRecovered EXCEPT !.pc = "done"]
    /\ issued = {}
    /\ budget = [crashes |-> 0, faults |-> 0]

DInit == DRows /\ DLocals

DNext ==
    \/ \E m \in Meetings : ClaimMeeting(m) \/ QueueMeeting(m) \/ HandlerNext(m)
    \/ RecoveryNext
    \/ Crash

DSpec == DInit /\ [][DNext]_dvars

\* Handlers and recovery are asyncio tasks that keep running while the process
\* is up; nothing else is owed a step.
DFairness ==
    /\ \A m \in Meetings : WF_dvars(HandlerNext(m))
    /\ WF_dvars(RecoveryNext)

------------------------------------------------------------------------------
(* Properties. *)

\* Every variable has its type, and the table holds only rows of the queue.
DTypeOK ==
    /\ jobs \in [Meetings -> Rows \cup {Gone}]
    /\ audio \in [Meetings -> SUBSET Places]
    /\ index \in [Meetings -> SUBSET Stores]
    /\ marker \in [Meetings -> BOOLEAN]
    /\ handler \in [Meetings -> [pc : HandlerPcs, token : Tokens \cup {NoToken},
                                 claim : DeleteClaims \cup {NoClaim}]]
    /\ recovery \in [pc : RecoveryPcs, at : Meetings \cup {Nowhere},
                     claim : DeleteClaims \cup {NoClaim},
                     todo : [Meetings -> DeleteClaims \cup {NoClaim}], clean : BOOLEAN]
    /\ issued \in SUBSET Tokens
    /\ budget \in [crashes : 0..MaxCrashes, faults : 0..MaxFaults]

Live(m) == jobs[m] # Gone

\* A meeting that can be used again (alive and under no claim) has its
\* recording back in the input folder and nowhere else: recovery and rollback
\* restore the file before they restore the row.
SourceInPlace ==
    \A m \in WithAudio :
        Live(m) /\ jobs[m].status # "recording" => audio[m] = {"input"}

\* No interleaving of moves, rollbacks and crashes loses the recording.
AudioNeverLost == \A m \in WithAudio : audio[m] # {}

\* When the row is gone nothing of the meeting is left behind: both search
\* stores are purged and the recording is only in quarantine, where the watcher
\* cannot register it again.
DeletionComplete ==
    \A m \in Meetings : ~Live(m) =>
        /\ index[m] = {}
        /\ audio[m] = IF m \in WithAudio THEN {"quarantine"} ELSE {}

\* A completed meeting under no claim is searchable in both stores, whatever
\* deletion was undone on it.
CompletedIsSearchable ==
    \A m \in Meetings : Live(m) /\ jobs[m].status = "completed" =>
        index[m] = Stores /\ ~marker[m]

\* Past the point of no return (phase committing) the row only disappears.
CommitStep(m) ==
    /\ Live(m)
    /\ HasDeleteClaim(jobs[m])
    /\ jobs[m].action.phase = "committing"
    /\ jobs'[m] # jobs[m]
    => jobs'[m] = Gone

CommitRollsForward == [][\A m \in Meetings : CommitStep(m)]_dvars

\* A recovery in which no operation failed leaves no delete claim behind.
RecoveryResolves ==
    /\ recovery.pc = "pick"
    /\ recovery.clean
    /\ \A m \in Meetings : recovery.todo[m] = NoClaim
    => \A m \in Meetings : ~HasDeleteClaim(jobs[m])

\* Every DELETE request is answered and releases the lease, also when it waits
\* behind recovery's reindex.
HandlersFinish == \A m \in Meetings : ~At(m, "idle") ~> At(m, "idle")

\* Recovery gets to the end of its snapshot, also when handlers run meanwhile.
RecoveryFinishes == recovery.pc # "done" ~> recovery.pc = "done"
==============================================================================

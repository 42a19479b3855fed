------------------------------ MODULE Retranscribe ------------------------------
(***************************************************************************)
(* Re-transcription: the request handler of api/routers/meeting_detail.py   *)
(* that moves a meeting's results aside, purges its index and requeues it,  *)
(* its rollback, and the recovery of its durable claim by the next start    *)
(* (core/orchestrator.py).  Every file moves by itself, every step may fail *)
(* and the process may die between any two.  The mutation lease admits one  *)
(* request for a meeting at a time.                                         *)
(***************************************************************************)
EXTENDS JobRows, FiniteSets

CONSTANTS
    MaxRedos,       \* bound of requests
    MaxRedoFaults,  \* bound of failing steps
    MaxRedoStarts   \* bound of crashes

ASSUME RedoBounds == {MaxRedos, MaxRedoFaults, MaxRedoStarts} \subseteq Nat

VARIABLES
    place,      \* where each file of each meeting is
    indexed,    \* the meeting is completely searchable
    redoPc,     \* the step the request or the recovery of a meeting is at
    undone,     \* files the current rollback has moved back
    starting,   \* the start's snapshot has a claim of the meeting to recover
    before,     \* history: the files the meeting had when it was claimed
    redoLeft    \* what is left of the bounds

redoFiles == <<place, indexed>>
redoVars == <<jobs, redoFiles, redoPc, undone, starting, before, redoLeft>>

\* A checkpoint, an output file, and reindex_required.json, a checkpoint too.
RedoMarker == "marker"
RedoFiles == {"checkpoint", "output", RedoMarker}

RedoAt(m, where) == {f \in RedoFiles : place[m][f] = where}
Redoing(m) == jobs[m] # Gone /\ jobs[m].action.kind = "retranscribe"
RedoPhase(m) == jobs[m].action.phase
RedoToken(m) == jobs[m].action.token

RedoGo(m, pc) == redoPc' = [redoPc EXCEPT ![m] = pc]
MoveRedo(m, f, to) == place' = [place EXCEPT ![m][f] = to]
RedoSpend(what) ==
    redoLeft[what] > 0 /\ redoLeft' = [redoLeft EXCEPT ![what] = @ - 1]

RedoRows ==
    jobs \in [Meetings -> [status : {"completed", "failed"}, action : {NoAction},
                           retries : {0}, error : {"none"}, selection : Selections]]

RedoLocals ==
    /\ place \in [Meetings -> [RedoFiles -> {"original", "none"}]]
    /\ indexed \in [Meetings -> BOOLEAN]
    /\ \A m \in Meetings :
          jobs[m].status = "completed" =>
              /\ RedoAt(m, "none") \subseteq {RedoMarker}
              /\ indexed[m] <=> place[m][RedoMarker] = "none"
    /\ redoPc = [m \in Meetings |-> "idle"]
    /\ undone = [m \in Meetings |-> {}]
    /\ starting = [m \in Meetings |-> FALSE]
    /\ before = [m \in Meetings |-> {}]
    /\ redoLeft = [redos |-> MaxRedos, faults |-> MaxRedoFaults, starts |-> MaxRedoStarts]

RedoInit == RedoRows /\ RedoLocals

------------------------------------------------------------------------------
(* The request. *)

ClaimRedo(m) ==
    /\ redoPc[m] = "idle" /\ RedoSpend("redos")
    /\ \E t \in Tokens, s \in Selections : ClaimForRetranscribe(m, t, s)
    /\ before' = [before EXCEPT ![m] = RedoAt(m, "original")]
    /\ RedoGo(m, "mark")
    /\ UNCHANGED <<redoFiles, undone, starting>>

\* The source is still the one that was admitted, and the phase is durable
\* before the first file moves.
MarkStaging(m) ==
    /\ redoPc[m] = "mark"
    /\ UpdateRetranscribeClaimPhase(m, RedoToken(m), "staging")
    /\ RedoGo(m, "stage")
    /\ UNCHANGED <<redoFiles, undone, starting, before, redoLeft>>

StageFile(m) ==
    /\ redoPc[m] = "stage"
    /\ \E f \in RedoAt(m, "original") : MoveRedo(m, f, "staged")
    /\ UNCHANGED <<jobs, indexed, redoPc, undone, starting, before, redoLeft>>

MarkPurging(m) ==
    /\ redoPc[m] = "stage" /\ RedoAt(m, "original") = {}
    /\ UpdateRetranscribeClaimPhase(m, RedoToken(m), "purging")
    /\ RedoGo(m, "purge")
    /\ UNCHANGED <<redoFiles, undone, starting, before, redoLeft>>

PurgeRedo(m) ==
    /\ redoPc[m] = "purge"
    /\ indexed' = [indexed EXCEPT ![m] = FALSE]
    /\ RedoGo(m, "commit")
    /\ UNCHANGED <<jobs, place, undone, starting, before, redoLeft>>

MarkCommitting(m) ==
    /\ redoPc[m] = "commit"
    /\ UpdateRetranscribeClaimPhase(m, RedoToken(m), "committing")
    /\ RedoGo(m, "clean")
    /\ UNCHANGED <<redoFiles, undone, starting, before, redoLeft>>

\* cleanup_retranscribe_staging, also by the recovery.
CleanFile(m) ==
    /\ redoPc[m] = "clean"
    /\ \E f \in RedoAt(m, "staged") : MoveRedo(m, f, "none")
    /\ UNCHANGED <<jobs, indexed, redoPc, undone, starting, before, redoLeft>>

\* Mutant: the meeting is queued although old files are left.
CleanedPartly(m) == TRUE

RedoCleaned(m) == RedoAt(m, "staged") = {}

ResetRow(m) ==
    /\ redoPc[m] = "clean" /\ RedoCleaned(m)
    /\ ResetForRetranscribe(m, RedoToken(m))
    /\ RedoGo(m, "idle")
    /\ UNCHANGED <<redoFiles, undone, starting, before, redoLeft>>

\* Any step of the request raises.  The handler reads the claim's phase (if it
\* cannot, the claim waits for the next start): a commit is only rolled
\* forward, anything else is undone.  Half of a purge may have happened.
RedoStepFails(m) ==
    /\ redoPc[m] \in {"mark", "stage", "purge", "commit", "clean"}
    /\ RedoSpend("faults")
    /\ \E next \in IF RedoPhase(m) = "committing" THEN {"idle"} ELSE {"undo", "idle"} :
          RedoGo(m, next)
    /\ indexed' \in {indexed, [indexed EXCEPT ![m] = @ /\ redoPc[m] # "purge"]}
    /\ undone' = [undone EXCEPT ![m] = {}]
    /\ UNCHANGED <<jobs, place, starting, before>>

------------------------------------------------------------------------------
(* The rollback. *)

UndoFile(m) ==
    /\ redoPc[m] = "undo"
    /\ \E f \in RedoAt(m, "staged") :
          MoveRedo(m, f, "original") /\ undone' = [undone EXCEPT ![m] = @ \cup {f}]
    /\ UNCHANGED <<jobs, indexed, redoPc, starting, before, redoLeft>>

\* Mutant: a rollback after the purge restores the row without a marker.
NoMarker(m) == "restore"

AfterUndo(m) == IF RedoPhase(m) = "purging" THEN "marker" ELSE "restore"

FilesUndone(m) ==
    /\ redoPc[m] = "undo" /\ RedoAt(m, "staged") = {}
    /\ RedoGo(m, AfterUndo(m))
    /\ UNCHANGED <<jobs, redoFiles, undone, starting, before, redoLeft>>

\* reindex_required.json; one that exists is kept.
WriteMarker(m) ==
    /\ redoPc[m] = "marker"
    /\ MoveRedo(m, RedoMarker, "original")
    /\ RedoGo(m, "restore")
    /\ UNCHANGED <<jobs, indexed, undone, starting, before, redoLeft>>

RestoreRow(m) ==
    /\ redoPc[m] = "restore"
    /\ RestoreRetranscribeClaim(m, RedoToken(m))
    /\ RedoGo(m, "idle")
    /\ UNCHANGED <<redoFiles, undone, starting, before, redoLeft>>

\* A rollback that fails puts back what it moved if it can, and leaves the
\* claim for the next start.
UndoFails(m) ==
    /\ redoPc[m] \in {"undo", "marker", "restore"}
    /\ RedoSpend("faults")
    /\ \E back \in IF redoPc[m] = "undo" THEN SUBSET undone[m] ELSE {{}} :
          place' = [place EXCEPT ![m] = [f \in RedoFiles |->
                       IF f \in back THEN "staged" ELSE place[m][f]]]
    /\ RedoGo(m, "idle")
    /\ UNCHANGED <<jobs, indexed, undone, starting, before>>

------------------------------------------------------------------------------
(* Crash and recovery, and the run that a reset queues. *)

RedoRestart ==
    /\ RedoSpend("starts")
    /\ redoPc' = [m \in Meetings |-> "idle"]
    /\ starting' = [m \in Meetings |-> Redoing(m)]
    /\ UNCHANGED <<jobs, redoFiles, undone, before>>

\* Mutant: the recovery leaves a commit as it is.
LeavesCommit(m) == IF RedoPhase(m) = "committing" THEN "idle" ELSE "undo"

RecoveryPath(m) == IF RedoPhase(m) = "committing" THEN "clean" ELSE "undo"

RecoverRedo(m) ==
    /\ starting[m] /\ redoPc[m] = "idle"
    /\ starting' = [starting EXCEPT ![m] = FALSE]
    /\ RedoGo(m, RecoveryPath(m))
    /\ undone' = [undone EXCEPT ![m] = {}]
    /\ UNCHANGED <<jobs, redoFiles, before, redoLeft>>

\* The worker's run writes the results anew, or fails on the way.
RedoneRunEnds(m) ==
    /\ jobs[m].status = "queued"
    /\ \E end \in {"completed", "failed"}, written \in SUBSET (RedoFiles \ {RedoMarker}) :
          /\ end = "completed" => written = RedoFiles \ {RedoMarker}
          /\ Store(m, [jobs[m] EXCEPT !.status = end])
          /\ place' = [place EXCEPT ![m] = [f \in RedoFiles |->
                          IF f \in written THEN "original" ELSE place[m][f]]]
          /\ indexed' = [indexed EXCEPT ![m] = end = "completed"]
    /\ UNCHANGED <<redoPc, undone, starting, before, redoLeft>>

------------------------------------------------------------------------------

RedoStep(m) ==
    \/ MarkStaging(m) \/ StageFile(m) \/ MarkPurging(m) \/ PurgeRedo(m)
    \/ MarkCommitting(m) \/ CleanFile(m) \/ ResetRow(m)
    \/ UndoFile(m) \/ FilesUndone(m) \/ WriteMarker(m) \/ RestoreRow(m)
    \/ RecoverRedo(m)

RedoNext ==
    \/ \E m \in Meetings :
          ClaimRedo(m) \/ RedoStep(m) \/ RedoStepFails(m) \/ UndoFails(m) \/ RedoneRunEnds(m)
    \/ RedoRestart

RedoFairness == \A m \in Meetings : WF_redoVars(RedoStep(m))

RedoSpec == RedoInit /\ [][RedoNext]_redoVars /\ RedoFairness

------------------------------------------------------------------------------

\* What a step may do to the claim of a meeting.
RedoEnds(m) ==
    /\ Redoing(m) /\ jobs'[m].status \in {"completed", "failed"} =>
          /\ \A f \in before[m] : place'[m][f] = "original"
          /\ jobs[m].action.phase = "purging" => place'[m][RedoMarker] = "original"
    /\ Redoing(m) /\ jobs'[m].status = "queued" =>
          \A f \in RedoFiles : place'[m][f] = "none"

\* Giving the meeting back gives everything back, and what a purge took from
\* the index is marked for reindexing; queueing it leaves nothing of the old
\* results: whatever failed, and however often the process died, in between.
RedoAllOrNothing == [][\A m \in Meetings : RedoEnds(m)]_redoVars

\* A start after the last failure resolves every claim it finds.
RedoClaimsSettle ==
    \A m \in Meetings :
        (starting[m] /\ redoLeft.faults = 0) ~> ~Redoing(m)
================================================================================

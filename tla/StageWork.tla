------------------------------- MODULE StageWork -------------------------------
(***************************************************************************)
(* core/stage_work_queue.py: the durable record of the stages of a cohort,  *)
(* one SQLite transaction per operation.  An item is named by its meeting   *)
(* and stage (one generation); sessions own the items they run by a claim   *)
(* token.  StageWorkSpec lets sessions call the operations in any order,    *)
(* with tokens they still remember, and die.                                *)
(***************************************************************************)
EXTENDS Naturals

CONSTANTS
    StagedMeetings,   \* the meetings of a cohort
    Sessions,         \* processes over time
    MaxAttempts       \* bound of claims of an item

ASSUME AttemptsAssumption == MaxAttempts \in Nat

VARIABLES
    work,           \* the table: per meeting and stage, the item
    alive,          \* sessions whose process has not ended
    executing       \* history: the claims whose execution has not ended

stageVars == <<work, alive, executing>>

\* The phases of a bulk cohort, transcribe, merge, summarize and embed, each
\* depending on those before.
StageNumbers == 1..4

NoOwner == "nobody"

\* The claim token of an item is told apart by the attempt that made it.
Queued == [status |-> "queued", owner |-> NoOwner, attempt |-> 0, leased |-> FALSE]

\* enqueue_cohort: all stages of all meetings, or none.
Enqueued(meetings) == [m \in meetings |-> [s \in StageNumbers |-> Queued]]

Ready(m, s) ==
    /\ work[m][s].status = "queued"
    /\ \A prerequisite \in 1..(s - 1) : work[m][prerequisite].status = "completed"

Holder(item, session, attempt) ==
    item.leased /\ item.owner = session /\ item.attempt = attempt

SetItem(m, s, item) == work' = [work EXCEPT ![m][s] = item]

ClaimReady(m, s, session) ==
    /\ Ready(m, s)
    /\ SetItem(m, s, [status |-> "running", owner |-> session,
                      attempt |-> work[m][s].attempt + 1, leased |-> TRUE])

\* complete and fail; a repeated one changes nothing.
Finish(m, s, session, attempt, status) ==
    /\ Holder(work[m][s], session, attempt)
    /\ work[m][s].status \in {"running", status}
    /\ SetItem(m, s, [work[m][s] EXCEPT !.status = status])

RequestCancel(m) ==
    work' = [work EXCEPT ![m] = [s \in StageNumbers |->
                IF @[s].status \in {"queued", "running"}
                THEN [@[s] EXCEPT !.status = "cancel_requested"]
                ELSE @[s]]]

Unleased(item) == [item EXCEPT !.owner = NoOwner, !.leased = FALSE]

AcknowledgeCancel(m, s, session, attempt) ==
    /\ Holder(work[m][s], session, attempt)
    /\ work[m][s].status = "cancel_requested"
    /\ SetItem(m, s, Unleased(work[m][s]))

\* Of a session whose native work is known to have ended.
RecoverSession(old) ==
    work' = [m \in DOMAIN work |-> [s \in StageNumbers |->
                LET item == work[m][s]
                IN  IF item.owner = old /\ item.status \in {"running", "cancel_requested"}
                    THEN Unleased([item EXCEPT
                             !.status = IF @ = "running" THEN "queued" ELSE @])
                    ELSE item]]

------------------------------------------------------------------------------
(* Sessions. *)

StageWorkInit ==
    /\ work = Enqueued(StagedMeetings)
    /\ alive = Sessions
    /\ executing = {}

Claim(m, s, session) == [at |-> <<m, s>>, by |-> session, attempt |-> work[m][s].attempt]

SessionClaims(session) ==
    /\ session \in alive
    /\ \E m \in StagedMeetings, s \in StageNumbers :
          /\ work[m][s].attempt < MaxAttempts
          /\ ClaimReady(m, s, session)
          /\ executing' = executing \cup {Claim(m, s, session)'}
    /\ UNCHANGED alive

\* An execution ends with its result, or as the cancelled one it was.
SessionFinishes(session) ==
    /\ session \in alive
    /\ \E c \in executing :
          /\ c.by = session
          /\ executing' = executing \ {c}
          /\ \/ \E status \in {"completed", "failed"} :
                   Finish(c.at[1], c.at[2], session, c.attempt, status)
             \/ AcknowledgeCancel(c.at[1], c.at[2], session, c.attempt)
    /\ UNCHANGED alive

UserCancelsStages ==
    /\ \E m \in StagedMeetings : RequestCancel(m)
    /\ UNCHANGED <<alive, executing>>

SessionDies(session) ==
    /\ session \in alive
    /\ alive' = alive \ {session}
    /\ executing' = {c \in executing : c.by # session}
    /\ UNCHANGED work

\* Mutant: a session is recovered whether or not its work has ended.
RecoversRunning(old) ==
    /\ RecoverSession(old)
    /\ UNCHANGED <<alive, executing>>

\* The caller's native_ownership_released is the truth.
SessionRecovered(old) ==
    /\ old \notin alive
    /\ RecoverSession(old)
    /\ UNCHANGED <<alive, executing>>

StageWorkNext ==
    \/ \E session \in Sessions :
          \/ SessionClaims(session) \/ SessionFinishes(session)
          \/ SessionDies(session) \/ SessionRecovered(session)
    \/ UserCancelsStages

StageWorkSpec == StageWorkInit /\ [][StageWorkNext]_stageVars

------------------------------------------------------------------------------

\* A stage is executed by one session at a time and only after the stages it
\* depends on, and a result is recorded only for the execution that holds the
\* item, although sessions die, are recovered by others and are cancelled.
StageUnderClaim ==
    \A m \in StagedMeetings, s \in StageNumbers :
        /\ \A c, d \in executing' : c.at = d.at => c = d
        /\ \A c \in executing' : \A p \in 1..(c.at[2] - 1) :
              work'[c.at[1]][p].status = "completed"
        /\ work[m][s].status # "completed" /\ work'[m][s].status = "completed" =>
              \E c \in executing : c.at = <<m, s>> /\ c.attempt = work[m][s].attempt
==============================================================================

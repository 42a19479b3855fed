-------------------------------- MODULE ABTests --------------------------------
(***************************************************************************)
(* A/B tests of two models on a finished meeting: core/ab_test_runner.py,   *)
(* core/ab_test_store.py and the requests of api/routers/ab_tests.py.  A    *)
(* test of transcription models holds the meeting's row by a durable lease  *)
(* whose token is the test's id; a test of language models reads a snapshot *)
(* and holds nothing.  A task is cut at its awaits: metadata is read and    *)
(* written between two of them, except by the recovery, which works in a    *)
(* thread of the next start while requests are served.                      *)
(***************************************************************************)
EXTENDS JobRows

CONSTANTS
    Tests,        \* test ids
    Transcribed,  \* the tests that compare transcription models
    Source,       \* the meeting they use
    MaxABTroubles \* bound of failing writes, task cancellations and crashes

ASSUME ABAssumption ==
    /\ Transcribed \subseteq Tests /\ Tests \subseteq Tokens
    /\ Source \in Meetings /\ MaxABTroubles \in Nat /\ "nothing" \notin Tests

VARIABLES
    meta,        \* per test, the status in metadata.json
    abPc,        \* per test, the step its task is at
    failedOf,    \* per test, the variants that failed
    abLock,      \* the test that runs
    cancelSet,   \* _cancel_requests
    recovering,  \* the startup recovery: tests to look at, what it has read,
                 \* and the lease it found
    accepted,    \* history: tests whose cancellation was accepted
    abLeft       \* what is left of the bound

abLocals == <<meta, abPc, failedOf, abLock, cancelSet, recovering, accepted, abLeft>>
abVars == <<jobs, abLocals>>

ActiveMeta == {"pending", "running", "cancelling"}
EndedMeta == {"cancelled", "failed", "completed", "partial_failed"}
Nothing == "nothing"

ABRecoveryDone == [tests |-> {}, at |-> Nothing, read |-> Nothing, leases |-> {}]

ABRows ==
    jobs \in [Meetings -> [status : {"completed"}, action : {NoAction}, retries : {0},
                           error : {"none"}, selection : Selections]]

ABLocals ==
    /\ meta = [t \in Tests |-> "absent"]
    /\ abPc = [t \in Tests |-> "idle"]
    /\ failedOf = [t \in Tests |-> {}]
    /\ abLock = Nothing /\ cancelSet = {} /\ accepted = {}
    /\ recovering = ABRecoveryDone
    /\ abLeft = MaxABTroubles

ABInit == ABRows /\ ABLocals

SetMeta(t, status) == meta' = [meta EXCEPT ![t] = status]
ABGo(t, pc) == abPc' = [abPc EXCEPT ![t] = pc]
ABTrouble == abLeft > 0 /\ abLeft' = abLeft - 1

------------------------------------------------------------------------------
(* Starting a test. *)

\* Nobody runs, the meeting is complete and its audio accepted; the lease is
\* the last of the awaits.  A meeting that was taken meanwhile is refused.
\* Tests start after the recovery has listed the old ones and the rows: the
\* code does not make requests wait for that.
StartTest(t) ==
    /\ abPc[t] = "idle" /\ meta[t] = "absent" /\ t \notin accepted /\ abLock = Nothing
    /\ IF t \in Transcribed
       THEN ClaimForSTTABTest(Source, t) /\ ABGo(t, "claimed") /\ UNCHANGED meta
       ELSE UNCHANGED jobs /\ ABGo(t, "admission") /\ SetMeta(t, "pending")
    /\ UNCHANGED <<failedOf, abLock, cancelSet, recovering, accepted, abLeft>>

\* Mutant: a reservation that fails leaves the lease.
FailedReservationKeeps == "idle"

FailedReservationGoes == "release"

ReserveTest(t) ==
    /\ abPc[t] = "claimed"
    /\ \/ SetMeta(t, "pending") /\ ABGo(t, "admission") /\ UNCHANGED abLeft
       \/ ABTrouble /\ ABGo(t, FailedReservationGoes) /\ UNCHANGED meta
    /\ UNCHANGED <<jobs, failedOf, abLock, cancelSet, recovering, accepted>>

------------------------------------------------------------------------------
(* The task. *)

\* Where a task goes when it ends: a transcription test gives the lease back.
TaskEnd(t) == IF t \in Transcribed THEN "release" ELSE "idle"

\* The test ends and the lock is free; the flag is dropped with it, or stays
\* when it never ran.
EndTest(t, status) ==
    /\ SetMeta(t, status)
    /\ ABGo(t, TaskEnd(t))
    /\ IF abLock = t
       THEN abLock' = Nothing /\ cancelSet' = cancelSet \ {t}
       ELSE UNCHANGED <<abLock, cancelSet>>

\* The source is still the one that was inspected, and is accepted; another
\* test may have taken the lock meanwhile.
Admission(t) ==
    /\ abPc[t] = "admission"
    /\ \/ EndTest(t, "failed")
       \/ /\ abLock = Nothing
          /\ abLock' = t /\ ABGo(t, IF t \in Transcribed THEN "diarize" ELSE "begin")
          /\ UNCHANGED <<meta, cancelSet>>
    /\ UNCHANGED <<jobs, failedOf, recovering, accepted, abLeft>>

Diarization(t) ==
    /\ abPc[t] = "diarize"
    /\ EndTest(t, "failed") \/ (ABGo(t, "begin") /\ UNCHANGED <<meta, abLock, cancelSet>>)
    /\ UNCHANGED <<jobs, failedOf, recovering, accepted, abLeft>>

\* Mutant: the runner looks for a cancellation before each variant only.
CancelledBeforeVariant(t) == t \in cancelSet /\ abPc[t] # "B"

TestCancelled(t) == t \in cancelSet

\* "running" is written over whatever the metadata said; then the boundary
\* before the first variant.
BeginTest(t) ==
    /\ abPc[t] = "begin"
    /\ IF TestCancelled(t) THEN EndTest(t, "cancelled")
       ELSE SetMeta(t, "running") /\ ABGo(t, "A") /\ UNCHANGED <<abLock, cancelSet>>
    /\ failedOf' = [failedOf EXCEPT ![t] = {}]
    /\ UNCHANGED <<jobs, recovering, accepted, abLeft>>

FinalStatus(failed) ==
    CASE failed = {}         -> "completed"
      [] failed = {"A", "B"} -> "failed"
      [] OTHER               -> "partial_failed"

\* A variant ends, well or not; the cancellation is looked for before the next
\* and before the result.
VariantEnds(t) ==
    /\ abPc[t] \in {"A", "B"}
    /\ \E failed \in {failedOf[t], failedOf[t] \cup {abPc[t]}} :
          /\ failedOf' = [failedOf EXCEPT ![t] = failed]
          /\ IF TestCancelled(t) THEN EndTest(t, "cancelled")
             ELSE IF abPc[t] = "A" THEN ABGo(t, "B") /\ UNCHANGED <<meta, abLock, cancelSet>>
             ELSE EndTest(t, FinalStatus(failed))
    /\ UNCHANGED <<jobs, recovering, accepted, abLeft>>

\* The loop ends and cancels its tasks.
TaskCancelled(t) ==
    /\ abPc[t] \in {"admission", "diarize", "A", "B"}
    /\ ABTrouble
    /\ EndTest(t, "cancelled")
    /\ UNCHANGED <<jobs, failedOf, recovering, accepted>>

\* A release that fails leaves the lease to the next start.
ReleaseSource(t) ==
    /\ abPc[t] = "release"
    /\ \/ RestoreSTTABTestClaim(Source, t) /\ ABGo(t, "idle") /\ UNCHANGED abLeft
       \/ ABTrouble /\ ABGo(t, "leased") /\ UNCHANGED jobs
    /\ UNCHANGED <<meta, failedOf, abLock, cancelSet, recovering, accepted>>

------------------------------------------------------------------------------
(* Requests about a test, a deletion of the meeting, and restarts. *)

CancelTest(t) ==
    /\ meta[t] \in ActiveMeta
    /\ SetMeta(t, "cancelling")
    /\ cancelSet' = cancelSet \cup {t} /\ accepted' = accepted \cup {t}
    /\ UNCHANGED <<jobs, abPc, failedOf, abLock, recovering, abLeft>>

DeleteTest(t) ==
    /\ meta[t] \in EndedMeta
    /\ SetMeta(t, "deleted")
    /\ UNCHANGED <<jobs, abPc, failedOf, abLock, cancelSet, recovering, accepted, abLeft>>

\* What other requests do to the meeting when they may.
SourceTaken ==
    /\ \E token \in Tokens \ Tests :
          ClaimForDeletion(Source, token) \/ RestoreDeleteClaim(Source, token)
    /\ UNCHANGED abLocals

ABRestart ==
    /\ ABTrouble
    /\ abPc' = [t \in Tests |-> "idle"]
    /\ abLock' = Nothing /\ cancelSet' = {}
    /\ recovering' = [ABRecoveryDone EXCEPT
                         !.tests = {t \in Tests : meta[t] # "absent"},
                         !.leases = {t \in Tests : Claimed(jobs[Source], "ab", t)}]
    /\ UNCHANGED <<jobs, meta, failedOf, accepted>>

\* recover_orphaned_tests, in its thread: a test is read, and written later.
ReadOrphan ==
    /\ recovering.at = Nothing
    /\ \E t \in recovering.tests :
          recovering' = [recovering EXCEPT !.tests = @ \ {t},
                            !.at = IF meta[t] \in ActiveMeta THEN t ELSE Nothing,
                            !.read = IF meta[t] \in ActiveMeta THEN meta[t] ELSE Nothing]
    /\ UNCHANGED <<jobs, meta, abPc, failedOf, abLock, cancelSet, accepted, abLeft>>

\* Mutant: a test that was being cancelled stays as it is.
OrphanLeft(status) == IF status = "cancelling" THEN "cancelling" ELSE "failed"

OrphanStatus(status) == IF status = "cancelling" THEN "cancelled" ELSE "failed"

WriteOrphan ==
    /\ recovering.at # Nothing
    /\ SetMeta(recovering.at, OrphanStatus(recovering.read))
    /\ recovering' = [recovering EXCEPT !.at = Nothing, !.read = Nothing]
    /\ UNCHANGED <<jobs, abPc, failedOf, abLock, cancelSet, accepted, abLeft>>

RecoverLease ==
    /\ recovering.tests = {} /\ recovering.at = Nothing
    /\ \E t \in recovering.leases :
          /\ recovering' = [recovering EXCEPT !.leases = @ \ {t}]
          /\ RestoreSTTABTestClaim(Source, t)
    /\ UNCHANGED <<meta, abPc, failedOf, abLock, cancelSet, accepted, abLeft>>

------------------------------------------------------------------------------

TestStep(t) ==
    \/ ReserveTest(t) \/ Admission(t) \/ Diarization(t) \/ BeginTest(t)
    \/ VariantEnds(t) \/ ReleaseSource(t)

RecoveryOfTests == ReadOrphan \/ WriteOrphan \/ RecoverLease

ABNext ==
    \/ \E t \in Tests :
          \/ StartTest(t) \/ TestStep(t) \/ TaskCancelled(t)
          \/ CancelTest(t) \/ DeleteTest(t)
    \/ RecoveryOfTests \/ SourceTaken \/ ABRestart

ABSpec == ABInit /\ [][ABNext]_abVars

------------------------------------------------------------------------------

\* A test that looks active has a task that will end it, and a meeting that is
\* leased has the test that will give it back: or the recovery of this start
\* has yet to come to them, or a write that failed leaves it to the next one.
TestsAreSettled ==
    \A t \in Tests :
        /\ meta[t] \in ActiveMeta =>
              abPc[t] \in {"admission", "diarize", "begin", "A", "B"}
                  \/ t \in recovering.tests \/ t = recovering.at
        /\ Claimed(jobs[Source], "ab", t) =>
              abPc[t] # "idle" \/ t \in recovering.leases

\* A test whose cancellation was accepted never ends as a result.
CancelledTestHasNoResult ==
    \A t \in accepted : meta[t] \notin {"completed", "partial_failed"}
==============================================================================

---------------------------- MODULE AudioAdmission ----------------------------
(***************************************************************************)
(* core/watcher.py: how a file of the input directory becomes a recorded    *)
(* meeting, is moved to the quality quarantine, or waits.  One path and its *)
(* meeting `Self`; a path is examined by one owner at a time, a live event, *)
(* a deferred retry or a scan, which reserves it (`_pending_files`) before  *)
(* its first await.  Contents are numbered: a write gives the file a new    *)
(* fingerprint that never comes back.  Every await of the code is a step    *)
(* boundary at which writers, events, requests, the worker and a crash may  *)
(* come in.                                                                 *)
(***************************************************************************)
EXTENDS JobRows, FiniteSets

CONSTANTS
    Self,            \* the meeting the path names (file stem)
    MaxWrites,       \* bound of the contents written to the path
    MaxScans,        \* bound of crashes (a start scans) and of recovery scans
    MaxRequests,     \* bound of transcription requests
    MaxMoveFaults    \* bound of moves and commits that fail for no reason

ASSUME SelfAssumption == Self \in Meetings

\* Tokens are random, so there is always another one.
ASSUME TokenAssumption == \E t, other \in Tokens : t # other

ASSUME AdmissionBounds ==
    /\ {MaxWrites, MaxScans, MaxRequests, MaxMoveFaults} \subseteq Nat
    /\ MaxWrites > 0 /\ MaxRequests > 0

VARIABLES
    file,        \* content at the path, 0 if there is none
    writing,     \* some process has the path open for writing
    bad,         \* contents that are not usable media
    quarantine,  \* contents moved to the quality quarantine
    artifacts,   \* the meeting has transcript files
    noticed,     \* no change of the path waits to be delivered as an event
    exam,        \* the examination that owns the path
    dirty,       \* _dirty_files: an event came while the path was owned
    closeRetry,  \* _close_retry_paths
    retry,       \* _scheduled_retry_paths: a deferred retry waits or runs
    scan,        \* the scan that holds _startup_scan_lock
    pinned,      \* source identity stored in the rejection claim of a token
    finished,    \* history: contents whose writer closed the file
    examined,    \* history: the last content an examination settled or passed over
    missed,      \* history: a retry or recovery scan dropped a pending change
    admissionLeft \* what is left of the bounds

fileVars == <<file, writing, bad, quarantine, artifacts, noticed>>
watchVars == <<exam, dirty, closeRetry, retry, scan>>
histories == <<pinned, finished, examined, missed>>
admissionVars == <<jobs, fileVars, watchVars, histories, admissionLeft>>

Contents == 1..MaxWrites
Owners == {"live", "retry", "startup", "recovery"}
ReadyActions == {"none", "accept", "quarantine"}

Unowned == [by |-> "none"]

ExamPcs ==
    {"lookup", "audit", "hold", "passed", "settle", "inspect", "validate", "confirm",
     "attested", "renew", "apply", "claim", "move", "finalize", "release", "end"}

\* `row` is the status the lookup returned, `seen` the fingerprint, `action` the
\* prepared ready action, `token` of the rejection claim of this examination.
Examination ==
    [by : Owners, pc : ExamPcs, row : Statuses \cup {"gone"}, seen : {0} \cup Contents,
     action : ReadyActions, token : Tokens \cup {"none"}]

Owned == exam # Unowned
ExamAt(pc) == Owned /\ exam.pc = pc
Existing == exam.row # "gone"
Go(pc) == exam' = [exam EXCEPT !.pc = pc]

\* The step a scan is at, its mode, and the token of the claim it recovers.
NoScan == <<"idle", "none", "none">>
ScanAt(pc, mode) == <<pc, mode, "none">>

Scans ==
    {NoScan} \cup {"claims", "finalize", "list", "exam"} \X {"startup", "recovery"}
                     \X (Tokens \cup {"none"})

\* uuid4().hex: any token but the one in the row.
FreshToken == CHOOSE t \in Tokens : Durable(jobs[Self]) => jobs[Self].action.token # t

\* A new path, or a start with a file and a row from before the quality gate,
\* which take one of the writes and requests.
AdmissionLocals ==
    /\ file \in {0, 1} /\ finished = 1..file /\ bad \in SUBSET finished
    /\ scan = IF file = 0 THEN NoScan ELSE ScanAt("claims", "startup")
    /\ writing = FALSE /\ quarantine = {} /\ artifacts = FALSE /\ noticed = TRUE
    /\ exam = Unowned /\ dirty = FALSE /\ closeRetry = FALSE /\ retry = "none"
    /\ pinned = [t \in Tokens |-> 0] /\ examined = file /\ missed = FALSE
    /\ admissionLeft = [writes |-> MaxWrites - file, scans |-> MaxScans,
                        requests |-> MaxRequests - file, faults |-> MaxMoveFaults]

AdmissionRows ==
    IF file = 0 THEN jobs = [m \in Meetings |-> Gone]
    ELSE \E status \in {"recorded", "queued", "failed"}, s \in Selections :
            jobs = [m \in Meetings |-> Row(status, NoAction, 0, "none", s)]

AdmissionInit == AdmissionLocals /\ AdmissionRows

Spend(what) ==
    /\ admissionLeft[what] > 0
    /\ admissionLeft' = [admissionLeft EXCEPT ![what] = @ - 1]

------------------------------------------------------------------------------
(* The surroundings: writers, requests, the worker. *)

OpenWriter ==
    /\ ~writing
    /\ admissionLeft.writes > 0
    /\ writing' = TRUE
    /\ UNCHANGED <<jobs, file, bad, quarantine, artifacts, noticed, watchVars,
                   histories, admissionLeft>>

\* Creating, appending to or replacing the file; the event comes later.
Write ==
    /\ writing
    /\ Spend("writes")
    /\ file' = MaxWrites - admissionLeft.writes + 1
    /\ \E b \in {{}, {file'}} : bad' = bad \cup b
    /\ noticed' = FALSE
    /\ UNCHANGED <<jobs, writing, quarantine, artifacts, watchVars, histories>>

CloseWriter ==
    /\ writing
    /\ writing' = FALSE
    /\ finished' = finished \cup {file}
    /\ UNCHANGED <<jobs, file, bad, quarantine, artifacts, noticed, watchVars, pinned,
                   examined, missed, admissionLeft>>

\* A transcription request, the worker taking the job, and its end: results
\* are complete, or the run fails before or after its first results.
Request ==
    /\ Spend("requests")
    /\ \E intent \in Intents, s \in Selections : QueueJob(Self, intent, s)
    /\ UNCHANGED <<fileVars, watchVars, histories>>

RunStarts ==
    /\ ClaimQueuedJobForProcessing(Self)
    /\ UNCHANGED <<fileVars, watchVars, histories, admissionLeft>>

RunEnds ==
    /\ jobs[Self].status = "transcribing"
    /\ \E results \in BOOLEAN, end \in {"completed", "failed"} :
          /\ end = "completed" => results
          /\ artifacts' = (artifacts \/ results)
          /\ Store(Self, [jobs[Self] EXCEPT
                             !.status = end, !.action = NoAction,
                             !.error = IF end = "failed" THEN "other" ELSE "none"])
    /\ UNCHANGED <<file, writing, bad, quarantine, noticed, watchVars, histories,
                   admissionLeft>>

------------------------------------------------------------------------------
(* Starting and ending an examination. *)

NewExam(by) ==
    [by |-> by, pc |-> "lookup", row |-> "gone", seen |-> 0, action |-> "none",
     token |-> "none"]

\* An event handler runs up to its first await: it gives up a file that is
\* not there, marks an owned path dirty, or reserves the path.
Reserve(by) ==
    IF file = 0
    THEN UNCHANGED <<exam, dirty>>
    ELSE IF Owned
    THEN dirty' = TRUE /\ UNCHANGED exam
    ELSE exam' = NewExam(by) /\ UNCHANGED dirty

HandleEvent ==
    /\ ~noticed
    /\ noticed' = TRUE
    /\ Reserve("live")
    /\ UNCHANGED <<jobs, file, writing, bad, quarantine, artifacts, closeRetry, retry,
                   scan, histories, admissionLeft>>

\* The deferred retry after its delay.  One that finds the path owned marks it
\* dirty and is over.
RunRetry ==
    /\ retry = "waiting"
    /\ Reserve("retry")
    /\ retry' = IF exam' # exam THEN "running" ELSE "none"
    /\ closeRetry' = (closeRetry /\ exam' # exam)
    /\ UNCHANGED <<jobs, fileVars, scan, histories, admissionLeft>>

\* Mutant: the end of an examination forgets the events that came meanwhile.
NeedsRetryForgetful == closeRetry

NeedsRetry == dirty \/ closeRetry

\* The path is given back.  A retry never schedules another one, a recovery
\* scan schedules none and no scan does for a row it passes over: what they
\* drop is `missed`.
EndExamination ==
    /\ ExamAt("end") \/ ExamAt("passed")
    /\ exam' = Unowned /\ dirty' = FALSE /\ closeRetry' = FALSE
    /\ IF exam.by = "live" \/ (exam.by = "startup" /\ ExamAt("end"))
       THEN /\ retry' = IF NeedsRetry THEN "waiting" ELSE retry
            /\ UNCHANGED missed
       ELSE /\ retry' = IF exam.by = "retry" THEN "none" ELSE retry
            /\ missed' = (missed \/ dirty \/ closeRetry)
    /\ scan' = IF exam.by \in {"startup", "recovery"} THEN NoScan ELSE scan
    /\ UNCHANGED <<jobs, fileVars, pinned, finished, examined, admissionLeft>>

\* _process_batch, live or not: the file is left for a retry and the job, if
\* there is one, is put on hold.
GiveUp == Go(IF Existing THEN "release" ELSE "end")

------------------------------------------------------------------------------
(* Lookup and audit of a row that exists. *)

Lookup ==
    /\ ExamAt("lookup")
    /\ exam' = [exam EXCEPT !.row = jobs[Self].status,
                            !.pc = IF jobs[Self] # Gone THEN "audit"
                                   ELSE IF exam.by \in {"live", "retry"} THEN "settle"
                                   ELSE "inspect"]
    /\ UNCHANGED <<jobs, fileVars, dirty, closeRetry, retry, scan, histories, admissionLeft>>

Auditable(status) == status \in {"recorded", "queued", "failed"} /\ ~artifacts

\* The checks read the row as it was looked up and the directories as they are.
Audit ==
    /\ ExamAt("audit")
    /\ LET passed == exam.by = "recovery" \/ ~Auditable(exam.row) IN
       /\ exam' = [exam EXCEPT
                      !.row = "recorded",
                      !.pc = IF passed THEN "passed"
                             ELSE IF exam.row # "recorded" THEN "hold"
                             ELSE IF exam.by = "startup" THEN "inspect" ELSE "settle"]
       /\ examined' = IF passed THEN file ELSE examined
    /\ UNCHANGED <<jobs, fileVars, dirty, closeRetry, retry, scan, pinned, finished,
                   missed, admissionLeft>>

HoldForAudit ==
    /\ ExamAt("hold")
    /\ IF jobs[Self].status \in {"queued", "failed"}
       THEN /\ HoldJobForAudioAdmission(Self, FreshToken)
            /\ Go(IF exam.by = "startup" THEN "inspect" ELSE "settle")
            /\ UNCHANGED examined
       ELSE Go("passed") /\ examined' = file /\ UNCHANGED jobs
    /\ UNCHANGED <<fileVars, dirty, closeRetry, retry, scan, pinned, finished, missed,
                   admissionLeft>>

\* _release_legacy_job: a job that could run or show as failed waits instead.
Release ==
    /\ ExamAt("release")
    /\ Go("end")
    /\ IF jobs[Self].status \in {"queued", "failed"}
       THEN HoldJobForAudioAdmission(Self, FreshToken)
       ELSE UNCHANGED jobs
    /\ UNCHANGED <<fileVars, dirty, closeRetry, retry, scan, histories, admissionLeft>>

------------------------------------------------------------------------------
(* Readiness, validation and the last look. *)

\* _wait_for_stable_size: the file is there and nobody writes it, or the wait
\* ends: a probe is undecided or finds a writer until the deadline, the file
\* keeps changing, or it is gone.
Settle ==
    /\ ExamAt("settle")
    /\ \/ file # 0 /\ ~writing /\ Go("inspect") /\ UNCHANGED closeRetry
       \/ file # 0 /\ GiveUp /\ closeRetry' = TRUE
       \/ (file = 0 \/ dirty \/ ~noticed) /\ GiveUp /\ UNCHANGED closeRetry
    /\ UNCHANGED <<jobs, fileVars, dirty, retry, scan, histories, admissionLeft>>

\* The fingerprint that everything after is compared with.  A scan takes it
\* when it lists the file and confirms it after the debounce.
Inspect ==
    /\ ExamAt("inspect")
    /\ \/ /\ file # 0
          /\ exam.by \in {"startup", "recovery"} => ~writing
          /\ exam' = [exam EXCEPT !.seen = file, !.pc = "validate"]
          /\ UNCHANGED closeRetry
       \/ /\ file = 0 \/ exam.by \in {"startup", "recovery"}
          /\ GiveUp
          /\ closeRetry' = (closeRetry \/ exam.by \in {"startup", "recovery"})
    /\ UNCHANGED <<jobs, fileVars, dirty, retry, scan, histories, admissionLeft>>

Unchanged(seen) == file = seen

\* The verdict counts only if the file was the same before and after it was
\* measured.  A measurement that fails or decides nothing releases the job.
Validate ==
    /\ ExamAt("validate")
    /\ IF ~Unchanged(exam.seen)
       THEN GiveUp /\ closeRetry' = TRUE /\ UNCHANGED examined
       ELSE /\ examined' = file
            /\ UNCHANGED closeRetry
            /\ \/ GiveUp
               \/ LET verdict == IF file \in bad THEN "quarantine" ELSE "accept" IN
                  exam' = [exam EXCEPT
                             !.action = verdict,
                             !.pc = IF exam.by = "recovery" /\ verdict # "accept"
                                    THEN "end" ELSE "confirm"]
    /\ UNCHANGED <<jobs, fileVars, dirty, retry, scan, pinned, finished, missed, admissionLeft>>

\* Mutant: the last look does not ask whether somebody writes the file.
ConfirmedBusy(seen) == file = seen

Confirmed(seen) == file = seen /\ ~writing

\* _confirm_closed_unchanged, which may also fail because the probe does.  A
\* scan confirms new files in parallel and looks once more before it acts.
Confirm ==
    /\ ExamAt("confirm") \/ ExamAt("renew")
    /\ \/ /\ Confirmed(exam.seen)
          /\ Go(IF /\ ExamAt("confirm") /\ exam.action = "accept" /\ ~Existing
                   /\ exam.by \in {"startup", "recovery"}
                THEN "attested" ELSE "apply")
          /\ UNCHANGED closeRetry
       \/ GiveUp /\ closeRetry' = TRUE
    /\ UNCHANGED <<jobs, fileVars, dirty, retry, scan, histories, admissionLeft>>

\* An attestation that is too old is renewed.
Attested ==
    /\ ExamAt("attested")
    /\ IF Unchanged(exam.seen)
       THEN \E pc \in {"apply", "renew"} : Go(pc) /\ UNCHANGED closeRetry
       ELSE Go("end") /\ closeRetry' = TRUE
    /\ UNCHANGED <<jobs, fileVars, dirty, retry, scan, histories, admissionLeft>>

------------------------------------------------------------------------------
(* The ready action. *)

\* Registration is refused when a row has appeared meanwhile; an accepted hold
\* goes back to what was asked for, unless a request has replaced it.
Accept ==
    /\ ExamAt("apply") /\ exam.action = "accept"
    /\ Go("end")
    /\ IF Existing
       THEN IF jobs[Self] # Gone /\ jobs[Self].action.kind = "hold"
                 /\ CanFinalizeHold(jobs[Self], jobs[Self].action.token)
            THEN FinalizeAudioAdmissionHold(Self, jobs[Self].action.token)
            ELSE UNCHANGED jobs
       ELSE IF jobs[Self] = Gone
            THEN \E s \in Selections : AddJob(Self, "recorded", s)
            ELSE UNCHANGED jobs
    /\ UNCHANGED <<fileVars, dirty, closeRetry, retry, scan, histories, admissionLeft>>

\* move_to_quarantine(_exact): refuses another identity, or fails.
MoveAway(seen) ==
    /\ file = seen
    /\ quarantine' = quarantine \cup {file}
    /\ file' = 0
    /\ UNCHANGED <<writing, bad, artifacts, noticed>>

QuarantineNew ==
    /\ ExamAt("apply") /\ exam.action = "quarantine" /\ ~Existing
    /\ Go("end")
    /\ \/ MoveAway(exam.seen) /\ UNCHANGED admissionLeft
       \/ file # exam.seen /\ UNCHANGED <<fileVars, admissionLeft>>
       \/ Spend("faults") /\ UNCHANGED fileVars
    /\ UNCHANGED <<jobs, dirty, closeRetry, retry, scan, histories>>

\* _reject_existing_media_invalid: the checks before the claim.
BeginRejection ==
    /\ ExamAt("apply") /\ exam.action = "quarantine" /\ Existing
    /\ Go(IF artifacts \/ file # exam.seen THEN "end" ELSE "claim")
    /\ UNCHANGED <<jobs, fileVars, dirty, closeRetry, retry, scan, histories, admissionLeft>>

ClaimRejection ==
    /\ ExamAt("claim")
    /\ IF jobs[Self].status \in {"recorded", "queued", "failed"}
       THEN /\ ClaimForAudioRejection(Self, FreshToken)
            /\ pinned' = [pinned EXCEPT ![FreshToken] = exam.seen]
            /\ exam' = [exam EXCEPT !.token = FreshToken, !.pc = "move"]
       ELSE Go("end") /\ UNCHANGED <<jobs, pinned>>
    /\ UNCHANGED <<fileVars, dirty, closeRetry, retry, scan, finished, examined, missed,
                   admissionLeft>>

\* Mutant: results that appeared before the claim are not looked for again.
ResultsIgnored == FALSE

ResultsAppeared == artifacts

MoveRejected ==
    /\ ExamAt("move")
    /\ IF ResultsAppeared
       THEN Go("end") /\ UNCHANGED <<fileVars, admissionLeft>>
       ELSE \/ MoveAway(exam.seen) /\ Go("finalize") /\ UNCHANGED admissionLeft
            \/ file # exam.seen /\ Go("end") /\ UNCHANGED <<fileVars, admissionLeft>>
            \/ Spend("faults") /\ Go("end") /\ UNCHANGED fileVars
    /\ UNCHANGED <<jobs, dirty, closeRetry, retry, scan, histories>>

FinalizeRejection ==
    /\ ExamAt("finalize")
    /\ Go("end")
    /\ IF Claimed(jobs[Self], "reject", exam.token)
       THEN \/ FinalizeAudioRejection(Self, exam.token) /\ UNCHANGED admissionLeft
            \/ Spend("faults") /\ UNCHANGED jobs
       ELSE UNCHANGED <<jobs, admissionLeft>>
    /\ UNCHANGED <<fileVars, dirty, closeRetry, retry, scan, histories>>

------------------------------------------------------------------------------
(* Scans and the recovery of rejection claims. *)

\* The user asks for unregistered files to be recovered.
RequestRecovery ==
    /\ scan = NoScan
    /\ Spend("scans")
    /\ scan' = ScanAt("list", "recovery")
    /\ UNCHANGED <<jobs, fileVars, exam, dirty, closeRetry, retry, histories>>

ClaimToRecover ==
    jobs[Self].status = "recording" /\ jobs[Self].action.kind = "reject" /\ ~artifacts


\* Mutant: a file of any identity in the input directory is taken for the
\* rejected one.
SourceAnyOnly(source) == file # 0 /\ source \notin quarantine

SourceOnly(source) == file = source /\ source \notin quarantine

\* Mutant: a claim whose file was already moved is not resumed.
MovedIsAmbiguous(source) == FALSE

QuarantineOnly(source) == file = 0 /\ source \in quarantine

Recoverable ==
    /\ ClaimToRecover
    /\ LET source == pinned[jobs[Self].action.token] IN
       SourceOnly(source) \/ QuarantineOnly(source)

RecoverClaim ==
    /\ scan = ScanAt("claims", "startup")
    /\ \/ /\ Recoverable
          /\ scan' = <<"finalize", "startup", jobs[Self].action.token>>
          /\ IF file = 0 THEN UNCHANGED fileVars ELSE MoveAway(file)
          /\ UNCHANGED admissionLeft
       \/ /\ Recoverable
          /\ Spend("faults")
          /\ scan' = ScanAt("list", "startup")
          /\ UNCHANGED fileVars
       \/ /\ ~Recoverable
          /\ scan' = ScanAt("list", "startup")
          /\ UNCHANGED <<fileVars, admissionLeft>>
    /\ UNCHANGED <<jobs, exam, dirty, closeRetry, retry, histories>>

\* Both places are looked at again before the row goes.
FinalizeRecovered ==
    /\ scan[1] = "finalize"
    /\ scan' = ScanAt("list", "startup")
    /\ IF QuarantineOnly(pinned[scan[3]]) /\ Claimed(jobs[Self], "reject", scan[3])
       THEN \/ FinalizeAudioRejection(Self, scan[3]) /\ UNCHANGED admissionLeft
            \/ Spend("faults") /\ UNCHANGED jobs
       ELSE UNCHANGED <<jobs, admissionLeft>>
    /\ UNCHANGED <<fileVars, exam, dirty, closeRetry, retry, histories>>

\* The scan comes to the file: not there, owned by a live event, or reserved.
ScanFile ==
    /\ scan[1] = "list"
    /\ Reserve(scan[2])
    /\ scan' = IF exam' # exam THEN ScanAt("exam", scan[2]) ELSE NoScan
    /\ UNCHANGED <<jobs, fileVars, closeRetry, retry, histories, admissionLeft>>

\* The process dies or stops; memory is lost, and the next start scans.
Restart ==
    /\ Spend("scans")
    /\ exam' = Unowned /\ dirty' = FALSE /\ closeRetry' = FALSE /\ retry' = "none"
    /\ scan' = ScanAt("claims", "startup")
    /\ noticed' = TRUE
    /\ UNCHANGED <<jobs, file, writing, bad, quarantine, artifacts, histories>>

------------------------------------------------------------------------------

ExamStep ==
    \/ Lookup \/ Audit \/ HoldForAudit \/ Release \/ Settle \/ Inspect \/ Validate
    \/ Confirm \/ Attested \/ Accept \/ QuarantineNew \/ BeginRejection
    \/ ClaimRejection \/ MoveRejected \/ FinalizeRejection \/ EndExamination

ScanStep == RecoverClaim \/ FinalizeRecovered \/ ScanFile

Surroundings ==
    \/ OpenWriter \/ Write \/ CloseWriter \/ Request \/ RunStarts \/ RunEnds
    \/ RequestRecovery \/ Restart

AdmissionNext == ExamStep \/ ScanStep \/ HandleEvent \/ RunRetry \/ Surroundings

AdmissionFairness ==
    /\ WF_admissionVars(ExamStep)
    /\ WF_admissionVars(ScanStep)
    /\ WF_admissionVars(HandleEvent)
    /\ WF_admissionVars(RunRetry)

AdmissionSpec ==
    AdmissionInit /\ [][AdmissionNext]_admissionVars /\ AdmissionFairness

------------------------------------------------------------------------------
(* Properties. *)

\* Types of the watcher's state and of the row it works on.
AdmissionTypeOK ==
    /\ jobs[Self] \in Rows \cup {Gone}
    /\ file \in {0} \cup Contents
    /\ {writing, artifacts, noticed, dirty, closeRetry, missed} \subseteq BOOLEAN
    /\ quarantine \cup bad \cup finished \subseteq {0} \cup Contents
    /\ exam = Unowned \/ exam \in Examination
    /\ retry \in {"none", "waiting", "running"}
    /\ scan \in Scans

\* What the watcher lets become a meeting, or puts back in the queue, is a
\* recording its writer had closed and that is usable media, whatever was
\* written to the path while it was looked up, validated and confirmed.
AdmittedIsFinished ==
    [][(ExamAt("apply") /\ exam' # exam /\ jobs' # jobs) =>
          exam.seen \in finished \ bad]_admissionVars

\* A row disappears only for a finished recording that is bad media, after the
\* very file the claim names has reached the quarantine and while the meeting
\* has no results; and nothing else ever reaches the quarantine.
OnlyBadMediaLeaves ==
    [][/\ jobs[Self] # Gone /\ jobs'[Self] = Gone =>
             /\ pinned[jobs[Self].action.token] \in quarantine
             /\ ~artifacts
       /\ quarantine' \subseteq finished \cap bad]_admissionVars

\* A recording that is complete is looked at, or its row is passed over, unless
\* it changes again or its event fell into a deferred retry or a recovery scan.
ChangeIsExamined ==
    (file # 0 /\ ~writing) ~> (file \in {0, examined} \/ writing \/ missed)

\* The file of a rejection claim is in exactly one of its two places.
Unambiguous ==
    /\ ClaimToRecover
    /\ LET source == pinned[jobs[Self].action.token] IN
       \/ file = source /\ source \notin quarantine
       \/ file = 0 /\ source \in quarantine

\* A startup scan that finds a rejection claim with its file in exactly one of
\* the two places finishes the rejection, or something changed on the way.
RejectionSettles ==
    (scan = ScanAt("claims", "startup") /\ Unambiguous)
        ~> (~ClaimToRecover \/ ~Unambiguous \/ admissionLeft.faults < MaxMoveFaults)
================================================================================

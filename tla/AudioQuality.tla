----------------------------- MODULE AudioQuality -----------------------------
(***************************************************************************)
(* core/audio_quality.py: the verdict of the quality gate as a function of  *)
(* what ffprobe and ffmpeg reported.  Outputs are abstracted to what the    *)
(* parsers look for: diagnostics, the sample count and the mean volume.     *)
(* "media" is a diagnostic at the start of a line, "mediaSuffix" one after  *)
(* a path, which counts only for a process that failed.                     *)
(***************************************************************************)
EXTENDS Integers, FiniteSets

CONSTANTS MinDuration, MinMean   \* audio_quality.min_duration_seconds, min_mean_volume_db

ASSUME QualityAssumption == MinDuration \in Nat /\ MinMean \in Int

Missing == -1     \* a value the output does not contain

Marks == {"security", "busy", "media", "mediaSuffix"}

\* _classify_process_failure
Classified(marks, default) ==
    IF "security" \in marks THEN "security"
    ELSE IF "busy" \in marks THEN "busy"
    ELSE IF marks \cap {"media", "mediaSuffix"} # {} THEN "media"
    ELSE default

\* _measure_duration_seconds: `runs` is FALSE for a missing tool, a timeout or
\* an OS error; `duration` is Missing when the JSON has no usable value.
Probed(probe) ==
    IF ~probe.runs THEN [failure |-> "infra"]
    ELSE IF probe.code # 0 THEN [failure |-> Classified(probe.marks, "infra")]
    ELSE IF probe.duration = Missing THEN [failure |-> "infra"]
    ELSE [failure |-> "none", duration |-> probe.duration]

MeasureError(failure, duration) == [failure |-> failure, duration |-> duration]

\* Mutant: a decode that broke off early is taken for a short recording.
ShortOnlyByLength(decode) == "media"

\* Why a decode that yielded too few samples did: only a clean exit, or a media
\* diagnostic, makes it a short recording.
ShortBecause(decode) ==
    Classified(decode.marks, IF decode.code = 0 THEN "media" ELSE "infra")

\* _measure_mean_volume_db
Decoded(decode) ==
    LET diagnostic == "media" \in decode.marks
        unread == IF diagnostic THEN "media" ELSE Classified(decode.marks, "infra")
    IN
    IF ~decode.runs THEN MeasureError("infra", Missing)
    ELSE IF /\ decode.samples # Missing /\ decode.samples < MinDuration
            /\ ShortBecause(decode) = "media"
         THEN MeasureError("media", decode.samples)
    ELSE IF decode.samples = Missing THEN MeasureError(unread, Missing)
    ELSE IF decode.mean = Missing THEN MeasureError(unread, decode.samples)
    ELSE IF decode.code # 0 \/ diagnostic
         THEN MeasureError(Classified(decode.marks, IF diagnostic THEN "media" ELSE "infra"),
                           decode.samples)
    ELSE [failure |-> "none", duration |-> decode.samples, mean |-> decode.mean]

Verdict(status, failure) == [status |-> status, failure |-> failure]
PolicyReject == Verdict("reject", "media")
MeasurementError(failure) == Verdict("error", failure)
Lesser(a, b) == IF a < b THEN a ELSE b

\* Mutant: what only ffprobe cannot read counts as broken media.
ProbeFailureAlone(failure) == failure

\* A file ffmpeg decodes cleanly is not bad because ffprobe cannot read it.
ProbeFailure(failure) == IF failure = "media" THEN "infra" ELSE failure

\* validate_audio_quality
Validated(probe, decode) ==
    LET probed == Probed(probe)
        decoded == Decoded(decode)
        duration == IF probed.failure = "none"
                    THEN Lesser(decoded.duration, probed.duration)
                    ELSE decoded.duration
    IN
    IF probed.failure \in {"security", "busy"} THEN MeasurementError(probed.failure)
    ELSE IF decoded.failure # "none"
    THEN IF decoded.failure = "media" /\ decoded.duration \in 0..(MinDuration - 1)
         THEN PolicyReject
         ELSE MeasurementError(decoded.failure)
    ELSE IF duration < MinDuration THEN PolicyReject
    ELSE IF decoded.mean < MinMean THEN PolicyReject
    ELSE IF probed.failure # "none" THEN MeasurementError(ProbeFailure(probed.failure))
    ELSE Verdict("accept", "none")

------------------------------------------------------------------------------

ProbeReports ==
    [runs : {TRUE}, code : {0}, marks : {{}}, duration : {Missing} \cup 0..3]
        \cup [runs : {FALSE}, code : {0}, marks : {{}}, duration : {Missing}]
        \cup [runs : {TRUE}, code : {1}, marks : SUBSET Marks, duration : {Missing}]

DecodeReports ==
    [runs : BOOLEAN, code : {0, 1}, marks : SUBSET Marks, samples : {Missing} \cup 0..3,
     mean : {Missing} \cup 0..2]

QualityCases == [probe : ProbeReports, decode : DecodeReports]

QualityResult(c) == Validated(c.probe, c.decode)

\* The gate accepts exactly what both tools read completely and found long and
\* loud enough, and calls media bad (which allows a move to the quarantine) only
\* on evidence from a decode that ran: too short, too quiet, or a diagnostic.
QualityAsIntended(c, verdict) ==
    LET short == \/ c.decode.samples \in 0..(MinDuration - 1)
                 \/ c.probe.code = 0 /\ c.probe.duration \in 0..(MinDuration - 1)
        quiet == c.decode.mean \in 0..(MinMean - 1)
        diagnosed == c.decode.marks \cap {"media", "mediaSuffix"} # {}
        clean == /\ c.decode.runs /\ c.decode.code = 0 /\ "media" \notin c.decode.marks
                 /\ c.decode.samples # Missing /\ c.decode.mean # Missing
    IN
    /\ verdict.status = "accept" <=>
         (c.probe.code = 0 /\ c.probe.duration # Missing /\ clean /\ ~short /\ ~quiet
            /\ c.probe.runs)
    /\ verdict.failure = "media" =>
         c.decode.runs /\ (diagnosed \/ (c.decode.code = 0 /\ (short \/ quiet)))
    /\ verdict.failure = "media" /\ clean => short \/ quiet
==============================================================================

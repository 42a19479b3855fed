--------------------------- MODULE CloudTranscription ---------------------------
(***************************************************************************)
(* A transcription by the paid service: steps/openai_transcriber.py and the *)
(* part of the transcribe step that calls it.  The recording is cut into    *)
(* chunks in a private folder, every chunk is sent once and its answer kept *)
(* on disk, so that a cancelled or crashed run sends again only what it has *)
(* no answer for.  The recording may be replaced, a chunk touched and a     *)
(* kept answer damaged by another process meanwhile.                        *)
(***************************************************************************)
EXTENDS FiniteSets, Sequences, Naturals

CONSTANTS
    ChunkCount,      \* chunks of a recording
    MaxCloudRuns,    \* bound of the runs
    MaxCloudFaults,  \* bound of crashes, failed writes and answers, foreign writes
    MaxRecordings    \* bound of the recordings under the same name

\* A recording has a chunk, and there is one.
ASSUME CloudAssumption == ChunkCount \in Nat \ {0} /\ MaxRecordings \in Nat \ {0}

VARIABLES
    recording,   \* the recording in place, numbered
    cloudRun,    \* the run
    answers,     \* kept answers: [chunk -> "none", "whole" or "damaged"]
    folders,     \* chunk folders: of the run, of an abandoned run, of a dead process
    text,        \* the stored transcript: its chunks in order, <<>> when none
    dropped,     \* the meeting was deleted
    paid,        \* history: answers the service gave for each chunk
    lost,        \* history: chunks whose answer could not be kept
    cloudRuns, cloudFaults

cloudVars == <<recording, cloudRun, answers, folders, text, dropped, paid, lost,
               cloudRuns, cloudFaults>>

\* A chunk is its position and the recording its bytes come from, 0 for bytes of
\* another process: the index and the sha256 of _cache_filename.
ChunkIds == (1..ChunkCount) \X (0..MaxRecordings)

NoRun == [step |-> "none", held |-> 0, encoded |-> 0, next |-> 1, parts |-> <<>>,
          touched |-> {}, asked |-> FALSE, cancelled |-> FALSE]

CloudInit ==
    /\ recording = 1
    /\ cloudRun = NoRun
    /\ answers = [c \in ChunkIds |-> "none"]
    /\ folders = {} /\ text = <<>> /\ dropped = FALSE
    /\ paid = [c \in ChunkIds |-> 0] /\ lost = {}
    /\ cloudRuns = 0 /\ cloudFaults = 0

InStep(steps) == cloudRun.step \in steps
Proceeds(step) == cloudRun' = [cloudRun EXCEPT !.step = step]
Fails == Proceeds("leave")
KeepsDisk == UNCHANGED <<recording, answers, text, dropped, cloudRuns>>
KeepsBill == UNCHANGED <<paid, lost, cloudFaults>>
Faulted == cloudFaults < MaxCloudFaults /\ cloudFaults' = cloudFaults + 1

\* Mutant: the name is trusted.
NameIsEnough == TRUE

\* _assert_identity and its kin, the whole stat of the file compared.
SameRecording == recording = cloudRun.held

------------------------------------------------------------------------------

\* _run_step_transcribe without a stored transcript: the WAV that is accepted.
AcceptRecording ==
    /\ InStep({"none"}) /\ text = <<>> /\ ~dropped /\ cloudRuns < MaxCloudRuns
    /\ cloudRuns' = cloudRuns + 1
    /\ cloudRun' = [NoRun EXCEPT !.step = "accepted", !.held = recording]
    /\ UNCHANGED <<recording, answers, text, dropped, folders>> /\ KeepsBill

\* transcribe up to its first await: a cancellation, no key and another recording
\* refuse it.
BeginUpload ==
    /\ InStep({"accepted"})
    /\ \/ SameRecording /\ ~cloudRun.asked /\ Proceeds("quality")
       \/ Fails
    /\ KeepsDisk /\ KeepsBill /\ UNCHANGED folders

\* _require_audio_quality, in a thread: a refusal or a changed recording fails.
QualityMeasured ==
    /\ InStep({"quality"})
    /\ \/ SameRecording /\ Proceeds("open")
       \/ Fails
    /\ KeepsDisk /\ KeepsBill /\ UNCHANGED folders

\* _prepared_chunks, in a thread: the private folder, and the recording held open.
OpenRecording ==
    /\ InStep({"open"})
    /\ IF SameRecording
       THEN /\ cloudRun' = [cloudRun EXCEPT !.step = "encode", !.encoded = recording]
            /\ folders' = folders \cup {"mine"}
       ELSE Fails /\ UNCHANGED folders
    /\ KeepsDisk /\ KeepsBill

\* ffmpeg over the descriptor, then the descriptor and the name looked at again.
Encode ==
    /\ InStep({"encode"})
    /\ \/ SameRecording /\ Proceeds("chunk")
       \/ Fails
    /\ KeepsDisk /\ KeepsBill /\ UNCHANGED folders

\* A task that is cancelled while the thread encodes leaves it to its end; the
\* generator's own cleanup removes the folder then.
LeaveThread ==
    /\ InStep({"encode"}) /\ "orphan" \notin folders
    /\ cloudRun' = [NoRun EXCEPT !.step = "leave"]
    /\ folders' = (folders \ {"mine"}) \cup {"orphan"}
    /\ KeepsDisk /\ KeepsBill

EncodingEnds ==
    /\ "orphan" \in folders
    /\ folders' = folders \ {"orphan"}
    /\ UNCHANGED cloudRun /\ KeepsDisk /\ KeepsBill

\* What the next upload sends.
Chunk ==
    <<cloudRun.next,
      IF cloudRun.next \in cloudRun.touched THEN 0 ELSE cloudRun.encoded>>

\* _read_chunk_for_upload: the inode that was prepared, unchanged while read.
ChunkUntouched == cloudRun.next \notin cloudRun.touched

\* The chunk is appended: transcribe's segments.extend.
Extended(run) ==
    [run EXCEPT !.parts = Append(@, Chunk), !.next = @ + 1,
                !.step = IF run.next = ChunkCount THEN "whole" ELSE "chunk"]

\* _discard_corrupt_cache_entry
Discarded == [answers EXCEPT ![Chunk] = "none"]

\* The head of the loop, with _read_cached_response: a kept answer is used, a
\* damaged one removed and the run failed, and without one the chunk is sent.
TakeChunk ==
    /\ InStep({"chunk"})
    /\ IF cloudRun.asked \/ ~ChunkUntouched
       THEN Fails /\ UNCHANGED answers
       ELSE CASE answers[Chunk] = "whole" ->
                   cloudRun' = Extended(cloudRun) /\ UNCHANGED answers
              [] answers[Chunk] = "damaged" ->
                   Fails /\ answers' = Discarded
              [] answers[Chunk] = "none" -> Proceeds("request") /\ UNCHANGED answers
    /\ UNCHANGED <<recording, text, dropped, cloudRuns, folders>> /\ KeepsBill

\* The service answers, and bills the chunk.
Answer ==
    /\ InStep({"request"})
    /\ Proceeds("answered")
    /\ paid' = [paid EXCEPT ![Chunk] = @ + 1]
    /\ KeepsDisk /\ UNCHANGED <<lost, cloudFaults, folders>>

\* _default_transport raises: no answer, though the service may have billed it.
RequestFails ==
    /\ InStep({"request"}) /\ Faulted
    /\ paid' \in {paid, [paid EXCEPT ![Chunk] = @ + 1]}
    /\ lost' = lost \cup {Chunk}
    /\ Fails /\ KeepsDisk /\ UNCHANGED folders

\* _parse_response refuses the answer before it is kept.
AnswerOdd ==
    /\ InStep({"answered"}) /\ Faulted
    /\ lost' = lost \cup {Chunk}
    /\ Fails /\ KeepsDisk /\ UNCHANGED <<paid, folders>>

\* Mutant: a cancelled task stops before its answer is written.
CancelledUnkept == cloudRun.cancelled

\* Whether an answer that arrived is left unwritten: never for a cancellation.
Unkept == FALSE

\* _write_cached_response, one atomic replacement, and only then the cancellations
\* that arrived meanwhile.
KeepAnswer ==
    /\ InStep({"answered"})
    /\ answers' = IF Unkept THEN answers ELSE [answers EXCEPT ![Chunk] = "whole"]
    /\ IF cloudRun.cancelled \/ cloudRun.asked THEN Fails ELSE cloudRun' = Extended(cloudRun)
    /\ UNCHANGED <<recording, text, dropped, cloudRuns, folders>> /\ KeepsBill

AnswerNotWritten ==
    /\ InStep({"answered"}) /\ Faulted
    /\ lost' = lost \cup {Chunk}
    /\ Fails /\ KeepsDisk /\ UNCHANGED <<paid, folders>>

\* Leaving the chunks' context removes their folder; rmtree may leave it behind.
RemovesFolder ==
    \/ folders' = folders \ {"mine"} /\ UNCHANGED cloudFaults
    \/ folders' = folders /\ "mine" \in folders /\ Faulted

LeaveFailed ==
    /\ InStep({"leave"}) /\ RemovesFolder
    /\ cloudRun' = NoRun
    /\ KeepsDisk /\ UNCHANGED <<paid, lost>>

\* The same on success, and the recording looked at a last time.
LeaveWhole ==
    /\ InStep({"whole"}) /\ RemovesFolder
    /\ cloudRun' = IF SameRecording /\ ~cloudRun.cancelled
                   THEN [cloudRun EXCEPT !.step = "store"] ELSE NoRun
    /\ KeepsDisk /\ UNCHANGED <<paid, lost>>

\* _save_result_checkpoint
StoreText ==
    /\ InStep({"store"})
    /\ text' = cloudRun.parts
    /\ Proceeds("clear")
    /\ UNCHANGED <<recording, answers, dropped, cloudRuns, folders>> /\ KeepsBill

NoAnswers == [c \in ChunkIds |-> "none"]

\* cleanup_resume_cache after it; a failure is logged and leaves the answers.
ClearAnswers ==
    /\ InStep({"clear"})
    /\ cloudRun' = NoRun
    /\ \/ answers' = NoAnswers /\ UNCHANGED cloudFaults
       \/ UNCHANGED answers /\ Faulted
    /\ UNCHANGED <<recording, text, dropped, cloudRuns, folders, paid, lost>>

\* cleanup_meeting_openai_resume_caches, before a deletion commits: the lease keeps
\* the meeting's run away.
DeleteWithAnswers ==
    /\ InStep({"none"}) /\ ~dropped
    /\ answers' = NoAnswers /\ dropped' = TRUE /\ text' = <<>>
    /\ UNCHANGED <<recording, cloudRun, cloudRuns, folders>> /\ KeepsBill

\* The user's cancellation is looked at between the chunks, the stop of the
\* processor cancels the task; a request in flight is awaited all the same.
AskToCancel ==
    /\ ~InStep({"none", "leave", "store", "clear"}) /\ ~cloudRun.asked
    /\ cloudRun' = [cloudRun EXCEPT !.asked = TRUE]
    /\ KeepsDisk /\ KeepsBill /\ UNCHANGED folders

CancelTask ==
    /\ InStep({"quality", "open", "request", "whole"}) /\ ~cloudRun.cancelled
    /\ cloudRun' = IF InStep({"request", "whole"})
                   THEN [cloudRun EXCEPT !.cancelled = TRUE]
                   ELSE [NoRun EXCEPT !.step = "leave"]
    /\ KeepsDisk /\ KeepsBill /\ UNCHANGED folders

\* The folders of this process outlive it; what the service answers to a request in
\* flight is lost.
CloudCrash ==
    /\ Faulted
    /\ cloudRun' = NoRun
    /\ folders' = IF folders = {} THEN {} ELSE {"old"}
    /\ IF InStep({"request", "answered"})
       THEN /\ lost' = lost \cup {Chunk}
            /\ paid' \in {paid, IF InStep({"request"}) THEN [paid EXCEPT ![Chunk] = @ + 1]
                                                    ELSE paid}
       ELSE UNCHANGED <<paid, lost>>
    /\ KeepsDisk

\* cleanup_stale_openai_temp_dirs when the processor starts, before any run: the
\* folders whose process is dead.
ClearOldFolders ==
    /\ "old" \in folders /\ InStep({"none"})
    /\ folders' = folders \ {"old"}
    /\ UNCHANGED cloudRun /\ KeepsDisk /\ KeepsBill

\* Another process: a new recording under the name, a chunk file written to, a kept
\* answer spoilt.
ReplaceRecording ==
    /\ recording < MaxRecordings
    /\ recording' = recording + 1
    /\ UNCHANGED <<cloudRun, answers, text, dropped, cloudRuns, folders>> /\ KeepsBill

TouchChunk(i) ==
    /\ "mine" \in folders /\ InStep({"chunk", "request", "answered"})
    /\ i \notin cloudRun.touched /\ i > Len(cloudRun.parts)
    /\ InStep({"request", "answered"}) => i # cloudRun.next
    /\ Faulted
    /\ cloudRun' = [cloudRun EXCEPT !.touched = @ \cup {i}]
    /\ KeepsDisk /\ UNCHANGED <<folders, paid, lost>>

SpoilAnswer(c) ==
    /\ answers[c] = "whole" /\ Faulted
    /\ answers' = [answers EXCEPT ![c] = "damaged"]
    /\ lost' = lost \cup {c}
    /\ UNCHANGED <<recording, cloudRun, text, dropped, cloudRuns, folders, paid>>

CloudNext ==
    \/ AcceptRecording \/ BeginUpload \/ QualityMeasured \/ OpenRecording \/ Encode
    \/ LeaveThread \/ EncodingEnds \/ TakeChunk \/ Answer \/ RequestFails
    \/ AnswerOdd \/ KeepAnswer \/ AnswerNotWritten \/ LeaveFailed \/ LeaveWhole \/ StoreText
    \/ ClearAnswers \/ DeleteWithAnswers \/ AskToCancel \/ CancelTask \/ CloudCrash
    \/ ClearOldFolders \/ ReplaceRecording
    \/ \E i \in 1..ChunkCount : TouchChunk(i)
    \/ \E c \in ChunkIds : SpoilAnswer(c)

CloudSpec == CloudInit /\ [][CloudNext]_cloudVars

------------------------------------------------------------------------------

\* A stored transcript is every chunk, in order, of one recording that was in
\* place under the name, never of two of them or of what another process wrote.
TextIsOfOneRecording ==
    text # <<>> => \E r \in 1..recording : text = [i \in 1..ChunkCount |-> <<i, r>>]

\* The recording that is sent is the one the run accepted: transcribe compares it
\* before, while and after it is encoded.
SendsWhatWasAccepted ==
    InStep({"request", "answered"}) => Chunk = <<cloudRun.next, cloudRun.held>>

\* No chunk is paid for twice, whatever is cancelled and run again, unless its
\* answer could not be kept: the purpose transcribe gives for awaiting a request
\* that was cancelled.
PaidOnce == \A c \in ChunkIds \ lost : paid[c] <= 1

\* Without a crash or a failed removal no folder with the meeting's sound is left
\* behind by a run that ended, and a deleted meeting leaves no answers.
NothingLeftBehind ==
    /\ cloudFaults = 0 /\ InStep({"none"}) => folders \subseteq {"orphan"}
    /\ dropped => answers = NoAnswers

\* What the paid transcription keeps, whoever cancels, crashes or interferes.
CloudKept ==
    TextIsOfOneRecording /\ SendsWhatWasAccepted /\ PaidOnce /\ NothingLeftBehind
================================================================================

-------------------------------- MODULE Services --------------------------------
(***************************************************************************)
(* The services around the queue and the processor, each with its own state *)
(* and its own concurrency.  To keep the product of their states out of a   *)
(* run, one of them, `serviceSubject`, moves in a behaviour while the       *)
(* others stay in one of their initial states.                              *)
(***************************************************************************)
EXTENDS BulkCohort, ABTests, BatchRequests, TitleJobs, PipelineRun, SearchIndex,
        ModelLoad, SpeechModels, Configuration, UserSettings, AudioQuality, Wiki,
        Lifecycle, Chat, CloudTranscription, DurableFile

VARIABLE serviceSubject

ServiceNames ==
    {"stages", "bulk", "ab", "batch", "titles", "pipeline", "search", "models", "speech",
     "config", "settings", "quality", "wiki", "lifecycle", "chat", "cloud", "files"}

bulkLocals == <<bulk, checkpoint, bulkFlags, flagging, changed, bulkLeft>>
batchOwn == <<artifacts, post, background, autoRun, autoLock, batchActor, taken, batchLeft>>
titleOwn == <<titled, transcript, titleEvents, admission, pending, items, titleWork, undoing,
              titleLeft>>

serviceVars ==
    <<serviceSubject, jobs, work, alive, executing, bulkLocals, abLocals, receipts,
      outcome, batchOwn, titleOwn, pipeVars, searchVars, modelVars, speechVars, configVars,
      settingVars, wikiVars, lifecycleVars, chatVars, cloudVars, durableVars>>

\* The same client posts each of its requests once more: every post has one id.
PostsOfOne == [p \in Posts |-> CHOOSE r \in Requests : TRUE]

\* A stage table in which one meeting is left to do.
OneToDo ==
    [m \in StagedMeetings |->
        IF m = Source THEN Enqueued({m})[m]
        ELSE [s \in StageNumbers |-> [Queued EXCEPT !.status = "completed"]]]

ServicesInit ==
    /\ serviceSubject \in ServiceNames
    /\ CASE serviceSubject = "bulk"  -> BulkRows
         [] serviceSubject = "batch" -> BatchRows
         [] OTHER                    -> ABRows
    /\ \A m \in Meetings \ {Source} : serviceSubject = "batch" => jobs[m].status = "recorded"
    /\ alive = Sessions /\ executing = {}
    /\ work = IF serviceSubject = "stages" THEN OneToDo ELSE Enqueued(StagedMeetings)
    /\ BulkLocals
    /\ \A m \in StagedMeetings : checkpoint[m] = 0
    /\ ABLocals
    /\ BatchLocals
    /\ \A m \in Listed : artifacts[m] = "transcribe" \/ (serviceSubject = "batch" /\ m = Source)
    /\ serviceSubject # "batch" => batchActor = "requests"
    /\ TitlesInit /\ (\A m \in Listed :
          m \notin Titled \/ serviceSubject # "titles" => titled[m].status = "busy")
    /\ PipeInit /\ SearchInit /\ ModelInit
    /\ SpeechInit /\ (serviceSubject # "speech" => cached = {})
    /\ ConfigInit
    /\ serviceSubject # "config" =>
          ~key /\ ~config.auto /\ config = CHOOSE c \in Configs : c.provider # "openai" /\ ~c.auto
    /\ SettingInit
    /\ WikiInit
    /\ LifecycleInit /\ (serviceSubject # "lifecycle" => entries[Flac] = NoAudio)
    /\ ChatInit /\ CloudInit
    /\ DurableInit
    /\ serviceSubject # "files" => placed = <<>> /\ \A w \in FileWriters : Is(w, {"plain"})

\* Whoever is not the subject keeps its state; the rows, the stage table and the
\* receipts belong to more than one.
Others(subject) ==
    /\ UNCHANGED serviceSubject
    /\ IF subject \in {"bulk", "ab", "batch"} THEN TRUE ELSE UNCHANGED jobs
    /\ IF subject \in {"stages", "bulk"} THEN TRUE ELSE UNCHANGED work
    /\ IF subject \in {"batch", "titles"} THEN TRUE ELSE UNCHANGED <<receipts, outcome>>
    /\ IF subject = "stages" THEN TRUE ELSE UNCHANGED <<alive, executing>>
    /\ IF subject = "bulk" THEN TRUE ELSE UNCHANGED bulkLocals
    /\ IF subject = "ab" THEN TRUE ELSE UNCHANGED abLocals
    /\ IF subject = "batch" THEN TRUE ELSE UNCHANGED batchOwn
    /\ IF subject = "titles" THEN TRUE ELSE UNCHANGED titleOwn
    /\ IF subject = "pipeline" THEN TRUE ELSE UNCHANGED pipeVars
    /\ IF subject = "search" THEN TRUE ELSE UNCHANGED searchVars
    /\ IF subject = "models" THEN TRUE ELSE UNCHANGED modelVars
    /\ IF subject = "speech" THEN TRUE ELSE UNCHANGED speechVars
    /\ IF subject = "config" THEN TRUE ELSE UNCHANGED configVars
    /\ IF subject = "settings" THEN TRUE ELSE UNCHANGED settingVars
    /\ IF subject = "wiki" THEN TRUE ELSE UNCHANGED wikiVars
    /\ IF subject = "lifecycle" THEN TRUE ELSE UNCHANGED lifecycleVars
    /\ IF subject = "chat" THEN TRUE ELSE UNCHANGED chatVars
    /\ IF subject = "cloud" THEN TRUE ELSE UNCHANGED cloudVars
    /\ IF subject = "files" THEN TRUE ELSE UNCHANGED durableVars

ServicesNext ==
    \/ serviceSubject = "stages" /\ StageWorkNext /\ Others("stages")
    \/ serviceSubject = "bulk" /\ BulkNext /\ Others("bulk")
    \/ serviceSubject = "ab" /\ ABNext /\ Others("ab")
    \/ serviceSubject = "batch" /\ BatchNext /\ Others("batch")
    \/ serviceSubject = "titles" /\ TitlesNext /\ Others("titles")
    \/ serviceSubject = "pipeline" /\ PipeNext /\ Others("pipeline")
    \/ serviceSubject = "search" /\ SearchNext /\ Others("search")
    \/ serviceSubject = "models" /\ ModelNext /\ Others("models")
    \/ serviceSubject = "speech" /\ SpeechNext /\ Others("speech")
    \/ serviceSubject = "config" /\ ConfigNext /\ Others("config")
    \/ serviceSubject = "settings" /\ SettingNext /\ Others("settings")
    \/ serviceSubject = "wiki" /\ WikiNext /\ Others("wiki")
    \/ serviceSubject = "lifecycle" /\ LifecycleNext /\ Others("lifecycle")
    \/ serviceSubject = "chat" /\ ChatNext /\ Others("chat")
    \/ serviceSubject = "cloud" /\ CloudNext /\ Others("cloud")
    \/ serviceSubject = "files" /\ DurableNext /\ Others("files")

ServicesSpec == ServicesInit /\ [][ServicesNext]_serviceVars

------------------------------------------------------------------------------
(* What a run checks of more than one of them. *)

\* A meeting that was lent comes back: an A/B test that looks active has a task
\* or a recovery that will end it and its lease, a cancelled test keeps no
\* result (ab_test_runner.py), and no end of a bulk cohort leaves a member in a
\* running status or a cancellation open (orchestrator.py).
MeetingsComeBack ==
    /\ serviceSubject = "ab" => TestsAreSettled /\ CancelledTestHasNoResult
    /\ serviceSubject = "bulk" => CohortStrandsNone

\* What an accepted request says happened, whether it is posted twice, follows a
\* restart or meets the nightly run (meetings_batch.py, auto_processing.py).
RequestsAreKept == serviceSubject = "batch" => ReceiptsTellTheTruth

\* The stage table: each stage runs under one claim and after those it depends on
\* (stage_work_queue.py), and a cohort records no more of it than is on disk and
\* begins no stage of a meeting it dropped (orchestrator.py).
StagesAreEarned ==
    [][/\ serviceSubject = "stages" => StageUnderClaim
       /\ serviceSubject = "bulk" => StageFollowsRow]_serviceVars

\* A generated title replaces only the title its request was accepted with, and an
\* undo only the generated one (title_jobs.py).
TitlesRespectUsers == [][serviceSubject = "titles" => TitleStep]_serviceVars

\* The models: no native thread loses the model under it (model_manager.py), and
\* of the downloads of speech models one runs at a time and none is stuck
\* (stt_model_downloader.py).
ModelsAreSafe ==
    /\ serviceSubject = "models" => ModelsAreNotPulledAway
    /\ serviceSubject = "speech" => DownloadsAlone

\* What is told comes from what the meetings say now: a search serves no text
\* older than its question, an answer none that was edited while it was made, and
\* the wiki loses no item to one failed or odd compilation (hybrid_search.py,
\* chat.py, wiki/compiler.py).
AnswersAreCurrent ==
    /\ serviceSubject = "search" => SearchServesCurrentText
    /\ serviceSubject = "chat" => ChatKept
    /\ serviceSubject = "wiki" => WikiKept

\* What is stored stays whole: the settings through requests that fail or are
\* undone, the vocabulary through one fault, and any state file through crashes
\* and concurrent writes (settings.py, user_settings.py, io_utils.py).
StoresStayWhole ==
    /\ serviceSubject = "config" => ConfigurationHolds
    /\ serviceSubject = "settings" => OneFaultKeepsSettings
    /\ serviceSubject = "files" => FilesKept

\* The sound of a meeting: judged by what both tools report, in every case, sent
\* once and as one recording, and removed only where a whole copy is left
\* (audio_quality.py, openai_transcriber.py, lifecycle.py).
SoundIsHandled ==
    /\ serviceSubject = "quality" =>
          \A c \in QualityCases : QualityAsIntended(c, QualityResult(c))
    /\ serviceSubject = "cloud" => CloudKept
    /\ serviceSubject = "lifecycle" => SoundIsKept
==================================================================================

------------------------------ MODULE SpeechModels ------------------------------
(***************************************************************************)
(* core/stt_model_downloader.py and the import of api/routers/stt_models.py: *)
(* how the files of a speech model come to the disk.  A download is a task  *)
(* with a thread that no cancellation stops; an import is a handler without *)
(* a suspension point, so that only the thread moves while it copies.  Both *)
(* write <name>.tmp in the model's directory and rename it.                 *)
(***************************************************************************)
EXTENDS Naturals, FiniteSets

CONSTANTS
    SpeechModelIds,   \* the registered models
    MaxDownloads      \* bound of the downloads and imports

ASSUME SpeechModelAssumption == MaxDownloads \in Nat

VARIABLES
    cached,       \* models with a complete snapshot in the cache of the hub
    modelFile,    \* per model, the files of its directory: what is in them
    partFile,     \* per model, the same of the .tmp files
    download,     \* _jobs: the status of each model's last download
    fetching,     \* per model, what its task does
    importing,    \* the import under way
    shuttingDown, \* whether close() was called
    downloads     \* how many downloads and imports there were

speechVars == <<cached, modelFile, partFile, download, fetching, importing, shuttingDown, downloads>>

Files == {"config", "weights"}
NoFetch == [way |-> "none"]
NoImport == [model |-> "none"]
Absent == [f \in Files |-> "absent"]

SpeechInit ==
    /\ cached \in SUBSET SpeechModelIds
    /\ modelFile = [m \in SpeechModelIds |-> Absent]
    /\ partFile = [m \in SpeechModelIds |-> Absent]
    /\ download = [m \in SpeechModelIds |-> "none"]
    /\ fetching = [m \in SpeechModelIds |-> NoFetch]
    /\ importing = NoImport
    /\ shuttingDown = FALSE /\ downloads = 0

\* get_model_status: what the files hold is not looked at.
ModelReady(m) == m \in cached \/ \A f \in Files : modelFile[m][f] # "absent"

LoopFree == importing = NoImport

\* Mutant: a download is refused only while the same model is downloaded.
ConflictOnSame(m) == download[m] = "downloading"

Conflict(m) == \E other \in SpeechModelIds : download[other] = "downloading"

StartDownload(m, way) ==
    /\ LoopFree /\ ~shuttingDown /\ downloads < MaxDownloads
    /\ ~Conflict(m)
    /\ downloads' = downloads + 1
    /\ download' = [download EXCEPT ![m] = "downloading"]
    /\ fetching' = [fetching EXCEPT ![m] =
          IF way = "hub" THEN [way |-> "hub"]
          ELSE [way |-> "direct", file |-> "config", at |-> "asks", cancelled |-> FALSE]]
    /\ UNCHANGED <<cached, modelFile, partFile, importing, shuttingDown>>

Settled(m, status) ==
    /\ download' = [download EXCEPT ![m] = status]
    /\ fetching' = [fetching EXCEPT ![m] = NoFetch]

\* snapshot_download, then _verify; a cancelled task gets here as well.
HubEnds(m) ==
    /\ LoopFree /\ fetching[m].way = "hub"
    /\ \E came \in BOOLEAN :
          /\ cached' = IF came THEN cached \cup {m} ELSE cached
          /\ Settled(m, IF came /\ ~shuttingDown THEN "ready" ELSE "error")
    /\ UNCHANGED <<modelFile, partFile, importing, shuttingDown, downloads>>

Direct(m, at) == fetching[m].way = "direct" /\ fetching[m].at = at
Stands(m, at) == fetching' = [fetching EXCEPT ![m].at = at]

\* _download_one, in the thread: the old .tmp goes, a new one is opened.
OpenPart(m) ==
    /\ Direct(m, "asks")
    /\ LET f == fetching[m].file IN
       \/ Stands(m, "receives") /\ partFile' = [partFile EXCEPT ![m][f] = "opened"]
       \/ Stands(m, "failed") /\ partFile' = [partFile EXCEPT ![m][f] = "absent"]
    /\ UNCHANGED <<cached, modelFile, download, importing, shuttingDown, downloads>>

\* The thread writes to the file it opened, wherever an import moved it.  A
\* connection that ends early looks like the end of the file.
EndOfPart(m) ==
    /\ Direct(m, "receives")
    /\ LET f == fetching[m].file IN
       \/ \E content \in {"whole", "cut"} :
             /\ Stands(m, "received")
             /\ IF partFile[m][f] = "opened"
                THEN partFile' = [partFile EXCEPT ![m][f] = content] /\ UNCHANGED modelFile
                ELSE IF partFile[m][f] = "mixed"
                THEN UNCHANGED <<partFile, modelFile>>
                ELSE /\ modelFile' = [modelFile EXCEPT ![m][f] =
                                        IF @ = "opened" THEN content ELSE "mixed"]
                     /\ UNCHANGED partFile
       \/ /\ Stands(m, "failed")
          /\ partFile' = [partFile EXCEPT ![m][f] = "absent"] /\ UNCHANGED modelFile
    /\ UNCHANGED <<cached, download, importing, shuttingDown, downloads>>

\* os.replace: if an import took the .tmp away, it raises.
PublishPart(m) ==
    /\ Direct(m, "received")
    /\ LET f == fetching[m].file IN
       IF partFile[m][f] = "absent"
       THEN Stands(m, "failed") /\ UNCHANGED <<modelFile, partFile>>
       ELSE /\ modelFile' = [modelFile EXCEPT ![m][f] = partFile[m][f]]
            /\ partFile' = [partFile EXCEPT ![m][f] = "absent"]
            /\ Stands(m, "published")
    /\ UNCHANGED <<cached, download, importing, shuttingDown, downloads>>

\* _await_thread_result: the task goes on when the thread has ended, also if
\* it was cancelled meanwhile.
ThreadAnswers(m) ==
    /\ LoopFree /\ (Direct(m, "published") \/ Direct(m, "failed"))
    /\ IF Direct(m, "failed") \/ fetching[m].cancelled
       THEN Settled(m, "error")
       ELSE IF fetching[m].file = "config"
       THEN /\ fetching' = [fetching EXCEPT ![m].file = "weights", ![m].at = "asks"]
            /\ UNCHANGED download
       ELSE Settled(m, IF ModelReady(m) THEN "ready" ELSE "error")
    /\ UNCHANGED <<cached, modelFile, partFile, importing, shuttingDown, downloads>>

\* Mutant: clear_job forgets a running download too.
ClearsAnything(m) == "none"

\* clear_job
Cleared(m) == IF download[m] = "downloading" THEN download[m] ELSE "none"

\* list_stt_models: an old error of a model that is there.
ListModels(m) ==
    /\ LoopFree /\ download[m] = "error" /\ ModelReady(m)
    /\ download' = [download EXCEPT ![m] = Cleared(m)]
    /\ UNCHANGED <<cached, modelFile, partFile, fetching, importing, shuttingDown, downloads>>

------------------------------------------------------------------------------
(* import_stt_manual: per file, a copy to .tmp and a rename. *)

StartImport(m) ==
    /\ LoopFree /\ ~shuttingDown /\ downloads < MaxDownloads
    /\ downloads' = downloads + 1
    /\ importing' = [model |-> m, file |-> "config", at |-> "copies"]
    /\ UNCHANGED <<cached, modelFile, partFile, download, fetching, shuttingDown>>

Receiving(m, f) == Direct(m, "receives") /\ fetching[m].file = f

\* The copy truncates a .tmp that a download still writes.
CopyFile ==
    /\ importing # NoImport /\ importing.at = "copies"
    /\ LET m == importing.model  f == importing.file IN
       partFile' = [partFile EXCEPT ![m][f] = IF Receiving(m, f) THEN "mixed" ELSE "whole"]
    /\ importing' = [importing EXCEPT !.at = "copied"]
    /\ UNCHANGED <<cached, modelFile, download, fetching, shuttingDown, downloads>>

ImportEnds(m) ==
    /\ importing' = NoImport
    /\ download' = [download EXCEPT ![m] = Cleared(m)]

PlaceFile ==
    /\ importing # NoImport /\ importing.at = "copied"
    /\ LET m == importing.model  f == importing.file IN
       IF partFile[m][f] = "absent"
       THEN importing' = NoImport /\ UNCHANGED <<modelFile, partFile, download>>
       ELSE /\ modelFile' = [modelFile EXCEPT ![m][f] = partFile[m][f]]
            /\ partFile' = [partFile EXCEPT ![m][f] = "absent"]
            /\ IF f = "weights" THEN ImportEnds(m)
               ELSE /\ importing' = [importing EXCEPT !.file = "weights", !.at = "copies"]
                    /\ UNCHANGED download
    /\ UNCHANGED <<cached, fetching, shuttingDown, downloads>>

ImportFails ==
    /\ importing # NoImport
    /\ importing' = NoImport
    /\ UNCHANGED <<cached, modelFile, partFile, download, fetching, shuttingDown, downloads>>

\* close(): the tasks are cancelled and waited for.
CloseDownloader ==
    /\ LoopFree /\ ~shuttingDown /\ shuttingDown' = TRUE
    /\ fetching' = [m \in SpeechModelIds |->
          IF fetching[m].way = "direct" THEN [fetching[m] EXCEPT !.cancelled = TRUE] ELSE fetching[m]]
    /\ UNCHANGED <<cached, modelFile, partFile, download, importing, downloads>>

SpeechNext ==
    \/ \E m \in SpeechModelIds :
          \/ StartDownload(m, "hub") \/ StartDownload(m, "direct")
          \/ HubEnds(m) \/ OpenPart(m) \/ EndOfPart(m) \/ PublishPart(m) \/ ThreadAnswers(m)
          \/ ListModels(m) \/ StartImport(m)
    \/ CopyFile \/ PlaceFile \/ ImportFails \/ CloseDownloader

SpeechSpec == SpeechInit /\ [][SpeechNext]_speechVars

\* One download runs at a time and the job that refuses the others is its own:
\* a job that says "downloading" has a task, so that nothing is refused for
\* ever, and a task has such a job whatever imports, lists and cancellations
\* do to the jobs.
DownloadsAlone ==
    /\ Cardinality({m \in SpeechModelIds : fetching[m] # NoFetch}) <= 1
    /\ \A m \in SpeechModelIds : (download[m] = "downloading") = (fetching[m] # NoFetch)
================================================================================

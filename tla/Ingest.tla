--------------------------------- MODULE Ingest ---------------------------------
(***************************************************************************)
(* How recordings come in: the watcher with the queue, the recorder with    *)
(* the Zoom detector, and the upload requests.  They meet only in the input *)
(* directory, where the others are writers to the watcher; to keep the      *)
(* product of their states out of a run, one of them, `ingestSubject`,      *)
(* moves in a behaviour while the others stay in one of their initial       *)
(* states.                                                                  *)
(***************************************************************************)
EXTENDS AudioAdmission, ZoomDetector, Uploads

VARIABLE ingestSubject

ingestVars == <<admissionVars, recorderVars, uploadVars, ingestSubject>>

IngestInit ==
    /\ ingestSubject \in {"watcher", "recorder", "uploads"}
    /\ AdmissionInit
    /\ ZoomInit
    /\ UploadInit
    /\ ingestSubject # "watcher" => file = 0
    /\ ingestSubject # "recorder" => ~zoomMeeting /\ zoomLoop = "stopped"
    /\ ingestSubject # "uploads" => \A n \in Candidates : names[n] = NoEntry

IngestNext ==
    \/ /\ ingestSubject = "watcher" /\ AdmissionNext
       /\ UNCHANGED <<recorderVars, uploadVars, ingestSubject>>
    \/ /\ ingestSubject = "recorder" /\ ZoomNext
       /\ UNCHANGED <<admissionVars, uploadVars, ingestSubject>>
    \/ /\ ingestSubject = "uploads" /\ UploadNext
       /\ UNCHANGED <<admissionVars, recorderVars, ingestSubject>>

IngestSpec ==
    IngestInit /\ [][IngestNext]_ingestVars /\ AdmissionFairness /\ RecFairness
================================================================================

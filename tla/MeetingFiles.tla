------------------------------ MODULE MeetingFiles ------------------------------
(***************************************************************************)
(* The two operations that move the files of a meeting under a durable      *)
(* claim: re-transcription and deletion, with the recovery each has in a    *)
(* start of the server that already serves requests.  Their claims exclude  *)
(* each other (JobQueue), so one of them, `filesSubject`, moves in a        *)
(* behaviour.                                                               *)
(***************************************************************************)
EXTENDS Retranscribe, Deletion

VARIABLE filesSubject

redoLocals == <<redoFiles, redoPc, undone, starting, before, redoLeft>>
deletionLocals == <<files, handler, recovery, issued, budget>>
meetingFilesVars == <<jobs, redoLocals, deletionLocals, filesSubject>>

MeetingFilesInit ==
    /\ filesSubject \in {"redo", "deletion"}
    /\ IF filesSubject = "redo" THEN RedoRows ELSE DRows
    /\ RedoLocals
    /\ filesSubject = "deletion" =>
          \A m \in Meetings : RedoAt(m, "none") = {RedoMarker} /\ indexed[m]
    /\ DLocals

MeetingFilesNext ==
    \/ /\ filesSubject = "redo" /\ RedoNext
       /\ UNCHANGED <<deletionLocals, filesSubject>>
    \/ /\ filesSubject = "deletion" /\ DNext
       /\ UNCHANGED <<redoLocals, filesSubject>>

\* Handlers and recovery are asyncio tasks that run while the process is up.
MeetingFilesSpec ==
    /\ MeetingFilesInit /\ [][MeetingFilesNext]_meetingFilesVars
    /\ RedoFairness /\ DFairness
================================================================================

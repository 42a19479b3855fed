----------------------------- MODULE ZoomDetector -----------------------------
(***************************************************************************)
(* steps/zoom_detector.py with the callback of api/server.py: a poll loop   *)
(* that turns the edges of Zoom's activity into starts and stops of the     *)
(* recorder, awaited one after the other in the loop's own task.  The task  *)
(* is one of the recorder's callers.                                        *)
(***************************************************************************)
EXTENDS Recorder

CONSTANT Zoom      \* the caller that is the detector's task

ASSUME ZoomAssumption == Zoom \in Callers

VARIABLES
    zoomMeeting,   \* Zoom has a meeting, as a check would see
    zoomSeen,      \* _is_meeting_active
    zoomLoop,      \* "polling", "stopping" (cancelled), "stopped"
    zoomStarted    \* history: the recording the start callback began

zoomVars == <<zoomMeeting, zoomSeen, zoomLoop, zoomStarted>>
recorderVars == <<recVars, zoomVars>>

ZoomTask == <<"request", Zoom>>

\* The server starts the detector, or runs without it.
ZoomInit ==
    /\ RecInit
    /\ zoomMeeting \in BOOLEAN /\ zoomSeen = FALSE /\ zoomStarted = 0
    /\ zoomLoop \in {"polling", "stopped"}

MeetingChanges ==
    /\ zoomMeeting' = ~zoomMeeting
    /\ UNCHANGED <<recVars, zoomSeen, zoomLoop, zoomStarted>>

BetweenPolls == zoomLoop = "polling" /\ recPc[ZoomTask] = "idle"

\* _handle_state_change, the first check of start() included: only an edge
\* calls back, and the loop goes on when the callback has returned.
Edge ==
    /\ BetweenPolls
    /\ zoomMeeting # zoomSeen
    /\ zoomSeen' = zoomMeeting
    /\ Continue(ZoomTask, IF zoomMeeting THEN "startLock" ELSE "stopLock")
    /\ UNCHANGED <<recState, recLock, recCleaning, recNow, recTracks, held, ffmpeg,
                   outcome, recLeft, zoomMeeting, zoomLoop, zoomStarted>>

\* Mutant: a check without a result counts as no meeting.
UndecidedEnds ==
    /\ BetweenPolls
    /\ zoomSeen' = FALSE
    /\ UNCHANGED <<recVars, zoomMeeting, zoomLoop, zoomStarted>>

\* A check that fails or times out keeps what was seen; the loop backs off.
Undecided == BetweenPolls /\ UNCHANGED recorderVars

\* stop() cancels the task, which may be anywhere in its callback, waits for
\* it, and forgets the meeting without calling back.
StopDetector ==
    /\ zoomLoop = "polling"
    /\ zoomLoop' = "stopping"
    /\ UNCHANGED <<recVars, zoomMeeting, zoomSeen, zoomStarted>>

DetectorStopped ==
    /\ zoomLoop = "stopping" /\ recPc[ZoomTask] = "idle"
    /\ zoomLoop' = "stopped" /\ zoomSeen' = FALSE
    /\ UNCHANGED <<recVars, zoomMeeting, zoomStarted>>

ZoomStep == Edge \/ Undecided \/ StopDetector \/ DetectorStopped

\* What the recorder does; the server cleans up once the detector has stopped.
RecorderStep ==
    /\ \/ \E t \in RecTasks : RecTaskStep(t)
       \/ \E t \in RecTasks \ {ZoomTask} : RecRequest(t)
       \/ StartFails(ZoomTask)
       \/ zoomLoop = "stopping" /\ (StopCancelled(ZoomTask) \/ WaitCancelled(ZoomTask))
       \/ \E r \in Recordings : GuardFires(r)
       \/ zoomLoop = "stopped" /\ BeginCleanup
       \/ RecCleanupStep
    /\ zoomStarted' = IF recPc[ZoomTask] = "startLock" /\ recLock' = ZoomTask /\ zoomSeen
                      THEN recNow' ELSE zoomStarted
    /\ UNCHANGED <<zoomMeeting, zoomSeen, zoomLoop>>

ZoomNext == RecorderStep \/ ZoomStep \/ MeetingChanges

ZoomSpec == ZoomInit /\ [][ZoomNext]_recorderVars /\ RecFairness

\* Between two polls, a recording that Zoom started and that is still running
\* belongs to a meeting the detector has seen begin and not end, although users
\* start and stop recordings while the callbacks wait for the lock.
ZoomRecordingStops ==
    BetweenPolls /\ recNow # 0 /\ recNow = zoomStarted => zoomSeen
==============================================================================

----------------------------- MODULE IngestProofs -----------------------------
(***************************************************************************)
(* Proofs about the ways recordings come in, for every set of callers,     *)
(* uploads, contents and tokens and all bounds.  Recorder and Zoom: no     *)
(* ffmpeg process outlives the recorder's memory of it, and a recording    *)
(* that Zoom started does not outlive the meeting the detector has seen.   *)
(* Watcher: what is admitted is finished and usable, what leaves is        *)
(* neither.  Uploads: a request takes nothing that is not its own.         *)
(***************************************************************************)
EXTENDS Ingest, JobRowsProofs

------------------------------------------------------------------------------
(* The inductive invariant. *)

StartPcs == {"select", "spawn", "announce", "undo"}
StopPcs == {"cancelGuard", "terminate", "save"}
LockPcs == StartPcs \cup StopPcs
RecPcs ==
    LockPcs \cup {"idle", "startLock", "sleeping", "stopLock", "notify", "checkLock",
                  "killLock", "doneLock"}

RecTyped ==
    /\ recState \in {"idle", "recording", "stopping"}
    /\ recLock \in RecTasks \cup {Nobody}
    /\ recNow \in 0..MaxRecordings
    /\ recPc \in [RecTasks -> RecPcs]
    /\ recLeft \in [recordings : 0..MaxRecordings, disturbances : 0..MaxDisturbances]

\* `_state_lock` is held by the task that is between taking and giving it back.
LockInv == \A t \in RecTasks : recPc[t] \in LockPcs <=> recLock = t

\* What is alive is remembered, and nothing is remembered once the lock is free
\* and the recorder idle.
MemoryInv ==
    /\ ffmpeg \subseteq held
    /\ recLock = Nobody => recState # "stopping"
    /\ recLock = Nobody /\ recState = "idle" => held = {} /\ recNow = 0
    /\ \A t \in RecTasks :
          /\ recPc[t] = "announce" => recState = "recording"
          /\ recPc[t] = "save" => ffmpeg = {}

\* No start begins while the cleanup is under way, so that what it has found
\* empty stays empty to its end.
CleanerInv ==
    /\ recPc[Cleaner] # "idle" => recCleaning
    /\ recPc[Cleaner] \notin StartPcs \cup {"startLock"}
    /\ recPc[Cleaner] = "doneLock" => recLock = Nobody /\ recState = "idle"

StartedSoFar == MaxRecordings - recLeft.recordings

\* A recording has no guard before it runs: the task that starts it, which may
\* be the guard of an earlier one, is not cancelled as its own guard.
GuardInv ==
    /\ recNow <= StartedSoFar
    /\ \A r \in Recordings : r > StartedSoFar => recPc[Guard(r)] = "idle"
    /\ \A t \in RecTasks : recPc[t] \in {"select", "spawn"} =>
          recNow \in Recordings /\ recPc[Guard(recNow)] = "idle"

RecInv == RecTyped /\ LockInv /\ MemoryInv /\ CleanerInv /\ GuardInv

------------------------------------------------------------------------------

\* The tasks are told apart by their names.
LEMMA Distinct ==
    /\ Nobody \notin RecTasks /\ Cleaner \in RecTasks /\ Cleaner \notin RecRequests
    /\ \A r \in Recordings : Guard(r) \in RecTasks /\ Guard(r) # Cleaner
    /\ \A r : Guard(r) \notin RecRequests
    /\ \A r, s \in Recordings : Guard(r) = Guard(s) => r = s
    /\ RecRequests \subseteq RecTasks
  BY DEF Nobody, RecTasks, RecRequests, Cleaner, Guard

\* A task outside the lock moves to another place outside the lock.
LEMMA OutsideMove ==
    ASSUME RecInv, NEW t \in RecTasks, NEW pc \in RecPcs \ LockPcs, Continue(t, pc),
           recPc[t] \notin LockPcs,
           t = Cleaner => (pc # "idle" => recCleaning) /\ pc # "startLock",
           pc = "doneLock" => t = Cleaner /\ recLock = Nobody /\ recState = "idle",
           \A r \in Recordings : t = Guard(r) => pc = "idle" \/ recPc[t] # "idle",
           UNCHANGED <<recState, recLock, recCleaning, recNow, held, ffmpeg>>,
           UNCHANGED recLeft \/ Disturb
    PROVE  RecInv'
  <1> USE RecorderBounds DEF RecInv, RecTyped, Continue, Disturb
  <1>1. recPc'[t] = pc /\ \A u \in RecTasks : u # t => recPc'[u] = recPc[u]
    OBVIOUS
  <1>2. RecTyped'
    OBVIOUS
  <1>3. LockInv'
    BY <1>1, Distinct DEF LockInv
  <1>4. MemoryInv'
    BY <1>1 DEF MemoryInv, LockPcs, StartPcs, StopPcs
  <1>5. CleanerInv'
    BY <1>1, Distinct DEF CleanerInv, LockPcs
  <1>6. GuardInv'
    BY <1>1, Distinct DEF GuardInv, StartedSoFar, LockPcs, StartPcs
  <1> QED
    BY <1>2, <1>3, <1>4, <1>5, <1>6

\* The task that holds the lock is the only one that does.
LEMMA OneHolder ==
    ASSUME RecInv, NEW t \in RecTasks, recPc[t] \in LockPcs
    PROVE  /\ recLock = t /\ recLock # Nobody
           /\ \A u \in RecTasks : u # t => recPc[u] \notin LockPcs
  BY Distinct DEF RecInv, LockInv

------------------------------------------------------------------------------
(* Starting. *)

LEMMA EnterStartKeeps ==
    ASSUME RecInv, NEW t \in RecTasks, EnterStart(t)
    PROVE  RecInv'
  <1> USE RecorderBounds DEF RecInv, RecTyped
  <1>0. recPc[t] = "startLock" /\ t # Cleaner => recPc[t] \notin LockPcs
    BY DEF LockPcs, StartPcs, StopPcs
  <1>1. CASE ~StartAllowed
    BY <1>0, <1>1, OutsideMove, Distinct DEF EnterStart, RecPcs, LockPcs, StartPcs, StopPcs
  <1>2. CASE StartAllowed
    <2>1. /\ recLock = Nobody /\ recLock' = t /\ recState = "idle" /\ ~recCleaning
          /\ recPc[t] = "startLock"
          /\ recPc' = [recPc EXCEPT ![t] = "select"]
          /\ recNow' = StartedSoFar + 1 /\ recNow' \in Recordings
          /\ recLeft' \in [recordings : 0..MaxRecordings, disturbances : 0..MaxDisturbances]
          /\ recLeft'.recordings = recLeft.recordings - 1
          /\ UNCHANGED <<recState, recCleaning, held, ffmpeg>>
      BY <1>2, RecorderBounds DEF EnterStart, StartAllowed, RecAcquire, Continue,
                                  StartedSoFar, Recordings
    <2>2. recPc'[t] = "select" /\ \A u \in RecTasks : u # t => recPc'[u] = recPc[u]
      BY <2>1
    <2>3. RecTyped'
      BY <2>1 DEF RecPcs, LockPcs, StartPcs, Recordings
    <2>4. LockInv'
      BY <2>1, <2>2, Distinct DEF LockInv, LockPcs, StartPcs
    <2>5. MemoryInv'
      BY <2>1, <2>2, Distinct DEF MemoryInv
    <2>6. recPc[Cleaner] = "idle"
      BY <2>1 DEF CleanerInv
    <2>7. CleanerInv'
      BY <2>1, <2>2, <2>6, Distinct DEF CleanerInv
    <2>8. GuardInv'
      <3>1. recPc[Guard(recNow')] = "idle" /\ Guard(recNow') # t
        BY <2>1, Distinct DEF GuardInv, StartedSoFar, Recordings
      <3>2. \A r \in Recordings : r > StartedSoFar' => recPc'[Guard(r)] = "idle"
        <4> TAKE r \in Recordings
        <4>1. r > StartedSoFar' => r > StartedSoFar
          BY <2>1 DEF StartedSoFar, Recordings
        <4>2. Guard(r) # t \/ ~(r > StartedSoFar)
          BY <2>1 DEF GuardInv
        <4> QED
          BY <2>2, <4>1, <4>2, Distinct DEF GuardInv
      <3>3. \A u \in RecTasks : u # t => recPc'[u] \notin {"select", "spawn"}
        BY <2>1, <2>2, Distinct DEF LockInv, LockPcs, StartPcs
      <3>4. recPc'[Guard(recNow')] = "idle"
        BY <2>1, <2>2, <3>1, Distinct
      <3>5. recNow' <= StartedSoFar'
        BY <2>1 DEF StartedSoFar
      <3> QED
        BY <2>1, <3>2, <3>3, <3>4, <3>5 DEF GuardInv
    <2> QED
      BY <2>3, <2>4, <2>5, <2>7, <2>8
  <1> QED
    BY <1>1, <1>2

LEMMA SelectKeeps ==
    ASSUME RecInv, NEW t \in RecTasks, SelectDevices(t)
    PROVE  RecInv'
  <1> USE RecorderBounds DEF RecInv, RecTyped
  <1>1. /\ recPc[t] = "select" /\ recPc[t] \in LockPcs
        /\ \E pc \in {"undo", "spawn"} : recPc' = [recPc EXCEPT ![t] = pc]
        /\ UNCHANGED <<recState, recLock, recCleaning, recNow, held, ffmpeg, recLeft>>
    BY DEF SelectDevices, Continue, LockPcs, StartPcs
  <1>2. recPc'[t] \in {"undo", "spawn"} /\ \A u \in RecTasks : u # t => recPc'[u] = recPc[u]
    BY <1>1
  <1>3. RecTyped' /\ LockInv'
    BY <1>1, <1>2, OneHolder DEF LockInv, LockPcs, StartPcs, StopPcs, RecPcs
  <1>4. MemoryInv'
    BY <1>1, <1>2, OneHolder DEF MemoryInv
  <1>5. CleanerInv'
    BY <1>1, <1>2, OneHolder, Distinct DEF CleanerInv, StartPcs
  <1>6. GuardInv'
    BY <1>1, <1>2, Distinct DEF GuardInv, StartedSoFar
  <1> QED
    BY <1>3, <1>4, <1>5, <1>6

\* The guard that the last process of a start creates is not the task itself.
LEMMA SpawnKeeps ==
    ASSUME RecInv, NEW t \in RecTasks, Spawn(t)
    PROVE  RecInv'
  <1> USE RecorderBounds DEF RecInv, RecTyped
  <1>1. /\ recPc[t] = "spawn" /\ recPc[t] \in LockPcs
        /\ recNow \in Recordings /\ recPc[Guard(recNow)] = "idle"
        /\ Guard(recNow) # t /\ Guard(recNow) # Cleaner /\ Guard(recNow) \in RecTasks
        /\ UNCHANGED <<recLock, recCleaning, recNow, recLeft>>
    BY Distinct DEF Spawn, LockPcs, StartPcs, GuardInv
  <1>2. recLock = t /\ recLock # Nobody /\ \A u \in RecTasks : u # t => recPc[u] \notin LockPcs
    BY <1>1, OneHolder
  <1>3. ffmpeg' \subseteq held'
    BY DEF Spawn, MemoryInv
  <1>4. CASE UNCHANGED <<recState, recPc>>
    <2>1. MemoryInv'
      BY <1>1, <1>2, <1>3, <1>4 DEF MemoryInv, LockPcs, StopPcs
    <2>2. LockInv' /\ CleanerInv' /\ GuardInv'
      BY <1>1, <1>4 DEF LockInv, CleanerInv, GuardInv, StartedSoFar
    <2> QED
      BY <1>1, <1>4, <2>1, <2>2
  <1>5. CASE /\ recState' = "recording"
             /\ recPc' = [recPc EXCEPT ![t] = "announce", ![Guard(recNow)] = "sleeping"]
    <2>1. /\ recPc'[t] = "announce" /\ recPc'[Guard(recNow)] = "sleeping"
          /\ \A u \in RecTasks : u \notin {t, Guard(recNow)} => recPc'[u] = recPc[u]
      BY <1>1, <1>5
    <2>2. RecTyped'
      BY <1>1, <1>5 DEF RecPcs, LockPcs, StartPcs
    <2>3. LockInv'
      BY <1>1, <1>2, <2>1 DEF LockInv, LockPcs, StartPcs, StopPcs
    <2>4. MemoryInv'
      BY <1>1, <1>2, <1>3, <1>5, <2>1 DEF MemoryInv, LockPcs, StopPcs
    <2>5. CleanerInv'
      <3>1. recPc'[Cleaner] # "idle" => recPc[Cleaner] # "idle"
        BY <1>1, <1>2, <2>1, Distinct
      <3>2. recPc'[Cleaner] # "doneLock"
        BY <1>1, <1>2, <2>1, Distinct DEF CleanerInv
      <3>3. recPc'[Cleaner] = recPc[Cleaner]
        BY <1>1, <2>1, Distinct DEF CleanerInv, StartPcs
      <3> QED
        BY <1>1, <3>1, <3>2, <3>3 DEF CleanerInv
    <2>6. GuardInv'
      <3>1. \A r \in Recordings : r > StartedSoFar' => recPc'[Guard(r)] = "idle"
        <4> TAKE r \in Recordings
        <4>1. StartedSoFar' = StartedSoFar /\ recNow <= StartedSoFar
          BY <1>1 DEF StartedSoFar, GuardInv
        <4>2. Guard(r) # t \/ ~(r > StartedSoFar)
          BY <1>1 DEF GuardInv
        <4>3. CASE r # recNow
          BY <1>1, <2>1, <4>1, <4>2, <4>3, Distinct DEF GuardInv
        <4>4. CASE r = recNow
          BY <1>1, <4>1, <4>4 DEF StartedSoFar
        <4> QED
          BY <4>3, <4>4
      <3>2. \A u \in RecTasks : recPc'[u] \notin {"select", "spawn"}
        BY <1>1, <1>2, <2>1 DEF LockPcs, StartPcs
      <3> QED
        BY <1>1, <3>1, <3>2 DEF GuardInv, StartedSoFar
    <2> QED
      BY <2>2, <2>3, <2>4, <2>5, <2>6
  <1> QED
    BY <1>4, <1>5 DEF Spawn

------------------------------------------------------------------------------
(* Holding the lock and giving it back. *)

\* The holder, or a task that takes the free lock of a running recorder, goes
\* on to a place inside the lock.  A cancelled guard becomes idle with it.
LEMMA InsideMove ==
    ASSUME RecInv, NEW t \in RecTasks, recPc[t] # "idle",
           \/ recPc[t] \in LockPcs
           \/ recLock = Nobody /\ recState # "idle",
           recLock' = t,
           recPc' \in [RecTasks -> RecPcs],
           recPc'[t] \in LockPcs \ {"select", "spawn"},
           t = Cleaner => recPc'[t] \in StopPcs,
           \A u \in RecTasks : u # t =>
              recPc'[u] = recPc[u] \/ (recPc'[u] = "idle" /\ u # Cleaner),
           recState' \in {"idle", "recording", "stopping"},
           recPc'[t] = "announce" => recState' = "recording",
           ffmpeg' \subseteq held, recPc'[t] = "save" => ffmpeg' = {},
           UNCHANGED <<recCleaning, recNow, held>>,
           UNCHANGED recLeft \/ Disturb
    PROVE  RecInv'
  <1> USE RecorderBounds DEF RecInv, RecTyped, Disturb
  <1>1. \A u \in RecTasks : u # t => recPc[u] \notin LockPcs /\ recPc'[u] \notin LockPcs
    BY Distinct DEF LockInv, LockPcs, StartPcs, StopPcs
  <1>2. RecTyped'
    OBVIOUS
  <1>3. LockInv'
    BY <1>1 DEF LockInv
  <1>4. MemoryInv'
    BY <1>1, Distinct DEF MemoryInv, LockPcs, StartPcs, StopPcs
  <1>5. CleanerInv'
    <2>1. recPc'[Cleaner] # "idle" => recPc[Cleaner] # "idle"
      BY Distinct
    <2>2. recPc'[Cleaner] # "doneLock"
      <3>1. CASE Cleaner = t
        BY <3>1 DEF LockPcs, StartPcs, StopPcs
      <3>2. CASE Cleaner # t
        BY <3>2, OneHolder, Distinct DEF CleanerInv
      <3> QED
        BY <3>1, <3>2
    <2>3. recPc'[Cleaner] \notin StartPcs \cup {"startLock"}
      BY Distinct DEF CleanerInv, StartPcs, StopPcs
    <2> QED
      BY <2>1, <2>2, <2>3 DEF CleanerInv
  <1>6. GuardInv'
    <2>1. StartedSoFar' = StartedSoFar
      BY DEF StartedSoFar
    <2>2. \A r \in Recordings : r > StartedSoFar' => recPc'[Guard(r)] = "idle"
      BY <2>1, Distinct DEF GuardInv
    <2>3. \A u \in RecTasks : recPc'[u] \notin {"select", "spawn"}
      BY <1>1 DEF LockPcs, StartPcs
    <2> QED
      BY <2>1, <2>2, <2>3 DEF GuardInv
  <1> QED
    BY <1>2, <1>3, <1>4, <1>5, <1>6

\* The holder gives the lock back: with a recording running, or with nothing
\* alive and nothing remembered.
LEMMA GivesBack ==
    ASSUME RecInv, NEW t \in RecTasks, recPc[t] \in LockPcs,
           recPc' \in [RecTasks -> RecPcs],
           recPc'[t] \in {"idle", "killLock", "notify"},
           t = Cleaner => recPc'[t] # "idle",
           \A u \in RecTasks : u # t =>
              recPc'[u] = recPc[u] \/ (recPc'[u] = "idle" /\ u # Cleaner),
           RecRelease,
           \/ recState = "recording" /\ UNCHANGED <<recState, recNow, held, ffmpeg>>
           \/ RecReset /\ ffmpeg' = {},
           UNCHANGED recCleaning,
           UNCHANGED recLeft \/ Disturb
    PROVE  RecInv'
  <1> USE RecorderBounds DEF RecInv, RecTyped, Disturb, RecRelease, RecReset
  <1>1. \A u \in RecTasks : u # t => recPc[u] \notin LockPcs /\ recPc'[u] \notin LockPcs
    BY OneHolder DEF LockPcs, StartPcs, StopPcs
  <1>2. recPc'[t] \notin LockPcs /\ recPc[t] # "idle"
    BY DEF LockPcs, StartPcs, StopPcs
  <1>3. RecTyped'
    OBVIOUS
  <1>4. LockInv'
    BY <1>1, <1>2, Distinct DEF LockInv
  <1>5. MemoryInv'
    BY <1>1, <1>2 DEF MemoryInv, LockPcs, StartPcs, StopPcs
  <1>6. CleanerInv'
    <2>1. recPc'[Cleaner] # "idle" => recPc[Cleaner] # "idle"
      BY <1>2, Distinct
    <2>2. recPc'[Cleaner] # "doneLock"
      BY OneHolder, Distinct DEF CleanerInv
    <2>3. recPc'[Cleaner] \notin StartPcs \cup {"startLock"}
      BY Distinct DEF CleanerInv, StartPcs
    <2> QED
      BY <2>1, <2>2, <2>3 DEF CleanerInv
  <1>7. GuardInv'
    <2>1. StartedSoFar' = StartedSoFar /\ recNow' <= StartedSoFar
      BY DEF StartedSoFar, GuardInv
    <2>2. \A r \in Recordings : r > StartedSoFar' => recPc'[Guard(r)] = "idle"
      BY <1>2, <2>1, Distinct DEF GuardInv
    <2>3. \A u \in RecTasks : recPc'[u] \notin {"select", "spawn"}
      BY <1>1, <1>2 DEF LockPcs, StartPcs
    <2> QED
      BY <2>1, <2>2, <2>3 DEF GuardInv
  <1> QED
    BY <1>3, <1>4, <1>5, <1>6, <1>7

------------------------------------------------------------------------------
(* The other steps. *)

LEMMA OutsideSteps ==
    ASSUME RecInv, NEW t \in RecTasks,
           RequestStart(t) \/ RequestStop(t) \/ WaitCancelled(t) \/ Notify(t)
    PROVE  RecInv'
  <1>1. {"idle", "startLock", "stopLock", "killLock"} \subseteq RecPcs \ LockPcs
    BY DEF RecPcs, LockPcs, StartPcs, StopPcs
  <1>2. recPc[t] \in {"idle", "startLock", "stopLock", "notify"} => recPc[t] \notin LockPcs
    BY DEF LockPcs, StartPcs, StopPcs
  <1>3. CASE RequestStart(t) \/ RequestStop(t)
    BY <1>1, <1>2, <1>3, OutsideMove, Distinct DEF RequestStart, RequestStop
  <1>4. CASE WaitCancelled(t)
    BY <1>1, <1>2, <1>4, OutsideMove, Distinct DEF WaitCancelled
  <1>5. CASE Notify(t)
    <2>1. recPc[t] = "notify" /\ (t = Cleaner => recCleaning)
      BY <1>5 DEF Notify, RecInv, CleanerInv
    <2>2. PICK pc \in {"idle", "startLock", "killLock"} :
             Continue(t, pc) /\ (t = Cleaner => pc = "killLock")
      BY <1>5 DEF Notify, AfterStop
    <2> QED
      BY <1>1, <1>2, <1>5, <2>1, <2>2, OutsideMove DEF Notify
  <1> QED
    BY <1>3, <1>4, <1>5

LEMMA GuardFiresKeeps ==
    ASSUME RecInv, NEW r \in Recordings, GuardFires(r)
    PROVE  RecInv'
  <1>1. "stopLock" \in RecPcs \ LockPcs /\ "sleeping" \notin LockPcs
    BY DEF RecPcs, LockPcs, StartPcs, StopPcs
  <1> QED
    BY <1>1, OutsideMove, Distinct DEF GuardFires

LEMMA AnnounceKeeps ==
    ASSUME RecInv, NEW t \in RecTasks, Announce(t)
    PROVE  RecInv'
  <1>1. /\ recPc[t] = "announce" /\ recPc[t] \in LockPcs /\ recState = "recording"
        /\ t # Cleaner
    BY DEF Announce, LockPcs, StartPcs, RecInv, MemoryInv, CleanerInv
  <1>2. recPc' = [recPc EXCEPT ![t] = "idle"]
    BY DEF Announce, Continue
  <1>3. recPc' \in [RecTasks -> RecPcs]
    BY <1>2 DEF RecInv, RecTyped, RecPcs
  <1> QED
    BY <1>1, <1>2, <1>3, GivesBack DEF Announce, RecInv, RecTyped

LEMMA StartFailsKeeps ==
    ASSUME RecInv, NEW t \in RecTasks, StartFails(t)
    PROVE  RecInv'
  <1>1. recPc[t] \in StartPcs /\ recPc[t] \in LockPcs /\ t # Cleaner /\ recPc[t] # "idle"
    BY DEF StartFails, LockPcs, StartPcs, RecInv, CleanerInv
  <1>2. recPc' = [recPc EXCEPT ![t] = "undo"] /\ "undo" \in RecPcs
        /\ "undo" \in LockPcs \ {"select", "spawn"}
    BY DEF StartFails, Continue, RecPcs, LockPcs, StartPcs
  <1>3. recPc' \in [RecTasks -> RecPcs] /\ recPc'[t] = "undo"
        /\ \A u \in RecTasks : u # t => recPc'[u] = recPc[u]
    BY <1>2 DEF RecInv, RecTyped
  <1>4. /\ recLock = t /\ recState \in {"idle", "recording", "stopping"}
        /\ ffmpeg \subseteq held
    BY <1>1, OneHolder DEF RecInv, RecTyped, MemoryInv
  <1>5. /\ UNCHANGED <<recState, recLock, recCleaning, recNow, held, ffmpeg>>
        /\ Disturb
    BY DEF StartFails
  <1> QED
    BY <1>1, <1>2, <1>3, <1>4, <1>5, InsideMove

LEMMA RollBackStartKeeps ==
    ASSUME RecInv, NEW t \in RecTasks, RollBackStart(t)
    PROVE  RecInv'
  <1>1. recPc[t] = "undo" /\ recPc[t] \in LockPcs /\ t # Cleaner
    BY DEF RollBackStart, LockPcs, StartPcs, RecInv, CleanerInv
  <1>2. recPc' = [recPc EXCEPT ![t] = "idle", ![Guard(recNow)] = "idle"]
    BY DEF RollBackStart
  <1>3. /\ recPc' \in [RecTasks -> RecPcs] /\ recPc'[t] = "idle"
        /\ \A u \in RecTasks : u # t =>
              recPc'[u] = recPc[u] \/ (recPc'[u] = "idle" /\ u # Cleaner)
    <2>1. Guard(recNow) # Cleaner
      BY DEF Guard, Cleaner
    <2> QED
      BY <1>2, <2>1 DEF RecInv, RecTyped, RecPcs
  <1>4. ffmpeg' = {}
    BY DEF RollBackStart, EndProcessesOfFailedStart, KillHeld, RecInv, MemoryInv
  <1> QED
    BY <1>1, <1>3, <1>4, GivesBack DEF RollBackStart

LEMMA EnterStopKeeps ==
    ASSUME RecInv, NEW t \in RecTasks, EnterStop(t)
    PROVE  RecInv'
  <1>1. recPc[t] = "stopLock" /\ recPc[t] \notin LockPcs /\ recPc[t] # "idle"
    BY DEF EnterStop, LockPcs, StartPcs, StopPcs
  <1>2. CASE recState = "recording"
    <2>1. recPc' = [recPc EXCEPT ![t] = "cancelGuard"]
      BY <1>2 DEF EnterStop, Continue
    <2>2. /\ recPc' \in [RecTasks -> RecPcs] /\ recPc'[t] = "cancelGuard"
          /\ \A u \in RecTasks : u # t => recPc'[u] = recPc[u]
      BY <2>1 DEF RecInv, RecTyped, RecPcs, LockPcs, StopPcs
    <2>3. recPc'[t] \in LockPcs \ {"select", "spawn"} /\ recPc'[t] \in StopPcs
      BY <2>2 DEF LockPcs, StopPcs
    <2>4. /\ recLock = Nobody /\ recLock' = t /\ recState' = "stopping"
          /\ ffmpeg' \subseteq held
          /\ UNCHANGED <<recCleaning, recNow, held, recLeft>>
      BY <1>2 DEF EnterStop, RecAcquire, RecInv, MemoryInv
    <2> QED
      BY <1>1, <1>2, <2>2, <2>3, <2>4, InsideMove
  <1>3. CASE recState # "recording"
    <2>1. PICK pc \in {"idle", "killLock"} :
             Continue(t, pc) /\ (t = Cleaner => pc = "killLock" /\ recCleaning)
      BY <1>1, <1>3 DEF EnterStop, AfterStop, RecInv, CleanerInv
    <2>2. pc \in RecPcs \ LockPcs
      BY DEF RecPcs, LockPcs, StartPcs, StopPcs
    <2> QED
      BY <1>1, <1>3, <2>1, <2>2, OutsideMove DEF EnterStop
  <1> QED
    BY <1>2, <1>3

LEMMA CancelGuardKeeps ==
    ASSUME RecInv, NEW t \in RecTasks, CancelGuard(t)
    PROVE  RecInv'
  <1>1. recPc[t] = "cancelGuard" /\ recPc[t] \in LockPcs
    BY DEF CancelGuard, LockPcs, StopPcs
  <1>2. recPc' = [recPc EXCEPT ![Guard(recNow)] = "idle", ![t] = "terminate"]
    BY DEF CancelGuard
  <1>3. /\ recPc' \in [RecTasks -> RecPcs] /\ recPc'[t] = "terminate"
        /\ \A u \in RecTasks : u # t =>
              recPc'[u] = recPc[u] \/ (recPc'[u] = "idle" /\ u # Cleaner)
    <2>1. Guard(recNow) # Cleaner
      BY DEF Guard, Cleaner
    <2> QED
      BY <1>2, <2>1 DEF RecInv, RecTyped, RecPcs, LockPcs, StopPcs
  <1>4. recPc'[t] \in LockPcs \ {"select", "spawn"} /\ recPc'[t] \in StopPcs
    BY <1>3 DEF LockPcs, StopPcs
  <1>5. /\ recLock' = t /\ recState' \in {"idle", "recording", "stopping"}
        /\ ffmpeg' \subseteq held
        /\ UNCHANGED <<recCleaning, recNow, held, recLeft>>
    BY <1>1, OneHolder DEF CancelGuard, RecInv, RecTyped, MemoryInv
  <1> QED
    BY <1>1, <1>3, <1>4, <1>5, InsideMove

LEMMA TerminateKeeps ==
    ASSUME RecInv, NEW t \in RecTasks, Terminate(t)
    PROVE  RecInv'
  <1>1. recPc[t] = "terminate" /\ recPc[t] \in LockPcs
    BY DEF Terminate, LockPcs, StopPcs
  <1>2. PICK p \in held \cap ffmpeg :
           /\ ffmpeg' = ffmpeg \ {p}
           /\ Continue(t, IF held \cap ffmpeg = {p} THEN "save" ELSE "terminate")
    BY DEF Terminate
  <1>3. /\ recPc' \in [RecTasks -> RecPcs] /\ recPc'[t] \in {"save", "terminate"}
        /\ recPc'[t] = "save" => held \cap ffmpeg = {p}
        /\ \A u \in RecTasks : u # t => recPc'[u] = recPc[u]
    BY <1>2 DEF RecInv, RecTyped, RecPcs, LockPcs, StopPcs, Continue
  <1>4. recPc'[t] \in LockPcs \ {"select", "spawn"} /\ recPc'[t] \in StopPcs
    BY <1>3 DEF LockPcs, StopPcs
  <1>5. /\ recLock' = t /\ recState' \in {"idle", "recording", "stopping"}
        /\ ffmpeg' \subseteq held /\ (recPc'[t] = "save" => ffmpeg' = {})
        /\ UNCHANGED <<recCleaning, recNow, held, recLeft>>
    BY <1>1, <1>2, <1>3, OneHolder DEF Terminate, RecInv, RecTyped, MemoryInv
  <1> QED
    BY <1>1, <1>3, <1>4, <1>5, InsideMove

LEMMA SaveKeeps ==
    ASSUME RecInv, NEW t \in RecTasks, Save(t)
    PROVE  RecInv'
  <1>1. recPc[t] = "save" /\ recPc[t] \in LockPcs
    BY DEF Save, LockPcs, StopPcs
  <1>2. PICK pc \in {"idle", "killLock", "notify"} :
           Continue(t, pc) /\ (t = Cleaner => pc # "idle")
    BY DEF Save, AfterStop
  <1>3. /\ recPc' \in [RecTasks -> RecPcs] /\ recPc'[t] = pc
        /\ \A u \in RecTasks : u # t => recPc'[u] = recPc[u]
    BY <1>2 DEF RecInv, RecTyped, RecPcs, Continue
  <1>4. ffmpeg' = {}
    BY <1>1 DEF Save, RecInv, MemoryInv
  <1> QED
    BY <1>1, <1>2, <1>3, <1>4, GivesBack DEF Save

LEMMA StopCancelledKeeps ==
    ASSUME RecInv, NEW t \in RecTasks, StopCancelled(t)
    PROVE  RecInv'
  <1>1. recPc[t] \in LockPcs /\ t # Cleaner
    BY Distinct DEF StopCancelled, LockPcs, StopPcs
  <1>2. recPc' = [recPc EXCEPT ![t] = "idle"]
    BY DEF StopCancelled, Continue
  <1>3. /\ recPc' \in [RecTasks -> RecPcs] /\ recPc'[t] = "idle"
        /\ \A u \in RecTasks : u # t => recPc'[u] = recPc[u]
    BY <1>2 DEF RecInv, RecTyped, RecPcs
  <1>4. ffmpeg' = {}
    BY DEF StopCancelled, KillHeld, RecInv, MemoryInv
  <1> QED
    BY <1>1, <1>3, <1>4, GivesBack DEF StopCancelled

LEMMA CleanupKeeps ==
    ASSUME RecInv, BeginCleanup \/ RecCleanupStep
    PROVE  RecInv'
  <1>1. {"checkLock", "stopLock", "killLock", "doneLock"} \subseteq RecPcs \ LockPcs
        /\ {"idle", "checkLock", "killLock", "doneLock"} \cap LockPcs = {}
    BY DEF RecPcs, LockPcs, StartPcs, StopPcs
  <1>2. Cleaner \in RecTasks /\ \A r \in Recordings : Guard(r) # Cleaner
    BY Distinct
  <1>3. CASE CheckRunning
    <2>1. PICK pc \in {"stopLock", "killLock"} : Continue(Cleaner, pc)
      BY <1>3 DEF CheckRunning
    <2>2. recPc[Cleaner] = "checkLock" /\ recCleaning
      BY <1>3 DEF CheckRunning, RecInv, CleanerInv
    <2> QED
      BY <1>1, <1>2, <1>3, <2>1, <2>2, OutsideMove DEF CheckRunning
  <1>4. CASE BeginCleanup
    <2>1. /\ recPc' = [recPc EXCEPT ![Cleaner] = "checkLock"]
          /\ recPc[Cleaner] = "idle" /\ recCleaning'
          /\ UNCHANGED <<recState, recLock, recNow, held, ffmpeg, recLeft>>
      BY <1>4 DEF BeginCleanup, Continue
    <2>2. /\ recPc' \in [RecTasks -> RecPcs] /\ recPc'[Cleaner] = "checkLock"
          /\ \A u \in RecTasks : u # Cleaner => recPc'[u] = recPc[u]
      BY <1>1, <1>2, <2>1 DEF RecInv, RecTyped
    <2>3. RecTyped' /\ LockInv'
      BY <1>1, <1>2, <2>1, <2>2 DEF RecInv, RecTyped, LockInv
    <2>4. MemoryInv' /\ GuardInv' /\ CleanerInv'
      BY <1>2, <2>1, <2>2, Distinct DEF RecInv, MemoryInv, GuardInv, CleanerInv, StartedSoFar,
                              StartPcs
    <2> QED
      BY <2>3, <2>4 DEF RecInv
  <1>5. CASE KillLeftovers \/ EndCleanup
    <2>1. PICK pc \in {"doneLock", "idle"} :
          /\ recPc' = [recPc EXCEPT ![Cleaner] = pc]
          /\ pc = "doneLock" => recCleaning'
          /\ recPc[Cleaner] \in {"killLock", "doneLock"}
          /\ recLock = Nobody /\ recLock' = Nobody /\ UNCHANGED recLeft
          /\ recState' = "idle" /\ recNow' = 0 /\ held' = {} /\ ffmpeg' = {}
      <3>1. CASE KillLeftovers
        BY <3>1 DEF KillLeftovers, Continue, RecReset, KillHeld, RecInv, MemoryInv, CleanerInv
      <3>2. CASE EndCleanup
        BY <3>2 DEF EndCleanup, Continue, RecInv, MemoryInv, CleanerInv
      <3> QED
        BY <1>5, <3>1, <3>2
    <2>2. /\ recPc' \in [RecTasks -> RecPcs] /\ recPc'[Cleaner] = pc
          /\ \A u \in RecTasks : u # Cleaner => recPc'[u] = recPc[u]
      BY <1>2, <2>1 DEF RecInv, RecTyped, RecPcs
    <2>3. RecTyped' /\ LockInv'
      BY <1>1, <1>2, <2>1, <2>2, RecorderBounds DEF RecInv, RecTyped, LockInv
    <2>4. MemoryInv'
      BY <1>1, <1>2, <2>1, <2>2, Distinct DEF RecInv, MemoryInv, LockInv, LockPcs, StartPcs
    <2>5. CleanerInv'
      BY <1>2, <2>1, <2>2 DEF RecInv, CleanerInv, StartPcs
    <2>6. GuardInv'
      <3>1. recNow' <= StartedSoFar' /\ StartedSoFar' = StartedSoFar
        BY <2>1, RecorderBounds DEF RecInv, RecTyped, StartedSoFar
      <3>2. \A t \in RecTasks : recPc'[t] \notin {"select", "spawn"}
        BY <1>1, <1>2, <2>1, <2>2, Distinct DEF RecInv, LockInv, LockPcs, StartPcs
      <3> QED
        BY <1>2, <2>1, <2>2, <3>1, <3>2, Distinct DEF RecInv, GuardInv
    <2> QED
      BY <2>3, <2>4, <2>5, <2>6 DEF RecInv
  <1> QED
    BY <1>3, <1>4, <1>5 DEF RecCleanupStep

\* Every step of the recorder keeps the invariant.
LEMMA RecorderKeeps ==
    ASSUME RecInv, RecNext
    PROVE  RecInv'
  <1>1. ASSUME NEW t \in RecTasks, RecTaskStep(t) \/ RecRequest(t)
        PROVE  RecInv'
    BY <1>1, EnterStartKeeps, SelectKeeps, SpawnKeeps, AnnounceKeeps, RollBackStartKeeps,
       EnterStopKeeps, CancelGuardKeeps, TerminateKeeps, SaveKeeps, OutsideSteps,
       StartFailsKeeps, StopCancelledKeeps DEF RecTaskStep, RecRequest
  <1> QED
    BY <1>1, GuardFiresKeeps, CleanupKeeps DEF RecNext

------------------------------------------------------------------------------
(* The detector. *)

ZoomStopPcs == StopPcs \cup {"stopLock"}

\* The recording Zoom started is one of those begun, and while it runs without a
\* meeting the detector's task is on its way to stop it.
ZoomInv ==
    /\ zoomStarted \in Nat /\ zoomStarted <= StartedSoFar
    /\ zoomLoop = "polling" /\ ~zoomSeen /\ recNow # 0 /\ recNow = zoomStarted
          => recPc[ZoomTask] \in ZoomStopPcs

LEMMA ZoomTaskIs ==
    ZoomTask \in RecTasks /\ ZoomTask # Cleaner /\ \A r : Guard(r) # ZoomTask
  BY ZoomAssumption, Distinct DEF ZoomTask, RecRequests, Cleaner, Guard, RecTasks

\* What a step of the recorder does to the number of the current recording.
LEMMA NowMoves ==
    ASSUME RecInv, RecNext
    PROVE  /\ StartedSoFar' >= StartedSoFar /\ StartedSoFar \in Nat
           /\ \/ recNow' = recNow
              \/ recNow' = 0
              \/ recNow' = StartedSoFar + 1
  <1>1. StartedSoFar \in Nat /\ recLeft.recordings \in Nat
    BY RecorderBounds DEF RecInv, RecTyped, StartedSoFar
  <1>2. UNCHANGED recLeft \/ Disturb => StartedSoFar' = StartedSoFar
    BY DEF Disturb, StartedSoFar, RecInv, RecTyped
  <1>3. ASSUME NEW t \in RecTasks, EnterStart(t)
        PROVE  /\ StartedSoFar' >= StartedSoFar
               /\ recNow' = recNow \/ recNow' = StartedSoFar + 1
    <2>1. CASE StartAllowed
      BY <1>1, <1>3, <2>1, RecorderBounds
         DEF EnterStart, StartedSoFar, RecInv, RecTyped
    <2>2. CASE ~StartAllowed
      BY <1>1, <1>2, <1>3, <2>2 DEF EnterStart
    <2> QED
      BY <2>1, <2>2
  <1>4. ASSUME NEW t \in RecTasks,
               \/ SelectDevices(t) \/ Spawn(t) \/ Announce(t) \/ RollBackStart(t)
               \/ EnterStop(t) \/ CancelGuard(t) \/ Terminate(t) \/ Save(t) \/ Notify(t)
               \/ RecRequest(t)
        PROVE  (UNCHANGED recLeft \/ Disturb) /\ (recNow' = recNow \/ recNow' = 0)
    <2>1. CASE SelectDevices(t) \/ Spawn(t) \/ Announce(t) \/ RollBackStart(t)
      BY <2>1 DEF SelectDevices, Spawn, Announce, RollBackStart, RecReset
    <2>2. CASE EnterStop(t) \/ CancelGuard(t) \/ Terminate(t) \/ Save(t) \/ Notify(t)
      BY <2>2 DEF EnterStop, CancelGuard, Terminate, Save, Notify, RecReset
    <2>3. CASE RecRequest(t)
      BY <2>3 DEF RecRequest, RequestStart, RequestStop, StartFails, StopCancelled,
                  WaitCancelled, RecReset
    <2> QED
      BY <1>4, <2>1, <2>2, <2>3
  <1>5. ASSUME \/ \E r \in Recordings : GuardFires(r)
               \/ BeginCleanup \/ RecCleanupStep
        PROVE  UNCHANGED recLeft /\ (recNow' = recNow \/ recNow' = 0)
    BY <1>5 DEF GuardFires, BeginCleanup, RecCleanupStep, CheckRunning, KillLeftovers,
                EndCleanup, RecReset
  <1> QED
    BY <1>1, <1>2, <1>3, <1>4, <1>5 DEF RecNext, RecTaskStep

\* On its way to stop the recording the task stays until there is none.
LEMMA ZoomStopsOn ==
    ASSUME RecInv, RecorderStep, recPc[ZoomTask] \in ZoomStopPcs, zoomLoop = "polling",
           recNow' = recNow, recNow # 0
    PROVE  recPc'[ZoomTask] \in ZoomStopPcs
  <1> USE DEF RecInv, RecTyped
  <1>1. UNCHANGED recPc => recPc'[ZoomTask] \in ZoomStopPcs
    OBVIOUS
  <1>2. \A t \in RecTasks \ {ZoomTask}, pc \in RecPcs : Continue(t, pc) =>
           recPc'[ZoomTask] \in ZoomStopPcs
    BY DEF Continue
  <1>3. \A pc \in ZoomStopPcs : Continue(ZoomTask, pc) => recPc'[ZoomTask] \in ZoomStopPcs
    BY ZoomTaskIs DEF Continue
  <1>4. recPc[ZoomTask] \notin StartPcs \cup {"idle", "startLock", "notify"}
    BY DEF ZoomStopPcs, StopPcs, StartPcs
  <1>5. RecPcs = {"select", "spawn", "announce", "undo", "cancelGuard", "terminate", "save",
                  "idle", "startLock", "sleeping", "stopLock", "notify", "checkLock",
                  "killLock", "doneLock"}
    BY DEF RecPcs, LockPcs, StartPcs, StopPcs
  <1>6. ASSUME NEW t \in RecTasks, EnterStart(t) \/ SelectDevices(t) \/ Announce(t)
        PROVE  recPc'[ZoomTask] \in ZoomStopPcs
    <2>1. t # ZoomTask
      BY <1>4, <1>6 DEF EnterStart, SelectDevices, Announce, StartPcs
    <2> QED
      BY <1>2, <1>5, <1>6, <2>1 DEF EnterStart, SelectDevices, Announce
  <1>7. ASSUME NEW t \in RecTasks, Spawn(t) \/ RollBackStart(t)
        PROVE  recPc'[ZoomTask] \in ZoomStopPcs
    <2>1. t # ZoomTask /\ Guard(recNow) # ZoomTask
      BY <1>4, <1>7, ZoomTaskIs DEF Spawn, RollBackStart, StartPcs
    <2>2. \E pc, gpc \in RecPcs :
             recPc' = recPc \/ recPc' = [recPc EXCEPT ![t] = pc, ![Guard(recNow)] = gpc]
      BY <1>5, <1>7 DEF Spawn, RollBackStart
    <2>3. recPc'[ZoomTask] = recPc[ZoomTask]
      BY <2>1, <2>2, ZoomTaskIs
    <2> QED
      BY <2>3
  <1>8. ASSUME NEW t \in RecTasks, EnterStop(t)
        PROVE  recPc'[ZoomTask] \in ZoomStopPcs
    <2>1. CASE recState = "recording"
      BY <1>2, <1>3, <1>5, <1>8, <2>1 DEF EnterStop, ZoomStopPcs, StopPcs
    <2>2. CASE recState # "recording"
      BY <1>8, <2>2 DEF EnterStop, MemoryInv
    <2> QED
      BY <2>1, <2>2
  <1>9. ASSUME NEW t \in RecTasks, CancelGuard(t)
        PROVE  recPc'[ZoomTask] \in ZoomStopPcs
    BY <1>9, ZoomTaskIs DEF CancelGuard, ZoomStopPcs, StopPcs
  <1>10. ASSUME NEW t \in RecTasks, Terminate(t)
         PROVE  recPc'[ZoomTask] \in ZoomStopPcs
    BY <1>2, <1>3, <1>5, <1>10 DEF Terminate, ZoomStopPcs, StopPcs
  <1>11. ASSUME NEW t \in RecTasks, Save(t)
         PROVE  FALSE
    BY <1>11 DEF Save, RecReset
  <1>12. ASSUME NEW t \in RecTasks, Notify(t)
         PROVE  recPc'[ZoomTask] \in ZoomStopPcs
    <2>1. t # ZoomTask
      BY <1>4, <1>12 DEF Notify
    <2> QED
      BY <1>2, <1>5, <1>12, <2>1 DEF Notify, AfterStop
  <1>13. ASSUME NEW t \in RecTasks \ {ZoomTask}, RecRequest(t)
         PROVE  recPc'[ZoomTask] \in ZoomStopPcs
    BY <1>2, <1>5, <1>13 DEF RecRequest, RequestStart, RequestStop, StartFails, StopCancelled,
                             WaitCancelled
  <1>14. ~StartFails(ZoomTask)
    BY <1>4 DEF StartFails, StartPcs
  <1>15. ASSUME NEW r \in Recordings, GuardFires(r)
         PROVE  recPc'[ZoomTask] \in ZoomStopPcs
    BY <1>2, <1>5, <1>15, ZoomTaskIs, Distinct DEF GuardFires
  <1>16. ASSUME BeginCleanup \/ RecCleanupStep
         PROVE  recPc'[ZoomTask] \in ZoomStopPcs
    BY <1>2, <1>5, <1>16, ZoomTaskIs, Distinct
       DEF BeginCleanup, RecCleanupStep, CheckRunning, KillLeftovers, EndCleanup
  <1> QED
    BY <1>6, <1>7, <1>8, <1>9, <1>10, <1>11, <1>12, <1>13, <1>14, <1>15, <1>16
       DEF RecorderStep, RecTaskStep

\* The detector's callbacks are requests like the others.
LEMMA RecorderStepIs ==
    ASSUME RecorderStep
    PROVE  RecNext
  BY ZoomTaskIs DEF RecorderStep, RecNext, RecRequest

LEMMA ZoomKeeps ==
    ASSUME RecInv, ZoomInv, ZoomNext
    PROVE  RecInv' /\ ZoomInv'
  <1>1. CASE RecorderStep
    <2>1. RecInv' /\ RecNext
      BY <1>1, RecorderKeeps, RecorderStepIs
    <2>2. UNCHANGED <<zoomSeen, zoomLoop>>
      BY <1>1 DEF RecorderStep
    <2>3. zoomStarted' = zoomStarted \/ (zoomSeen /\ zoomStarted' = recNow')
      BY <1>1 DEF RecorderStep
    <2>4. zoomStarted' \in Nat /\ zoomStarted' <= StartedSoFar'
      <3>1. recNow' \in Nat /\ recNow' <= StartedSoFar' /\ StartedSoFar' \in Nat
        BY <2>1, RecorderBounds DEF RecInv, RecTyped, GuardInv, StartedSoFar
      <3> QED
        BY <2>1, <2>3, <3>1, NowMoves DEF ZoomInv
    <2>5. ASSUME zoomLoop' = "polling", ~zoomSeen', recNow' # 0, recNow' = zoomStarted'
          PROVE  recPc'[ZoomTask] \in ZoomStopPcs
      <3>1. zoomStarted' = zoomStarted /\ zoomLoop = "polling" /\ ~zoomSeen
        BY <2>2, <2>3, <2>5
      <3>2. recNow' = recNow
        BY <2>1, <2>5, <3>1, NowMoves DEF ZoomInv
      <3> QED
        BY <1>1, <2>5, <3>1, <3>2, ZoomStopsOn DEF ZoomInv
    <2> QED
      BY <2>1, <2>4, <2>5 DEF ZoomInv
  <1>2. CASE Edge
    <2>1. PICK pc \in {"startLock", "stopLock"} :
             Continue(ZoomTask, pc) /\ (~zoomSeen' => pc = "stopLock")
      BY <1>2 DEF Edge
    <2>2. pc \in RecPcs \ LockPcs /\ recPc[ZoomTask] = "idle" /\ "idle" \notin LockPcs
      BY <1>2 DEF RecPcs, LockPcs, StartPcs, StopPcs, Edge, BetweenPolls
    <2>3. RecInv'
      BY <1>2, <2>1, <2>2, ZoomTaskIs, OutsideMove DEF Edge
    <2>4. ~zoomSeen' => recPc'[ZoomTask] \in ZoomStopPcs
      BY <2>1, ZoomTaskIs DEF Continue, ZoomStopPcs, RecInv, RecTyped
    <2> QED
      BY <1>2, <2>3, <2>4 DEF Edge, ZoomInv, StartedSoFar
  <1>3. CASE Undecided \/ StopDetector \/ DetectorStopped \/ MeetingChanges
    <2>1. UNCHANGED <<recState, recLock, recCleaning, recNow, recPc, held, ffmpeg, recLeft>>
      BY <1>3 DEF Undecided, StopDetector, DetectorStopped, MeetingChanges, recVars,
                  recorderVars
    <2>2. RecInv'
      BY <2>1 DEF RecInv, RecTyped, LockInv, MemoryInv, CleanerInv, GuardInv, StartedSoFar
    <2>3. UNCHANGED zoomStarted /\ (zoomLoop' = "polling" => UNCHANGED <<zoomSeen, zoomLoop>>)
      BY <1>3 DEF Undecided, StopDetector, DetectorStopped, MeetingChanges, zoomVars,
                  recorderVars
    <2> QED
      BY <2>1, <2>2, <2>3 DEF ZoomInv, StartedSoFar
  <1> QED
    BY <1>1, <1>2, <1>3 DEF ZoomNext, ZoomStep

------------------------------------------------------------------------------
(* Theorems. *)

LEMMA ZoomInitInv ==
    ASSUME ZoomInit
    PROVE  RecInv /\ ZoomInv
  <1> USE RecorderBounds DEF ZoomInit, RecInit
  <1>1. \A t \in RecTasks : recPc[t] = "idle"
    OBVIOUS
  <1>2. StartedSoFar = 0
    BY DEF StartedSoFar
  <1>3. RecTyped
    BY DEF RecTyped, RecPcs
  <1>4. LockInv
    BY <1>1, Distinct DEF LockInv, LockPcs, StartPcs, StopPcs
  <1>5. MemoryInv
    BY <1>1 DEF MemoryInv
  <1>6. CleanerInv
    BY <1>1, Distinct DEF CleanerInv, StartPcs
  <1>7. GuardInv
    BY <1>1, <1>2, Distinct DEF GuardInv
  <1> QED
    BY <1>2, <1>3, <1>4, <1>5, <1>6, <1>7 DEF RecInv, ZoomInv

\* The invariant of the recorder and the detector: one holder of the lock, what
\* is alive is remembered, no start during a cleanup, no guard before its
\* recording, and the detector on its way to stop what it started.
THEOREM RecorderInvariant == ZoomSpec => [](RecInv /\ ZoomInv)
  <1>1. ZoomInit => RecInv /\ ZoomInv
    BY ZoomInitInv
  <1>2. RecInv /\ ZoomInv /\ [ZoomNext]_recorderVars => (RecInv /\ ZoomInv)'
    <2> SUFFICES ASSUME RecInv, ZoomInv, [ZoomNext]_recorderVars PROVE RecInv' /\ ZoomInv'
      OBVIOUS
    <2>1. CASE UNCHANGED recorderVars
      BY <2>1 DEF recorderVars, recVars, zoomVars, RecInv, RecTyped, LockInv, MemoryInv,
                  CleanerInv, GuardInv, StartedSoFar, ZoomInv
    <2> QED
      BY <2>1, ZoomKeeps
  <1> QED
    BY <1>1, <1>2, PTL DEF ZoomSpec

\* An idle recorder whose lock is free has no ffmpeg process, and a finished
\* cleanup left none, whichever starts, stops and guards raced with it.
THEOREM NoProcessIsOrphaned == ZoomSpec => []NoOrphanRecorder
  <1>1. RecInv => NoOrphanRecorder
    BY Distinct DEF RecInv, MemoryInv, CleanerInv, NoOrphanRecorder
  <1> QED
    BY <1>1, RecorderInvariant, PTL

\* Between two polls a running recording that Zoom started belongs to a meeting
\* the detector still sees.
THEOREM ZoomRecordingIsStopped == ZoomSpec => []ZoomRecordingStops
  <1>1. RecInv /\ ZoomInv => ZoomRecordingStops
    BY DEF ZoomInv, ZoomRecordingStops, BetweenPolls, ZoomStopPcs, StopPcs
  <1> QED
    BY <1>1, RecorderInvariant, PTL
------------------------------------------------------------------------------
(* The watcher: its invariant. *)

\* The contents so far are numbered 1..WrittenSoFar.
WrittenSoFar == MaxWrites - admissionLeft.writes

AdmissionTyped ==
    /\ GoodTable
    /\ admissionLeft \in [writes : 0..MaxWrites, scans : 0..MaxScans,
                          requests : 0..MaxRequests, faults : 0..MaxMoveFaults]
    /\ writing \in BOOLEAN /\ artifacts \in BOOLEAN
    /\ scan \in Scans
    /\ pinned \in [Tokens -> {0} \cup Contents]

\* A file that nobody writes is finished; one that is in the quarantine is there
\* only, and was finished and unusable.
FileInv ==
    /\ file \in 0..WrittenSoFar
    /\ bad \subseteq 1..WrittenSoFar
    /\ finished \subseteq 0..WrittenSoFar
    /\ file # 0 => file \notin quarantine /\ (writing \/ file \in finished)
    /\ quarantine \subseteq finished \cap bad

Rejected(row) == row # Gone /\ row.action.kind = "reject"

\* The steps behind the verdict, behind the last look, and of a rejection.
Judged == {"confirm", "attested", "renew", "apply", "claim", "move", "finalize"}
Attesting == Judged \ {"confirm"}
Rejecting == {"claim", "move", "finalize"}

\* What an examination knows of the content it has seen is true of that content
\* to its end, whatever is at the path by then; ...
Knows(e) ==
    /\ e \in Examination
    /\ e.seen \in 0..WrittenSoFar
    /\ e.pc \in {"lookup", "audit"} => e.seen = 0
    /\ e.pc \in Judged \cup {"validate"} => e.seen # 0
    /\ e.pc \in Judged => e.action = IF e.seen \in bad THEN "quarantine" ELSE "accept"
    /\ e.pc \in Attesting => e.seen \in finished
    /\ e.pc \in Rejecting => e.action = "quarantine" /\ e.row # "gone"
    /\ e.pc \in {"move", "finalize"} => e.token \in Tokens /\ pinned[e.token] = e.seen
    /\ e.pc = "finalize" => e.seen \in quarantine

\* ... a content it has seen is in the quarantine only by a rejection, and a
\* row it has not found is not there.
Meets(e) ==
    /\ e.row # "gone" /\ (e.seen \in quarantine \/ e.pc \in {"move", "finalize"})
          => jobs[Self] = Gone \/ Rejected(jobs[Self])
    /\ e.row = "gone" /\ e.pc \notin {"lookup", "end"} => jobs[Self] = Gone

ExamInv == exam = Unowned \/ (Knows(exam) /\ Meets(exam))

\* A rejection claim names a finished and unusable content, and once that has
\* been moved the meeting has no results.
ClaimInv ==
    Rejected(jobs[Self]) =>
        LET source == pinned[jobs[Self].action.token] IN
        /\ source \in finished \cap bad
        /\ source \in quarantine => ~artifacts

AdmissionInv == AdmissionTyped /\ FileInv /\ ExamInv /\ ClaimInv

------------------------------------------------------------------------------
(* Steps of an examination that change nothing but itself and its memory. *)

LEMMA WrittenBound ==
    ASSUME AdmissionTyped
    PROVE  WrittenSoFar \in 0..MaxWrites
  BY AdmissionBounds DEF AdmissionTyped, WrittenSoFar

\* Only the examination, scans, events and retries move.
LEMMA QuietKeeps ==
    ASSUME AdmissionInv, exam' = Unowned \/ (Knows(exam') /\ Meets(exam')),
           UNCHANGED <<jobs, file, writing, bad, quarantine, artifacts, pinned, finished,
                       admissionLeft>>,
           scan' \in Scans
    PROVE  AdmissionInv'
  <1>1. AdmissionTyped' /\ FileInv' /\ ClaimInv'
    BY DEF AdmissionInv, AdmissionTyped, FileInv, ClaimInv, WrittenSoFar, GoodTable
  <1>2. ExamInv'
    BY DEF ExamInv, Knows, Meets, WrittenSoFar
  <1> QED
    BY <1>1, <1>2 DEF AdmissionInv

LEMMA OwnedExam ==
    ASSUME AdmissionInv, exam # Unowned
    PROVE  Knows(exam) /\ Meets(exam) /\ exam \in Examination
  BY DEF AdmissionInv, ExamInv, Knows

\* Nothing has the number 0, and no more contents have been seen than written.
LEMMA SeenIsWritten ==
    ASSUME AdmissionInv
    PROVE  /\ WrittenSoFar \in 0..MaxWrites /\ MaxWrites \in Nat
           /\ 0 \notin quarantine /\ 0 \notin bad
           /\ file \in 0..WrittenSoFar /\ scan \in Scans
  BY AdmissionBounds DEF AdmissionInv, AdmissionTyped, WrittenSoFar, FileInv

\* The path goes to a step at which no verdict is known or needed.
LEMMA Passive ==
    ASSUME Knows(exam), Meets(exam), exam.pc # "lookup", exam.pc # "end",
           NEW pc \in {"hold", "passed", "settle", "inspect", "release", "end"}
    PROVE  LET next == [exam EXCEPT !.pc = pc] IN Knows(next) /\ Meets(next)
  BY DEF Knows, Meets, Examination, ExamPcs, Judged, Attesting, Rejecting

\* The lookup of the row.
LEMMA LookupKeeps ==
    ASSUME AdmissionInv, Lookup
    PROVE  AdmissionInv'
  <1> DEFINE row == jobs[Self].status
             pc == IF jobs[Self] # Gone THEN "audit"
                   ELSE IF exam.by \in {"live", "retry"} THEN "settle" ELSE "inspect"
  <1>1. Knows(exam) /\ exam \in Examination /\ exam.pc = "lookup" /\ exam.seen = 0
    BY OwnedExam DEF Lookup, ExamAt, Owned, Knows
  <1>2. "gone" \notin Statuses
    BY DEF Statuses, ActiveStatuses
  <1>3. /\ row \in Statuses \cup {"gone"}
        /\ row = "gone" <=> jobs[Self] = Gone
    BY <1>2, SelfAssumption DEF AdmissionInv, AdmissionTyped, GoodTable, Rows, Gone
  <1>4. pc \in {"audit", "settle", "inspect"} /\ (pc = "audit" => row # "gone")
    BY <1>3
  <1>5. exam' = [exam EXCEPT !.row = row, !.pc = pc]
    BY DEF Lookup
  <1> HIDE DEF row, pc
  <1>6. exam' \in Examination /\ exam'.seen = 0 /\ exam'.row = row /\ exam'.pc = pc
    BY <1>1, <1>3, <1>4, <1>5 DEF Examination, ExamPcs
  <1>7. Knows(exam') /\ Meets(exam')
    BY <1>3, <1>4, <1>6, SeenIsWritten DEF Knows, Meets, Judged, Attesting, Rejecting
  <1> QED
    BY <1>7, SeenIsWritten, QuietKeeps DEF Lookup, fileVars, histories

\* The audit of a row that was found.
LEMMA AuditKeeps ==
    ASSUME AdmissionInv, Audit
    PROVE  AdmissionInv'
  <1>1. Knows(exam) /\ exam \in Examination /\ exam.pc = "audit" /\ exam.seen = 0
    BY OwnedExam DEF Audit, ExamAt, Owned, Knows
  <1>2. exam' \in Examination /\ exam'.seen = 0 /\ exam'.row = "recorded"
        /\ exam'.pc \in {"passed", "hold", "settle", "inspect"}
    BY <1>1 DEF Audit, Examination, ExamPcs, Statuses
  <1>3. Knows(exam') /\ Meets(exam')
    BY <1>1, <1>2, SeenIsWritten DEF Knows, Meets, Judged, Attesting, Rejecting
  <1> QED
    BY <1>3, SeenIsWritten, QuietKeeps DEF Audit, fileVars

\* Giving up, from any step that may.
LEMMA GiveUpFits ==
    ASSUME AdmissionInv, exam # Unowned, exam.pc # "lookup", exam.pc # "end", GiveUp
    PROVE  Knows(exam') /\ Meets(exam')
  BY OwnedExam, Passive DEF GiveUp, Go

\* Waiting for the file to be at rest.
LEMMA SettleKeeps ==
    ASSUME AdmissionInv, Settle
    PROVE  AdmissionInv'
  <1>1. exam # Unowned /\ exam.pc = "settle"
    BY DEF Settle, ExamAt, Owned
  <1>2. Knows(exam') /\ Meets(exam')
    BY <1>1, GiveUpFits, OwnedExam, Passive DEF Settle, Go
  <1> QED
    BY <1>2, SeenIsWritten, QuietKeeps DEF Settle, fileVars, histories

\* Taking the fingerprint: what is at the path is not in the quarantine.
LEMMA InspectKeeps ==
    ASSUME AdmissionInv, Inspect
    PROVE  AdmissionInv'
  <1>1. exam # Unowned /\ exam.pc = "inspect"
    BY DEF Inspect, ExamAt, Owned
  <1>2. CASE file # 0 /\ exam' = [exam EXCEPT !.seen = file, !.pc = "validate"]
    <2>1. /\ Knows(exam) /\ Meets(exam) /\ exam \in Examination
          /\ file \in Contents /\ file \notin quarantine
      BY <1>1, <1>2, OwnedExam, SeenIsWritten DEF AdmissionInv, FileInv, Contents
    <2>2. exam' \in Examination /\ exam'.seen = file /\ exam'.pc = "validate"
          /\ exam'.row = exam.row
      BY <1>2, <2>1 DEF Examination, ExamPcs
    <2>3. Knows(exam') /\ Meets(exam')
      BY <1>1, <1>2, <2>1, <2>2, SeenIsWritten
         DEF Knows, Meets, Judged, Attesting, Rejecting
    <2> QED
      BY <2>3, SeenIsWritten, QuietKeeps DEF Inspect, fileVars, histories
  <1>3. CASE GiveUp
    BY <1>1, <1>3, GiveUpFits, SeenIsWritten, QuietKeeps DEF Inspect, fileVars, histories
  <1> QED
    BY <1>2, <1>3 DEF Inspect

\* The verdict is about the content seen.
LEMMA ValidateKeeps ==
    ASSUME AdmissionInv, Validate
    PROVE  AdmissionInv'
  <1>1. exam # Unowned /\ exam.pc = "validate"
    BY DEF Validate, ExamAt, Owned
  <1>2. CASE GiveUp
    BY <1>1, <1>2, GiveUpFits, SeenIsWritten, QuietKeeps DEF Validate, fileVars
  <1>3. CASE ~GiveUp
    <2>1. Knows(exam) /\ Meets(exam) /\ exam \in Examination /\ file = exam.seen
      BY <1>1, <1>3, OwnedExam DEF Validate, Unchanged
    <2>2. /\ exam' \in Examination /\ exam'.seen = exam.seen /\ exam'.row = exam.row
          /\ exam'.pc \in {"end", "confirm"}
          /\ exam'.action = IF exam.seen \in bad THEN "quarantine" ELSE "accept"
      BY <1>3, <2>1 DEF Validate, Unchanged, Examination, ExamPcs, ReadyActions
    <2>3. Knows(exam') /\ Meets(exam')
      BY <1>1, <2>1, <2>2 DEF Knows, Meets, Judged, Attesting, Rejecting
    <2> QED
      BY <2>3, SeenIsWritten, QuietKeeps DEF Validate, fileVars
  <1> QED
    BY <1>2, <1>3

\* The last look: nobody writes what was seen, so it is finished.
LEMMA ConfirmKeeps ==
    ASSUME AdmissionInv, Confirm
    PROVE  AdmissionInv'
  <1>1. exam # Unowned /\ exam.pc \in {"confirm", "renew"}
    BY DEF Confirm, ExamAt, Owned
  <1>2. CASE GiveUp
    BY <1>1, <1>2, GiveUpFits, SeenIsWritten, QuietKeeps DEF Confirm, fileVars, histories
  <1>3. CASE ~GiveUp
    <2>1. /\ Knows(exam) /\ Meets(exam) /\ exam \in Examination
          /\ file = exam.seen /\ ~writing
      BY <1>1, <1>3, OwnedExam DEF Confirm, Confirmed
    <2>2. exam.seen \in finished
      BY <1>1, <2>1 DEF AdmissionInv, FileInv, Knows, Judged
    <2>3. PICK pc \in {"attested", "apply"} : Go(pc)
      BY <1>3 DEF Confirm
    <2>4. Knows(exam') /\ Meets(exam')
      BY <1>1, <2>1, <2>2, <2>3
         DEF Go, Knows, Meets, Judged, Attesting, Rejecting, Examination, ExamPcs
    <2> QED
      BY <2>4, SeenIsWritten, QuietKeeps DEF Confirm, fileVars, histories
  <1> QED
    BY <1>2, <1>3

LEMMA AttestedKeeps ==
    ASSUME AdmissionInv, Attested
    PROVE  AdmissionInv'
  <1>1. /\ exam # Unowned /\ exam.pc = "attested"
        /\ Knows(exam) /\ Meets(exam) /\ exam \in Examination
    BY OwnedExam DEF Attested, ExamAt, Owned
  <1>2. PICK pc \in {"apply", "renew", "end"} : Go(pc)
    BY DEF Attested
  <1>3. Knows(exam') /\ Meets(exam')
    BY <1>1, <1>2
       DEF Go, Knows, Meets, Judged, Attesting, Rejecting, Examination, ExamPcs
  <1> QED
    BY <1>3, SeenIsWritten, QuietKeeps DEF Attested, fileVars, histories

\* The checks before a rejection.
LEMMA BeginRejectionKeeps ==
    ASSUME AdmissionInv, BeginRejection
    PROVE  AdmissionInv'
  <1>1. /\ exam # Unowned /\ exam.pc = "apply" /\ exam.action = "quarantine"
        /\ exam.row # "gone" /\ Knows(exam) /\ Meets(exam) /\ exam \in Examination
    BY OwnedExam DEF BeginRejection, ExamAt, Owned, Existing
  <1>2. PICK pc \in {"claim", "end"} : Go(pc)
    BY DEF BeginRejection
  <1>3. Knows(exam') /\ Meets(exam')
    BY <1>1, <1>2
       DEF Go, Knows, Meets, Judged, Attesting, Rejecting, Examination, ExamPcs
  <1> QED
    BY <1>3, SeenIsWritten, QuietKeeps DEF BeginRejection, fileVars, histories

\* A path that is reserved has been seen by nobody.
LEMMA NewExamFits ==
    ASSUME AdmissionInv, NEW by \in Owners
    PROVE  Knows(NewExam(by)) /\ Meets(NewExam(by))
  BY SeenIsWritten
     DEF NewExam, Knows, Meets, Examination, ExamPcs, ReadyActions, Judged, Attesting,
         Rejecting

LEMMA ReserveFits ==
    ASSUME AdmissionInv, NEW by \in Owners, Reserve(by)
    PROVE  exam' = Unowned \/ (Knows(exam') /\ Meets(exam'))
  BY NewExamFits DEF Reserve, AdmissionInv, ExamInv

\* Events, retries, the end of an examination, and the steps of a scan that
\* touch nothing.
LEMMA ScheduleKeeps ==
    ASSUME AdmissionInv,
           EndExamination \/ HandleEvent \/ RunRetry \/ ScanFile
    PROVE  AdmissionInv'
  <1> USE SeenIsWritten DEF fileVars, histories
  <1>1. NoScan \in Scans /\ \A mode \in {"startup", "recovery"} :
            ScanAt("exam", mode) \in Scans /\ ScanAt("list", mode) \in Scans
    BY DEF Scans, NoScan, ScanAt
  <1>2. CASE EndExamination
    BY <1>1, <1>2, QuietKeeps DEF EndExamination
  <1>3. CASE HandleEvent
    BY <1>3, ReserveFits, QuietKeeps DEF HandleEvent, Owners
  <1>4. CASE RunRetry
    BY <1>4, ReserveFits, QuietKeeps DEF RunRetry, Owners
  <1>5. CASE ScanFile
    <2>1. scan[2] \in {"startup", "recovery"}
      BY <1>5 DEF ScanFile, Scans, NoScan
    <2> QED
      BY <1>1, <1>5, <2>1, ReserveFits, QuietKeeps DEF ScanFile, Owners
  <1> QED
    BY <1>2, <1>3, <1>4, <1>5

------------------------------------------------------------------------------
(* Steps that write the row. *)

\* A row that is there and not under a rejection becomes another such row.
LEMMA RowMoves ==
    ASSUME AdmissionInv, GoodTable', jobs[Self] # Gone, ~Rejected(jobs[Self]),
           ~Rejected(jobs'[Self]),
           exam' = Unowned \/ (Knows(exam') /\ Meets(exam')),
           artifacts' \in BOOLEAN,
           admissionLeft' \in [writes : 0..MaxWrites, scans : 0..MaxScans,
                               requests : 0..MaxRequests, faults : 0..MaxMoveFaults],
           admissionLeft'.writes = admissionLeft.writes,
           UNCHANGED <<file, writing, bad, quarantine, pinned, finished, scan>>
    PROVE  AdmissionInv'
  <1>1. AdmissionTyped' /\ FileInv' /\ ClaimInv'
    BY DEF AdmissionInv, AdmissionTyped, FileInv, ClaimInv, WrittenSoFar
  <1>2. ExamInv'
    BY DEF ExamInv, Knows, Meets, WrittenSoFar
  <1> QED
    BY <1>1, <1>2 DEF AdmissionInv

\* Spending touches one bound only.
LEMMA SpendTyped ==
    ASSUME AdmissionInv, NEW what \in {"writes", "scans", "requests", "faults"},
           Spend(what)
    PROVE  /\ admissionLeft' \in [writes : 0..MaxWrites, scans : 0..MaxScans,
                                  requests : 0..MaxRequests, faults : 0..MaxMoveFaults]
           /\ what # "writes" => admissionLeft'.writes = admissionLeft.writes
           /\ what = "writes" => admissionLeft'.writes = admissionLeft.writes - 1
                                 /\ admissionLeft.writes \in 1..MaxWrites
  BY AdmissionBounds DEF AdmissionInv, AdmissionTyped, Spend

LEMMA LeftTyped ==
    ASSUME AdmissionInv
    PROVE  /\ admissionLeft \in [writes : 0..MaxWrites, scans : 0..MaxScans,
                                 requests : 0..MaxRequests, faults : 0..MaxMoveFaults]
           /\ artifacts \in BOOLEAN /\ GoodTable /\ Self \in Meetings
           /\ exam = Unowned \/ (Knows(exam) /\ Meets(exam))
  BY SelfAssumption DEF AdmissionInv, AdmissionTyped, ExamInv

\* A rejection is recording.
LEMMA RejectedRow ==
    ASSUME AdmissionInv
    PROVE  /\ jobs[Self] \in Rows \cup {Gone}
           /\ Rejected(jobs[Self]) => jobs[Self].status = "recording"
                                      /\ jobs[Self].action.token \in Tokens
           /\ jobs[Self].status \in Statuses => jobs[Self] # Gone
  <1>1. GoodTable /\ Self \in Meetings
    BY LeftTyped
  <1>2. ASSUME Rejected(jobs[Self])
        PROVE  jobs[Self].status = "recording" /\ jobs[Self].action.token \in Tokens
    <2>1. jobs[Self] \in Rows /\ Coherent(jobs[Self]) /\ jobs[Self].action \in Actions
          /\ jobs[Self].action.kind = "reject"
      BY <1>1, <1>2 DEF GoodTable, Rejected, Rows
    <2>2. jobs[Self].action \in RejectionClaims
      BY <2>1, KindOfAction
    <2> QED
      BY <2>1, <2>2 DEF Coherent, Claims, RejectionClaims
  <1>3. "gone" \notin Statuses
    BY DEF Statuses, ActiveStatuses
  <1> QED
    BY <1>1, <1>2, <1>3 DEF GoodTable, Gone

\* A request, and the worker taking the job.
LEMMA RequestKeeps ==
    ASSUME AdmissionInv, Request
    PROVE  AdmissionInv'
  <1>1. PICK intent \in Intents, s \in Selections : QueueJob(Self, intent, s)
    BY DEF Request
  <1>2. GoodTable'
    BY <1>1, LeftTyped, QueueJobGood
  <1>3. jobs[Self].status \in {"recorded", "failed"} /\ jobs'[Self].action = Plain(intent)
    BY <1>1, RejectedRow, LeftTyped DEF QueueJob, Store, Requeued, GoodTable, Rows, Statuses
  <1>4. jobs[Self] # Gone /\ ~Rejected(jobs[Self]) /\ ~Rejected(jobs'[Self])
    BY <1>3, RejectedRow DEF Statuses, Plain, Rejected
  <1>5. admissionLeft'.writes = admissionLeft.writes
        /\ admissionLeft' \in [writes : 0..MaxWrites, scans : 0..MaxScans,
                               requests : 0..MaxRequests, faults : 0..MaxMoveFaults]
    BY SpendTyped DEF Request
  <1>6. exam' = Unowned \/ (Knows(exam') /\ Meets(exam'))
    BY LeftTyped DEF Request, watchVars
  <1> QED
    BY <1>2, <1>4, <1>5, <1>6, LeftTyped, RowMoves DEF Request, fileVars, watchVars, histories

LEMMA RunStartsKeeps ==
    ASSUME AdmissionInv, RunStarts
    PROVE  AdmissionInv'
  <1>1. GoodTable'
    BY LeftTyped, ClaimQueuedGood DEF RunStarts
  <1>2. /\ jobs[Self].status = "queued" /\ jobs[Self] # Gone
        /\ jobs'[Self].action = jobs[Self].action
    BY RejectedRow, LeftTyped
       DEF RunStarts, ClaimQueuedJobForProcessing, Store, GoodTable, Rows, Statuses
  <1>3. ~Rejected(jobs[Self]) /\ ~Rejected(jobs'[Self])
    BY <1>2, RejectedRow DEF Rejected
  <1>4. exam' = Unowned \/ (Knows(exam') /\ Meets(exam'))
    BY LeftTyped DEF RunStarts, watchVars
  <1> QED
    BY <1>1, <1>2, <1>3, <1>4, LeftTyped, RowMoves
       DEF RunStarts, fileVars, watchVars, histories

\* The end of a run, with results or without.
LEMMA RunEndsKeeps ==
    ASSUME AdmissionInv, RunEnds
    PROVE  AdmissionInv'
  <1>1. PICK results \in BOOLEAN, end \in {"completed", "failed"} :
            /\ artifacts' = (artifacts \/ results)
            /\ Store(Self, [jobs[Self] EXCEPT
                               !.status = end, !.action = NoAction,
                               !.error = IF end = "failed" THEN "other" ELSE "none"])
    BY DEF RunEnds
  <1> DEFINE error == IF end = "failed" THEN "other" ELSE "none"
             row == [jobs[Self] EXCEPT !.status = end, !.action = NoAction, !.error = error]
  <1>2. jobs[Self].status = "transcribing" /\ jobs[Self] \in Rows /\ jobs[Self] # Gone
    BY RejectedRow DEF RunEnds, Statuses, ActiveStatuses
  <1>3. error \in Errors /\ end \in Statuses /\ NoAction \in PlainActions
        /\ NoAction \in Actions
    BY NoActionFits DEF Errors, Statuses, Actions
  <1>4. row \in Rows /\ row.status # "recording" /\ row.action \in PlainActions
    BY <1>2, <1>3 DEF Rows
  <1>5. GoodRow(row) /\ GoodTable'
    BY <1>1, <1>4, PlainGood, LeftTyped, StoreGood
  <1>6. ~Rejected(jobs[Self]) /\ ~Rejected(jobs'[Self])
    <2>1. jobs'[Self] = row
      BY <1>1, LeftTyped DEF Store, GoodTable
    <2> QED
      BY <1>2, <1>4, <2>1, RejectedRow DEF Rejected, PlainActions
  <1>7. /\ exam' = Unowned \/ (Knows(exam') /\ Meets(exam'))
        /\ artifacts' \in BOOLEAN
    BY <1>1, LeftTyped DEF RunEnds, watchVars
  <1> QED
    BY <1>2, <1>5, <1>6, <1>7, LeftTyped, RowMoves
       DEF RunEnds, watchVars, histories

\* There is always a token other than that of the row.
LEMMA FreshTokenIsFresh == FreshToken \in Tokens
  <1>1. \E t \in Tokens : Durable(jobs[Self]) => jobs[Self].action.token # t
    BY TokenAssumption
  <1> QED
    BY <1>1 DEF FreshToken

\* A job on hold for the audit or after it.
LEMMA HoldKeeps ==
    ASSUME AdmissionInv, HoldJobForAudioAdmission(Self, FreshToken),
           exam' = Unowned \/ (Knows(exam') /\ Meets(exam')),
           UNCHANGED <<file, writing, bad, quarantine, artifacts, pinned, finished, scan,
                       admissionLeft>>
    PROVE  AdmissionInv'
  <1>1. GoodTable'
    BY LeftTyped, HoldGood, FreshTokenIsFresh
  <1>2. jobs[Self].status \in {"queued", "failed"} /\ jobs[Self] \in Rows
        /\ jobs[Self] # Gone /\ ~Rejected(jobs[Self])
    BY RejectedRow DEF HoldJobForAudioAdmission, Statuses
  <1>3. jobs'[Self].action.kind = "hold"
    BY <1>2, LeftTyped DEF HoldJobForAudioAdmission, Store, GoodTable, Rows
  <1> QED
    BY <1>1, <1>2, <1>3, LeftTyped, RowMoves DEF Rejected

LEMMA HoldForAuditKeeps ==
    ASSUME AdmissionInv, HoldForAudit
    PROVE  AdmissionInv'
  <1>1. exam # Unowned /\ exam.pc = "hold"
    BY DEF HoldForAudit, ExamAt, Owned
  <1>2. PICK pc \in {"inspect", "settle", "passed"} : Go(pc)
    BY DEF HoldForAudit
  <1>3. Knows(exam') /\ Meets(exam')
    BY <1>1, <1>2, OwnedExam, Passive DEF Go
  <1> QED
    BY <1>3, HoldKeeps, SeenIsWritten, QuietKeeps DEF HoldForAudit, fileVars

LEMMA ReleaseKeeps ==
    ASSUME AdmissionInv, Release
    PROVE  AdmissionInv'
  <1>1. exam # Unowned /\ exam.pc = "release"
    BY DEF Release, ExamAt, Owned
  <1>2. Knows(exam') /\ Meets(exam')
    BY <1>1, OwnedExam, Passive DEF Release, Go
  <1> QED
    BY <1>2, HoldKeeps, SeenIsWritten, QuietKeeps DEF Release, fileVars, histories

\* Registration, or the release of a hold.
LEMMA AcceptKeeps ==
    ASSUME AdmissionInv, Accept
    PROVE  AdmissionInv'
  <1>1. exam # Unowned /\ exam.pc = "apply" /\ exam' = [exam EXCEPT !.pc = "end"]
        /\ Knows(exam) /\ exam \in Examination
    BY OwnedExam DEF Accept, ExamAt, Owned, Go
  <1>2. Knows(exam') /\ Meets(exam')
    BY <1>1, OwnedExam, Passive
  <1>3. CASE jobs' = jobs
    BY <1>2, <1>3, SeenIsWritten, QuietKeeps DEF Accept, fileVars, histories
  <1>4. CASE FinalizeAudioAdmissionHold(Self, jobs[Self].action.token)
    <2>1. /\ jobs[Self].status = "recorded" /\ jobs[Self].action.kind = "hold"
          /\ jobs[Self] \in Rows /\ jobs[Self] # Gone
      BY <1>4, RejectedRow DEF FinalizeAudioAdmissionHold, CanFinalizeHold, Statuses
    <2>2. jobs[Self].action \in Holds
      BY <2>1, KindOfAction DEF Rows
    <2>3. jobs[Self].action.token \in Tokens /\ jobs[Self].action.action \in PlainActions
      BY <2>2 DEF Holds
    <2>4. GoodTable'
      BY <1>4, <2>3, LeftTyped, FinalizeHoldGood
    <2>5. jobs'[Self].action \in PlainActions
      BY <1>4, <2>1, <2>3, LeftTyped, NoActionFits
         DEF FinalizeAudioAdmissionHold, Store, GoodTable, HoldReleased, Rows
    <2>6. ~Rejected(jobs[Self]) /\ ~Rejected(jobs'[Self])
      BY <2>1, <2>5 DEF Rejected, PlainActions
    <2> QED
      BY <1>2, <2>1, <2>4, <2>6, LeftTyped, RowMoves DEF Accept, fileVars, histories
  <1>5. CASE exam.row = "gone" /\ jobs[Self] = Gone
             /\ \E s \in Selections : AddJob(Self, "recorded", s)
    <2>1. PICK s \in Selections : AddJob(Self, "recorded", s)
      BY <1>5
    <2>2. GoodTable'
      BY <2>1, LeftTyped, AddJobGood
    <2>3. jobs'[Self].action = NoAction
      BY <2>1, LeftTyped DEF AddJob, Store, GoodTable, Row
    <2>4. ~Rejected(jobs'[Self])
      BY <2>3 DEF Rejected, NoAction, Plain
    <2>5. exam'.row = "gone" /\ exam'.pc = "end"
      BY <1>1, <1>5 DEF Examination
    <2>6. AdmissionTyped' /\ FileInv' /\ ClaimInv'
      BY <2>2, <2>4
         DEF AdmissionInv, AdmissionTyped, FileInv, ClaimInv, WrittenSoFar, Accept,
             fileVars, histories
    <2>7. Knows(exam)' /\ Meets(exam)'
      BY <1>2, <2>5 DEF Knows, Meets, Accept, fileVars, histories, WrittenSoFar
    <2> QED
      BY <2>6, <2>7 DEF AdmissionInv, ExamInv
  <1> QED
    BY <1>3, <1>4, <1>5 DEF Accept, Existing

------------------------------------------------------------------------------
(* Steps that change the file, and the rejection. *)

LEMMA OpenWriterKeeps ==
    ASSUME AdmissionInv, OpenWriter
    PROVE  AdmissionInv'
  <1> USE DEF OpenWriter, watchVars, histories
  <1>1. AdmissionTyped' /\ FileInv' /\ ClaimInv'
    BY DEF AdmissionInv, AdmissionTyped, FileInv, ClaimInv, WrittenSoFar, GoodTable
  <1>2. ExamInv'
    BY DEF AdmissionInv, ExamInv, Knows, Meets, WrittenSoFar
  <1> QED
    BY <1>1, <1>2 DEF AdmissionInv

\* A new content has a number that nothing known so far bears.
LEMMA WriteKeeps ==
    ASSUME AdmissionInv, Write
    PROVE  AdmissionInv'
  <1>1. /\ admissionLeft' \in [writes : 0..MaxWrites, scans : 0..MaxScans,
                               requests : 0..MaxRequests, faults : 0..MaxMoveFaults]
        /\ admissionLeft'.writes = admissionLeft.writes - 1
        /\ admissionLeft.writes \in 1..MaxWrites
    BY SpendTyped DEF Write
  <1> DEFINE new == WrittenSoFar + 1
  <1>2. /\ new \in Contents /\ WrittenSoFar' = new /\ file' = new
        /\ WrittenSoFar \in 0..MaxWrites
    BY <1>1, SeenIsWritten DEF Write, WrittenSoFar, Contents
  <1>3. bad' = bad \/ bad' = bad \cup {new}
    BY <1>2 DEF Write
  <1> HIDE DEF new
  <1>4. /\ UNCHANGED <<jobs, writing, quarantine, artifacts, finished, pinned, exam, scan>>
        /\ writing = TRUE
    BY DEF Write, watchVars, histories, AdmissionInv, AdmissionTyped
  <1>5. AdmissionTyped'
    BY <1>1, <1>4 DEF AdmissionInv, AdmissionTyped, GoodTable
  <1>6. /\ new \notin quarantine /\ new > WrittenSoFar
        /\ new = WrittenSoFar + 1
    BY <1>2, SeenIsWritten DEF AdmissionInv, FileInv, new
  <1>7. FileInv'
    <2>1. 0..WrittenSoFar \subseteq 0..new /\ 1..WrittenSoFar \subseteq 1..new
          /\ new \in 1..new
      BY <1>2, <1>6
    <2>2. bad' \subseteq 1..new /\ finished' \subseteq 0..new /\ bad \subseteq bad'
      BY <1>3, <1>4, <2>1 DEF AdmissionInv, FileInv
    <2> QED
      BY <1>2, <1>4, <1>6, <2>1, <2>2 DEF AdmissionInv, FileInv
  <1>8. ClaimInv'
    BY <1>3, <1>4 DEF AdmissionInv, ClaimInv
  <1>9. ExamInv'
    <2>1. CASE exam = Unowned
      BY <1>4, <2>1 DEF ExamInv
    <2>2. CASE Knows(exam) /\ Meets(exam)
      <3>1. exam.seen \in bad' <=> exam.seen \in bad
        BY <1>2, <1>3, <1>6, <2>2 DEF Knows
      <3>2. exam.seen \in 0..WrittenSoFar'
        BY <1>2, <1>6, <2>2 DEF Knows
      <3>3. Knows(exam)' /\ Meets(exam)'
        BY <1>4, <2>2, <3>1, <3>2 DEF Knows, Meets
      <3> QED
        BY <3>3 DEF ExamInv
    <2> QED
      BY <2>1, <2>2 DEF AdmissionInv, ExamInv
  <1> QED
    BY <1>5, <1>7, <1>8, <1>9 DEF AdmissionInv

LEMMA CloseWriterKeeps ==
    ASSUME AdmissionInv, CloseWriter
    PROVE  AdmissionInv'
  <1> USE DEF CloseWriter, watchVars
  <1>1. AdmissionTyped' /\ FileInv' /\ ClaimInv'
    BY DEF AdmissionInv, AdmissionTyped, FileInv, ClaimInv, WrittenSoFar, GoodTable
  <1>2. ExamInv'
    BY DEF AdmissionInv, ExamInv, Knows, Meets, WrittenSoFar
  <1> QED
    BY <1>1, <1>2 DEF AdmissionInv

\* Moving the file away, when it is bad, has been finished and its meeting has
\* no results or no row.
LEMMA MoveAwayKeeps ==
    ASSUME AdmissionInv, NEW seen, MoveAway(seen), seen # 0,
           seen \in finished \cap bad,
           \/ exam' = exam /\ Rejected(jobs[Self])
           \/ Knows(exam)' /\ Meets(exam)',
           Rejected(jobs[Self]) => ~artifacts,
           scan' \in Scans,
           UNCHANGED <<jobs, pinned, finished, admissionLeft>>
    PROVE  AdmissionInv'
  <1>1. /\ quarantine' = quarantine \cup {seen} /\ file' = 0
        /\ UNCHANGED <<writing, bad, artifacts>>
    BY DEF MoveAway
  <1>2. AdmissionTyped'
    BY <1>1 DEF AdmissionInv, AdmissionTyped, GoodTable
  <1>3. FileInv'
    BY <1>1, SeenIsWritten DEF AdmissionInv, FileInv, WrittenSoFar
  <1>4. ClaimInv'
    BY <1>1 DEF AdmissionInv, ClaimInv
  <1>5. ExamInv'
    <2>1. CASE exam' = exam /\ Rejected(jobs[Self])
      <3>1. jobs[Self] # Gone
        BY <2>1 DEF Rejected
      <3> QED
        BY <1>1, <2>1, <3>1 DEF AdmissionInv, ExamInv, Knows, Meets, WrittenSoFar
    <2>2. CASE Knows(exam)' /\ Meets(exam)'
      BY <2>2 DEF ExamInv
    <2> QED
      BY <2>1, <2>2
  <1> QED
    BY <1>2, <1>3, <1>4, <1>5 DEF AdmissionInv

\* A fault that costs nothing but its budget.
LEMMA FaultKeeps ==
    ASSUME AdmissionInv, Spend("faults"),
           exam' = Unowned \/ (Knows(exam') /\ Meets(exam')),
           UNCHANGED <<jobs, file, writing, bad, quarantine, artifacts, pinned, finished>>,
           scan' \in Scans
    PROVE  AdmissionInv'
  <1>1. /\ admissionLeft' \in [writes : 0..MaxWrites, scans : 0..MaxScans,
                               requests : 0..MaxRequests, faults : 0..MaxMoveFaults]
        /\ admissionLeft'.writes = admissionLeft.writes
    BY SpendTyped
  <1>2. AdmissionTyped' /\ FileInv' /\ ClaimInv'
    BY <1>1 DEF AdmissionInv, AdmissionTyped, FileInv, ClaimInv, WrittenSoFar, GoodTable
  <1>3. ExamInv'
    BY <1>1 DEF ExamInv, Knows, Meets, WrittenSoFar
  <1> QED
    BY <1>2, <1>3 DEF AdmissionInv

\* An examination that ends knows nothing any more.
LEMMA EndFits ==
    ASSUME AdmissionInv, exam # Unowned, exam.pc # "lookup", Go("end")
    PROVE  /\ Knows(exam') /\ Meets(exam')
           /\ exam'.pc = "end" /\ exam'.row = exam.row /\ exam'.seen = exam.seen
  <1>1. Knows(exam) /\ Meets(exam) /\ exam \in Examination
    BY OwnedExam
  <1>2. /\ exam' \in Examination /\ exam'.pc = "end" /\ exam'.row = exam.row
        /\ exam'.seen = exam.seen
    BY <1>1 DEF Go, Examination, ExamPcs
  <1> QED
    BY <1>1, <1>2 DEF Knows, Meets, Judged, Attesting, Rejecting

\* A new file that is bad goes to the quarantine.
LEMMA QuarantineNewKeeps ==
    ASSUME AdmissionInv, QuarantineNew
    PROVE  AdmissionInv'
  <1>1. /\ exam # Unowned /\ exam.pc = "apply" /\ exam.action = "quarantine"
        /\ exam.row = "gone" /\ Go("end") /\ Knows(exam) /\ Meets(exam)
    BY OwnedExam DEF QuarantineNew, ExamAt, Owned, Existing
  <1>2. /\ Knows(exam') /\ Meets(exam') /\ exam'.pc = "end" /\ exam'.row = "gone"
    BY <1>1, EndFits
  <1>3. CASE MoveAway(exam.seen) /\ UNCHANGED admissionLeft
    <2>1. exam.seen # 0 /\ exam.seen \in finished \cap bad
      BY <1>1 DEF Knows, Judged, Attesting
    <2>2. ~Rejected(jobs[Self])
      BY <1>1 DEF Meets, Rejected
    <2>3. Knows(exam)' /\ Meets(exam)'
      BY <1>2, <1>3
         DEF Knows, Meets, MoveAway, QuarantineNew, histories, WrittenSoFar
    <2> QED
      BY <1>3, <2>1, <2>2, <2>3, SeenIsWritten, MoveAwayKeeps DEF QuarantineNew, histories
  <1>4. CASE UNCHANGED <<fileVars, admissionLeft>>
    BY <1>2, <1>4, SeenIsWritten, QuietKeeps DEF QuarantineNew, fileVars, histories
  <1>5. CASE Spend("faults") /\ UNCHANGED fileVars
    BY <1>2, <1>5, SeenIsWritten, FaultKeeps DEF QuarantineNew, fileVars, histories
  <1> QED
    BY <1>3, <1>4, <1>5 DEF QuarantineNew

\* The claim pins what was seen, which is still at the path or lost, not moved.
LEMMA ClaimRejectionKeeps ==
    ASSUME AdmissionInv, ClaimRejection
    PROVE  AdmissionInv'
  <1>1. /\ exam # Unowned /\ exam.pc = "claim" /\ Knows(exam) /\ Meets(exam)
        /\ exam \in Examination
    BY OwnedExam DEF ClaimRejection, ExamAt, Owned
  <1>2. CASE Go("end") /\ UNCHANGED <<jobs, pinned>>
    BY <1>1, <1>2, EndFits, SeenIsWritten, QuietKeeps DEF ClaimRejection, fileVars
  <1>3. CASE /\ ClaimForAudioRejection(Self, FreshToken)
             /\ pinned' = [pinned EXCEPT ![FreshToken] = exam.seen]
             /\ exam' = [exam EXCEPT !.token = FreshToken, !.pc = "move"]
    <2>1. GoodTable' /\ FreshToken \in Tokens
      BY <1>3, LeftTyped, ClaimRejectionGood, FreshTokenIsFresh
    <2>2. /\ jobs[Self].status \in {"recorded", "queued", "failed"}
          /\ jobs[Self] \in Rows /\ jobs[Self] # Gone /\ ~Rejected(jobs[Self])
      BY <1>3, RejectedRow DEF ClaimForAudioRejection, Statuses
    <2>3. /\ jobs'[Self].status = "recording" /\ jobs'[Self].action.kind = "reject"
          /\ jobs'[Self].action.token = FreshToken
      BY <1>3, <2>2, LeftTyped DEF ClaimForAudioRejection, Store, GoodTable, Rows
    <2>4. Rejected(jobs'[Self])
      BY <2>3 DEF Rejected, Gone
    <2>5. /\ exam.seen \in finished \cap bad /\ exam.seen \notin quarantine
          /\ exam.row # "gone" /\ exam.seen \in {0} \cup Contents /\ exam.seen # 0
      BY <1>1, <2>2
         DEF Knows, Meets, Judged, Attesting, Rejecting, Examination
    <2>6. /\ exam' \in Examination /\ exam'.pc = "move" /\ exam'.token = FreshToken
          /\ exam'.seen = exam.seen /\ exam'.row = exam.row /\ exam'.action = exam.action
      BY <1>1, <1>3, <2>1 DEF Examination, ExamPcs
    <2>7. pinned' \in [Tokens -> {0} \cup Contents] /\ pinned'[FreshToken] = exam.seen
      BY <1>3, <2>1, <2>5 DEF AdmissionInv, AdmissionTyped
    <2>8. UNCHANGED <<file, writing, bad, quarantine, artifacts, finished, scan,
                      admissionLeft>>
      BY DEF ClaimRejection, fileVars
    <2>9. AdmissionTyped' /\ FileInv'
      BY <2>1, <2>7, <2>8 DEF AdmissionInv, AdmissionTyped, FileInv, WrittenSoFar
    <2>10. ClaimInv'
      BY <2>3, <2>5, <2>7, <2>8 DEF ClaimInv
    <2>11. Knows(exam)' /\ Meets(exam)'
      BY <1>1, <2>1, <2>4, <2>5, <2>6, <2>7, <2>8
         DEF Knows, Meets, Judged, Attesting, Rejecting, WrittenSoFar
    <2> QED
      BY <2>9, <2>10, <2>11 DEF AdmissionInv, ExamInv
  <1> QED
    BY <1>2, <1>3 DEF ClaimRejection

\* The file of the claim goes to the quarantine.
LEMMA MoveRejectedKeeps ==
    ASSUME AdmissionInv, MoveRejected
    PROVE  AdmissionInv'
  <1>1. /\ exam # Unowned /\ exam.pc = "move" /\ Knows(exam) /\ Meets(exam)
        /\ exam \in Examination
    BY OwnedExam DEF MoveRejected, ExamAt, Owned
  <1>2. CASE MoveAway(exam.seen) /\ Go("finalize") /\ UNCHANGED admissionLeft /\ ~artifacts
    <2>1. exam.seen # 0 /\ exam.seen \in finished \cap bad /\ exam.row # "gone"
      BY <1>1 DEF Knows, Judged, Attesting, Rejecting
    <2>2. exam' \in Examination /\ exam' = [exam EXCEPT !.pc = "finalize"]
      BY <1>1, <1>2 DEF Go, Examination, ExamPcs
    <2>3. Knows(exam)' /\ Meets(exam)'
      BY <1>1, <1>2, <2>1, <2>2
         DEF Knows, Meets, MoveAway, MoveRejected, histories, WrittenSoFar, Judged,
             Attesting, Rejecting, Examination
    <2> QED
      BY <1>2, <2>1, <2>3, SeenIsWritten, MoveAwayKeeps DEF MoveRejected, histories
  <1>3. CASE Go("end") /\ UNCHANGED <<fileVars, admissionLeft>>
    BY <1>1, <1>3, EndFits, SeenIsWritten, QuietKeeps DEF MoveRejected, fileVars, histories
  <1>4. CASE Spend("faults") /\ Go("end") /\ UNCHANGED fileVars
    BY <1>1, <1>4, EndFits, SeenIsWritten, FaultKeeps DEF MoveRejected, fileVars, histories
  <1> QED
    BY <1>2, <1>3, <1>4 DEF MoveRejected, ResultsAppeared

\* The row goes.
LEMMA DropKeeps ==
    ASSUME AdmissionInv, FinalizeAudioRejection(Self, jobs[Self].action.token),
           exam' = Unowned \/ Knows(exam'),
           scan' \in Scans,
           UNCHANGED <<file, writing, bad, quarantine, artifacts, pinned, finished,
                       admissionLeft>>
    PROVE  AdmissionInv'
  <1>1. GoodTable' /\ jobs'[Self] = Gone
    BY LeftTyped, DropGood DEF FinalizeAudioRejection, Store, GoodTable
  <1>2. AdmissionTyped' /\ FileInv' /\ ClaimInv'
    BY <1>1 DEF AdmissionInv, AdmissionTyped, FileInv, ClaimInv, WrittenSoFar, Rejected
  <1>3. ExamInv'
    BY <1>1 DEF AdmissionInv, ExamInv, Knows, Meets, WrittenSoFar
  <1> QED
    BY <1>2, <1>3 DEF AdmissionInv

LEMMA FinalizeRejectionKeeps ==
    ASSUME AdmissionInv, FinalizeRejection
    PROVE  AdmissionInv'
  <1>1. exam # Unowned /\ exam.pc = "finalize" /\ Go("end")
    BY DEF FinalizeRejection, ExamAt, Owned
  <1>2. Knows(exam') /\ Meets(exam') /\ exam'.pc = "end"
    BY <1>1, EndFits
  <1>3. CASE /\ FinalizeAudioRejection(Self, exam.token) /\ UNCHANGED admissionLeft
             /\ Claimed(jobs[Self], "reject", exam.token)
    BY <1>2, <1>3, SeenIsWritten, DropKeeps
       DEF FinalizeRejection, Claimed, fileVars, histories
  <1>4. CASE Spend("faults") /\ UNCHANGED jobs
    BY <1>2, <1>4, SeenIsWritten, FaultKeeps DEF FinalizeRejection, fileVars, histories
  <1>5. CASE UNCHANGED <<jobs, admissionLeft>>
    BY <1>2, <1>5, SeenIsWritten, QuietKeeps DEF FinalizeRejection, fileVars, histories
  <1> QED
    BY <1>3, <1>4, <1>5 DEF FinalizeRejection

\* Recovery of a claim: it moves what the claim names, or finds it moved.
LEMMA RecoverClaimKeeps ==
    ASSUME AdmissionInv, RecoverClaim
    PROVE  AdmissionInv'
  <1>1. exam' = exam /\ (exam' = Unowned \/ (Knows(exam') /\ Meets(exam')))
    BY LeftTyped DEF RecoverClaim
  <1>2. ScanAt("list", "startup") \in Scans
        /\ \A t \in Tokens : <<"finalize", "startup", t>> \in Scans
    BY DEF Scans, ScanAt
  <1>3. CASE /\ Recoverable /\ UNCHANGED admissionLeft
             /\ scan' = <<"finalize", "startup", jobs[Self].action.token>>
             /\ IF file = 0 THEN UNCHANGED fileVars ELSE MoveAway(file)
    <2>1. Rejected(jobs[Self]) /\ ~artifacts
      BY <1>3 DEF Recoverable, ClaimToRecover, Rejected, Gone
    <2>2. scan' \in Scans
      BY <1>2, <1>3, <2>1, RejectedRow
    <2>3. CASE file = 0
      BY <1>1, <1>3, <2>2, <2>3, QuietKeeps, LeftTyped DEF RecoverClaim, fileVars, histories
    <2>4. CASE file # 0
      <3>1. file = pinned[jobs[Self].action.token] /\ file \in finished \cap bad
        BY <1>3, <2>1, <2>4
           DEF Recoverable, SourceOnly, QuarantineOnly, AdmissionInv, ClaimInv
      <3> QED
        BY <1>3, <2>1, <2>2, <2>4, <3>1, MoveAwayKeeps DEF RecoverClaim, histories
    <2> QED
      BY <2>3, <2>4
  <1>4. CASE Spend("faults") /\ scan' = ScanAt("list", "startup") /\ UNCHANGED fileVars
    BY <1>2, <1>4, FaultKeeps, LeftTyped DEF RecoverClaim, fileVars, histories
  <1>5. CASE scan' = ScanAt("list", "startup") /\ UNCHANGED <<fileVars, admissionLeft>>
    BY <1>2, <1>5, QuietKeeps, LeftTyped DEF RecoverClaim, fileVars, histories
  <1> QED
    BY <1>3, <1>4, <1>5 DEF RecoverClaim

LEMMA FinalizeRecoveredKeeps ==
    ASSUME AdmissionInv, FinalizeRecovered
    PROVE  AdmissionInv'
  <1>1. scan' \in Scans /\ exam' = exam
    BY DEF FinalizeRecovered, Scans, ScanAt
  <1>2. CASE /\ FinalizeAudioRejection(Self, scan[3]) /\ UNCHANGED admissionLeft
             /\ Claimed(jobs[Self], "reject", scan[3])
    BY <1>1, <1>2, LeftTyped, DropKeeps DEF FinalizeRecovered, Claimed, fileVars, histories
  <1>3. CASE Spend("faults") /\ UNCHANGED jobs
    BY <1>1, <1>3, LeftTyped, FaultKeeps DEF FinalizeRecovered, fileVars, histories
  <1>4. CASE UNCHANGED <<jobs, admissionLeft>>
    BY <1>1, <1>4, LeftTyped, QuietKeeps DEF FinalizeRecovered, fileVars, histories
  <1> QED
    BY <1>2, <1>3, <1>4 DEF FinalizeRecovered

\* A recovery scan, and the process that dies.
LEMMA ScanBeginsKeeps ==
    ASSUME AdmissionInv, RequestRecovery \/ Restart
    PROVE  AdmissionInv'
  <1>1. /\ admissionLeft' \in [writes : 0..MaxWrites, scans : 0..MaxScans,
                               requests : 0..MaxRequests, faults : 0..MaxMoveFaults]
        /\ admissionLeft'.writes = admissionLeft.writes
    BY SpendTyped DEF RequestRecovery, Restart
  <1>2. scan' \in Scans /\ (exam' = Unowned \/ exam' = exam)
    BY DEF RequestRecovery, Restart, Scans, ScanAt
  <1>3. UNCHANGED <<jobs, file, writing, bad, quarantine, artifacts, pinned, finished>>
    BY DEF RequestRecovery, Restart, fileVars, histories
  <1>4. AdmissionTyped' /\ FileInv' /\ ClaimInv'
    BY <1>1, <1>2, <1>3
       DEF AdmissionInv, AdmissionTyped, FileInv, ClaimInv, WrittenSoFar, GoodTable
  <1>5. ExamInv'
    BY <1>1, <1>2, <1>3 DEF AdmissionInv, ExamInv, Knows, Meets, WrittenSoFar
  <1> QED
    BY <1>4, <1>5 DEF AdmissionInv

------------------------------------------------------------------------------
(* Every step of the watcher and what comes with it. *)

LEMMA AdmissionKeeps ==
    ASSUME AdmissionInv, [AdmissionNext]_admissionVars
    PROVE  AdmissionInv'
  <1>1. CASE ExamStep
    BY <1>1, LookupKeeps, AuditKeeps, HoldForAuditKeeps, ReleaseKeeps, SettleKeeps,
       InspectKeeps, ValidateKeeps, ConfirmKeeps, AttestedKeeps, AcceptKeeps,
       QuarantineNewKeeps, BeginRejectionKeeps, ClaimRejectionKeeps, MoveRejectedKeeps,
       FinalizeRejectionKeeps, ScheduleKeeps DEF ExamStep
  <1>2. CASE ScanStep \/ HandleEvent \/ RunRetry
    BY <1>2, RecoverClaimKeeps, FinalizeRecoveredKeeps, ScheduleKeeps DEF ScanStep
  <1>3. CASE Surroundings
    BY <1>3, OpenWriterKeeps, WriteKeeps, CloseWriterKeeps, RequestKeeps, RunStartsKeeps,
       RunEndsKeeps, ScanBeginsKeeps DEF Surroundings
  <1>4. CASE UNCHANGED admissionVars
    BY <1>4, LeftTyped, SeenIsWritten, QuietKeeps
       DEF admissionVars, fileVars, watchVars, histories
  <1> QED
    BY <1>1, <1>2, <1>3, <1>4 DEF AdmissionNext

LEMMA AdmissionInitInv == AdmissionInit => AdmissionInv
  <1> SUFFICES ASSUME AdmissionInit PROVE AdmissionInv
    OBVIOUS
  <1>1. GoodTable
    <2>1. CASE file = 0
      BY <2>1 DEF AdmissionInit, AdmissionRows, GoodTable
    <2>2. CASE file # 0
      <3>1. PICK status \in {"recorded", "queued", "failed"}, s \in Selections :
                jobs = [m \in Meetings |-> Row(status, NoAction, 0, "none", s)]
        BY <2>2 DEF AdmissionInit, AdmissionRows
      <3> DEFINE row == Row(status, NoAction, 0, "none", s)
      <3>2. row \in Rows /\ row.status # "recording" /\ row.action \in PlainActions
        <4>1. NoAction \in PlainActions /\ NoAction \in Actions /\ 0 \in RetryCounts
              /\ status \in Statuses /\ "none" \in Errors
          BY NoActionFits, RetryAssumption DEF Actions, Statuses, Errors, RetryCounts
        <4> QED
          BY <4>1 DEF Row, Rows, RetryCounts
      <3>3. GoodRow(row)
        BY <3>2, PlainGood
      <3> HIDE DEF row
      <3> QED
        BY <3>1, <3>3 DEF GoodRow, GoodTable, row
    <2> QED
      BY <2>1, <2>2
  <1>2. ~Rejected(jobs[Self])
    BY SelfAssumption
       DEF AdmissionInit, AdmissionRows, Rejected, Row, NoAction, Plain
  <1>3. AdmissionTyped
    <2>1. scan \in Scans
      BY DEF AdmissionInit, AdmissionLocals, Scans, NoScan, ScanAt
    <2>2. admissionLeft \in [writes : 0..MaxWrites, scans : 0..MaxScans,
                             requests : 0..MaxRequests, faults : 0..MaxMoveFaults]
      <3>1. /\ MaxWrites - file \in 0..MaxWrites /\ MaxRequests - file \in 0..MaxRequests
            /\ MaxScans \in 0..MaxScans /\ MaxMoveFaults \in 0..MaxMoveFaults
        BY AdmissionBounds DEF AdmissionInit, AdmissionLocals
      <3> QED
        BY <3>1 DEF AdmissionInit, AdmissionLocals
    <2>3. pinned \in [Tokens -> {0} \cup Contents]
      BY DEF AdmissionInit, AdmissionLocals
    <2> QED
      BY <1>1, <2>1, <2>2, <2>3 DEF AdmissionInit, AdmissionLocals, AdmissionTyped
  <1>4. FileInv
    BY AdmissionBounds DEF AdmissionInit, AdmissionLocals, FileInv, WrittenSoFar
  <1> QED
    BY <1>2, <1>3, <1>4
       DEF AdmissionInv, ExamInv, ClaimInv, AdmissionInit, AdmissionLocals

\* What one step may admit, ...
LEMMA AdmitsFinished ==
    ASSUME AdmissionInv, [AdmissionNext]_admissionVars,
           ExamAt("apply"), exam' # exam, jobs' # jobs
    PROVE  exam.seen \in finished \ bad
  <1>1. exam.pc = "apply" /\ Knows(exam) /\ Meets(exam)
    BY OwnedExam DEF ExamAt, Owned
  <1>2. Accept
    BY <1>1
       DEF AdmissionNext, admissionVars, fileVars, watchVars, histories, ExamStep, ScanStep,
           Surroundings, ExamAt, Lookup, Audit, HoldForAudit, Release, Settle, Inspect,
           Validate, Confirm, Attested, QuarantineNew, BeginRejection, ClaimRejection,
           MoveRejected, FinalizeRejection, EndExamination, RecoverClaim,
           FinalizeRecovered, ScanFile, HandleEvent, RunRetry, OpenWriter, Write,
           CloseWriter, Request, RunStarts, RunEnds, RequestRecovery, Restart
  <1> QED
    BY <1>1, <1>2 DEF Accept, Knows, Judged, Attesting

\* No other operation on the row removes it.
LEMMA WritesStay ==
    ASSUME AdmissionInv, jobs[Self] # Gone,
           Request \/ RunStarts \/ RunEnds \/ HoldForAudit \/ Release \/ Accept
               \/ ClaimRejection
    PROVE  jobs'[Self] # Gone
  <1>1. jobs[Self] \in Rows /\ jobs \in [Meetings -> Rows \cup {Gone}]
        /\ Self \in Meetings
    BY LeftTyped DEF GoodTable
  <1>2. ASSUME NEW row, Store(Self, row), row.status # "gone"
        PROVE  jobs'[Self] # Gone
    BY <1>1, <1>2 DEF Store, Gone
  <1>3. CASE Request
    <2>1. PICK intent \in Intents, s \in Selections :
              Store(Self, Requeued(jobs[Self], Plain(intent), s))
      BY <1>3 DEF Request, QueueJob
    <2>2. Requeued(jobs[Self], Plain(intent), s).status = "queued"
      BY <1>1 DEF Requeued, Rows
    <2> QED
      BY <1>2, <2>1, <2>2
  <1>4. CASE RunStarts
    BY <1>1, <1>2, <1>4 DEF RunStarts, ClaimQueuedJobForProcessing, Rows
  <1>5. CASE RunEnds
    <2>1. PICK end \in {"completed", "failed"}, error \in {"other", "none"} :
              Store(Self, [jobs[Self] EXCEPT !.status = end, !.action = NoAction,
                                             !.error = error])
      BY <1>5 DEF RunEnds
    <2> QED
      BY <1>1, <1>2, <2>1 DEF Rows
  <1>6. ASSUME HoldJobForAudioAdmission(Self, FreshToken)
        PROVE  jobs'[Self] # Gone
    BY <1>1, <1>2, <1>6 DEF HoldJobForAudioAdmission, Rows
  <1>7. CASE HoldForAudit \/ Release
    BY <1>6, <1>7 DEF HoldForAudit, Release
  <1>8. CASE Accept
    <2>1. CASE jobs' = jobs
      BY <2>1
    <2>2. CASE FinalizeAudioAdmissionHold(Self, jobs[Self].action.token)
      BY <1>1, <1>2, <2>2
         DEF FinalizeAudioAdmissionHold, CanFinalizeHold, HoldReleased, Rows
    <2> QED
      BY <1>8, <2>1, <2>2 DEF Accept
  <1>9. CASE ClaimRejection
    <2>1. ASSUME ClaimForAudioRejection(Self, FreshToken)
          PROVE  jobs'[Self] # Gone
      BY <1>1, <1>2, <2>1 DEF ClaimForAudioRejection, Rows
    <2> QED
      BY <1>9, <2>1 DEF ClaimRejection
  <1> QED
    BY <1>3, <1>4, <1>5, <1>7, <1>8, <1>9

\* ... and what may leave.
LEMMA DropsBadOnly ==
    ASSUME AdmissionInv, [AdmissionNext]_admissionVars,
           jobs[Self] # Gone, jobs'[Self] = Gone
    PROVE  /\ pinned[jobs[Self].action.token] \in quarantine
           /\ ~artifacts
  <1>1. ASSUME NEW t, Claimed(jobs[Self], "reject", t), pinned[t] \in quarantine
        PROVE  pinned[jobs[Self].action.token] \in quarantine /\ ~artifacts
    BY <1>1 DEF Claimed, AdmissionInv, ClaimInv, Rejected
  <1>2. CASE FinalizeRejection
    <2>1. exam # Unowned /\ exam.pc = "finalize" /\ Knows(exam)
      BY <1>2, OwnedExam DEF FinalizeRejection, ExamAt, Owned
    <2>2. Claimed(jobs[Self], "reject", exam.token)
      BY <1>2 DEF FinalizeRejection
    <2> QED
      BY <1>1, <2>1, <2>2 DEF Knows
  <1>3. CASE FinalizeRecovered
    <2>1. QuarantineOnly(pinned[scan[3]]) /\ Claimed(jobs[Self], "reject", scan[3])
      BY <1>3 DEF FinalizeRecovered
    <2> QED
      BY <1>1, <2>1 DEF QuarantineOnly
  <1>4. CASE Request \/ RunStarts \/ RunEnds \/ HoldForAudit \/ Release \/ Accept
             \/ ClaimRejection
    BY <1>4, WritesStay
  <1> QED
    BY <1>2, <1>3, <1>4
       DEF AdmissionNext, admissionVars, fileVars, watchVars, histories, ExamStep, ScanStep,
           Surroundings, Lookup, Audit, Settle, Inspect, Validate, Confirm, Attested,
           QuarantineNew, BeginRejection, MoveRejected, EndExamination, RecoverClaim,
           ScanFile, HandleEvent, RunRetry, OpenWriter, Write, CloseWriter,
           RequestRecovery, Restart

\* The quarantine only ever receives what is finished and bad.
LEMMA QuarantineIsBad ==
    ASSUME AdmissionInv, [AdmissionNext]_admissionVars
    PROVE  quarantine' \subseteq finished \cap bad
  <1>1. CASE quarantine' = quarantine
    BY <1>1 DEF AdmissionInv, FileInv
  <1>2. CASE UNCHANGED <<finished, bad>>
    BY <1>2, AdmissionKeeps DEF AdmissionInv, FileInv
  <1>3. CASE Write \/ CloseWriter
    BY <1>1, <1>3 DEF Write, CloseWriter
  <1>4. CASE ~(Write \/ CloseWriter)
    BY <1>1, <1>2, <1>4
       DEF AdmissionNext, admissionVars, fileVars, watchVars, histories, ExamStep, ScanStep,
           Surroundings, Lookup, Audit, HoldForAudit, Release, Settle, Inspect, Validate,
           Confirm, Attested, Accept, QuarantineNew, BeginRejection, ClaimRejection,
           MoveRejected, FinalizeRejection, EndExamination, RecoverClaim, MoveAway,
           FinalizeRecovered, ScanFile, HandleEvent, RunRetry, OpenWriter, Request,
           RunStarts, RunEnds, RequestRecovery, Restart
  <1> QED
    BY <1>3, <1>4
------------------------------------------------------------------------------
(* Uploads. *)

UpPcs == {"new", "stream", "link", "verify", "cleanup", "created", "failed"}

\* What a request knows of its temporary file: none before it made one, a whole
\* body before it links, and none of its own once it is over.
UploadInv ==
    /\ temps \in [Uploaders -> Uploaders \cup {NoEntry, "foreign"}]
    /\ names \in [Candidates -> Uploaders \cup {NoEntry, "foreign"}]
    /\ written \in [Uploaders -> Nat]
    /\ upPc \in [Uploaders -> UpPcs]
    /\ upName \in [Uploaders -> Candidates]
    /\ \A u \in Uploaders :
          /\ temps[u] \in {u, NoEntry, "foreign"}
          /\ upPc[u] = "new" => temps[u] = NoEntry
          /\ upPc[u] = "link" => ~Incomplete(u)
          /\ upPc[u] \in {"created", "failed"} => temps[u] # u

\* The first free name, if any name is free.
FirstFree ==
    CHOOSE n \in Candidates :
        names[n] = NoEntry /\ \A k \in Candidates : k < n => names[k] # NoEntry

LEMMA FirstFreeIsFree ==
    ASSUME UploadInv, \E n \in Candidates : names[n] = NoEntry
    PROVE  FirstFree \in Candidates /\ names[FirstFree] = NoEntry
  <1>1. \E n \in Candidates :
            names[n] = NoEntry /\ \A k \in Candidates : k < n => names[k] # NoEntry
    <2>1. CASE names[0] = NoEntry
      BY <2>1 DEF Candidates
    <2>2. CASE names[0] # NoEntry
      BY <2>2 DEF Candidates
    <2> QED
      BY <2>1, <2>2
  <1> QED
    BY <1>1 DEF FirstFree

\* What one step of uploads changes.
UploadTakesNothing ==
    foreign' = foreign =>
        /\ \A n \in Candidates :
              names'[n] # names[n] => names[n] = NoEntry /\ ~Incomplete(names'[n])
        /\ \A u \in Uploaders :
              /\ temps'[u] # temps[u] => temps[u] \in {u, NoEntry}
              /\ upPc'[u] \in {"created", "failed"} => temps'[u] # u

\* A step of a request keeps the invariant and takes nothing from anybody.
LEMMA UploadStepKeeps ==
    ASSUME UploadInv, NEW u \in Uploaders, UploadStep(u)
    PROVE  UploadInv' /\ UploadTakesNothing
  <1> USE UploadBounds, UploaderAssumption DEF NoEntry
  <1>1. CASE CreateTemp(u)
    BY <1>1 DEF CreateTemp, UpGo, UploadInv, UploadTakesNothing, Incomplete, UpPcs
  <1>2. CASE Chunk(u)
    BY <1>2 DEF Chunk, UploadInv, UploadTakesNothing, Incomplete, UpPcs
  <1>3. CASE StreamEnds(u)
    BY <1>3 DEF StreamEnds, UpGo, UploadInv, UploadTakesNothing, Incomplete, UpPcs
  <1>4. CASE Link(u)
    <2>1. CASE temps[u] = u /\ \E n \in Candidates : names[n] = NoEntry
      <3>1. /\ names' = [names EXCEPT ![FirstFree] = u]
            /\ upName' = [upName EXCEPT ![u] = FirstFree]
            /\ UpGo(u, "verify") /\ UNCHANGED <<temps, written, foreign>>
            /\ upPc[u] = "link"
        BY <1>4, <2>1 DEF Link, FirstFree
      <3>2. FirstFree \in Candidates /\ names[FirstFree] = NoEntry
        BY <2>1, FirstFreeIsFree
      <3> HIDE DEF FirstFree
      <3> QED
        BY <3>1, <3>2 DEF UpGo, UploadInv, UploadTakesNothing, Incomplete, UpPcs
    <2>2. CASE ~(temps[u] = u /\ \E n \in Candidates : names[n] = NoEntry)
      BY <1>4, <2>2 DEF Link, UpGo, UploadInv, UploadTakesNothing, Incomplete, UpPcs
    <2> QED
      BY <2>1, <2>2
  <1>5. CASE Verify(u)
    BY <1>5 DEF Verify, UpGo, UploadInv, UploadTakesNothing, Incomplete, UpPcs
  <1>6. CASE CleanUp(u)
    BY <1>6 DEF CleanUp, UpGo, UploadInv, UploadTakesNothing, Incomplete, UpPcs
  <1> QED
    BY <1>1, <1>2, <1>3, <1>4, <1>5, <1>6 DEF UploadStep

\* Neither does another process, and what it takes is its own business.
LEMMA ForeignKeeps ==
    ASSUME UploadInv, ForeignChange
    PROVE  UploadInv' /\ UploadTakesNothing
  <1>1. foreign' # foreign
    BY DEF ForeignChange
  <1>2. UploadInv'
    BY UploaderAssumption DEF ForeignChange, UploadInv, Incomplete, NoEntry
  <1> QED
    BY <1>1, <1>2 DEF UploadTakesNothing

LEMMA UploadsKeep ==
    ASSUME UploadInv, [UploadNext]_uploadVars
    PROVE  UploadInv' /\ [UploadTakesNothing]_uploadVars
  <1>1. CASE UNCHANGED uploadVars
    BY <1>1 DEF uploadVars, UploadInv, Incomplete
  <1> QED
    BY <1>1, UploadStepKeeps, ForeignKeeps DEF UploadNext

LEMMA UploadInitInv == UploadInit => UploadInv
  BY UploadBounds, UploaderAssumption
     DEF UploadInit, UploadInv, UpPcs, Candidates, NoEntry

------------------------------------------------------------------------------
(* Theorems about all of them. *)

UploadSpec == UploadInit /\ [][UploadNext]_uploadVars

\* Whichever subject moves, a behaviour of Ingest is one of the watcher, one of
\* the recorder with the detector, and one of the uploads.
THEOREM SubjectsAlone == IngestSpec => AdmissionSpec /\ ZoomSpec /\ UploadSpec
  <1>1. IngestInit => AdmissionInit /\ ZoomInit /\ UploadInit
    BY DEF IngestInit
  <1>2. [IngestNext]_ingestVars =>
            [AdmissionNext]_admissionVars /\ [ZoomNext]_recorderVars /\ [UploadNext]_uploadVars
    BY DEF IngestNext, ingestVars
  <1> QED
    BY <1>1, <1>2, PTL DEF IngestSpec, AdmissionSpec, ZoomSpec, UploadSpec

\* The watcher's invariant: what an examination knows of a content stays true,
\* a claim names a finished and unusable one, the quarantine holds only such.
THEOREM AdmissionInvariant == AdmissionSpec => []AdmissionInv
  <1>1. AdmissionInit => AdmissionInv
    BY AdmissionInitInv
  <1>2. AdmissionInv /\ [AdmissionNext]_admissionVars => AdmissionInv'
    BY AdmissionKeeps
  <1> QED
    BY <1>1, <1>2, PTL DEF AdmissionSpec

\* What becomes a meeting, or goes back to the queue, was closed by its writer
\* and is usable, whatever was written to the path during its examination.
THEOREM OnlyFinishedIsAdmitted == IngestSpec => AdmittedIsFinished
  <1>1. AdmissionInv /\ [AdmissionNext]_admissionVars =>
            [(ExamAt("apply") /\ exam' # exam /\ jobs' # jobs) =>
                exam.seen \in finished \ bad]_admissionVars
    BY AdmitsFinished
  <1> QED
    BY <1>1, AdmissionInvariant, SubjectsAlone, PTL DEF AdmissionSpec, AdmittedIsFinished

\* A row leaves only when the very file of its claim, finished and bad, has been
\* moved and there are no results; nothing else reaches the quarantine.
THEOREM OnlyBadIsRejected == IngestSpec => OnlyBadMediaLeaves
  <1>1. AdmissionInv /\ [AdmissionNext]_admissionVars =>
            [/\ jobs[Self] # Gone /\ jobs'[Self] = Gone =>
                   /\ pinned[jobs[Self].action.token] \in quarantine
                   /\ ~artifacts
             /\ quarantine' \subseteq finished \cap bad]_admissionVars
    BY DropsBadOnly, QuarantineIsBad
  <1> QED
    BY <1>1, AdmissionInvariant, SubjectsAlone, PTL DEF AdmissionSpec, OnlyBadMediaLeaves

\* A request adds a whole file under a free name or nothing, removes nothing of
\* others and leaves nothing of its own, for any number of requests.
THEOREM UploadsAddOnly == IngestSpec => UploadsTakeNothing
  <1>1. UploadInit => UploadInv
    BY UploadInitInv
  <1>2. UploadInv /\ [UploadNext]_uploadVars => UploadInv' /\ [UploadTakesNothing]_uploadVars
    BY UploadsKeep
  <1>3. UploadsTakeNothing <=> [][UploadTakesNothing]_uploadVars
    BY DEF UploadsTakeNothing, UploadTakesNothing
  <1> QED
    BY <1>1, <1>2, <1>3, SubjectsAlone, PTL DEF UploadSpec
==============================================================================

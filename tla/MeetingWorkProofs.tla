-------------------------- MODULE MeetingWorkProofs --------------------------
(*****************************************************************************)
(* Proofs about what works on meetings behind the queue, for any number of   *)
(* failing steps, crashes, requests and cancellations: the pipeline, the     *)
(* stages and their cohorts, the A/B tests, the batch requests and the       *)
(* titles. Those with a specification of their own end in theorems; the      *)
(* others end in lemmas about their steps that ServicesProofs uses.          *)
(*****************************************************************************)
EXTENDS PipelineRun, BulkCohort, ABTests, BatchRequests, TitleJobs, JobRowsProofs,
        FiniteSetTheorems, SequenceTheorems, TLAPS

------------------------------------------------------------------------------
(* The pipeline. *)

------------------------------------------------------------------------------
(* The inductive invariant. *)

PipeStates ==
    [status : {"pending", "running", "failed", "paused", "completed"},
     completed : SUBSET StepSet, skipped : SUBSET StepSet]

Parts == {"begin", "minutes", "done"}

Runs ==
    [kind : {"run"}, at : 1..9, end : 1..8, part : Parts, tries : Nat,
     state : PipeStates, text : {"none", "corrected", "merged"}]

LLMRuns ==
    [kind : {"llm"}, at : 5..9, part : Parts, state : PipeStates, text : {"none"},
     correct : BOOLEAN, summarize : BOOLEAN, index : BOOLEAN]

PipeTyped ==
    /\ saved \in PipeStates \cup {NoState}
    /\ made \in [StepSet -> {"none", "source", "corrected"}]
    /\ minutes \in BOOLEAN /\ deferred \in BOOLEAN
    /\ running \in Runs \cup LLMRuns \cup {NotRunning}
    /\ running # NotRunning => saved # NoState

\* What a state file, or a run, believes to be done is there.
TrueState(state) == \A s \in state.completed \ state.skipped : Made(s)

RecordedIsThere == saved # NoState => TrueState(saved)

\* The second conjunct of ArtifactsAreTrue.
FromCorrection ==
    \A s \in Dependents : Made(s) => made[s] = "corrected" /\ Made("correct")

\* The text in memory is the correction's, or that of a skipped correction.
PipeRunInv ==
    running.kind = "run" =>
        /\ running.state = saved
        /\ running.text = "corrected" => Made("correct")
        /\ running.text = "merged" => "correct" \in running.state.skipped
        /\ running.part # "begin" => running.at <= running.end /\ Made(Current)

\* Whether a deferred run makes a step, and has still to do so.
WantedAt(i) ==
    IF i = 5 THEN running.correct ELSE IF i = 6 THEN running.summarize ELSE running.index

StillAhead(i) == running.at < i \/ (running.at = i /\ running.part = "begin")

\* What a deferred run has still to make is not there, what it does not make of
\* correction and summary is, and so is what it has made.
LLMInv ==
    running.kind = "llm" =>
        /\ TrueState(running.state)
        /\ \A i \in 5..8 : WantedAt(i) /\ StillAhead(i) => ~Made(PipelineSteps[i])
        /\ \A i \in 5..6 : ~(WantedAt(i) /\ StillAhead(i)) => Made(PipelineSteps[i])
        /\ running.part # "begin" => running.at <= 8
        /\ running.part # "begin" /\ Wanted => Made(Current)
        /\ running.part = "minutes" => running.at = 6 /\ running.summarize
        /\ running.summarize /\ (StillAhead(6) \/ running.part = "minutes") => ~minutes

PipeInv == PipeTyped /\ RecordedIsThere /\ FromCorrection /\ PipeRunInv /\ LLMInv

------------------------------------------------------------------------------
(* Lemmas about the steps and the records. *)

\* The eight steps, by their numbers.
LEMMA Numbers ==
    /\ Len(PipelineSteps) = 8 /\ DOMAIN PipelineSteps = 1..8
    /\ PipelineSteps[1] = "convert" /\ PipelineSteps[5] = "correct"
    /\ PipelineSteps[6] = "summarize" /\ PipelineSteps[7] = "chunk"
    /\ PipelineSteps[8] = "embed"
    /\ \A i \in 1..8 :
          /\ PipelineSteps[i] \in StepSet
          /\ PipelineSteps[i] \in LLMSteps <=> i \in 5..6
          /\ PipelineSteps[i] \in Dependents <=> i \in 6..8
          /\ PipelineSteps[i] \in Refreshed <=> i \in 5..8
          /\ \A j \in 1..8 : PipelineSteps[i] = PipelineSteps[j] => i = j
    /\ \A s \in StepSet : \E i \in 1..8 : s = PipelineSteps[i]
  <1>1. Len(PipelineSteps) = 8 /\ DOMAIN PipelineSteps = 1..8
    BY DEF PipelineSteps
  <1>2. /\ PipelineSteps[1] = "convert" /\ PipelineSteps[2] = "transcribe"
        /\ PipelineSteps[3] = "diarize" /\ PipelineSteps[4] = "merge"
        /\ PipelineSteps[5] = "correct" /\ PipelineSteps[6] = "summarize"
        /\ PipelineSteps[7] = "chunk" /\ PipelineSteps[8] = "embed"
    BY DEF PipelineSteps
  <1>3. \A i \in 1..8 : i \in {1, 2, 3, 4, 5, 6, 7, 8}
    OBVIOUS
  <1>4. \A i \in 1..8 :
           /\ PipelineSteps[i] \in LLMSteps <=> i \in 5..6
           /\ PipelineSteps[i] \in Dependents <=> i \in 6..8
           /\ PipelineSteps[i] \in Refreshed <=> i \in 5..8
    BY <1>2, <1>3 DEF LLMSteps, Dependents, Refreshed
  <1>5. \A i, j \in 1..8 : PipelineSteps[i] = PipelineSteps[j] => i = j
    BY <1>2, <1>3
  <1>6. /\ \A i \in 1..8 : PipelineSteps[i] \in StepSet
        /\ \A s \in StepSet : \E i \in 1..8 : s = PipelineSteps[i]
    BY <1>1 DEF StepSet
  <1> QED
    BY <1>1, <1>2, <1>4, <1>5, <1>6

\* A step has one number.
LEMMA StepNoOf ==
    ASSUME NEW i \in 1..8
    PROVE  StepNo(PipelineSteps[i]) = i
  <1>1. \A j \in DOMAIN PipelineSteps : PipelineSteps[j] = PipelineSteps[i] <=> j = i
    BY Numbers
  <1> QED
    BY <1>1, Numbers DEF StepNo

\* A run resumes within the pipeline or behind it.
LEMMA ResumesWithin ==
    ASSUME NEW state \in PipeStates
    PROVE  ResumeAt(state) \in 1..9
  <1>1. CASE state.completed = {}
    BY <1>1 DEF ResumeAt
  <1>2. CASE state.completed # {}
    <2> DEFINE Last(i) == /\ PipelineSteps[i] \in state.completed
                          /\ \A s \in state.completed : StepNo(s) <= i
    <2> DEFINE Here(i) == PipelineSteps[i] \in state.completed
    <2>1. state.completed \subseteq StepSet
      BY DEF PipeStates
    <2>2. \A s \in state.completed : \E j \in 1..8 : s = PipelineSteps[j] /\ StepNo(s) = j
      BY <2>1, Numbers, StepNoOf
    <2>3. \E j \in 1..8 : Here(j)
      BY <1>2, <2>2
    <2>4. \E i \in 1..8 : Here(i) /\ \A j \in 1..8 : Here(j) => j <= i
      <3> HIDE DEF Here
      <3>1. \A i \in 1..8 : i \in {1, 2, 3, 4, 5, 6, 7, 8}
        OBVIOUS
      <3> QED
        BY <2>3, <3>1
    <2>5. \E i \in DOMAIN PipelineSteps : Last(i)
      BY <2>2, <2>4, Numbers
    <2>6. (CHOOSE i \in DOMAIN PipelineSteps : Last(i)) \in DOMAIN PipelineSteps
      BY <2>5
    <2>7. ResumeAt(state) = 1 + CHOOSE i \in DOMAIN PipelineSteps : Last(i)
      BY <1>2 DEF ResumeAt
    <2>8. ASSUME NEW i \in DOMAIN PipelineSteps
          PROVE  1 + i \in 1..9
      BY Numbers
    <2> QED
      BY <2>6, <2>7, <2>8
  <1> QED
    BY <1>1, <1>2

\* What is under way, by its kind.
LEMMA KindOfRun ==
    ASSUME PipeTyped
    PROVE  /\ running.kind = "run" => running \in Runs
           /\ running.kind = "llm" => running \in LLMRuns
           /\ running # NotRunning => /\ running.kind \in {"run", "llm"}
                                      /\ running.state \in PipeStates
                                      /\ saved \in PipeStates
           /\ running = NotRunning => running.kind = "none"
  BY DEF PipeTyped, Runs, LLMRuns, NotRunning

\* The end of a run: nothing is under way, and the state is its last.
LEMMA NothingRuns ==
    ASSUME PipeTyped, FromCorrection, UNCHANGED <<made, minutes, deferred>>,
           running' = NotRunning, saved' \in PipeStates \cup {NoState},
           saved' # NoState => \A s \in saved'.completed \ saved'.skipped : Made(s)
    PROVE  PipeInv'
  <1>1. PipeTyped'
    BY DEF PipeTyped
  <1>2. RecordedIsThere' /\ FromCorrection'
    BY DEF RecordedIsThere, TrueState, FromCorrection, Made
  <1>3. PipeRunInv' /\ LLMInv'
    BY DEF PipeRunInv, LLMInv, NotRunning
  <1> QED
    BY <1>1, <1>2, <1>3 DEF PipeInv

\* A state whose status changes says the same of the steps.
LEMMA StatusOnly ==
    ASSUME NEW state \in PipeStates,
           NEW status \in {"pending", "running", "failed", "paused", "completed"}
    PROVE  /\ [state EXCEPT !.status = status] \in PipeStates
           /\ [state EXCEPT !.status = status].completed = state.completed
           /\ [state EXCEPT !.status = status].skipped = state.skipped
  BY DEF PipeStates

\* A step that writes a checkpoint leaves the others alone.
LEMMA Writes ==
    ASSUME PipeTyped, NEW s \in StepSet, NEW text \in {"source", "corrected"},
           made' = [made EXCEPT ![s] = text]
    PROVE  /\ made' \in [StepSet -> {"none", "source", "corrected"}]
           /\ made'[s] = text /\ Made(s)'
           /\ \A t \in StepSet : Made(t) => Made(t)'
           /\ \A t \in StepSet \ {s} : made'[t] = made[t]
  BY DEF PipeTyped, Made

\* A run goes on: what the next state of a run has to show.
LEMMA RunGoesOn ==
    ASSUME PipeTyped', FromCorrection', running'.kind = "run",
           running'.state = saved', saved' # NoState,
           \A s \in saved'.completed \ saved'.skipped : Made(s)',
           running'.text = "corrected" => Made("correct")',
           running'.text = "merged" => "correct" \in saved'.skipped,
           running'.part # "begin" =>
               running'.at <= running'.end /\ Made(Current)'
    PROVE  PipeInv'
  <1>1. RecordedIsThere' /\ PipeRunInv'
    BY DEF RecordedIsThere, TrueState, PipeRunInv, Current, Made
  <1>2. LLMInv'
    BY DEF LLMInv
  <1> QED
    BY <1>1, <1>2 DEF PipeInv

------------------------------------------------------------------------------
(* run(). *)

\* A run begins with what the state file says, or with nothing.
LEMMA StartRunKeeps ==
    ASSUME PipeInv, NEW end \in 1..8, StartRun(end)
    PROVE  PipeInv'
  <1> DEFINE state == IF saved = NoState THEN FreshState ELSE saved
  <1>1. state \in PipeStates
    BY DEF PipeInv, PipeTyped, FreshState, PipeStates
  <1>2. \A s \in state.completed \ state.skipped : Made(s)
    BY DEF PipeInv, RecordedIsThere, TrueState, FreshState
  <1>3. UNCHANGED <<made, minutes, deferred>> /\ running = NotRunning
    BY DEF StartRun
  <1>4. PICK status \in {"pending", "running", "failed", "paused", "completed"} :
           /\ saved' = [state EXCEPT !.status = status]
           /\ \/ running' = running
              \/ running' = [kind |-> "run", at |-> ResumeAt(state), end |-> end,
                             part |-> "begin", tries |-> RetryMax, state |-> saved',
                             text |-> TextRestored(state)]
    BY DEF StartRun, Save
  <1> HIDE DEF state
  <1>5. /\ saved' \in PipeStates
        /\ saved'.completed = state.completed /\ saved'.skipped = state.skipped
    BY <1>1, <1>4, StatusOnly
  <1>6. CASE running' = running
    BY <1>2, <1>3, <1>5, <1>6, NothingRuns DEF PipeInv
  <1>7. CASE running' = [kind |-> "run", at |-> ResumeAt(state), end |-> end,
                         part |-> "begin", tries |-> RetryMax, state |-> saved',
                         text |-> TextRestored(state)]
    <2>1. ResumeAt(state) \in 1..9
      BY <1>1, ResumesWithin
    <2>2. TextRestored(state) \in {"none", "corrected", "merged"}
          /\ (TextRestored(state) = "corrected" => Made("correct"))
          /\ (TextRestored(state) = "merged" => "correct" \in state.skipped)
      BY DEF TextRestored
    <2>3. running' \in Runs
      BY <1>5, <1>7, <2>1, <2>2, PipelineAssumption DEF Runs, Parts
    <2>4. saved' # NoState
      BY <1>5 DEF PipeStates, NoState
    <2>5. PipeTyped' /\ FromCorrection'
      BY <1>3, <1>5, <2>3, <2>4 DEF PipeInv, PipeTyped, FromCorrection, Made
    <2>6. /\ running'.kind = "run" /\ running'.state = saved'
          /\ running'.text = TextRestored(state) /\ running'.part = "begin"
      BY <1>7
    <2> QED
      BY <1>2, <1>3, <1>5, <2>2, <2>4, <2>5, <2>6, RunGoesOn DEF Made
  <1> QED
    BY <1>4, <1>6, <1>7

\* The step a run is at, within its end.
LEMMA CurrentOf ==
    ASSUME PipeTyped, running.kind = "run", running.at <= running.end
    PROVE  /\ running \in Runs /\ running.at \in 1..8 /\ Current \in StepSet
           /\ running.at + 1 \in 1..9
  <1>1. running \in Runs
    BY KindOfRun
  <1>2. running.at \in 1..8
    BY <1>1 DEF Runs
  <1> QED
    BY <1>1, <1>2, Numbers DEF Current

\* What a run believes to be done is there.
LEMMA RunBelieves ==
    ASSUME PipeInv, running.kind = "run"
    PROVE  /\ running.state = saved /\ saved # NoState
           /\ \A s \in running.state.completed \ running.state.skipped : Made(s)
  <1>1. running # NotRunning
    BY DEF NotRunning
  <1> QED
    BY <1>1 DEF PipeInv, PipeTyped, PipeRunInv, RecordedIsThere, TrueState

\* A step is skipped: it needs no checkpoint.
LEMMA SkippedOf ==
    ASSUME PipeTyped, running.kind = "run", running.at <= running.end
    PROVE  /\ SkippedBy(running.state) \in PipeStates
           /\ SkippedBy(running.state).completed = running.state.completed \cup {Current}
           /\ SkippedBy(running.state).skipped = running.state.skipped \cup {Current}
  BY CurrentOf DEF SkippedBy, PipeStates, Runs

\* A step that needs what is not there is skipped: it leaves no artifact.
LEMMA SkipDependentKeeps ==
    ASSUME PipeInv, SkipDependent
    PROVE  PipeInv'
  <1>1. /\ PipeTyped /\ running.kind = "run" /\ running.at <= running.end
        /\ running.part = "begin"
    BY DEF PipeInv, SkipDependent, Running
  <1>2. /\ saved' = SkippedBy(running.state)
        /\ running' = [running EXCEPT !.at = @ + 1, !.part = "begin", !.tries = RetryMax,
                                      !.state = SkippedBy(running.state)]
        /\ UNCHANGED <<made, minutes, deferred>>
    BY DEF SkipDependent, Save, NextStep
  <1>3. /\ running' \in Runs /\ running'.kind = "run" /\ running'.state = saved'
        /\ running'.part = "begin" /\ running'.text = running.text
    BY <1>1, <1>2, CurrentOf, SkippedOf, PipelineAssumption DEF Runs, Parts
  <1>4. saved' \in PipeStates /\ saved' # NoState
    BY <1>1, <1>2, SkippedOf DEF PipeStates, NoState
  <1>5. PipeTyped' /\ FromCorrection'
    BY <1>2, <1>3, <1>4 DEF PipeInv, PipeTyped, FromCorrection, Made
  <1>6. \A s \in saved'.completed \ saved'.skipped : Made(s)'
    BY <1>1, <1>2, SkippedOf, RunBelieves DEF Made
  <1>7. /\ running'.text = "corrected" => Made("correct")'
        /\ running'.text = "merged" => "correct" \in saved'.skipped
    BY <1>1, <1>2, <1>3, SkippedOf DEF PipeInv, PipeRunInv, Made
  <1> QED
    BY <1>3, <1>4, <1>5, <1>6, <1>7, RunGoesOn

\* A skipped correction is recorded with the text that stands in for it.
LEMMA SkipLLMStepKeeps ==
    ASSUME PipeInv, SkipLLMStep
    PROVE  PipeInv'
  <1>1. /\ PipeTyped /\ running.kind = "run" /\ running.at <= running.end
        /\ running.part = "begin" /\ UNCHANGED <<made, minutes>>
    BY DEF PipeInv, SkipLLMStep, Running
  <1>2. CASE UNCHANGED <<saved, running>> /\ deferred' = TRUE
    <2>1. PipeTyped'
      BY <1>1, <1>2 DEF PipeInv, PipeTyped
    <2> QED
      BY <1>1, <1>2, <2>1
         DEF PipeInv, RecordedIsThere, TrueState, FromCorrection, PipeRunInv, LLMInv, Made, Current
  <1>3. CASE /\ saved' = SkippedBy(running.state) /\ UNCHANGED deferred
             /\ running' = [running EXCEPT !.at = @ + 1, !.state = saved',
                                !.text = IF Current = "correct" THEN "merged" ELSE @]
    <2>1. /\ running' \in Runs /\ running'.kind = "run" /\ running'.state = saved'
          /\ running'.part = "begin"
          /\ running'.text = IF Current = "correct" THEN "merged" ELSE running.text
      <3>1. saved' \in PipeStates
        BY <1>1, <1>3, SkippedOf
      <3> QED
        BY <1>1, <1>3, <3>1, CurrentOf DEF Runs
    <2>2. saved' \in PipeStates /\ saved' # NoState
      BY <1>1, <1>3, SkippedOf DEF PipeStates, NoState
    <2>3. PipeTyped' /\ FromCorrection'
      BY <1>1, <1>3, <2>1, <2>2 DEF PipeInv, PipeTyped, FromCorrection, Made
    <2>4. \A s \in saved'.completed \ saved'.skipped : Made(s)'
      BY <1>1, <1>3, SkippedOf, RunBelieves DEF Made
    <2>5. /\ running'.text = "corrected" => Made("correct")'
          /\ running'.text = "merged" => "correct" \in saved'.skipped
      BY <1>1, <1>3, <2>1, SkippedOf DEF PipeInv, PipeRunInv, Made
    <2> QED
      BY <2>1, <2>2, <2>3, <2>4, <2>5, RunGoesOn
  <1> QED
    BY <1>2, <1>3 DEF SkipLLMStep, Save

\* A step restores its checkpoint or writes it, from the text it may work on.
LEMMA RunStepKeeps ==
    ASSUME PipeInv, RunStep
    PROVE  PipeInv'
  <1>1. /\ PipeTyped /\ running.kind = "run" /\ running.at <= running.end
        /\ UNCHANGED <<saved, minutes, deferred>>
    BY DEF PipeInv, RunStep, Running
  <1>2. running \in Runs /\ running.at \in 1..8 /\ Current \in StepSet
    BY <1>1, CurrentOf
  <1>3. Current \in Dependents => running.text = "corrected" /\ Made("correct")
    BY <1>1, <1>2 DEF RunStep, DependsOnSkipped, Input, PipeInv, PipeRunInv, Runs
  <1>4. /\ made'[Current] # "none"
        /\ \A s \in StepSet : Made(s) => Made(s)'
        /\ made' \in [StepSet -> {"none", "source", "corrected"}]
        /\ \A s \in StepSet :
              \/ made'[s] = made[s]
              \/ s = Current /\ (s \in Dependents => made'[s] = "corrected")
    <2>1. CASE UNCHANGED made /\ Made(Current)
      BY <1>1, <2>1 DEF Made, PipeTyped
    <2>2. CASE made' = [made EXCEPT ![Current] =
                           IF Current \in Dependents THEN running.text ELSE "source"]
      <3> DEFINE text == IF Current \in Dependents THEN running.text ELSE "source"
      <3>1. text \in {"source", "corrected"} /\ (Current \in Dependents => text = "corrected")
        BY <1>3
      <3>2. PICK step \in StepSet, written \in {"source", "corrected"} :
               step = Current /\ written = text
        BY <1>2, <3>1
      <3>3. made' = [made EXCEPT ![step] = written]
        BY <2>2, <3>2
      <3>4. /\ made' \in [StepSet -> {"none", "source", "corrected"}]
            /\ made'[step] = written
            /\ \A t \in StepSet : Made(t) => Made(t)'
            /\ \A t \in StepSet \ {step} : made'[t] = made[t]
        BY <1>1, <3>3, Writes
      <3> QED
        BY <3>1, <3>2, <3>4
    <2> QED
      BY <2>1, <2>2 DEF RunStep
  <1>5. PICK part \in {"done", "minutes"} :
           running' = [running EXCEPT !.part = part, !.text = Output]
    BY DEF RunStep
  <1>6. Output \in {"none", "corrected", "merged"}
        /\ (Output = "corrected" => Made("correct")')
        /\ (Output = "merged" => "correct" \in saved.skipped)
    <2>1. CASE Current = "correct"
      BY <1>4, <2>1 DEF Output, Made
    <2>2. CASE Current # "correct"
      <3>1. "correct" \in StepSet
        BY Numbers
      <3> QED
        BY <1>1, <1>2, <1>4, <2>2, <3>1 DEF Output, PipeInv, PipeRunInv, Runs
    <2> QED
      BY <2>1, <2>2
  <1>7. /\ running' \in Runs /\ running'.kind = "run" /\ running'.state = running.state
        /\ running'.text = Output /\ running'.at = running.at /\ running'.end = running.end
    BY <1>2, <1>5, <1>6 DEF Runs, Parts
  <1>8. /\ running.state = saved /\ saved # NoState /\ saved \in PipeStates
        /\ \A s \in saved.completed \ saved.skipped : Made(s)
    BY <1>1, <1>2, RunBelieves DEF Runs
  <1>9. PipeTyped'
    BY <1>1, <1>4, <1>7, <1>8 DEF PipeTyped
  <1>10. FromCorrection'
    <2> SUFFICES ASSUME NEW s \in Dependents, Made(s)'
                 PROVE  made'[s] = "corrected" /\ Made("correct")'
      BY DEF FromCorrection
    <2>1. s \in StepSet /\ "correct" \in StepSet
      BY Numbers DEF Dependents, StepSet
    <2>2. CASE made'[s] = made[s]
      BY <1>4, <2>1, <2>2 DEF PipeInv, FromCorrection, Made
    <2>3. CASE s = Current /\ made'[s] = "corrected"
      BY <1>3, <1>4, <2>1, <2>3
    <2> QED
      BY <1>4, <2>1, <2>2, <2>3
  <1>11. \A s \in saved'.completed \ saved'.skipped : Made(s)'
    BY <1>1, <1>4, <1>8 DEF PipeStates
  <1>12. Made(Current)' /\ running'.at <= running'.end
    BY <1>1, <1>4, <1>7 DEF Current, Made
  <1> QED
    BY <1>1, <1>6, <1>7, <1>8, <1>9, <1>10, <1>11, <1>12, RunGoesOn

\* A step that is done is recorded.
LEMMA FinishStepKeeps ==
    ASSUME PipeInv, FinishStep
    PROVE  PipeInv'
  <1>1. /\ PipeTyped /\ running.kind = "run" /\ running.at <= running.end /\ Made(Current)
        /\ UNCHANGED <<made, minutes, deferred>>
    BY DEF PipeInv, FinishStep, Running, PipeRunInv
  <1>2. /\ saved' = [running.state EXCEPT !.completed = @ \cup {Current}]
        /\ running' = [running EXCEPT !.at = @ + 1, !.part = "begin", !.tries = RetryMax,
                                      !.state = saved']
    BY DEF FinishStep, Save, NextStep
  <1>3. running \in Runs /\ Current \in StepSet /\ running.at + 1 \in 1..9
    BY <1>1, CurrentOf
  <1>4. /\ saved' \in PipeStates /\ saved' # NoState
        /\ saved'.completed = running.state.completed \cup {Current}
        /\ saved'.skipped = running.state.skipped
    BY <1>2, <1>3 DEF Runs, PipeStates, NoState
  <1>5. /\ running' \in Runs /\ running'.kind = "run" /\ running'.state = saved'
        /\ running'.part = "begin" /\ running'.text = running.text
    BY <1>2, <1>3, <1>4, PipelineAssumption DEF Runs, Parts
  <1>6. PipeTyped' /\ FromCorrection'
    BY <1>1, <1>4, <1>5 DEF PipeInv, PipeTyped, FromCorrection, Made
  <1>7. \A s \in saved'.completed \ saved'.skipped : Made(s)'
    BY <1>1, <1>4, RunBelieves DEF Made
  <1>8. /\ running'.text = "corrected" => Made("correct")'
        /\ running'.text = "merged" => "correct" \in saved'.skipped
    BY <1>1, <1>4, <1>5 DEF PipeInv, PipeRunInv, Made
  <1> QED
    BY <1>4, <1>5, <1>6, <1>7, <1>8, RunGoesOn

\* A run ends, well or not, with the state it had.
LEMMA EndKeeps ==
    ASSUME PipeInv, running # NotRunning,
           \A s \in running.state.completed \ running.state.skipped : Made(s),
           NEW status \in {"pending", "running", "failed", "paused", "completed"},
           End(status), UNCHANGED <<made, minutes, deferred>>
    PROVE  PipeInv'
  <1>1. running.state \in PipeStates
    BY KindOfRun DEF PipeInv
  <1>2. saved' = [running.state EXCEPT !.status = status] /\ running' = NotRunning
    BY DEF End, Save
  <1>3. /\ saved' \in PipeStates
        /\ saved'.completed = running.state.completed
        /\ saved'.skipped = running.state.skipped
    BY <1>1, <1>2, StatusOnly
  <1> QED
    BY <1>2, <1>3, NothingRuns DEF PipeInv

\* A failing attempt begins the step again or ends the run.
LEMMA AttemptFailsKeeps ==
    ASSUME PipeInv, AttemptFails
    PROVE  PipeInv'
  <1>1. /\ PipeTyped /\ running.kind = "run" /\ running.at <= running.end
        /\ UNCHANGED <<made, minutes, deferred>>
    BY DEF PipeInv, AttemptFails
  <1>2. running \in Runs /\ running # NotRunning
    BY <1>1, CurrentOf DEF NotRunning
  <1>3. CASE End("failed")
    BY <1>1, <1>2, <1>3, RunBelieves, EndKeeps
  <1>4. CASE /\ running.tries > 1 /\ UNCHANGED saved
             /\ running' = [running EXCEPT !.tries = @ - 1, !.part = "begin"]
    <2>1. /\ running' \in Runs /\ running'.kind = "run" /\ running'.state = running.state
          /\ running'.part = "begin" /\ running'.text = running.text
      <3>1. running.tries \in Nat /\ running.tries - 1 \in Nat
        BY <1>2, <1>4 DEF Runs
      <3> QED
        BY <1>2, <1>4, <3>1 DEF Runs, Parts
    <2>2. /\ running.state = saved /\ saved # NoState /\ saved \in PipeStates
          /\ \A s \in saved.completed \ saved.skipped : Made(s)
      BY <1>1, <1>2, RunBelieves DEF Runs
    <2>3. PipeTyped' /\ FromCorrection'
      BY <1>1, <1>4, <2>1, <2>2 DEF PipeInv, PipeTyped, FromCorrection, Made
    <2>4. /\ running'.text = "corrected" => Made("correct")'
          /\ running'.text = "merged" => "correct" \in saved'.skipped
          /\ \A s \in saved'.completed \ saved'.skipped : Made(s)'
      BY <1>1, <1>4, <2>1, <2>2 DEF PipeInv, PipeRunInv, Made
    <2> QED
      BY <1>4, <2>1, <2>2, <2>3, <2>4, RunGoesOn
  <1> QED
    BY <1>3, <1>4 DEF AttemptFails

\* A run that is through leaves its last state.
LEMMA FinishRunKeeps ==
    ASSUME PipeInv, FinishRun
    PROVE  PipeInv'
  <1>1. running.kind = "run" /\ running # NotRunning /\ UNCHANGED <<made, minutes, deferred>>
    BY DEF FinishRun, Running, NotRunning
  <1>2. End("paused") \/ End("completed")
    BY DEF FinishRun
  <1> QED
    BY <1>1, <1>2, RunBelieves, EndKeeps

------------------------------------------------------------------------------
(* run_llm_steps(). *)

\* What a deferred run begins with: a state that is true, none of what it is to
\* make, and what it is not to make.
LEMMA LLMBegins ==
    ASSUME PipeInv, NEW state \in PipeStates, TrueState(state), NonDestructive(state)
    PROVE  /\ CorrectNeeded(state) \in BOOLEAN /\ SummaryNeeded(state) \in BOOLEAN
           /\ CorrectNeeded(state) => \A t \in Refreshed : ~Made(t)
           /\ SummaryNeeded(state) => ~Made("summarize") /\ ~minutes
           /\ ~CorrectNeeded(state) => Made("correct")
           /\ ~SummaryNeeded(state) => Made("summarize")
  <1>1. CorrectNeeded(state) \in BOOLEAN /\ SummaryNeeded(state) \in BOOLEAN
    BY DEF CorrectNeeded, SummaryNeeded, PipeInv, PipeTyped
  <1>2. /\ CorrectNeeded(state) => \A t \in Refreshed : ~Made(t)
        /\ SummaryNeeded(state) => ~Made("summarize") /\ ~minutes
    BY DEF NonDestructive, Conflicts
  <1>3. /\ ~CorrectNeeded(state) => Made("correct")
        /\ ~SummaryNeeded(state) => Made("summarize")
    BY DEF CorrectNeeded, SummaryNeeded, TrueState
  <1> QED
    BY <1>1, <1>2, <1>3

\* A deferred run begins as LLMBegins says, or not at all.
LEMMA StartLLMKeeps ==
    ASSUME PipeInv, StartLLM
    PROVE  PipeInv'
  <1> DEFINE state == IF saved = NoState THEN Rebuilt ELSE saved
  <1> DEFINE again == deferred \/ "correct" \in state.skipped
  <1> DEFINE index == again /\ (deferred \/ {"chunk", "embed"} \cap state.completed # {}
                                     \/ Made("chunk") \/ Made("embed"))
  <1>1. state \in PipeStates /\ TrueState(state)
    <2>1. CASE saved # NoState
      BY <2>1 DEF PipeInv, PipeTyped, RecordedIsThere
    <2>2. CASE saved = NoState
      <3> DEFINE audio == {t \in StepSet \ (Refreshed \cup {"convert"}) : Made(t)}
      <3>1. /\ FreshState \in PipeStates
            /\ FreshState.completed = {} /\ FreshState.skipped = {}
        BY DEF FreshState, PipeStates
      <3>2. Refreshed \subseteq StepSet /\ audio \subseteq StepSet
        BY Numbers DEF Refreshed, Dependents
      <3>3. Rebuilt = IF deferred
                      THEN [FreshState EXCEPT !.completed = audio \cup Refreshed,
                                              !.skipped = Refreshed]
                      ELSE [FreshState EXCEPT !.completed = audio]
        BY DEF Rebuilt
      <3>4. \A t \in audio : Made(t)
        OBVIOUS
      <3> HIDE DEF audio
      <3>5. Rebuilt \in PipeStates /\ Rebuilt.completed \ Rebuilt.skipped \subseteq audio
        BY <3>1, <3>2, <3>3 DEF PipeStates
      <3> QED
        BY <2>2, <3>4, <3>5 DEF TrueState
    <2> QED
      BY <2>1, <2>2
  <1>2. /\ UNCHANGED <<made, minutes, deferred>> /\ NonDestructive(state)
        /\ saved' = [state EXCEPT !.status = "running"]
        /\ running' = [kind |-> "llm", at |-> StepNo("correct"), part |-> "begin",
                       state |-> saved', text |-> "none",
                       correct |-> CorrectNeeded(state), summarize |-> SummaryNeeded(state),
                       index |-> index]
    BY DEF StartLLM, Save
  <1>3. index \in BOOLEAN /\ (index => CorrectNeeded(state))
    BY DEF CorrectNeeded, PipeInv, PipeTyped
  <1> HIDE DEF state, index
  <1>4. /\ saved' \in PipeStates /\ saved' # NoState
        /\ saved'.completed = state.completed /\ saved'.skipped = state.skipped
    <2>1. saved' \in PipeStates
      BY <1>1, <1>2, StatusOnly
    <2> QED
      BY <1>1, <1>2, <2>1, StatusOnly DEF PipeStates, NoState
  <1>5. StepNo("correct") = 5
    BY Numbers, StepNoOf
  <1>6. /\ CorrectNeeded(state) \in BOOLEAN /\ SummaryNeeded(state) \in BOOLEAN
        /\ CorrectNeeded(state) => \A t \in Refreshed : ~Made(t)
        /\ SummaryNeeded(state) => ~Made("summarize") /\ ~minutes
        /\ ~CorrectNeeded(state) => Made("correct")
        /\ ~SummaryNeeded(state) => Made("summarize")
    BY <1>1, <1>2, LLMBegins
  <1>7. /\ running' \in LLMRuns /\ running'.kind = "llm" /\ running' # NotRunning
        /\ running'.at = 5 /\ running'.part = "begin" /\ running'.state = saved'
        /\ running'.correct = CorrectNeeded(state)
        /\ running'.summarize = SummaryNeeded(state) /\ running'.index = index
    BY <1>2, <1>3, <1>4, <1>5, <1>6 DEF LLMRuns, Parts, NotRunning
  <1>8. PipeTyped' /\ FromCorrection'
    BY <1>2, <1>4, <1>7 DEF PipeInv, PipeTyped, FromCorrection, Made
  <1>9. TrueState(saved)' /\ RecordedIsThere'
    BY <1>1, <1>2, <1>4 DEF RecordedIsThere, TrueState, Made
  <1>10. PipeRunInv'
    BY <1>7 DEF PipeRunInv
  <1>11. \A i \in 5..8 : WantedAt(i)' => ~Made(PipelineSteps[i])'
    <2>1. ASSUME NEW i \in 5..8, WantedAt(i)'
          PROVE  ~Made(PipelineSteps[i])
      <3>1. PipelineSteps[i] \in Refreshed /\ PipelineSteps[6] = "summarize"
        BY Numbers
      <3>2. CASE i = 6
        BY <1>6, <1>7, <2>1, <3>1, <3>2 DEF WantedAt
      <3>3. CASE i # 6
        BY <1>3, <1>6, <1>7, <2>1, <3>1, <3>3 DEF WantedAt
      <3> QED
        BY <3>2, <3>3
    <2> QED
      BY <1>2, <2>1 DEF Made
  <1>12. \A i \in 5..6 : ~(WantedAt(i) /\ StillAhead(i))' => Made(PipelineSteps[i])'
    <2>1. ASSUME NEW i \in 5..6, ~(WantedAt(i) /\ StillAhead(i))'
          PROVE  Made(PipelineSteps[i])
      BY <1>6, <1>7, <2>1, Numbers DEF WantedAt, StillAhead
    <2> QED
      BY <1>2, <2>1 DEF Made
  <1>13. LLMInv'
    BY <1>2, <1>6, <1>7, <1>9, <1>11, <1>12 DEF LLMInv, TrueState, Made
  <1> QED
    BY <1>8, <1>9, <1>10, <1>13 DEF PipeInv

\* Where a deferred run is, and whether it makes that step.
LEMMA LLMAt ==
    ASSUME PipeTyped, running.kind = "llm", running.at <= 8
    PROVE  /\ running \in LLMRuns /\ running.at \in 5..8 /\ running.at + 1 \in 5..9
           /\ Current = PipelineSteps[running.at] /\ Current \in StepSet
           /\ Wanted <=> WantedAt(running.at)
           /\ Current = "correct" <=> running.at = 5
           /\ Current = "summarize" <=> running.at = 6
           /\ Current \in LLMSteps <=> running.at \in 5..6
           /\ Current \in Dependents <=> running.at \in 6..8
  <1>1. running \in LLMRuns
    BY KindOfRun
  <1>2. running.at \in 5..8 /\ running.at + 1 \in 5..9
    BY <1>1 DEF LLMRuns
  <1>3. /\ Current = PipelineSteps[running.at] /\ Current \in StepSet
        /\ Current = "correct" <=> running.at = 5
        /\ Current = "summarize" <=> running.at = 6
        /\ Current \in LLMSteps <=> running.at \in 5..6
        /\ Current \in Dependents <=> running.at \in 6..8
    BY <1>2, Numbers DEF Current
  <1>4. Wanted <=> WantedAt(running.at)
    BY <1>3 DEF Wanted, WantedAt
  <1> QED
    BY <1>1, <1>2, <1>3, <1>4

\* A deferred run makes its step from the correction, or passes over it.
LEMMA LLMStepKeeps ==
    ASSUME PipeInv, LLMStep
    PROVE  PipeInv'
  <1>1. /\ PipeTyped /\ running.kind = "llm" /\ running.part = "begin" /\ running.at <= 8
        /\ UNCHANGED <<saved, minutes, deferred>>
    BY Numbers DEF PipeInv, LLMStep, Running
  <1>2. PICK n \in 5..8, step \in StepSet : n = running.at /\ step = PipelineSteps[n]
    BY <1>1, LLMAt
  <1>3. /\ running \in LLMRuns /\ running # NotRunning /\ step = Current
        /\ Wanted <=> WantedAt(n)
        /\ Current = "summarize" <=> n = 6
        /\ step \in Dependents <=> n \in 6..8
    BY <1>1, <1>2, LLMAt DEF NotRunning
  <1>4. PICK part \in {"done", "minutes"} :
           /\ running' = [running EXCEPT !.part = part]
           /\ part = "minutes" => n = 6 /\ Wanted
    BY <1>3 DEF LLMStep
  <1>5. /\ running' \in LLMRuns /\ running'.kind = "llm" /\ running'.at = n
        /\ running'.part = part /\ running'.state = running.state
        /\ running'.correct = running.correct /\ running'.summarize = running.summarize
        /\ running'.index = running.index
    BY <1>2, <1>3, <1>4 DEF LLMRuns, Parts
  <1>6. /\ made' \in [StepSet -> {"none", "source", "corrected"}]
        /\ \A t \in StepSet : Made(t) => Made(t)'
        /\ \A t \in StepSet \ {step} : made'[t] = made[t]
        /\ Wanted => Made(step)' /\ (n # 5 => made'[step] = "corrected")
        /\ ~Wanted => made' = made
    <2>1. CASE ~Wanted
      BY <1>1, <2>1 DEF LLMStep, PipeTyped, Made
    <2>2. CASE Wanted
      <3>1. PICK text \in {"source", "corrected"} :
               made' = [made EXCEPT ![step] = text] /\ (n # 5 => text = "corrected")
        BY <1>3, <2>2 DEF LLMStep
      <3> QED
        BY <1>1, <2>2, <3>1, Writes
    <2> QED
      BY <2>1, <2>2
  <1>7. n # 5 => Made("correct")
    <2>1. n # 5 => ~StillAhead(5)
      BY <1>1, <1>2 DEF StillAhead
    <2> QED
      BY <1>1, <2>1, Numbers DEF PipeInv, LLMInv
  <1>8. saved # NoState /\ saved \in PipeStates /\ running.state \in PipeStates
    BY <1>1, <1>3, KindOfRun DEF PipeTyped
  <1>9. PipeTyped'
    BY <1>1, <1>5, <1>6, <1>8 DEF PipeTyped
  <1>10. RecordedIsThere'
    BY <1>1, <1>6, <1>8 DEF PipeInv, RecordedIsThere, TrueState, PipeStates
  <1>11. FromCorrection'
    <2> SUFFICES ASSUME NEW t \in Dependents, Made(t)'
                 PROVE  made'[t] = "corrected" /\ Made("correct")'
      BY DEF FromCorrection
    <2>1. t \in StepSet /\ "correct" \in StepSet
      BY Numbers DEF Dependents, StepSet
    <2>2. CASE made'[t] = made[t]
      BY <1>6, <2>1, <2>2 DEF PipeInv, FromCorrection, Made
    <2>3. CASE made'[t] # made[t]
      BY <1>3, <1>6, <1>7, <2>1, <2>3
    <2> QED
      BY <2>2, <2>3
  <1>12. PipeRunInv'
    BY <1>5 DEF PipeRunInv
  <1>13. TrueState(running.state)'
    <2>1. \A t \in running.state.completed \ running.state.skipped : Made(t)'
      BY <1>1, <1>6, <1>8 DEF PipeInv, LLMInv, TrueState, PipeStates
    <2> QED
      BY <1>5, <2>1 DEF TrueState
  <1>14. \A i \in 5..8 : (WantedAt(i)' <=> WantedAt(i)) /\ (StillAhead(i)' <=> n < i)
    BY <1>4, <1>5 DEF WantedAt, StillAhead
  <1>15. \A i \in 5..8 : n < i => StillAhead(i) /\ PipelineSteps[i] \in StepSet \ {step}
    BY <1>2, Numbers DEF StillAhead
  <1>16. \A i \in 5..8 : (WantedAt(i) /\ StillAhead(i))' => ~Made(PipelineSteps[i])'
    <2>1. ASSUME NEW i \in 5..8, WantedAt(i), n < i
          PROVE  made'[PipelineSteps[i]] = "none"
      BY <1>1, <1>6, <1>15, <2>1 DEF PipeInv, LLMInv, Made
    <2> QED
      BY <1>14, <2>1 DEF Made
  <1>17. \A i \in 5..6 : ~(WantedAt(i) /\ StillAhead(i))' => Made(PipelineSteps[i])'
    <2>1. ASSUME NEW i \in 5..6, ~(WantedAt(i) /\ n < i)
          PROVE  Made(PipelineSteps[i])'
      <3>1. PipelineSteps[i] \in StepSet
        BY Numbers
      <3>2. CASE WantedAt(i) /\ n = i
        BY <1>2, <1>3, <1>6, <3>2
      <3>3. CASE ~(WantedAt(i) /\ StillAhead(i))
        BY <1>1, <1>6, <3>1, <3>3 DEF PipeInv, LLMInv
      <3>4. StillAhead(i) => n <= i
        BY <1>2 DEF StillAhead
      <3> QED
        BY <2>1, <3>2, <3>3, <3>4
    <2> QED
      BY <1>14, <2>1
  <1>18. /\ Wanted' => Made(Current)'
         /\ running'.part = "minutes" => running'.at = 6 /\ running'.summarize
    <2>1. Current' = step
      BY <1>2, <1>5 DEF Current
    <2>2. Wanted' <=> Wanted
      BY <1>3, <1>5, <2>1 DEF Wanted
    <2> QED
      BY <1>3, <1>4, <1>5, <1>6, <2>1, <2>2 DEF Made, WantedAt
  <1>19. running'.summarize /\ (StillAhead(6)' \/ running'.part = "minutes") => ~minutes'
    <2>1. StillAhead(6)' \/ running'.part = "minutes" => StillAhead(6)
      BY <1>1, <1>2, <1>4, <1>5, <1>14, <1>15 DEF StillAhead
    <2> QED
      BY <1>1, <1>5, <2>1 DEF PipeInv, LLMInv
  <1>20. LLMInv'
    BY <1>2, <1>5, <1>13, <1>16, <1>17, <1>18, <1>19 DEF LLMInv
  <1> QED
    BY <1>9, <1>10, <1>11, <1>12, <1>20 DEF PipeInv

\* What a deferred run then says of its step, and of the index it makes anew.
LEMMA LLMStepDoneKeeps ==
    ASSUME PipeInv, LLMStepDone
    PROVE  PipeInv'
  <1> DEFINE marked == [running.state EXCEPT
                           !.completed = IF Wanted \/ Current \in LLMSteps
                                         THEN @ \cup {Current} ELSE @,
                           !.skipped = IF Wanted \/ Current \in LLMSteps
                                       THEN @ \ {Current} ELSE @]
  <1> DEFINE state == IF Current = "summarize" /\ running.index
                      THEN [marked EXCEPT !.completed = @ \ {"chunk", "embed"},
                                          !.skipped = @ \ {"chunk", "embed"}]
                      ELSE marked
  <1>1. /\ PipeTyped /\ running.kind = "llm" /\ running.part = "done" /\ running.at <= 8
        /\ UNCHANGED <<made, minutes, deferred>>
    BY DEF PipeInv, LLMInv, LLMStepDone, Running
  <1>2. /\ running' = [running EXCEPT !.at = @ + 1, !.part = "begin", !.state = state]
        /\ saved' \in {saved, state}
    BY DEF LLMStepDone, Save
  <1>3. /\ running \in LLMRuns /\ running # NotRunning /\ running.state \in PipeStates
        /\ running.at \in 5..8 /\ running.at + 1 \in 5..9 /\ Current \in StepSet
        /\ saved \in PipeStates
    BY <1>1, LLMAt, KindOfRun DEF NotRunning
  <1>4. Wanted \/ Current \in LLMSteps => Made(Current)
    <2>1. \A i \in 5..6 : running.at = i => ~StillAhead(i)
      BY <1>1 DEF StillAhead
    <2>2. Current \in LLMSteps => Made(Current)
      BY <1>1, <2>1, LLMAt DEF PipeInv, LLMInv
    <2> QED
      BY <1>1, <2>2 DEF PipeInv, LLMInv
  <1>5. /\ marked \in PipeStates
        /\ \A t \in marked.completed \ marked.skipped : Made(t)
    <2>1. \A t \in running.state.completed \ running.state.skipped : Made(t)
      BY <1>1 DEF PipeInv, LLMInv, TrueState
    <2>2. CASE Wanted \/ Current \in LLMSteps
      <3>1. /\ marked \in PipeStates
            /\ marked.completed = running.state.completed \cup {Current}
            /\ marked.skipped = running.state.skipped \ {Current}
        BY <1>3, <2>2 DEF PipeStates
      <3> HIDE DEF marked
      <3> QED
        BY <1>4, <2>1, <2>2, <3>1
    <2>3. CASE ~(Wanted \/ Current \in LLMSteps)
      <3>1. /\ marked \in PipeStates
            /\ marked.completed = running.state.completed
            /\ marked.skipped = running.state.skipped
        BY <1>3, <2>3 DEF PipeStates
      <3> HIDE DEF marked
      <3> QED
        BY <2>1, <3>1
    <2> QED
      BY <2>2, <2>3
  <1> HIDE DEF marked
  <1>6. /\ state \in PipeStates
        /\ \A t \in state.completed \ state.skipped : Made(t)
    <2>1. CASE Current = "summarize" /\ running.index
      <3>1. /\ state \in PipeStates
            /\ state.completed = marked.completed \ {"chunk", "embed"}
            /\ state.skipped = marked.skipped \ {"chunk", "embed"}
        BY <1>5, <2>1 DEF PipeStates
      <3> HIDE DEF state
      <3> QED
        BY <1>5, <3>1
    <2>2. CASE ~(Current = "summarize" /\ running.index)
      BY <1>5, <2>2
    <2> QED
      BY <2>1, <2>2
  <1> HIDE DEF state
  <1>7. /\ running' \in LLMRuns /\ running'.kind = "llm" /\ running'.part = "begin"
        /\ running'.at = running.at + 1 /\ running'.state = state
        /\ running'.correct = running.correct /\ running'.summarize = running.summarize
        /\ running'.index = running.index
    BY <1>2, <1>3, <1>6 DEF LLMRuns, Parts
  <1>8. saved' \in PipeStates /\ saved' # NoState
    BY <1>2, <1>3, <1>6 DEF PipeStates, NoState
  <1>9. PipeTyped' /\ FromCorrection' /\ PipeRunInv'
    BY <1>1, <1>7, <1>8 DEF PipeInv, PipeTyped, FromCorrection, PipeRunInv, Made
  <1>10. RecordedIsThere' /\ TrueState(running.state)'
    <2>1. saved # NoState
      BY <1>3 DEF PipeStates, NoState
    <2>2. \A t \in saved.completed \ saved.skipped : Made(t)
      BY <2>1 DEF PipeInv, RecordedIsThere, TrueState
    <2> QED
      BY <1>1, <1>2, <1>6, <1>7, <2>2 DEF RecordedIsThere, TrueState, Made
  <1>11. \A i \in 5..8 : (WantedAt(i)' <=> WantedAt(i)) /\ (StillAhead(i)' <=> StillAhead(i))
    BY <1>1, <1>3, <1>7 DEF WantedAt, StillAhead
  <1>12. LLMInv'
    BY <1>1, <1>7, <1>10, <1>11 DEF PipeInv, LLMInv, Made
  <1> QED
    BY <1>9, <1>10, <1>12 DEF PipeInv

\* The minutes of either kind of run.
LEMMA WriteMinutesKeeps ==
    ASSUME PipeInv, WriteMinutes
    PROVE  PipeInv'
  <1>1. /\ PipeTyped /\ UNCHANGED <<saved, made, deferred>> /\ minutes' = TRUE
        /\ running.part = "minutes" /\ running' = [running EXCEPT !.part = "done"]
        /\ running # NotRunning
    BY DEF PipeInv, WriteMinutes, NotRunning
  <1>2. CASE running.kind = "run"
    <2>1. /\ running' \in Runs /\ running'.kind = "run" /\ running'.state = running.state
          /\ running'.text = running.text /\ running'.at = running.at
          /\ running'.end = running.end
      BY <1>1, <1>2, KindOfRun DEF Runs, Parts
    <2>2. /\ running.state = saved /\ saved # NoState
          /\ \A t \in saved.completed \ saved.skipped : Made(t)
      BY <1>2, RunBelieves
    <2>3. PipeTyped' /\ FromCorrection'
      BY <1>1, <2>1, <2>2 DEF PipeInv, PipeTyped, FromCorrection, Made
    <2>4. running'.at <= running'.end /\ Made(Current)'
      BY <1>1, <1>2, <2>1 DEF PipeInv, PipeRunInv, Current, Made
    <2>5. /\ running'.text = "corrected" => Made("correct")'
          /\ running'.text = "merged" => "correct" \in saved'.skipped
          /\ \A s \in saved'.completed \ saved'.skipped : Made(s)'
      BY <1>1, <1>2, <2>1, <2>2 DEF PipeInv, PipeRunInv, Made
    <2> QED
      BY <1>1, <2>1, <2>2, <2>3, <2>4, <2>5, RunGoesOn
  <1>3. CASE running.kind = "llm"
    <2>1. /\ running' \in LLMRuns /\ running'.kind = "llm" /\ running'.state = running.state
          /\ running'.part = "done" /\ running'.at = running.at
          /\ running'.correct = running.correct /\ running'.summarize = running.summarize
          /\ running'.index = running.index
      BY <1>1, <1>3, KindOfRun DEF LLMRuns, Parts
    <2>2. PipeTyped' /\ FromCorrection' /\ PipeRunInv' /\ RecordedIsThere'
      BY <1>1, <2>1
         DEF PipeInv, PipeTyped, FromCorrection, PipeRunInv, RecordedIsThere, TrueState, Made
    <2>3. running.at = 6
      BY <1>1, <1>3 DEF PipeInv, LLMInv
    <2>4. \A i \in 5..8 : (WantedAt(i)' <=> WantedAt(i)) /\ (StillAhead(i)' <=> StillAhead(i))
      BY <1>1, <2>1 DEF WantedAt, StillAhead
    <2>5. Current' = Current /\ (Wanted' <=> Wanted) /\ ~StillAhead(6)'
      BY <2>1, <2>3 DEF Current, Wanted, StillAhead
    <2>6. TrueState(running.state)'
      BY <1>1, <1>3, <2>1 DEF PipeInv, LLMInv, TrueState, Made
    <2>7. LLMInv'
      BY <1>1, <1>3, <2>1, <2>4, <2>5, <2>6 DEF PipeInv, LLMInv, Made
    <2> QED
      BY <2>2, <2>7 DEF PipeInv
  <1> QED
    BY <1>1, <1>2, <1>3, KindOfRun

\* A deferred run that is through leaves what it believed.
LEMMA FinishLLMKeeps ==
    ASSUME PipeInv, FinishLLM
    PROVE  PipeInv'
  <1>1. /\ running # NotRunning /\ UNCHANGED <<made, minutes, deferred>>
        /\ running.kind = "llm" /\ End("completed")
    BY DEF FinishLLM, Running, NotRunning
  <1>2. \A s \in running.state.completed \ running.state.skipped : Made(s)
    BY <1>1 DEF PipeInv, LLMInv, TrueState
  <1> QED
    BY <1>1, <1>2, EndKeeps

\* A failure, a crash and the loss of the state file leave what was stored, or
\* nothing to believe.
LEMMA CutShortKeeps ==
    ASSUME PipeInv, LLMFails \/ PipeCrash \/ StateLost
    PROVE  PipeInv'
  <1>1. running' = NotRunning /\ UNCHANGED <<made, minutes, deferred>>
    BY DEF LLMFails, PipeCrash, StateLost
  <1>2. saved # NoState => \A s \in saved.completed \ saved.skipped : Made(s)
    BY DEF PipeInv, RecordedIsThere, TrueState
  <1>3. CASE saved' = saved
    BY <1>1, <1>2, <1>3, NothingRuns DEF PipeInv, PipeTyped
  <1>4. CASE saved' = NoState
    BY <1>1, <1>4, NothingRuns DEF PipeInv
  <1>5. CASE LLMFails /\ saved' = [saved EXCEPT !.status = "failed"]
    <2>1. saved \in PipeStates /\ saved # NoState
      BY <1>5, KindOfRun DEF LLMFails, PipeInv, PipeTyped, NotRunning
    <2>2. /\ saved' \in PipeStates
          /\ saved'.completed = saved.completed /\ saved'.skipped = saved.skipped
      BY <1>5, <2>1, StatusOnly
    <2> QED
      BY <1>1, <1>2, <2>1, <2>2, NothingRuns DEF PipeInv
  <1> QED
    BY <1>3, <1>4, <1>5 DEF LLMFails, PipeCrash, StateLost

------------------------------------------------------------------------------
(* The theorems. *)

\* Runs and deferred runs, however they are cut short, leave behind what the
\* next one may believe.
THEOREM PipelineInvariant == PipeSpec => []PipeInv
  <1>1. PipeInit => PipeInv
    <2> SUFFICES ASSUME PipeInit
                 PROVE  PipeInv
      OBVIOUS
    <2>1. running = NotRunning /\ saved = NoState /\ made = [s \in StepSet |-> "none"]
          /\ minutes = FALSE /\ deferred = FALSE
      BY DEF PipeInit
    <2>2. Dependents \subseteq StepSet
      BY Numbers DEF Dependents
    <2> QED
      BY <2>1, <2>2
         DEF PipeInv, PipeTyped, RecordedIsThere, FromCorrection, PipeRunInv, LLMInv, Made, NotRunning
  <1>2. PipeInv /\ [PipeNext]_pipeVars => PipeInv'
    <2> SUFFICES ASSUME PipeInv, [PipeNext]_pipeVars
                 PROVE  PipeInv'
      OBVIOUS
    <2>1. CASE UNCHANGED pipeVars
      BY <2>1 DEF pipeVars, PipeInv, PipeTyped, RecordedIsThere, TrueState, FromCorrection, PipeRunInv,
                  LLMInv, WantedAt, StillAhead, Wanted, Current, Made
    <2>2. CASE \E end \in DOMAIN PipelineSteps : StartRun(end)
      BY <2>2, StartRunKeeps, Numbers
    <2> QED
      BY <2>1, <2>2, SkipDependentKeeps, SkipLLMStepKeeps, RunStepKeeps, WriteMinutesKeeps,
         AttemptFailsKeeps, FinishStepKeeps, FinishRunKeeps, StartLLMKeeps, LLMStepKeeps,
         LLMStepDoneKeeps, FinishLLMKeeps, CutShortKeeps DEF PipeNext
  <1> QED
    BY <1>1, <1>2, PTL DEF PipeSpec

\* ArtifactsAreTrue: no summary, chunk or embedding derives from text that only
\* stood in for a correction, what is recorded as done is there, and a deferred
\* run never meets a name that is taken.
THEOREM ArtifactsStayTrue == PipeSpec => []ArtifactsAreTrue
  <1>1. PipeInv => ArtifactsAreTrue
    <2> SUFFICES ASSUME PipeInv
                 PROVE  ArtifactsAreTrue
      OBVIOUS
    <2>1. ~NameTaken
      <3> SUFFICES ASSUME NameTaken
                   PROVE  FALSE
        OBVIOUS
      <3>1. running.kind = "llm" /\ running.at <= 8
        BY Numbers DEF NameTaken
      <3>2. /\ running.at \in 5..8 /\ Current = PipelineSteps[running.at]
            /\ Wanted <=> WantedAt(running.at)
        BY <3>1, LLMAt DEF PipeInv
      <3>3. CASE running.part = "begin" /\ Wanted /\ Made(Current)
        BY <3>1, <3>2, <3>3 DEF PipeInv, LLMInv, StillAhead
      <3>4. CASE running.part = "minutes" /\ minutes
        BY <3>1, <3>4 DEF PipeInv, LLMInv
      <3> QED
        BY <3>3, <3>4 DEF NameTaken
    <2> QED
      BY <2>1 DEF PipeInv, RecordedIsThere, TrueState, FromCorrection, ArtifactsAreTrue
  <1> QED
    BY <1>1, PipelineInvariant, PTL

------------------------------------------------------------------------------
(* The stage table: an execution holds its item and has what it depends on. *)

StageStatuses == {"queued", "running", "completed", "failed", "cancel_requested"}

Items ==
    [status : StageStatuses, owner : Sessions \cup {NoOwner}, attempt : Nat, leased : BOOLEAN]

WorkTyped == work \in [StagedMeetings -> [StageNumbers -> Items]]

StageClaims == [at : StagedMeetings \X StageNumbers, by : Sessions, attempt : Nat]

\* What an execution has in the table: the item it holds, and all before it done.
ExecutionIs(c) ==
    /\ Holder(work[c.at[1]][c.at[2]], c.by, c.attempt)
    /\ work[c.at[1]][c.at[2]].status \in {"running", "cancel_requested"}
    /\ \A p \in 1..(c.at[2] - 1) : work[c.at[1]][p].status = "completed"

\* The same of the next state.
ExecutionThen(c) ==
    /\ Holder(work'[c.at[1]][c.at[2]], c.by, c.attempt)
    /\ work'[c.at[1]][c.at[2]].status \in {"running", "cancel_requested"}
    /\ \A p \in 1..(c.at[2] - 1) : work'[c.at[1]][p].status = "completed"

StageInv ==
    /\ WorkTyped /\ alive \subseteq Sessions /\ executing \subseteq StageClaims
    /\ \A c \in executing : c.by \in alive /\ ExecutionIs(c)

\* An item of the table replaced: the others stay.
LEMMA ItemSet ==
    ASSUME WorkTyped, NEW m \in StagedMeetings, NEW s \in StageNumbers, NEW item \in Items,
           SetItem(m, s, item)
    PROVE  /\ WorkTyped' /\ work'[m][s] = item /\ work[m][s] \in Items
           /\ \A n \in StagedMeetings, t \in StageNumbers :
                 n # m \/ t # s => work'[n][t] = work[n][t]
  BY DEF WorkTyped, SetItem

\* Two executions of one item are one.
LEMMA OneExecution ==
    ASSUME StageInv, NEW c \in executing, NEW d \in executing, c.at = d.at
    PROVE  c = d
  <1>1. c.by = d.by /\ c.attempt = d.attempt
    BY DEF StageInv, ExecutionIs, Holder
  <1>2. c \in StageClaims /\ d \in StageClaims
    BY DEF StageInv
  <1> QED
    BY <1>1, <1>2 DEF StageClaims

AloneAndAfter ==
    /\ \A c, d \in executing : c.at = d.at => c = d
    /\ \A c \in executing : \A p \in 1..(c.at[2] - 1) : work[c.at[1]][p].status = "completed"

\* No two executions have one item, and what each depends on is done.
LEMMA ExecutionsAlone == StageInv => AloneAndAfter
  BY OneExecution DEF AloneAndAfter, StageInv, ExecutionIs

\* The same after a step that keeps the invariant.
LEMMA ExecutionsStayAlone == StageInv' => AloneAndAfter'
  BY ExecutionsAlone, PTL

\* The step is as it should be when no item is completed by it but under its claim.
LEMMA UnderClaim ==
    ASSUME StageInv',
           \A m \in StagedMeetings, s \in StageNumbers :
              work[m][s].status # "completed" /\ work'[m][s].status = "completed" =>
                 \E c \in executing : c.at = <<m, s>> /\ c.attempt = work[m][s].attempt
    PROVE  StageUnderClaim
  BY ExecutionsStayAlone DEF StageUnderClaim, AloneAndAfter

\* Where an execution is.
LEMMA ExecutionAt ==
    ASSUME StageInv, NEW c \in executing
    PROVE  /\ c \in StageClaims /\ c.at = <<c.at[1], c.at[2]>> /\ c.at[1] \in StagedMeetings
           /\ c.at[2] \in StageNumbers /\ c.attempt \in Nat /\ c.by \in Sessions
           /\ 1..(c.at[2] - 1) \subseteq StageNumbers /\ c.at[2] \notin 1..(c.at[2] - 1)
  <1>1. c \in StageClaims
    BY DEF StageInv
  <1> QED
    BY <1>1 DEF StageClaims, StageNumbers

\* An execution whose item and whose prerequisites stay as they are goes on.
LEMMA ExecutionStays ==
    ASSUME StageInv, NEW c \in executing, NEW m \in StagedMeetings, NEW s \in StageNumbers,
           c.at # <<m, s>>, work[m][s].status # "completed",
           \A n \in StagedMeetings, t \in StageNumbers :
              n # m \/ t # s => work'[n][t] = work[n][t]
    PROVE  ExecutionThen(c)
  <1>1. /\ c.at = <<c.at[1], c.at[2]>> /\ c.at[1] \in StagedMeetings /\ c.at[2] \in StageNumbers
        /\ 1..(c.at[2] - 1) \subseteq StageNumbers
    BY ExecutionAt
  <1>2. ExecutionIs(c)
    BY DEF StageInv
  <1>3. c.at[1] # m \/ c.at[2] # s
    BY <1>1
  <1>4. work'[c.at[1]][c.at[2]] = work[c.at[1]][c.at[2]]
    BY <1>1, <1>3
  <1>5. ASSUME NEW p \in 1..(c.at[2] - 1) PROVE work'[c.at[1]][p].status = "completed"
    <2>1. work[c.at[1]][p].status = "completed" /\ p \in StageNumbers
      BY <1>1, <1>2 DEF ExecutionIs
    <2>2. c.at[1] # m \/ p # s
      BY <2>1
    <2> QED
      BY <1>1, <2>1, <2>2
  <1> QED
    BY <1>2, <1>4, <1>5 DEF ExecutionIs, ExecutionThen

\* A session claims an item that is ready.
LEMMA ClaimsKeep ==
    ASSUME StageInv, NEW session \in Sessions, SessionClaims(session)
    PROVE  StageInv' /\ StageUnderClaim
  <1>1. PICK m \in StagedMeetings, s \in StageNumbers :
           /\ ClaimReady(m, s, session)
           /\ executing' = executing \cup {Claim(m, s, session)'}
    BY DEF SessionClaims
  <1>2. session \in alive /\ alive' = alive /\ WorkTyped
    BY DEF SessionClaims, StageInv
  <1> DEFINE item == [status |-> "running", owner |-> session,
                      attempt |-> work[m][s].attempt + 1, leased |-> TRUE]
  <1>3. Ready(m, s) /\ SetItem(m, s, item)
    BY <1>1 DEF ClaimReady
  <1>4. /\ work[m][s] \in Items /\ work[m][s].status = "queued" /\ work[m][s].attempt + 1 \in Nat
    BY <1>2, <1>3 DEF Ready, WorkTyped, Items
  <1>5. item \in Items /\ item.leased = TRUE /\ item.owner = session /\ item.status = "running"
        /\ item.attempt \in Nat
    BY <1>4 DEF Items, StageStatuses
  <1> HIDE DEF item
  <1>6. /\ WorkTyped' /\ work'[m][s] = item
        /\ \A n \in StagedMeetings, t \in StageNumbers :
                 n # m \/ t # s => work'[n][t] = work[n][t]
    BY <1>2, <1>3, <1>5, ItemSet
  <1> DEFINE new == [at |-> <<m, s>>, by |-> session, attempt |-> item.attempt]
  <1>7. executing' = executing \cup {new}
    BY <1>1, <1>6 DEF Claim
  <1>8. new \in StageClaims /\ new.at = <<m, s>> /\ new.by = session /\ new.attempt = item.attempt
        /\ new.at[1] = m /\ new.at[2] = s
    BY <1>5 DEF StageClaims
  <1> HIDE DEF new
  <1>9. \A p \in 1..(s - 1) : work'[m][p].status = "completed"
    <2> SUFFICES ASSUME NEW p \in 1..(s - 1) PROVE work'[m][p].status = "completed"
      OBVIOUS
    <2>1. p \in StageNumbers /\ p # s
      BY DEF StageNumbers
    <2> QED
      BY <1>3, <1>6, <2>1 DEF Ready
  <1>10. ExecutionThen(new)
    BY <1>5, <1>6, <1>8, <1>9 DEF ExecutionThen, Holder
  <1>11. ASSUME NEW c \in executing PROVE c.by \in alive' /\ ExecutionThen(c)
    <2>1. c.at # <<m, s>>
      BY <1>4 DEF StageInv, ExecutionIs
    <2>2. c.by \in alive
      BY DEF StageInv
    <2> QED
      BY <1>2, <1>4, <1>6, <2>1, <2>2, ExecutionStays
  <1>12. StageInv'
    BY <1>2, <1>6, <1>7, <1>8, <1>10, <1>11 DEF StageInv, ExecutionIs, ExecutionThen
  <1>13. ASSUME NEW n \in StagedMeetings, NEW t \in StageNumbers,
                work[n][t].status # "completed", work'[n][t].status = "completed"
         PROVE  FALSE
    BY <1>5, <1>6, <1>13
  <1> QED
    BY <1>12, <1>13, UnderClaim

\* An execution ends with its result, or as the cancelled one it was.
LEMMA FinishesKeep ==
    ASSUME StageInv, NEW session \in Sessions, SessionFinishes(session)
    PROVE  StageInv' /\ StageUnderClaim
  <1>1. PICK c \in executing :
          /\ c.by = session /\ executing' = executing \ {c}
          /\ \/ \E status \in {"completed", "failed"} :
                   Finish(c.at[1], c.at[2], session, c.attempt, status)
             \/ AcknowledgeCancel(c.at[1], c.at[2], session, c.attempt)
    BY DEF SessionFinishes
  <1> DEFINE m == c.at[1]
             s == c.at[2]
  <1>2. /\ c.at = <<m, s>> /\ m \in StagedMeetings /\ s \in StageNumbers
        /\ WorkTyped /\ alive' = alive
    BY <1>1, ExecutionAt DEF StageInv, SessionFinishes
  <1>3. /\ work[m][s] \in Items /\ work[m][s].status \in {"running", "cancel_requested"}
        /\ work[m][s].attempt = c.attempt
    BY <1>2 DEF StageInv, ExecutionIs, WorkTyped, Holder
  <1> HIDE DEF m, s
  <1>4. PICK item \in Items : SetItem(m, s, item)
    <2>1. CASE \E status \in {"completed", "failed"} : Finish(m, s, session, c.attempt, status)
      <3>1. PICK status \in {"completed", "failed"} : Finish(m, s, session, c.attempt, status)
        BY <2>1
      <3>2. [work[m][s] EXCEPT !.status = status] \in Items
        BY <1>3 DEF Items, StageStatuses
      <3> QED
        BY <3>1, <3>2 DEF Finish
    <2>2. CASE AcknowledgeCancel(m, s, session, c.attempt)
      <3>1. Unleased(work[m][s]) \in Items
        <4>1. [work[m][s] EXCEPT !.owner = NoOwner] \in Items
          BY <1>3 DEF Items
        <4>2. FALSE \in BOOLEAN
          OBVIOUS
        <4> QED
          BY <1>3, <4>1, <4>2 DEF Items, Unleased
      <3> QED
        BY <2>2, <3>1 DEF AcknowledgeCancel
    <2> QED
      BY <1>1, <2>1, <2>2 DEF m, s
  <1>5. /\ WorkTyped'
        /\ \A n \in StagedMeetings, t \in StageNumbers :
                 n # m \/ t # s => work'[n][t] = work[n][t]
    BY <1>2, <1>4, ItemSet
  <1>6. ASSUME NEW d \in executing \ {c} PROVE d.by \in alive' /\ ExecutionThen(d)
    <2>1. d.at # <<m, s>> /\ d.by \in alive
      BY <1>1, <1>2, OneExecution DEF StageInv
    <2>2. work[m][s].status # "completed"
      BY <1>3
    <2> QED
      BY <1>2, <1>5, <2>1, <2>2, ExecutionStays
  <1>7. StageInv'
    BY <1>1, <1>2, <1>5, <1>6 DEF StageInv, ExecutionIs, ExecutionThen
  <1>8. ASSUME NEW n \in StagedMeetings, NEW t \in StageNumbers,
               work[n][t].status # "completed", work'[n][t].status = "completed"
        PROVE  \E e \in executing : e.at = <<n, t>> /\ e.attempt = work[n][t].attempt
    <2>1. n = m /\ t = s
      BY <1>5, <1>8
    <2> QED
      BY <1>1, <1>2, <1>3, <2>1
  <1> QED
    BY <1>7, <1>8, UnderClaim

\* What such a step may do to an item.
Marked(item, then) ==
    /\ then.status = "completed" <=> item.status = "completed"
    /\ \/ then = item
       \/ /\ item.status \in {"queued", "running"}
          /\ then = [item EXCEPT !.status = "cancel_requested"]
       \/ item.owner \notin alive

\* Steps that take no item from a live session and complete none.
LEMMA ItemsMarked ==
    ASSUME StageInv, WorkTyped', executing' \subseteq executing, alive' \subseteq alive,
           \A c \in executing' : c.by \in alive',
           \A m \in StagedMeetings, s \in StageNumbers : Marked(work[m][s], work'[m][s])
    PROVE  StageInv' /\ StageUnderClaim
  <1>1. ASSUME NEW c \in executing' PROVE ExecutionThen(c)
    <2>1. /\ c \in executing /\ ExecutionIs(c) /\ c.by \in alive
      BY DEF StageInv
    <2>2. /\ c.at[1] \in StagedMeetings /\ c.at[2] \in StageNumbers
          /\ 1..(c.at[2] - 1) \subseteq StageNumbers
      BY <2>1, ExecutionAt
    <2>3. work[c.at[1]][c.at[2]].owner \in alive /\ work[c.at[1]][c.at[2]] \in Items
      <3>1. work[c.at[1]][c.at[2]].owner = c.by
        BY <2>1 DEF ExecutionIs, Holder
      <3>2. work[c.at[1]][c.at[2]] \in Items
        BY <2>2 DEF StageInv, WorkTyped
      <3> QED
        BY <2>1, <3>1, <3>2
    <2>4. /\ Holder(work'[c.at[1]][c.at[2]], c.by, c.attempt)
          /\ work'[c.at[1]][c.at[2]].status \in {"running", "cancel_requested"}
      <3> DEFINE item == work[c.at[1]][c.at[2]]
                 then == work'[c.at[1]][c.at[2]]
      <3>1. /\ item \in Items /\ Holder(item, c.by, c.attempt)
            /\ item.status \in {"running", "cancel_requested"}
            /\ then = item \/ then = [item EXCEPT !.status = "cancel_requested"]
        BY <2>1, <2>2, <2>3 DEF ExecutionIs, Marked
      <3> HIDE DEF item, then
      <3>2. Holder(then, c.by, c.attempt) /\ then.status \in {"running", "cancel_requested"}
        <4>1. CASE then = item
          BY <3>1, <4>1
        <4>2. CASE then = [item EXCEPT !.status = "cancel_requested"]
          <5>1. /\ then.status = "cancel_requested" /\ then.owner = item.owner
                /\ then.attempt = item.attempt /\ then.leased = item.leased
            BY <3>1, <4>2 DEF Items
          <5> QED
            BY <3>1, <5>1 DEF Holder
        <4> QED
          BY <3>1, <4>1, <4>2
      <3> QED
        BY <3>2, Zenon DEF then
    <2>5. \A p \in 1..(c.at[2] - 1) : work'[c.at[1]][p].status = "completed"
      <3> SUFFICES ASSUME NEW p \in 1..(c.at[2] - 1)
                   PROVE  work'[c.at[1]][p].status = "completed"
        OBVIOUS
      <3>1. work[c.at[1]][p].status = "completed" /\ p \in StageNumbers
        BY <2>1, <2>2 DEF ExecutionIs
      <3> QED
        BY <2>2, <3>1 DEF Marked
    <2> QED
      BY <2>4, <2>5 DEF ExecutionThen
  <1>2. StageInv'
    BY <1>1 DEF StageInv, ExecutionIs, ExecutionThen
  <1> QED
    BY <1>2, UnderClaim DEF Marked

\* Cancellations, deaths and recoveries.
LEMMA MarksKeep ==
    ASSUME StageInv,
           \/ UserCancelsStages \/ UNCHANGED stageVars
           \/ \E session \in Sessions : SessionDies(session) \/ SessionRecovered(session)
    PROVE  StageInv' /\ StageUnderClaim
  <1>1. WorkTyped /\ executing \subseteq StageClaims /\ \A c \in executing : c.by \in alive
    BY DEF StageInv
  <1>2. CASE UserCancelsStages
    <2>1. PICK m \in StagedMeetings : RequestCancel(m)
      BY <1>2 DEF UserCancelsStages
    <2>2. UNCHANGED <<alive, executing>>
      BY <1>2 DEF UserCancelsStages
    <2>3. ASSUME NEW n \in StagedMeetings, NEW s \in StageNumbers
          PROVE  /\ work[n][s] \in Items
                 /\ work'[n][s] = work[n][s]
                    \/ /\ work[n][s].status \in {"queued", "running"}
                       /\ work'[n][s] = [work[n][s] EXCEPT !.status = "cancel_requested"]
      BY <1>1, <2>1 DEF RequestCancel, WorkTyped
    <2>4. \A item \in Items :
             item.status \in {"queued", "running"} =>
                /\ [item EXCEPT !.status = "cancel_requested"] \in Items
                /\ [item EXCEPT !.status = "cancel_requested"].status = "cancel_requested"
      BY DEF Items, StageStatuses
    <2>5. \A n \in StagedMeetings, s \in StageNumbers :
             work'[n][s] \in Items /\ Marked(work[n][s], work'[n][s])
      <3> SUFFICES ASSUME NEW n \in StagedMeetings, NEW s \in StageNumbers
                   PROVE  work'[n][s] \in Items /\ Marked(work[n][s], work'[n][s])
        OBVIOUS
      <3> DEFINE item == work[n][s]
                 then == work'[n][s]
      <3>1. /\ item \in Items
            /\ then = item \/ (/\ item.status \in {"queued", "running"}
                               /\ then = [item EXCEPT !.status = "cancel_requested"])
        BY <2>3
      <3> HIDE DEF item, then
      <3>2. then \in Items /\ Marked(item, then)
        BY <2>4, <3>1 DEF Marked
      <3> QED
        BY <3>2 DEF item, then
    <2>6. /\ work' \in [StagedMeetings -> [StageNumbers -> Items]]
          /\ executing' \subseteq executing /\ alive' \subseteq alive
          /\ \A c \in executing' : c.by \in alive'
      <3>1. \A n \in StagedMeetings : work'[n] \in [StageNumbers -> Items]
        <4> SUFFICES ASSUME NEW n \in StagedMeetings PROVE work'[n] \in [StageNumbers -> Items]
          OBVIOUS
        <4>1. \A s \in StageNumbers : work'[n][s] \in Items
          BY <2>5
        <4>2. work'[n] = [s \in StageNumbers |-> work'[n][s]]
          BY <1>1, <2>1 DEF RequestCancel, WorkTyped
        <4> QED
          BY <4>1, <4>2
      <3>2. work' = [n \in StagedMeetings |-> work'[n]]
        BY <1>1, <2>1 DEF RequestCancel, WorkTyped
      <3> QED
        BY <1>1, <2>2, <3>1, <3>2
    <2>7. WorkTyped'
      BY <2>6 DEF WorkTyped
    <2> QED
      BY <2>5, <2>6, <2>7, ItemsMarked
  <1>3. ASSUME NEW old \in Sessions, SessionRecovered(old) PROVE StageInv' /\ StageUnderClaim
    <2>1. old \notin alive /\ RecoverSession(old) /\ UNCHANGED <<alive, executing>>
      BY <1>3 DEF SessionRecovered
    <2> DEFINE Then(item) ==
                 IF item.owner = old /\ item.status \in {"running", "cancel_requested"}
                 THEN Unleased([item EXCEPT !.status = IF @ = "running" THEN "queued" ELSE @])
                 ELSE item
    <2>2. ASSUME NEW item \in Items
          PROVE  /\ Then(item) \in Items /\ (Then(item) = item \/ item.owner = old)
                 /\ Then(item).status = "completed" <=> item.status = "completed"
      <3>1. CASE ~(item.owner = old /\ item.status \in {"running", "cancel_requested"})
        BY <3>1
      <3>2. CASE item.owner = old /\ item.status \in {"running", "cancel_requested"}
        <4> DEFINE marked == [item EXCEPT !.status = IF @ = "running" THEN "queued" ELSE @]
        <4>1. marked \in Items /\ marked.status \in {"queued", "cancel_requested"}
          BY <3>2 DEF Items, StageStatuses
        <4>2. Then(item) = Unleased(marked)
          BY <3>2
        <4> HIDE DEF marked, Then
        <4>3. FALSE \in BOOLEAN
          OBVIOUS
        <4>4. Unleased(marked) \in Items /\ Unleased(marked).status = marked.status
          BY <4>1, <4>3 DEF Items, Unleased
        <4> QED
          BY <3>2, <4>1, <4>2, <4>4
      <3> QED
        BY <3>1, <3>2
    <2>3. work' = [m \in StagedMeetings |-> [s \in StageNumbers |-> Then(work[m][s])]]
      BY <1>1, <2>1 DEF RecoverSession, WorkTyped
    <2> HIDE DEF Then
    <2>4. \A m \in StagedMeetings, s \in StageNumbers :
             work[m][s] \in Items /\ work'[m][s] = Then(work[m][s])
      BY <1>1, <2>3 DEF WorkTyped
    <2>5. work' \in [StagedMeetings -> [StageNumbers -> Items]]
      BY <2>2, <2>3, <2>4
    <2>6. WorkTyped' /\ executing' \subseteq executing /\ alive' \subseteq alive
          /\ \A c \in executing' : c.by \in alive'
      BY <1>1, <2>1, <2>5 DEF WorkTyped
    <2>7. \A m \in StagedMeetings, s \in StageNumbers : Marked(work[m][s], work'[m][s])
      BY <2>1, <2>2, <2>4 DEF Marked
    <2> QED
      BY <2>6, <2>7, ItemsMarked
  <1>4. CASE UNCHANGED stageVars
    <2>1. UNCHANGED <<work, alive, executing>>
      BY <1>4 DEF stageVars
    <2>2. WorkTyped' /\ executing' \subseteq executing /\ alive' \subseteq alive
          /\ \A c \in executing' : c.by \in alive'
      BY <1>1, <2>1 DEF WorkTyped
    <2>3. \A m \in StagedMeetings, s \in StageNumbers : Marked(work[m][s], work'[m][s])
      BY <2>1 DEF Marked
    <2> QED
      BY <2>2, <2>3, ItemsMarked
  <1>5. ASSUME NEW session \in Sessions, SessionDies(session) PROVE StageInv' /\ StageUnderClaim
    <2>1. /\ alive' = alive \ {session} /\ executing' = {c \in executing : c.by # session}
          /\ UNCHANGED work
      BY <1>5 DEF SessionDies
    <2>2. WorkTyped' /\ executing' \subseteq executing /\ alive' \subseteq alive
          /\ \A c \in executing' : c.by \in alive'
      BY <1>1, <2>1 DEF WorkTyped
    <2>3. \A m \in StagedMeetings, s \in StageNumbers : Marked(work[m][s], work'[m][s])
      BY <2>1 DEF Marked
    <2> QED
      BY <2>2, <2>3, ItemsMarked
  <1> QED
    BY <1>2, <1>3, <1>4, <1>5

\* Every step of the stage queue keeps the invariant, and completes an item only
\* under its claim (stage_work_queue.py).
LEMMA StageStep == StageInv /\ [StageWorkNext]_stageVars => StageInv' /\ StageUnderClaim
  <1> SUFFICES ASSUME StageInv, [StageWorkNext]_stageVars PROVE StageInv' /\ StageUnderClaim
    OBVIOUS
  <1>1. CASE \E session \in Sessions : SessionClaims(session)
    BY <1>1, ClaimsKeep
  <1>2. CASE \E session \in Sessions : SessionFinishes(session)
    BY <1>2, FinishesKeep
  <1>3. CASE \/ UserCancelsStages \/ UNCHANGED stageVars
             \/ \E session \in Sessions : SessionDies(session) \/ SessionRecovered(session)
    BY <1>3, MarksKeep
  <1> QED
    BY <1>1, <1>2, <1>3 DEF StageWorkNext

------------------------------------------------------------------------------
(* The bulk cohort: whoever runs was started by it and is still to be ended. *)

\* A row that a cohort must not leave behind: running, or being cancelled.
Live(row) == row.status \in ActiveStatuses \/ HasCancelClaim(row)
LiveMembers == {m \in StagedMeetings : Live(jobs[m])}

OnMember == {"checks", "take", "run", "successful", "unsuccessful", "release", "drop"}
Working == {"next"} \cup OnMember
Ended == {"restore", "requeue", "over", "stopped"}

Cohorts ==
    [pc : {"phase"} \cup Working \cup Ended, phase : 1..5,
     at : StagedMeetings \cup {NoOwner}, pending : SUBSET StagedMeetings,
     active : SUBSET StagedMeetings, started : SUBSET StagedMeetings]

BulkTyped ==
    /\ GoodTable /\ WorkTyped /\ bulk \in Cohorts
    /\ checkpoint \in [StagedMeetings -> 0..4]

\* Who may run, in each part of the cohort's loop.
CohortInv ==
    /\ bulk.started \subseteq bulk.active
    /\ bulk.pc \in Working => bulk.pending \subseteq bulk.active /\ bulk.phase \in 1..4
    /\ bulk.pc \in OnMember => bulk.at \in bulk.pending
    /\ bulk.pc \in {"take", "run", "successful", "requeue"} => bulk.at \in bulk.started
    /\ bulk.pc # "stopped" => LiveMembers \subseteq bulk.started
    /\ bulk.pc \in {"unsuccessful", "release", "drop"} => bulk.at \notin LiveMembers
    /\ bulk.pc = "run" => bulk.at \in LiveMembers
    /\ bulk.pc = "successful" /\ bulk.phase = 4 => bulk.at \notin LiveMembers
    /\ bulk.pc = "phase" /\ bulk.phase \in {1, 5} => LiveMembers = {}
    /\ bulk.phase = 1 /\ bulk.pc \in {"next", "checks", "take"} => bulk.pending \cap LiveMembers = {}
    /\ bulk.phase = 1 /\ bulk.pc \in OnMember => bulk.pending \cap LiveMembers \subseteq {bulk.at}
    /\ bulk.phase = 4 /\ bulk.pc \in Working => LiveMembers \subseteq bulk.pending
    /\ bulk.pc = "over" => LiveMembers = {}

\* What the stage table says of the members.
RecordInv ==
    /\ bulk.pc = "successful" =>
          /\ checkpoint[bulk.at] >= bulk.phase
          /\ bulk.at \in LiveMembers \/ jobs[bulk.at].status = "completed"
    /\ \A m \in StagedMeetings, s \in StageNumbers :
          work[m][s].status = "completed" => checkpoint[m] >= s
    /\ \A m \in bulk.active, s \in StageNumbers :
          work[m][s].status \in {"failed", "cancel_requested"} =>
             \/ bulk.pc \in {"release", "drop"} /\ m = bulk.at
             \/ bulk.pc \in Ended

BulkInv == BulkTyped /\ CohortInv /\ RecordInv

\* A meeting with stages is one of the table.
LEMMA StagedAreMeetings == StagedMeetings \subseteq Meetings
  BY BulkAssumption

\* A row written: whether the meeting runs depends on that row.
LEMMA MemberWritten ==
    ASSUME GoodTable, NEW m \in StagedMeetings, NEW row, Store(m, row)
    PROVE  /\ jobs'[m] = row /\ \A n \in StagedMeetings : n # m => jobs'[n] = jobs[n]
           /\ ~Live(row) => LiveMembers' = LiveMembers \ {m}
           /\ Live(row) => LiveMembers' = LiveMembers \cup {m}
  BY StagedAreMeetings DEF GoodTable, Store, LiveMembers, Live, HasCancelClaim

\* The fields of a row after an operation.
LEMMA StatusWritten ==
    ASSUME NEW row \in Rows, NEW status, NEW action, NEW error
    PROVE  /\ [row EXCEPT !.status = status, !.action = action, !.error = error].status = status
           /\ [row EXCEPT !.status = status, !.action = action, !.error = error].action = action
           /\ [row EXCEPT !.status = status, !.error = error].status = status
           /\ [row EXCEPT !.error = error].status = row.status
  BY DEF Rows

\* A row in one of these statuses has been left behind by nobody.
LEMMA NotLive ==
    ASSUME NEW row, row.status \in {"queued", "recorded", "failed", "completed"}
    PROVE  ~Live(row)
  BY DEF Live, HasCancelClaim, ActiveStatuses

\* A cancellation is finished: the row is recorded.
LEMMA FinalizeEnds ==
    ASSUME GoodTable, NEW m \in StagedMeetings, BulkFinalize(m)
    PROVE  /\ GoodTable' /\ LiveMembers' = LiveMembers \ {m}
           /\ \A n \in StagedMeetings : n # m => jobs'[n] = jobs[n]
  <1>1. CASE FinalizeCancellationClaim(m)
    <2> DEFINE row == [jobs[m] EXCEPT !.status = "recorded", !.action = NoAction,
                                      !.error = "cancelled"]
    <2>1. jobs[m] \in Rows /\ Store(m, row) /\ GoodTable'
      BY <1>1, LiveRow, FinalizeCancellationGood, StagedAreMeetings
         DEF FinalizeCancellationClaim, HasCancelClaim, Statuses, GoodRow
    <2>2. row.status = "recorded"
      BY <2>1, StatusWritten
    <2> HIDE DEF row
    <2> QED
      BY <2>1, <2>2, MemberWritten, NotLive
  <1>2. CASE ForceSetStatus(m, "recorded", "cancelled")
    <2> DEFINE row == [jobs[m] EXCEPT !.status = "recorded", !.action = NoAction,
                                      !.error = "cancelled"]
    <2>1. jobs[m] \in Rows /\ Store(m, row)
      BY <1>2, LiveRow, StagedAreMeetings DEF ForceSetStatus, CanForceSetStatus, GoodRow
    <2>2. row.status = "recorded"
      BY <2>1, StatusWritten
    <2> HIDE DEF row
    <2>3. GoodTable'
      BY <1>2, ForceSetStatusGood, StagedAreMeetings DEF Statuses, Errors
    <2> QED
      BY <2>1, <2>2, <2>3, MemberWritten, NotLive
  <1> QED
    BY <1>1, <1>2 DEF BulkFinalize

\* A status that is forced: the member does not run any more.
LEMMA ForceEnds ==
    ASSUME GoodTable, NEW m \in StagedMeetings, NEW status \in {"recorded", "queued", "completed"},
           NEW error \in Errors, ForceSetStatus(m, status, error)
    PROVE  /\ GoodTable' /\ LiveMembers' = LiveMembers \ {m} /\ jobs'[m].status = status
           /\ \A n \in StagedMeetings : n # m => jobs'[n] = jobs[n]
  <1> DEFINE action == IF status = "recorded" THEN NoAction ELSE jobs[m].action
             row == [jobs[m] EXCEPT !.status = status, !.action = action, !.error = error]
  <1>1. jobs[m] \in Rows /\ Store(m, row)
    BY LiveRow, StagedAreMeetings DEF ForceSetStatus, CanForceSetStatus, GoodRow
  <1> HIDE DEF action
  <1>2. row.status = status
    BY <1>1, StatusWritten
  <1> HIDE DEF row
  <1>3. GoodTable'
    BY ForceSetStatusGood, StagedAreMeetings DEF Statuses
  <1> QED
    BY <1>1, <1>2, <1>3, MemberWritten, NotLive

\* update_job_status of a running member, and of one that fails.
LEMMA UpdateMarks ==
    ASSUME GoodTable, NEW m \in StagedMeetings, NEW status \in ActiveStatuses \cup {"failed"},
           NEW error \in Errors, UpdateStatus(m, status, error)
    PROVE  /\ GoodTable' /\ jobs'[m].status = status
           /\ status = "failed" => LiveMembers' = LiveMembers \ {m}
           /\ status # "failed" => LiveMembers' = LiveMembers \cup {m}
           /\ \A n \in StagedMeetings : n # m => jobs'[n] = jobs[n]
  <1> DEFINE kept == IF status = "failed" THEN error ELSE "none"
             action == IF status = "queued" THEN NoAction ELSE jobs[m].action
             row == [jobs[m] EXCEPT !.status = status, !.action = action, !.error = kept]
  <1>1. jobs[m] \in Rows /\ Store(m, row)
    BY LiveRow, StagedAreMeetings DEF UpdateStatus, CanUpdateStatus, GoodRow
  <1> HIDE DEF action, kept
  <1>2. row.status = status
    BY <1>1, StatusWritten
  <1> HIDE DEF row
  <1>3. GoodTable'
    BY UpdateStatusGood, StagedAreMeetings DEF Statuses, ActiveStatuses
  <1>4. status # "failed" => Live(row)
    BY <1>2 DEF Live
  <1> QED
    BY <1>1, <1>2, <1>3, <1>4, MemberWritten, NotLive

\* The first phase claims a queued job.
LEMMA ClaimStarts ==
    ASSUME GoodTable, NEW m \in StagedMeetings, ClaimQueuedJobForProcessing(m)
    PROVE  /\ GoodTable' /\ LiveMembers' = LiveMembers \cup {m}
           /\ \A n \in StagedMeetings : n # m => jobs'[n] = jobs[n]
  <1> DEFINE row == [jobs[m] EXCEPT !.status = "transcribing", !.error = "none"]
  <1>1. jobs[m] \in Rows /\ Store(m, row)
    BY LiveRow, StagedAreMeetings DEF ClaimQueuedJobForProcessing, Statuses, GoodRow
  <1>2. row.status = "transcribing"
    BY <1>1, StatusWritten
  <1> HIDE DEF row
  <1>3. GoodTable'
    BY ClaimQueuedGood, StagedAreMeetings
  <1>4. Live(row)
    BY <1>2 DEF Live, ActiveStatuses
  <1> QED
    BY <1>1, <1>3, <1>4, MemberWritten

\* A job that is given back as it was polled: only its error is written.
LEMMA ErrorWritten ==
    ASSUME GoodTable, NEW m \in StagedMeetings, jobs[m].status = "queued",
           Store(m, [jobs[m] EXCEPT !.error = "other"])
    PROVE  /\ GoodTable' /\ LiveMembers' = LiveMembers \ {m}
           /\ \A n \in StagedMeetings : n # m => jobs'[n] = jobs[n]
  <1> DEFINE row == [jobs[m] EXCEPT !.error = "other"]
  <1>1. GoodRow(jobs[m]) /\ jobs[m] \in Rows
    BY LiveRow, StagedAreMeetings DEF Statuses, GoodRow
  <1>2. row \in Rows /\ row.status = jobs[m].status /\ row.action = jobs[m].action
    BY <1>1 DEF Rows, Errors
  <1> HIDE DEF row
  <1>3. GoodRow(row)
    BY <1>1, <1>2 DEF GoodRow, Coherent
  <1>4. Store(m, row)
    BY DEF row
  <1>5. GoodTable'
    BY <1>3, <1>4, StoreGood, StagedAreMeetings
  <1> QED
    BY <1>2, <1>4, <1>5, MemberWritten, NotLive

\* A row whose meeting did not run is queued, or taken out of the queue.
LEMMA QueueChanges ==
    ASSUME GoodTable, NEW m \in StagedMeetings,
           \/ CancelQueuedJob(m)
           \/ \E i \in Intents, s \in Selections : QueueJob(m, i, s)
    PROVE  /\ GoodTable' /\ LiveMembers' = LiveMembers \ {m}
           /\ \A n \in StagedMeetings : n # m => jobs'[n] = jobs[n]
  <1>1. CASE CancelQueuedJob(m)
    <2> DEFINE row == [jobs[m] EXCEPT !.status = "recorded", !.action = NoAction,
                                      !.error = "cancelled"]
    <2>1. jobs[m] \in Rows /\ Store(m, row)
      BY <1>1, LiveRow, StagedAreMeetings DEF CancelQueuedJob, Statuses, GoodRow
    <2>2. row.status = "recorded"
      BY <2>1, StatusWritten
    <2> HIDE DEF row
    <2>3. GoodTable'
      BY <1>1, CancelQueuedGood, StagedAreMeetings
    <2> QED
      BY <2>1, <2>2, <2>3, MemberWritten, NotLive
  <1>2. CASE \E i \in Intents, s \in Selections : QueueJob(m, i, s)
    <2>1. PICK i \in Intents, s \in Selections : QueueJob(m, i, s)
      BY <1>2
    <2> DEFINE row == Requeued(jobs[m], Plain(i), s)
    <2>2. jobs[m] \in Rows /\ Store(m, row)
      BY <2>1, LiveRow, StagedAreMeetings DEF QueueJob, Statuses, GoodRow
    <2>3. row.status = "queued"
      BY <2>2 DEF Requeued, Rows
    <2> HIDE DEF row
    <2>4. GoodTable'
      BY <2>1, QueueJobGood, StagedAreMeetings
    <2> QED
      BY <2>2, <2>3, <2>4, MemberWritten, NotLive
  <1> QED
    BY <1>1, <1>2

\* A running job under a cancellation still counts as running.
LEMMA CancelKeepsRunning ==
    ASSUME GoodTable, NEW m \in StagedMeetings,
           ClaimActiveJobForCancellation(m, CHOOSE t \in Tokens : TRUE)
    PROVE  /\ GoodTable' /\ LiveMembers' = LiveMembers /\ m \in LiveMembers
           /\ \A n \in StagedMeetings : n # m => jobs'[n] = jobs[n]
  <1> DEFINE token == CHOOSE t \in Tokens : TRUE
             action == [kind |-> "cancel", status |-> jobs[m].status,
                        action |-> jobs[m].action, token |-> token]
             row == [jobs[m] EXCEPT !.status = "recording", !.action = action,
                                    !.error = "cancelling"]
  <1>1. token \in Tokens
    BY BulkAssumption
  <1>2. jobs[m].status \in ActiveStatuses /\ Store(m, row)
    BY DEF ClaimActiveJobForCancellation, CanClaimForCancellation
  <1>3. jobs[m] \in Rows /\ m \in LiveMembers
    BY <1>2, LiveRow, StagedAreMeetings DEF Statuses, GoodRow, LiveMembers, Live
  <1> HIDE DEF token
  <1>4. GoodTable'
    BY <1>1, ClaimCancellationGood, StagedAreMeetings DEF token
  <1>5. action.kind = "cancel"
    OBVIOUS
  <1> HIDE DEF action
  <1>6. row.status = "recording" /\ row.action = action
    BY <1>3, StatusWritten
  <1> HIDE DEF row
  <1>7. Live(row)
    BY <1>5, <1>6 DEF Live, HasCancelClaim
  <1> QED
    BY <1>2, <1>3, <1>4, <1>7, MemberWritten

\* What a step of someone else leaves of the invariant.
LEMMA OthersKeep ==
    ASSUME BulkInv, UNCHANGED <<work, bulk, checkpoint>>, GoodTable', LiveMembers' = LiveMembers,
           bulk.pc = "successful" /\ bulk.at \notin LiveMembers => jobs'[bulk.at] = jobs[bulk.at]
    PROVE  BulkInv' /\ StageFollowsRow
  <1>1. BulkTyped' /\ CohortInv'
    BY DEF BulkInv, BulkTyped, WorkTyped, CohortInv
  <1>2. RecordInv'
    BY DEF BulkInv, RecordInv
  <1>3. StageFollowsRow
    BY DEF BulkInv, RecordInv, StageFollowsRow
  <1> QED
    BY <1>1, <1>2, <1>3 DEF BulkInv

\* What users and the rest of the server do to the rows neither strands a member nor
\* touches the stage table beyond a cancellation.
LEMMA EveryoneElse ==
    ASSUME BulkInv,
           \/ Disturb \/ UNCHANGED bulkVars
           \/ \E m \in StagedMeetings :
                 UserCancelsRunning(m) \/ FlagFollows(m) \/ UserChangesQueued(m)
    PROVE  BulkInv' /\ StageFollowsRow
  <1>1. GoodTable /\ bulk \in Cohorts
    BY DEF BulkInv, BulkTyped
  <1>2. CASE Disturb \/ UNCHANGED bulkVars \/ \E m \in StagedMeetings : FlagFollows(m)
    <2>1. UNCHANGED <<jobs, work, bulk, checkpoint>>
      BY <1>2 DEF Disturb, FlagFollows, bulkVars
    <2>2. GoodTable' /\ LiveMembers' = LiveMembers
      BY <1>1, <2>1 DEF GoodTable, LiveMembers
    <2> QED
      BY <2>1, <2>2, OthersKeep
  <1>3. ASSUME NEW m \in StagedMeetings, UserCancelsRunning(m)
        PROVE  BulkInv' /\ StageFollowsRow
    <2>1. ClaimActiveJobForCancellation(m, CHOOSE t \in Tokens : TRUE)
          /\ UNCHANGED <<work, bulk, checkpoint>>
      BY <1>3 DEF UserCancelsRunning
    <2>2. /\ GoodTable' /\ LiveMembers' = LiveMembers /\ m \in LiveMembers
          /\ \A n \in StagedMeetings : n # m => jobs'[n] = jobs[n]
      BY <1>1, <2>1, CancelKeepsRunning
    <2>3. bulk.pc = "successful" => bulk.at \in StagedMeetings
      BY <1>1 DEF BulkInv, CohortInv, Cohorts
    <2> QED
      BY <2>1, <2>2, <2>3, OthersKeep
  <1>4. ASSUME NEW m \in StagedMeetings, UserChangesQueued(m)
        PROVE  BulkInv' /\ StageFollowsRow
    <2>1. /\ m \notin bulk.started /\ bulk.pc # "stopped"
          /\ CancelQueuedJob(m) \/ \E i \in Intents, s \in Selections : QueueJob(m, i, s)
          /\ UNCHANGED <<work, bulk, checkpoint>>
      BY <1>4 DEF UserChangesQueued
    <2>2. /\ GoodTable' /\ LiveMembers' = LiveMembers \ {m}
          /\ \A n \in StagedMeetings : n # m => jobs'[n] = jobs[n]
      BY <1>1, <2>1, QueueChanges
    <2>3. m \notin LiveMembers
      BY <2>1 DEF BulkInv, CohortInv
    <2>4. bulk.pc = "successful" => bulk.at \in StagedMeetings /\ bulk.at # m
      BY <1>1, <2>1 DEF BulkInv, CohortInv, Cohorts
    <2> QED
      BY <2>1, <2>2, <2>3, <2>4, OthersKeep
  <1> QED
    BY <1>2, <1>3, <1>4

\* A step of the worker that leaves the stage table and the results alone.
LEMMA WorkerMoves ==
    ASSUME BulkInv, UNCHANGED <<work, checkpoint>>, GoodTable', bulk' \in Cohorts, CohortInv',
           bulk.pc = "successful" => bulk'.pc # "successful",
           bulk'.pc # "successful",
           bulk'.active \subseteq bulk.active,
           bulk.pc \in Ended => bulk'.pc \in Ended,
           bulk.pc \in {"release", "drop"} =>
              bulk.at \notin bulk'.active \/ bulk'.pc \in Ended
    PROVE  BulkInv' /\ StageFollowsRow
  <1>1. BulkTyped'
    BY DEF BulkInv, BulkTyped, WorkTyped
  <1>2. RecordInv'
    BY DEF BulkInv, RecordInv
  <1>3. StageFollowsRow
    BY DEF BulkInv, RecordInv, StageFollowsRow
  <1> QED
    BY <1>1, <1>2, <1>3 DEF BulkInv

\* A place in the loop, its fields and those of the next one.
LEMMA PlaceMoves ==
    ASSUME bulk \in Cohorts, NEW pc \in {"phase"} \cup Working \cup Ended
    PROVE  /\ BulkGo(pc) => /\ bulk' \in Cohorts /\ bulk'.pc = pc /\ bulk'.at = bulk.at
                            /\ bulk'.phase = bulk.phase /\ bulk'.pending = bulk.pending
                            /\ bulk'.active = bulk.active /\ bulk'.started = bulk.started
           /\ BulkLeave => /\ bulk' \in Cohorts /\ bulk'.pc = "restore"
                           /\ bulk'.phase = bulk.phase /\ bulk'.pending = bulk.pending
                           /\ bulk'.active = bulk.active /\ bulk'.started = bulk.started
           /\ \A m : Restored(m) =>
                 /\ bulk' \in Cohorts /\ bulk'.pc = "restore"
                 /\ bulk'.phase = bulk.phase /\ bulk'.pending = bulk.pending
                 /\ bulk'.active = bulk.active /\ bulk'.started = bulk.started \ {m}
  <1>1. BulkGo(pc) => /\ bulk' \in Cohorts /\ bulk'.pc = pc /\ bulk'.at = bulk.at
                      /\ bulk'.phase = bulk.phase /\ bulk'.pending = bulk.pending
                      /\ bulk'.active = bulk.active /\ bulk'.started = bulk.started
    BY DEF BulkGo, Cohorts
  <1>2. BulkLeave => /\ bulk' \in Cohorts /\ bulk'.pc = "restore"
                     /\ bulk'.phase = bulk.phase /\ bulk'.pending = bulk.pending
                     /\ bulk'.active = bulk.active /\ bulk'.started = bulk.started
    BY DEF BulkLeave, Cohorts, Ended
  <1>3. ASSUME NEW m, Restored(m)
        PROVE  /\ bulk' \in Cohorts /\ bulk'.pc = "restore"
               /\ bulk'.phase = bulk.phase /\ bulk'.pending = bulk.pending
               /\ bulk'.active = bulk.active /\ bulk'.started = bulk.started \ {m}
    <2> DEFINE kept == bulk.started \ {m}
    <2>1. kept \in SUBSET StagedMeetings
      BY DEF Cohorts
    <2>2. bulk' = [bulk EXCEPT !.pc = "restore", !.started = kept, !.at = NoOwner]
      BY <1>3 DEF Restored, Cohorts
    <2> HIDE DEF kept
    <2>3. /\ bulk' \in Cohorts /\ bulk'.pc = "restore"
          /\ bulk'.phase = bulk.phase /\ bulk'.pending = bulk.pending
          /\ bulk'.active = bulk.active /\ bulk'.started = kept
      BY <2>1, <2>2 DEF Cohorts, Ended
    <2> QED
      BY <2>3 DEF kept
  <1> QED
    BY <1>1, <1>2, <1>3

\* The fields of the cohort after a member.
LEMMA AfterMoves ==
    ASSUME NEW next \in Cohorts, AfterMember(next)
    PROVE  /\ bulk' \in Cohorts /\ bulk'.pc \in {"restore", "next"}
           /\ bulk'.phase = next.phase /\ bulk'.active = next.active
           /\ bulk'.started = next.started
           /\ bulk'.pc = "next" => bulk'.pending = next.pending \ {bulk.at}
  <1> DEFINE left == next.pending \ {bulk.at}
  <1>1. left \in SUBSET StagedMeetings
    BY DEF Cohorts
  <1>2. \/ bulk' = [next EXCEPT !.pc = "restore", !.at = NoOwner]
        \/ bulk' = [next EXCEPT !.pc = "next", !.at = NoOwner, !.pending = left]
    BY DEF AfterMember, BulkMember, Cohorts
  <1> HIDE DEF left
  <1>3. /\ bulk' \in Cohorts /\ bulk'.pc \in {"restore", "next"}
        /\ bulk'.phase = next.phase /\ bulk'.active = next.active
        /\ bulk'.started = next.started
        /\ bulk'.pc = "next" => bulk'.pending = left
    BY <1>1, <1>2 DEF Cohorts, Ended, Working
  <1> QED
    BY <1>3 DEF left

\* A step that writes no row leaves the rows and who runs.
LEMMA RowsStay ==
    ASSUME GoodTable, UNCHANGED jobs
    PROVE  GoodTable' /\ LiveMembers' = LiveMembers
  BY DEF GoodTable, LiveMembers

\* A phase begins with the members that are still active (the loop over the phases
\* of _run_bulk_cohort).
LEMMA BeginPhaseStep ==
    ASSUME BulkInv, BeginPhase
    PROVE  BulkInv' /\ StageFollowsRow
  <1>1. GoodTable /\ bulk \in Cohorts /\ CohortInv /\ bulk.pc = "phase"
        /\ UNCHANGED <<jobs, work, checkpoint>>
    BY DEF BulkInv, BulkTyped, BeginPhase, BulkAt
  <1>2. GoodTable' /\ LiveMembers' = LiveMembers
    BY <1>1, RowsStay
  <1>3. /\ bulk' \in Cohorts /\ bulk'.phase = bulk.phase /\ bulk'.active = bulk.active
        /\ \/ bulk.phase = 5 /\ bulk'.pc = "restore" /\ bulk'.started = {}
           \/ bulk'.pc = "restore" /\ bulk'.started = bulk.started
           \/ /\ bulk.phase # 5 /\ bulk'.pc = "next" /\ bulk'.started = bulk.started
              /\ bulk'.pending = bulk.active
    <2> DEFINE none == {}
    <2>1. none \in SUBSET StagedMeetings /\ bulk.active \in SUBSET StagedMeetings
      BY <1>1 DEF Cohorts
    <2>2. bulk.phase > 4 => bulk.phase = 5
      BY <1>1 DEF Cohorts
    <2>3. \/ bulk.phase = 5 /\ bulk' = [bulk EXCEPT !.pc = "restore", !.started = none]
          \/ bulk' = [bulk EXCEPT !.pc = "restore"]
          \/ bulk.phase # 5 /\ bulk' = [bulk EXCEPT !.pc = "next", !.pending = bulk.active]
      BY <2>2 DEF BeginPhase, BulkPhase, LastPhase
    <2>4. none = {}
      OBVIOUS
    <2> HIDE DEF none
    <2>5. CASE bulk' = [bulk EXCEPT !.pc = "restore", !.started = none] /\ bulk.phase = 5
      BY <1>1, <2>1, <2>4, <2>5 DEF Cohorts, Ended
    <2>6. CASE bulk' = [bulk EXCEPT !.pc = "restore"]
      BY <1>1, <2>6 DEF Cohorts, Ended
    <2>7. CASE bulk' = [bulk EXCEPT !.pc = "next", !.pending = bulk.active] /\ bulk.phase # 5
      BY <1>1, <2>1, <2>7 DEF Cohorts, Working
    <2> QED
      BY <2>3, <2>5, <2>6, <2>7
  <1>4. CohortInv'
    BY <1>1, <1>2, <1>3 DEF CohortInv, Cohorts, Working, OnMember
  <1> QED
    BY <1>1, <1>2, <1>3, <1>4, WorkerMoves DEF Ended

\* The first pending member's stage is claimed: it is not one that failed.
LEMMA ClaimMemberStep ==
    ASSUME BulkInv, BulkAt("next"), NEW m \in StagedMeetings, IsFirstPending(m),
           bulk' = [bulk EXCEPT !.pc = "checks", !.at = m],
           ClaimReady(m, BulkPhase, Session), UNCHANGED <<jobs, checkpoint>>
    PROVE  BulkInv' /\ StageFollowsRow
  <1>1. GoodTable /\ bulk \in Cohorts /\ CohortInv /\ RecordInv /\ bulk.pc = "next" /\ WorkTyped
    BY DEF BulkInv, BulkTyped, BulkAt
  <1>2. GoodTable' /\ LiveMembers' = LiveMembers
    BY <1>1, RowsStay
  <1>3. m \in bulk.pending /\ m \in bulk.active /\ bulk.phase \in 1..4
    BY <1>1 DEF IsFirstPending, CohortInv, Working
  <1>4. /\ bulk' \in Cohorts /\ bulk'.pc = "checks" /\ bulk'.at = m /\ bulk'.phase = bulk.phase
        /\ bulk'.pending = bulk.pending /\ bulk'.active = bulk.active
        /\ bulk'.started = bulk.started
    BY <1>1 DEF Cohorts, Working, OnMember
  <1>5. CohortInv'
    BY <1>1, <1>2, <1>3, <1>4 DEF CohortInv, Cohorts, Working, OnMember
  <1> DEFINE s == bulk.phase
             item == [status |-> "running", owner |-> Session,
                      attempt |-> work[m][s].attempt + 1, leased |-> TRUE]
  <1>6. s \in StageNumbers
    BY <1>3 DEF StageNumbers
  <1>7. work[m][s] \in Items /\ SetItem(m, s, item)
    BY <1>1, <1>6 DEF ClaimReady, BulkPhase, WorkTyped
  <1>8. work[m][s].attempt + 1 \in Nat /\ Session \in Sessions
    BY <1>7, BulkAssumption DEF Items
  <1>9. item \in Items /\ item.status = "running"
    BY <1>8 DEF Items, StageStatuses
  <1> HIDE DEF item, s
  <1>10. /\ WorkTyped' /\ work'[m][s] = item
         /\ \A n \in StagedMeetings, t \in StageNumbers :
               n # m \/ t # s => work'[n][t] = work[n][t]
    BY <1>1, <1>6, <1>7, <1>9, ItemSet
  <1>11. \A n \in StagedMeetings, t \in StageNumbers :
            work'[n][t].status # "running" => work'[n][t] = work[n][t]
    BY <1>9, <1>10
  <1>12. RecordInv'
    BY <1>1, <1>4, <1>11 DEF RecordInv, Cohorts, Ended
  <1>13. \A p \in StageNumbers : work[m][p].status \notin {"failed", "cancel_requested"}
    BY <1>1, <1>3 DEF RecordInv, Ended
  <1>14. StageFollowsRow
    <2> SUFFICES ASSUME NEW n \in StagedMeetings, NEW t \in StageNumbers
                 PROVE  /\ work'[n][t].status = "completed" => checkpoint'[n] >= t
                        /\ work'[n][t].status = "running" /\ work[n][t].status = "queued" => n = m
                        /\ work[n][t].status = "running" /\ work'[n][t].status = "completed" =>
                              FALSE
      BY <1>13 DEF StageFollowsRow
    <2>1. work'[n][t].status = "completed" => checkpoint'[n] >= t
      BY <1>12 DEF RecordInv
    <2>2. work'[n][t].status = "running" /\ work[n][t].status = "queued" => n = m
      BY <1>10
    <2>3. work[n][t].status = "running" /\ work'[n][t].status = "completed" => FALSE
      BY <1>11
    <2> QED
      BY <2>1, <2>2, <2>3
  <1>15. BulkTyped'
    BY <1>2, <1>4, <1>10 DEF BulkInv, BulkTyped
  <1> QED
    BY <1>5, <1>12, <1>14, <1>15 DEF BulkInv

\* The cohort leaves its loop, at whatever place, and writes nothing.
LEMMA LeaveStep ==
    ASSUME BulkInv, BulkLeave, UNCHANGED <<jobs, work, checkpoint>>, bulk.pc \notin {"over", "stopped"}
    PROVE  BulkInv' /\ StageFollowsRow
  <1>1. GoodTable /\ bulk \in Cohorts /\ CohortInv
    BY DEF BulkInv, BulkTyped
  <1>2. GoodTable' /\ LiveMembers' = LiveMembers
    BY <1>1, RowsStay
  <1>3. /\ bulk' \in Cohorts /\ bulk'.pc = "restore"
        /\ bulk'.active = bulk.active /\ bulk'.started = bulk.started
    BY <1>1, PlaceMoves DEF Ended
  <1>4. CohortInv'
    BY <1>1, <1>2, <1>3 DEF CohortInv, Cohorts, Working, OnMember
  <1> QED
    BY <1>2, <1>3, <1>4, WorkerMoves DEF Ended

\* The next member of a phase, or the end of the phase.
LEMMA NextMemberStep ==
    ASSUME BulkInv, NextMember
    PROVE  BulkInv' /\ StageFollowsRow
  <1>1. GoodTable /\ bulk \in Cohorts /\ CohortInv /\ bulk.pc = "next"
        /\ UNCHANGED <<jobs, checkpoint>>
    BY DEF BulkInv, BulkTyped, NextMember, BulkAt
  <1>2. CASE /\ bulk.pending = {} /\ bulk' = [bulk EXCEPT !.pc = "phase", !.phase = @ + 1]
             /\ UNCHANGED work
    <2>1. GoodTable' /\ LiveMembers' = LiveMembers
      BY <1>1, RowsStay
    <2>2. bulk.phase \in 1..4
      BY <1>1 DEF CohortInv, Working
    <2>3. bulk.phase + 1 \in 2..5
      BY <2>2
    <2>4. /\ bulk' \in Cohorts /\ bulk'.pc = "phase" /\ bulk'.phase = bulk.phase + 1
          /\ bulk'.active = bulk.active /\ bulk'.started = bulk.started
      <3> DEFINE later == bulk.phase + 1
      <3>1. later \in 1..5 /\ bulk' = [bulk EXCEPT !.pc = "phase", !.phase = later]
        BY <1>2, <2>3
      <3> HIDE DEF later
      <3>2. /\ bulk' \in Cohorts /\ bulk'.pc = "phase" /\ bulk'.phase = later
            /\ bulk'.active = bulk.active /\ bulk'.started = bulk.started
        BY <1>1, <3>1 DEF Cohorts
      <3> QED
        BY <3>2 DEF later
    <2>5. CohortInv'
      BY <1>1, <1>2, <2>1, <2>2, <2>4 DEF CohortInv, Cohorts, Working, OnMember
    <2> QED
      BY <1>1, <1>2, <2>1, <2>4, <2>5, WorkerMoves DEF Ended
  <1>3. CASE BulkLeave /\ UNCHANGED work
    BY <1>1, <1>3, LeaveStep
  <1>4. ASSUME NEW m \in StagedMeetings, IsFirstPending(m),
               bulk' = [bulk EXCEPT !.pc = "checks", !.at = m],
               ClaimReady(m, BulkPhase, Session)
        PROVE  BulkInv' /\ StageFollowsRow
    BY <1>1, <1>4, ClaimMemberStep DEF BulkAt
  <1> QED
    BY <1>2, <1>3, <1>4 DEF NextMember

\* The member's row is written and it does not run any more: its run failed.
LEMMA UnsuccessfulStep ==
    ASSUME BulkInv, bulk.pc \in {"checks", "take", "run"}, Unsuccessful,
           UNCHANGED <<work, checkpoint>>, GoodTable', LiveMembers' = LiveMembers \ {bulk.at}
    PROVE  BulkInv' /\ StageFollowsRow
  <1>1. bulk \in Cohorts /\ CohortInv
    BY DEF BulkInv, BulkTyped
  <1>2. "unsuccessful" \in {"phase"} \cup Working \cup Ended
    BY DEF Working, OnMember
  <1>3. /\ bulk' \in Cohorts /\ bulk'.pc = "unsuccessful" /\ bulk'.at = bulk.at
        /\ bulk'.phase = bulk.phase /\ bulk'.pending = bulk.pending
        /\ bulk'.active = bulk.active /\ bulk'.started = bulk.started
    BY <1>1, <1>2, PlaceMoves DEF Unsuccessful
  <1>4. CohortInv'
    BY <1>1, <1>3 DEF CohortInv, Cohorts, Working, OnMember
  <1> QED
    BY <1>3, <1>4, WorkerMoves DEF Ended

\* A member that was cancelled or dropped meanwhile begins no stage.
LEMMA CheckMemberStep ==
    ASSUME BulkInv, CheckMember
    PROVE  BulkInv' /\ StageFollowsRow
  <1>1. GoodTable /\ bulk \in Cohorts /\ CohortInv /\ bulk.pc = "checks"
        /\ UNCHANGED <<work, checkpoint>>
    BY DEF BulkInv, BulkTyped, CheckMember, BulkAt
  <1>2. bulk.at \in bulk.pending /\ bulk.at \in bulk.active /\ bulk.at \in StagedMeetings
    BY <1>1 DEF CohortInv, Cohorts, Working, OnMember
  <1>3. CASE BulkFinalize(BulkMember) /\ Unsuccessful
    BY <1>1, <1>2, <1>3, FinalizeEnds, UnsuccessfulStep DEF BulkMember
  <1>4. CASE UpdateStatus(BulkMember, "failed", "other") /\ Unsuccessful
    <2>1. "failed" \in ActiveStatuses \cup {"failed"} /\ "other" \in Errors
      BY DEF Errors
    <2>2. GoodTable' /\ LiveMembers' = LiveMembers \ {bulk.at}
      BY <1>1, <1>2, <1>4, <2>1, UpdateMarks DEF BulkMember
    <2> QED
      BY <1>1, <1>4, <2>2, UnsuccessfulStep
  <1>5. CASE bulk' = [bulk EXCEPT !.pc = "take", !.started = @ \cup {BulkMember}] /\ UNCHANGED jobs
    <2>1. GoodTable' /\ LiveMembers' = LiveMembers
      BY <1>1, <1>5, RowsStay
    <2> DEFINE more == bulk.started \cup {bulk.at}
    <2>2. more \in SUBSET StagedMeetings /\ bulk' = [bulk EXCEPT !.pc = "take", !.started = more]
      BY <1>1, <1>2, <1>5 DEF BulkMember, Cohorts
    <2>3. more = bulk.started \cup {bulk.at}
      OBVIOUS
    <2> HIDE DEF more
    <2>4. /\ bulk' \in Cohorts /\ bulk'.pc = "take" /\ bulk'.phase = bulk.phase
          /\ bulk'.at = bulk.at /\ bulk'.pending = bulk.pending /\ bulk'.active = bulk.active
          /\ bulk'.started = more
      BY <1>1, <2>2 DEF Cohorts, Working, OnMember
    <2>5. CohortInv'
      BY <1>1, <1>2, <2>1, <2>3, <2>4 DEF CohortInv, Cohorts, Working, OnMember
    <2> QED
      BY <1>1, <2>1, <2>4, <2>5, WorkerMoves DEF Ended
  <1> QED
    BY <1>3, <1>4, <1>5 DEF CheckMember

\* The member runs: in the first phase it is the only one to.
LEMMA RunStarts ==
    ASSUME BulkInv, bulk.pc = "take", BulkGo("run"), UNCHANGED <<work, checkpoint>>, GoodTable',
           \/ bulk.phase = 1 /\ LiveMembers' = LiveMembers \cup {bulk.at}
           \/ bulk.phase > 1 /\ LiveMembers' = LiveMembers /\ bulk.at \in LiveMembers
    PROVE  BulkInv' /\ StageFollowsRow
  <1>1. bulk \in Cohorts /\ CohortInv
    BY DEF BulkInv, BulkTyped
  <1>2. "run" \in {"phase"} \cup Working \cup Ended
    BY DEF Working, OnMember
  <1>3. /\ bulk' \in Cohorts /\ bulk'.pc = "run" /\ bulk'.at = bulk.at
        /\ bulk'.phase = bulk.phase /\ bulk'.pending = bulk.pending
        /\ bulk'.active = bulk.active /\ bulk'.started = bulk.started
    BY <1>1, <1>2, PlaceMoves
  <1>4. bulk.at \in bulk.pending /\ bulk.at \in bulk.started
    BY <1>1 DEF CohortInv, OnMember
  <1>5. CohortInv'
    BY <1>1, <1>3, <1>4 DEF CohortInv, Cohorts, Working, OnMember
  <1> QED
    BY <1>3, <1>5, WorkerMoves DEF Ended

\* The stage of a member is taken, with its row when it is the first.
LEMMA TakeMemberStep ==
    ASSUME BulkInv, TakeMember
    PROVE  BulkInv' /\ StageFollowsRow
  <1>1. GoodTable /\ bulk \in Cohorts /\ CohortInv /\ bulk.pc = "take"
        /\ UNCHANGED <<work, checkpoint>>
    BY DEF BulkInv, BulkTyped, TakeMember, BulkAt
  <1>2. bulk.at \in bulk.pending /\ bulk.at \in StagedMeetings
    BY <1>1 DEF CohortInv, Cohorts, Working, OnMember
  <1>3. bulk.phase = 1 => bulk.at \notin LiveMembers
    BY <1>1, <1>2 DEF CohortInv
  <1>4. CASE bulk.phase = 1 /\ ClaimQueuedJobForProcessing(bulk.at) /\ BulkGo("run")
    BY <1>1, <1>2, <1>4, ClaimStarts, RunStarts
  <1>5. CASE /\ bulk.phase = 1 /\ jobs[bulk.at].status = "queued" /\ Unsuccessful
             /\ Store(bulk.at, [jobs[bulk.at] EXCEPT !.error = "other"])
    BY <1>1, <1>2, <1>5, ErrorWritten, UnsuccessfulStep
  <1>6. CASE bulk.at \notin LiveMembers /\ Unsuccessful /\ UNCHANGED jobs
    <2>1. GoodTable' /\ LiveMembers' = LiveMembers \ {bulk.at}
      BY <1>1, <1>6, RowsStay
    <2> QED
      BY <1>1, <1>6, <2>1, UnsuccessfulStep
  <1>7. CASE BulkFinalize(bulk.at) /\ Unsuccessful
    BY <1>1, <1>2, <1>7, FinalizeEnds, UnsuccessfulStep
  <1>8. CASE /\ bulk.phase > 1 /\ ~BulkRequested(bulk.at) /\ UNCHANGED jobs
             /\ BulkGo(IF jobs[bulk.at].status \in ActiveStatuses THEN "run" ELSE "unsuccessful")
    <2>1. GoodTable' /\ LiveMembers' = LiveMembers
      BY <1>1, <1>8, RowsStay
    <2>2. bulk.at \in LiveMembers <=> jobs[bulk.at].status \in ActiveStatuses
      BY <1>2, <1>8 DEF LiveMembers, Live, BulkRequested
    <2>3. CASE bulk.at \in LiveMembers
      BY <1>1, <1>8, <2>1, <2>2, <2>3, RunStarts
    <2>4. CASE bulk.at \notin LiveMembers
      BY <1>6, <1>8, <2>2, <2>4 DEF Unsuccessful
    <2> QED
      BY <2>3, <2>4
  <1> QED
    BY <1>3, <1>4, <1>5, <1>6, <1>7, <1>8 DEF TakeMember, BulkMember, BulkPhase

\* The run of a member begins under its claim.
LEMMA MarkMemberStep ==
    ASSUME BulkInv, MarkMember
    PROVE  BulkInv' /\ StageFollowsRow
  <1>1. GoodTable /\ bulk \in Cohorts /\ CohortInv /\ bulk.pc = "run"
        /\ UNCHANGED <<work, bulk, checkpoint>>
    BY DEF BulkInv, BulkTyped, MarkMember, BulkAt
  <1>2. bulk.at \in StagedMeetings /\ bulk.at \in LiveMembers
    BY <1>1 DEF CohortInv, LiveMembers
  <1>3. PICK status \in ActiveStatuses : UpdateStatus(bulk.at, status, "none")
    BY DEF MarkMember, BulkMember
  <1>4. status # "failed" /\ status \in ActiveStatuses \cup {"failed"} /\ "none" \in Errors
    BY DEF ActiveStatuses, Errors
  <1>5. GoodTable' /\ LiveMembers' = LiveMembers \cup {bulk.at}
    BY <1>1, <1>2, <1>3, <1>4, UpdateMarks
  <1> QED
    BY <1>1, <1>2, <1>5, OthersKeep

\* A run that fails or is cancelled ends the row of its member before its stage.
LEMMA RunEndsBadlyStep ==
    ASSUME BulkInv, RunEndsBadly
    PROVE  BulkInv' /\ StageFollowsRow
  <1>1. GoodTable /\ bulk \in Cohorts /\ CohortInv /\ bulk.pc = "run" /\ Unsuccessful
        /\ UNCHANGED <<work, checkpoint>>
    BY DEF BulkInv, BulkTyped, RunEndsBadly, BulkAt
  <1>2. bulk.at \in StagedMeetings
    BY <1>1 DEF CohortInv, LiveMembers
  <1>3. GoodTable' /\ LiveMembers' = LiveMembers \ {bulk.at}
    <2>1. {"other", "none"} \subseteq Errors
      BY DEF Errors
    <2>2. CASE BulkFinalize(bulk.at)
      BY <1>1, <1>2, <2>2, FinalizeEnds
    <2>3. CASE UpdateStatus(bulk.at, "failed", "other")
      <3>1. "failed" \in ActiveStatuses \cup {"failed"}
        OBVIOUS
      <3> QED
        BY <1>1, <1>2, <2>1, <2>3, <3>1, UpdateMarks
    <2>4. CASE ForceSetStatus(bulk.at, "recorded", "none")
      BY <1>1, <1>2, <2>1, <2>4, ForceEnds
    <2> QED
      BY <2>2, <2>3, <2>4 DEF RunEndsBadly, BulkMember
  <1> QED
    BY <1>1, <1>3, UnsuccessfulStep

\* A run that succeeds has the checkpoint of its stage, and the last one completes
\* the row.
LEMMA RunEndsWellStep ==
    ASSUME BulkInv, RunEndsWell
    PROVE  BulkInv' /\ StageFollowsRow
  <1>1. GoodTable /\ bulk \in Cohorts /\ CohortInv /\ RecordInv /\ bulk.pc = "run"
        /\ UNCHANGED work /\ WorkTyped /\ checkpoint \in [StagedMeetings -> 0..4]
    BY DEF BulkInv, BulkTyped, RunEndsWell, BulkAt
  <1>2. bulk.at \in StagedMeetings /\ bulk.at \in LiveMembers /\ bulk.phase \in 1..4
    BY <1>1 DEF CohortInv, LiveMembers, Working, OnMember
  <1>3. "successful" \in {"phase"} \cup Working \cup Ended
    BY DEF Working, OnMember
  <1>4. /\ bulk' \in Cohorts /\ bulk'.pc = "successful" /\ bulk'.at = bulk.at
        /\ bulk'.phase = bulk.phase /\ bulk'.pending = bulk.pending
        /\ bulk'.active = bulk.active /\ bulk'.started = bulk.started
    BY <1>1, <1>3, PlaceMoves DEF RunEndsWell
  <1> DEFINE reached == IF checkpoint[bulk.at] < bulk.phase THEN bulk.phase
                        ELSE checkpoint[bulk.at]
  <1>5. /\ reached \in 0..4 /\ reached >= bulk.phase /\ reached >= checkpoint[bulk.at]
        /\ checkpoint' = [checkpoint EXCEPT ![bulk.at] = reached]
    BY <1>1, <1>2 DEF RunEndsWell, BulkMember, BulkPhase
  <1> HIDE DEF reached
  <1>6. /\ checkpoint' \in [StagedMeetings -> 0..4] /\ checkpoint'[bulk.at] >= bulk.phase
        /\ \A m \in StagedMeetings : checkpoint'[m] >= checkpoint[m]
    BY <1>1, <1>2, <1>5
  <1>7. /\ GoodTable'
        /\ bulk.phase = 4 => LiveMembers' = LiveMembers \ {bulk.at} /\ jobs'[bulk.at].status = "completed"
        /\ bulk.phase # 4 => LiveMembers' = LiveMembers
    <2>1. CASE bulk.phase = 4
      <3>1. ForceSetStatus(bulk.at, "completed", "none") /\ "none" \in Errors
        BY <2>1 DEF RunEndsWell, BulkMember, BulkPhase, LastPhase, Errors
      <3> QED
        BY <1>1, <1>2, <2>1, <3>1, ForceEnds
    <2>2. CASE bulk.phase # 4
      <3>1. UNCHANGED jobs
        BY <2>2 DEF RunEndsWell, BulkPhase, LastPhase
      <3> QED
        BY <1>1, <2>2, <3>1, RowsStay
    <2> QED
      BY <2>1, <2>2
  <1>8. CohortInv'
    BY <1>1, <1>2, <1>4, <1>7 DEF CohortInv, Cohorts, Working, OnMember
  <1>9. \A m \in StagedMeetings, s \in StageNumbers :
           work[m][s].status = "completed" => checkpoint'[m] >= s
    <2> SUFFICES ASSUME NEW m \in StagedMeetings, NEW s \in StageNumbers,
                        work[m][s].status = "completed"
                 PROVE  checkpoint'[m] >= s
      OBVIOUS
    <2>1. checkpoint[m] >= s /\ checkpoint[m] \in 0..4 /\ checkpoint'[m] \in 0..4
      BY <1>1, <1>6 DEF RecordInv
    <2> QED
      BY <1>6, <2>1 DEF StageNumbers
  <1>10. \A m \in bulk.active, s \in StageNumbers :
            work[m][s].status \notin {"failed", "cancel_requested"}
    BY <1>1 DEF RecordInv, Ended
  <1>11. RecordInv'
    BY <1>1, <1>2, <1>4, <1>6, <1>7, <1>9, <1>10 DEF RecordInv
  <1>12. StageFollowsRow
    BY <1>1, <1>9 DEF StageFollowsRow
  <1>13. BulkTyped'
    BY <1>1, <1>4, <1>6, <1>7 DEF BulkTyped, WorkTyped
  <1> QED
    BY <1>8, <1>11, <1>12, <1>13 DEF BulkInv

\* An item of which only the status, or the claim, is written.
LEMMA ItemFields ==
    ASSUME NEW item \in Items, NEW status \in StageStatuses
    PROVE  /\ [item EXCEPT !.status = status] \in Items
           /\ [item EXCEPT !.status = status].status = status
           /\ Unleased(item) \in Items /\ Unleased(item).status = item.status
  BY DEF Items, Unleased

\* A step that records in the stage table, of the member at hand, something that
\* is neither a claim nor a result, and goes where no failed stage is followed.
LEMMA RecordMoves ==
    ASSUME BulkInv, UNCHANGED <<jobs, checkpoint>>, WorkTyped', bulk' \in Cohorts, CohortInv',
           bulk.pc \in {"unsuccessful", "release"},
           \/ bulk'.pc \in {"release", "drop"} /\ bulk'.at = bulk.at
           \/ bulk'.pc \in Ended,
           bulk'.active = bulk.active,
           \A m \in StagedMeetings, s \in StageNumbers :
              \/ work'[m][s].status = work[m][s].status
              \/ m = bulk.at /\ work'[m][s].status \in {"failed", "cancel_requested"}
    PROVE  BulkInv' /\ StageFollowsRow
  <1>1. BulkTyped'
    BY RowsStay DEF BulkInv, BulkTyped
  <1>2. \A m \in StagedMeetings, s \in StageNumbers :
           work'[m][s].status \in {"completed", "running"} =>
              work'[m][s].status = work[m][s].status
    OBVIOUS
  <1>3. \A m \in StagedMeetings, s \in StageNumbers :
           work'[m][s].status = "completed" => checkpoint'[m] >= s
    BY <1>2 DEF BulkInv, RecordInv
  <1>4. bulk'.pc # "successful" /\ bulk.pc \notin Ended /\ bulk.active \subseteq StagedMeetings
    BY DEF Ended, BulkInv, BulkTyped, Cohorts
  <1>5. RecordInv'
    BY <1>3, <1>4 DEF BulkInv, RecordInv
  <1>6. StageFollowsRow
    BY <1>2, <1>3 DEF StageFollowsRow
  <1> QED
    BY <1>1, <1>5, <1>6 DEF BulkInv

\* The stage that succeeded is on disk, and its meeting was not given up.
LEMMA RecordSuccessStep ==
    ASSUME BulkInv, RecordSuccess
    PROVE  BulkInv' /\ StageFollowsRow
  <1>1. /\ GoodTable /\ bulk \in Cohorts /\ CohortInv /\ RecordInv /\ bulk.pc = "successful"
        /\ WorkTyped /\ UNCHANGED <<jobs, checkpoint>>
    BY DEF BulkInv, BulkTyped, RecordSuccess, BulkAt
  <1> DEFINE m == bulk.at
             s == bulk.phase
  <1>2. m \in StagedMeetings /\ m \in bulk.pending /\ m \in bulk.started /\ s \in StageNumbers
    BY <1>1 DEF CohortInv, Working, OnMember, Cohorts, StageNumbers
  <1>3. CASE BulkLeave /\ UNCHANGED work
    BY <1>1, <1>3, LeaveStep
  <1>4. CASE /\ Finish(m, s, Session, work[m][s].attempt, "completed") /\ AfterMember(bulk)
    <2> DEFINE item == [work[m][s] EXCEPT !.status = "completed"]
    <2>1. work[m][s] \in Items /\ "completed" \in StageStatuses /\ SetItem(m, s, item)
      BY <1>1, <1>2, <1>4 DEF Finish, WorkTyped, StageStatuses
    <2>2. item \in Items /\ item.status = "completed"
      BY <2>1, ItemFields
    <2> HIDE DEF item
    <2>3. checkpoint[m] >= s /\ (m \in LiveMembers \/ jobs[m].status = "completed")
      BY <1>1 DEF RecordInv
    <2>4. /\ bulk' \in Cohorts /\ bulk'.pc \in {"restore", "next"}
          /\ bulk'.phase = bulk.phase /\ bulk'.active = bulk.active
          /\ bulk'.started = bulk.started
          /\ bulk'.pc = "next" => bulk'.pending = bulk.pending \ {bulk.at}
      BY <1>1, <1>4, AfterMoves
    <2>5. GoodTable' /\ LiveMembers' = LiveMembers
      BY <1>1, RowsStay
    <2>6. CohortInv'
      BY <1>1, <1>2, <2>4, <2>5 DEF CohortInv, Cohorts, Working, OnMember
    <2> HIDE DEF m, s
    <2>7. /\ WorkTyped' /\ work'[m][s] = item
          /\ \A n \in StagedMeetings, t \in StageNumbers :
                n # m \/ t # s => work'[n][t] = work[n][t]
      BY <1>1, <1>2, <2>1, <2>2, ItemSet
    <2>8. \A n \in StagedMeetings, t \in StageNumbers :
             work'[n][t].status # "completed" => work'[n][t] = work[n][t]
      BY <2>2, <2>7
    <2>9. \A n \in StagedMeetings, t \in StageNumbers :
             work'[n][t].status = "completed" => checkpoint'[n] >= t
      BY <1>1, <2>3, <2>7 DEF RecordInv
    <2>10. \A n \in StagedMeetings, t \in StageNumbers :
              work'[n][t].status \in {"failed", "cancel_requested"} => n \notin bulk'.active
      BY <1>1, <2>4, <2>8 DEF RecordInv, Ended
    <2>11. bulk'.pc # "successful" /\ bulk'.active \subseteq StagedMeetings
      BY <2>4 DEF Cohorts
    <2>12. RecordInv'
      BY <2>9, <2>10, <2>11 DEF RecordInv
    <2>13. \A n \in StagedMeetings, t \in StageNumbers :
              work[n][t].status = "running" /\ work'[n][t].status = "completed" => n = m
      BY <2>7
    <2>14. m \in LiveMembers => jobs[m].status \in ActiveStatuses \/ HasCancelClaim(jobs[m])
      BY DEF LiveMembers, Live
    <2>15. StageFollowsRow
      <3> SUFFICES ASSUME NEW n \in StagedMeetings, NEW t \in StageNumbers
                   PROVE  /\ work'[n][t].status = "completed" => checkpoint'[n] >= t
                          /\ ~(work'[n][t].status = "running" /\ work[n][t].status = "queued")
                          /\ work[n][t].status = "running" /\ work'[n][t].status = "completed" =>
                                \/ jobs[n].status \in ActiveStatuses \cup {"completed"}
                                \/ HasCancelClaim(jobs[n])
        BY DEF StageFollowsRow
      <3>1. ~(work'[n][t].status = "running" /\ work[n][t].status = "queued")
        BY <2>8
      <3> QED
        BY <2>3, <2>9, <2>13, <2>14, <3>1
    <2> QED
      BY <1>1, <2>4, <2>5, <2>6, <2>7, <2>12, <2>15 DEF BulkInv, BulkTyped
  <1> QED
    BY <1>3, <1>4 DEF RecordSuccess, BulkMember, BulkPhase

\* A cancellation asks only of the items of its meeting, and only that
\* (request_cancel).
LEMMA CancelledItems ==
    ASSUME WorkTyped, NEW m \in StagedMeetings, RequestCancel(m)
    PROVE  /\ WorkTyped'
           /\ \A n \in StagedMeetings, t \in StageNumbers :
                 \/ work'[n][t].status = work[n][t].status
                 \/ n = m /\ work'[n][t].status = "cancel_requested"
  <1> DEFINE row == [s \in StageNumbers |->
                       IF work[m][s].status \in {"queued", "running"}
                       THEN [work[m][s] EXCEPT !.status = "cancel_requested"]
                       ELSE work[m][s]]
  <1>1. work' = [work EXCEPT ![m] = row]
    BY DEF RequestCancel, WorkTyped
  <1>2. ASSUME NEW s \in StageNumbers
        PROVE  /\ row[s] \in Items
               /\ row[s].status = work[m][s].status \/ row[s].status = "cancel_requested"
    <2>1. work[m][s] \in Items /\ "cancel_requested" \in StageStatuses
      BY DEF WorkTyped, StageStatuses
    <2>2. /\ [work[m][s] EXCEPT !.status = "cancel_requested"] \in Items
          /\ [work[m][s] EXCEPT !.status = "cancel_requested"].status = "cancel_requested"
      BY <2>1, ItemFields
    <2> QED
      BY <2>1, <2>2
  <1>3. row \in [StageNumbers -> Items]
    BY <1>2
  <1> HIDE DEF row
  <1> QED
    BY <1>1, <1>2, <1>3 DEF WorkTyped

\* A failed run: its stage is given up before the member is.
LEMMA RecordFailureStep ==
    ASSUME BulkInv, RecordFailure
    PROVE  BulkInv' /\ StageFollowsRow
  <1>1. /\ GoodTable /\ bulk \in Cohorts /\ CohortInv /\ bulk.pc = "unsuccessful"
        /\ WorkTyped /\ UNCHANGED <<jobs, checkpoint>>
    BY DEF BulkInv, BulkTyped, RecordFailure, BulkAt
  <1> DEFINE m == bulk.at
             s == bulk.phase
  <1>2. m \in StagedMeetings /\ s \in StageNumbers
    BY <1>1 DEF CohortInv, Working, OnMember, Cohorts, StageNumbers
  <1>3. CASE BulkLeave /\ UNCHANGED work
    BY <1>1, <1>3, LeaveStep
  <1>4. ASSUME NEW pc \in {"release", "drop"}, BulkGo(pc)
        PROVE  /\ bulk' \in Cohorts /\ CohortInv' /\ bulk'.at = bulk.at
               /\ bulk'.pc \in {"release", "drop"} /\ bulk'.active = bulk.active
    <2>1. pc \in {"phase"} \cup Working \cup Ended
      BY DEF Working, OnMember
    <2>2. /\ bulk' \in Cohorts /\ bulk'.pc = pc /\ bulk'.at = bulk.at
          /\ bulk'.phase = bulk.phase /\ bulk'.pending = bulk.pending
          /\ bulk'.active = bulk.active /\ bulk'.started = bulk.started
      BY <1>1, <1>4, <2>1, PlaceMoves
    <2>3. GoodTable' /\ LiveMembers' = LiveMembers
      BY <1>1, RowsStay
    <2>4. CohortInv'
      BY <1>1, <2>2, <2>3 DEF CohortInv, Cohorts, Working, OnMember
    <2> QED
      BY <2>2, <2>4
  <1>5. CASE RequestCancel(m) /\ BulkGo(IF "native" \in changed THEN "drop" ELSE "release")
    <2>1. /\ WorkTyped'
          /\ \A n \in StagedMeetings, t \in StageNumbers :
                \/ work'[n][t].status = work[n][t].status
                \/ n = m /\ work'[n][t].status = "cancel_requested"
      BY <1>1, <1>2, <1>5, CancelledItems
    <2> QED
      BY <1>1, <1>4, <1>5, <2>1, RecordMoves
  <1>6. CASE Finish(m, s, Session, work[m][s].attempt, "failed") /\ BulkGo("drop")
    <2> DEFINE item == [work[m][s] EXCEPT !.status = "failed"]
    <2>1. work[m][s] \in Items /\ "failed" \in StageStatuses /\ SetItem(m, s, item)
      BY <1>1, <1>2, <1>6 DEF Finish, WorkTyped, StageStatuses
    <2>2. item \in Items /\ item.status = "failed"
      BY <2>1, ItemFields
    <2> HIDE DEF item, s
    <2>3. /\ WorkTyped' /\ work'[m][s] = item
          /\ \A n \in StagedMeetings, t \in StageNumbers :
                n # m \/ t # s => work'[n][t] = work[n][t]
      BY <1>1, <1>2, <2>1, <2>2, ItemSet
    <2>4. \A n \in StagedMeetings, t \in StageNumbers :
             \/ work'[n][t].status = work[n][t].status
             \/ n = m /\ work'[n][t].status = "failed"
      BY <2>2, <2>3
    <2> QED
      BY <1>1, <1>4, <1>6, <2>3, <2>4, RecordMoves
  <1> QED
    BY <1>3, <1>5, <1>6 DEF RecordFailure, BulkMember, BulkPhase

\* An unsuccessful stage is recorded with the row it belongs to.
LEMMA ReleaseStageStep ==
    ASSUME BulkInv, ReleaseStage
    PROVE  BulkInv' /\ StageFollowsRow
  <1>1. /\ GoodTable /\ bulk \in Cohorts /\ CohortInv /\ bulk.pc = "release"
        /\ WorkTyped /\ UNCHANGED <<jobs, checkpoint>>
    BY DEF BulkInv, BulkTyped, ReleaseStage, BulkAt
  <1> DEFINE m == bulk.at
             s == bulk.phase
  <1>2. m \in StagedMeetings /\ s \in StageNumbers
    BY <1>1 DEF CohortInv, Working, OnMember, Cohorts, StageNumbers
  <1>3. CASE BulkLeave /\ UNCHANGED work
    BY <1>1, <1>3, LeaveStep
  <1>4. CASE AcknowledgeCancel(m, s, Session, work[m][s].attempt) /\ BulkGo("drop")
    <2>1. work[m][s] \in Items /\ "failed" \in StageStatuses /\ SetItem(m, s, Unleased(work[m][s]))
      BY <1>1, <1>2, <1>4 DEF AcknowledgeCancel, WorkTyped, StageStatuses
    <2> DEFINE item == Unleased(work[m][s])
    <2>2. item \in Items /\ item.status = work[m][s].status
      BY <2>1, ItemFields
    <2>3. SetItem(m, s, item)
      BY <2>1
    <2> HIDE DEF item
    <2>4. "drop" \in {"phase"} \cup Working \cup Ended
      BY DEF Working, OnMember
    <2>5. /\ bulk' \in Cohorts /\ bulk'.pc = "drop" /\ bulk'.at = bulk.at
          /\ bulk'.phase = bulk.phase /\ bulk'.pending = bulk.pending
          /\ bulk'.active = bulk.active /\ bulk'.started = bulk.started
      BY <1>1, <1>4, <2>4, PlaceMoves
    <2>6. GoodTable' /\ LiveMembers' = LiveMembers
      BY <1>1, RowsStay
    <2>7. CohortInv'
      BY <1>1, <2>5, <2>6 DEF CohortInv, Cohorts, Working, OnMember
    <2> HIDE DEF s, m
    <2>8. /\ WorkTyped' /\ work'[m][s] = item
          /\ \A n \in StagedMeetings, t \in StageNumbers :
                n # m \/ t # s => work'[n][t] = work[n][t]
      BY <1>1, <1>2, <2>2, <2>3, ItemSet
    <2>9. \A n \in StagedMeetings, t \in StageNumbers : work'[n][t].status = work[n][t].status
      BY <2>2, <2>8
    <2> QED
      BY <1>1, <2>5, <2>7, <2>8, <2>9, RecordMoves
  <1> QED
    BY <1>3, <1>4 DEF ReleaseStage, BulkMember, BulkPhase

\* A member whose stage failed is dropped from the cohort for good.
LEMMA DropMemberStep ==
    ASSUME BulkInv, DropMember
    PROVE  BulkInv' /\ StageFollowsRow
  <1>1. /\ GoodTable /\ bulk \in Cohorts /\ CohortInv /\ bulk.pc = "drop"
        /\ UNCHANGED <<jobs, work, checkpoint>>
    BY DEF BulkInv, BulkTyped, DropMember, BulkAt
  <1>2. GoodTable' /\ LiveMembers' = LiveMembers
    BY <1>1, RowsStay
  <1> DEFINE active == bulk.active \ {bulk.at}
             started == bulk.started \ {bulk.at}
             dropped == [bulk EXCEPT !.active = active, !.started = started]
  <1>3. active \in SUBSET StagedMeetings /\ started \in SUBSET StagedMeetings
    BY <1>1 DEF Cohorts
  <1>4. AfterMember(dropped)
    BY <1>1 DEF DropMember, BulkMember, Cohorts
  <1>5. active = bulk.active \ {bulk.at} /\ started = bulk.started \ {bulk.at}
    OBVIOUS
  <1> HIDE DEF active, started
  <1>6. /\ dropped \in Cohorts /\ dropped.active = active /\ dropped.started = started
        /\ dropped.phase = bulk.phase /\ dropped.pending = bulk.pending
    BY <1>1, <1>3 DEF Cohorts
  <1> HIDE DEF dropped
  <1>7. /\ bulk' \in Cohorts /\ bulk'.pc \in {"restore", "next"}
        /\ bulk'.phase = bulk.phase /\ bulk'.active = active /\ bulk'.started = started
        /\ bulk'.pc = "next" => bulk'.pending = bulk.pending \ {bulk.at}
    BY <1>4, <1>6, AfterMoves
  <1>8. bulk.at \notin LiveMembers /\ LiveMembers \subseteq started
    BY <1>1, <1>5 DEF CohortInv
  <1>9. CohortInv'
    BY <1>1, <1>2, <1>5, <1>7, <1>8 DEF CohortInv, Cohorts, Working, OnMember
  <1> QED
    BY <1>1, <1>2, <1>5, <1>7, <1>9, WorkerMoves DEF Ended

\* At the end the cohort looks for members that it left running.
LEMMA RestoreLooksStep ==
    ASSUME BulkInv, RestoreLooks
    PROVE  BulkInv' /\ StageFollowsRow
  <1>1. /\ GoodTable /\ bulk \in Cohorts /\ CohortInv /\ bulk.pc = "restore"
        /\ UNCHANGED <<work, checkpoint>>
    BY DEF BulkInv, BulkTyped, RestoreLooks, BulkAt
  <1>2. bulk.started \subseteq bulk.active /\ LiveMembers \subseteq bulk.started
        /\ bulk.started \subseteq StagedMeetings
    BY <1>1 DEF CohortInv, Cohorts
  <1>3. CASE bulk.started = {} /\ BulkGo("over") /\ UNCHANGED jobs
    <2>1. GoodTable' /\ LiveMembers' = LiveMembers
      BY <1>1, <1>3, RowsStay
    <2>2. "over" \in {"phase"} \cup Working \cup Ended
      BY DEF Ended
    <2>3. /\ bulk' \in Cohorts /\ bulk'.pc = "over" /\ bulk'.active = bulk.active
          /\ bulk'.started = bulk.started
      BY <1>1, <1>3, <2>2, PlaceMoves
    <2>4. CohortInv'
      BY <1>1, <1>2, <1>3, <2>1, <2>3 DEF CohortInv, Cohorts, Working, OnMember
    <2> QED
      BY <1>1, <2>1, <2>3, <2>4, WorkerMoves DEF Ended
  <1>4. ASSUME NEW m \in bulk.started, Restored(m), GoodTable', LiveMembers' = LiveMembers \ {m}
        PROVE  BulkInv' /\ StageFollowsRow
    <2>1. "restore" \in {"phase"} \cup Working \cup Ended
      BY DEF Ended
    <2>2. /\ bulk' \in Cohorts /\ bulk'.pc = "restore" /\ bulk'.active = bulk.active
          /\ bulk'.started = bulk.started \ {m}
      BY <1>1, <1>4, <2>1, PlaceMoves
    <2>3. CohortInv'
      BY <1>1, <1>2, <1>4, <2>2 DEF CohortInv, Cohorts, Working, OnMember
    <2> QED
      BY <1>1, <1>4, <2>2, <2>3, WorkerMoves DEF Ended
  <1>5. ASSUME NEW m \in bulk.started, BulkFinalize(m), Restored(m)
        PROVE  BulkInv' /\ StageFollowsRow
    BY <1>1, <1>2, <1>4, <1>5, FinalizeEnds
  <1>6. ASSUME NEW m \in bulk.started, ~BulkRequested(m), jobs[m].status \in ActiveStatuses,
               bulk' = [bulk EXCEPT !.pc = "requeue", !.at = m], UNCHANGED jobs
        PROVE  BulkInv' /\ StageFollowsRow
    <2>1. GoodTable' /\ LiveMembers' = LiveMembers
      BY <1>1, <1>6, RowsStay
    <2>2. /\ bulk' \in Cohorts /\ bulk'.pc = "requeue" /\ bulk'.active = bulk.active
          /\ bulk'.started = bulk.started /\ bulk'.at = m
      BY <1>1, <1>2, <1>6 DEF Cohorts, Ended
    <2>3. CohortInv'
      BY <1>1, <1>2, <1>6, <2>1, <2>2 DEF CohortInv, Cohorts, Working, OnMember
    <2> QED
      BY <1>1, <2>1, <2>2, <2>3, WorkerMoves DEF Ended
  <1>7. ASSUME NEW m \in bulk.started, ~BulkRequested(m), jobs[m].status \notin ActiveStatuses,
               Restored(m), UNCHANGED jobs
        PROVE  BulkInv' /\ StageFollowsRow
    <2>1. GoodTable' /\ LiveMembers' = LiveMembers
      BY <1>1, <1>7, RowsStay
    <2>2. m \notin LiveMembers
      BY <1>7 DEF LiveMembers, Live, BulkRequested
    <2>3. LiveMembers' = LiveMembers \ {m}
      BY <2>1, <2>2
    <2> QED
      BY <1>4, <1>7, <2>1, <2>3
  <1> QED
    BY <1>3, <1>5, <1>6, <1>7 DEF RestoreLooks, ToRestore

\* It queues each of them again.
LEMMA RestoreRequeuesStep ==
    ASSUME BulkInv, RestoreRequeues
    PROVE  BulkInv' /\ StageFollowsRow
  <1>1. /\ GoodTable /\ bulk \in Cohorts /\ CohortInv /\ bulk.pc = "requeue"
        /\ UNCHANGED <<work, checkpoint>> /\ Restored(bulk.at)
    BY DEF BulkInv, BulkTyped, RestoreRequeues, BulkAt, BulkMember
  <1>2. bulk.at \in bulk.started /\ bulk.at \in StagedMeetings
    BY <1>1 DEF CohortInv, Cohorts
  <1>3. GoodTable' /\ LiveMembers' = LiveMembers \ {bulk.at}
    <2>1. "other" \in Errors
      BY DEF Errors
    <2>2. CASE BulkFinalize(bulk.at)
      BY <1>1, <1>2, <2>2, FinalizeEnds
    <2>3. CASE ForceSetStatus(bulk.at, "queued", "other")
      BY <1>1, <1>2, <2>1, <2>3, ForceEnds
    <2> QED
      BY <2>2, <2>3 DEF RestoreRequeues, RefusedRestore, BulkMember
  <1>4. "restore" \in {"phase"} \cup Working \cup Ended
    BY DEF Ended
  <1>5. /\ bulk' \in Cohorts /\ bulk'.pc = "restore" /\ bulk'.active = bulk.active
        /\ bulk'.started = bulk.started \ {bulk.at}
    BY <1>1, <1>4, PlaceMoves
  <1>6. CohortInv'
    BY <1>1, <1>2, <1>3, <1>5 DEF CohortInv, Cohorts, Working, OnMember
  <1> QED
    BY <1>1, <1>3, <1>5, <1>6, WorkerMoves DEF Ended

\* The server may stop the cohort anywhere.
LEMMA BulkStopStep ==
    ASSUME BulkInv, BulkStop
    PROVE  BulkInv' /\ StageFollowsRow
  <1>1. /\ GoodTable /\ bulk \in Cohorts /\ CohortInv /\ bulk.pc # "over"
        /\ UNCHANGED <<work, checkpoint>>
    BY DEF BulkInv, BulkTyped, BulkStop
  <1>2. CASE bulk.pc = "run" /\ BulkFinalize(bulk.at) /\ Unsuccessful
    <2>1. bulk.at \in StagedMeetings
      BY <1>1, <1>2 DEF CohortInv, LiveMembers
    <2> QED
      BY <1>1, <1>2, <2>1, FinalizeEnds, UnsuccessfulStep
  <1>3. CASE bulk.pc = "run" /\ ForceSetStatus(bulk.at, "queued", "other") /\ BulkLeave
    <2>1. bulk.at \in StagedMeetings /\ "other" \in Errors
      BY <1>1, <1>3 DEF CohortInv, LiveMembers, Errors
    <2>2. GoodTable' /\ LiveMembers' = LiveMembers \ {bulk.at}
      BY <1>1, <1>3, <2>1, ForceEnds
    <2>3. "restore" \in {"phase"} \cup Working \cup Ended
      BY DEF Ended
    <2>4. /\ bulk' \in Cohorts /\ bulk'.pc = "restore" /\ bulk'.active = bulk.active
          /\ bulk'.started = bulk.started
      BY <1>1, <1>3, <2>3, PlaceMoves
    <2>5. CohortInv'
      BY <1>1, <1>3, <2>2, <2>4 DEF CohortInv, Cohorts, Working, OnMember
    <2> QED
      BY <1>1, <1>3, <2>2, <2>4, <2>5, WorkerMoves DEF Ended
  <1>4. CASE bulk.pc \in {"restore", "requeue"} /\ BulkGo("stopped") /\ UNCHANGED jobs
    <2>1. GoodTable' /\ LiveMembers' = LiveMembers
      BY <1>1, <1>4, RowsStay
    <2>2. "stopped" \in {"phase"} \cup Working \cup Ended
      BY DEF Ended
    <2>3. /\ bulk' \in Cohorts /\ bulk'.pc = "stopped" /\ bulk'.active = bulk.active
          /\ bulk'.started = bulk.started
      BY <1>1, <1>4, <2>2, PlaceMoves
    <2>4. CohortInv'
      BY <1>1, <1>4, <2>1, <2>3 DEF CohortInv, Cohorts, Working, OnMember
    <2> QED
      BY <1>1, <1>4, <2>1, <2>3, <2>4, WorkerMoves DEF Ended
  <1>5. CASE bulk.pc # "stopped" /\ BulkLeave /\ UNCHANGED jobs
    BY <1>1, <1>5, LeaveStep
  <1> QED
    BY <1>2, <1>3, <1>4, <1>5 DEF BulkStop, BulkAt, BulkMember

\* Every step of a cohort and of those around it keeps the invariant, and records no
\* more of a member than is on disk (_process_bulk_cohort of orchestrator.py).
THEOREM BulkStep == BulkInv /\ [BulkNext]_bulkVars => BulkInv' /\ StageFollowsRow
  <1> SUFFICES ASSUME BulkInv, [BulkNext]_bulkVars
               PROVE  BulkInv' /\ StageFollowsRow
    OBVIOUS
  <1>1. CASE BulkWorker
    BY <1>1, BeginPhaseStep, NextMemberStep, CheckMemberStep, TakeMemberStep, RunEndsWellStep,
       RunEndsBadlyStep, RecordSuccessStep, RecordFailureStep, ReleaseStageStep,
       DropMemberStep, RestoreLooksStep, RestoreRequeuesStep DEF BulkWorker
  <1>2. CASE MarkMember
    BY <1>2, MarkMemberStep
  <1>3. CASE BulkStop
    BY <1>3, BulkStopStep
  <1>4. CASE \/ Disturb \/ UNCHANGED bulkVars
             \/ \E m \in StagedMeetings :
                   UserCancelsRunning(m) \/ FlagFollows(m) \/ UserChangesQueued(m)
    BY <1>4, EveryoneElse
  <1> QED
    BY <1>1, <1>2, <1>3, <1>4 DEF BulkNext

\* The cohort as it was selected satisfies the invariant.
THEOREM BulkInitInv == BulkInit => BulkInv
  <1> SUFFICES ASSUME BulkInit PROVE BulkInv
    OBVIOUS
  <1> USE DEF BulkInit, BulkRows, BulkLocals
  <1>1. GoodTable /\ LiveMembers = {}
    <2>1. ASSUME NEW m \in Meetings
          PROVE  GoodRow(jobs[m]) /\ ~Live(jobs[m])
      <3>1. /\ jobs[m] \in [status : {"queued"}, action : {Plain(Full)}, retries : {0},
                           error : {"none"}, selection : Selections]
        OBVIOUS
      <3>2. /\ jobs[m].status = "queued" /\ jobs[m].action = Plain(Full) /\ jobs[m].retries = 0
            /\ jobs[m].error = "none" /\ jobs[m].selection \in Selections
        BY <3>1
      <3>3. jobs[m].action \in PlainActions /\ jobs[m].action \in Actions
        BY <3>2, PlainFits, BulkAssumption DEF Actions
      <3>4. jobs[m].retries \in RetryCounts /\ jobs[m].status \in Statuses /\ jobs[m].error \in Errors
        BY <3>2, RetryAssumption DEF RetryCounts, Statuses, Errors
      <3>5. jobs[m] \in Rows
        BY <3>1, <3>2, <3>3, <3>4 DEF Rows
      <3> QED
        BY <3>2, <3>3, <3>5, PlainGood, NotLive
    <2>2. DOMAIN jobs = Meetings /\ jobs = [m \in Meetings |-> jobs[m]]
      OBVIOUS
    <2>3. \A m \in Meetings : jobs[m] \in Rows /\ Coherent(jobs[m]) /\ ~Live(jobs[m])
      BY <2>1 DEF GoodRow
    <2> HIDE DEF BulkInit, BulkRows, BulkLocals
    <2>4. jobs \in [Meetings -> Rows \cup {Gone}]
      BY <2>2, <2>3
    <2> QED
      BY <2>3, <2>4, StagedAreMeetings DEF GoodTable, LiveMembers
  <1>2. WorkTyped
    <2>1. Queued \in Items
      BY DEF Queued, Items, StageStatuses
    <2> QED
      BY <2>1 DEF WorkTyped, Enqueued
  <1>3. bulk \in Cohorts /\ bulk.pc = "phase" /\ bulk.started = {}
    BY DEF Cohorts
  <1>4. BulkTyped /\ CohortInv
    BY <1>1, <1>2, <1>3 DEF BulkTyped, CohortInv, Working, OnMember
  <1>5. \A m \in StagedMeetings, s \in StageNumbers : work[m][s].status = "queued"
    BY DEF Enqueued, Queued
  <1>6. RecordInv
    BY <1>3, <1>5 DEF RecordInv, Cohorts
  <1> QED
    BY <1>4, <1>6 DEF BulkInv

\* The invariant is enough: a cohort that is over has left no member running or
\* being cancelled.
THEOREM BulkHolds == BulkInv => CohortStrandsNone
  <1> SUFFICES ASSUME BulkInv, bulk.pc = "over", NEW m \in StagedMeetings
               PROVE  jobs[m].status \notin ActiveStatuses /\ ~HasCancelClaim(jobs[m])
    BY DEF CohortStrandsNone, BulkAt
  <1> QED
    BY DEF BulkInv, CohortInv, LiveMembers, Live

------------------------------------------------------------------------------
(* The A/B tests: what looks active has somebody who will end it. *)

\* Rows as they are before anything happens to them.
LEMMA FreshRows ==
    ASSUME NEW statuses, statuses \subseteq Statuses \ {"recording"}, NEW intent \in Intents,
           jobs \in [Meetings -> [status : statuses, action : {Plain(intent)}, retries : {0},
                                  error : {"none"}, selection : Selections]]
    PROVE  /\ GoodTable
           /\ \A m \in Meetings : /\ jobs[m] \in Rows /\ jobs[m].status \in statuses
                                  /\ jobs[m].action = Plain(intent)
  <1>1. ASSUME NEW m \in Meetings
        PROVE  /\ GoodRow(jobs[m]) /\ jobs[m].status \in statuses
               /\ jobs[m].action = Plain(intent)
    <2>1. jobs[m] \in [status : statuses, action : {Plain(intent)}, retries : {0},
                       error : {"none"}, selection : Selections]
      OBVIOUS
    <2>2. /\ jobs[m].status \in statuses /\ jobs[m].action = Plain(intent)
          /\ jobs[m].retries = 0 /\ jobs[m].error = "none" /\ jobs[m].selection \in Selections
      BY <2>1
    <2>3. jobs[m].action \in PlainActions /\ jobs[m].action \in Actions
      BY <2>2, PlainFits DEF Actions
    <2>4. jobs[m].retries \in RetryCounts /\ jobs[m].status \in Statuses /\ jobs[m].error \in Errors
      BY <2>2, RetryAssumption DEF RetryCounts, Errors
    <2>5. jobs[m] \in Rows
      BY <2>1, <2>2, <2>3, <2>4 DEF Rows
    <2>6. jobs[m].status # "recording"
      BY <2>2
    <2> QED
      BY <2>2, <2>3, <2>5, <2>6, PlainGood
  <1>2. DOMAIN jobs = Meetings /\ jobs = [m \in Meetings |-> jobs[m]]
    OBVIOUS
  <1>3. \A m \in Meetings : jobs[m] \in Rows /\ Coherent(jobs[m])
    BY <1>1 DEF GoodRow
  <1>4. jobs \in [Meetings -> Rows \cup {Gone}]
    BY <1>2, <1>3
  <1> QED
    BY <1>1, <1>3, <1>4 DEF GoodTable

Metas == {"absent", "deleted"} \cup ActiveMeta \cup EndedMeta
RunPcs == {"admission", "diarize", "begin", "A", "B"}
ABPcs == {"idle", "claimed", "release", "leased"} \cup RunPcs

ABTyped ==
    /\ GoodTable
    /\ meta \in [Tests -> Metas] /\ abPc \in [Tests -> ABPcs]
    /\ failedOf \in [Tests -> SUBSET {"A", "B"}]
    /\ abLock \in Tests \cup {Nothing} /\ cancelSet \subseteq Tests /\ accepted \subseteq Tests
    /\ recovering \in [tests : SUBSET Tests, at : Tests \cup {Nothing},
                       read : ActiveMeta \cup {Nothing}, leases : SUBSET Tests]

Leased(t) == Claimed(jobs[Source], "ab", t)

\* Only a test of transcription models leases its source.
LeaseInv == \A t \in Tests : Leased(t) => t \in Transcribed

\* The flag of an accepted cancellation is there as long as the task is.
FlagInv == \A t \in accepted : abPc[t] \in RunPcs \cup {"claimed"} => t \in cancelSet

ABInv == ABTyped /\ TestsAreSettled /\ CancelledTestHasNoResult /\ LeaseInv /\ FlagInv

\* The lease once the runner has taken it, and once it has given it back.
LEMMA LeaseTaken ==
    ASSUME GoodTable, NEW t \in Tests, ClaimForSTTABTest(Source, t)
    PROVE  GoodTable' /\ \A u \in Tests : Leased(u)' => u = t
  <1> DEFINE claim == [kind |-> "ab", status |-> "completed", action |-> jobs[Source].action,
                       error |-> jobs[Source].error, token |-> t]
             row == [jobs[Source] EXCEPT !.status = "recording", !.action = claim,
                                         !.error = "none"]
  <1>1. jobs[Source] \in Rows /\ Store(Source, row) /\ Source \in Meetings /\ t \in Tokens
    BY LiveRow, ABAssumption DEF ClaimForSTTABTest, Statuses, GoodRow
  <1>2. claim.token = t
    OBVIOUS
  <1> HIDE DEF claim
  <1>3. row.action = claim
    BY <1>1 DEF Rows
  <1> HIDE DEF row
  <1>4. jobs'[Source] = row /\ GoodTable'
    BY <1>1, ClaimABGood DEF GoodTable, Store
  <1> QED
    BY <1>2, <1>3, <1>4 DEF Leased, Claimed

\* Giving the lease back (restore_stt_ab_test_claim) leaves no test with it.
LEMMA LeaseGiven ==
    ASSUME GoodTable, NEW t \in Tests, RestoreSTTABTestClaim(Source, t)
    PROVE  GoodTable' /\ \A u \in Tests : ~Leased(u)'
  <1>1. Source \in Meetings /\ t \in Tokens /\ Claimed(jobs[Source], "ab", t)
    BY ABAssumption DEF RestoreSTTABTestClaim
  <1>2. jobs[Source] \in Rows /\ jobs[Source].action \in ABClaims
    BY <1>1, ClaimedRow, KindOfAction
  <1> DEFINE status == jobs[Source].action.status
             action == jobs[Source].action.action
             error == jobs[Source].action.error
             row == [jobs[Source] EXCEPT !.status = status, !.action = action, !.error = error]
  <1>3. status = "completed" /\ Store(Source, row)
    BY <1>2 DEF ABClaims, RestoreSTTABTestClaim
  <1> HIDE DEF status, action, error
  <1>4. row.status = status
    BY <1>2 DEF Rows
  <1> HIDE DEF row
  <1>5. jobs'[Source] = row /\ GoodTable'
    BY <1>1, <1>3, RestoreABGood DEF GoodTable, Store
  <1> QED
    BY <1>3, <1>4, <1>5 DEF Leased, Claimed

\* A deletion takes no leased source, and leases it to no test.
LEMMA OtherClaims ==
    ASSUME GoodTable, SourceTaken
    PROVE  GoodTable' /\ \A u \in Tests : ~Leased(u)'
  <1>1. PICK token \in Tokens \ Tests :
           ClaimForDeletion(Source, token) \/ RestoreDeleteClaim(Source, token)
    BY DEF SourceTaken
  <1>2. Source \in Meetings /\ GoodTable'
    BY <1>1, ABAssumption, ClaimDeletionGood, RestoreDeleteGood
  <1>3. CASE ClaimForDeletion(Source, token)
    <2> DEFINE claim == [kind |-> "delete", status |-> jobs[Source].status,
                         action |-> jobs[Source].action, error |-> jobs[Source].error,
                         token |-> token, phase |-> "claimed", sourced |-> FALSE]
               row == [jobs[Source] EXCEPT !.status = "recording", !.action = claim,
                                           !.error = "none"]
    <2>1. jobs[Source] \in Rows /\ Store(Source, row)
      BY <1>2, <1>3, LiveRow DEF ClaimForDeletion, Statuses, GoodRow
    <2>2. claim.kind = "delete"
      OBVIOUS
    <2> HIDE DEF claim
    <2>3. row.action = claim
      BY <2>1 DEF Rows
    <2> HIDE DEF row
    <2>4. jobs'[Source] = row
      BY <1>2, <2>1 DEF GoodTable, Store
    <2> QED
      BY <1>2, <2>2, <2>3, <2>4 DEF Leased, Claimed
  <1>4. CASE RestoreDeleteClaim(Source, token)
    <2>1. Claimed(jobs[Source], "delete", token)
      BY <1>4 DEF RestoreDeleteClaim, CanRestoreDeleteClaim
    <2>2. jobs[Source] \in Rows /\ jobs[Source].action \in DeleteClaims
      BY <1>2, <2>1, ClaimedRow, KindOfAction
    <2> DEFINE status == jobs[Source].action.status
               action == jobs[Source].action.action
               error == jobs[Source].action.error
               row == [jobs[Source] EXCEPT !.status = status, !.action = action,
                                           !.error = error]
    <2>3. status # "recording" /\ Store(Source, row)
      BY <1>4, <2>2 DEF DeleteClaims, RestoreDeleteClaim
    <2> HIDE DEF status, action, error
    <2>4. row.status = status
      BY <2>2 DEF Rows
    <2> HIDE DEF row
    <2>5. jobs'[Source] = row
      BY <1>2, <2>3 DEF GoodTable, Store
    <2> QED
      BY <1>2, <2>3, <2>4, <2>5 DEF Leased, Claimed
  <1> QED
    BY <1>1, <1>3, <1>4

\* A step of one test that leaves the rows and the recovery alone.
LEMMA TestMoves ==
    ASSUME ABInv, NEW t \in Tests, UNCHANGED <<jobs, recovering, accepted>>,
           meta' \in [Tests -> Metas] /\ \A u \in Tests : u # t => meta'[u] = meta[u],
           abPc' \in [Tests -> ABPcs] /\ \A u \in Tests : u # t => abPc'[u] = abPc[u],
           failedOf' \in [Tests -> SUBSET {"A", "B"}],
           abLock' \in Tests \cup {Nothing},
           cancelSet' \subseteq Tests, cancelSet \subseteq cancelSet' \cup {t},
           meta'[t] \in ActiveMeta =>
              abPc'[t] \in RunPcs \/ t \in recovering.tests \/ t = recovering.at,
           Leased(t) => abPc'[t] # "idle" \/ t \in recovering.leases,
           t \in accepted => meta'[t] \notin {"completed", "partial_failed"},
           t \in accepted /\ abPc'[t] \in RunPcs \cup {"claimed"} => t \in cancelSet'
    PROVE  ABInv'
  <1>1. ABTyped'
    BY DEF ABInv, ABTyped, GoodTable
  <1>2. TestsAreSettled'
    <2> SUFFICES ASSUME NEW u \in Tests
                 PROVE  /\ meta'[u] \in ActiveMeta =>
                              \/ abPc'[u] \in {"admission", "diarize", "begin", "A", "B"}
                              \/ u \in recovering'.tests \/ u = recovering'.at
                        /\ Claimed(jobs'[Source], "ab", u) =>
                              abPc'[u] # "idle" \/ u \in recovering'.leases
      BY DEF TestsAreSettled
    <2>1. CASE u = t
      BY <2>1 DEF Leased, RunPcs
    <2>2. CASE u # t
      BY <2>2 DEF ABInv, TestsAreSettled
    <2> QED
      BY <2>1, <2>2
  <1>3. CancelledTestHasNoResult'
    BY DEF ABInv, ABTyped, CancelledTestHasNoResult
  <1>4. LeaseInv' /\ FlagInv'
    BY DEF ABInv, ABTyped, LeaseInv, Leased, FlagInv
  <1> QED
    BY <1>1, <1>2, <1>3, <1>4 DEF ABInv

\* What the end of a test writes.
LEMMA EndedTest ==
    ASSUME ABTyped, NEW t \in Tests, NEW status \in EndedMeta, EndTest(t, status)
    PROVE  /\ meta' \in [Tests -> Metas] /\ meta'[t] = status
           /\ \A u \in Tests : u # t => meta'[u] = meta[u]
           /\ abPc' \in [Tests -> ABPcs] /\ abPc'[t] = TaskEnd(t)
           /\ \A u \in Tests : u # t => abPc'[u] = abPc[u]
           /\ abLock' \in Tests \cup {Nothing}
           /\ cancelSet' \subseteq Tests /\ cancelSet \subseteq cancelSet' \cup {t}
           /\ status \notin ActiveMeta /\ TaskEnd(t) \in {"release", "idle"}
           /\ t \in Transcribed => TaskEnd(t) = "release"
  <1>1. /\ status \in Metas /\ TaskEnd(t) \in ABPcs /\ status \notin ActiveMeta
        /\ TaskEnd(t) \in {"release", "idle"} /\ (t \in Transcribed => TaskEnd(t) = "release")
    BY DEF Metas, TaskEnd, ABPcs, EndedMeta, ActiveMeta
  <1> QED
    BY <1>1 DEF EndTest, SetMeta, ABGo, ABTyped

\* A test ends: its source's lease is still there to be given back.
LEMMA EndedStep ==
    ASSUME ABInv, NEW t \in Tests, NEW status \in EndedMeta, EndTest(t, status),
           failedOf' \in [Tests -> SUBSET {"A", "B"}],
           status \in {"completed", "partial_failed"} => t \notin accepted,
           UNCHANGED <<jobs, recovering, accepted>>
    PROVE  ABInv'
  <1>1. /\ meta' \in [Tests -> Metas] /\ meta'[t] = status
        /\ \A u \in Tests : u # t => meta'[u] = meta[u]
        /\ abPc' \in [Tests -> ABPcs] /\ abPc'[t] = TaskEnd(t)
        /\ \A u \in Tests : u # t => abPc'[u] = abPc[u]
        /\ abLock' \in Tests \cup {Nothing}
        /\ cancelSet' \subseteq Tests /\ cancelSet \subseteq cancelSet' \cup {t}
        /\ status \notin ActiveMeta /\ TaskEnd(t) \in {"release", "idle"}
        /\ t \in Transcribed => TaskEnd(t) = "release"
    BY EndedTest DEF ABInv
  <1>2. Leased(t) => abPc'[t] # "idle"
    BY <1>1 DEF ABInv, LeaseInv
  <1>3. abPc'[t] \notin RunPcs \cup {"claimed"}
    BY <1>1 DEF RunPcs
  <1>4. t \in accepted => meta'[t] \notin {"completed", "partial_failed"}
    BY <1>1
  <1> QED
    BY <1>1, <1>2, <1>3, <1>4, TestMoves

\* A task that goes on: the metadata is as it was, or says that it is.
LEMMA GoesOnStep ==
    ASSUME ABInv, NEW t \in Tests, NEW pc \in RunPcs, ABGo(t, pc),
           abPc[t] \in RunPcs \cup {"claimed"},
           \/ UNCHANGED meta
           \/ \E status \in ActiveMeta : SetMeta(t, status),
           abLock' \in Tests \cup {Nothing},
           failedOf' \in [Tests -> SUBSET {"A", "B"}],
           UNCHANGED <<jobs, cancelSet, recovering, accepted>>
    PROVE  ABInv'
  <1>1. pc \in ABPcs /\ ActiveMeta \subseteq Metas /\ pc # "idle"
    BY DEF ABPcs, RunPcs, Metas
  <1>2. /\ meta' \in [Tests -> Metas] /\ (meta'[t] = meta[t] \/ meta'[t] \in ActiveMeta)
        /\ \A u \in Tests : u # t => meta'[u] = meta[u]
        /\ abPc' \in [Tests -> ABPcs] /\ abPc'[t] = pc
        /\ \A u \in Tests : u # t => abPc'[u] = abPc[u]
    BY <1>1 DEF ABInv, ABTyped, ABGo, SetMeta
  <1>3. t \in accepted => t \in cancelSet
    BY DEF ABInv, FlagInv
  <1>4. t \in accepted => meta'[t] \notin {"completed", "partial_failed"}
    BY <1>2 DEF ABInv, CancelledTestHasNoResult, ActiveMeta
  <1>5. /\ abLock' \in Tests \cup {Nothing}
        /\ cancelSet' \subseteq Tests /\ cancelSet \subseteq cancelSet' \cup {t}
    BY DEF ABInv, ABTyped
  <1>6. meta' \in [Tests -> Metas]
    BY <1>1 DEF ABInv, ABTyped, ABGo, SetMeta
  <1> QED
    BY <1>1, <1>2, <1>3, <1>4, <1>5, <1>6, TestMoves

\* A test that is started is given an identity of its own, its lease and its pending
\* file (new_test_id, start).
LEMMA StartTestStep ==
    ASSUME ABInv, NEW t \in Tests, StartTest(t)
    PROVE  ABInv'
  <1>1. /\ abPc[t] = "idle" /\ meta[t] = "absent" /\ t \notin accepted
        /\ UNCHANGED <<failedOf, abLock, cancelSet, recovering, accepted>>
    BY DEF StartTest
  <1>2. ABTyped
    BY DEF ABInv
  <1>3. CASE t \in Transcribed
    <2>1. ClaimForSTTABTest(Source, t) /\ ABGo(t, "claimed") /\ UNCHANGED meta
      BY <1>3 DEF StartTest
    <2>2. GoodTable' /\ \A u \in Tests : Leased(u)' => u = t
      BY <1>2, <2>1, LeaseTaken DEF ABTyped
    <2>3. /\ abPc' \in [Tests -> ABPcs] /\ abPc'[t] = "claimed"
          /\ \A u \in Tests : u # t => abPc'[u] = abPc[u]
      BY <1>2, <2>1 DEF ABTyped, ABGo, ABPcs
    <2>4. ABTyped'
      BY <1>1, <1>2, <2>1, <2>2, <2>3 DEF ABTyped
    <2>5. meta[t] \notin ActiveMeta
      BY <1>1 DEF ActiveMeta
    <2>6. TestsAreSettled'
      BY <1>1, <2>1, <2>2, <2>3, <2>5 DEF ABInv, TestsAreSettled, Leased
    <2>7. CancelledTestHasNoResult' /\ LeaseInv' /\ FlagInv'
      BY <1>1, <1>2, <1>3, <2>1, <2>2, <2>3
         DEF ABInv, ABTyped, CancelledTestHasNoResult, LeaseInv, FlagInv
    <2> QED
      BY <2>4, <2>6, <2>7 DEF ABInv
  <1>4. CASE t \notin Transcribed
    <2>1. ABGo(t, "admission") /\ SetMeta(t, "pending") /\ UNCHANGED jobs
      BY <1>4 DEF StartTest
    <2>2. /\ abPc' \in [Tests -> ABPcs] /\ abPc'[t] = "admission"
          /\ \A u \in Tests : u # t => abPc'[u] = abPc[u]
          /\ meta' \in [Tests -> Metas] /\ meta'[t] = "pending"
          /\ \A u \in Tests : u # t => meta'[u] = meta[u]
      BY <1>2, <2>1 DEF ABTyped, ABGo, ABPcs, RunPcs, Metas, SetMeta, ActiveMeta
    <2>3. "admission" \in RunPcs /\ "admission" # "idle"
      BY DEF RunPcs
    <2>4. /\ failedOf' \in [Tests -> SUBSET {"A", "B"}] /\ abLock' \in Tests \cup {Nothing}
          /\ cancelSet' \subseteq Tests /\ cancelSet \subseteq cancelSet' \cup {t}
      BY <1>1, <1>2 DEF ABTyped
    <2> QED
      BY <1>1, <2>1, <2>2, <2>3, <2>4, TestMoves
  <1> QED
    BY <1>3, <1>4

\* The steps of a test's task up to its first variant, and its cancellation
\* (run_test).
LEMMA TaskSteps ==
    ASSUME ABInv, NEW t \in Tests,
           ReserveTest(t) \/ Admission(t) \/ Diarization(t) \/ BeginTest(t) \/ TaskCancelled(t)
    PROVE  ABInv'
  <1>1. /\ {"failed", "cancelled"} \subseteq EndedMeta /\ {"pending", "running"} \subseteq ActiveMeta
        /\ {"admission", "diarize", "begin", "A"} \subseteq RunPcs
    BY DEF EndedMeta, ActiveMeta, RunPcs
  <1>2. /\ failedOf \in [Tests -> SUBSET {"A", "B"}] /\ abLock \in Tests \cup {Nothing}
        /\ cancelSet \subseteq Tests /\ meta \in [Tests -> Metas] /\ abPc \in [Tests -> ABPcs]
    BY DEF ABInv, ABTyped
  <1>3. ASSUME NEW status \in {"failed", "cancelled"}, EndTest(t, status),
               failedOf' \in [Tests -> SUBSET {"A", "B"}], UNCHANGED <<jobs, recovering, accepted>>
        PROVE  ABInv'
    BY <1>1, <1>3, EndedStep
  <1>4. CASE ReserveTest(t)
    <2>1. abPc[t] = "claimed" /\ UNCHANGED <<jobs, failedOf, abLock, cancelSet, recovering, accepted>>
      BY <1>4 DEF ReserveTest
    <2>2. CASE SetMeta(t, "pending") /\ ABGo(t, "admission")
      BY <1>1, <1>2, <2>1, <2>2, GoesOnStep
    <2>3. CASE ABGo(t, "release") /\ UNCHANGED meta
      <3>1. /\ abPc' \in [Tests -> ABPcs] /\ abPc'[t] = "release"
            /\ \A u \in Tests : u # t => abPc'[u] = abPc[u]
        BY <1>2, <2>3 DEF ABGo, ABPcs
      <3>2. "release" \notin RunPcs \cup {"claimed", "idle"} /\ "claimed" \notin RunPcs
        BY DEF RunPcs
      <3>3. meta'[t] \in ActiveMeta => t \in recovering.tests \/ t = recovering.at
        BY <2>1, <2>3 DEF ABInv, TestsAreSettled
      <3>4. t \in accepted => meta'[t] \notin {"completed", "partial_failed"}
        BY <2>3 DEF ABInv, CancelledTestHasNoResult
      <3>5. /\ meta' \in [Tests -> Metas] /\ \A u \in Tests : u # t => meta'[u] = meta[u]
        BY <1>2, <2>3
      <3>6. cancelSet \subseteq cancelSet' \cup {t} /\ cancelSet' \subseteq Tests
        BY <1>2, <2>1
      <3> QED
        BY <1>2, <2>1, <2>3, <3>1, <3>2, <3>3, <3>4, <3>5, <3>6, TestMoves
    <2> QED
      BY <1>4, <2>2, <2>3 DEF ReserveTest, FailedReservationGoes
  <1>5. CASE Admission(t)
    <2>1. abPc[t] = "admission" /\ UNCHANGED <<jobs, failedOf, recovering, accepted>>
      BY <1>5 DEF Admission
    <2>2. CASE EndTest(t, "failed")
      BY <1>2, <1>3, <2>1, <2>2
    <2>3. ASSUME NEW pc \in {"diarize", "begin"}, abLock' = t, ABGo(t, pc), UNCHANGED <<meta, cancelSet>>
          PROVE  ABInv'
      BY <1>1, <1>2, <2>1, <2>3, GoesOnStep
    <2> QED
      BY <1>5, <2>2, <2>3 DEF Admission
  <1>6. CASE Diarization(t)
    <2>1. abPc[t] = "diarize" /\ UNCHANGED <<jobs, failedOf, recovering, accepted>>
      BY <1>6 DEF Diarization
    <2>2. CASE EndTest(t, "failed")
      BY <1>2, <1>3, <2>1, <2>2
    <2>3. CASE ABGo(t, "begin") /\ UNCHANGED <<meta, abLock, cancelSet>>
      BY <1>1, <1>2, <2>1, <2>3, GoesOnStep
    <2> QED
      BY <1>6, <2>2, <2>3 DEF Diarization
  <1>7. CASE BeginTest(t)
    <2>1. abPc[t] = "begin" /\ UNCHANGED <<jobs, recovering, accepted>>
          /\ failedOf' \in [Tests -> SUBSET {"A", "B"}]
      BY <1>2, <1>7 DEF BeginTest
    <2>2. CASE EndTest(t, "cancelled")
      BY <1>3, <2>1, <2>2
    <2>3. CASE SetMeta(t, "running") /\ ABGo(t, "A") /\ UNCHANGED <<abLock, cancelSet>>
      BY <1>1, <1>2, <2>1, <2>3, GoesOnStep
    <2> QED
      BY <1>7, <2>2, <2>3 DEF BeginTest
  <1>8. CASE TaskCancelled(t)
    BY <1>2, <1>3, <1>8 DEF TaskCancelled
  <1> QED
    BY <1>4, <1>5, <1>6, <1>7, <1>8

\* A variant that ends, whatever its result, is followed by the other one or by the
\* end of the test.
LEMMA VariantEndsStep ==
    ASSUME ABInv, NEW t \in Tests, VariantEnds(t)
    PROVE  ABInv'
  <1>1. /\ failedOf \in [Tests -> SUBSET {"A", "B"}] /\ abLock \in Tests \cup {Nothing}
        /\ abPc[t] \in {"A", "B"} /\ UNCHANGED <<jobs, recovering, accepted>>
    BY DEF ABInv, ABTyped, VariantEnds
  <1>2. PICK failed \in {failedOf[t], failedOf[t] \cup {abPc[t]}} :
           /\ failedOf' = [failedOf EXCEPT ![t] = failed]
           /\ IF TestCancelled(t) THEN EndTest(t, "cancelled")
              ELSE IF abPc[t] = "A" THEN ABGo(t, "B") /\ UNCHANGED <<meta, abLock, cancelSet>>
              ELSE EndTest(t, FinalStatus(failed))
    BY DEF VariantEnds
  <1>3. failedOf' \in [Tests -> SUBSET {"A", "B"}]
    BY <1>1, <1>2
  <1>4. CASE EndTest(t, "cancelled")
    <2>1. "cancelled" \in EndedMeta
      BY DEF EndedMeta
    <2> QED
      BY <1>1, <1>3, <1>4, <2>1, EndedStep
  <1>5. CASE ABGo(t, "B") /\ UNCHANGED <<meta, abLock, cancelSet>>
    <2>1. {"A", "B"} \subseteq RunPcs
      BY DEF RunPcs
    <2> QED
      BY <1>1, <1>3, <1>5, <2>1, GoesOnStep
  <1>6. CASE ~TestCancelled(t) /\ EndTest(t, FinalStatus(failed))
    <2>1. FinalStatus(failed) \in EndedMeta
      BY DEF FinalStatus, EndedMeta
    <2>2. t \notin accepted
      BY <1>1, <1>6 DEF ABInv, FlagInv, RunPcs, TestCancelled
    <2> QED
      BY <1>1, <1>3, <1>6, <2>1, <2>2, EndedStep
  <1> QED
    BY <1>2, <1>4, <1>5, <1>6

\* The lease is given back, or left to the next start.
LEMMA ReleaseSourceStep ==
    ASSUME ABInv, NEW t \in Tests, ReleaseSource(t)
    PROVE  ABInv'
  <1>1. /\ abPc[t] = "release"
        /\ UNCHANGED <<meta, failedOf, abLock, cancelSet, recovering, accepted>>
    BY DEF ReleaseSource
  <1>2. PICK pc \in {"idle", "leased"} :
           /\ ABGo(t, pc)
           /\ \/ pc = "idle" /\ RestoreSTTABTestClaim(Source, t)
              \/ pc = "leased" /\ UNCHANGED jobs
    BY DEF ReleaseSource
  <1>3. ABTyped
    BY DEF ABInv
  <1>4. /\ abPc' \in [Tests -> ABPcs] /\ abPc'[t] = pc
        /\ \A u \in Tests : u # t => abPc'[u] = abPc[u]
    BY <1>2, <1>3 DEF ABTyped, ABGo, ABPcs
  <1>5. /\ GoodTable'
        /\ \A u \in Tests : Leased(u)' => Leased(u) /\ pc = "leased"
    <2>1. CASE pc = "idle" /\ RestoreSTTABTestClaim(Source, t)
      BY <1>3, <2>1, LeaseGiven DEF ABTyped
    <2>2. CASE pc = "leased" /\ UNCHANGED jobs
      BY <1>3, <2>2 DEF ABTyped, GoodTable, Leased
    <2> QED
      BY <1>2, <2>1, <2>2
  <1>6. ABTyped'
    BY <1>1, <1>3, <1>4, <1>5 DEF ABTyped
  <1>7. \A u \in Tests : abPc'[u] = abPc[u] \/ (u = t /\ abPc'[u] \notin RunPcs \cup {"claimed"})
    BY <1>4 DEF RunPcs
  <1>8. TestsAreSettled'
    <2> SUFFICES ASSUME NEW u \in Tests
                 PROVE  /\ meta'[u] \in ActiveMeta =>
                              \/ abPc'[u] \in {"admission", "diarize", "begin", "A", "B"}
                              \/ u \in recovering'.tests \/ u = recovering'.at
                        /\ Claimed(jobs'[Source], "ab", u) =>
                              abPc'[u] # "idle" \/ u \in recovering'.leases
      BY DEF TestsAreSettled
    <2>1. meta'[u] = meta[u] /\ recovering' = recovering
      BY <1>1
    <2>2. Claimed(jobs'[Source], "ab", u) => Claimed(jobs[Source], "ab", u) /\ pc = "leased"
      BY <1>5 DEF Leased
    <2> QED
      BY <1>1, <1>4, <2>1, <2>2 DEF ABInv, TestsAreSettled
  <1>9. CancelledTestHasNoResult' /\ LeaseInv' /\ FlagInv'
    BY <1>1, <1>3, <1>5, <1>7 DEF ABInv, ABTyped, CancelledTestHasNoResult, LeaseInv, FlagInv
  <1> QED
    BY <1>6, <1>8, <1>9 DEF ABInv

\* A cancellation is accepted: its flag is set with it.
LEMMA CancelTestStep ==
    ASSUME ABInv, NEW t \in Tests, CancelTest(t)
    PROVE  ABInv'
  <1>1. /\ meta[t] \in ActiveMeta /\ UNCHANGED <<jobs, abPc, failedOf, abLock, recovering>>
        /\ cancelSet' = cancelSet \cup {t} /\ accepted' = accepted \cup {t}
    BY DEF CancelTest
  <1>2. ABTyped /\ "cancelling" \in ActiveMeta /\ "cancelling" \in Metas
    BY DEF ABInv, ActiveMeta, Metas
  <1>3. /\ meta' \in [Tests -> Metas] /\ meta'[t] = "cancelling"
        /\ \A u \in Tests : u # t => meta'[u] = meta[u]
    BY <1>2 DEF ABTyped, CancelTest, SetMeta
  <1>4. ABTyped'
    BY <1>1, <1>2, <1>3 DEF ABTyped, GoodTable
  <1>5. TestsAreSettled' /\ LeaseInv'
    BY <1>1, <1>2, <1>3 DEF ABInv, TestsAreSettled, LeaseInv, Leased
  <1>6. CancelledTestHasNoResult' /\ FlagInv'
    BY <1>1, <1>2, <1>3 DEF ABInv, ABTyped, CancelledTestHasNoResult, FlagInv
  <1> QED
    BY <1>4, <1>5, <1>6 DEF ABInv

\* A test that is deleted is one that has ended, and leaves no file
\* (delete_ab_test).
LEMMA DeleteTestStep ==
    ASSUME ABInv, NEW t \in Tests, DeleteTest(t)
    PROVE  ABInv'
  <1>1. UNCHANGED <<jobs, abPc, failedOf, abLock, cancelSet, recovering, accepted>>
    BY DEF DeleteTest
  <1>2. ABTyped /\ "deleted" \notin ActiveMeta /\ "deleted" \in Metas
    BY DEF ABInv, ActiveMeta, Metas
  <1>3. /\ meta' \in [Tests -> Metas] /\ meta'[t] = "deleted"
        /\ \A u \in Tests : u # t => meta'[u] = meta[u]
    BY <1>2 DEF ABTyped, DeleteTest, SetMeta
  <1>4. ABTyped'
    BY <1>1, <1>2, <1>3 DEF ABTyped, GoodTable
  <1>5. TestsAreSettled' /\ LeaseInv'
    BY <1>1, <1>2, <1>3 DEF ABInv, TestsAreSettled, LeaseInv, Leased
  <1>6. CancelledTestHasNoResult' /\ FlagInv'
    BY <1>1, <1>2, <1>3 DEF ABInv, ABTyped, CancelledTestHasNoResult, FlagInv
  <1> QED
    BY <1>4, <1>5, <1>6 DEF ABInv

\* Another owner can take the source of a test only while no test leases it.
LEMMA SourceTakenStep ==
    ASSUME ABInv, SourceTaken
    PROVE  ABInv'
  <1>1. UNCHANGED abLocals
    BY DEF SourceTaken
  <1>2. GoodTable' /\ \A u \in Tests : ~Leased(u)'
    BY OtherClaims DEF ABInv, ABTyped
  <1>3. ABTyped'
    BY <1>1, <1>2 DEF ABInv, ABTyped, abLocals
  <1>4. TestsAreSettled' /\ LeaseInv'
    BY <1>1, <1>2 DEF ABInv, TestsAreSettled, LeaseInv, Leased, abLocals
  <1>5. CancelledTestHasNoResult' /\ FlagInv'
    BY <1>1 DEF ABInv, CancelledTestHasNoResult, FlagInv, abLocals
  <1> QED
    BY <1>3, <1>4, <1>5 DEF ABInv

\* A restart forgets tasks and flags; the recovery lists what they left.
LEMMA ABRestartStep ==
    ASSUME ABInv, ABRestart
    PROVE  ABInv'
  <1> DEFINE orphans == {t \in Tests : meta[t] # "absent"}
             leases == {t \in Tests : Claimed(jobs[Source], "ab", t)}
  <1>1. /\ abPc' = [t \in Tests |-> "idle"] /\ abLock' = Nothing /\ cancelSet' = {}
        /\ UNCHANGED <<jobs, meta, failedOf, accepted>>
        /\ recovering' = [ABRecoveryDone EXCEPT !.tests = orphans, !.leases = leases]
    BY DEF ABRestart
  <1>2. /\ orphans \subseteq Tests /\ leases \subseteq Tests
        /\ \A t \in Tests : (t \in orphans <=> meta[t] # "absent") /\ (t \in leases <=> Leased(t))
    BY DEF Leased
  <1> HIDE DEF orphans, leases
  <1>3. recovering' = [tests |-> orphans, at |-> Nothing, read |-> Nothing, leases |-> leases]
    BY <1>1 DEF ABRecoveryDone
  <1>4. ABTyped'
    <2>1. "idle" \in ABPcs
      BY DEF ABPcs
    <2> QED
      BY <1>1, <1>2, <1>3, <2>1 DEF ABInv, ABTyped, GoodTable
  <1>5. "absent" \notin ActiveMeta /\ "idle" \notin RunPcs \cup {"claimed"}
    BY DEF ActiveMeta, RunPcs
  <1>6. TestsAreSettled' /\ LeaseInv'
    BY <1>1, <1>2, <1>3, <1>5 DEF ABInv, TestsAreSettled, LeaseInv, Leased
  <1>7. CancelledTestHasNoResult' /\ FlagInv'
    BY <1>1, <1>5 DEF ABInv, ABTyped, CancelledTestHasNoResult, FlagInv
  <1> QED
    BY <1>4, <1>6, <1>7 DEF ABInv

\* The recovery reads a test, and has it in hand if it looks active.
LEMMA ReadOrphanStep ==
    ASSUME ABInv, ReadOrphan
    PROVE  ABInv'
  <1>1. /\ recovering.at = Nothing
        /\ UNCHANGED <<jobs, meta, abPc, failedOf, abLock, cancelSet, accepted>>
    BY DEF ReadOrphan
  <1>2. PICK t \in recovering.tests :
           recovering' = [recovering EXCEPT !.tests = @ \ {t},
                            !.at = IF meta[t] \in ActiveMeta THEN t ELSE Nothing,
                            !.read = IF meta[t] \in ActiveMeta THEN meta[t] ELSE Nothing]
    BY DEF ReadOrphan
  <1>3. ABTyped /\ t \in Tests /\ Nothing \notin Tests
    BY ABAssumption DEF ABInv, ABTyped, Nothing
  <1> DEFINE left == recovering.tests \ {t}
             at == IF meta[t] \in ActiveMeta THEN t ELSE Nothing
             read == IF meta[t] \in ActiveMeta THEN meta[t] ELSE Nothing
  <1>4. left \in SUBSET Tests /\ at \in Tests \cup {Nothing} /\ read \in ActiveMeta \cup {Nothing}
    BY <1>3 DEF ABTyped
  <1>5. recovering' = [recovering EXCEPT !.tests = left, !.at = at, !.read = read]
    BY <1>2, <1>3 DEF ABTyped
  <1>6. left = recovering.tests \ {t} /\ (meta[t] \in ActiveMeta => at = t)
    OBVIOUS
  <1> HIDE DEF left, at, read
  <1>7. /\ recovering' \in [tests : SUBSET Tests, at : Tests \cup {Nothing},
                            read : ActiveMeta \cup {Nothing}, leases : SUBSET Tests]
        /\ recovering'.tests = left /\ recovering'.at = at
        /\ recovering'.leases = recovering.leases
    BY <1>3, <1>4, <1>5 DEF ABTyped
  <1>8. ABTyped'
    BY <1>1, <1>3, <1>7 DEF ABTyped, GoodTable
  <1>9. TestsAreSettled'
    BY <1>1, <1>3, <1>6, <1>7 DEF ABInv, TestsAreSettled
  <1>10. CancelledTestHasNoResult' /\ LeaseInv' /\ FlagInv'
    BY <1>1 DEF ABInv, CancelledTestHasNoResult, LeaseInv, Leased, FlagInv
  <1> QED
    BY <1>8, <1>9, <1>10 DEF ABInv

\* It writes the end of the test it has read.
LEMMA WriteOrphanStep ==
    ASSUME ABInv, WriteOrphan
    PROVE  ABInv'
  <1>1. /\ recovering.at # Nothing
        /\ UNCHANGED <<jobs, abPc, failedOf, abLock, cancelSet, accepted>>
        /\ SetMeta(recovering.at, OrphanStatus(recovering.read))
        /\ recovering' = [recovering EXCEPT !.at = Nothing, !.read = Nothing]
    BY DEF WriteOrphan
  <1>2. ABTyped /\ recovering.at \in Tests
    BY <1>1 DEF ABInv, ABTyped
  <1> DEFINE status == OrphanStatus(recovering.read)
  <1>3. /\ status \in Metas /\ status \notin ActiveMeta
        /\ status \notin {"completed", "partial_failed"}
    BY DEF OrphanStatus, Metas, EndedMeta, ActiveMeta
  <1> HIDE DEF status
  <1>4. /\ meta' \in [Tests -> Metas] /\ meta'[recovering.at] = status
        /\ \A u \in Tests : u # recovering.at => meta'[u] = meta[u]
    BY <1>1, <1>2, <1>3 DEF ABTyped, SetMeta, status
  <1>5. /\ recovering' \in [tests : SUBSET Tests, at : Tests \cup {Nothing},
                            read : ActiveMeta \cup {Nothing}, leases : SUBSET Tests]
        /\ recovering'.tests = recovering.tests /\ recovering'.leases = recovering.leases
    BY <1>1, <1>2 DEF ABTyped
  <1>6. ABTyped'
    BY <1>1, <1>2, <1>4, <1>5 DEF ABTyped, GoodTable
  <1>7. TestsAreSettled'
    BY <1>1, <1>2, <1>3, <1>4, <1>5 DEF ABInv, TestsAreSettled
  <1>8. CancelledTestHasNoResult' /\ LeaseInv' /\ FlagInv'
    BY <1>1, <1>2, <1>3, <1>4
       DEF ABInv, ABTyped, CancelledTestHasNoResult, LeaseInv, Leased, FlagInv
  <1> QED
    BY <1>6, <1>7, <1>8 DEF ABInv

\* It gives back a lease it has listed.
LEMMA RecoverLeaseStep ==
    ASSUME ABInv, RecoverLease
    PROVE  ABInv'
  <1>1. UNCHANGED <<meta, abPc, failedOf, abLock, cancelSet, accepted>>
    BY DEF RecoverLease
  <1>2. PICK t \in recovering.leases :
           /\ recovering' = [recovering EXCEPT !.leases = @ \ {t}]
           /\ RestoreSTTABTestClaim(Source, t)
    BY DEF RecoverLease
  <1>3. ABTyped /\ t \in Tests
    BY DEF ABInv, ABTyped
  <1>4. GoodTable' /\ \A u \in Tests : ~Leased(u)'
    BY <1>2, <1>3, LeaseGiven DEF ABTyped
  <1> DEFINE left == recovering.leases \ {t}
  <1>5. left \in SUBSET Tests /\ recovering' = [recovering EXCEPT !.leases = left]
    BY <1>2, <1>3 DEF ABTyped
  <1> HIDE DEF left
  <1>6. /\ recovering' \in [tests : SUBSET Tests, at : Tests \cup {Nothing},
                            read : ActiveMeta \cup {Nothing}, leases : SUBSET Tests]
        /\ recovering'.tests = recovering.tests /\ recovering'.at = recovering.at
    BY <1>3, <1>5 DEF ABTyped
  <1>7. ABTyped'
    BY <1>1, <1>3, <1>4, <1>6 DEF ABTyped
  <1>8. TestsAreSettled' /\ LeaseInv'
    BY <1>1, <1>4, <1>6 DEF ABInv, TestsAreSettled, LeaseInv, Leased
  <1>9. CancelledTestHasNoResult' /\ FlagInv'
    BY <1>1 DEF ABInv, CancelledTestHasNoResult, FlagInv
  <1> QED
    BY <1>7, <1>8, <1>9 DEF ABInv

\* Every step of the A/B tests keeps their invariant: what looks active has a task
\* or a recovery that will end it (ab_test_runner.py).
THEOREM ABStep == ABInv /\ [ABNext]_abVars => ABInv'
  <1> SUFFICES ASSUME ABInv, [ABNext]_abVars
               PROVE  ABInv'
    OBVIOUS
  <1>1. ASSUME NEW t \in Tests,
               \/ StartTest(t) \/ TestStep(t) \/ TaskCancelled(t)
               \/ CancelTest(t) \/ DeleteTest(t)
        PROVE  ABInv'
    BY <1>1, StartTestStep, TaskSteps, VariantEndsStep, ReleaseSourceStep, CancelTestStep,
       DeleteTestStep DEF TestStep
  <1>2. CASE RecoveryOfTests \/ SourceTaken \/ ABRestart
    BY <1>2, ReadOrphanStep, WriteOrphanStep, RecoverLeaseStep, SourceTakenStep, ABRestartStep
       DEF RecoveryOfTests
  <1>3. CASE UNCHANGED abVars
    BY <1>3 DEF abVars, abLocals, ABInv, ABTyped, GoodTable, TestsAreSettled,
                CancelledTestHasNoResult, LeaseInv, Leased, FlagInv
  <1> QED
    BY <1>1, <1>2, <1>3 DEF ABNext

\* It holds of a server that starts, whatever the tests it finds.
THEOREM ABInitInv == ABInit => ABInv
  <1> SUFFICES ASSUME ABInit PROVE ABInv
    OBVIOUS
  <1>1. /\ GoodTable
        /\ \A m \in Meetings : jobs[m] \in Rows /\ jobs[m].status \in {"completed"}
    <2>1. {"completed"} \subseteq Statuses \ {"recording"}
      BY DEF Statuses
    <2>2. jobs \in [Meetings -> [status : {"completed"}, action : {Plain(DefaultIntent)},
                                 retries : {0}, error : {"none"}, selection : Selections]]
      BY DEF ABInit, ABRows, NoAction
    <2> QED
      BY <2>1, <2>2, FreshRows, IntentAssumption
  <1>2. \A t \in Tests : ~Leased(t)
    BY <1>1, ABAssumption DEF Leased, Claimed
  <1>3. \A t \in Tests : meta[t] = "absent"
    BY DEF ABInit, ABLocals
  <1>4. ABTyped
    BY <1>1 DEF ABInit, ABLocals, ABTyped, Metas, ABPcs, ABRecoveryDone
  <1>5. TestsAreSettled /\ CancelledTestHasNoResult /\ LeaseInv /\ FlagInv
    BY <1>2, <1>3 DEF ABInit, ABLocals, TestsAreSettled, CancelledTestHasNoResult, LeaseInv,
                      FlagInv, ActiveMeta, Leased
  <1> QED
    BY <1>4, <1>5 DEF ABInv

------------------------------------------------------------------------------
(* The batch requests: what is accepted is queued by somebody. *)

PostSteps == {"new", "prepare", "committed", "answered", "refused"}
PostsTyped ==
    post \in [Posts -> [step : PostSteps, class : [Listed -> Classes \cup {"unread", "out"}],
                        checked : SUBSET Listed]]

BatchTyped ==
    /\ DOMAIN receipts = Requests /\ artifacts \in [Listed -> Classes] /\ PostsTyped
    /\ background \in [Requests -> SUBSET Listed]
    /\ autoRun \in [step : {"idle", "reserved", "prepare", "run"}, chosen : SUBSET (Listed \X Classes)]
    /\ taken \in [Requests -> [Listed -> 0..1]] /\ batchLeft \in Nat

RequestCommitted(r) == \E p \in Posts : PostsOf[p] = r /\ post[p].step = "committed"

\* A receipt is of this session or an earlier one.
SessionInv ==
    \A r \in Requests : Accepted(r) => receipts[r].session \in Nat /\ receipts[r].session >= batchLeft

\* What was taken, and who is still to take the rest of a receipt.
TakenInv ==
    \A r \in Requests, m \in Listed :
        /\ taken[r][m] = 1 => Accepted(r) /\ m \in receipts[r].queued
        /\ m \in background[r] => Accepted(r) /\ m \in receipts[r].queued /\ taken[r][m] = 0
        /\ Accepted(r) /\ m \in receipts[r].queued /\ taken[r][m] = 0 =>
              /\ m \in receipts[r].later
              /\ m \in background[r] \/ receipts[r].session > batchLeft \/ RequestCommitted(r)

\* What an accepted request has not queued is left to it alone.
OwnsRest(p) ==
    LET r == PostsOf[p] IN
    /\ Accepted(r) /\ background[r] = {} /\ receipts[r].later = ClassIs(p, "summarize")
    /\ \A m \in ClassIs(p, "summarize") : m \in receipts[r].queued /\ taken[r][m] = 0

\* Between the transaction of a request and its task nobody else has its meetings.
CommitInv ==
    /\ \A p, q \in Posts :
          PostsOf[p] = PostsOf[q] /\ post[p].step = "committed" /\ post[q].step = "committed" =>
              p = q
    /\ \A p \in Posts : post[p].step = "committed" => OwnsRest(p)

AutoLockInv == autoLock <=> autoRun.step # "idle"

BatchInv == BatchTyped /\ SessionInv /\ TakenInv /\ CommitInv /\ AutoLockInv

\* The invariant is enough: what an accepted request counts as queued is queued, has
\* a task that will queue it, or is of an earlier session (meetings_batch.py).
LEMMA BatchHolds == BatchInv => ReceiptsTellTheTruth
  <1> SUFFICES ASSUME BatchInv
               PROVE  ReceiptsTellTheTruth
    OBVIOUS
  <1>1. ASSUME NEW r \in Requests, NEW m \in Listed
        PROVE  /\ taken[r][m] <= 1
               /\ taken[r][m] = 1 => Accepted(r) /\ m \in receipts[r].queued
               /\ (Accepted(r) /\ m \in receipts[r].queued /\ taken[r][m] = 0) =>
                     m \in background[r] \/ Shown(r, m) \in FinalOutcomes
                         \/ \E p \in Posts : PostsOf[p] = r /\ post[p].step = "committed"
    <2>1. taken[r][m] \in 0..1
      BY DEF BatchInv, BatchTyped
    <2>2. taken[r][m] = 1 => Accepted(r) /\ m \in receipts[r].queued
      BY DEF BatchInv, TakenInv
    <2>3. ASSUME Accepted(r), m \in receipts[r].later, receipts[r].session > batchLeft
          PROVE  Shown(r, m) \in FinalOutcomes
      <3>1. receipts[r].session # batchLeft
        BY <2>3 DEF BatchInv, BatchTyped, SessionInv
      <3> QED
        BY <2>3, <3>1 DEF Shown, OutcomeOpen, FinalOutcomes
    <2> QED
      BY <2>1, <2>2, <2>3 DEF BatchInv, TakenInv, RequestCommitted
  <1> QED
    BY <1>1 DEF ReceiptsTellTheTruth, BatchInv, AutoLockInv

\* A step that touches no receipt, no task and no committed request.
LEMMA RequestsKeep ==
    ASSUME BatchInv, UNCHANGED <<receipts, background, taken, batchLeft>>,
           artifacts' \in [Listed -> Classes], PostsTyped',
           \A p \in Posts : \/ post'[p] = post[p]
                            \/ post[p].step # "committed" /\ post'[p].step # "committed",
           autoRun' \in [step : {"idle", "reserved", "prepare", "run"},
                         chosen : SUBSET (Listed \X Classes)],
           AutoLockInv'
    PROVE  BatchInv'
  <1>1. BatchTyped'
    BY DEF BatchInv, BatchTyped
  <1>2. SessionInv'
    BY DEF BatchInv, SessionInv, Accepted
  <1>3. \A r \in Requests : RequestCommitted(r)' <=> RequestCommitted(r)
    BY DEF RequestCommitted
  <1>4. TakenInv'
    BY <1>3 DEF BatchInv, TakenInv, Accepted
  <1>5. \A p \in Posts : post'[p].step = "committed" => post[p].step = "committed" /\ OwnsRest(p)'
    <2> SUFFICES ASSUME NEW p \in Posts, post'[p].step = "committed"
                 PROVE  post[p].step = "committed" /\ OwnsRest(p)'
      OBVIOUS
    <2>1. post[p].step = "committed" /\ post'[p] = post[p]
      OBVIOUS
    <2>2. OwnsRest(p)
      BY <2>1 DEF BatchInv, CommitInv
    <2>3. ClassIs(p, "summarize")' = ClassIs(p, "summarize")
      BY <2>1 DEF ClassIs
    <2> QED
      BY <2>1, <2>2, <2>3 DEF OwnsRest, Accepted
  <1>6. CommitInv'
    BY <1>5 DEF BatchInv, CommitInv
  <1> QED
    BY <1>1, <1>2, <1>4, <1>6 DEF BatchInv

\* A post that reads the receipts, prepares or checks a meeting changes nobody's but
\* its own state.
LEMMA PostStepsKeep ==
    ASSUME BatchInv, NEW p \in Posts, ReadReceipt(p) \/ PrepareMeeting(p) \/ RecheckMeeting(p)
    PROVE  BatchInv'
  <1>1. /\ UNCHANGED <<receipts, artifacts, background, autoRun, autoLock, taken, batchLeft>>
        /\ post[p].step # "committed"
    BY DEF ReadReceipt, PrepareMeeting, RecheckMeeting
  <1>2. /\ post \in [Posts -> [step : PostSteps, class : [Listed -> Classes \cup {"unread", "out"}],
                               checked : SUBSET Listed]]
        /\ post[p] \in [step : PostSteps, class : [Listed -> Classes \cup {"unread", "out"}],
                        checked : SUBSET Listed]
        /\ artifacts \in [Listed -> Classes]
    BY DEF BatchInv, BatchTyped, PostsTyped
  <1>3. /\ PostsTyped' /\ post'[p].step # "committed"
        /\ \A q \in Posts : q # p => post'[q] = post[q]
    <2>1. CASE ReadReceipt(p)
      <3>1. PICK step \in {"answered", "prepare"} : post' = [post EXCEPT ![p].step = step]
        BY <2>1 DEF ReadReceipt, PostGo
      <3> QED
        BY <1>2, <3>1 DEF PostsTyped, PostSteps
    <2>2. CASE PrepareMeeting(p)
      <3>1. PICK m \in Listed, class \in Classes \cup {"out"} :
               post' = [post EXCEPT ![p].class[m] = class]
        BY <1>2, <2>2 DEF PrepareMeeting, ClassIs
      <3> DEFINE classes == [post[p].class EXCEPT ![m] = class]
      <3>2. classes \in [Listed -> Classes \cup {"unread", "out"}]
        BY <1>2
      <3>3. post' = [post EXCEPT ![p].class = classes]
        BY <1>2, <3>1
      <3> HIDE DEF classes
      <3> QED
        BY <1>1, <1>2, <3>2, <3>3 DEF PostsTyped
    <2>3. CASE RecheckMeeting(p)
      <3> DEFINE Next1(m) == [post EXCEPT ![p].checked = @ \cup {m}]
      <3>1. PICK m \in Listed :
               post' = [Next1(m) EXCEPT ![p].class[m] =
                          IF SafeForBatch(m, "transcribe") THEN @ ELSE "out"]
        BY <1>2, <2>3 DEF RecheckMeeting, ClassIs
      <3> DEFINE seen == post[p].checked \cup {m}
                 now == [post[p] EXCEPT !.checked = seen]
      <3>2. seen \subseteq Listed
        BY <1>2
      <3>3. Next1(m) = [post EXCEPT ![p] = now]
        BY <1>2
      <3>4. Next1(m)[p] = now /\ now.class = post[p].class
        BY <1>2, <3>3 DEF PostsTyped
      <3> DEFINE class == IF SafeForBatch(m, "transcribe") THEN post[p].class[m] ELSE "out"
                 classes == [post[p].class EXCEPT ![m] = class]
      <3>5. classes \in [Listed -> Classes \cup {"unread", "out"}]
        BY <1>2
      <3> HIDE DEF Next1, now, seen
      <3>6. post' = [Next1(m) EXCEPT ![p].class = classes]
        BY <3>1, <3>4
      <3> HIDE DEF class, classes
      <3>7. now \in [step : PostSteps, class : [Listed -> Classes \cup {"unread", "out"}],
                     checked : SUBSET Listed] /\ now.step = post[p].step
        BY <1>2, <3>2 DEF now
      <3>8. post' = [post EXCEPT ![p] = [now EXCEPT !.class = classes]]
        BY <1>2, <3>3, <3>4, <3>6
      <3>9. /\ [now EXCEPT !.class = classes] \in
                 [step : PostSteps, class : [Listed -> Classes \cup {"unread", "out"}],
                  checked : SUBSET Listed]
            /\ [now EXCEPT !.class = classes].step = post[p].step
        BY <3>5, <3>7
      <3> QED
        BY <1>1, <1>2, <3>8, <3>9 DEF PostsTyped
    <2> QED
      BY <2>1, <2>2, <2>3
  <1>4. AutoLockInv' /\ autoRun \in [step : {"idle", "reserved", "prepare", "run"},
                                 chosen : SUBSET (Listed \X Classes)]
    BY <1>1 DEF BatchInv, BatchTyped, AutoLockInv
  <1> QED
    BY <1>1, <1>2, <1>3, <1>4, RequestsKeep

\* The nightly run takes no meeting an accepted request has still to take: they
\* share the lock of the work (auto_processing.py).
LEMMA AutoSteps ==
    ASSUME BatchInv,
           \/ ReserveAuto \/ StartReserved \/ PrepareAuto \/ AutoItem \/ AutoEnds \/ AutoStopped
    PROVE  BatchInv'
  <1> DEFINE Autos == [step : {"idle", "reserved", "prepare", "run"},
                       chosen : SUBSET (Listed \X Classes)]
  <1>1. UNCHANGED <<receipts, background, taken, batchLeft, post>>
    BY DEF ReserveAuto, StartReserved, PrepareAuto, AutoItem, AutoEnds, AutoStopped, AutoRest
  <1>2. artifacts \in [Listed -> Classes] /\ PostsTyped /\ autoRun \in Autos /\ AutoLockInv
    BY DEF BatchInv, BatchTyped
  <1>3. IdleAuto \in Autos /\ IdleAuto.step = "idle"
    BY DEF IdleAuto
  <1>4. artifacts' \in [Listed -> Classes] /\ autoRun' \in Autos /\ AutoLockInv'
    <2>1. CASE ReserveAuto
      <3>1. PICK s \in {"reserved", "prepare"} : autoRun' = [IdleAuto EXCEPT !.step = s]
        BY <2>1 DEF ReserveAuto
      <3> QED
        BY <1>2, <2>1, <3>1 DEF ReserveAuto, IdleAuto, AutoLockInv
    <2>2. CASE StartReserved
      <3>1. CASE autoRun' = [autoRun EXCEPT !.step = "prepare"] /\ UNCHANGED autoLock
        <4>1. autoRun' \in Autos /\ autoRun'.step = "prepare" /\ autoRun.step = "reserved"
          BY <1>2, <2>2, <3>1 DEF StartReserved
        <4> QED
          BY <1>2, <2>2, <3>1, <4>1 DEF StartReserved, AutoLockInv
      <3>2. CASE autoRun' = IdleAuto /\ autoLock' = FALSE
        BY <1>2, <1>3, <2>2, <3>2 DEF StartReserved, AutoLockInv
      <3> QED
        BY <2>2, <3>1, <3>2 DEF StartReserved, LockAfterNeverStarted
    <2>3. CASE PrepareAuto
      <3>1. CASE autoRun' = IdleAuto /\ autoLock' = FALSE
        BY <1>2, <1>3, <2>3, <3>1 DEF PrepareAuto, AutoLockInv
      <3>2. ASSUME NEW chosen \in SUBSET {m \in Listed : SafeForAuto(m)}, UNCHANGED autoLock,
                   autoRun' = [step |-> "run", chosen |-> {<<m, artifacts[m]>> : m \in chosen}]
            PROVE  autoRun' \in Autos /\ AutoLockInv'
        <4> DEFINE those == {<<m, artifacts[m]>> : m \in chosen}
        <4>1. those \in SUBSET (Listed \X Classes)
          BY <1>2
        <4>2. autoRun' = [step |-> "run", chosen |-> those] /\ autoRun.step = "prepare"
          BY <2>3, <3>2 DEF PrepareAuto
        <4> HIDE DEF those
        <4> QED
          BY <1>2, <3>2, <4>1, <4>2 DEF AutoLockInv
      <3> QED
        BY <1>2, <2>3, <3>1, <3>2 DEF PrepareAuto
    <2>4. CASE AutoItem
      <3>1. PICK item \in autoRun.chosen :
               /\ autoRun' = [autoRun EXCEPT !.chosen = @ \ {item}]
               /\ artifacts' = [artifacts EXCEPT ![item[1]] = "done"] \/ UNCHANGED artifacts
        BY <2>4 DEF AutoItem
      <3>2. item \in Listed \X Classes /\ "done" \in Classes
        BY <1>2 DEF Classes
      <3>3. artifacts' \in [Listed -> Classes]
        BY <1>2, <3>1, <3>2
      <3> DEFINE those == autoRun.chosen \ {item}
      <3>4. those \in SUBSET (Listed \X Classes) /\ autoRun' = [autoRun EXCEPT !.chosen = those]
        BY <1>2, <3>1
      <3> HIDE DEF those
      <3>5. autoRun' \in Autos /\ autoRun'.step = autoRun.step
        BY <1>2, <3>4
      <3> QED
        BY <1>2, <2>4, <3>3, <3>5 DEF AutoItem, AutoLockInv
    <2>5. CASE AutoEnds \/ AutoStopped
      BY <1>2, <1>3, <2>5 DEF AutoEnds, AutoStopped, AutoLockInv
    <2> QED
      BY <2>1, <2>2, <2>3, <2>4, <2>5
  <1>5. PostsTyped'
    BY <1>1, <1>2 DEF PostsTyped
  <1> QED
    BY <1>1, <1>4, <1>5, RequestsKeep

\* What others do to the rows touches no receipt.
LEMMA OthersMoveStep ==
    ASSUME BatchInv, OthersMoveRows
    PROVE  BatchInv'
  <1>1. UNCHANGED <<receipts, post, background, autoRun, autoLock, taken, batchLeft>>
    BY DEF OthersMoveRows
  <1>2. PICK m \in Moving : RowMoves(m)
    BY DEF OthersMoveRows
  <1>3. artifacts' = [artifacts EXCEPT ![m] = "done"] \/ UNCHANGED artifacts
    BY <1>2 DEF RowMoves
  <1>4. artifacts' \in [Listed -> Classes]
    BY <1>3, BatchBounds DEF BatchInv, BatchTyped, Classes
  <1>5. /\ PostsTyped' /\ AutoLockInv'
        /\ autoRun \in [step : {"idle", "reserved", "prepare", "run"},
                        chosen : SUBSET (Listed \X Classes)]
    BY <1>1 DEF BatchInv, BatchTyped, PostsTyped, AutoLockInv
  <1> QED
    BY <1>1, <1>4, <1>5, RequestsKeep

\* A request is refused: its receipt, if it is the first, names no meeting.
LEMMA RefuseStep ==
    ASSUME BatchInv, NEW p \in Posts, RefuseBatch(p)
    PROVE  BatchInv'
  <1>1. /\ UNCHANGED <<artifacts, background, autoRun, autoLock, taken, batchLeft>>
        /\ post[p].step = "prepare" /\ post' = [post EXCEPT ![p].step = "refused"]
    BY DEF RefuseBatch, PostGo
  <1>2. BatchTyped /\ PostsTyped /\ PostsOf[p] \in Requests
    BY BatchBounds DEF BatchInv, BatchTyped
  <1> DEFINE r == PostsOf[p]
             receipt == BatchReceipt({}, {})
  <1>3. /\ PostsTyped' /\ post'[p].step = "refused"
        /\ \A q \in Posts : q # p => post'[q] = post[q]
    BY <1>1, <1>2 DEF PostsTyped, PostSteps
  <1>4. CASE UNCHANGED receipts
    <2>1. AutoLockInv' /\ artifacts' \in [Listed -> Classes]
          /\ autoRun' \in [step : {"idle", "reserved", "prepare", "run"},
                           chosen : SUBSET (Listed \X Classes)]
      BY <1>1, <1>2 DEF BatchInv, BatchTyped, AutoLockInv
    <2>2. post[p].step # "committed" /\ post'[p].step # "committed"
      BY <1>1, <1>3
    <2> QED
      BY <1>1, <1>3, <1>4, <2>1, <2>2, RequestsKeep
  <1>5. CASE SaveReceipt(r, receipt)
    <2>1. receipt.queued = {} /\ receipt.session = batchLeft /\ receipt # NoReceipt
      BY DEF BatchReceipt, NoReceipt
    <2> HIDE DEF receipt
    <2>2. /\ ~Accepted(r) /\ DOMAIN receipts' = Requests /\ receipts'[r] = receipt
          /\ \A q \in Requests : q # r => receipts'[q] = receipts[q]
      BY <1>2, <1>5 DEF SaveReceipt, Accepted, BatchTyped
    <2>3. BatchTyped'
      BY <1>1, <1>2, <1>3, <2>2 DEF BatchTyped
    <2>4. SessionInv'
      BY <1>1, <1>2, <2>1, <2>2 DEF BatchInv, BatchTyped, SessionInv, Accepted
    <2>5. \A q \in Requests : RequestCommitted(q)' <=> RequestCommitted(q)
      BY <1>1, <1>3 DEF RequestCommitted
    <2>6. TakenInv'
      BY <1>1, <2>1, <2>2, <2>5 DEF BatchInv, TakenInv, Accepted
    <2>7. \A q \in Posts : post'[q].step = "committed" =>
             post[q].step = "committed" /\ PostsOf[q] # r /\ post'[q] = post[q] /\ PostsOf[q] \in Requests
      BY <1>1, <1>3, <2>2, BatchBounds DEF BatchInv, CommitInv, OwnsRest
    <2>8. CommitInv'
      BY <1>1, <2>2, <2>7 DEF BatchInv, CommitInv, OwnsRest, Accepted, ClassIs
    <2> QED
      BY <1>1, <2>3, <2>4, <2>6, <2>8 DEF BatchInv, AutoLockInv
  <1> QED
    BY <1>4, <1>5 DEF RefuseBatch

\* The transaction of a request: what it queues is taken, the rest is its own.
LEMMA CommitStep ==
    ASSUME BatchInv, NEW p \in Posts, CommitBatch(p)
    PROVE  BatchInv'
  <1> DEFINE r == PostsOf[p]
             now == ClassIs(p, "transcribe")
             later == ClassIs(p, "summarize")
             receipt == BatchReceipt(now \cup later, later)
  <1>1. /\ UNCHANGED <<artifacts, background, autoRun, autoLock, batchLeft>>
        /\ post[p].step = "prepare" /\ post' = [post EXCEPT ![p].step = "committed"]
        /\ SaveReceipt(r, receipt) /\ Take(r, now)
    BY DEF CommitBatch, ReadyToCommit, PostGo, ReceiptInserted
  <1>2. BatchTyped /\ PostsTyped /\ PostsOf[p] \in Requests
    BY BatchBounds DEF BatchInv, BatchTyped
  <1>3. /\ receipt.queued = now \cup later /\ receipt.later = later
        /\ receipt.session = batchLeft /\ receipt # NoReceipt
    BY DEF BatchReceipt, NoReceipt
  <1>4. now \subseteq Listed /\ later \subseteq Listed /\ now \cap later = {}
    BY DEF ClassIs
  <1>5. /\ PostsTyped' /\ post'[p].step = "committed" /\ post'[p].class = post[p].class
        /\ \A q \in Posts : q # p => post'[q] = post[q]
    BY <1>1, <1>2 DEF PostsTyped, PostSteps
  <1>6. ClassIs(p, "summarize")' = later
    BY <1>5 DEF ClassIs
  <1> HIDE DEF receipt, now, later, r
  <1>7. r \in Requests /\ r = PostsOf[p]
    BY <1>2 DEF r
  <1>8. /\ ~Accepted(r) /\ DOMAIN receipts' = Requests /\ receipts'[r] = receipt
        /\ \A q \in Requests : q # r => receipts'[q] = receipts[q]
    BY <1>1, <1>2, <1>7 DEF SaveReceipt, Accepted, BatchTyped
  <1>9. \A m \in Listed : taken[r][m] = 0 /\ m \notin background[r]
    <2>1. \A m \in Listed : taken[r][m] \in 0..1
      BY <1>2, <1>7 DEF BatchTyped
    <2> QED
      BY <1>7, <1>8, <2>1 DEF BatchInv, TakenInv
  <1>10. background[r] = {}
    BY <1>2, <1>7, <1>9 DEF BatchTyped
  <1>11. /\ taken' \in [Requests -> [Listed -> 0..1]]
         /\ \A m \in Listed : taken'[r][m] = IF m \in now THEN 1 ELSE 0
         /\ \A q \in Requests : q # r => taken'[q] = taken[q]
    <2> DEFINE row == [m \in Listed |-> IF m \in now THEN taken[r][m] + 1 ELSE taken[r][m]]
    <2>1. taken' = [taken EXCEPT ![r] = row]
      BY <1>1, <1>2, <1>7 DEF Take, BatchTyped
    <2>2. \A m \in Listed : row[m] = IF m \in now THEN 1 ELSE 0
      BY <1>9
    <2>3. row \in [Listed -> 0..1]
      BY <2>2
    <2> HIDE DEF row
    <2> QED
      BY <1>2, <1>7, <2>1, <2>2, <2>3 DEF BatchTyped
  <1>12. BatchTyped'
    BY <1>1, <1>2, <1>5, <1>8, <1>11 DEF BatchTyped
  <1>13. SessionInv'
    BY <1>1, <1>2, <1>3, <1>8 DEF BatchInv, BatchTyped, SessionInv, Accepted
  <1>14. /\ \A q \in Requests : q # r => (RequestCommitted(q)' <=> RequestCommitted(q))
         /\ RequestCommitted(r)'
    BY <1>1, <1>5, <1>7 DEF RequestCommitted
  <1>15. TakenInv'
    <2> SUFFICES ASSUME NEW q \in Requests, NEW m \in Listed
                 PROVE  /\ taken'[q][m] = 1 => Accepted(q)' /\ m \in receipts'[q].queued
                        /\ m \in background'[q] =>
                              Accepted(q)' /\ m \in receipts'[q].queued /\ taken'[q][m] = 0
                        /\ Accepted(q)' /\ m \in receipts'[q].queued /\ taken'[q][m] = 0 =>
                              /\ m \in receipts'[q].later
                              /\ m \in background'[q] \/ receipts'[q].session > batchLeft'
                                    \/ RequestCommitted(q)'
      BY DEF TakenInv
    <2>1. CASE q = r
      BY <1>1, <1>3, <1>8, <1>10, <1>11, <1>14, <2>1 DEF Accepted
    <2>2. CASE q # r
      <3>1. /\ receipts'[q] = receipts[q] /\ taken'[q] = taken[q]
            /\ background'[q] = background[q] /\ batchLeft' = batchLeft
            /\ (Accepted(q)' <=> Accepted(q)) /\ (RequestCommitted(q)' <=> RequestCommitted(q))
        BY <1>1, <1>8, <1>11, <1>14, <2>2 DEF Accepted
      <3> QED
        BY <3>1 DEF BatchInv, TakenInv
    <2> QED
      BY <2>1, <2>2
  <1>16. \A q \in Posts : post'[q].step = "committed" =>
            q = p \/ (post[q].step = "committed" /\ PostsOf[q] # r /\ post'[q] = post[q] /\ PostsOf[q] \in Requests)
    BY <1>5, <1>8, BatchBounds DEF BatchInv, CommitInv, OwnsRest
  <1>17. CommitInv'
    <2>1. ASSUME NEW q \in Posts, post'[q].step = "committed"
          PROVE  OwnsRest(q)'
      <3>1. CASE q = p
        BY <1>1, <1>3, <1>4, <1>6, <1>7, <1>8, <1>10, <1>11, <3>1 DEF Accepted, OwnsRest
      <3>2. CASE q # p
        <4>1. /\ post[q].step = "committed" /\ post'[q] = post[q] /\ PostsOf[q] \in Requests
              /\ PostsOf[q] # r
          BY <1>16, <2>1, <3>2
        <4>2. /\ receipts'[PostsOf[q]] = receipts[PostsOf[q]]
              /\ taken'[PostsOf[q]] = taken[PostsOf[q]] /\ background' = background
          BY <1>1, <1>8, <1>11, <4>1
        <4>3. ClassIs(q, "summarize")' = ClassIs(q, "summarize")
          BY <4>1 DEF ClassIs
        <4> QED
          BY <4>1, <4>2, <4>3 DEF BatchInv, CommitInv, OwnsRest, Accepted
      <3> QED
        BY <3>1, <3>2
    <2>2. ASSUME NEW q \in Posts, NEW s \in Posts, PostsOf[q] = PostsOf[s],
                 post'[q].step = "committed", post'[s].step = "committed"
          PROVE  q = s
      BY <1>7, <1>16, <2>2 DEF BatchInv, CommitInv, OwnsRest
    <2> QED
      BY <2>1, <2>2 DEF CommitInv
  <1> QED
    BY <1>1, <1>12, <1>13, <1>15, <1>17 DEF BatchInv, AutoLockInv

\* The task of a request starts with what the request left.
LEMMA StartStep ==
    ASSUME BatchInv, NEW p \in Posts, StartBackground(p)
    PROVE  BatchInv'
  <1> DEFINE r == PostsOf[p]
             later == ClassIs(p, "summarize")
  <1>1. /\ UNCHANGED <<receipts, artifacts, autoRun, autoLock, taken, batchLeft>>
        /\ post[p].step = "committed" /\ post' = [post EXCEPT ![p].step = "answered"]
        /\ background' = [background EXCEPT ![r] = later]
    BY DEF StartBackground, PostGo
  <1>2. BatchTyped /\ PostsTyped /\ r \in Requests
    BY BatchBounds DEF BatchInv, BatchTyped
  <1>3. /\ Accepted(r) /\ receipts[r].later = later
        /\ \A m \in later : m \in receipts[r].queued /\ taken[r][m] = 0
    BY <1>1 DEF BatchInv, CommitInv, OwnsRest
  <1>4. later \subseteq Listed
    BY DEF ClassIs
  <1> HIDE DEF later
  <1>5. /\ background' \in [Requests -> SUBSET Listed] /\ background'[r] = later
        /\ \A q \in Requests : q # r => background'[q] = background[q]
    BY <1>1, <1>2, <1>4 DEF BatchTyped
  <1>6. /\ PostsTyped' /\ post'[p].step = "answered"
        /\ \A q \in Posts : q # p => post'[q] = post[q]
    BY <1>1, <1>2 DEF PostsTyped, PostSteps
  <1>7. BatchTyped'
    BY <1>1, <1>2, <1>5, <1>6 DEF BatchTyped
  <1>8. SessionInv'
    BY <1>1 DEF BatchInv, SessionInv, Accepted
  <1>9. \A q \in Requests : q # r => (RequestCommitted(q)' <=> RequestCommitted(q))
    BY <1>6 DEF RequestCommitted
  <1>10. TakenInv'
    <2> SUFFICES ASSUME NEW q \in Requests, NEW m \in Listed
                 PROVE  /\ taken'[q][m] = 1 => Accepted(q)' /\ m \in receipts'[q].queued
                        /\ m \in background'[q] =>
                              Accepted(q)' /\ m \in receipts'[q].queued /\ taken'[q][m] = 0
                        /\ Accepted(q)' /\ m \in receipts'[q].queued /\ taken'[q][m] = 0 =>
                              /\ m \in receipts'[q].later
                              /\ m \in background'[q] \/ receipts'[q].session > batchLeft'
                                    \/ RequestCommitted(q)'
      BY DEF TakenInv
    <2>1. /\ receipts' = receipts /\ taken' = taken /\ batchLeft' = batchLeft
          /\ (Accepted(q)' <=> Accepted(q))
      BY <1>1 DEF Accepted
    <2>2. CASE q = r
      BY <1>3, <1>5, <2>1, <2>2 DEF BatchInv, TakenInv
    <2>3. CASE q # r
      BY <1>5, <1>9, <2>1, <2>3 DEF BatchInv, TakenInv
    <2> QED
      BY <2>2, <2>3
  <1>11. \A q \in Posts : post'[q].step = "committed" =>
            post[q].step = "committed" /\ PostsOf[q] # r /\ post'[q] = post[q] /\ PostsOf[q] \in Requests
    BY <1>1, <1>6, BatchBounds DEF BatchInv, CommitInv
  <1>12. CommitInv'
    BY <1>1, <1>5, <1>11 DEF BatchInv, CommitInv, OwnsRest, Accepted, ClassIs
  <1> QED
    BY <1>1, <1>7, <1>8, <1>10, <1>12 DEF BatchInv, AutoLockInv

\* The task runs one of its meetings.
LEMMA TaskRunsStep ==
    ASSUME BatchInv, NEW r \in Requests, RunBackground(r)
    PROVE  BatchInv'
  <1>1. UNCHANGED <<receipts, post, autoRun, autoLock, batchLeft>>
    BY DEF RunBackground
  <1>2. PICK m \in background[r] :
           /\ background' = [background EXCEPT ![r] = @ \ {m}]
           /\ Take(r, {m})
           /\ artifacts' = [artifacts EXCEPT ![m] = "done"] \/ UNCHANGED artifacts
    BY DEF RunBackground
  <1>3. BatchTyped /\ m \in Listed
    BY DEF BatchInv, BatchTyped
  <1>4. Accepted(r) /\ m \in receipts[r].queued /\ taken[r][m] = 0
    BY <1>3 DEF BatchInv, TakenInv
  <1>5. artifacts' \in [Listed -> Classes]
    BY <1>2, <1>3 DEF BatchTyped, Classes
  <1>6. /\ background' \in [Requests -> SUBSET Listed] /\ background'[r] = background[r] \ {m}
        /\ \A q \in Requests : q # r => background'[q] = background[q]
    BY <1>2, <1>3 DEF BatchTyped
  <1>7. /\ taken' \in [Requests -> [Listed -> 0..1]]
        /\ taken'[r][m] = 1 /\ \A n \in Listed : n # m => taken'[r][n] = taken[r][n]
        /\ \A q \in Requests : q # r => taken'[q] = taken[q]
    <2> DEFINE row == [n \in Listed |-> IF n \in {m} THEN taken[r][n] + 1 ELSE taken[r][n]]
    <2>1. taken' = [taken EXCEPT ![r] = row]
      BY <1>2, <1>3 DEF Take, BatchTyped
    <2>2. row[m] = 1 /\ \A n \in Listed : n # m => row[n] = taken[r][n]
      BY <1>3, <1>4
    <2>3. \A n \in Listed : taken[r][n] \in 0..1
      BY <1>3 DEF BatchTyped
    <2>4. row \in [Listed -> 0..1]
      BY <2>2, <2>3
    <2> HIDE DEF row
    <2> QED
      BY <1>3, <2>1, <2>2, <2>4 DEF BatchTyped
  <1>8. BatchTyped'
    BY <1>1, <1>3, <1>5, <1>6, <1>7 DEF BatchTyped, PostsTyped
  <1>9. SessionInv'
    BY <1>1 DEF BatchInv, SessionInv, Accepted
  <1>10. \A q \in Requests : RequestCommitted(q)' <=> RequestCommitted(q)
    BY <1>1 DEF RequestCommitted
  <1>11. TakenInv'
    <2> SUFFICES ASSUME NEW q \in Requests, NEW n \in Listed
                 PROVE  /\ taken'[q][n] = 1 => Accepted(q)' /\ n \in receipts'[q].queued
                        /\ n \in background'[q] =>
                              Accepted(q)' /\ n \in receipts'[q].queued /\ taken'[q][n] = 0
                        /\ Accepted(q)' /\ n \in receipts'[q].queued /\ taken'[q][n] = 0 =>
                              /\ n \in receipts'[q].later
                              /\ n \in background'[q] \/ receipts'[q].session > batchLeft'
                                    \/ RequestCommitted(q)'
      BY DEF TakenInv
    <2>1. /\ receipts' = receipts /\ batchLeft' = batchLeft /\ (Accepted(q)' <=> Accepted(q))
      BY <1>1 DEF Accepted
    <2>2. CASE q = r /\ n = m
      BY <1>4, <1>6, <1>7, <2>1, <2>2
    <2>3. CASE q # r \/ n # m
      BY <1>6, <1>7, <1>10, <2>1, <2>3 DEF BatchInv, TakenInv
    <2> QED
      BY <2>2, <2>3
  <1>12. \A p \in Posts : post[p].step = "committed" => PostsOf[p] # r /\ PostsOf[p] \in Requests
    BY BatchBounds DEF BatchInv, CommitInv, OwnsRest
  <1>13. \A p \in Posts : post'[p].step = "committed" => OwnsRest(p)'
    <2> SUFFICES ASSUME NEW p \in Posts, post'[p].step = "committed"
                 PROVE  OwnsRest(p)'
      OBVIOUS
    <2>1. OwnsRest(p) /\ PostsOf[p] # r /\ PostsOf[p] \in Requests
      BY <1>1, <1>12 DEF BatchInv, CommitInv
    <2>2. ClassIs(p, "summarize")' = ClassIs(p, "summarize")
      BY <1>1 DEF ClassIs
    <2>3. /\ receipts'[PostsOf[p]] = receipts[PostsOf[p]]
          /\ taken'[PostsOf[p]] = taken[PostsOf[p]]
          /\ background'[PostsOf[p]] = background[PostsOf[p]]
      BY <1>1, <1>6, <1>7, <2>1
    <2> QED
      BY <2>1, <2>2, <2>3 DEF OwnsRest, Accepted
  <1>14. CommitInv'
    BY <1>1, <1>13 DEF BatchInv, CommitInv
  <1> QED
    BY <1>1, <1>8, <1>9, <1>11, <1>14 DEF BatchInv, AutoLockInv

\* The next session: what an earlier one left is interrupted.
LEMMA RestartStep ==
    ASSUME BatchInv, BatchRestart
    PROVE  BatchInv'
  <1>1. /\ batchLeft > 0 /\ batchLeft' = batchLeft - 1
        /\ background' = [r \in Requests |-> {}] /\ autoRun' = IdleAuto /\ autoLock' = FALSE
        /\ UNCHANGED <<receipts, artifacts, taken>>
    BY DEF BatchRestart
  <1>2. BatchTyped /\ PostsTyped
    BY DEF BatchInv, BatchTyped
  <1>3. IdlePost \in [step : PostSteps, class : [Listed -> Classes \cup {"unread", "out"}],
                      checked : SUBSET Listed] /\ IdlePost.step # "committed"
    BY DEF IdlePost, Unread, PostSteps
  <1>4. /\ PostsTyped' /\ \A p \in Posts : post'[p].step # "committed"
    BY <1>2, <1>3 DEF BatchRestart, PostsTyped
  <1>5. autoRun' \in [step : {"idle", "reserved", "prepare", "run"},
                      chosen : SUBSET (Listed \X Classes)] /\ AutoLockInv'
    BY <1>1 DEF IdleAuto, AutoLockInv
  <1>6. batchLeft' \in Nat /\ batchLeft' < batchLeft /\ batchLeft \in Nat
    BY <1>1, <1>2 DEF BatchTyped
  <1>7. BatchTyped'
    BY <1>1, <1>2, <1>4, <1>5, <1>6 DEF BatchTyped
  <1>8. \A r \in Requests : Accepted(r) =>
           receipts[r].session \in Nat /\ receipts[r].session > batchLeft'
    BY <1>6 DEF BatchInv, SessionInv
  <1>9. SessionInv' /\ TakenInv' /\ CommitInv'
    BY <1>1, <1>4, <1>6, <1>8 DEF BatchInv, SessionInv, TakenInv, CommitInv, Accepted
  <1> QED
    BY <1>5, <1>7, <1>9 DEF BatchInv

\* Every step of the batch requests, the nightly run and a restart keeps the
\* invariant.
THEOREM BatchStep == BatchInv /\ [BatchNext]_batchVars => BatchInv'
  <1> SUFFICES ASSUME BatchInv, [BatchNext]_batchVars
               PROVE  BatchInv'
    OBVIOUS
  <1>1. CASE \/ \E p \in Posts :
                  ReadReceipt(p) \/ PrepareMeeting(p) \/ RecheckMeeting(p) \/ CommitBatch(p)
                      \/ RefuseBatch(p) \/ StartBackground(p)
             \/ \E r \in Requests : RunBackground(r)
    BY <1>1, PostStepsKeep, CommitStep, RefuseStep, StartStep, TaskRunsStep
  <1>2. CASE ReserveAuto \/ StartReserved \/ PrepareAuto \/ AutoItem \/ AutoEnds \/ AutoStopped
    BY <1>2, AutoSteps
  <1>3. CASE OthersMoveRows \/ BatchRestart
    BY <1>3, OthersMoveStep, RestartStep
  <1>4. CASE UNCHANGED batchVars
    <2>1. UNCHANGED <<receipts, artifacts, background, taken, batchLeft, post, autoRun, autoLock>>
      BY <1>4 DEF batchVars, batchLocals
    <2>2. /\ artifacts' \in [Listed -> Classes] /\ PostsTyped' /\ AutoLockInv'
          /\ autoRun' \in [step : {"idle", "reserved", "prepare", "run"},
                           chosen : SUBSET (Listed \X Classes)]
      BY <2>1 DEF BatchInv, BatchTyped, PostsTyped, AutoLockInv
    <2> QED
      BY <2>1, <2>2, RequestsKeep
  <1> QED
    BY <1>1, <1>2, <1>3, <1>4 DEF BatchNext

\* It holds before the first request.
THEOREM BatchInitInv == BatchLocals => BatchInv
  <1> SUFFICES ASSUME BatchLocals PROVE BatchInv
    OBVIOUS
  <1>1. /\ receipts = [r \in Requests |-> NoReceipt] /\ batchLeft = MaxBatchStops
        /\ artifacts \in [Listed -> Classes] /\ post = [p \in Posts |-> IdlePost]
        /\ background = [r \in Requests |-> {}] /\ autoRun = IdleAuto /\ autoLock = FALSE
        /\ taken = [r \in Requests |-> [m \in Listed |-> 0]]
    BY DEF BatchLocals, ReceiptsInit
  <1>2. IdlePost \in [step : PostSteps, class : [Listed -> Classes \cup {"unread", "out"}],
                      checked : SUBSET Listed] /\ IdlePost.step # "committed"
    BY DEF IdlePost, Unread, PostSteps
  <1>3. BatchTyped
    BY <1>1, <1>2, BatchBounds DEF BatchTyped, PostsTyped, IdleAuto
  <1>4. \A r \in Requests : ~Accepted(r) /\ background[r] = {}
    BY <1>1 DEF Accepted
  <1>5. SessionInv /\ TakenInv /\ CommitInv /\ AutoLockInv
    BY <1>1, <1>2, <1>4, BatchBounds DEF SessionInv, TakenInv, CommitInv, AutoLockInv, IdleAuto
  <1> QED
    BY <1>3, <1>5 DEF BatchInv

------------------------------------------------------------------------------
(* The titles: an item is worth the title its request was accepted with. *)

Outcomes == {"none", "running", "pipeline_completed"} \cup FinalOutcomes
Titles == {Untitled, "user"} \cup Requests
TitleRows == [title : Titles, rev : Nat, status : {"completed", "busy"}]

\* An item of an accepted request, read while the title was that of the receipt.
TitleItems ==
    [step : {"queued", "check", "generate", "apply"}, request : Requests, meeting : Titled,
     row : TitleRows, revision : Nat, follows : BOOLEAN]

Promised ==
    {item \in TitleItems :
        /\ Accepted(item.request)
        /\ item.row.title = receipts[item.request].titles[item.meeting]}

TitlesTyped ==
    /\ DOMAIN receipts = Requests
    /\ outcome \in [Requests -> [Listed -> Outcomes]]
    /\ titled \in [Listed -> TitleRows] /\ transcript \in [Listed -> Nat]

ReceiptInv ==
    \A r \in Requests :
        /\ Accepted(r) => receipts[r].action \in {"title", "full_title"}
        /\ \A m \in Listed : outcome[r][m] # "none" => Accepted(r)

\* What an undo needs to know of a generated title: it is named after its request.
EventInv ==
    /\ titleEvents \in [Requests -> [Listed ->
          {NoWork} \cup [step : {"completed", "restored"}, previous : Titles, applied : Titles,
                         rev : Nat]]]
    /\ \A r \in Requests, m \in Listed :
          titleEvents[r][m].step = "completed" => titleEvents[r][m].applied = r

\* A request being admitted has read each of its meetings once.
AdmissionInv ==
    \/ admission = NoWork
    \/ /\ admission.step = "read" /\ admission.request \in Requests
       /\ admission.items \subseteq TitleItems /\ IsFiniteSet(admission.items)
       /\ \A i, j \in admission.items :
             i.request = admission.request /\ (i.meeting = j.meeting => i = j)

ItemsInv == items \in Seq(Promised) /\ titleWork \in Promised \cup {NoWork}

UndoInv ==
    \/ undoing = NoWork
    \/ /\ undoing.step = "read" /\ undoing.request \in Requests /\ undoing.meeting \in Titled
       /\ undoing.row.title = undoing.request
       /\ titleEvents[undoing.request][undoing.meeting] # NoWork

TitleInv == TitlesTyped /\ ReceiptInv /\ EventInv /\ AdmissionInv /\ ItemsInv /\ UndoInv

\* The outcomes of a step that neither applies nor restores a title.
QuietOutcome ==
    /\ outcome' \in [Requests -> [Listed -> Outcomes]]
    /\ \A r \in Requests, m \in Listed :
          \/ outcome'[r][m] = outcome[r][m]
          \/ /\ OutcomeOpen(r, m) /\ Accepted(r)
             /\ outcome'[r][m] \notin {"none", "completed", "restored"}

\* A step that applies and restores nothing is one TitleStep allows.
LEMMA QuietStep ==
    ASSUME TitleInv, QuietOutcome
    PROVE  TitleStep
  <1>1. OutcomeKept
    BY DEF QuietOutcome, OutcomeKept, OutcomeOpen
  <1> QED
    BY <1>1 DEF QuietOutcome, TitleStep

\* So is one that records nothing.
LEMMA SameOutcome ==
    ASSUME TitleInv, UNCHANGED outcome
    PROVE  QuietOutcome
  BY DEF TitleInv, TitlesTyped, QuietOutcome

\* record_batch_event, and the event of a run, with a status that is no result.
LEMMA EventQuiet ==
    ASSUME TitleInv, NEW r \in Requests, NEW m \in Listed,
           NEW status \in Outcomes \ {"none", "completed", "restored"}, RecordEvent(r, m, status)
    PROVE  QuietOutcome
  BY DEF TitleInv, TitlesTyped, RecordEvent, QuietOutcome

\* The event of a run that ends is recorded with one open request that was accepted
\* (record_run_event).
LEMMA RunEventQuiet ==
    ASSUME TitleInv, NEW m \in Listed, NEW status \in {"completed", "failed"},
           RecordRunEvent(m, status)
    PROVE  QuietOutcome
  <1>1. CASE UNCHANGED outcome
    BY <1>1, SameOutcome
  <1>2. ASSUME NEW r \in OpenFor(m), outcome' = [outcome EXCEPT ![r][m] = Recorded(r, status)]
        PROVE  QuietOutcome
    <2>1. r \in Requests /\ Accepted(r) /\ OutcomeOpen(r, m) /\ receipts[r].action = "full_title"
      BY <1>2 DEF OpenFor, TitleInv, ReceiptInv
    <2>2. Recorded(r, status) \in Outcomes \ {"none", "completed", "restored"}
      BY <2>1 DEF Recorded, Outcomes, FinalOutcomes
    <2> QED
      BY <1>2, <2>1, <2>2 DEF TitleInv, TitlesTyped, QuietOutcome
  <1> QED
    BY <1>1, <1>2 DEF RecordRunEvent

\* A step that writes no receipt and applies no title.
LEMMA TitleMoves ==
    ASSUME TitleInv, UNCHANGED <<receipts, titleEvents>>, QuietOutcome,
           titled' \in [Listed -> TitleRows], transcript' \in [Listed -> Nat],
           AdmissionInv', items' \in Seq(Promised), titleWork' \in Promised \cup {NoWork}, UndoInv'
    PROVE  TitleInv' /\ TitleStep
  <1>1. TitlesTyped' /\ EventInv'
    BY DEF TitleInv, TitlesTyped, EventInv, QuietOutcome
  <1>2. ReceiptInv'
    BY DEF TitleInv, ReceiptInv, QuietOutcome, Accepted
  <1>3. Promised' = Promised
    BY DEF Promised, Accepted
  <1>4. ItemsInv'
    BY <1>3 DEF ItemsInv
  <1> QED
    BY <1>1, <1>2, <1>4, QuietStep DEF TitleInv

\* A row written keeps its fields.
LEMMA RowFields ==
    ASSUME TitleInv, NEW m \in Listed, NEW row \in TitleRows, RowWritten(m, row)
    PROVE  /\ titled' \in [Listed -> TitleRows] /\ titled'[m].title = row.title
           /\ \A n \in Listed : n # m => titled'[n] = titled[n]
  <1> DEFINE rev == titled[m].rev + 1
             written == [row EXCEPT !.rev = rev]
  <1>1. rev \in Nat /\ titled' = [titled EXCEPT ![m] = written]
    BY DEF TitleInv, TitlesTyped, TitleRows, RowWritten
  <1> HIDE DEF rev
  <1>2. written \in TitleRows /\ written.title = row.title
    BY <1>1 DEF TitleRows
  <1> HIDE DEF written
  <1> QED
    BY <1>1, <1>2 DEF TitleInv, TitlesTyped

\* What users and the queue write to rows and transcripts stays typed, and touches
\* no item.
LEMMA OthersWriteStep ==
    ASSUME TitleInv, OthersWrite
    PROVE  TitleInv' /\ TitleStep
  <1>1. UNCHANGED <<receipts, outcome, titleEvents, admission, pending, items, titleWork, undoing>>
    BY DEF OthersWrite
  <1>2. PICK m \in Titled :
          \/ (Renamed(m) \/ StatusChanged(m)) /\ UNCHANGED transcript
          \/ transcript' = [transcript EXCEPT ![m] = @ + 1] /\ UNCHANGED titled
    BY DEF OthersWrite
  <1>3. m \in Listed /\ titled[m] \in TitleRows /\ TitlesTyped
    BY TitleBounds DEF TitleInv, TitlesTyped
  <1>4. titled' \in [Listed -> TitleRows] /\ transcript' \in [Listed -> Nat]
    <2>1. CASE Renamed(m) /\ UNCHANGED transcript
      <3>1. PICK title \in {"user", Untitled} : RowWritten(m, [titled[m] EXCEPT !.title = title])
        BY <2>1 DEF Renamed
      <3>2. title \in Titles
        BY DEF Titles
      <3>3. [titled[m] EXCEPT !.title = title] \in TitleRows
        BY <1>3, <3>2 DEF TitleRows
      <3> QED
        BY <1>3, <2>1, <3>1, <3>3, RowFields DEF TitlesTyped
    <2>2. CASE StatusChanged(m) /\ UNCHANGED transcript
      <3> DEFINE status == IF titled[m].status = "busy" THEN "completed" ELSE "busy"
                 row == [titled[m] EXCEPT !.status = status]
      <3>1. status \in {"busy", "completed"}
        OBVIOUS
      <3>2. RowWritten(m, row)
        BY <1>3, <2>2 DEF StatusChanged, TitleRows
      <3> HIDE DEF status
      <3>3. row \in TitleRows
        BY <1>3, <3>1 DEF TitleRows
      <3> QED
        BY <1>3, <2>2, <3>2, <3>3, RowFields DEF TitlesTyped
    <2>3. CASE transcript' = [transcript EXCEPT ![m] = @ + 1] /\ UNCHANGED titled
      <3>1. transcript[m] \in Nat
        BY <1>3 DEF TitlesTyped
      <3>2. transcript[m] + 1 \in Nat
        BY <3>1
      <3> QED
        BY <1>3, <2>3, <3>2 DEF TitlesTyped
    <2> QED
      BY <1>2, <2>1, <2>2, <2>3
  <1>5. AdmissionInv' /\ UndoInv' /\ items' \in Seq(Promised) /\ titleWork' \in Promised \cup {NoWork}
    BY <1>1 DEF TitleInv, AdmissionInv, UndoInv, ItemsInv
  <1> QED
    BY <1>1, <1>4, <1>5, SameOutcome, TitleMoves

\* An item of a listed meeting holds the row as it is.
LEMMA ItemRead ==
    ASSUME TitleInv, NEW r \in Requests, NEW m \in Titled, NEW follows \in BOOLEAN
    PROVE  /\ TitleItem(r, m, follows) \in TitleItems
           /\ TitleItem(r, m, follows).request = r /\ TitleItem(r, m, follows).meeting = m
           /\ TitleItem(r, m, follows).row = titled[m]
  <1>1. titled[m] \in TitleRows /\ transcript[m] \in Nat
    BY TitleBounds DEF TitleInv, TitlesTyped
  <1> QED
    BY <1>1 DEF TitleItem, TitleItems

\* The rows of a request are read once each (submit of meeting_titles.py).
LEMMA AdmitStep ==
    ASSUME TitleInv, NEW r \in Requests, AdmitTitles(r)
    PROVE  TitleInv' /\ TitleStep
  <1>1. UNCHANGED <<receipts, outcome, titled, transcript, titleEvents, items, titleWork, undoing>>
    BY DEF AdmitTitles
  <1>2. PICK chosen \in SUBSET Titled \ {{}} :
          admission' = [step |-> "read", request |-> r, chosen |-> chosen,
                        items |-> {TitleItem(r, m, FALSE) : m \in
                            {n \in chosen : /\ n \notin pending
                                            /\ titled[n].status = "completed"
                                            /\ LeaseFree(n)}}]
    BY DEF AdmitTitles
  <1> DEFINE those == {n \in chosen : /\ n \notin pending /\ titled[n].status = "completed"
                                      /\ LeaseFree(n)}
             read == {TitleItem(r, m, FALSE) : m \in those}
             f == [m \in those |-> TitleItem(r, m, FALSE)]
  <1>3. those \subseteq Titled /\ IsFiniteSet(those)
    BY TitleBounds, FS_Subset
  <1> HIDE DEF those
  <1>4. \A m \in those : /\ TitleItem(r, m, FALSE) \in TitleItems
                         /\ TitleItem(r, m, FALSE).request = r
                         /\ TitleItem(r, m, FALSE).meeting = m
    <2> TAKE m \in those
    <2>1. m \in Titled
      BY <1>3
    <2>2. FALSE \in BOOLEAN
      OBVIOUS
    <2> QED
      BY <2>1, <2>2, ItemRead
  <1>5. f \in Surjection(those, read)
    BY DEF Surjection
  <1>6. IsFiniteSet(read)
    BY <1>3, <1>5, FS_Surjection
  <1>7. read \subseteq TitleItems /\ \A i, j \in read : i.request = r /\ (i.meeting = j.meeting => i = j)
    BY <1>4
  <1>8. admission' = [step |-> "read", request |-> r, chosen |-> chosen, items |-> read]
    BY <1>2 DEF those
  <1> HIDE DEF read
  <1>9. AdmissionInv'
    BY <1>6, <1>7, <1>8 DEF AdmissionInv
  <1>10. /\ UndoInv' /\ items' \in Seq(Promised) /\ titleWork' \in Promised \cup {NoWork}
         /\ titled' \in [Listed -> TitleRows] /\ transcript' \in [Listed -> Nat]
    BY <1>1 DEF TitleInv, TitlesTyped, UndoInv, ItemsInv
  <1> QED
    BY <1>1, <1>9, <1>10, SameOutcome, TitleMoves

\* A receipt written keeps what was promised.
LEMMA ReceiptWritten ==
    ASSUME TitleInv, NEW r \in Requests, NEW receipt, receipt # NoReceipt,
           receipt.action \in {"title", "full_title"}, SaveReceipt(r, receipt),
           UNCHANGED <<outcome, titled, transcript, titleEvents>>
    PROVE  /\ TitlesTyped' /\ ReceiptInv' /\ EventInv' /\ TitleStep
           /\ receipts'[r] = receipt /\ Accepted(r)' /\ Promised \subseteq Promised'
  <1>1. /\ ~Accepted(r) /\ DOMAIN receipts' = Requests /\ receipts'[r] = receipt
        /\ \A q \in Requests : q # r => receipts'[q] = receipts[q]
    BY DEF SaveReceipt, Accepted, TitleInv, TitlesTyped
  <1>2. TitlesTyped' /\ ReceiptInv' /\ EventInv'
    BY <1>1 DEF TitleInv, TitlesTyped, ReceiptInv, EventInv, Accepted
  <1>3. Promised \subseteq Promised' /\ Accepted(r)'
    BY <1>1 DEF Promised, TitleItems, Accepted
  <1> QED
    BY <1>1, <1>2, <1>3, SameOutcome, QuietStep

\* The items appended to the queue are those of the request.
LEMMA AppendedIs ==
    ASSUME NEW more, IsFiniteSet(more)
    PROVE  Appended(more) \in Seq(more)
  <1> DEFINE n == Cardinality(more)
  <1>1. n \in Nat /\ ExistsBijection(1..n, more)
    BY FS_CardinalityType
  <1> HIDE DEF n
  <1>2. PICK s \in [1..n -> more] : \A i, j \in DOMAIN s : i # j => s[i] # s[j]
    BY <1>1 DEF ExistsBijection, Bijection, Injection, IsInjective
  <1>3. Appended(more) \in [1..n -> more]
    BY <1>2 DEF Appended, n
  <1> QED
    BY <1>1, <1>3

\* The receipt of a request keeps the title that each item was read with.
LEMMA AcceptStep ==
    ASSUME TitleInv, AcceptTitles
    PROVE  TitleInv' /\ TitleStep
  <1>0. admission.request \in Requests
    BY DEF AcceptTitles, TitleInv, AdmissionInv, NoWork
  <1>. PICK r \in Requests : r = admission.request
    BY <1>0
  <1> DEFINE admitted == {item.meeting : item \in admission.items}
             titles == [m \in admitted |->
                          (CHOOSE item \in admission.items : item.meeting = m).row.title]
             receipt == [action |-> "title", queued |-> admitted, at |-> NextReceipt,
                         session |-> titleLeft.stops, titles |-> titles]
  <1>1. /\ admission.step = "read" /\ SaveReceipt(r, receipt)
        /\ items' = items \o Appended(admission.items) /\ admission' = NoWork
        /\ UNCHANGED <<outcome, titled, transcript, titleEvents, titleWork, undoing>>
    BY DEF AcceptTitles
  <1>2. /\ r \in Requests /\ admission.items \subseteq TitleItems /\ IsFiniteSet(admission.items)
        /\ \A i, j \in admission.items : i.request = r /\ (i.meeting = j.meeting => i = j)
    BY <1>1 DEF TitleInv, AdmissionInv, NoWork
  <1>3. \A i \in admission.items : titles[i.meeting] = i.row.title
    <2> SUFFICES ASSUME NEW i \in admission.items
                 PROVE  titles[i.meeting] = i.row.title
      OBVIOUS
    <2>1. (CHOOSE item \in admission.items : item.meeting = i.meeting) = i
      BY <1>2
    <2> QED
      BY <2>1
  <1> HIDE DEF titles, admitted
  <1>4. receipt # NoReceipt /\ receipt.action \in {"title", "full_title"} /\ receipt.titles = titles
    BY DEF NoReceipt
  <1> HIDE DEF receipt
  <1>5. /\ TitlesTyped' /\ ReceiptInv' /\ EventInv' /\ TitleStep
        /\ receipts'[r] = receipt /\ Accepted(r)' /\ Promised \subseteq Promised'
    BY <1>1, <1>2, <1>4, ReceiptWritten
  <1>6. admission.items \subseteq Promised'
    BY <1>2, <1>3, <1>4, <1>5 DEF Promised, Accepted
  <1> DEFINE more == Appended(admission.items)
             good == Promised'
  <1>7. more \in Seq(admission.items) /\ items \in Seq(Promised)
    BY <1>2, AppendedIs DEF TitleInv, ItemsInv
  <1> HIDE DEF more, good
  <1>8. Promised \subseteq good /\ admission.items \subseteq good
    BY <1>5, <1>6 DEF good
  <1>9. more \in Seq(good) /\ items \in Seq(good)
    BY <1>7, <1>8, SeqMonotonic
  <1>10. items \o more \in Seq(good)
    BY <1>9, ConcatProperties
  <1>11. ItemsInv'
    BY <1>1, <1>8, <1>10 DEF ItemsInv, TitleInv, good, more
  <1>12. AdmissionInv' /\ UndoInv'
    BY <1>1 DEF TitleInv, AdmissionInv, UndoInv
  <1> QED
    BY <1>5, <1>11, <1>12 DEF TitleInv

\* So does the receipt of a batch that goes on with titles.
LEMMA AcceptBatchStep ==
    ASSUME TitleInv, NEW r \in Requests, AcceptBatch(r)
    PROVE  TitleInv' /\ TitleStep
  <1>1. PICK m \in Titled :
          SaveReceipt(r, [action |-> "full_title", queued |-> {m}, at |-> NextReceipt,
                          session |-> titleLeft.stops,
                          titles |-> [n \in {m} |-> titled[m].title]])
    BY DEF AcceptBatch
  <1> DEFINE receipt == [action |-> "full_title", queued |-> {m}, at |-> NextReceipt,
                         session |-> titleLeft.stops,
                         titles |-> [n \in {m} |-> titled[m].title]]
  <1>2. receipt # NoReceipt /\ receipt.action \in {"title", "full_title"} /\ SaveReceipt(r, receipt)
    BY <1>1 DEF NoReceipt
  <1> HIDE DEF receipt
  <1>3. UNCHANGED <<outcome, titled, transcript, titleEvents, admission, items, titleWork, undoing>>
    BY DEF AcceptBatch
  <1>4. TitlesTyped' /\ ReceiptInv' /\ EventInv' /\ TitleStep /\ Promised \subseteq Promised'
    BY <1>2, <1>3, ReceiptWritten
  <1> DEFINE good == Promised'
  <1>5. Promised \subseteq good /\ items \in Seq(Promised)
    BY <1>4 DEF TitleInv, ItemsInv
  <1> HIDE DEF good
  <1>6. items \in Seq(good)
    BY <1>5, SeqMonotonic
  <1>7. ItemsInv'
    BY <1>3, <1>5, <1>6 DEF ItemsInv, TitleInv, good
  <1>8. AdmissionInv' /\ UndoInv'
    BY <1>3 DEF TitleInv, AdmissionInv, UndoInv
  <1> QED
    BY <1>4, <1>7, <1>8 DEF TitleInv

\* A step that changes outcomes and the queue of the worker alone.
LEMMA WorkMoves ==
    ASSUME TitleInv, UNCHANGED <<receipts, titled, transcript, titleEvents, admission, undoing>>,
           QuietOutcome, items' \in Seq(Promised), titleWork' \in Promised \cup {NoWork}
    PROVE  TitleInv' /\ TitleStep
  <1>1. AdmissionInv' /\ UndoInv'
    BY DEF TitleInv, AdmissionInv, UndoInv
  <1>2. titled' \in [Listed -> TitleRows] /\ transcript' \in [Listed -> Nat]
    BY DEF TitleInv, TitlesTyped
  <1> QED
    BY <1>1, <1>2, TitleMoves

\* The end of a pipeline records its event and nothing else.
LEMMA PipelineEndsStep ==
    ASSUME TitleInv, NEW m \in Titled, PipelineEnds(m)
    PROVE  TitleInv' /\ TitleStep
  <1>1. PICK status \in {"completed", "failed"} : RecordRunEvent(m, status)
    BY DEF PipelineEnds
  <1>2. m \in Listed
    BY TitleBounds
  <1>3. QuietOutcome
    BY <1>1, <1>2, RunEventQuiet
  <1>4. items' \in Seq(Promised) /\ titleWork' \in Promised \cup {NoWork}
    BY DEF PipelineEnds, TitleInv, ItemsInv
  <1> QED
    BY <1>3, <1>4, WorkMoves DEF PipelineEnds

\* A batch goes on with a title only where the title is still the one it was
\* accepted with (follow_batch_titles).
LEMMA FollowUpStep ==
    ASSUME TitleInv, NEW r \in Requests, NEW m \in Titled, FollowUp(r, m)
    PROVE  TitleInv' /\ TitleStep
  <1>1. m \in Listed
    BY TitleBounds
  <1>2. UNCHANGED <<receipts, titled, transcript, titleEvents, admission, titleWork, undoing>>
        /\ Accepted(r)
    BY <1>1 DEF FollowUp, TitleInv, ReceiptInv
  <1>3. items \in Seq(Promised) /\ titleWork' \in Promised \cup {NoWork}
    BY <1>2 DEF TitleInv, ItemsInv
  <1>4. CASE m \notin pending /\ titled[m].status = "completed"
             /\ titled[m].title = receipts[r].titles[m]
    <2>1. RecordEvent(r, m, "running") /\ items' = Append(items, TitleItem(r, m, TRUE))
      BY <1>4 DEF FollowUp
    <2>2. QuietOutcome
      BY <1>1, <2>1, EventQuiet DEF Outcomes, FinalOutcomes
    <2> DEFINE item == TitleItem(r, m, TRUE)
    <2>3. item \in TitleItems /\ item.request = r /\ item.meeting = m /\ item.row = titled[m]
      BY ItemRead
    <2> HIDE DEF item
    <2>4. item \in Promised
      BY <1>2, <1>4, <2>3 DEF Promised
    <2>5. Append(items, item) \in Seq(Promised)
      BY <1>3, <2>4, AppendProperties
    <2> QED
      BY <1>2, <1>3, <2>1, <2>2, <2>5, WorkMoves DEF item
  <1>5. CASE ~(m \notin pending /\ titled[m].status = "completed"
               /\ titled[m].title = receipts[r].titles[m])
    <2>1. RecordEvent(r, m, "skipped") /\ UNCHANGED items
      BY <1>5 DEF FollowUp
    <2>2. QuietOutcome
      BY <1>1, <2>1, EventQuiet DEF Outcomes, FinalOutcomes
    <2> QED
      BY <1>2, <1>3, <2>1, <2>2, WorkMoves
  <1> QED
    BY <1>4, <1>5

\* An item at another step is still promised.
LEMMA StepPromised ==
    ASSUME NEW item \in Promised, NEW step \in {"queued", "check", "generate", "apply"}
    PROVE  [item EXCEPT !.step = step] \in Promised
  <1>1. item \in TitleItems /\ Accepted(item.request)
        /\ item.row.title = receipts[item.request].titles[item.meeting]
    BY DEF Promised
  <1> DEFINE next == [item EXCEPT !.step = step]
  <1>2. next \in TitleItems /\ next.request = item.request /\ next.meeting = item.meeting
        /\ next.row = item.row
    BY <1>1 DEF TitleItems
  <1> HIDE DEF next
  <1>3. next \in Promised
    BY <1>1, <1>2 DEF Promised
  <1> QED
    BY <1>3 DEF next

\* The worker takes the first item, as it was queued.
LEMMA TakeItemStep ==
    ASSUME TitleInv, TakeItem
    PROVE  TitleInv' /\ TitleStep
  <1>1. /\ items \in Seq(Promised) /\ items # <<>> /\ titleWork' = [Head(items) EXCEPT !.step = "check"]
        /\ items' = Tail(items) /\ UNCHANGED outcome
    BY DEF TakeItem, TitleInv, ItemsInv
  <1>2. Head(items) \in Promised /\ Tail(items) \in Seq(Promised)
    BY <1>1, HeadTailProperties
  <1>3. titleWork' \in Promised
    BY <1>1, <1>2, StepPromised
  <1> QED
    BY <1>1, <1>2, <1>3, SameOutcome, WorkMoves DEF TakeItem, WorkerRest

\* The item the worker has.
LEMMA WorkHeld ==
    ASSUME TitleInv, titleWork.step \in {"check", "generate", "apply"}
    PROVE  /\ titleWork \in Promised /\ titleWork.request \in Requests
           /\ titleWork.meeting \in Titled /\ titleWork.meeting \in Listed
           /\ Accepted(titleWork.request)
           /\ titleWork.row.title = receipts[titleWork.request].titles[titleWork.meeting]
           /\ titleWork.row \in TitleRows
  <1>1. titleWork \in Promised
    BY DEF TitleInv, ItemsInv, NoWork
  <1> QED
    BY <1>1, TitleBounds DEF Promised, TitleItems

\* It drops an item that was cancelled or whose row or transcript changed.
LEMMA CheckItemStep ==
    ASSUME TitleInv, CheckItem
    PROVE  TitleInv' /\ TitleStep
  <1>1. titleWork.step = "check" /\ UNCHANGED items /\ WorkerRest
    BY DEF CheckItem
  <1>2. PICK r \in Requests, m \in Listed :
          r = titleWork.request /\ m = titleWork.meeting /\ titleWork \in Promised
    BY <1>1, WorkHeld
  <1>3. items' \in Seq(Promised)
    BY <1>1 DEF TitleInv, ItemsInv
  <1>4. CASE DropItem /\ UNCHANGED outcome
    BY <1>1, <1>3, <1>4, SameOutcome, WorkMoves DEF DropItem, WorkerRest
  <1>5. CASE DropItem /\ RecordEvent(r, m, "skipped")
    <2>1. QuietOutcome
      BY <1>5, EventQuiet DEF Outcomes, FinalOutcomes
    <2> QED
      BY <1>1, <1>3, <1>5, <2>1, WorkMoves DEF DropItem, WorkerRest
  <1>6. CASE titleWork' = [titleWork EXCEPT !.step = "generate"] /\ RecordEvent(r, m, "running")
    <2>1. QuietOutcome
      BY <1>6, EventQuiet DEF Outcomes, FinalOutcomes
    <2>2. titleWork' \in Promised
      BY <1>2, <1>6, StepPromised
    <2> QED
      BY <1>1, <1>3, <2>1, <2>2, WorkMoves DEF WorkerRest
  <1> QED
    BY <1>2, <1>4, <1>5, <1>6 DEF CheckItem

\* The model generates a title, or fails.
LEMMA GenerateStep ==
    ASSUME TitleInv, GenerateTitle
    PROVE  TitleInv' /\ TitleStep
  <1>1. titleWork.step = "generate" /\ UNCHANGED items /\ WorkerRest
    BY DEF GenerateTitle
  <1>2. PICK r \in Requests, m \in Listed :
          r = titleWork.request /\ m = titleWork.meeting /\ titleWork \in Promised
    BY <1>1, WorkHeld
  <1>3. items' \in Seq(Promised)
    BY <1>1 DEF TitleInv, ItemsInv
  <1>4. CASE titleWork' = [titleWork EXCEPT !.step = "apply"] /\ UNCHANGED outcome
    <2>1. titleWork' \in Promised
      BY <1>2, <1>4, StepPromised
    <2> QED
      BY <1>1, <1>3, <1>4, <2>1, SameOutcome, WorkMoves DEF WorkerRest
  <1>5. CASE DropItem /\ RecordEvent(r, m, "failed")
    <2>1. QuietOutcome
      BY <1>5, EventQuiet DEF Outcomes, FinalOutcomes
    <2> QED
      BY <1>1, <1>3, <1>5, <2>1, WorkMoves DEF DropItem, WorkerRest
  <1> QED
    BY <1>2, <1>4, <1>5 DEF GenerateTitle

\* What apply_generated_title does to the rows, the outcomes and the events.
LEMMA AppliedTyped ==
    ASSUME TitleInv, NEW r \in Requests, NEW m \in Listed, NEW row, NEW title \in Titles,
           NEW status \in {"completed", "restored"}, row = titled[m],
           TitleApplied(r, m, row, title, status), UNCHANGED <<receipts, transcript>>,
           Accepted(r), status = "completed" => title = r
    PROVE  /\ TitlesTyped' /\ ReceiptInv' /\ EventInv'
           /\ titled'[m].title = title /\ outcome'[r][m] = status
           /\ \A q \in Requests, n \in Listed :
                 (q # r \/ n # m) => outcome'[q][n] = outcome[q][n]
           /\ \A q \in Requests, n \in Listed :
                 titleEvents[q][n] # NoWork => titleEvents'[q][n] # NoWork
  <1> DEFINE renamed == [titled[m] EXCEPT !.title = title]
             rev == titled[m].rev + 1
             event == [step |-> status, previous |-> row.title, applied |-> title, rev |-> rev]
  <1>1. titled[m] \in TitleRows /\ TitlesTyped
    BY DEF TitleInv, TitlesTyped
  <1>2. renamed \in TitleRows /\ renamed.title = title /\ RowWritten(m, renamed)
    BY <1>1 DEF TitleRows, TitleApplied
  <1>3. rev \in Nat /\ row.title \in Titles
    BY <1>1 DEF TitleRows
  <1>4. outcome' = [outcome EXCEPT ![r][m] = status]
        /\ titleEvents' = [titleEvents EXCEPT ![r][m] = event]
    BY DEF TitleApplied
  <1> HIDE DEF renamed, rev
  <1>5. /\ event \in [step : {"completed", "restored"}, previous : Titles, applied : Titles, rev : Nat]
        /\ event.step = status /\ event.applied = title /\ event # NoWork
    BY <1>3 DEF NoWork
  <1> HIDE DEF event
  <1>6. titled' \in [Listed -> TitleRows] /\ titled'[m].title = title
    BY <1>2, RowFields
  <1>7. /\ outcome' \in [Requests -> [Listed -> Outcomes]] /\ outcome'[r][m] = status
        /\ \A q \in Requests, n \in Listed : (q # r \/ n # m) => outcome'[q][n] = outcome[q][n]
    BY <1>1, <1>4 DEF TitlesTyped, Outcomes, FinalOutcomes
  <1>8. TitlesTyped'
    BY <1>1, <1>6, <1>7 DEF TitlesTyped
  <1>9. ReceiptInv'
    BY <1>7 DEF TitleInv, ReceiptInv, Accepted
  <1>10. /\ titleEvents' \in [Requests -> [Listed ->
              {NoWork} \cup [step : {"completed", "restored"}, previous : Titles, applied : Titles,
                             rev : Nat]]]
         /\ titleEvents'[r][m] = event
         /\ \A q \in Requests, n \in Listed :
               (q # r \/ n # m) => titleEvents'[q][n] = titleEvents[q][n]
    BY <1>4, <1>5 DEF TitleInv, EventInv
  <1>11. EventInv'
    BY <1>5, <1>10 DEF TitleInv, EventInv
  <1> QED
    BY <1>5, <1>6, <1>7, <1>8, <1>9, <1>10, <1>11

\* A title is applied to the very row the item was read with, which still has the
\* title of the receipt (apply_generated_title).
LEMMA ApplyStep ==
    ASSUME TitleInv, ApplyTitle
    PROVE  TitleInv' /\ TitleStep
  <1>1. /\ titleWork.step = "apply" /\ DropItem
        /\ UNCHANGED <<receipts, transcript, admission, items, undoing>>
    BY DEF ApplyTitle
  <1>2. PICK r \in Requests, m \in Listed :
          r = titleWork.request /\ m = titleWork.meeting
    BY <1>1, WorkHeld
  <1>3. items' \in Seq(Promised) /\ titleWork' \in Promised \cup {NoWork}
    BY <1>1 DEF TitleInv, ItemsInv, DropItem
  <1>4. CASE OutcomeOpen(r, m) /\ SameRow(m, titleWork.row)
             /\ TitleApplied(r, m, titleWork.row, r, "completed")
    <2> PICK row \in TitleRows : row = titleWork.row
      BY <1>1, WorkHeld
    <2>1. row = titled[m] /\ row.title = receipts[r].titles[m] /\ Accepted(r) /\ r \in Titles
          /\ TitleApplied(r, m, row, r, "completed")
      BY <1>1, <1>2, <1>4, WorkHeld DEF SameRow, Titles
    <2>2. /\ TitlesTyped' /\ ReceiptInv' /\ EventInv'
          /\ titled'[m].title = r /\ outcome'[r][m] = "completed"
          /\ \A q \in Requests, n \in Listed : (q # r \/ n # m) => outcome'[q][n] = outcome[q][n]
          /\ \A q \in Requests, n \in Listed :
                titleEvents[q][n] # NoWork => titleEvents'[q][n] # NoWork
      BY <1>1, <2>1, AppliedTyped
    <2>3. OutcomeKept
      BY <1>4, <2>2 DEF OutcomeKept, OutcomeOpen
    <2>4. TitleStep
      BY <2>1, <2>2, <2>3 DEF TitleStep
    <2>5. AdmissionInv'
      BY <1>1 DEF TitleInv, AdmissionInv
    <2>6. UndoInv'
      BY <1>1, <2>2, TitleBounds DEF TitleInv, UndoInv
    <2>7. Promised' = Promised
      BY <1>1 DEF Promised, Accepted
    <2>8. ItemsInv'
      BY <1>3, <2>7 DEF ItemsInv
    <2> QED
      BY <2>2, <2>4, <2>5, <2>6, <2>8 DEF TitleInv
  <1>5. CASE RecordEvent(r, m, "skipped") /\ UNCHANGED <<titled, titleEvents>>
    <2>1. QuietOutcome
      BY <1>5, EventQuiet DEF Outcomes, FinalOutcomes
    <2> QED
      BY <1>1, <1>3, <1>5, <2>1, WorkMoves
  <1> QED
    BY <1>2, <1>4, <1>5 DEF ApplyTitle

\* A worker that stops records as interrupted only what was accepted and is open.
LEMMA WorkerStopsStep ==
    ASSUME TitleInv, WorkerStops
    PROVE  TitleInv' /\ TitleStep
  <1> DEFINE left == {items[i] : i \in DOMAIN items} \cup ({titleWork} \ {NoWork})
             after == [r \in Requests |-> [m \in Listed |->
                  IF OutcomeOpen(r, m) /\ \E w \in left : w.request = r /\ w.meeting = m
                  THEN "interrupted" ELSE outcome[r][m]]]
  <1>1. /\ outcome' \in {outcome, after}
        /\ items' = <<>> /\ titleWork' = NoWork /\ admission' = NoWork /\ undoing' = NoWork
        /\ UNCHANGED <<receipts, titled, transcript, titleEvents>>
    BY DEF WorkerStops
  <1>2. \A w \in left : Accepted(w.request)
    <2>1. \A i \in DOMAIN items : items[i] \in Promised
      BY ElementOfSeq DEF TitleInv, ItemsInv
    <2>2. titleWork # NoWork => titleWork \in Promised
      BY DEF TitleInv, ItemsInv
    <2> QED
      BY <2>1, <2>2 DEF Promised
  <1> HIDE DEF left
  <1>3. QuietOutcome
    <2>1. CASE UNCHANGED outcome
      BY <2>1, SameOutcome
    <2>2. CASE outcome' = after
      BY <1>2, <2>2 DEF QuietOutcome, TitleInv, TitlesTyped, Outcomes, FinalOutcomes
    <2> QED
      BY <1>1, <2>1, <2>2
  <1>4. items' \in Seq(Promised) /\ titleWork' \in Promised \cup {NoWork}
    BY <1>1
  <1>5. AdmissionInv' /\ UndoInv'
    BY <1>1 DEF AdmissionInv, UndoInv
  <1>6. titled' \in [Listed -> TitleRows] /\ transcript' \in [Listed -> Nat]
    BY <1>1 DEF TitleInv, TitlesTyped
  <1> QED
    BY <1>1, <1>3, <1>4, <1>5, <1>6, TitleMoves

\* A cancellation ends what is open of its request.
LEMMA CancelTitlesStep ==
    ASSUME TitleInv, NEW r \in Requests, CancelTitles(r)
    PROVE  TitleInv' /\ TitleStep
  <1>1. /\ Accepted(r) /\ UNCHANGED <<receipts, titled, transcript, titleEvents, admission, items,
                                      titleWork, undoing>>
        /\ outcome' = [outcome EXCEPT ![r] = [m \in Listed |->
              IF m \in receipts[r].queued /\ OutcomeOpen(r, m) THEN "cancelled"
              ELSE outcome[r][m]]]
    BY DEF CancelTitles, TitleInv, TitlesTyped
  <1>2. QuietOutcome
    BY <1>1 DEF QuietOutcome, TitleInv, TitlesTyped, Outcomes, FinalOutcomes
  <1>3. items' \in Seq(Promised) /\ titleWork' \in Promised \cup {NoWork}
    BY <1>1 DEF TitleInv, ItemsInv
  <1> QED
    BY <1>1, <1>2, <1>3, WorkMoves

\* An undo reads a row that still has the generated title.
LEMMA ReadForUndoStep ==
    ASSUME TitleInv, NEW r \in Requests, NEW m \in Titled, ReadForUndo(r, m)
    PROVE  TitleInv' /\ TitleStep
  <1>1. /\ UNCHANGED <<receipts, outcome, titled, transcript, titleEvents, admission, items, titleWork>>
        /\ titleEvents[r][m].step = "completed" /\ titled[m].title = titleEvents[r][m].applied
        /\ undoing' = [step |-> "read", request |-> r, meeting |-> m, row |-> titled[m]]
    BY DEF ReadForUndo
  <1>2. m \in Listed
    BY TitleBounds
  <1>3. titled[m].title = r /\ titleEvents[r][m] # NoWork
    BY <1>1, <1>2 DEF TitleInv, EventInv, NoWork
  <1>4. UndoInv'
    BY <1>1, <1>3 DEF UndoInv
  <1>5. AdmissionInv'
    BY <1>1 DEF TitleInv, AdmissionInv
  <1>6. /\ items' \in Seq(Promised) /\ titleWork' \in Promised \cup {NoWork}
        /\ titled' \in [Listed -> TitleRows] /\ transcript' \in [Listed -> Nat]
    BY <1>1 DEF TitleInv, ItemsInv, TitlesTyped
  <1> QED
    BY <1>1, <1>4, <1>5, <1>6, SameOutcome, TitleMoves

\* An undo writes it only if it is still the row that was read (undo_title_jobs).
LEMMA WriteUndoStep ==
    ASSUME TitleInv, WriteUndo
    PROVE  TitleInv' /\ TitleStep
  <1>1. /\ undoing.step = "read" /\ undoing' = NoWork
        /\ UNCHANGED <<receipts, transcript, admission, items, titleWork>>
    BY DEF WriteUndo
  <1>2. /\ undoing.request \in Requests /\ undoing.meeting \in Titled
        /\ undoing.row.title = undoing.request
        /\ titleEvents[undoing.request][undoing.meeting] # NoWork
    BY <1>1 DEF TitleInv, UndoInv, NoWork
  <1>3. PICK r \in Requests, m \in Listed : r = undoing.request /\ m = undoing.meeting
    BY <1>2, TitleBounds
  <1>4. AdmissionInv' /\ UndoInv'
    BY <1>1 DEF TitleInv, AdmissionInv, UndoInv
  <1>5. Promised' = Promised
    BY <1>1 DEF Promised, Accepted
  <1>6. ItemsInv'
    BY <1>1, <1>5 DEF ItemsInv, TitleInv
  <1>7. CASE /\ outcome[r][m] = "completed" /\ SameRow(m, undoing.row)
             /\ TitleApplied(r, m, undoing.row, titleEvents[r][m].previous, "restored")
    <2> PICK row : row = undoing.row
      OBVIOUS
    <2>1. row = titled[m] /\ titled[m].title = r
      BY <1>2, <1>3, <1>7 DEF SameRow
    <2>2. titleEvents[r][m].previous \in Titles /\ Accepted(r)
      BY <1>2, <1>3, <1>7 DEF TitleInv, EventInv, ReceiptInv
    <2> PICK previous \in Titles : previous = titleEvents[r][m].previous
      BY <2>2
    <2>3. TitleApplied(r, m, row, previous, "restored")
      BY <1>7
    <2>4. /\ TitlesTyped' /\ ReceiptInv' /\ EventInv'
          /\ titled'[m].title = previous /\ outcome'[r][m] = "restored"
          /\ \A q \in Requests, n \in Listed : (q # r \/ n # m) => outcome'[q][n] = outcome[q][n]
      BY <1>1, <2>1, <2>2, <2>3, AppliedTyped
    <2>5. TitleStep
      BY <1>7, <2>1, <2>4 DEF TitleStep, OutcomeKept
    <2> QED
      BY <1>4, <1>6, <2>4, <2>5 DEF TitleInv
  <1>8. CASE UNCHANGED <<titled, outcome, titleEvents>>
    <2>1. TitlesTyped' /\ ReceiptInv' /\ EventInv'
      BY <1>1, <1>8 DEF TitleInv, TitlesTyped, ReceiptInv, EventInv, Accepted
    <2> QED
      BY <1>4, <1>6, <1>8, <2>1, SameOutcome, QuietStep DEF TitleInv
  <1> QED
    BY <1>3, <1>7, <1>8 DEF WriteUndo

\* Every step of the title jobs keeps the invariant and respects the titles of
\* users.
LEMMA TitlesStep ==
    TitleInv /\ [TitlesNext]_titleVars => TitleInv' /\ TitleStep
  <1> SUFFICES ASSUME TitleInv, [TitlesNext]_titleVars
               PROVE  TitleInv' /\ TitleStep
    OBVIOUS
  <1>1. CASE UNCHANGED titleVars
    <2>1. UNCHANGED <<receipts, outcome, titled, transcript, titleEvents, admission, items,
                      titleWork, undoing>>
      BY <1>1 DEF titleVars
    <2>2. items' \in Seq(Promised) /\ titleWork' \in Promised \cup {NoWork}
      BY <2>1 DEF TitleInv, ItemsInv
    <2> QED
      BY <2>1, <2>2, SameOutcome, WorkMoves
  <1>2. CASE TitlesNext
    BY <1>2, OthersWriteStep, AcceptStep, AdmitStep, AcceptBatchStep, CancelTitlesStep,
       FollowUpStep, ReadForUndoStep, PipelineEndsStep, TakeItemStep, CheckItemStep,
       GenerateStep, ApplyStep, WorkerStopsStep, WriteUndoStep DEF TitlesNext
  <1> QED
    BY <1>1, <1>2

\* It holds before the first request.
LEMMA TitlesInitInv ==
    TitlesInit => TitleInv
  <1> SUFFICES ASSUME TitlesInit
               PROVE  TitleInv
    OBVIOUS
  <1>1. TitlesTyped
    <2>1. titled \in [Listed -> TitleRows]
      BY DEF TitlesInit, TitleRows, Titles
    <2> QED
      BY <2>1 DEF TitlesInit, ReceiptsInit, TitlesTyped, Outcomes
  <1>2. ReceiptInv
    BY DEF TitlesInit, ReceiptsInit, ReceiptInv, Accepted
  <1>3. EventInv
    BY DEF TitlesInit, EventInv, NoWork
  <1>4. AdmissionInv /\ UndoInv
    BY DEF TitlesInit, AdmissionInv, UndoInv
  <1>5. ItemsInv
    BY DEF TitlesInit, ItemsInv
  <1> QED
    BY <1>1, <1>2, <1>3, <1>4, <1>5 DEF TitleInv
==============================================================================

------------------------------ MODULE PipelineRun ------------------------------
(***************************************************************************)
(* core/pipeline.py for one meeting: run() takes the meeting through the    *)
(* steps of PIPELINE_STEPS, from what pipeline_state.json and the           *)
(* checkpoints say was done before; run_llm_steps() makes what a run        *)
(* without language model left out, and may replace nothing.  Both hold the *)
(* meeting's lease, so one of them works at a time.  A step ends at a       *)
(* durable write: between two of them the process may die.                  *)
(***************************************************************************)
EXTENDS Naturals, Sequences, FiniteSets

CONSTANTS
    MaxPipelineTroubles,   \* bound of failing steps, crashes and lost state files
    RetryMax               \* pipeline.retry_max_count

ASSUME PipelineAssumption == MaxPipelineTroubles \in Nat /\ RetryMax \in Nat \ {0}

VARIABLES
    saved,      \* pipeline_state.json
    made,       \* per step, the text its checkpoint derives from, or "none"
    minutes,    \* whether meeting_minutes.md exists
    deferred,   \* whether llm_deferred.json exists
    running,    \* the run under way and what it has in memory
    pipeLeft    \* what is left of the bound

pipeVars == <<saved, made, minutes, deferred, running, pipeLeft>>

PipelineSteps ==
    <<"convert", "transcribe", "diarize", "merge", "correct", "summarize", "chunk", "embed">>

StepSet == {PipelineSteps[i] : i \in DOMAIN PipelineSteps}
StepNo(step) == CHOOSE i \in DOMAIN PipelineSteps : PipelineSteps[i] = step
LLMSteps == {"correct", "summarize"}
Dependents == {"summarize", "chunk", "embed"}   \* they work on the corrected text
Refreshed == Dependents \cup {"correct"}

NoState == [status |-> "none"]
FreshState == [status |-> "pending", completed |-> {}, skipped |-> {}]
NotRunning == [kind |-> "none"]

PipeInit ==
    /\ saved = NoState /\ minutes = FALSE /\ deferred = FALSE
    /\ made = [s \in StepSet |-> "none"]
    /\ running = NotRunning
    /\ pipeLeft = MaxPipelineTroubles

Made(step) == made[step] # "none"
PipeTrouble == pipeLeft > 0 /\ pipeLeft' = pipeLeft - 1

Save(state) == saved' = state
End(status) == Save([running.state EXCEPT !.status = status]) /\ running' = NotRunning

------------------------------------------------------------------------------
(* run(): where it starts. *)

\* _find_resume_step: after the last of the completed steps.
ResumeAt(state) ==
    IF state.completed = {} THEN 1
    ELSE 1 + CHOOSE i \in DOMAIN PipelineSteps :
                 /\ PipelineSteps[i] \in state.completed
                 /\ \A s \in state.completed : StepNo(s) <= i

IsPrefix(completed) == \E n \in 0..Len(PipelineSteps) : completed = {PipelineSteps[i] : i \in 1..n}

\* _restore_intermediate_results: the corrected text to go on with, when its
\* step is behind; without the checkpoint of a skipped correction that is the
\* merged text.
TextRestored(state) ==
    IF "correct" \notin state.completed THEN "none"
    ELSE IF Made("correct") THEN "corrected"
    ELSE IF "correct" \in state.skipped /\ Made("merge") THEN "merged"
    ELSE "none"

\* Disk space and admission are asked before "running" is saved, the
\* checkpoints after; a run that has nothing to do says how it stands.
StartRun(end) ==
    /\ running = NotRunning
    /\ LET state == IF saved = NoState THEN FreshState ELSE saved
           at == ResumeAt(state)
       IN
       /\ end < Len(PipelineSteps) => IsPrefix(state.completed)
       /\ IF at > Len(PipelineSteps)
          THEN Save([state EXCEPT !.status = "completed"]) /\ UNCHANGED <<running, pipeLeft>>
          ELSE IF at > end
          THEN Save([state EXCEPT !.status = "paused"]) /\ UNCHANGED <<running, pipeLeft>>
          ELSE \/ /\ PipeTrouble /\ Save([state EXCEPT !.status = "failed"])
                  /\ UNCHANGED running
               \/ /\ Save([state EXCEPT !.status = "running"])
                  /\ running' = [kind |-> "run", at |-> at, end |-> end, part |-> "begin",
                                 tries |-> RetryMax, state |-> saved', text |-> TextRestored(state)]
                  /\ UNCHANGED pipeLeft
    /\ UNCHANGED <<made, minutes, deferred>>

------------------------------------------------------------------------------
(* run(): one step. *)

Current == PipelineSteps[running.at]

Running(kind, part) == running.kind = kind /\ running.part = part

NextStep(state) ==
    running' = [running EXCEPT !.at = @ + 1, !.part = "begin", !.tries = RetryMax, !.state = state]

SkippedBy(state) ==
    [state EXCEPT !.skipped = @ \cup {Current}, !.completed = @ \cup {Current}]

\* Mutant: the steps after a skipped correction work on the merged text.
DependsOnSummaryOnly(state) == Current = "summarize" /\ "correct" \in state.skipped

DependsOnSkipped(state) == Current \in Dependents /\ "correct" \in state.skipped

SkipDependent ==
    /\ Running("run", "begin") /\ running.at <= running.end
    /\ DependsOnSkipped(running.state)
    /\ Save(SkippedBy(running.state)) /\ NextStep(SkippedBy(running.state))
    /\ UNCHANGED <<made, minutes, deferred, pipeLeft>>

\* Too little memory, or the setting: a correction leaves its marker first.
SkipLLMStep ==
    /\ Running("run", "begin") /\ running.at <= running.end
    /\ Current \in LLMSteps /\ ~DependsOnSkipped(running.state)
    /\ IF Current = "correct" /\ ~deferred
       THEN deferred' = TRUE /\ UNCHANGED <<saved, running>>
       ELSE /\ Save(SkippedBy(running.state))
            /\ running' = [running EXCEPT !.at = @ + 1, !.state = saved',
                               !.text = IF Current = "correct" THEN "merged" ELSE @]
            /\ UNCHANGED deferred
    /\ UNCHANGED <<made, minutes, pipeLeft>>

Input == IF Current \in Dependents THEN running.text ELSE "source"

Output == IF Current = "correct" THEN "corrected" ELSE running.text

\* A checkpoint that is there is restored; otherwise the step works, and its
\* checkpoint replaces nothing.  Only the converted recording is made anew.
RunStep ==
    /\ Running("run", "begin") /\ running.at <= running.end
    /\ ~DependsOnSkipped(running.state) /\ Input # "none"
    /\ IF Made(Current) /\ Current # "convert"
       THEN running' = [running EXCEPT !.part = "done", !.text = Output] /\ UNCHANGED made
       ELSE /\ made' = [made EXCEPT ![Current] =
                            IF Current \in Dependents THEN running.text ELSE "source"]
            /\ running' = [running EXCEPT !.text = Output,
                               !.part = IF Current = "summarize" THEN "minutes" ELSE "done"]
    /\ UNCHANGED <<saved, minutes, deferred, pipeLeft>>

WriteMinutes ==
    /\ running.kind # "none" /\ running.part = "minutes"
    /\ running.kind = "llm" => ~minutes
    /\ minutes' = TRUE
    /\ running' = [running EXCEPT !.part = "done"]
    /\ UNCHANGED <<saved, made, deferred, pipeLeft>>

\* An attempt fails, also after the checkpoint is written: the next one begins
\* the step again, the last ends the run.
AttemptFails ==
    /\ running.kind = "run" /\ running.part \in {"begin", "minutes"} /\ running.at <= running.end
    /\ PipeTrouble
    /\ IF running.tries > 1
       THEN running' = [running EXCEPT !.tries = @ - 1, !.part = "begin"] /\ UNCHANGED saved
       ELSE End("failed")
    /\ UNCHANGED <<made, minutes, deferred>>

FinishStep ==
    /\ Running("run", "done")
    /\ LET state == [running.state EXCEPT !.completed = @ \cup {Current}] IN
          Save(state) /\ NextStep(state)
    /\ UNCHANGED <<made, minutes, deferred, pipeLeft>>

FinishRun ==
    /\ Running("run", "begin") /\ running.at > running.end
    /\ End(IF running.end < Len(PipelineSteps) THEN "paused" ELSE "completed")
    /\ UNCHANGED <<made, minutes, deferred, pipeLeft>>

------------------------------------------------------------------------------
(* run_llm_steps(). *)

CorrectNeeded(state) ==
    deferred \/ "correct" \in state.skipped \/ "correct" \notin state.completed

SummaryNeeded(state) ==
    CorrectNeeded(state) \/ "summarize" \in state.skipped \/ "summarize" \notin state.completed

\* _llm_refresh_conflicts: what is there of that which would be made.
Conflicts(state) ==
    \/ CorrectNeeded(state) /\ \E s \in Refreshed : Made(s)
    \/ SummaryNeeded(state) /\ (Made("summarize") \/ minutes)

\* validate_llm_steps_non_destructive: nothing that is recorded as done is
\* missing, or rests on a correction that is still to be made, and nothing is
\* in the way.
NonDestructive(state) ==
    /\ \A s \in (IF deferred THEN Refreshed ELSE LLMSteps) :
          s \in state.completed \ state.skipped => Made(s)
    /\ CorrectNeeded(state) => Dependents \cap state.completed \subseteq state.skipped
    /\ ~Conflicts(state)

\* _rebuild_state_from_checkpoints, without trust in what language models made:
\* the marker says that they were put off.
Rebuilt ==
    LET audio == {s \in StepSet \ (Refreshed \cup {"convert"}) : Made(s)} IN
    IF deferred THEN [FreshState EXCEPT !.completed = audio \cup Refreshed, !.skipped = Refreshed]
    ELSE [FreshState EXCEPT !.completed = audio]

StartLLM ==
    /\ running = NotRunning /\ Made("merge")
    /\ LET state == IF saved = NoState THEN Rebuilt ELSE saved
           again == deferred \/ "correct" \in state.skipped
       IN
       /\ saved = NoState => ~minutes /\ \A s \in Refreshed : ~Made(s)
       /\ NonDestructive(state)
       /\ Save([state EXCEPT !.status = "running"])
       /\ running' =
            [kind |-> "llm", at |-> StepNo("correct"), part |-> "begin", state |-> saved', text |-> "none",
             correct |-> CorrectNeeded(state), summarize |-> SummaryNeeded(state),
             index |-> again /\ (deferred \/ {"chunk", "embed"} \cap state.completed # {}
                                          \/ Made("chunk") \/ Made("embed"))]
    /\ UNCHANGED <<made, minutes, deferred, pipeLeft>>

\* Which of the steps this run makes.
Wanted ==
    CASE Current = "correct"   -> running.correct
      [] Current = "summarize" -> running.summarize
      [] OTHER                 -> running.index

LLMStep ==
    /\ Running("llm", "begin") /\ running.at <= Len(PipelineSteps)
    /\ IF Wanted
       THEN /\ ~Made(Current)
            /\ made' = [made EXCEPT ![Current] =
                            IF Current \in Dependents THEN "corrected" ELSE "source"]
            /\ running' = [running EXCEPT !.part =
                               IF Current = "summarize" THEN "minutes" ELSE "done"]
       ELSE running' = [running EXCEPT !.part = "done"] /\ UNCHANGED made
    /\ UNCHANGED <<saved, minutes, deferred, pipeLeft>>

\* Both marks of a correction or summary are set when it is there, those of the
\* index are removed before it is made again; a summary is saved with what
\* comes after it.
LLMStepDone ==
    /\ Running("llm", "done")
    /\ LET marked == [running.state EXCEPT
                          !.completed = IF Wanted \/ Current \in LLMSteps
                                        THEN @ \cup {Current} ELSE @,
                          !.skipped = IF Wanted \/ Current \in LLMSteps
                                      THEN @ \ {Current} ELSE @]
           state == IF Current = "summarize" /\ running.index
                    THEN [marked EXCEPT !.completed = @ \ {"chunk", "embed"},
                                        !.skipped = @ \ {"chunk", "embed"}]
                    ELSE marked
       IN  /\ IF Current = "correct" \/ running.index THEN Save(state) ELSE UNCHANGED saved
           /\ running' = [running EXCEPT !.at = @ + 1, !.part = "begin", !.state = state]
    /\ UNCHANGED <<made, minutes, deferred, pipeLeft>>

FinishLLM ==
    /\ Running("llm", "begin") /\ running.at > Len(PipelineSteps)
    /\ End("completed")
    /\ UNCHANGED <<made, minutes, deferred, pipeLeft>>

NameTaken ==
    /\ running.kind = "llm" /\ running.at <= Len(PipelineSteps)
    /\ \/ running.part = "begin" /\ Wanted /\ Made(Current)
       \/ running.part = "minutes" /\ minutes

\* A step raises or times out: the failure is recorded, or that fails too.
LLMFails ==
    /\ running.kind = "llm"
    /\ \/ PipeTrouble
       \/ NameTaken /\ UNCHANGED pipeLeft
    /\ running' = NotRunning
    /\ saved' \in {saved, [saved EXCEPT !.status = "failed"]}
    /\ UNCHANGED <<made, minutes, deferred>>

------------------------------------------------------------------------------

\* The process dies, or the state file cannot be written; or it is lost.
PipeCrash ==
    /\ running # NotRunning /\ PipeTrouble
    /\ running' = NotRunning
    /\ UNCHANGED <<saved, made, minutes, deferred>>

StateLost ==
    /\ running = NotRunning /\ saved # NoState /\ PipeTrouble
    /\ saved' = NoState
    /\ UNCHANGED <<made, minutes, deferred, running>>

PipeNext ==
    \/ \E end \in DOMAIN PipelineSteps : StartRun(end)
    \/ SkipDependent \/ SkipLLMStep \/ RunStep \/ WriteMinutes \/ AttemptFails
    \/ FinishStep \/ FinishRun
    \/ StartLLM \/ LLMStep \/ LLMStepDone \/ FinishLLM \/ LLMFails
    \/ PipeCrash \/ StateLost

PipeSpec == PipeInit /\ [][PipeNext]_pipeVars

------------------------------------------------------------------------------

\* A summary, chunks and embeddings derive from a correction that is there, and
\* never from text that only stood in for it; a step recorded as done and not
\* as skipped has its checkpoint, whatever was cut short before; and a deferred
\* run that was accepted finds every name it publishes under free.
ArtifactsAreTrue ==
    /\ ~NameTaken
    /\ \A s \in Dependents : Made(s) => made[s] = "corrected" /\ Made("correct")
    /\ saved # NoState => \A s \in saved.completed \ saved.skipped : Made(s)

\* A step that is recorded as done has all it makes: the minutes too.
SummaryHasMinutes ==
    (saved # NoState /\ "summarize" \in saved.completed \ saved.skipped) => minutes
================================================================================

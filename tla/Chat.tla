---------------------------------- MODULE Chat ----------------------------------
(***************************************************************************)
(* Questions about the meetings: search/chat.py with the route and the      *)
(* hybrid service around it.  A question searches, waits for the language   *)
(* model, asks it and adds the exchange to the history, while a transcript  *)
(* may be edited at any of these waits.  A streamed answer comes through a  *)
(* bounded queue from a thread of its own, which a reader that goes away    *)
(* has to stop.  Texts are left out: an answer is the epoch it was asked    *)
(* in and whether it is whole.                                              *)
(***************************************************************************)
EXTENDS FiniteSets, Sequences, Naturals

CONSTANTS
    Questions,     \* questions asked by POST /chat, all in the default session
    Streamed,      \* the one that is streamed instead
    QueueSize,     \* of the token queue
    AnswerLength,  \* tokens of a streamed answer
    HistoryPairs,  \* max_history_pairs
    MaxEdits       \* bound of the edits

VARIABLES
    epoch,      \* _transcript_epoch
    history,    \* the exchanges of the default session
    asked,      \* a question: step, epoch, the session object it holds, answer
    model,      \* the question that has the language model, or NoQuestion
    tokens,     \* token_queue
    worker,     \* _stream_worker: step and the tokens it has produced
    stopped,    \* stop_event
    reader      \* the streaming side: tokens got, how its loop ended

chatVars == <<epoch, history, asked, model, tokens, worker, stopped, reader>>

NoQuestion == "none"

\* The stream is a question of its own.
ASSUME ChatAssumption ==
    /\ Streamed \notin Questions /\ NoQuestion \notin Questions \cup {Streamed}
    /\ AnswerLength \in Nat /\ HistoryPairs \in Nat

Unasked == [step |-> "idle", epoch |-> 0, session |-> 0, told |-> "none", told_at |-> 0]
NoReader == [got |-> 0, end |-> "none"]

ChatInit ==
    /\ epoch = 0 /\ history = <<>>
    /\ asked = [q \in Questions \cup {Streamed} |-> Unasked]
    /\ model = NoQuestion
    /\ tokens = <<>> /\ worker = [step |-> "none", made |-> 0]
    /\ stopped = FALSE /\ reader = NoReader

At(q, step) == asked[q].step = step
Becomes(q, question) == asked' = [asked EXCEPT ![q] = question]
StreamSame == UNCHANGED <<tokens, worker, stopped, reader>>

Answered(q, told) ==
    Becomes(q, [asked[q] EXCEPT !.step = "answered", !.told = told, !.told_at = epoch])

\* chat and stream_chat: the epoch is noted before the search.
Ask(q) ==
    /\ At(q, "idle")
    /\ Becomes(q, [asked[q] EXCEPT !.step = "search", !.epoch = epoch])
    /\ UNCHANGED <<epoch, history, model>> /\ StreamSame

SameEpoch(q) == asked[q].epoch = epoch

\* A search that failed, found nothing or was overtaken asks no model.
FindNothing(q) ==
    /\ At(q, "search")
    /\ Answered(q, "no_grounding")
    /\ UNCHANGED <<epoch, history, model>> /\ StreamSame

\* Otherwise the session is fetched and the prompt is built of its history.
BuildPrompt(q) ==
    /\ At(q, "search") /\ SameEpoch(q)
    /\ Becomes(q, [asked[q] EXCEPT !.step = "wait", !.session = epoch])
    /\ UNCHANGED <<epoch, history, model>> /\ StreamSame

\* model_manager.acquire("exaone"), which may fail.
AcquireModel(q) ==
    /\ At(q, "wait")
    /\ \/ /\ model = NoQuestion /\ model' = q
          /\ Becomes(q, [asked[q] EXCEPT !.step = "generate"])
       \/ Answered(q, "failed") /\ UNCHANGED model
    /\ UNCHANGED <<epoch, history>> /\ StreamSame

\* _call_llm_chat on a thread: an answer, a connection error or another one.
Generate(q) ==
    /\ q \in Questions /\ At(q, "generate")
    /\ model' = NoQuestion
    /\ \/ Becomes(q, [asked[q] EXCEPT !.step = "generated"])
       \/ Answered(q, "fallback")
       \/ Answered(q, "failed")
    /\ UNCHANGED <<epoch, history>> /\ StreamSame

Last(s, n) == IF Len(s) > n THEN SubSeq(s, Len(s) - n + 1, Len(s)) ELSE s

\* add_exchange, on the session object the question holds: after an edit it is
\* not the one get_session gives.
AddExchange(q, whole) ==
    history' = IF asked[q].session = epoch
               THEN Last(Append(history, [epoch |-> asked[q].epoch, whole |-> whole]), HistoryPairs)
               ELSE history

\* Mutant: the epoch is not looked at again after the model has answered.
Anyway(q) == TRUE

StillCurrent(q) == SameEpoch(q)

FinishQuestion(q, whole) ==
    IF StillCurrent(q)
    THEN Answered(q, "answer") /\ AddExchange(q, whole)
    ELSE Answered(q, "overtaken") /\ UNCHANGED history

Reply(q) ==
    /\ At(q, "generated")
    /\ FinishQuestion(q, TRUE)
    /\ UNCHANGED <<epoch, model>> /\ StreamSame

------------------------------------------------------------------------------

StartStream ==
    /\ At(Streamed, "generate") /\ worker.step = "none"
    /\ worker' = [step |-> "produce", made |-> 0]
    /\ Becomes(Streamed, [asked[Streamed] EXCEPT !.step = "read"])
    /\ UNCHANGED <<epoch, history, model, tokens, stopped, reader>>

Room == Len(tokens) < QueueSize
WorkerOnly == UNCHANGED <<epoch, history, asked, model, stopped, reader>>

\* chat_stream gives a token, the end or an error.
Produce ==
    /\ worker.step = "produce"
    /\ \/ /\ worker.made < AnswerLength
          /\ worker' = [step |-> IF stopped THEN "last" ELSE "put", made |-> worker.made + 1]
       \/ worker' = [worker EXCEPT !.step = IF @ = "produce" /\ worker.made = AnswerLength
                                            THEN "last" ELSE "error"]
    /\ UNCHANGED tokens /\ WorkerOnly

\* _put_stream_item gives up as soon as the reader has stopped.
PutToken ==
    /\ worker.step \in {"put", "error"}
    /\ \/ stopped /\ UNCHANGED tokens
       \/ ~stopped /\ Room
          /\ tokens' = Append(tokens, IF worker.step = "put" THEN "token" ELSE "error")
    /\ worker' = [worker EXCEPT !.step = IF @ = "put" THEN "produce" ELSE "last"]
    /\ WorkerOnly

\* Mutant: the last signal is dropped when the queue is full.
SignalOnce == IF Room THEN tokens' = Append(tokens, "end") ELSE UNCHANGED tokens

\* _signal_stream_done: it waits for room while there is a reader.
SignalDone ==
    \/ stopped /\ UNCHANGED tokens
    \/ ~stopped /\ Room /\ tokens' = Append(tokens, "end")

EndWorker ==
    /\ worker.step = "last"
    /\ SignalDone
    /\ worker' = [worker EXCEPT !.step = "done"]
    /\ WorkerOnly

\* The reader's loop: a token of the same epoch is passed on.
ReadToken ==
    /\ At(Streamed, "read") /\ reader.end = "none" /\ tokens # <<>>
    /\ tokens' = Tail(tokens)
    /\ reader' = IF Head(tokens) = "token" /\ SameEpoch(Streamed)
                 THEN [reader EXCEPT !.got = @ + 1]
                 ELSE [reader EXCEPT !.end = IF Head(tokens) = "end" THEN "end" ELSE "error"]
    /\ UNCHANGED <<epoch, history, asked, model, worker, stopped>>

\* The wait for a token timed out, or the client went away.
ReaderLeaves ==
    /\ At(Streamed, "read") /\ reader.end = "none"
    /\ \E end \in {"timeout", "cancelled"} :
          /\ end = "timeout" => tokens = <<>>
          /\ reader' = [reader EXCEPT !.end = end]
    /\ UNCHANGED <<epoch, history, asked, model, tokens, worker, stopped>>

\* finally: stop_event is set.
StopStream ==
    /\ At(Streamed, "read") /\ reader.end # "none" /\ ~stopped
    /\ stopped' = TRUE
    /\ UNCHANGED <<epoch, history, asked, model, tokens, worker, reader>>

\* Mutant: the reader does not wait for the thread.
Unwaited == stopped

\* The thread is awaited, cancellations notwithstanding.
WorkerAwaited == stopped /\ worker.step = "done"

LeaveStream ==
    /\ At(Streamed, "read") /\ WorkerAwaited
    /\ model' = NoQuestion
    /\ CASE reader.end \in {"end", "timeout"} ->
              Becomes(Streamed, [asked[Streamed] EXCEPT !.step = "streamed"])
         [] OTHER -> Answered(Streamed, "failed")
    /\ UNCHANGED <<epoch, history, tokens, worker, stopped, reader>>

\* The answer is what was read, be it cut by a timeout.
ReplyStreamed ==
    /\ At(Streamed, "streamed")
    /\ FinishQuestion(Streamed, reader.got = AnswerLength)
    /\ UNCHANGED <<epoch, model>> /\ StreamSame

------------------------------------------------------------------------------

\* Mutant: the sessions stay when a transcript is edited.
KeepSessions == UNCHANGED history

\* invalidate_transcript_history: new sessions.
NewSessions == history' = <<>>

EditTranscript ==
    /\ epoch < MaxEdits /\ epoch' = epoch + 1
    /\ NewSessions
    /\ UNCHANGED <<asked, model>> /\ StreamSame

\* clear_session
ClearHistory ==
    /\ history # <<>> /\ history' = <<>>
    /\ UNCHANGED <<epoch, asked, model>> /\ StreamSame

ChatNext ==
    \/ \E q \in Questions \cup {Streamed} :
          Ask(q) \/ FindNothing(q) \/ BuildPrompt(q) \/ AcquireModel(q)
    \/ \E q \in Questions : Generate(q) \/ Reply(q)
    \/ StartStream \/ Produce \/ PutToken \/ EndWorker
    \/ ReadToken \/ ReaderLeaves \/ StopStream \/ LeaveStream \/ ReplyStreamed
    \/ EditTranscript \/ ClearHistory

ChatSpec == ChatInit /\ [][ChatNext]_chatVars

------------------------------------------------------------------------------

\* No answer of an edited transcript is given as an answer or left in a history
\* that later questions build on.  The fallback after a connection error, which
\* shows what the search found, is not looked at again by the code.
HistoryIsCurrent ==
    /\ \A i \in 1..Len(history) : history[i].epoch = epoch
    /\ \A q \in Questions \cup {Streamed} :
          asked[q].told = "answer" => asked[q].epoch = asked[q].told_at

\* The language model is not given to another question while the thread of a
\* stream still uses it, and a reader of a thread that has ended finds the end
\* in the queue.
StreamHoldsModel ==
    /\ worker.step \notin {"none", "done"} => model = Streamed
    /\ worker.step = "done" /\ At(Streamed, "read") /\ reader.end = "none" => tokens # <<>>

\* An answer that is cut went into the history after a timeout only.
AnswersAreWhole ==
    \A i \in 1..Len(history) : history[i].whole \/ reader.end = "timeout"

ChatKept == HistoryIsCurrent /\ StreamHoldsModel /\ AnswersAreWhole
================================================================================

----------------------------- MODULE AgentLoop -----------------------------
(***************************************************************************)
(* The conversation of one session: AgentLoop.run (core/loop.py) inside    *)
(* AgentRunner.run_and_capture (core/runner.py), the ExecutionContext it   *)
(* extends (core/context.py), the thread file it reads and appends to      *)
(* (core/session/store.py) and the two compactions (core/compact,          *)
(* SessionManager.compact).                                                *)
(*                                                                         *)
(* The runs of a session follow each other (module Session).  A message is *)
(* abstracted to its role, the run that made it and the tool calls it      *)
(* requests or answers.  What a tool call does is module ToolCall.         *)
(***************************************************************************)
EXTENDS Naturals, Sequences, SequencesExt, FiniteSetsExt

CONSTANTS
  MaxRuns,      \* bound: messages the user sends
  MaxSteps,     \* config.agent.max_steps
  MaxCalls,     \* bound: tool calls in one response
  MaxCompacts,  \* bound: manual compactions
  AutoCompact,  \* compaction.auto_threshold > 0, and usage may reach it
  Faults        \* the run's task may be cancelled or an event handler raise

ASSUME AgentLoopAssumption ==
  /\ {MaxRuns, MaxSteps, MaxCalls} \subseteq Nat \ {0}
  /\ MaxCompacts \in Nat
  /\ AutoCompact \in BOOLEAN /\ Faults \in BOOLEAN

VARIABLES
  phase,       \* where send_message and the loop stand
  run,         \* the number of runs so far, the current one included
  step,        \* context.step
  status,      \* context.status
  messages,    \* context.messages
  prefillLen,  \* prefill_len
  todo,        \* the tool calls of the response not yet invoked
  full,        \* the response's usage reached the compaction threshold
  thread,      \* the rows of thread.jsonl
  compacts,    \* how many manual compactions have been asked for
  produced,    \* history: the messages this run added to its context
  broken,      \* history: the runs that were cancelled or broken off
  compacted    \* history: the runs whose context was compacted

vars == <<phase, run, step, status, messages, prefillLen, todo, full, thread,
          compacts, produced, broken, compacted>>
history == <<broken, compacted>>

-----------------------------------------------------------------------------
(* Messages. *)

ToolIds == (1..MaxRuns) \X (1..MaxSteps) \X (1..MaxCalls)
Kinds == {"text", "tools", "results", "summary", "ack"}
Message == [role: {"user", "assistant"}, kind: Kinds, run: 0..MaxRuns,
            uses: SUBSET ToolIds, results: SUBSET ToolIds]

UserText(r) ==
  [role |-> "user", kind |-> "text", run |-> r, uses |-> {}, results |-> {}]
AssistantBlocks(r, ids) ==
  [role |-> "assistant", kind |-> IF ids = {} THEN "text" ELSE "tools",
   run |-> r, uses |-> ids, results |-> {}]
ToolResults(r, ids) ==
  [role |-> "user", kind |-> "results", run |-> r, uses |-> {}, results |-> ids]

\* What a compaction leaves: the summary and the canned reply to it.
Summary ==
  <<[role |-> "user", kind |-> "summary", run |-> 0, uses |-> {}, results |-> {}],
    [role |-> "assistant", kind |-> "ack", run |-> 0, uses |-> {}, results |-> {}]>>

\* add_tool_result: the results of one response share a user message.
AddToolResult(ms, r, id) ==
  IF ms # <<>> /\ Last(ms).kind = "results"
  THEN [ms EXCEPT ![Len(ms)] = ToolResults(r, @.results \cup {id})]
  ELSE Append(ms, ToolResults(r, {id}))

\* add_tool_result for every call of a response cut off by the token limit.
AddErrorResults(ms, r, ids) ==
  IF ids = {} THEN ms ELSE Append(ms, ToolResults(r, ids))

\* The tool_use ids without a tool_result among the first n messages: the set
\* pending of _trim_orphan_tool_use.
Unanswered(ms, n) ==
  {id \in UNION {ms[i].uses : i \in 1..n} :
     \A i, j \in 1..n : id \in ms[i].uses /\ i < j => id \notin ms[j].results}

KeepOrphans(ms) == ms  \* mutant

\* _trim_orphan_tool_use: an unanswered call hides itself and all that follows.
TrimOrphanToolUse(ms) ==
  IF Unanswered(ms, Len(ms)) = {} THEN ms
  ELSE SubSeq(ms, 1, Max({n \in 0..Len(ms) : Unanswered(ms, n) = {}}))

-----------------------------------------------------------------------------
(* A message arrives and a run starts. *)

StartBeforeStore(t, msg) == t  \* mutant: the run reads the thread too early
Store(t, msg) == Append(t, msg)

CountWithoutGoal(rows) == Len(rows) - 1  \* mutant
PrefillLen(rows) == Len(rows)

\* send_message appends the message; run_and_capture reads the history and
\* seeds the context with it.
SendMessage ==
  /\ phase = "idle" /\ run < MaxRuns
  /\ run' = run + 1
  /\ thread' = Store(thread, UserText(run'))
  /\ LET rows == TrimOrphanToolUse(thread')
     IN /\ messages' = IF rows = <<>> THEN <<UserText(run')>> ELSE rows
        /\ prefillLen' = PrefillLen(rows)
  /\ phase' = "chat" /\ step' = 1 /\ status' = "running"
  /\ produced' = <<>>
  /\ UNCHANGED <<todo, full, compacts, history>>

-----------------------------------------------------------------------------
(* One iteration of the loop. *)

\* The run is over for the loop: run_and_capture publishes run.finished.
End(s) == phase' = "finish" /\ status' = s /\ UNCHANGED step

StepLimit(s) == s >= MaxSteps

\* Lines 114-136: what follows a response once its calls are done.
EndStep(high) ==
  \/ /\ StepLimit(step)
     /\ End("failed")
  \/ /\ ~StepLimit(step) /\ high
     /\ phase' = "compact"
     /\ UNCHANGED <<step, status>>
  \/ /\ ~StepLimit(step) /\ ~high
     /\ phase' = "chat" /\ step' = step + 1
     /\ UNCHANGED status

\* A final answer.
ChatEndTurn ==
  /\ phase = "chat"
  /\ messages' = Append(messages, AssistantBlocks(run, {}))
  /\ produced' = Append(produced, AssistantBlocks(run, {}))
  /\ End("success")
  /\ UNCHANGED <<run, prefillLen, todo, full, thread, compacts, history>>

\* A response with n tool calls, invoked one after the other.
ChatToolUse(n, high) ==
  LET ids == [i \in 1..n |-> <<run, step, i>>]
  IN /\ phase = "chat"
     /\ messages' = Append(messages, AssistantBlocks(run, ToSet(ids)))
     /\ produced' = Append(produced, AssistantBlocks(run, ToSet(ids)))
     /\ todo' = ids /\ full' = high
     /\ phase' = "tools"
     /\ UNCHANGED <<run, step, status, prefillLen, thread, compacts, history>>

\* A response cut off by the token limit: its calls, if any, are answered with
\* errors and not invoked, and no compaction follows.
ChatMaxTokens(n) ==
  LET ids == {<<run, step, i>> : i \in 1..n}
      answer(ms) == AddErrorResults(Append(ms, AssistantBlocks(run, ids)), run, ids)
  IN /\ phase = "chat"
     /\ messages' = answer(messages)
     /\ produced' = answer(produced)
     /\ EndStep(FALSE)
     /\ UNCHANGED <<run, prefillLen, todo, full, thread, compacts, history>>

\* The provider raised: the loop breaks.
ChatFails ==
  /\ phase = "chat"
  /\ End("failed")
  /\ UNCHANGED <<run, messages, prefillLen, todo, full, thread, compacts, produced,
                 history>>

\* invoke_tool returned, with a result or with an error.
ToolReturns ==
  /\ phase = "tools" /\ todo # <<>>
  /\ messages' = AddToolResult(messages, run, Head(todo))
  /\ produced' = AddToolResult(produced, run, Head(todo))
  /\ todo' = Tail(todo)
  /\ UNCHANGED <<phase, run, step, status, prefillLen, full, thread, compacts, history>>

ToolsDone ==
  /\ phase = "tools" /\ todo = <<>>
  /\ EndStep(full)
  /\ UNCHANGED <<run, messages, prefillLen, todo, full, thread, compacts, produced,
                 history>>

Uncounted(s, ok) == IF ok THEN s ELSE s + 1  \* mutant: the step is tried again

\* The loop counts its next step, whatever the compaction did.
CountStep(s, ok) == s + 1

\* Compactor.compact: the whole context becomes the summary, or stays when the
\* call to the model fails or returns nothing.
CompactReturns(ok) ==
  /\ phase = "compact"
  /\ messages' = IF ok THEN Summary ELSE messages
  /\ produced' = IF ok THEN Summary ELSE produced
  /\ compacted' = IF ok THEN compacted \cup {run} ELSE compacted
  /\ phase' = "chat" /\ step' = CountStep(step, ok)
  /\ UNCHANGED <<run, status, prefillLen, todo, full, thread, compacts, broken>>

\* The task is cancelled at an await of the loop, or an event handler raised:
\* run_and_capture catches it and marks the context failed.
RunBroken ==
  /\ Faults /\ phase \in {"chat", "tools", "compact"}
  /\ End("failed")
  /\ todo' = <<>> /\ broken' = broken \cup {run}
  /\ UNCHANGED <<run, messages, prefillLen, full, thread, compacts, produced, compacted>>

\* Lines 263-283: the new messages, counted from prefill_len, go to the thread.
Finish ==
  /\ phase = "finish"
  /\ thread' = thread \o SubSeq(messages, prefillLen + 1, Len(messages))
  /\ phase' = "idle"
  /\ UNCHANGED <<run, step, status, messages, prefillLen, todo, full, compacts,
                 produced, history>>

\* The publishes of run.started and of run.finished stand outside the try: a
\* cancellation or a handler that raises there ends run_and_capture, and nothing
\* is appended, whatever the loop did.
RunCutOff ==
  /\ Faults
  /\ phase = "finish" \/ (phase = "chat" /\ step = 1)
  /\ phase' = "idle"
  /\ broken' = broken \cup {run}
  /\ UNCHANGED <<run, step, status, messages, prefillLen, todo, full, thread, compacts,
                 produced, compacted>>

\* session.compact, between runs: reads the thread and replaces it.
ManualCompact(ok) ==
  /\ phase = "idle" /\ compacts < MaxCompacts
  /\ compacts' = compacts + 1
  /\ thread' = IF ok THEN Summary ELSE thread
  /\ UNCHANGED <<phase, run, step, status, messages, prefillLen, todo, full, produced,
                 history>>

-----------------------------------------------------------------------------
Init ==
  /\ phase = "idle" /\ run = 0 /\ step = 0 /\ status = "running"
  /\ messages = <<>> /\ prefillLen = 0
  /\ todo = <<>> /\ full = FALSE
  /\ thread = <<>> /\ compacts = 0 /\ produced = <<>>
  /\ broken = {} /\ compacted = {}

Chat ==
  \/ ChatEndTurn
  \/ \E n \in 1..MaxCalls, high \in {FALSE, AutoCompact} : ChatToolUse(n, high)
  \/ \E n \in 0..MaxCalls : ChatMaxTokens(n)
  \/ ChatFails

Compact == \E ok \in BOOLEAN : CompactReturns(ok)

Next ==
  \/ SendMessage
  \/ Chat \/ ToolReturns \/ ToolsDone \/ Compact \/ Finish
  \/ RunBroken \/ RunCutOff
  \/ \E ok \in BOOLEAN : ManualCompact(ok)

Spec == Init /\ [][Next]_vars

\* The model answers or its client gives up (the provider has a timeout), and a
\* task that can run is run.  That a tool call returns is not assumed: it may
\* wait for an approval, without a limit when permission.timeout_s is 0.
Fairness ==
  WF_vars(Chat) /\ WF_vars(ToolsDone) /\ WF_vars(Compact) /\ WF_vars(Finish)

FairSpec == Spec /\ Fairness

-----------------------------------------------------------------------------
TypeOK ==
  /\ phase \in {"idle", "chat", "tools", "compact", "finish"}
  /\ run \in 0..MaxRuns
  /\ step \in 0..MaxSteps
  /\ status \in {"running", "success", "failed"}
  /\ messages \in Seq(Message)
  /\ prefillLen \in Nat
  /\ todo \in Seq(ToolIds)
  /\ full \in BOOLEAN
  /\ thread \in Seq(Message)
  /\ compacts \in 0..MaxCompacts
  /\ produced \in Seq(Message)
  /\ broken \subseteq 1..MaxRuns /\ compacted \subseteq 1..MaxRuns

\* The rule of the Messages API: the calls of an assistant message are answered
\* by the next message, and nothing else is answered.
WellPaired(ms) ==
  \A i \in 1..Len(ms) :
    /\ ms[i].uses # {} =>
         i < Len(ms) /\ ms[i+1].role = "user" /\ ms[i].uses \subseteq ms[i+1].results
    /\ ms[i].results # {} => i > 1 /\ ms[i].results \subseteq ms[i-1].uses

\* Every request to the model is one the API accepts, also in the runs that
\* follow a cancelled or broken run, whose tool calls never got a result
\* (store.py:110-175, loop.py:90-112), unless an earlier run lost messages to a
\* compaction (see AnswerPersisted).
RequestsWellPaired ==
  phase = "chat" /\ compacted \subseteq {run} => WellPaired(messages)

\* All or nothing: a run whose context was not compacted extends the thread by
\* the messages it produced, in order, each once, and by nothing at all only if
\* it was cancelled or broken off (runner.py:190, 263-275, store.py:66-76).
ThreadGrowsByRun ==
  [][phase # "idle" /\ phase' = "idle" /\ run \notin compacted =>
       \/ thread' = thread \o produced
       \/ thread' = thread /\ run \in broken']_vars

\* The model is asked with the message the user sent, also after compactions,
\* unless a run was broken off (manager.py:104, runner.py:163, 183).
UserMessageSeen ==
  broken = {} /\ phase = "chat" /\ step = 1 =>
    messages # <<>> /\ Last(messages) = UserText(run)

\* README.md:435: messages persist to thread.jsonl.  The answer of a run that
\* succeeded is in the thread.
AnswerPersisted ==
  phase = "idle" /\ status = "success" /\ compacts = 0 =>
    AssistantBlocks(run, {}) \in ToSet(thread)

\* No call is outstanding for ever: in particular every approval that a call
\* waits for is given, refused or timed out (invocation.py:128, config.py:60).
CallsReturn == []<>(phase # "tools" \/ todo = <<>>)

\* If the calls return, every run ends, whatever the model answers: the step
\* limit bounds the loop, over any number of compactions (loop.py:46-48, 117).
RunEnds == CallsReturn => (phase = "chat" ~> phase = "idle")
=============================================================================

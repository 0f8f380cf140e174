------------------------------- MODULE ToolCall -------------------------------
(***************************************************************************)
(* One tool call of an agent, from the model's request to the result that  *)
(* goes back into the conversation: invoke_tool of core/tools/invocation.py *)
(*                                                                         *)
(* A call is announced, validated, cleared with the permission manager     *)
(* and executed up to three times under a time limit; every stage is       *)
(* published as an event.  Calls of different runs interleave at each      *)
(* await.  What a tool does and which of its errors come out is chosen by  *)
(* the environment: a shell command, a subagent, an MCP server.            *)
(***************************************************************************)
EXTENDS Naturals, Sequences, FiniteSets

CONSTANTS
  Calls,         \* tool_use_ids
  Retries,       \* _MAX_RETRIES, which is 2
  Decisions,     \* bound: what check_and_wait may answer
  PublishRaises, \* EventBus.publish may raise (a subscriber's exception)
  MayCancel      \* the task of the run may be cancelled at any await

ASSUME ToolCallAssumption ==
  /\ Retries \in Nat
  /\ Decisions \subseteq {"auto_allow", "allow", "auto_deny", "deny"}
  /\ {PublishRaises, MayCancel} \subseteq BOOLEAN

\* _RETRYABLE.
Retryable == {"runtime_error", "rate_limited"}
\* error_type of a result, or the class an exception is mapped to.  "other"
\* stands for every type the retry loop does not know.
ToolErrors == Retryable \cup {"schema_error", "other"}
Errors == ToolErrors \cup {"timeout", "permission_denied"}

VARIABLES
  pc,        \* the await in which each call is suspended
  attempt,   \* the loop variable
  pending,   \* error_class of a failure that is being published
  result,    \* what invoke_tool returned: "ok" or an error class
  decision,  \* what check_and_wait answered
  events,    \* the events published for the call
  works,     \* history: executions in which the tool finished its work
  late       \* history: executions whose tool_call.finished was not published

vars == <<pc, attempt, pending, result, decision, events, works, late>>

Awaits == {"announcing", "asking", "granting", "denying", "running",
           "finishing", "reporting", "backoff", "failing"}
Event == [kind: {"started", "granted", "denied", "finished", "failed"},
          class: Errors \cup {"none"}]

TypeOK ==
  /\ pc \in [Calls -> Awaits \cup {"idle", "done", "raised"}]
  /\ attempt \in [Calls -> 0 .. Retries + 1]
  /\ pending \in [Calls -> Errors \cup {"none"}]
  /\ result \in [Calls -> Errors \cup {"none", "ok"}]
  /\ decision \in [Calls -> {"none", "auto_allow", "allow", "auto_deny", "deny"}]
  /\ events \in [Calls -> Seq(Event)]
  /\ works \in [Calls -> Nat]
  /\ late \in [Calls -> Nat]

-----------------------------------------------------------------------------
\* publish: the event is out, the call waits for the subscribers.
Publish(c, kind, class) ==
  events' = [events EXCEPT ![c] = Append(@, [kind |-> kind, class |-> class])]

Goto(c, at) == pc' = [pc EXCEPT ![c] = at]

\* _fail: publish tool_call.failed and return the error.
Fail(c, class) ==
  /\ pending' = [pending EXCEPT ![c] = class]
  /\ Publish(c, "failed", class)
  /\ Goto(c, "failing")

\* An execution of the tool begins.
Execute(c) ==
  /\ attempt' = [attempt EXCEPT ![c] = @ + 1]
  /\ Goto(c, "running")

Start(c) ==
  /\ pc[c] = "idle"
  /\ Publish(c, "started", "none")
  /\ Goto(c, "announcing")
  /\ UNCHANGED <<attempt, pending, result, decision, works, late>>

\* Lines 87-121: unknown tool, missing or ill-typed parameters.
Validate(c) ==
  /\ pc[c] = "announcing"
  /\ \/ \E class \in {"runtime_error", "schema_error"} : Fail(c, class)
     \/ Goto(c, "asking") /\ UNCHANGED <<events, pending>>
  /\ UNCHANGED <<attempt, result, decision, works, late>>

\* check_and_wait returned.  The automatic decisions are not announced.
Decided(c) ==
  /\ pc[c] = "asking"
  /\ \/ /\ "auto_allow" \in Decisions
        /\ decision' = [decision EXCEPT ![c] = "auto_allow"]
        /\ Execute(c)
        /\ UNCHANGED <<events, pending>>
     \/ /\ "allow" \in Decisions
        /\ decision' = [decision EXCEPT ![c] = "allow"]
        /\ Publish(c, "granted", "none")
        /\ Goto(c, "granting")
        /\ UNCHANGED <<attempt, pending>>
     \/ /\ "auto_deny" \in Decisions
        /\ decision' = [decision EXCEPT ![c] = "auto_deny"]
        /\ Fail(c, "permission_denied")
        /\ UNCHANGED attempt
     \/ /\ "deny" \in Decisions
        /\ decision' = [decision EXCEPT ![c] = "deny"]
        /\ Publish(c, "denied", "none")
        /\ Goto(c, "denying")
        /\ UNCHANGED <<attempt, pending>>
  /\ UNCHANGED <<result, works, late>>

Granted(c) ==
  /\ pc[c] = "granting"
  /\ Execute(c)
  /\ UNCHANGED <<pending, result, decision, events, works, late>>

DenyAndGoOn(c) ==  \* mutant: the denial is published and then forgotten
  /\ pc[c] = "denying"
  /\ Execute(c)
  /\ UNCHANGED <<pending, result, decision, events, works, late>>

Denied(c) ==
  /\ pc[c] = "denying"
  /\ Fail(c, "permission_denied")
  /\ UNCHANGED <<attempt, result, decision, works, late>>

-----------------------------------------------------------------------------
(* The retry loop. *)

RetriesSilently(c, class) ==  \* mutant: publishes only the last failure
  IF class \in Retryable /\ attempt[c] <= Retries
  THEN pending' = [pending EXCEPT ![c] = class] /\ Goto(c, "reporting") /\ UNCHANGED events
  ELSE Fail(c, class)

\* Lines 213-236: publish the failure and try again, or give up.
AttemptFails(c, class) ==
  IF class \in Retryable /\ attempt[c] <= Retries
  THEN /\ pending' = [pending EXCEPT ![c] = class]
       /\ Publish(c, "failed", class)
       /\ Goto(c, "reporting")
  ELSE Fail(c, class)

\* The tool succeeded; tool_call.finished is published inside the try.
ToolSucceeds(c) ==
  /\ pc[c] = "running"
  /\ works' = [works EXCEPT ![c] = @ + 1]
  /\ Publish(c, "finished", "none")
  /\ Goto(c, "finishing")
  /\ UNCHANGED <<attempt, pending, result, decision, late>>

\* The tool returned an error or raised (RateLimitedError, any exception).
ToolFails(c, class) ==
  /\ pc[c] = "running"
  /\ AttemptFails(c, class)
  /\ UNCHANGED <<attempt, result, decision, works, late>>

RetryTimeout(c) ==  \* mutant: a timeout is retried like any error
  /\ pc[c] = "running"
  /\ AttemptFails(c, "runtime_error")
  /\ works' = [works EXCEPT ![c] = @ + 1]
  /\ UNCHANGED <<attempt, result, decision, late>>

\* The time limit passed, or the tool raised TimeoutError: the call fails at
\* once.  The cancelled tool may have finished its work in that moment.
TimesOut(c) ==
  /\ pc[c] = "running"
  /\ Fail(c, "timeout")
  /\ \/ UNCHANGED works
     \/ works' = [works EXCEPT ![c] = @ + 1]
  /\ UNCHANGED <<attempt, result, decision, late>>

\* The failed attempt is published: sleep, then execute again.
Reported(c) ==
  /\ pc[c] = "reporting"
  /\ Goto(c, "backoff")
  /\ UNCHANGED <<attempt, pending, result, decision, events, works, late>>

Again(c) ==
  /\ pc[c] = "backoff"
  /\ Execute(c)
  /\ UNCHANGED <<pending, result, decision, events, works, late>>

\* invoke_tool returns.
Return(c) ==
  /\ \/ pc[c] = "finishing" /\ result' = [result EXCEPT ![c] = "ok"]
     \/ pc[c] = "failing" /\ result' = [result EXCEPT ![c] = pending[c]]
  /\ Goto(c, "done")
  /\ UNCHANGED <<attempt, pending, decision, events, works, late>>

\* A subscriber raised.  Around tool_call.finished the exception counts as a
\* failure of the tool; elsewhere it leaves invoke_tool.
PublishFails(c) ==
  /\ PublishRaises
  /\ \/ /\ pc[c] = "finishing"
        /\ late' = [late EXCEPT ![c] = @ + 1]
        /\ AttemptFails(c, "runtime_error")
     \/ /\ pc[c] \in {"announcing", "granting", "denying", "reporting", "failing"}
        /\ Goto(c, "raised")
        /\ UNCHANGED <<late, pending, events>>
  /\ UNCHANGED <<attempt, result, decision, works>>

\* CancelledError is no Exception: nothing catches it.
Cancel(c) ==
  /\ MayCancel /\ pc[c] \in Awaits
  /\ Goto(c, "raised")
  /\ UNCHANGED <<attempt, pending, result, decision, events, works, late>>

-----------------------------------------------------------------------------
Init ==
  /\ pc = [c \in Calls |-> "idle"]
  /\ attempt = [c \in Calls |-> 0]
  /\ pending = [c \in Calls |-> "none"]
  /\ result = [c \in Calls |-> "none"]
  /\ decision = [c \in Calls |-> "none"]
  /\ events = [c \in Calls |-> <<>>]
  /\ works = [c \in Calls |-> 0]
  /\ late = [c \in Calls |-> 0]

CallStep(c) ==
  \/ Start(c) \/ Validate(c) \/ Decided(c) \/ Granted(c) \/ Denied(c)
  \/ ToolSucceeds(c)
  \/ \E class \in ToolErrors : ToolFails(c, class)
  \/ TimesOut(c) \/ Reported(c) \/ Again(c) \/ Return(c)
  \/ PublishFails(c) \/ Cancel(c)

Next == \E c \in Calls : CallStep(c)

Spec == Init /\ [][Next]_vars

-----------------------------------------------------------------------------
(* Safety. *)

Kinds(c, kinds) == {i \in DOMAIN events[c] : events[c][i].kind \in kinds}
LastEvent(c) == events[c][Len(events[c])]

\* What the clients saw last is what the model is told: a call that returns ok
\* ends with tool_call.finished, one that returns an error with
\* tool_call.failed of the same class (invocation.py:167-236).
VerdictMatches ==
  \A c \in Calls : pc[c] = "done" =>
    LastEvent(c) = IF result[c] = "ok" THEN [kind |-> "finished", class |-> "none"]
                   ELSE [kind |-> "failed", class |-> result[c]]

\* Clients can count the executions: each one that is over has published one
\* verdict, and one more if its finished event could not be delivered.  A call
\* that never ran has at most the failure that stopped it (invocation.py:180-236).
EachAttemptReported ==
  \A c \in Calls :
    LET verdicts == Cardinality(Kinds(c, {"finished", "failed"})) - late[c]
    IN IF attempt[c] = 0 THEN verdicts <= 1
       ELSE IF pc[c] = "running" THEN verdicts = attempt[c] - 1
       ELSE IF pc[c] = "raised" THEN verdicts \in {attempt[c] - 1, attempt[c]}
       ELSE verdicts = attempt[c]

\* No execution without a decision that allows it, and none that a client was
\* told is denied: after permission.denied only the failure follows
\* (invocation.py:123-165).
ConsentBeforeWork ==
  \A c \in Calls :
    /\ attempt[c] > 0 =>
         \/ decision[c] = "auto_allow"
         \/ decision[c] = "allow" /\ events[c][2].kind = "granted"
    /\ Kinds(c, {"denied"}) # {} => works[c] = 0 /\ Kinds(c, {"finished"}) = {}

\* A tool that has done its work is not run again, unless its finished event
\* could not be delivered; one permission never covers more than Retries + 1
\* executions (invocation.py:167-226).
NoSecondWork ==
  \A c \in Calls :
    /\ works[c] <= 1 + late[c]
    /\ works[c] > late[c] => pc[c] \in {"finishing", "failing", "done", "raised"}
    /\ works[c] <= attempt[c] /\ attempt[c] <= Retries + 1
=============================================================================

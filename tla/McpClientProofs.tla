--------------------------- MODULE McpClientProofs ---------------------------
(***************************************************************************)
(* A tool call that goes to an MCP server is one of ToolCall: what is      *)
(* proved there of consent, repetition and verdicts holds for every number *)
(* of calls that share a server, whatever the server does.  And no call    *)
(* returns the answer of another one: that rests on the ids alone, not on  *)
(* the lock.                                                               *)
(***************************************************************************)
EXTENDS McpClient, ToolCallProofs, SequenceTheorems, FiniteSetTheorems

\* The requests that are on their way to the server or back.
Sent == inbox \cup {outbox[i].re : i \in DOMAIN outbox}

McpTypes ==
  /\ lastId \in Nat /\ reqId \in [Calls -> Nat]
  /\ step \in [Calls -> {"none", "queued", "reading"}]
  /\ inbox \subseteq Requests /\ outbox \in Seq(Lines)
  /\ taken \in [Calls -> Requests]

\* An id is used by one call at a time.
Ids ==
  /\ \A c \in Calls : reqId[c] <= lastId
  /\ \A c, d \in Calls : reqId[c] = reqId[d] => c = d \/ reqId[c] = 0
  /\ \A c \in Calls : step[c] # "none" => pc[c] = "running" /\ reqId[c] > 0

\* What carries the id of a call is a request of that call, of the execution
\* that is under way if there is one.
Posted ==
  \A q \in Sent :
    \/ q = NoRequest
    \/ /\ q.id \in 1 .. lastId
       /\ \A c \in Calls : q.id = reqId[c] =>
            q.who = c /\ (step[c] # "none" => q.attempt = attempt[c])

\* No tool of the server is called before the handshake is over, and the
\* handshake uses the ids 1 and 2.
Quiet ==
  /\ phase # "ready" => \A c \in Calls : pc[c] = "idle" /\ reqId[c] = 0
  /\ phase = "off" => lastId = 0
  /\ phase = "initialize" => lastId = 1

McpInv == McpTypes /\ Ids /\ Posted /\ Quiet /\ NoCrossTalk

-----------------------------------------------------------------------------
LEMMA RetryableError == "runtime_error" \in ToolErrors
BY DEF ToolErrors, Retryable

\* invoke_tool does not see the lock, the ids and the lines.
LEMMA StepIsCallStep == ASSUME McpNext PROVE Next \/ UNCHANGED vars
<1>1. ASSUME NEW c \in Calls, McpCallStep(c) PROVE CallStep(c) \/ UNCHANGED vars
  <2>1. CASE Call(c) BY <2>1 DEF Call
  <2>2. CASE Acquire(c) BY <2>2 DEF Acquire
  <2>3. CASE SkipLine(c) BY <2>3 DEF SkipLine
  <2>4. CASE TakeAnswer(c)
    <3>1. ToolSucceeds(c) \/ ToolFails(c, "runtime_error") BY <2>4 DEF TakeAnswer
    <3>2. QED BY <3>1, RetryableError DEF CallStep
  <2>5. CASE Unavailable(c)
    <3>1. ToolFails(c, "runtime_error") BY <2>5 DEF Unavailable
    <3>2. QED BY <3>1, RetryableError DEF CallStep
  <2>6. CASE Limit(c) BY <2>6 DEF Limit, CallStep
  <2>7. CASE CancelCall(c) BY <2>7 DEF CancelCall, CallStep
  <2>8. CASE Around(c) BY <2>8 DEF Around, CallStep
  <2>9. QED BY <1>1, <2>1, <2>2, <2>3, <2>4, <2>5, <2>6, <2>7, <2>8 DEF McpCallStep
<1>2. CASE \E c \in Calls : McpCallStep(c) BY <1>1, <1>2 DEF Next
<1>3. CASE Connect \/ Handshake \/ HandshakeFails \/ StopAll
  BY <1>3 DEF Connect, Handshake, HandshakeFails, StopAll
<1>4. CASE ServerStep BY <1>4 DEF ServerStep, Answer, WriteNoise, Die
<1>5. QED BY <1>2, <1>3, <1>4 DEF McpNext

\* Every behaviour of calls behind an MCP server is one of ToolCall
\* (tool.py:32-53 under invocation.py:60-239).
THEOREM McpImplementsToolCall == McpSpec => ImplementsToolCall
<1>1. McpInit => Init BY DEF McpInit
<1>2. [McpNext]_mcpVars => [Next]_vars
  <2>1. CASE McpNext BY <2>1, StepIsCallStep
  <2>2. CASE UNCHANGED mcpVars BY <2>2 DEF mcpVars
  <2>3. QED BY <2>1, <2>2
<1>3. QED BY <1>1, <1>2, PTL DEF McpSpec, ImplementsToolCall, Spec

\* So a call behind an MCP server goes forward too, and stops after boundedly many
\* stages (invocation.py:60-239).
THEOREM McpCallsAdvance == McpSpec => CallAdvances
BY McpImplementsToolCall, CallAdvancesHolds, PTL DEF ImplementsToolCall

-----------------------------------------------------------------------------
(* No call returns the answer of another.  The lemmas say what a step does *)
(* to the ids and to the pipe.                                             *)

\* The lines that are left after one is read.
LEMMA TailOfLines ==
  ASSUME NEW s \in Seq(Lines), s # <<>>
  PROVE  /\ Tail(s) \in Seq(Lines)
         /\ Head(s) \in Lines
         /\ Head(s).re \in {s[i].re : i \in DOMAIN s}
         /\ \A i \in DOMAIN Tail(s) : Tail(s)[i].re \in {s[j].re : j \in DOMAIN s}
<1>1. Len(s) \in Nat /\ Len(s) > 0 /\ DOMAIN s = 1 .. Len(s) /\ Head(s) = s[1]
  OBVIOUS
<1>2. /\ Tail(s) \in Seq(Lines) /\ DOMAIN Tail(s) = 1 .. Len(s) - 1
      /\ \A i \in 1 .. Len(s) - 1 : Tail(s)[i] = s[i + 1]
  OBVIOUS
<1>3. \A i \in 1 .. Len(s) - 1 : i + 1 \in DOMAIN s
  BY <1>1
<1> QED
  BY <1>1, <1>2, <1>3

\* One more line.
LEMMA MoreLines ==
  ASSUME NEW s \in Seq(Lines), NEW line \in Lines
  PROVE  /\ Append(s, line) \in Seq(Lines)
         /\ \A i \in DOMAIN Append(s, line) :
              Append(s, line)[i].re \in {s[j].re : j \in DOMAIN s} \cup {line.re}
<1>1. /\ Append(s, line) \in Seq(Lines) /\ DOMAIN Append(s, line) = 1 .. Len(s) + 1
      /\ Append(s, line)[Len(s) + 1] = line
      /\ \A i \in 1 .. Len(s) : Append(s, line)[i] = s[i]
      /\ Len(s) \in Nat /\ DOMAIN s = 1 .. Len(s)
  OBVIOUS
<1> QED
  BY <1>1

\* A step that posts nothing, assigns no id and starts no execution of a call
\* that is inside the client.
LEMMA NothingPosted ==
  ASSUME McpInv, Sent' \subseteq Sent \cup {NoRequest},
         lastId' = lastId, reqId' = reqId,
         \A c \in Calls : step'[c] # "none" => step[c] # "none" /\ attempt'[c] = attempt[c]
  PROVE  Posted'
BY DEF McpInv, Posted

\* A step of invoke_tool around the execution is one of a call that is not
\* inside the client, and leaves the other calls alone.
LEMMA AroundFacts ==
  ASSUME TypeOK, NEW c \in Calls, Around(c)
  PROVE  /\ pc[c] # "running" /\ (pc[c] = "idle" => phase = "ready")
         /\ \A d \in Calls \ {c} :
              pc'[d] = pc[d] /\ attempt'[d] = attempt[d] /\ result'[d] = result[d]
         /\ pc'[c] # "finishing"
         /\ pc'[c] = "done" /\ result'[c] = "ok" => pc[c] = "finishing"
         /\ pc[c] = "finishing" => attempt'[c] = attempt[c]
<1> USE DEF TypeOK, Goto
<1>1. CASE Start(c) BY <1>1 DEF Start, Around
<1>2. CASE Validate(c) BY <1>2 DEF Validate, Fail, Around
<1>3. CASE Decided(c) BY <1>3 DEF Decided, Fail, Execute, Around
<1>4. CASE Granted(c) BY <1>4 DEF Granted, Execute, Around
<1>5. CASE Denied(c) BY <1>5 DEF Denied, Fail, Around
<1>6. CASE Reported(c) BY <1>6 DEF Reported, Around
<1>7. CASE Again(c) BY <1>7 DEF Again, Execute, Around
<1>8. CASE Return(c) BY <1>8 DEF Return, Errors, ToolErrors, Retryable, Around
<1>9. CASE PublishFails(c) BY <1>9 DEF PublishFails, AttemptFails, Fail, Around
<1> QED
  BY <1>1, <1>2, <1>3, <1>4, <1>5, <1>6, <1>7, <1>8, <1>9 DEF Around

\* The ways out of an execution: at is where invoke_tool goes on.
LEMMA LeaveInv ==
  ASSUME McpInv, TypeOK, NEW c \in Calls, Leave(c), pc[c] # "idle",
         NEW at \in {"finishing", "reporting", "failing", "raised"},
         pc' = [pc EXCEPT ![c] = at],
         UNCHANGED <<attempt, result, phase, inbox>>,
         outbox' = outbox \/ (outbox # <<>> /\ outbox' = Tail(outbox)),
         \/ taken' = taken /\ at # "finishing"
         \/ \E q \in Requests : /\ taken' = [taken EXCEPT ![c] = q]
                                /\ q.who = c /\ q.attempt = attempt[c]
  PROVE  McpInv'
<1>0. McpTypes /\ Ids /\ Posted /\ Quiet /\ NoCrossTalk
  BY DEF McpInv
<1>1. step' = [step EXCEPT ![c] = "none"] /\ lastId' = lastId /\ reqId' = reqId
  BY DEF Leave
<1>2. outbox' \in Seq(Lines) /\ Sent' \subseteq Sent
  <2>1. CASE outbox' = outbox
    BY <1>0, <2>1 DEF McpTypes, Sent
  <2>2. CASE outbox # <<>> /\ outbox' = Tail(outbox)
    <3>1. outbox \in Seq(Lines)
      BY <1>0 DEF McpTypes
    <3>2. /\ Tail(outbox) \in Seq(Lines)
          /\ \A i \in DOMAIN Tail(outbox) :
               Tail(outbox)[i].re \in {outbox[j].re : j \in DOMAIN outbox}
      BY <3>1, <2>2, TailOfLines
    <3> QED
      BY <3>2, <2>2 DEF Sent
  <2> QED
    BY <2>1, <2>2
<1>3. McpTypes'
  BY <1>0, <1>1, <1>2 DEF McpTypes
<1>4. Ids'
  BY <1>0, <1>1 DEF McpTypes, Ids, TypeOK
<1>5. Posted'
  BY <1>0, <1>1, <1>2, NothingPosted DEF McpTypes
<1>6. Quiet'
  BY <1>0, <1>1 DEF Quiet, TypeOK
<1>7. NoCrossTalk'
  <2> SUFFICES ASSUME NEW d \in Calls,
                      pc'[d] = "finishing" \/ (pc'[d] = "done" /\ result'[d] = "ok")
               PROVE  taken'[d].who = d /\ taken'[d].attempt = attempt'[d]
    BY DEF NoCrossTalk
  <2>1. CASE d = c
    <3>1. pc'[c] = at
      BY DEF TypeOK
    <3>2. PICK q \in Requests : /\ taken' = [taken EXCEPT ![c] = q]
                                /\ q.who = c /\ q.attempt = attempt[c]
      BY <3>1, <2>1
    <3> QED
      BY <3>2, <2>1, <1>0 DEF McpTypes
  <2>2. CASE d # c
    <3>1. pc'[d] = pc[d] /\ taken'[d] = taken[d]
      BY <2>2, <1>0 DEF McpTypes, TypeOK
    <3> QED
      BY <3>1, <1>0 DEF NoCrossTalk
  <2> QED
    BY <2>1, <2>2
<1> QED
  BY <1>3, <1>4, <1>5, <1>6, <1>7 DEF McpInv

\* An execution that fails is reported or is the last one.
LEMMA FailsAt ==
  ASSUME NEW c \in Calls, ToolFails(c, "runtime_error")
  PROVE  /\ pc[c] = "running" /\ UNCHANGED <<attempt, result>>
         /\ \E at \in {"reporting", "failing"} : pc' = [pc EXCEPT ![c] = at]
BY DEF ToolFails, AttemptFails, Fail, Goto

LEMMA TakeAnswerInv ==
  ASSUME McpInv, TypeOK, NEW c \in Calls, TakeAnswer(c)
  PROVE  McpInv'
<1> DEFINE q == Head(outbox).re
<1>1. /\ Leave(c) /\ outbox # <<>> /\ outbox' = Tail(outbox)
      /\ UNCHANGED <<phase, inbox>> /\ taken' = [taken EXCEPT ![c] = q]
      /\ step[c] = "reading" /\ q # NoRequest /\ q.id = reqId[c]
  BY DEF TakeAnswer, IsAnswer
<1>2. q \in Requests /\ q \in Sent
  BY <1>1, TailOfLines DEF McpInv, McpTypes, Sent, Lines
<1>3. q.who = c /\ q.attempt = attempt[c]
  BY <1>1, <1>2 DEF McpInv, Posted
<1>4. CASE ToolSucceeds(c)
  <2>1. /\ pc[c] = "running" /\ pc' = [pc EXCEPT ![c] = "finishing"]
        /\ UNCHANGED <<attempt, result>>
    BY <1>4 DEF ToolSucceeds, Goto
  <2> QED
    BY <1>1, <1>2, <1>3, <2>1, LeaveInv
<1>5. CASE ToolFails(c, "runtime_error")
  <2>1. PICK at \in {"reporting", "failing"} : pc' = [pc EXCEPT ![c] = at]
    BY <1>5, FailsAt
  <2>2. pc[c] = "running" /\ UNCHANGED <<attempt, result>>
    BY <1>5, FailsAt
  <2> QED
    BY <1>1, <1>2, <1>3, <2>1, <2>2, LeaveInv
<1> QED
  BY <1>4, <1>5 DEF TakeAnswer

LEMMA GiveUpInv ==
  ASSUME McpInv, TypeOK, NEW c \in Calls, Unavailable(c) \/ Limit(c) \/ CancelCall(c)
  PROVE  McpInv'
<1>1. Leave(c) /\ UNCHANGED <<phase, inbox, outbox, taken>>
  BY DEF Unavailable, Limit, CancelCall, pipe
<1>2. CASE Unavailable(c)
  <2>1. ToolFails(c, "runtime_error")
    BY <1>2 DEF Unavailable
  <2>2. PICK at \in {"reporting", "failing"} : pc' = [pc EXCEPT ![c] = at]
    BY <2>1, FailsAt
  <2>3. pc[c] = "running" /\ UNCHANGED <<attempt, result>>
    BY <2>1, FailsAt
  <2> QED
    BY <1>1, <2>2, <2>3, LeaveInv
<1>3. CASE Limit(c)
  <2>1. /\ pc[c] = "running" /\ pc' = [pc EXCEPT ![c] = "failing"]
        /\ UNCHANGED <<attempt, result>>
    BY <1>3 DEF Limit, TimesOut, Fail, Goto
  <2> QED
    BY <1>1, <2>1, LeaveInv
<1>4. CASE CancelCall(c)
  <2>1. /\ pc[c] # "idle" /\ pc' = [pc EXCEPT ![c] = "raised"]
        /\ UNCHANGED <<attempt, result>>
    BY <1>4 DEF CancelCall, Cancel, Awaits, Goto
  <2> QED
    BY <1>1, <2>1, LeaveInv
<1> QED
  BY <1>2, <1>3, <1>4

LEMMA AroundInv ==
  ASSUME McpInv, TypeOK, NEW c \in Calls, Around(c)
  PROVE  McpInv'
<1>0. McpTypes /\ Ids /\ Posted /\ Quiet /\ NoCrossTalk
  BY DEF McpInv
<1>1. UNCHANGED <<phase, lastId, reqId, step, inbox, outbox, taken>>
  BY DEF Around, client, pipe
<1>2. /\ pc[c] # "running" /\ (pc[c] = "idle" => phase = "ready")
      /\ \A d \in Calls \ {c} :
           pc'[d] = pc[d] /\ attempt'[d] = attempt[d] /\ result'[d] = result[d]
      /\ pc'[c] # "finishing"
      /\ pc'[c] = "done" /\ result'[c] = "ok" => pc[c] = "finishing"
      /\ pc[c] = "finishing" => attempt'[c] = attempt[c]
  BY AroundFacts
<1>3. step[c] = "none"
  BY <1>0, <1>2 DEF Ids, McpTypes
<1>4. McpTypes'
  BY <1>0, <1>1 DEF McpTypes
<1>5. Ids'
  BY <1>0, <1>1, <1>2, <1>3 DEF Ids
<1>6. Posted'
  BY <1>1, <1>2, <1>3, NothingPosted DEF Sent
<1>7. Quiet'
  BY <1>0, <1>1, <1>2 DEF Quiet
<1>8. NoCrossTalk'
  BY <1>0, <1>1, <1>2 DEF NoCrossTalk
<1> QED
  BY <1>4, <1>5, <1>6, <1>7, <1>8 DEF McpInv

\* A request of a call joins the pipe at most once per id.
LEMMA CallInvoked ==
  ASSUME McpInv, TypeOK, NEW c \in Calls, Call(c)
  PROVE  McpInv'
<1> DEFINE id == lastId + 1
           r == [id |-> id, who |-> c, attempt |-> attempt[c]]
<1>0. McpTypes /\ Ids /\ Posted /\ Quiet /\ NoCrossTalk
  BY DEF McpInv
<1>1. /\ pc[c] = "running" /\ step[c] = "none"
      /\ lastId' = id /\ reqId' = [reqId EXCEPT ![c] = id]
      /\ UNCHANGED <<pc, attempt, result, phase, outbox, taken>>
  BY DEF Call, AssignId, FreshId, vars
<1>2. /\ \E at \in {"queued", "reading"} : step' = [step EXCEPT ![c] = at]
      /\ inbox' \subseteq inbox \cup {r}
  BY DEF Call, Send, Deliver, FreshId
<1>3. id \in Nat /\ id > 0 /\ r \in Requests
  BY <1>0 DEF McpTypes, Requests, TypeOK
<1>4. McpTypes'
  BY <1>0, <1>1, <1>2, <1>3 DEF McpTypes
<1>5. Ids'
  BY <1>0, <1>1, <1>2, <1>3 DEF Ids, McpTypes
<1>6. Posted'
  <2> SUFFICES ASSUME NEW q \in Sent', q # NoRequest
               PROVE  /\ q.id \in 1 .. id
                      /\ \A d \in Calls : q.id = reqId'[d] =>
                           q.who = d /\ (step'[d] # "none" => q.attempt = attempt[d])
    BY <1>1 DEF Posted
  <2>1. q \in Sent \/ q = r
    BY <1>1, <1>2 DEF Sent
  <2>2. CASE q \in Sent
    <3>1. /\ q.id \in 1 .. lastId
          /\ \A d \in Calls : q.id = reqId[d] =>
               q.who = d /\ (step[d] # "none" => q.attempt = attempt[d])
      BY <1>0, <2>2 DEF Posted
    <3>2. \A d \in Calls \ {c} : reqId'[d] = reqId[d] /\ step'[d] = step[d]
      BY <1>0, <1>1, <1>2 DEF McpTypes
    <3>3. reqId'[c] = id /\ q.id \in 1 .. id /\ q.id # id
      BY <1>0, <1>1, <3>1 DEF McpTypes
    <3> QED
      BY <3>1, <3>2, <3>3
  <2>3. CASE q = r
    <3>1. \A d \in Calls : d # c => reqId'[d] # id
      BY <1>0, <1>1, <1>3 DEF McpTypes, Ids
    <3> QED
      BY <2>3, <3>1, <1>3
  <2> QED
    BY <2>1, <2>2, <2>3
<1>7. Quiet' /\ NoCrossTalk'
  BY <1>0, <1>1 DEF Quiet, NoCrossTalk
<1> QED
  BY <1>4, <1>5, <1>6, <1>7 DEF McpInv

LEMMA AcquireInv ==
  ASSUME McpInv, TypeOK, NEW c \in Calls, Acquire(c)
  PROVE  McpInv'
<1> DEFINE r == [id |-> reqId[c], who |-> c, attempt |-> attempt[c]]
<1>0. McpTypes /\ Ids /\ Posted /\ Quiet /\ NoCrossTalk
  BY DEF McpInv
<1>1. /\ step[c] = "queued" /\ step' = [step EXCEPT ![c] = "reading"]
      /\ inbox' \subseteq inbox \cup {r}
      /\ UNCHANGED <<pc, attempt, result, phase, outbox, taken, lastId, reqId>>
  BY DEF Acquire, Send, Deliver, vars
<1>2. r \in Requests /\ r.id \in 1 .. lastId
  <2>1. reqId[c] \in Nat /\ lastId \in Nat /\ attempt[c] \in 0 .. Retries + 1
    BY <1>0 DEF McpTypes, TypeOK
  <2>2. reqId[c] > 0 /\ reqId[c] <= lastId
    BY <1>0, <1>1 DEF Ids
  <2>3. r \in Requests
    BY <2>1 DEF Requests
  <2>4. r.id = reqId[c] /\ reqId[c] \in 1 .. lastId
    BY <2>1, <2>2
  <2> QED
    BY <2>3, <2>4
<1>3. McpTypes'
  BY <1>0, <1>1, <1>2 DEF McpTypes
<1>4. Ids'
  BY <1>0, <1>1 DEF Ids, McpTypes
<1>5. Posted'
  <2> SUFFICES ASSUME NEW q \in Sent', q # NoRequest
               PROVE  /\ q.id \in 1 .. lastId
                      /\ \A d \in Calls : q.id = reqId[d] =>
                           q.who = d /\ (step'[d] # "none" => q.attempt = attempt[d])
    BY <1>1 DEF Posted
  <2>1. q \in Sent \/ q = r
    BY <1>1 DEF Sent
  <2>2. \A d \in Calls : step'[d] # "none" => step[d] # "none"
    BY <1>0, <1>1 DEF McpTypes
  <2>3. CASE q \in Sent
    BY <1>0, <2>2, <2>3 DEF Posted
  <2>4. CASE q = r
    <3>1. \A d \in Calls : reqId[d] = reqId[c] => d = c
      BY <1>0, <1>2 DEF McpTypes, Ids
    <3> QED
      BY <2>4, <3>1, <1>2
  <2> QED
    BY <2>1, <2>3, <2>4
<1>6. Quiet' /\ NoCrossTalk'
  BY <1>0, <1>1 DEF Quiet, NoCrossTalk
<1> QED
  BY <1>3, <1>4, <1>5, <1>6 DEF McpInv

-----------------------------------------------------------------------------
(* The steps of the pipe alone: no call is seen to change by invoke_tool.  *)

\* A step that changes no call and no id, and posts nothing.
LEMMA PipeStepInv ==
  ASSUME McpInv, TypeOK,
         UNCHANGED <<pc, attempt, result, lastId, reqId, step, taken>>,
         phase' \in {phase, "skipped", "ready"}, phase' = "skipped" => phase # "ready",
         inbox' \subseteq Requests, outbox' \in Seq(Lines),
         Sent' \subseteq Sent \cup {NoRequest}
  PROVE  McpInv'
<1>0. McpTypes /\ Ids /\ Posted /\ Quiet /\ NoCrossTalk
  BY DEF McpInv
<1>1. McpTypes' /\ Ids'
  BY <1>0 DEF McpTypes, Ids
<1>2. Posted'
  BY NothingPosted
<1>3. Quiet' /\ NoCrossTalk'
  BY <1>0 DEF Quiet, NoCrossTalk
<1> QED
  BY <1>1, <1>2, <1>3 DEF McpInv

\* A line is read and dropped, or by the handshake.
LEMMA ReadSent ==
  ASSUME McpInv, outbox # <<>>, outbox' = Tail(outbox)
  PROVE  /\ outbox' \in Seq(Lines)
         /\ {outbox'[i].re : i \in DOMAIN outbox'} \subseteq Sent
BY TailOfLines DEF McpInv, McpTypes, Sent

\* What the server does: it answers a request, writes another line or dies.
LEMMA ServerInv ==
  ASSUME McpInv, TypeOK, ServerStep
  PROVE  McpInv'
<1>0. inbox \subseteq Requests /\ outbox \in Seq(Lines)
  BY DEF McpInv, McpTypes
<1>1. ASSUME NEW q \in inbox, NEW ok \in BOOLEAN, Answer(q, ok) PROVE McpInv'
  <2> DEFINE line == [re |-> q, ok |-> ok]
  <2>1. /\ UNCHANGED <<pc, attempt, result, lastId, reqId, step, taken, phase>>
        /\ inbox' \subseteq inbox /\ outbox' = Append(outbox, line)
    BY <1>1 DEF Answer, vars, client
  <2>2. line \in Lines /\ line.re = q
    BY <1>0 DEF Lines
  <2>3. /\ Append(outbox, line) \in Seq(Lines)
        /\ \A i \in DOMAIN Append(outbox, line) :
             Append(outbox, line)[i].re \in {outbox[j].re : j \in DOMAIN outbox} \cup {line.re}
    BY <1>0, <2>2, MoreLines
  <2>4. Sent' \subseteq Sent
    BY <2>1, <2>2, <2>3 DEF Sent
  <2> QED
    BY <1>0, <2>1, <2>3, <2>4, PipeStepInv
<1>2. CASE WriteNoise
  <2>1. /\ UNCHANGED <<pc, attempt, result, lastId, reqId, step, taken, phase, inbox>>
        /\ outbox' = Append(outbox, Noise)
    BY <1>2 DEF WriteNoise, vars, client
  <2>2. Noise \in Lines /\ Noise.re = NoRequest
    <3>1. NoRequest \in Requests
      BY ToolCallAssumption DEF NoRequest, Requests
    <3> QED
      BY <3>1 DEF Noise, Lines
  <2>3. /\ Append(outbox, Noise) \in Seq(Lines)
        /\ \A i \in DOMAIN Append(outbox, Noise) :
             Append(outbox, Noise)[i].re \in {outbox[j].re : j \in DOMAIN outbox} \cup {Noise.re}
    BY <1>0, <2>2, MoreLines
  <2>4. Sent' \subseteq Sent \cup {NoRequest}
    BY <2>1, <2>2, <2>3 DEF Sent
  <2> QED
    BY <1>0, <2>1, <2>3, <2>4, PipeStepInv
<1>3. CASE Die
  <2>1. UNCHANGED <<pc, attempt, result, lastId, reqId, step, taken, phase, inbox, outbox>>
    BY <1>3 DEF Die, vars, client
  <2>2. Sent' = Sent
    BY <2>1 DEF Sent
  <2> QED
    BY <1>0, <2>1, <2>2, PipeStepInv
<1> QED
  BY <1>1, <1>2, <1>3 DEF ServerStep

\* A step of the handshake that assigns an id: no call has one yet.
LEMMA BootInv ==
  ASSUME McpInv, TypeOK, phase # "ready", phase' # "ready",
         UNCHANGED <<pc, attempt, result, reqId, step, taken>>,
         NEW n \in Nat, n > 0, n >= lastId, lastId' = n,
         phase' # "off", phase' = "initialize" => n = 1,
         outbox' \in Seq(Lines), {outbox'[i].re : i \in DOMAIN outbox'} \subseteq Sent,
         inbox' \subseteq inbox \cup {BootRequest(n)}
  PROVE  McpInv'
<1>0. McpTypes /\ Ids /\ Posted /\ Quiet /\ NoCrossTalk
  BY DEF McpInv
<1>1. BootRequest(n) \in Requests /\ BootRequest(n).id = n
  BY ToolCallAssumption DEF BootRequest, Requests
<1>2. Sent' \subseteq Sent \cup {BootRequest(n)}
  BY DEF Sent
<1>3. \A c \in Calls : reqId[c] = 0
  BY <1>0 DEF Quiet
<1>4. McpTypes'
  BY <1>0, <1>1 DEF McpTypes
<1>5. Ids'
  BY <1>0, <1>3 DEF Ids, McpTypes
<1>6. Posted'
  <2> SUFFICES ASSUME NEW q \in Sent', q # NoRequest
               PROVE  q.id \in 1 .. n
    BY <1>3 DEF Posted
  <2>1. CASE q \in Sent
    <3>1. q.id \in 1 .. lastId /\ lastId \in Nat
      BY <1>0, <2>1 DEF Posted, McpTypes
    <3> QED
      BY <3>1
  <2>2. CASE q = BootRequest(n)
    BY <2>2, <1>1
  <2> QED
    BY <2>1, <2>2, <1>2
<1>7. Quiet' /\ NoCrossTalk'
  BY <1>0 DEF Quiet, NoCrossTalk
<1> QED
  BY <1>4, <1>5, <1>6, <1>7 DEF McpInv

\* What the manager does: start_all and stop_all.
LEMMA ManagerInv ==
  ASSUME McpInv, TypeOK, Connect \/ Handshake \/ HandshakeFails \/ StopAll
  PROVE  McpInv'
<1>0. inbox \subseteq Requests /\ outbox \in Seq(Lines) /\ lastId \in Nat
  BY DEF McpInv, McpTypes
<1>1. CASE Connect
  <2>1. /\ UNCHANGED <<pc, attempt, result, reqId, step, taken, outbox>>
        /\ phase = "off" /\ phase' = "initialize"
        /\ lastId' = 1 /\ inbox' = {BootRequest(1)}
    BY <1>1 DEF Connect, vars
  <2>2. {outbox'[i].re : i \in DOMAIN outbox'} \subseteq Sent
    BY <2>1 DEF Sent
  <2>3. lastId <= 1
    BY <2>1 DEF McpInv, Quiet
  <2> QED
    BY <1>0, <2>1, <2>2, <2>3, BootInv
<1>2. CASE Handshake
  <2>1. /\ UNCHANGED <<pc, attempt, result, reqId, step, taken>>
        /\ phase \in {"initialize", "listing"}
        /\ outbox # <<>> /\ outbox' = Tail(outbox)
        /\ phase' \in {phase, "listing", "skipped", "ready"}
    BY <1>2 DEF Handshake, vars
  <2>2. outbox' \in Seq(Lines) /\ {outbox'[i].re : i \in DOMAIN outbox'} \subseteq Sent
    BY <2>1, ReadSent
  <2>3. CASE UNCHANGED <<lastId, inbox>> /\ phase' \in {phase, "skipped", "ready"}
    <3>1. Sent' \subseteq Sent
      BY <2>2, <2>3 DEF Sent
    <3> QED
      BY <1>0, <2>1, <2>2, <2>3, <3>1, PipeStepInv
  <2>4. CASE phase = "initialize" /\ phase' = "listing" /\ lastId' = 2 /\ Deliver(BootRequest(2))
    <3>1. inbox' \subseteq inbox \cup {BootRequest(2)}
      BY <2>4 DEF Deliver
    <3>2. lastId <= 2
      BY <2>4 DEF McpInv, Quiet
    <3> QED
      BY <1>0, <2>1, <2>2, <2>4, <3>1, <3>2, BootInv
  <2> QED
    BY <1>2, <2>3, <2>4 DEF Handshake
<1>3. CASE HandshakeFails \/ StopAll
  <2>1. /\ UNCHANGED <<pc, attempt, result, lastId, reqId, step, taken, inbox, outbox>>
        /\ phase' \in {phase, "skipped"} /\ (phase' = "skipped" => phase # "ready")
    BY <1>3 DEF HandshakeFails, StopAll, vars, client, pipe
  <2>2. Sent' = Sent
    BY <2>1 DEF Sent
  <2> QED
    BY <1>0, <2>1, <2>2, PipeStepInv
<1> QED
  BY <1>1, <1>2, <1>3
LEMMA InitMcpInv == McpInit => McpInv
<1> SUFFICES ASSUME McpInit PROVE McpInv
  OBVIOUS
<1>1. NoRequest \in Requests
  BY ToolCallAssumption DEF NoRequest, Requests
<1>2. inbox = {} /\ outbox = <<>> /\ lastId = 0 /\ phase = "off"
  BY DEF McpInit
<1>3. outbox \in Seq(Lines) /\ Sent = {}
  BY <1>2 DEF Sent
<1>4. McpTypes
  BY <1>1, <1>2, <1>3 DEF McpInit, McpTypes
<1>5. Ids
  BY DEF McpInit, Ids
<1>6. Posted
  BY <1>3 DEF Posted
<1>7. Quiet /\ NoCrossTalk
  BY DEF McpInit, Init, Quiet, NoCrossTalk
<1> QED
  BY <1>4, <1>5, <1>6, <1>7 DEF McpInv

\* A line that is not the call's answer is dropped.
LEMMA SkipInv ==
  ASSUME McpInv, TypeOK, NEW c \in Calls, SkipLine(c)
  PROVE  McpInv'
<1>0. inbox \subseteq Requests
  BY DEF McpInv, McpTypes
<1>1. /\ UNCHANGED <<pc, attempt, result, lastId, reqId, step, taken, phase, inbox>>
      /\ outbox # <<>> /\ outbox' = Tail(outbox)
  BY DEF SkipLine, vars, client
<1>2. outbox' \in Seq(Lines) /\ {outbox'[i].re : i \in DOMAIN outbox'} \subseteq Sent
  BY <1>1, ReadSent
<1>3. Sent' \subseteq Sent
  BY <1>1, <1>2 DEF Sent
<1> QED
  BY <1>0, <1>1, <1>2, <1>3, PipeStepInv

LEMMA McpStutterInv == McpInv /\ UNCHANGED mcpVars => McpInv'
BY DEF McpInv, McpTypes, Ids, Posted, Sent, Quiet, NoCrossTalk,
       mcpVars, vars, client, pipe

LEMMA McpStepInv == McpInv /\ TypeOK /\ McpNext => McpInv'
<1> SUFFICES ASSUME McpInv, TypeOK, McpNext PROVE McpInv'
  OBVIOUS
<1>1. ASSUME NEW c \in Calls, McpCallStep(c) PROVE McpInv'
  BY <1>1, CallInvoked, AcquireInv, SkipInv, TakeAnswerInv, GiveUpInv, AroundInv
     DEF McpCallStep
<1>2. CASE Connect \/ Handshake \/ HandshakeFails \/ StopAll
  BY <1>2, ManagerInv
<1>3. CASE ServerStep
  BY <1>3, ServerInv
<1> QED
  BY <1>1, <1>2, <1>3 DEF McpNext

\* The invariant of the ids and the pipe, with the types ToolCall proves.
LEMMA McpInvariant == McpSpec => [](McpInv /\ TypeOK)
<1>1. McpInit => McpInv
  BY InitMcpInv
<1>2. McpInv /\ TypeOK /\ [McpNext]_mcpVars => McpInv'
  BY McpStepInv, McpStutterInv
<1>3. McpSpec => []TypeOK
  <2>1. IInv => TypeOK
    BY DEF IInv
  <2> QED
    BY <2>1, McpImplementsToolCall, Invariance, PTL DEF ImplementsToolCall
<1> QED
  BY <1>1, <1>2, <1>3, PTL DEF McpSpec

\* A call that succeeds returns the answer to the request of its own current
\* execution, for any number of calls and whatever the server writes
\* (client.py:175-198).
THEOREM NoCrossTalkHolds == McpSpec => []NoCrossTalk
<1>1. McpInv => NoCrossTalk
  BY DEF McpInv
<1> QED
  BY <1>1, McpInvariant, PTL

-----------------------------------------------------------------------------
(* The lock.  Its queue holds every waiter once, so that the one who leaves *)
(* is taken out without disturbing the others.                             *)

LockTypes ==
  /\ phase \in {"off", "initialize", "listing", "ready", "skipped"}
  /\ server \in {"none", "up", "dead"}
  /\ queue \in Seq(Calls) /\ holder \in Calls \cup {Nobody}
  /\ noise \in 0 .. MaxNoise /\ effects \in [Calls -> Nat]

LockInv == LockTypes /\ LockOfReader

LEMMA Removed ==
  ASSUME NEW s \in Seq(Calls), NEW k \in DOMAIN s
  PROVE  /\ RemoveAt(s, k) \in Seq(Calls)
         /\ Len(RemoveAt(s, k)) = Len(s) - 1
         /\ \A i \in 1 .. Len(s) - 1 :
              RemoveAt(s, k)[i] = IF i < k THEN s[i] ELSE s[i + 1]
<1> DEFINE a == SubSeq(s, 1, k - 1)
           b == SubSeq(s, k + 1, Len(s))
<1>1. Len(s) \in Nat /\ k \in 1 .. Len(s)
  OBVIOUS
<1>2. /\ a \in Seq(Calls) /\ Len(a) = k - 1
      /\ \A i \in 1 .. k - 1 : a[i] = s[i]
  BY <1>1
<1>3. /\ b \in Seq(Calls) /\ Len(b) = Len(s) - k
      /\ \A i \in 1 .. Len(s) - k : b[i] = s[k + i]
  BY <1>1
<1>4. RemoveAt(s, k) = a \o b
  BY DEF RemoveAt
<1>5. /\ a \o b \in Seq(Calls) /\ Len(a \o b) = Len(a) + Len(b)
      /\ \A i \in 1 .. Len(a) + Len(b) :
           (a \o b)[i] = IF i <= Len(a) THEN a[i] ELSE b[i - Len(a)]
  <2>1. a \in Seq(Calls) /\ b \in Seq(Calls)
    BY <1>2, <1>3
  <2> HIDE DEF a, b
  <2> QED
    BY <2>1, ConcatProperties
<1> HIDE DEF a, b
<1>6. /\ Len(a) + Len(b) = Len(s) - 1
      /\ \A i \in 1 .. Len(s) - 1 :
           (a \o b)[i] = IF i <= k - 1 THEN a[i] ELSE b[i - (k - 1)]
  <2>1. Len(a) + Len(b) = Len(s) - 1
    BY <1>1, <1>2, <1>3
  <2> QED
    BY <2>1, <1>2, <1>5
<1>7. ASSUME NEW i \in 1 .. Len(s) - 1
      PROVE  (a \o b)[i] = IF i < k THEN s[i] ELSE s[i + 1]
  <2>1. CASE i < k
    <3>1. i <= k - 1 /\ i \in 1 .. k - 1
      BY <2>1, <1>1
    <3> QED
      BY <2>1, <3>1, <1>2, <1>6
  <2>2. CASE ~(i < k)
    <3>1. i - (k - 1) \in 1 .. Len(s) - k /\ k + (i - (k - 1)) = i + 1 /\ ~(i <= k - 1)
      BY <2>2, <1>1
    <3>2. (a \o b)[i] = b[i - (k - 1)]
      BY <3>1, <1>6
    <3>3. b[i - (k - 1)] = s[k + (i - (k - 1))]
      BY <3>1, <1>3
    <3>4. (a \o b)[i] = s[i + 1]
      BY <3>1, <3>2, <3>3
    <3> QED
      BY <2>2, <3>4
  <2> QED
    BY <2>1, <2>2
<1>8. RemoveAt(s, k) \in Seq(Calls) /\ Len(RemoveAt(s, k)) = Len(s) - 1
  BY <1>4, <1>5, <1>6
<1> QED
  BY <1>4, <1>7, <1>8

\* A waiter that leaves: the others keep their places.
LEMMA WaiterLeaves ==
  ASSUME LockInv, NEW c \in Calls, step[c] = "queued", StopWaiting(c)
  PROVE  /\ queue' \in Seq(Calls)
         /\ \A d \in Calls :
              (\E i \in DOMAIN queue' : queue'[i] = d)
                <=> d # c /\ \E i \in DOMAIN queue : queue[i] = d
         /\ \A i, j \in DOMAIN queue' : queue'[i] = queue'[j] => i = j
<1>1. PICK k \in DOMAIN queue : queue[k] = c /\ queue' = RemoveAt(queue, k)
  BY DEF StopWaiting
<1>2. queue \in Seq(Calls) /\ \A i, j \in DOMAIN queue : queue[i] = queue[j] => i = j
  BY DEF LockInv, LockTypes, LockOfReader
<1>3. /\ queue' \in Seq(Calls) /\ Len(queue') = Len(queue) - 1
      /\ \A i \in 1 .. Len(queue) - 1 :
           queue'[i] = IF i < k THEN queue[i] ELSE queue[i + 1]
  BY <1>1, <1>2, Removed
<1>4. /\ Len(queue) \in Nat /\ k \in 1 .. Len(queue) /\ DOMAIN queue = 1 .. Len(queue)
      /\ DOMAIN queue' = 1 .. Len(queue) - 1
  BY <1>2, <1>3
<1> DEFINE at(i) == IF i < k THEN i ELSE i + 1
<1>5. \A i \in DOMAIN queue' :
        at(i) \in DOMAIN queue /\ at(i) # k /\ queue'[i] = queue[at(i)]
  BY <1>3, <1>4
<1>6. \A i, j \in DOMAIN queue' : at(i) = at(j) => i = j
  BY <1>4
<1>7. \A i \in DOMAIN queue : i # k => \E j \in DOMAIN queue' : at(j) = i
  <2> SUFFICES ASSUME NEW i \in DOMAIN queue, i # k
               PROVE  \E j \in DOMAIN queue' : at(j) = i
    OBVIOUS
  <2>1. CASE i < k
    BY <2>1, <1>4
  <2>2. CASE i > k
    <3>1. i - 1 \in DOMAIN queue' /\ at(i - 1) = i
      BY <2>2, <1>4
    <3> QED
      BY <3>1
  <2> QED
    BY <2>1, <2>2, <1>4
<1> HIDE DEF at
<1>8. ASSUME NEW d \in Calls
      PROVE  (\E i \in DOMAIN queue' : queue'[i] = d)
               <=> d # c /\ \E i \in DOMAIN queue : queue[i] = d
  <2>1. ASSUME NEW i \in DOMAIN queue', queue'[i] = d
        PROVE  d # c /\ \E j \in DOMAIN queue : queue[j] = d
    BY <2>1, <1>1, <1>2, <1>5
  <2>2. ASSUME NEW i \in DOMAIN queue, queue[i] = d, d # c
        PROVE  \E j \in DOMAIN queue' : queue'[j] = d
    <3>1. i # k
      BY <2>2, <1>1
    <3>2. PICK j \in DOMAIN queue' : at(j) = i
      BY <3>1, <1>7
    <3> QED
      BY <3>2, <2>2, <1>5
  <2> QED
    BY <2>1, <2>2
<1>9. \A i, j \in DOMAIN queue' : queue'[i] = queue'[j] => i = j
  BY <1>2, <1>5, <1>6
<1> QED
  BY <1>3, <1>8, <1>9

\* A call that leaves gives up the lock or its place in the queue.
LEMMA LeaveLock ==
  ASSUME LockInv, McpTypes, NEW c \in Calls, Leave(c),
         \A d \in Calls \ {c} : pc'[d] = pc[d],
         UNCHANGED <<phase, server, noise, effects>>
  PROVE  LockInv'
<1>0. LockTypes /\ LockOfReader /\ c # Nobody
  BY McpAssumption DEF LockInv
<1>1. /\ step' = [step EXCEPT ![c] = "none"]
      /\ holder' = IF holder = c THEN Nobody ELSE holder
      /\ StopWaiting(c)
  BY DEF Leave
<1>2. step'[c] = "none" /\ \A d \in Calls \ {c} : step'[d] = step[d]
  BY <1>1 DEF McpTypes
<1>3. \A d \in Calls : step'[d] = "reading" <=> holder' = d
  BY <1>0, <1>1, <1>2, McpAssumption DEF LockOfReader
<1>4. \A d \in Calls : step'[d] # "none" => pc'[d] = "running"
  BY <1>0, <1>2 DEF LockOfReader
<1>5. /\ queue' \in Seq(Calls)
      /\ \A d \in Calls : step'[d] = "queued" <=> \E i \in DOMAIN queue' : queue'[i] = d
      /\ \A i, j \in DOMAIN queue' : queue'[i] = queue'[j] => i = j
  <2>1. CASE step[c] = "queued"
    <3>1. /\ queue' \in Seq(Calls)
          /\ \A d \in Calls : (\E i \in DOMAIN queue' : queue'[i] = d)
                                <=> d # c /\ \E i \in DOMAIN queue : queue[i] = d
          /\ \A i, j \in DOMAIN queue' : queue'[i] = queue'[j] => i = j
      BY <1>1, <2>1, WaiterLeaves
    <3>2. \A d \in Calls : step'[d] = "queued" <=> d # c /\ \E i \in DOMAIN queue : queue[i] = d
      BY <1>0, <1>2 DEF LockOfReader
    <3> QED
      BY <3>1, <3>2
  <2>2. CASE step[c] # "queued"
    <3>1. queue' = queue
      BY <1>1, <2>2 DEF StopWaiting
    <3>2. \A d \in Calls : step'[d] = "queued" <=> step[d] = "queued"
      BY <1>2, <2>2
    <3> QED
      BY <1>0, <3>1, <3>2 DEF LockTypes, LockOfReader
  <2> QED
    BY <2>1, <2>2
<1>6. LockTypes'
  BY <1>0, <1>1, <1>5 DEF LockTypes
<1> QED
  BY <1>3, <1>4, <1>5, <1>6 DEF LockInv, LockOfReader

\* A step that leaves the lock, its queue and the calls inside the client alone.
LEMMA LockKept ==
  ASSUME LockInv, UNCHANGED <<step, queue, holder>>,
         \A d \in Calls : step[d] # "none" => pc'[d] = pc[d],
         phase' \in {"off", "initialize", "listing", "ready", "skipped"},
         server' \in {"none", "up", "dead"},
         noise' \in 0 .. MaxNoise, effects' \in [Calls -> Nat]
  PROVE  LockInv'
<1>1. LockTypes'
  BY DEF LockInv, LockTypes
<1>2. LockOfReader'
  BY DEF LockInv, LockOfReader
<1> QED
  BY <1>1, <1>2 DEF LockInv

\* The lock is free: the call reads at once.  Otherwise it waits at the end.
LEMMA CallLock ==
  ASSUME LockInv, McpTypes, NEW c \in Calls, Call(c)
  PROVE  LockInv'
<1>0. LockTypes /\ LockOfReader /\ c # Nobody
  BY McpAssumption DEF LockInv
<1>1. pc[c] = "running" /\ step[c] = "none"
      /\ UNCHANGED <<pc, phase, server, noise, effects>>
  BY DEF Call, vars
<1>2. CASE /\ holder = Nobody /\ queue = <<>>
           /\ Send(c, FreshId(c)) /\ UNCHANGED queue
  <2>1. /\ step'[c] = "reading" /\ holder' = c /\ queue' = queue
        /\ \A d \in Calls \ {c} : step'[d] = step[d]
    BY <1>2 DEF Send, McpTypes
  <2>2. \A d \in Calls : step[d] # "reading"
    BY <1>0, <1>2, McpAssumption DEF LockOfReader
  <2>3. \A d \in Calls : step'[d] = "reading" <=> holder' = d
    BY <2>1, <2>2
  <2>4. \A d \in Calls : step'[d] = "queued" <=> step[d] = "queued"
    BY <1>1, <2>1
  <2>5. LockOfReader'
    BY <1>0, <1>1, <2>1, <2>3, <2>4 DEF LockOfReader
  <2> QED
    BY <1>0, <1>1, <2>1, <2>5 DEF LockInv, LockTypes
<1>3. CASE /\ step' = [step EXCEPT ![c] = "queued"]
           /\ queue' = Append(queue, c) /\ UNCHANGED holder
  <2>1. /\ step'[c] = "queued" /\ \A d \in Calls \ {c} : step'[d] = step[d]
    BY <1>3 DEF McpTypes
  <2>2. queue \in Seq(Calls)
    BY <1>0 DEF LockTypes
  <2>3. /\ queue' \in Seq(Calls) /\ Len(queue) \in Nat
        /\ DOMAIN queue = 1 .. Len(queue) /\ DOMAIN queue' = 1 .. Len(queue) + 1
        /\ queue'[Len(queue) + 1] = c
        /\ \A i \in 1 .. Len(queue) : queue'[i] = queue[i]
    BY <1>3, <2>2
  <2>4. \A i \in DOMAIN queue : queue[i] # c
    BY <1>0, <1>1 DEF LockOfReader
  <2>5. \A i, j \in DOMAIN queue' : queue'[i] = queue'[j] => i = j
    <3>1. \A i \in DOMAIN queue' : i \in DOMAIN queue \/ i = Len(queue) + 1
      BY <2>3
    <3> QED
      BY <3>1, <2>3, <2>4, <1>0 DEF LockOfReader
  <2>6. ASSUME NEW d \in Calls
        PROVE  step'[d] = "queued" <=> \E i \in DOMAIN queue' : queue'[i] = d
    <3>1. CASE d = c
      <4>1. Len(queue) + 1 \in DOMAIN queue'
        BY <2>3
      <4> QED
        BY <3>1, <4>1, <2>1, <2>3
    <3>2. CASE d # c
      <4>1. (\E i \in DOMAIN queue' : queue'[i] = d) <=> \E i \in DOMAIN queue : queue[i] = d
        BY <3>2, <2>3
      <4> QED
        BY <3>2, <4>1, <2>1, <1>0 DEF LockOfReader
    <3> QED
      BY <3>1, <3>2
  <2>7. \A d \in Calls : step'[d] = "reading" <=> holder' = d
    BY <1>0, <1>1, <1>3, <2>1 DEF LockOfReader
  <2>8. LockOfReader'
    BY <1>0, <1>1, <2>1, <2>5, <2>6, <2>7 DEF LockOfReader
  <2> QED
    BY <1>0, <1>1, <1>3, <2>3, <2>8 DEF LockInv, LockTypes
<1> QED
  BY <1>2, <1>3 DEF Call

\* The first waiter takes the lock.
LEMMA AcquireLock ==
  ASSUME LockInv, McpTypes, NEW c \in Calls, Acquire(c)
  PROVE  LockInv'
<1>0. LockTypes /\ LockOfReader /\ c # Nobody
  BY McpAssumption DEF LockInv
<1>1. /\ step[c] = "queued" /\ holder = Nobody /\ queue # <<>> /\ Head(queue) = c
      /\ queue' = Tail(queue) /\ holder' = c
      /\ step'[c] = "reading" /\ \A d \in Calls \ {c} : step'[d] = step[d]
      /\ UNCHANGED <<pc, phase, server, noise, effects>>
  BY DEF Acquire, Send, vars, McpTypes
<1>2. queue \in Seq(Calls)
  BY <1>0 DEF LockTypes
<1>3. /\ queue' \in Seq(Calls) /\ Len(queue) \in Nat /\ Len(queue) > 0
      /\ DOMAIN queue = 1 .. Len(queue) /\ DOMAIN queue' = 1 .. Len(queue) - 1
      /\ queue[1] = c
      /\ \A i \in 1 .. Len(queue) - 1 : queue'[i] = queue[i + 1]
  BY <1>1, <1>2
<1>4. \A i \in DOMAIN queue' : i + 1 \in DOMAIN queue /\ i + 1 # 1 /\ queue'[i] = queue[i + 1]
  BY <1>3
<1>5. \A i \in DOMAIN queue : i # 1 => \E j \in DOMAIN queue' : j + 1 = i
  <2> SUFFICES ASSUME NEW i \in DOMAIN queue, i # 1
               PROVE  \E j \in DOMAIN queue' : j + 1 = i
    OBVIOUS
  <2>1. i - 1 \in DOMAIN queue' /\ (i - 1) + 1 = i
    BY <1>3
  <2> QED
    BY <2>1
<1>6. 1 \in DOMAIN queue /\ \A i, j \in DOMAIN queue : queue[i] = queue[j] => i = j
  BY <1>0, <1>3 DEF LockOfReader
<1>7. \A i, j \in DOMAIN queue' : queue'[i] = queue'[j] => i = j
  <2> SUFFICES ASSUME NEW i \in DOMAIN queue', NEW j \in DOMAIN queue', queue'[i] = queue'[j]
               PROVE  i = j
    OBVIOUS
  <2>1. i + 1 = j + 1
    BY <1>4, <1>6
  <2> QED
    BY <2>1, <1>3
<1>8. ASSUME NEW d \in Calls
      PROVE  step'[d] = "queued" <=> \E i \in DOMAIN queue' : queue'[i] = d
  <2>1. CASE d = c
    BY <2>1, <1>1, <1>3, <1>4, <1>6
  <2>2. CASE d # c
    <3>1. ASSUME NEW i \in DOMAIN queue, queue[i] = d PROVE \E j \in DOMAIN queue' : queue'[j] = d
      <4>1. i # 1
        BY <3>1, <2>2, <1>3
      <4>2. PICK j \in DOMAIN queue' : j + 1 = i
        BY <4>1, <1>5
      <4> QED
        BY <4>2, <3>1, <1>4
    <3>2. ASSUME NEW i \in DOMAIN queue', queue'[i] = d PROVE \E j \in DOMAIN queue : queue[j] = d
      BY <3>2, <1>4
    <3> QED
      BY <3>1, <3>2, <2>2, <1>0, <1>1 DEF LockOfReader
  <2> QED
    BY <2>1, <2>2
<1>9. \A d \in Calls : step[d] # "reading"
  BY <1>0, <1>1, McpAssumption DEF LockOfReader
<1>10. \A d \in Calls : step'[d] = "reading" <=> holder' = d
  BY <1>1, <1>9
<1>11. LockOfReader'
  BY <1>0, <1>1, <1>7, <1>8, <1>10 DEF LockOfReader
<1> QED
  BY <1>0, <1>1, <1>3, <1>11 DEF LockInv, LockTypes

\* The end of an execution changes no other call.
LEMMA OthersRun ==
  ASSUME NEW c \in Calls, TypeOK,
         TakeAnswer(c) \/ Unavailable(c) \/ Limit(c) \/ CancelCall(c)
  PROVE  /\ Leave(c) /\ attempt' = attempt /\ pc'[c] # "running"
         /\ \A d \in Calls \ {c} : pc'[d] = pc[d]
<1>1. CASE ToolSucceeds(c) /\ Leave(c)
  BY <1>1 DEF ToolSucceeds, Goto, TypeOK
<1>2. CASE ToolFails(c, "runtime_error") /\ Leave(c)
  <2>1. PICK at \in {"reporting", "failing"} : pc' = [pc EXCEPT ![c] = at]
    BY <1>2, FailsAt
  <2>2. attempt' = attempt
    BY <1>2, FailsAt
  <2> QED
    BY <1>2, <2>1, <2>2 DEF TypeOK
<1>3. CASE TimesOut(c) /\ Leave(c)
  BY <1>3 DEF TimesOut, Fail, Goto, TypeOK
<1>4. CASE Cancel(c) /\ Leave(c)
  BY <1>4 DEF Cancel, Goto, TypeOK
<1> QED
  BY <1>1, <1>2, <1>3, <1>4 DEF TakeAnswer, Unavailable, Limit, CancelCall

LEMMA CallStepLock ==
  ASSUME LockInv, McpInv, TypeOK, NEW c \in Calls, McpCallStep(c)
  PROVE  LockInv'
<1>0. McpTypes /\ LockTypes /\ LockOfReader
  BY DEF McpInv, LockInv
<1>1. CASE Call(c)
  BY <1>0, <1>1, CallLock
<1>2. CASE Acquire(c)
  BY <1>0, <1>2, AcquireLock
<1>3. CASE SkipLine(c)
  <2>1. UNCHANGED <<step, queue, holder, pc, phase, server, noise, effects>>
    BY <1>3 DEF SkipLine, vars, client
  <2> QED
    BY <1>0, <2>1, LockKept DEF LockTypes
<1>4. CASE TakeAnswer(c) \/ Unavailable(c) \/ Limit(c) \/ CancelCall(c)
  <2>1. UNCHANGED <<phase, server, noise, effects>>
    BY <1>4 DEF TakeAnswer, Unavailable, Limit, CancelCall, pipe
  <2>2. Leave(c) /\ \A d \in Calls \ {c} : pc'[d] = pc[d]
    BY <1>4, OthersRun
  <2> QED
    BY <1>0, <2>1, <2>2, LeaveLock
<1>5. CASE Around(c)
  <2>1. UNCHANGED <<step, queue, holder, phase, server, noise, effects>>
    BY <1>5 DEF Around, client, pipe
  <2>2. pc[c] # "running" /\ \A d \in Calls \ {c} : pc'[d] = pc[d]
    BY <1>5, AroundFacts
  <2>3. step[c] = "none"
    BY <1>0, <2>2 DEF LockOfReader
  <2>4. \A d \in Calls : step[d] # "none" => pc'[d] = pc[d]
    BY <2>2, <2>3
  <2> QED
    BY <1>0, <2>1, <2>4, LockKept DEF LockTypes
<1> QED
  BY <1>1, <1>2, <1>3, <1>4, <1>5 DEF McpCallStep

LEMMA OtherStepLock ==
  ASSUME LockInv, McpTypes, Connect \/ Handshake \/ HandshakeFails \/ StopAll \/ ServerStep
  PROVE  LockInv'
<1>0. LockTypes
  BY DEF LockInv
<1>1. UNCHANGED <<step, queue, holder, pc>>
  BY DEF Connect, Handshake, HandshakeFails, StopAll, ServerStep, Answer, WriteNoise, Die,
         vars, client
<1>2. phase' \in {"off", "initialize", "listing", "ready", "skipped"}
  BY <1>0 DEF LockTypes, Connect, Handshake, HandshakeFails, StopAll, ServerStep, Answer,
              WriteNoise, Die
<1>3. server' \in {"none", "up", "dead"}
  BY <1>0 DEF LockTypes, Connect, Handshake, HandshakeFails, StopAll, ServerStep, Answer,
              WriteNoise, Die, pipe
<1>4. noise' \in 0 .. MaxNoise
  <2>1. CASE WriteNoise
    BY <1>0, <2>1, McpAssumption DEF LockTypes, WriteNoise
  <2>2. CASE ~WriteNoise
    BY <1>0, <2>2
       DEF LockTypes, Connect, Handshake, HandshakeFails, StopAll, ServerStep, Answer,
           Die, pipe
  <2> QED
    BY <2>1, <2>2
<1>5. effects' \in [Calls -> Nat]
  <2>1. ASSUME NEW q \in inbox, NEW ok \in BOOLEAN, Answer(q, ok)
        PROVE  effects' \in [Calls -> Nat]
    <3>1. CASE q.who = Boot
      BY <1>0, <2>1, <3>1 DEF Answer, LockTypes
    <3>2. CASE q.who # Boot
      <4>1. effects' = [effects EXCEPT ![q.who] = @ + 1]
        BY <2>1, <3>2 DEF Answer
      <4>2. q.who \in Calls
        BY <2>1, <3>2 DEF McpTypes, Requests
      <4>3. effects \in [Calls -> Nat]
        BY <1>0 DEF LockTypes
      <4> QED
        BY <4>1, <4>2, <4>3
    <3> QED
      BY <3>1, <3>2
  <2>2. CASE UNCHANGED effects
    BY <1>0, <2>2 DEF LockTypes
  <2> QED
    BY <2>1, <2>2 DEF Connect, Handshake, HandshakeFails, StopAll, ServerStep,
                      WriteNoise, Die, pipe
<1> QED
  BY <1>1, <1>2, <1>3, <1>4, <1>5, LockKept

\* The lock and the waiters, with the invariant of the ids and the pipe.
LEMMA LockInvariant == McpSpec => [](LockInv /\ McpInv /\ TypeOK)
<1>1. McpInit => LockInv
  BY McpAssumption DEF McpInit, LockInv, LockTypes, LockOfReader
<1>2. LockInv /\ McpInv /\ TypeOK /\ [McpNext]_mcpVars => LockInv'
  <2> SUFFICES ASSUME LockInv, McpInv, TypeOK, [McpNext]_mcpVars PROVE LockInv'
    OBVIOUS
  <2>1. ASSUME NEW c \in Calls, McpCallStep(c) PROVE LockInv'
    BY <2>1, CallStepLock
  <2>2. CASE Connect \/ Handshake \/ HandshakeFails \/ StopAll \/ ServerStep
    BY <2>2, OtherStepLock DEF McpInv
  <2>3. CASE UNCHANGED mcpVars
    BY <2>3 DEF mcpVars, vars, client, pipe, LockInv, LockTypes, LockOfReader
  <2> QED
    BY <2>1, <2>2, <2>3 DEF McpNext
<1> QED
  BY <1>1, <1>2, McpInvariant, PTL DEF McpSpec

\* The client's lock belongs to the call that reads, and its queue holds the
\* waiters once each, however calls give up (client.py:175-198).
THEOREM LockOfReaderHolds == McpSpec => []LockOfReader
<1>1. LockInv => LockOfReader
  BY DEF LockInv
<1> QED
  BY <1>1, LockInvariant, PTL

\* Every variable keeps its type.
THEOREM McpTypeCorrect == McpSpec => []McpTypeOK
<1>1. LockInv /\ McpInv /\ TypeOK => McpTypeOK
  <2> SUFFICES ASSUME LockInv, McpInv, TypeOK PROVE McpTypeOK
    OBVIOUS
  <2>1. McpTypes /\ Ids /\ LockTypes
    BY DEF McpInv, LockInv
  <2>2. reqId \in [Calls -> 0 .. lastId]
    BY <2>1 DEF McpTypes, Ids
  <2> QED
    BY <2>1, <2>2 DEF McpTypes, LockTypes, McpTypeOK
<1> QED
  BY <1>1, LockInvariant, PTL

-----------------------------------------------------------------------------
(* Turns.  The id is assigned before the lock is asked for, in one stretch, *)
(* so the ids tell in which order the calls came.                           *)

\* Nobody overtakes: the call that reads came before everyone who waits.
OldestReads ==
  \A c, d \in Calls : step[c] = "reading" /\ step[d] = "queued" => reqId[c] < reqId[d]

\* No request in the pipe, to the server or back, is newer than that of the
\* call that reads, and what a waiter will send is newer than all of them.  So
\* whatever precedes an answer in the pipe is the answer to an older request,
\* and dropping it loses nothing that is still waited for.
NewestPosted ==
  \A c \in Calls, q \in Sent :
    /\ step[c] = "reading" => q.id <= reqId[c]
    /\ step[c] = "queued" => q.id < reqId[c]

InTurn == OldestReads /\ NewestPosted

\* The queue is in the order of the ids.
QueueInOrder == \A i, j \in DOMAIN queue : i < j => reqId[queue[i]] < reqId[queue[j]]

TurnInv == InTurn /\ QueueInOrder

\* A step that assigns no id, posts nothing new and lets nobody begin to wait
\* or to read.
LEMMA TurnKept ==
  ASSUME TurnInv, McpTypes, Ids, reqId' = reqId, Sent' \subseteq Sent \cup {NoRequest},
         \A c \in Calls : step'[c] # "none" => step'[c] = step[c],
         QueueInOrder'
  PROVE  TurnInv'
<1>1. OldestReads'
  BY DEF TurnInv, InTurn, OldestReads
<1>2. ASSUME NEW c \in Calls, NEW q \in Sent', step'[c] # "none"
      PROVE  /\ step'[c] = "reading" => q.id <= reqId'[c]
             /\ step'[c] = "queued" => q.id < reqId'[c]
  <2>1. step'[c] = step[c] /\ reqId'[c] = reqId[c]
    BY <1>2
  <2>2. CASE q \in Sent
    BY <2>1, <2>2 DEF TurnInv, InTurn, NewestPosted
  <2>3. CASE q = NoRequest
    <3>1. q.id = 0
      BY <2>3 DEF NoRequest
    <3>2. reqId[c] \in Nat /\ reqId[c] > 0
      BY <1>2, <2>1 DEF McpTypes, Ids
    <3> QED
      BY <2>1, <3>1, <3>2
  <2> QED
    BY <1>2, <2>2, <2>3
<1>3. NewestPosted'
  BY <1>2 DEF NewestPosted
<1> QED
  BY <1>1, <1>3 DEF TurnInv, InTurn

\* The ids in the pipe have all been assigned.
LEMMA AssignedIds ==
  ASSUME McpInv, NEW q \in Sent
  PROVE  q.id \in Nat /\ q.id <= lastId
<1>1. q = NoRequest \/ q.id \in 1 .. lastId
  BY DEF McpInv, Posted
<1>2. lastId \in Nat
  BY DEF McpInv, McpTypes
<1>3. q = NoRequest => q.id = 0
  BY DEF NoRequest
<1> QED
  BY <1>1, <1>2, <1>3

\* A waiter that leaves does not change the order of the others.
LEMMA LeaveTurn ==
  ASSUME TurnInv, LockInv, NEW c \in Calls, StopWaiting(c), reqId' = reqId
  PROVE  QueueInOrder'
<1>0. QueueInOrder /\ queue \in Seq(Calls)
  BY DEF TurnInv, LockInv, LockTypes
<1>1. CASE step[c] # "queued"
  BY <1>0, <1>1 DEF StopWaiting, QueueInOrder
<1>2. CASE step[c] = "queued"
  <2>1. PICK k \in DOMAIN queue : queue' = RemoveAt(queue, k)
    BY <1>2 DEF StopWaiting
  <2>2. /\ queue' \in Seq(Calls) /\ Len(queue') = Len(queue) - 1
        /\ \A i \in 1 .. Len(queue) - 1 :
             queue'[i] = IF i < k THEN queue[i] ELSE queue[i + 1]
    BY <1>0, <2>1, Removed
  <2>3. /\ Len(queue) \in Nat /\ k \in 1 .. Len(queue) /\ DOMAIN queue = 1 .. Len(queue)
        /\ DOMAIN queue' = 1 .. Len(queue) - 1
    BY <1>0, <2>2
  <2> DEFINE at(i) == IF i < k THEN i ELSE i + 1
  <2>4. \A i \in DOMAIN queue' : at(i) \in DOMAIN queue /\ queue'[i] = queue[at(i)]
    BY <2>2, <2>3
  <2>5. \A i, j \in DOMAIN queue' : i < j => at(i) < at(j)
    BY <2>3
  <2> HIDE DEF at
  <2> QED
    BY <1>0, <2>4, <2>5 DEF QueueInOrder
<1> QED
  BY <1>1, <1>2

\* A new call: its id is newer than everything, and so is its request.
LEMMA CallTurn ==
  ASSUME TurnInv, LockInv, McpInv, NEW c \in Calls, Call(c)
  PROVE  TurnInv'
<1> DEFINE id == lastId + 1
           r == [id |-> id, who |-> c, attempt |-> attempt[c]]
<1>0. /\ McpTypes /\ Ids /\ LockOfReader /\ queue \in Seq(Calls) /\ c # Nobody
      /\ lastId \in Nat
  BY McpAssumption DEF McpInv, LockInv, LockTypes, McpTypes
<1>1. step[c] = "none" /\ reqId' = [reqId EXCEPT ![c] = id] /\ outbox' = outbox
  BY DEF Call, AssignId, FreshId
<1>2. /\ reqId'[c] = id /\ \A d \in Calls \ {c} : reqId'[d] = reqId[d]
      /\ \A d \in Calls : reqId[d] \in Nat /\ reqId[d] < id
  BY <1>0, <1>1 DEF McpTypes, Ids
<1>3. \A q \in Sent : q.id \in Nat /\ q.id < id
  BY <1>0, AssignedIds
<1> HIDE DEF id
<1>4. CASE /\ holder = Nobody /\ queue = <<>>
           /\ Send(c, FreshId(c)) /\ UNCHANGED queue
  <2>1. /\ step'[c] = "reading" /\ \A d \in Calls \ {c} : step'[d] = step[d]
        /\ queue' = <<>> /\ inbox' \subseteq inbox \cup {r}
    BY <1>0, <1>4 DEF Send, McpTypes, Deliver, FreshId, id
  <2>2. \A d \in Calls : step[d] \notin {"reading", "queued"}
    BY <1>0, <1>4, McpAssumption DEF LockOfReader
  <2>3. \A q \in Sent' : q.id <= id
    <3>1. Sent' \subseteq Sent \cup {r} /\ r.id = id
      BY <1>1, <2>1 DEF Sent
    <3>2. id \in Nat
      BY <1>0 DEF id
    <3> HIDE DEF r
    <3> QED
      BY <1>3, <3>1, <3>2
  <2>4. \A d \in Calls : step'[d] = "reading" => d = c
    BY <2>1, <2>2
  <2>5. \A d \in Calls : step'[d] # "queued"
    BY <2>1, <2>2
  <2>6. InTurn'
    BY <1>2, <2>3, <2>4, <2>5 DEF InTurn, OldestReads, NewestPosted
  <2>7. QueueInOrder'
    BY <2>1 DEF QueueInOrder
  <2> QED
    BY <2>6, <2>7 DEF TurnInv
<1>5. CASE /\ step' = [step EXCEPT ![c] = "queued"]
           /\ queue' = Append(queue, c) /\ UNCHANGED <<holder, inbox>>
  <2>1. /\ step'[c] = "queued" /\ \A d \in Calls \ {c} : step'[d] = step[d]
        /\ Sent' = Sent
    BY <1>0, <1>1, <1>5 DEF McpTypes, Sent
  <2>2. /\ Len(queue) \in Nat
        /\ DOMAIN queue = 1 .. Len(queue) /\ DOMAIN queue' = 1 .. Len(queue) + 1
        /\ queue'[Len(queue) + 1] = c
        /\ \A i \in 1 .. Len(queue) : queue'[i] = queue[i] /\ queue[i] \in Calls
    BY <1>0, <1>5
  <2>3. \A i \in DOMAIN queue : queue[i] # c
    BY <1>0, <1>1 DEF LockOfReader
  <2>4. \A i \in DOMAIN queue : reqId'[queue'[i]] = reqId[queue[i]] /\ reqId[queue[i]] < id
    BY <1>2, <2>2, <2>3
  <2>5. ASSUME NEW i \in DOMAIN queue', NEW j \in DOMAIN queue', i < j
        PROVE  reqId'[queue'[i]] < reqId'[queue'[j]]
    <3>1. i \in DOMAIN queue
      BY <2>2, <2>5
    <3>2. CASE j \in DOMAIN queue
      <4>1. reqId[queue[i]] < reqId[queue[j]]
        BY <2>5, <3>1, <3>2 DEF TurnInv, QueueInOrder
      <4> QED
        BY <2>4, <3>1, <3>2, <4>1
    <3>3. CASE j = Len(queue) + 1
      BY <1>2, <2>2, <2>4, <3>1, <3>3
    <3> QED
      BY <2>2, <3>2, <3>3
  <2>6. QueueInOrder'
    BY <2>5 DEF QueueInOrder
  <2>7. OldestReads'
    BY <1>2, <2>1 DEF TurnInv, InTurn, OldestReads
  <2>8. NewestPosted'
    BY <1>2, <1>3, <2>1 DEF TurnInv, InTurn, NewestPosted
  <2> QED
    BY <2>6, <2>7, <2>8 DEF TurnInv, InTurn
<1> QED
  BY <1>4, <1>5 DEF Call

\* The first waiter is the oldest one.
LEMMA AcquireTurn ==
  ASSUME TurnInv, LockInv, McpInv, NEW c \in Calls, Acquire(c)
  PROVE  TurnInv'
<1> DEFINE r == [id |-> reqId[c], who |-> c, attempt |-> attempt[c]]
<1>0. McpTypes /\ LockOfReader /\ queue \in Seq(Calls) /\ c # Nobody
  BY McpAssumption DEF McpInv, LockInv, LockTypes
<1>1. /\ step[c] = "queued" /\ holder = Nobody /\ queue # <<>> /\ Head(queue) = c
      /\ queue' = Tail(queue) /\ reqId' = reqId /\ outbox' = outbox
      /\ step'[c] = "reading" /\ \A d \in Calls \ {c} : step'[d] = step[d]
      /\ inbox' \subseteq inbox \cup {r}
  BY <1>0 DEF Acquire, Send, Deliver, McpTypes
<1>2. /\ Len(queue) \in Nat /\ Len(queue) > 0
      /\ DOMAIN queue = 1 .. Len(queue) /\ DOMAIN queue' = 1 .. Len(queue) - 1
      /\ queue[1] = c
      /\ \A i \in 1 .. Len(queue) - 1 : queue'[i] = queue[i + 1]
  BY <1>0, <1>1
<1>3. \A d \in Calls : step[d] # "reading"
  BY <1>0, <1>1, McpAssumption DEF LockOfReader
<1>4. ASSUME NEW d \in Calls, d # c, step[d] = "queued" PROVE reqId[c] < reqId[d]
  <2>1. PICK i \in DOMAIN queue : queue[i] = d
    BY <1>0, <1>4 DEF LockOfReader
  <2>2. 1 \in DOMAIN queue /\ 1 < i
    BY <1>2, <1>4, <2>1
  <2> QED
    BY <1>2, <2>1, <2>2 DEF TurnInv, QueueInOrder
<1>5. \A d \in Calls : reqId[d] \in Nat
  BY <1>0 DEF McpTypes
<1>6. OldestReads'
  BY <1>1, <1>3, <1>4 DEF OldestReads
<1>7. Sent' \subseteq Sent \cup {r} /\ r.id = reqId[c]
  BY <1>1 DEF Sent
<1> HIDE DEF r
<1>8. \A q \in Sent' : q.id <= reqId[c]
  <2>1. \A q \in Sent : q.id \in Nat /\ q.id < reqId[c]
    BY <1>1, AssignedIds DEF TurnInv, InTurn, NewestPosted
  <2> QED
    BY <1>5, <1>7, <2>1
<1>9. ASSUME NEW d \in Calls, d # c, step[d] = "queued", NEW q \in Sent' PROVE q.id < reqId[d]
  <2>1. \A p \in Sent : p.id < reqId[d]
    BY <1>9 DEF TurnInv, InTurn, NewestPosted
  <2> QED
    BY <1>4, <1>7, <1>9, <2>1
<1>10. NewestPosted'
  BY <1>1, <1>3, <1>8, <1>9 DEF NewestPosted
<1>11. ASSUME NEW i \in DOMAIN queue', NEW j \in DOMAIN queue', i < j
       PROVE  reqId'[queue'[i]] < reqId'[queue'[j]]
  <2>1. i + 1 \in DOMAIN queue /\ j + 1 \in DOMAIN queue /\ i + 1 < j + 1
    BY <1>2, <1>11
  <2>2. reqId[queue[i + 1]] < reqId[queue[j + 1]]
    BY <2>1 DEF TurnInv, QueueInOrder
  <2> QED
    BY <1>1, <1>2, <2>2
<1>12. QueueInOrder'
  BY <1>11 DEF QueueInOrder
<1> QED
  BY <1>6, <1>10, <1>12 DEF TurnInv, InTurn

LEMMA TurnStep ==
  ASSUME TurnInv, LockInv, McpInv, TypeOK, [McpNext]_mcpVars
  PROVE  TurnInv'
<1>0. McpTypes /\ Ids /\ QueueInOrder
  BY DEF McpInv, TurnInv
<1>1. ASSUME NEW c \in Calls, TakeAnswer(c) \/ Unavailable(c) \/ Limit(c) \/ CancelCall(c)
      PROVE  TurnInv'
  <2>1. Leave(c)
    BY <1>1, OthersRun
  <2>2. reqId' = reqId /\ StopWaiting(c) /\ step' = [step EXCEPT ![c] = "none"]
    BY <2>1 DEF Leave
  <2>3. \A d \in Calls : step'[d] # "none" => step'[d] = step[d]
    BY <1>0, <2>2 DEF McpTypes
  <2>4. inbox' = inbox /\ (outbox' = outbox \/ (outbox # <<>> /\ outbox' = Tail(outbox)))
    <3>1. CASE TakeAnswer(c)
      BY <3>1 DEF TakeAnswer
    <3>2. CASE Unavailable(c) \/ Limit(c) \/ CancelCall(c)
      BY <3>2 DEF Unavailable, Limit, CancelCall, pipe
    <3> QED
      BY <1>1, <3>1, <3>2
  <2>5. Sent' \subseteq Sent
    BY <2>4, ReadSent DEF Sent
  <2> QED
    BY <1>0, <2>2, <2>3, <2>5, LeaveTurn, TurnKept
<1>2. ASSUME NEW c \in Calls, SkipLine(c) \/ Around(c) PROVE TurnInv'
  <2>1. UNCHANGED <<reqId, step, queue, inbox>>
    BY <1>2 DEF SkipLine, Around, client, pipe
  <2>2. outbox' = outbox \/ (outbox # <<>> /\ outbox' = Tail(outbox))
    <3>1. CASE SkipLine(c)
      BY <3>1 DEF SkipLine
    <3>2. CASE Around(c)
      BY <3>2 DEF Around, pipe
    <3> QED
      BY <1>2, <3>1, <3>2
  <2>3. Sent' \subseteq Sent
    BY <2>1, <2>2, ReadSent DEF Sent
  <2>4. QueueInOrder'
    BY <1>0, <2>1 DEF QueueInOrder
  <2> QED
    BY <1>0, <2>1, <2>3, <2>4, TurnKept
<1>3. CASE ServerStep \/ StopAll \/ UNCHANGED mcpVars
  <2>1. UNCHANGED <<reqId, step, queue>>
    <3>1. ASSUME NEW q, NEW ok, Answer(q, ok) PROVE UNCHANGED <<reqId, step, queue>>
      BY <3>1 DEF Answer, client
    <3>2. ASSUME WriteNoise \/ Die \/ StopAll PROVE UNCHANGED <<reqId, step, queue>>
      BY <3>2 DEF WriteNoise, Die, StopAll, client
    <3>3. ASSUME UNCHANGED mcpVars PROVE UNCHANGED <<reqId, step, queue>>
      BY <3>3 DEF mcpVars, client
    <3> QED
      BY <1>3, <3>1, <3>2, <3>3 DEF ServerStep
  <2>2. outbox \in Seq(Lines) /\ inbox \subseteq Requests
    BY <1>0 DEF McpTypes
  <2>3. ASSUME NEW q \in inbox, NEW ok \in BOOLEAN, Answer(q, ok) PROVE Sent' \subseteq Sent
    <3> DEFINE line == [re |-> q, ok |-> ok]
    <3>1. inbox' \subseteq inbox /\ outbox' = Append(outbox, line)
      BY <2>3 DEF Answer
    <3>2. line \in Lines /\ line.re = q
      BY <2>2 DEF Lines
    <3>3. \A i \in DOMAIN Append(outbox, line) :
            Append(outbox, line)[i].re \in {outbox[j].re : j \in DOMAIN outbox} \cup {line.re}
      BY <2>2, <3>2, MoreLines
    <3> QED
      BY <3>1, <3>2, <3>3 DEF Sent
  <2>4. ASSUME WriteNoise PROVE Sent' \subseteq Sent \cup {NoRequest}
    <3>1. inbox' = inbox /\ outbox' = Append(outbox, Noise)
      BY <2>4 DEF WriteNoise
    <3>2. Noise \in Lines /\ Noise.re = NoRequest
      <4>1. NoRequest \in Requests
        BY ToolCallAssumption DEF NoRequest, Requests
      <4> QED
        BY <4>1 DEF Noise, Lines
    <3>3. \A i \in DOMAIN Append(outbox, Noise) :
            Append(outbox, Noise)[i].re \in {outbox[j].re : j \in DOMAIN outbox} \cup {Noise.re}
      BY <2>2, <3>2, MoreLines
    <3> QED
      BY <3>1, <3>2, <3>3 DEF Sent
  <2>5. ASSUME Die \/ StopAll \/ UNCHANGED mcpVars PROVE Sent' = Sent
    BY <2>5 DEF Die, StopAll, mcpVars, pipe, Sent
  <2>6. Sent' \subseteq Sent \cup {NoRequest}
    BY <1>3, <2>3, <2>4, <2>5 DEF ServerStep
  <2>7. QueueInOrder'
    BY <1>0, <2>1 DEF QueueInOrder
  <2> QED
    BY <1>0, <2>1, <2>6, <2>7, TurnKept
<1>4. CASE Connect \/ Handshake \/ HandshakeFails
  <2>1. phase # "ready" /\ UNCHANGED <<reqId, step, queue>>
    BY <1>4 DEF Connect, Handshake, HandshakeFails, client
  <2>2. \A c \in Calls : step[c] = "none"
    BY <2>1 DEF McpInv, Quiet, Ids
  <2>3. InTurn'
    BY <2>1, <2>2 DEF InTurn, OldestReads, NewestPosted
  <2>4. QueueInOrder'
    BY <1>0, <2>1 DEF QueueInOrder
  <2> QED
    BY <2>3, <2>4 DEF TurnInv
<1> QED
  BY <1>1, <1>2, <1>3, <1>4, CallTurn, AcquireTurn DEF McpNext, McpCallStep

\* The calls that share a server are served in the order in which they came,
\* whoever gives up, is cancelled or leaves the queue in between, and a line
\* that a reader drops is never one that another call still waits for
\* (client.py:163-198).
THEOREM InTurnHolds == McpSpec => []InTurn
<1>1. McpInit => TurnInv
  BY DEF McpInit, TurnInv, InTurn, OldestReads, NewestPosted, QueueInOrder
<1>2. TurnInv /\ LockInv /\ McpInv /\ TypeOK /\ [McpNext]_mcpVars => TurnInv'
  BY TurnStep
<1>3. TurnInv => InTurn
  BY DEF TurnInv
<1> QED
  BY <1>1, <1>2, <1>3, LockInvariant, PTL DEF McpSpec

-----------------------------------------------------------------------------
(* The work the server is given.  A call may still send the request of an   *)
(* execution as long as it has not begun to read.                           *)

Pending(c) == {q \in inbox : q.who = c}

Unsent(c) == IF pc[c] = "running" /\ step[c] # "reading" THEN 1 ELSE 0

WorkInv ==
  /\ IsFiniteSet(inbox)
  /\ \A c \in Calls : effects[c] + Cardinality(Pending(c)) + Unsent(c) <= attempt[c]

\* What WorkInv adds up.
LEMMA WorkTypes ==
  ASSUME WorkInv, TypeOK, LockTypes, NEW c \in Calls
  PROVE  /\ effects[c] \in Nat /\ attempt[c] \in Nat /\ Unsent(c) \in 0 .. 1
         /\ IsFiniteSet(Pending(c)) /\ Cardinality(Pending(c)) \in Nat
<1>1. effects[c] \in Nat /\ attempt[c] \in Nat
  BY ToolCallAssumption DEF TypeOK, LockTypes
<1>2. Unsent(c) \in 0 .. 1
  BY DEF Unsent
<1>3. IsFiniteSet(inbox) /\ Pending(c) \in SUBSET inbox
  BY DEF WorkInv, Pending
<1>4. IsFiniteSet(Pending(c))
  BY <1>3, FS_Subset
<1>5. Cardinality(Pending(c)) \in Nat
  BY <1>4, FS_CardinalityType
<1> QED
  BY <1>1, <1>2, <1>4, <1>5

\* A step in which every call keeps its account or begins an execution.
LEMMA WorkKept ==
  ASSUME WorkInv, TypeOK, LockTypes, UNCHANGED <<inbox, effects>>,
         \A c \in Calls : \/ attempt'[c] = attempt[c] /\ Unsent(c)' <= Unsent(c)
                          \/ attempt'[c] = attempt[c] + 1 /\ Unsent(c) = 0
  PROVE  WorkInv'
<1>1. IsFiniteSet(inbox')
  BY DEF WorkInv
<1>2. ASSUME NEW c \in Calls
      PROVE  effects'[c] + Cardinality(Pending(c)') + Unsent(c)' <= attempt'[c]
  <2>1. effects'[c] = effects[c] /\ Pending(c)' = Pending(c)
    BY DEF Pending
  <2>2. /\ effects[c] \in Nat /\ attempt[c] \in Nat /\ Unsent(c) \in 0 .. 1
        /\ Cardinality(Pending(c)) \in Nat
    BY WorkTypes
  <2>3. effects[c] + Cardinality(Pending(c)) + Unsent(c) <= attempt[c]
    BY DEF WorkInv
  <2>4. Unsent(c)' \in 0 .. 1
    BY DEF Unsent
  <2>5. CASE attempt'[c] = attempt[c] /\ Unsent(c)' <= Unsent(c)
    BY <2>1, <2>2, <2>3, <2>4, <2>5
  <2>6. CASE attempt'[c] = attempt[c] + 1 /\ Unsent(c) = 0
    BY <2>1, <2>2, <2>3, <2>4, <2>6
  <2> QED
    BY <2>5, <2>6
<1> QED
  BY <1>1, <1>2 DEF WorkInv

\* A call sends the request of its execution and begins to read.
LEMMA SendWork ==
  ASSUME WorkInv, TypeOK, LockTypes, NEW c \in Calls, NEW id,
         pc[c] = "running", step[c] # "reading", step'[c] = "reading",
         \A d \in Calls \ {c} : step'[d] = step[d],
         Deliver([id |-> id, who |-> c, attempt |-> attempt[c]]),
         UNCHANGED <<pc, attempt, effects>>
  PROVE  WorkInv'
<1> DEFINE r == [id |-> id, who |-> c, attempt |-> attempt[c]]
<1>1. inbox' = inbox \cup {r} \/ inbox' = inbox
  BY DEF Deliver
<1>2. IsFiniteSet(inbox')
  <2>1. IsFiniteSet(inbox) /\ IsFiniteSet(inbox \cup {r})
    BY FS_AddElement DEF WorkInv
  <2> QED
    BY <1>1, <2>1
<1>3. ASSUME NEW d \in Calls
      PROVE  effects'[d] + Cardinality(Pending(d)') + Unsent(d)' <= attempt'[d]
  <2>1. /\ effects[d] \in Nat /\ attempt[d] \in Nat /\ Unsent(d) \in 0 .. 1
        /\ IsFiniteSet(Pending(d)) /\ Cardinality(Pending(d)) \in Nat
    BY WorkTypes
  <2>2. effects[d] + Cardinality(Pending(d)) + Unsent(d) <= attempt[d]
    BY DEF WorkInv
  <2>3. CASE d # c
    <3>1. Pending(d)' = Pending(d)
      BY <1>1, <2>3 DEF Pending
    <3>2. Unsent(d)' = Unsent(d)
      BY <2>3 DEF Unsent
    <3> QED
      BY <2>2, <3>1, <3>2
  <2>4. CASE d = c
    <3>1. Unsent(d) = 1 /\ Unsent(d)' = 0
      BY <2>4 DEF Unsent
    <3>2. Pending(d)' = Pending(d) \/ Pending(d)' = Pending(d) \cup {r}
      BY <1>1, <2>4 DEF Pending
    <3>3. Cardinality(Pending(d) \cup {r}) \in {Cardinality(Pending(d)), Cardinality(Pending(d)) + 1}
      <4>1. Cardinality(Pending(d) \cup {r}) =
              IF r \in Pending(d) THEN Cardinality(Pending(d)) ELSE Cardinality(Pending(d)) + 1
        BY <2>1, FS_AddElement
      <4> QED
        BY <4>1
    <3>4. Cardinality(Pending(d)') \in {Cardinality(Pending(d)), Cardinality(Pending(d)) + 1}
      BY <3>2, <3>3
    <3> HIDE DEF r
    <3> QED
      BY <2>1, <2>2, <3>1, <3>4
  <2> QED
    BY <2>3, <2>4
<1> QED
  BY <1>2, <1>3 DEF WorkInv

\* A step of invoke_tool that makes a call run begins an execution.
LEMMA AroundWork ==
  ASSUME TypeOK, NEW c \in Calls, Around(c)
  PROVE  IF pc'[c] = "running" THEN attempt'[c] = attempt[c] + 1
         ELSE attempt'[c] = attempt[c]
<1> USE DEF TypeOK, Goto
<1>1. CASE Start(c) BY <1>1 DEF Start
<1>2. CASE Validate(c) BY <1>2 DEF Validate, Fail
<1>3. CASE Decided(c) BY <1>3 DEF Decided, Fail, Execute
<1>4. CASE Granted(c) BY <1>4 DEF Granted, Execute
<1>5. CASE Denied(c) BY <1>5 DEF Denied, Fail
<1>6. CASE Reported(c) BY <1>6 DEF Reported
<1>7. CASE Again(c) BY <1>7 DEF Again, Execute
<1>8. CASE Return(c) BY <1>8 DEF Return
<1>9. CASE PublishFails(c) BY <1>9 DEF PublishFails, AttemptFails, Fail
<1> QED
  BY <1>1, <1>2, <1>3, <1>4, <1>5, <1>6, <1>7, <1>8, <1>9 DEF Around

LEMMA CallStepWork ==
  ASSUME WorkInv, LockInv, McpInv, TypeOK, NEW c \in Calls, McpCallStep(c)
  PROVE  WorkInv'
<1>0. McpTypes /\ LockTypes /\ Ids
  BY DEF McpInv, LockInv
<1>1. CASE Call(c)
  <2>1. pc[c] = "running" /\ step[c] = "none" /\ UNCHANGED <<pc, attempt, effects>>
    BY <1>1 DEF Call, vars
  <2>2. CASE Send(c, FreshId(c))
    <3>1. /\ step'[c] = "reading" /\ \A d \in Calls \ {c} : step'[d] = step[d]
          /\ Deliver([id |-> FreshId(c), who |-> c, attempt |-> attempt[c]])
      BY <1>0, <2>2 DEF Send, McpTypes
    <3> QED
      BY <1>0, <2>1, <3>1, SendWork
  <2>3. CASE step' = [step EXCEPT ![c] = "queued"] /\ UNCHANGED inbox
    <3>1. \A d \in Calls : Unsent(d)' <= Unsent(d) /\ attempt'[d] = attempt[d]
      BY <1>0, <2>1, <2>3 DEF Unsent, McpTypes
    <3> QED
      BY <1>0, <2>1, <2>3, <3>1, WorkKept
  <2> QED
    BY <1>1, <2>2, <2>3 DEF Call
<1>2. CASE Acquire(c)
  <2>1. step[c] = "queued" /\ UNCHANGED <<pc, attempt, effects>>
    BY <1>2 DEF Acquire, vars
  <2>2. /\ step'[c] = "reading" /\ \A d \in Calls \ {c} : step'[d] = step[d]
        /\ Deliver([id |-> reqId[c], who |-> c, attempt |-> attempt[c]])
    BY <1>0, <1>2 DEF Acquire, Send, McpTypes
  <2>3. pc[c] = "running"
    BY <1>0, <2>1 DEF Ids
  <2> QED
    BY <1>0, <2>1, <2>2, <2>3, SendWork
<1>3. CASE SkipLine(c)
  <2>1. UNCHANGED <<step, pc, attempt, inbox, effects>>
    BY <1>3 DEF SkipLine, vars, client
  <2>2. \A d \in Calls : Unsent(d)' <= Unsent(d) /\ attempt'[d] = attempt[d]
    BY <2>1 DEF Unsent
  <2> QED
    BY <1>0, <2>1, <2>2, WorkKept
<1>4. CASE TakeAnswer(c) \/ Unavailable(c) \/ Limit(c) \/ CancelCall(c)
  <2>1. UNCHANGED <<inbox, effects>>
    BY <1>4 DEF TakeAnswer, Unavailable, Limit, CancelCall, pipe
  <2>2. /\ Leave(c) /\ attempt' = attempt /\ pc'[c] # "running"
        /\ \A d \in Calls \ {c} : pc'[d] = pc[d]
    BY <1>4, OthersRun
  <2>3. \A d \in Calls \ {c} : step'[d] = step[d]
    BY <1>0, <2>2 DEF Leave, McpTypes
  <2>4. \A d \in Calls : Unsent(d)' <= Unsent(d) /\ attempt'[d] = attempt[d]
    BY <2>2, <2>3 DEF Unsent
  <2> QED
    BY <1>0, <2>1, <2>4, WorkKept
<1>5. CASE Around(c)
  <2>1. UNCHANGED <<step, inbox, effects>>
    BY <1>5 DEF Around, client, pipe
  <2>2. /\ pc[c] # "running"
        /\ \A d \in Calls \ {c} : pc'[d] = pc[d] /\ attempt'[d] = attempt[d]
    BY <1>5, AroundFacts
  <2>3. /\ Unsent(c) = 0
        /\ \/ attempt'[c] = attempt[c] + 1
           \/ attempt'[c] = attempt[c] /\ Unsent(c)' = 0
    BY <1>5, <2>2, AroundWork DEF Unsent
  <2>4. \A d \in Calls \ {c} : Unsent(d)' <= Unsent(d)
    BY <2>1, <2>2 DEF Unsent
  <2>5. \A d \in Calls : \/ attempt'[d] = attempt[d] /\ Unsent(d)' <= Unsent(d)
                         \/ attempt'[d] = attempt[d] + 1 /\ Unsent(d) = 0
    BY <2>2, <2>3, <2>4
  <2> QED
    BY <1>0, <2>1, <2>5, WorkKept
<1> QED
  BY <1>1, <1>2, <1>3, <1>4, <1>5 DEF McpCallStep

\* The server moves a request from the ones it has to the ones it has executed.
LEMMA AnswerWork ==
  ASSUME WorkInv, TypeOK, McpTypes, LockTypes, NEW q \in inbox, NEW ok, Answer(q, ok)
  PROVE  WorkInv'
<1>1. /\ inbox' = inbox \ {q} /\ UNCHANGED <<pc, step, attempt>>
      /\ effects' = IF q.who = Boot THEN effects ELSE [effects EXCEPT ![q.who] = @ + 1]
  BY DEF Answer, vars, client
<1>2. IsFiniteSet(inbox')
  <2>1. IsFiniteSet(inbox \ {q})
    BY FS_RemoveElement DEF WorkInv
  <2> QED
    BY <1>1, <2>1
<1>3. ASSUME NEW c \in Calls
      PROVE  effects'[c] + Cardinality(Pending(c)') + Unsent(c)' <= attempt'[c]
  <2>1. /\ effects[c] \in Nat /\ attempt[c] \in Nat /\ Unsent(c) \in 0 .. 1
        /\ IsFiniteSet(Pending(c)) /\ Cardinality(Pending(c)) \in Nat
    BY WorkTypes
  <2>2. effects[c] + Cardinality(Pending(c)) + Unsent(c) <= attempt[c]
    BY DEF WorkInv
  <2>3. Unsent(c)' = Unsent(c) /\ attempt'[c] = attempt[c]
    BY <1>1 DEF Unsent
  <2>4. CASE q.who = c
    <3>1. q \in Pending(c) /\ Pending(c)' = Pending(c) \ {q}
      BY <1>1, <2>4 DEF Pending
    <3>2. Cardinality(Pending(c)') = Cardinality(Pending(c)) - 1
      BY <2>1, <3>1, FS_RemoveElement
    <3>3. effects'[c] = effects[c] + 1
      <4>1. c # Boot /\ effects \in [Calls -> Nat]
        BY McpAssumption DEF LockTypes
      <4>2. effects' = [effects EXCEPT ![c] = @ + 1]
        BY <1>1, <2>4, <4>1
      <4> QED
        BY <4>1, <4>2
    <3> QED
      BY <2>1, <2>2, <2>3, <3>2, <3>3
  <2>5. CASE q.who # c
    <3>1. Pending(c)' = Pending(c)
      BY <1>1, <2>5 DEF Pending
    <3>2. effects'[c] = effects[c]
      BY <1>1, <2>5 DEF LockTypes
    <3> QED
      BY <2>2, <2>3, <3>1, <3>2
  <2> QED
    BY <2>4, <2>5
<1> QED
  BY <1>2, <1>3 DEF WorkInv

\* A step of the handshake posts requests of its own only.
LEMMA BootWork ==
  ASSUME WorkInv, TypeOK, LockTypes, NEW n,
         inbox' = {BootRequest(n)} \/ inbox' = inbox \cup {BootRequest(n)} \/ inbox' = inbox,
         UNCHANGED <<pc, step, attempt, effects>>
  PROVE  WorkInv'
<1>1. IsFiniteSet(inbox')
  <2>1. IsFiniteSet(inbox)
    BY DEF WorkInv
  <2>2. IsFiniteSet(inbox \cup {BootRequest(n)})
    BY <2>1, FS_AddElement
  <2>3. IsFiniteSet({} \cup {BootRequest(n)})
    BY FS_EmptySet, FS_AddElement
  <2>4. {} \cup {BootRequest(n)} = {BootRequest(n)}
    OBVIOUS
  <2> QED
    BY <2>1, <2>2, <2>3, <2>4
<1>2. ASSUME NEW c \in Calls
      PROVE  effects'[c] + Cardinality(Pending(c)') + Unsent(c)' <= attempt'[c]
  <2>1. /\ effects[c] \in Nat /\ attempt[c] \in Nat /\ Unsent(c) \in 0 .. 1
        /\ Cardinality(Pending(c)) \in Nat
    BY WorkTypes
  <2>2. effects[c] + Cardinality(Pending(c)) + Unsent(c) <= attempt[c]
    BY DEF WorkInv
  <2>3. Unsent(c)' = Unsent(c) /\ attempt'[c] = attempt[c] /\ effects'[c] = effects[c]
    BY DEF Unsent
  <2>4. Pending(c)' = Pending(c) \/ Pending(c)' = {}
    BY McpAssumption DEF Pending, BootRequest
  <2>5. Cardinality(Pending(c)') = Cardinality(Pending(c)) \/ Cardinality(Pending(c)') = 0
    BY <2>4, FS_EmptySet
  <2> QED
    BY <2>1, <2>2, <2>3, <2>5
<1> QED
  BY <1>1, <1>2 DEF WorkInv

LEMMA OtherStepWork ==
  ASSUME WorkInv, LockInv, McpInv, TypeOK,
         Connect \/ Handshake \/ HandshakeFails \/ StopAll \/ ServerStep
  PROVE  WorkInv'
<1>0. McpTypes /\ LockTypes
  BY DEF McpInv, LockInv
<1>1. ASSUME NEW q \in inbox, NEW ok \in BOOLEAN, Answer(q, ok) PROVE WorkInv'
  BY <1>0, <1>1, AnswerWork
<1>2. CASE Connect
  BY <1>0, <1>2, BootWork DEF Connect, vars
<1>3. CASE Handshake
  <2>1. UNCHANGED <<pc, step, attempt, effects>>
    BY <1>3 DEF Handshake, vars
  <2>2. inbox' = inbox \/ inbox' = inbox \cup {BootRequest(2)}
    BY <1>3 DEF Handshake, Deliver
  <2> QED
    BY <1>0, <2>1, <2>2, BootWork
<1>4. CASE HandshakeFails \/ StopAll \/ WriteNoise \/ Die
  <2>1. UNCHANGED <<pc, step, attempt, effects, inbox>>
    BY <1>4 DEF HandshakeFails, StopAll, WriteNoise, Die, vars, client, pipe
  <2>2. \A d \in Calls : Unsent(d)' <= Unsent(d) /\ attempt'[d] = attempt[d]
    BY <2>1 DEF Unsent
  <2> QED
    BY <1>0, <2>1, <2>2, WorkKept
<1> QED
  BY <1>1, <1>2, <1>3, <1>4 DEF ServerStep

\* The server executes at most one request per execution of the tool, however
\* many of them time out and are executed later (client.py:163-180,
\* invocation.py:167-226).
THEOREM WorkBoundedHolds == McpSpec => []WorkBounded
<1>1. McpInit => WorkInv
  <2> SUFFICES ASSUME McpInit, NEW c \in Calls
               PROVE  effects[c] + Cardinality(Pending(c)) + Unsent(c) <= attempt[c]
    BY FS_EmptySet DEF WorkInv, McpInit
  <2>1. effects[c] = 0 /\ attempt[c] = 0 /\ Unsent(c) = 0 /\ Pending(c) = {}
    BY DEF McpInit, Init, Unsent, Pending
  <2> QED
    BY <2>1, FS_EmptySet
<1>2. WorkInv /\ LockInv /\ McpInv /\ TypeOK /\ [McpNext]_mcpVars => WorkInv'
  <2> SUFFICES ASSUME WorkInv, LockInv, McpInv, TypeOK, [McpNext]_mcpVars PROVE WorkInv'
    OBVIOUS
  <2>1. ASSUME NEW c \in Calls, McpCallStep(c) PROVE WorkInv'
    BY <2>1, CallStepWork
  <2>2. CASE Connect \/ Handshake \/ HandshakeFails \/ StopAll \/ ServerStep
    BY <2>2, OtherStepWork
  <2>3. CASE UNCHANGED mcpVars
    <3>1. UNCHANGED <<pc, step, attempt, effects, inbox>>
      BY <2>3 DEF mcpVars, vars, client, pipe
    <3>2. \A d \in Calls : Unsent(d)' <= Unsent(d) /\ attempt'[d] = attempt[d]
      BY <3>1 DEF Unsent
    <3> QED
      BY <3>1, <3>2, WorkKept DEF LockInv
  <2> QED
    BY <2>1, <2>2, <2>3 DEF McpNext
<1>3. WorkInv /\ LockInv /\ McpInv /\ TypeOK => WorkBounded
  <2> SUFFICES ASSUME WorkInv, LockTypes, TypeOK, NEW c \in Calls
               PROVE  effects[c] + Cardinality(Pending(c)) <= attempt[c]
    BY DEF WorkBounded, Pending, LockInv
  <2>1. /\ effects[c] \in Nat /\ attempt[c] \in Nat /\ Unsent(c) \in 0 .. 1
        /\ Cardinality(Pending(c)) \in Nat
    BY WorkTypes
  <2> QED
    BY <2>1 DEF WorkInv
<1> QED
  BY <1>1, <1>2, <1>3, LockInvariant, PTL DEF McpSpec
=============================================================================

------------------------------ MODULE McpClient ------------------------------
(***************************************************************************)
(* Tool calls that an MCP server executes: core/mcp/client.py, tool.py and *)
(* server.py, under the retry loop of ToolCall.                            *)
(*                                                                         *)
(* The daemon starts one process per configured server and shakes hands    *)
(* with it.  All runs share its one pipe: a call takes the client's lock,  *)
(* writes a request with a fresh id and reads lines until one carries that *)
(* id.  A call that gives up (no line for 30 s, the limit of invoke_tool,  *)
(* cancellation) leaves its answer in the pipe, and the server at work.    *)
(*                                                                         *)
(* The server is external: it may answer in any order, late, never, with   *)
(* an error, write other lines in between, and die.                        *)
(***************************************************************************)
EXTENDS ToolCall, SequencesExt

CONSTANT MaxNoise   \* bound: notifications and lines that are no JSON

VARIABLES
  phase,    \* what start_all has reached with this server
  server,   \* the process: "none", "up" or "dead"
  lastId,   \* _id
  reqId,    \* the id of each call's latest request
  step,     \* inside _call: "none", "queued" for the lock, or "reading"
  queue,    \* the waiters of _lock, in order
  holder,   \* the call that holds _lock
  inbox,    \* the requests the server has not answered
  outbox,   \* the lines the client has not read
  noise,    \* how many other lines the server has written
  effects,  \* history: the requests of each call the server has executed
  taken     \* history: the request whose answer each call returned

client == <<lastId, reqId, step, queue, holder>>
pipe == <<server, inbox, outbox, noise, effects>>
mcpVars == <<vars, phase, client, pipe, taken>>

Nobody == "nobody"
Boot == "boot"

ASSUME McpAssumption == MaxNoise \in Nat /\ Calls \cap {Nobody, Boot} = {}

Requests == [id: Nat, who: Calls \cup {Boot}, attempt: 0 .. Retries + 1]
NoRequest == [id |-> 0, who |-> Boot, attempt |-> 0]
Noise == [re |-> NoRequest, ok |-> FALSE]
Lines == [re: Requests, ok: BOOLEAN]

McpTypeOK ==
  /\ TypeOK
  /\ phase \in {"off", "initialize", "listing", "ready", "skipped"}
  /\ server \in {"none", "up", "dead"}
  /\ lastId \in Nat
  /\ reqId \in [Calls -> 0 .. lastId]
  /\ step \in [Calls -> {"none", "queued", "reading"}]
  /\ queue \in Seq(Calls)
  /\ holder \in Calls \cup {Nobody}
  /\ inbox \subseteq Requests
  /\ outbox \in Seq(Lines)
  /\ noise \in 0 .. MaxNoise
  /\ effects \in [Calls -> Nat]
  /\ taken \in [Calls -> Requests]

-----------------------------------------------------------------------------
(* McpClient._call. *)

FreshId(c) == lastId + 1

Deliver(request) == inbox' = IF server = "up" THEN inbox \cup {request} ELSE inbox

\* The lock is taken and the request written.
Send(c, id) ==
  /\ holder' = c
  /\ step' = [step EXCEPT ![c] = "reading"]
  /\ Deliver([id |-> id, who |-> c, attempt |-> attempt[c]])

AssignId(c) == lastId' = FreshId(c) /\ reqId' = [reqId EXCEPT ![c] = FreshId(c)]

\* invoke: the id is assigned before the lock is asked for.
Call(c) ==
  /\ pc[c] = "running" /\ step[c] = "none"
  /\ AssignId(c)
  /\ \/ /\ holder = Nobody /\ queue = <<>>
        /\ Send(c, FreshId(c))
        /\ UNCHANGED queue
     \/ /\ holder # Nobody \/ queue # <<>>
        /\ step' = [step EXCEPT ![c] = "queued"]
        /\ queue' = Append(queue, c)
        /\ UNCHANGED <<holder, inbox>>
  /\ UNCHANGED <<vars, phase, server, outbox, noise, effects, taken>>

\* The first waiter of the lock goes on.
Acquire(c) ==
  /\ step[c] = "queued"
  /\ holder = Nobody /\ queue # <<>> /\ Head(queue) = c
  /\ queue' = Tail(queue)
  /\ Send(c, reqId[c])
  /\ UNCHANGED <<vars, phase, server, outbox, noise, effects, taken, lastId, reqId>>

\* A waiter takes itself out of the queue.
StopWaiting(c) ==
  IF step[c] = "queued"
  THEN \E i \in DOMAIN queue : queue[i] = c /\ queue' = RemoveAt(queue, i)
  ELSE UNCHANGED queue

LeaveReader(c) ==  \* mutant: an exception leaves the lock taken
  /\ step' = [step EXCEPT ![c] = "none"]
  /\ StopWaiting(c)
  /\ UNCHANGED <<holder, lastId, reqId>>

\* The coroutine ends, however it does: `async with` gives the lock back.
Leave(c) ==
  /\ step' = [step EXCEPT ![c] = "none"]
  /\ holder' = IF holder = c THEN Nobody ELSE holder
  /\ StopWaiting(c)
  /\ UNCHANGED <<lastId, reqId>>

AnyAnswer(c, line) == line.re # NoRequest  \* mutant: takes the next answer for its own

\* str(msg_id) == req_id_str
IsAnswer(c, line) == line.re # NoRequest /\ line.re.id = reqId[c]

\* A line that is no JSON, a notification or the answer to an earlier request.
SkipLine(c) ==
  /\ step[c] = "reading" /\ outbox # <<>> /\ ~IsAnswer(c, Head(outbox))
  /\ outbox' = Tail(outbox)
  /\ UNCHANGED <<vars, phase, client, server, inbox, noise, effects, taken>>

\* The answer: a result, or an error, which McpTool turns into runtime_error.
TakeAnswer(c) ==
  /\ step[c] = "reading" /\ outbox # <<>> /\ IsAnswer(c, Head(outbox))
  /\ outbox' = Tail(outbox)
  /\ taken' = [taken EXCEPT ![c] = Head(outbox).re]
  /\ IF Head(outbox).ok THEN ToolSucceeds(c) ELSE ToolFails(c, "runtime_error")
  /\ Leave(c)
  /\ UNCHANGED <<phase, server, inbox, noise, effects>>

WriteAgain(c) ==  \* mutant: after 30 seconds the request is written once more
  /\ step[c] = "reading"
  /\ Send(c, reqId[c])
  /\ UNCHANGED <<vars, phase, server, outbox, noise, effects, taken, lastId, reqId, queue>>

\* No line for 30 seconds, or the end of the pipe: McpServerUnavailableError.
Unavailable(c) ==
  /\ step[c] = "reading"
  /\ ToolFails(c, "runtime_error")
  /\ Leave(c)
  /\ UNCHANGED <<phase, pipe, taken>>

\* The time limit of invoke_tool, which covers the wait for the lock.
Limit(c) ==
  /\ step[c] # "none"
  /\ TimesOut(c) /\ UNCHANGED works
  /\ Leave(c)
  /\ UNCHANGED <<phase, pipe, taken>>

CancelCall(c) ==
  /\ Cancel(c)
  /\ Leave(c)
  /\ UNCHANGED <<phase, pipe, taken>>

\* invoke_tool around the execution.  An MCP tool has no parameter model, and
\* its answers are not announced before the call is cleared.
Around(c) ==
  /\ \/ Start(c) \/ Validate(c) \/ Decided(c) \/ Granted(c) \/ Denied(c)
     \/ Reported(c) \/ Again(c) \/ Return(c) \/ PublishFails(c)
  /\ pc[c] = "idle" => phase = "ready"
  /\ UNCHANGED <<phase, client, pipe, taken>>

-----------------------------------------------------------------------------
(* McpServerManager. *)

BootRequest(n) == [id |-> n, who |-> Boot, attempt |-> 0]

\* The process is started and initialize sent.
Connect ==
  /\ phase = "off"
  /\ phase' = "initialize" /\ server' = "up"
  /\ lastId' = 1 /\ inbox' = {BootRequest(1)}
  /\ UNCHANGED <<vars, reqId, step, queue, holder, outbox, noise, effects, taken>>

\* The handshake reads a line.  After the answer to initialize it sends
\* tools/list; after the answer to that the tools are registered.  An error
\* answer ends it: the server is skipped, its process keeps running.
Handshake ==
  /\ phase \in {"initialize", "listing"} /\ outbox # <<>>
  /\ outbox' = Tail(outbox)
  /\ \/ /\ Head(outbox).re # BootRequest(lastId)
        /\ UNCHANGED <<phase, lastId, inbox>>
     \/ /\ Head(outbox) = [re |-> BootRequest(lastId), ok |-> TRUE]
        /\ phase = "initialize" /\ phase' = "listing"
        /\ lastId' = 2
        /\ Deliver(BootRequest(2))
     \/ /\ Head(outbox) = [re |-> BootRequest(lastId), ok |-> TRUE]
        /\ phase = "listing" /\ phase' = "ready"
        /\ UNCHANGED <<lastId, inbox>>
     \/ /\ Head(outbox) = [re |-> BootRequest(lastId), ok |-> FALSE]
        /\ phase' = "skipped"
        /\ UNCHANGED <<lastId, inbox>>
  /\ UNCHANGED <<vars, reqId, step, queue, holder, server, noise, effects, taken>>

\* 30 seconds without a line, or the end of the pipe.
HandshakeFails ==
  /\ phase \in {"initialize", "listing"}
  /\ phase' = "skipped"
  /\ UNCHANGED <<vars, client, pipe, taken>>

\* stop_all: the process is terminated.  Nobody waits for the calls, and the
\* tools stay registered.
StopAll ==
  /\ phase = "ready" /\ server = "up"
  /\ server' = "dead"
  /\ UNCHANGED <<vars, phase, client, inbox, outbox, noise, effects, taken>>

-----------------------------------------------------------------------------
(* The server. *)

Answer(request, ok) ==
  /\ server = "up"
  /\ inbox' = inbox \ {request}
  /\ outbox' = Append(outbox, [re |-> request, ok |-> ok])
  /\ effects' = IF request.who = Boot THEN effects
                ELSE [effects EXCEPT ![request.who] = @ + 1]
  /\ UNCHANGED <<vars, phase, client, server, noise, taken>>

WriteNoise ==
  /\ server = "up" /\ noise < MaxNoise
  /\ noise' = noise + 1
  /\ outbox' = Append(outbox, Noise)
  /\ UNCHANGED <<vars, phase, client, server, inbox, effects, taken>>

\* The process dies.  Nothing starts it again.
Die ==
  /\ server = "up"
  /\ server' = "dead"
  /\ UNCHANGED <<vars, phase, client, inbox, outbox, noise, effects, taken>>

-----------------------------------------------------------------------------
McpInit ==
  /\ Init
  /\ phase = "off" /\ server = "none"
  /\ lastId = 0
  /\ reqId = [c \in Calls |-> 0]
  /\ step = [c \in Calls |-> "none"]
  /\ queue = <<>> /\ holder = Nobody
  /\ inbox = {} /\ outbox = <<>> /\ noise = 0
  /\ effects = [c \in Calls |-> 0]
  /\ taken = [c \in Calls |-> NoRequest]

McpCallStep(c) ==
  \/ Call(c) \/ Acquire(c) \/ SkipLine(c) \/ TakeAnswer(c) \/ Unavailable(c)
  \/ Limit(c) \/ CancelCall(c) \/ Around(c)

ServerStep ==
  \/ \E request \in inbox, ok \in BOOLEAN : Answer(request, ok)
  \/ WriteNoise
  \/ Die

McpNext ==
  \/ \E c \in Calls : McpCallStep(c)
  \/ Connect \/ Handshake \/ HandshakeFails \/ StopAll
  \/ ServerStep

McpSpec == McpInit /\ [][McpNext]_mcpVars

-----------------------------------------------------------------------------
(* Safety. *)

\* A call that succeeds returns the answer to its own latest request, never one that another
\* call, or an earlier attempt of its own, left in the pipe (client.py:180-198).
NoCrossTalk ==
  \A c \in Calls :
    pc[c] = "finishing" \/ (pc[c] = "done" /\ result[c] = "ok") =>
      taken[c].who = c /\ taken[c].attempt = attempt[c]

\* The lock belongs to a call that reads, everybody who waits for it is in the
\* queue once, and a call that is not being executed has neither
\* (client.py:175-198).
LockOfReader ==
  /\ \A c \in Calls : step[c] = "reading" <=> holder = c
  /\ \A c \in Calls : step[c] = "queued" <=> \E i \in DOMAIN queue : queue[i] = c
  /\ \A i, j \in DOMAIN queue : queue[i] = queue[j] => i = j
  /\ \A c \in Calls : step[c] # "none" => pc[c] = "running"

\* The server executes a request at most once per execution of the tool, so at
\* most three times for one permission, even if every attempt times out and is
\* executed later (client.py:163-180, invocation.py:167-226).
WorkBounded ==
  \A c \in Calls : effects[c] + Cardinality({q \in inbox : q.who = c}) <= attempt[c]

\* Every execution of the tool behind an MCP call is one of ToolCall.
ImplementsToolCall == Spec
=============================================================================

# Verification of CrispCode

CrispCode is a daemon (`crisp-core`, `src/src/crispcode/core`) that runs LLM agents for sessions, and
clients (a command line and a terminal UI) that talk to it with JSON lines over TCP. The daemon is one
process on one asyncio loop: code is atomic between two awaits and everything else interleaves. This
directory models that in TLA+, checks small instances with TLC, and proves theorems for all instances
with TLAPS. Paths below are relative to `src/src/crispcode/`.

## The system

| component | code | state | operations | status |
|---|---|---|---|---|
| permission manager | `core/permissions` | `_pending` futures, `_session_always`, `_persistent_always`, `policy.toml` | `check_and_wait`, `respond`, `cancel_session`, load, save | `Permission` |
| session manager | `core/session/manager.py`, handlers of `core/app.py` | `_sessions`, `_locks`, `_run_sessions`, `meta.json` | create, send_message, close, compact, usage events, agent.run | `Session`, `SessionTurns` |
| session store | `core/session/store.py` | `thread.jsonl`, `meta.json`, `notes.md` | append, read with trimming, compact | `AgentLoop`, `Session` (partly) |
| agent loop and run | `core/loop.py`, `core/context.py`, `core/runner.py` | `messages`, `step`, `status`, `prefill_len` | seed, chat, tool results, finish, persist | `AgentLoop` (partly) |
| compaction | `core/compact` | none of its own | automatic, manual | `AgentLoop` (partly) |
| tool invocation | `core/tools/invocation.py` | the stage of a call | announce, validate, clear, execute, retry, fail | `ToolCall` |
| MCP client | `core/mcp` | `_id`, `_lock`, the pipe of a server process | start, handshake, call, stop | `McpClient` (stdio, one server) |
| event bus, event files | `core/events` | subscribers, `events.jsonl` of each run | publish, handle, open, close | `EventStream` |
| broadcaster, subscription | `core/transport/ipc_broadcaster.py`, `event.subscribe` of `core/app.py` | `_subscriptions`, the buffers of the connections | handle, add, remove, replay | `EventStream` |
| socket server | `core/transport/socket_server.py` | connections, one task per request | read loop, dispatch, close | inside `EventStream`, `Session`, `TuiClient` |
| terminal UI, socket client | `tui/app.py`, `core/transport/socket_client.py` | futures of commands, `_busy`, the input line, permission blocks and widgets | connect, reconnect, events, submit, decide | `TuiClient` (partly) |
| subagents | `core/subagent` | the stage of each child, registry of background tasks | spawn, bridge events, agent_result | `Subagents` on `ToolCall` |
| task board | `core/task`, `task_*` tools | one file per task, `_next_id` | create, update, list | `TaskBoard` |
| daemon lifecycle | `CoreApp.run` of `core/app.py` | the tasks of runs, the MCP servers, the socket server | load, start, serve, shut down | `Daemon` |
| trace | `core/trace` | the queue of records, the drain task, the file | start, emit, drain, stop | `Trace` |
| LLM providers | `core/llm/provider.py`, `core/trace/provider.py` | the text of the stream under way | chat with its retries, the records around it | `Provider` (partly) |
| configuration | `core/config.py` | none; the files and variables it reads | `get_config` | `Config` (partly) |

### Not modelled

Not modelled, and not planned: the OpenAI provider and the choice of a provider (wire formats; the loop
sees an answer or an exception), skill and profile loading, logging (parsing and text), the built-in
tools (operations of the operating system, which `ToolCall` lets do anything), event classes (data), and
the command line (printing). Of modelled parts the following is left out: the TCP transport of MCP,
which cannot send a request (`core/mcp/client.py:208`), quitting and rendering in the terminal UI,
envelopes and error codes of the socket server, titles and timestamps.

### How the parts interact

A client sends `session.send_message`. The socket server starts a task for the line. The session
manager takes the session's lock, appends the message to `thread.jsonl` and starts a run. The run seeds
its context from the thread and enters the loop: ask the model, invoke the tool calls it requests, add
their results, until it answers or the step limit is reached; then it appends what it produced to the
thread. Each tool call first asks the permission manager, which may publish `permission.requested` and
suspend until `permission.respond` arrives on another task. A tool may be a builtin, an MCP server shared
by all runs, or a subagent. Every step is published on one bus, whose `publish` awaits its subscribers
one after the other: the broadcaster, which waits for each matching connection to drain, the event
files, the session manager's usage subscriber. So one client that stops reading suspends every task that
publishes, wherever it stands, locks held. The hard behaviours all come from here: what may happen
between two awaits, who cancels whom, and what a crash or a failed write leaves on disk. `hazards` in
`PROJECT.json` lists them at their lines.

### What makes each component correct

- **permission**: no command runs without consent, whatever races with the answer; a waiting call can be
  reached by its answer; a lasting deny is not undone; every wait ends.
- **session**: one request at a time works on a session; a closed session is final; the files are never
  ahead of each other in the wrong direction; the lock is given back.
- **agent loop**: every request to the model is well formed; the model sees the new message; what a run
  produced is in the thread as a whole or not at all; every run ends whose calls do.
- **tool call**: the events say what the model is told; no work without a decision; no second work.
- **MCP**: no call gets the answer of another; the lock is not lost; the server does not work more often
  than the call was executed.
- **event stream**: order without repetition; nothing is lost to a healthy client; a slow or dead client
  harms only as far as the code accepts.
- **subagents**: what is started is reported, visible and nested as the call that started it; every child
  ends.
- **task board**: dependencies are acyclic and on open tasks; an agent that follows them can go on.
- **terminal UI**: commands are answered or cancelled, the input comes back, the connection is replaced.
- **daemon**: stopping it hides no run from the trace; it ends when it is told to.
- **trace**: the file is what was emitted, in order and without a hole; stopping loses nothing.
- **provider**: the answer is the text of one stream, all of it, however often streams dropped.
- **configuration**: a value that is refused, in any file or variable that is read, keeps the daemon from
  starting.

## Modules

`X` is the model, `MCX` its instance for TLC (where definitions are needed), `XProofs` its theorems. Two
proof modules serve several models: `AgentProofs` those of an agent (`AgentLoop`, `TaskBoard`), and
`DaemonUiProofs` those of the two processes (`Daemon` with its layers, `TuiClient`).
Operators named as a mutant in their comment are plausible slips of the code; each property is shown to
notice one of them.

**`Permission`**. One action per stretch between two awaits of `check_and_wait`: `CheckAndWait` runs the
tiers (deny patterns, forced asking outside the working directory, session cache, persistent cache, allow
patterns, default) and either settles the call or registers its future and enters the emitter; `Emitted`
is the return of the emitter, `Resume` the wake-up with an answer, a cancellation or the timer, in every
order the event loop allows, the answer that is set in the iteration in which the timer fires included.
`Respond` is `permission.respond`, for any call at any time. Saves of `policy.toml` may fail or tear in
the crash that interrupts them; the user may edit the file while the daemon is down. A command is the set
of patterns it matches; `HitSets` bounds which.

**`Session`, `SessionTurns`**. Every request is a task; `pc` is the publish it is suspended in. The locks
are `owner`; handlers may raise at every publish and every write (`Faults`), the daemon may die anywhere
(`MayCrash`) and come back without memory. `SessionTurns` is what clients rely on: a session is opened
once, reserved by one request at a time, takes turns while open, and is closed for good. `Session`
implements it under the mapping `Turns`, where status becomes the life, `owner` the worker and `runs_ids`
the turns.

**`AgentLoop`**. The runs of one session after another (`Session` shows that they do not overlap). A
message is its role, run and the tool calls it requests or answers. Modelled are the seeding with the
trimmed thread, all stop reasons, the step limit, the pairing of results, both compactions, and the slice
that is appended to the thread. Cancellations and raised exceptions have two actions, for two kinds of
awaits: inside the `try` of `run_and_capture` they end the loop, and what it has is appended (`RunBroken`);
at the publishes outside it, those of the message, of `run.started` and of `run.finished`, they end the run
before the append, so that nothing of it reaches the thread, whatever the loop did (`RunCutOff`).

**`ToolCall`**. `invoke_tool` for any number of concurrent calls: announce, validate, clear, execute with
a time limit, retry. A tool may fail in every class and finish its work in the moment it is cancelled; a
publish may raise.

**`McpClient`** extends `ToolCall`: the execution of a call becomes the waits for the lock and for lines.
The server answers in any order, late, never or with an error, writes other lines and dies.

**`Subagents`** extends `ToolCall`: some calls are `spawn_agent`, and each execution of such a call makes a
child that makes calls itself (`Maker` says whose call is whose). A foreground child runs inside its call,
under the same time limit; a background child is a task. A child of a child cannot spawn again, since the
code stops at the second level, so its calls are plain ones. The bridge between the buses passes two kinds
of events; `shown` are the approvals that clients see, and `Around` puts every action of `ToolCall` into
its place between parent and child.

**`TaskBoard`**. One action per operation, since none awaits: `Create`, `Update` with the clearing of
dependencies and the stale copy it saves, and both with a write that fails before or after it has
truncated its file. `loose` remembers which dependencies the agent named with an id the code does not
check; the properties except those and no others.

**`EventStream`**. One action per stretch between two drains. Connections fill up, are read, break, and are
cleaned up by three different pieces of code; a run's writer opens before its first event and closes after its
last. Lists are filtered by `Filter`, which picks the places that remain. The history variables `since`,
`smooth` and `cut` record when a client was subscribed, whether its replay was undisturbed, and which
publications were cancelled or could not be written.

**`TuiClient`**. `_socket_loop`, `run_event_loop` and the handlers of the user's actions as coroutines that
share the connection, the futures (`status`), `_busy`, the input line and the permission prompts. The daemon
is reduced to what a connection shows of it; its turn (`turn`) is `Session`'s, its permission requests are
`Permission`'s. A turn asks for one tool call after the other, as often as `MaxAsks` allows; what its
subagents ask stays on their own bus, so it suspends the turn and the client hears nothing (`"unheard"`).
Turns of lost connections go on and ask too, and any widget on the screen may be answered. `CancelledError`
and `OSError` take the paths they take in the code: the first ends a worker silently, the second ends the
application. A connection may be closed (`"eof"`) or lost with an error (`"reset"`); the latter is raised
again by `close` (`socket_client.py:42`), which ends the application too (`CloseRaises`). A command written
when the reading is over, to a connection that is gone, has a future that nobody settles (`"unread"`).

**`Daemon`** extends `Provider`, which extends `Trace`, and `Config`. `Daemon` has one action per await of
`CoreApp.run`, from the configuration to the end of `asyncio.run`, and the requests that are under way
when the signal comes: `agent.run`, whose runs the shutdown cancels and gathers, and messages of sessions,
which it does not know. A cancelled run still publishes that it is finished. `Provider` is one call of the
model with its deltas, dropped streams and repeated requests; in the model a run makes one call, which
stands for all of them, since nothing of a call survives it. `Trace` is the queue, its unfinished count and
the drain task, which takes everything in one step because a non-empty queue never suspends it. `Config`
has no state: `GetConfig` says of an input, what the files and variables say of one key, whether the daemon
starts with it, and `Load` finds any input. The value of a key is data, and no property is about it.

## Runs

| run | instance | what it shows |
|---|---|---|
| `permission` | 2 calls of one session, 4 pattern sets, all faults | `NoGrantWithoutConsent`, `PendingExact`, `DenySurvives`, `CachesFollowReturns`, `WaitersSettle` |
| `session` | 1 session, 4 requests, 1 usage event, faults, crashes | `LockDiscipline`, `OneShotRunsOnce`, `MetaCurrent`, `SerialTurns` (refinement), `LockReleased` |
| `agent_loop` | 3 runs, 2 steps, 2 calls, 1 manual compaction, faults | `RequestsWellPaired`, `UserMessageSeen`, `ThreadGrowsByRun`, `RunEnds` |
| `agent_loop_lost` | 2 runs, automatic compaction | finding: a compaction inside a run loses its answer |
| `subagents` | a call of the root, a call of its child, 1 retry, all decisions, raising subscribers, cancellation | of every call: `EachAttemptReported`, `ConsentBeforeWork`, `NoSecondWork`; of the children: `ForegroundIsNested`, `OneChildPerCall`, `ClientsSeeChildren`, `ChildrenEnd` |
| `mcp_calls` | 2 calls, 1 retry, 1 other line | `NoCrossTalk`, `LockOfReader`, `WorkBounded` |
| `task_board` | 3 tasks, dependencies on any of them, failing writes | `Grounded`, `NeverStuck` |
| `event_stream` | a run with 2 events, another publisher, 2 connections | `StreamInOrder`, `LiveComplete`, `RunRecorded`, `SmoothReplayHasNoGap`, `PublishReturns` |
| `event_stream_gap` | the same without faults | finding: a replay followed by the live stream has a gap |
| `daemon` | an `agent.run` and a message, 2 streams per call, a delta, a stalled client, failing writes | `AnswerMatchesStream`, `AwaitedEndsTraced`, `StopLosesNothing`, `DaemonEnds` |
| `tui` | 2 messages, 2 permission requests, 1 outage, 1 event of another session; of messages, requests and events at most 4 | `AwaitedIsUnderWay`, `ResultFindsUnlocked`, `InputComesBack`, `LostConnectionIsReplaced` |
| `tui_reconnect` | 1 message, 1 permission request, 1 outage | finding: after an outage at the wrong moment the UI stays disconnected or busy |

The type invariants are theorems, not properties of the runs. `ToolCall` is checked as part of `Subagents`
and `McpClient`, which extend it. Deadlock is not checked: all instances are bounded (calls, requests, runs,
events, messages), so the system stops when they are used up, and a daemon that nobody asks anything rests.

**Bounds.** Two calls, or two connections, are enough for every interference the code can have: the shared
state is indexed by call, session or connection, or is one lock or file whose waiters are exchangeable (a
symmetry set in `mcp_calls`). Four requests let a create, a run, a competing run and a close meet, with a
restart in between. Three tasks let one wait for another while both are blocked by, or reopened after, a
third. A parent's call and a child's are the nesting the code has twice over: each level sees only its
neighbours. Three runs let a broken run be followed by two others, the second of which reads what the first
left. The code retries twice; one retry is enough for an answer of an earlier attempt to be in the pipe, or a
child of an earlier attempt to be at work, and the proofs are for any number. A stream drops once in `daemon`
(the code sends a request three times) and brings one delta, in the text of either attempt or lost with the
first: a slip in what is kept over a retry shows with one, and the proofs are for any number. An input of the
configuration is about one key, since whether a value is refused depends on no other key, only, for two keys,
on whether the same file has a `[trace]` table, which is part of the input. Two permission requests let one
turn ask twice, or a turn of a lost connection and a later one ask, so that two widgets are on the screen; a
request of another session makes it three. `MaxInputs` leaves out the runs in which both messages, both
requests and the other session's event all occur, five inputs, and any four of them are together in some run.
Two events of a run let one be in the replay and one behind it.

**Fairness.** A ready task runs and a timer fires: asyncio guarantees both. A publish returns only if the
clients read, so nothing behind a publish is fair by itself: `PublishReturns` has the premise that every
connection is drained again and again, and `Permission` gives fairness to the resumption and the timer only.
`Session` and `AgentLoop` look at one level above and take the publishes and the model's answers as returning.
That a tool call returns is no assumption of `AgentLoop` but the premise of `RunEnds` (`CallsReturn`): its
execution has a time limit, the approval it waits for has none with `timeout_s = 0`. In `Daemon` tasks run, a
stream ends, drops or fails (the client library has its timeouts), and a publish returns unless a client has
stopped reading for good, which `DaemonEnds` names as the reason for which the daemon may stay; no request,
signal or fault has to come. The user is never fair. In `Subagents` children and the calls they make go on
(tasks run, timers fire) but no fault ever has to happen. In `TuiClient` the daemon is started again and
answers, but neither the user nor the model must do anything, and no timer is assumed (`AskTimesOut` is not
fair, since `timeout_s = 0` sets none): that approvals end is the premise of `InputComesBack`.

## Proofs

The theorems hold for all values of the constants (any number of calls, sessions, tools, requests), under
the named assumptions on them only. Each invariant is proved from an inductive one by one lemma per action
or group of actions; TLC checked the inductive invariants on the instances of the runs first. Every safety
property of a run is a theorem. Some theorems state what no run lists: most of these are the safety half of
a liveness property, that is what must hold of states and steps so that fairness alone brings the end. They
are defined beside their proofs, and TLC checked each of them on an instance of its module before it was
proved.

| liveness property of a run | its safety half, for all instances |
|---|---|
| `WaitersSettle` | `FirstAnswerCountsHolds` |
| `LockReleased` | `RequestsAdvanceHolds` |
| `RunEnds` | `LoopAdvancesHolds` |
| `ChildrenEnd` | `CallAdvancesHolds`, `FamilyAdvancesHolds` |
| `PublishReturns` | `WaitsForReaderHolds`, `PublishAdvancesHolds` |
| `DaemonEnds` | `AwaitedWindsDownHolds`, `ShutdownAdvancesHolds` |

- `PermissionProofs`: `TypeCorrect`, `NoGrantWithoutConsentHolds`, `PendingExactHolds`, `StaticAgreement`,
  `DenySurvivesHolds`, `CachesFollowReturnsHolds`. Consent is not inductive by itself: an allowing answer
  lives in a future, moves to two caches and from there to a file, and comes back at a restart. `Consent` says
  of each of the four places that what it allows was granted; `Lifecycle` ties the places of a call to its
  future, so that the answer a resuming call finds was given to that call. `DenySurvives` is inductive once
  these are known, because an answer about one tool leaves what the daemon, and then the file, says of the
  others (`AnswerKeepsDenials`); that the caches change only with a call that returns is a property of steps.
  So is `FirstAnswerCountsHolds`: a future that is settled keeps its answer, whatever answers, timers,
  cancellations and crashes come after it, and a call leaves its wait once.
- `SessionProofs`: `TypeCorrect`, `LockDisciplineHolds`, `ClosedIsFinalHolds`, `MessageBeforeRunHolds`,
  `MetaCurrentHolds`, `OneShotRunsOnceHolds`, and `ImplementsTurns`, the refinement of `SessionTurns`.
  `WorksOnLiveSession` carries the test of the status over the awaits behind it: as long as the lock is held
  nobody else can close the session. `Ahead` says that messages, runs in memory and runs in `meta.json` lag
  behind each other, with one message to spare between the append and the entry of the run. `Current` says
  where the file stands while the holder of the lock is at each of its awaits (`FilesAt`, `OneShotAt`);
  since only the holder moves it, the proof is one lemma for its steps (`OwnStep`) and one for all others
  (`Elsewhere`). `RequestsAdvanceHolds` is about steps: a request goes from await to await and never back, it
  is answered once, and a lock comes free in the step in which its holder ends and in no other.
- `ToolCallProofs`: `VerdictMatchesHolds`, `ConsentBeforeWorkHolds`, `NoSecondWorkHolds`,
  `EachAttemptReportedHolds`. `CallInv(c)` is what each stage of a call knows of its executions, decision
  and events; `Isolation` shows that a step of one call keeps that of all others, so that the invariant is
  proved for one call at a time. `Counted` relates the number of verdicts published, finished or
  failed, to that of executions; they are counted as the set of their positions. `CallAdvancesHolds` orders
  the stages and the attempts of a call: every step of it goes up in this order, which is finite because of
  `NoSecondWork`, and its events are only appended.
- `McpClientProofs`: `McpImplementsToolCall`. Every step of `McpClient` is one of `ToolCall` or leaves its
  variables alone, so the theorems of `ToolCall` hold for MCP calls. `NoCrossTalkHolds`
  is the client's own. Its invariant says that an id is used by one call at a time, and that whatever is
  in the pipe under the id of a call was sent by that call in the execution that is under way. It does not
  mention the lock: even two readers of one pipe could lose answers, but not mix them up.
  `LockOfReaderHolds` is about the lock: its queue holds every waiter exactly once, which needs that giving
  up removes one entry and leaves the order of the others (`Removed`, `WaiterLeaves`). `WorkBoundedHolds`
  counts: what the server has done for a call, what is in the pipe and what the call has yet to send are
  together at most the executions of the call (`WorkInv`). `McpTypeCorrect` follows from all of them.
  `InTurnHolds` is what the queue of the lock is for: ids grow along the queue (`QueueInOrder`), so that the
  reader has the oldest request and a line it drops as stale is one that nobody waits for. Because of the
  refinement the calls also go forward (`McpCallsAdvance`).
- `SubagentsProofs`: `SubTypeCorrect`, `ForegroundIsNestedHolds`, `OneChildPerCallHolds`,
  `ClientsSeeChildrenHolds`, `FamilyCallsHold` (the invariants of `ToolCall`, for parents and children alike).
  The invariant adds to that of `ToolCall`: `Staged`, a child that is announced or awaited belongs to the
  execution under way; `Nested`, the child that makes a call works until the call is over; `Seen`, what was
  reported of a child in each of its stages; `Spared`, a call about to execute again has no child at work or
  successful, except those whose `finished` event could not be delivered. Steps are of three kinds: those of
  one call (`Quiet`), those of a child and its call (`Moves`), and an exception or a timeout that unwinds a
  call, its children and their calls in one step (`Leaves`). For the last the invariant of a call is proved
  call by call, and the two levels of `Family` bound what is unwound. `FamilyAdvancesHolds` says of every step
  that it takes each call and each child forward or leaves it where it is, that outcomes are final, and that
  nothing cancels a background child.
- `EventStreamProofs`: `TypeCorrect`, `StreamInOrderHolds`, `LiveCompleteHolds`, `RunRecordedHolds`,
  `SmoothReplayHasNoGapHolds`. The invariant locates events: `Serving` is about a publish under way,
  `Received` and `Reached` say of a client that what it has is in order and older than what it waits for, and
  that what began since it subscribed was written to it or is still to come, `Kept` says the same of a file,
  `CaughtUp` of a replay. None of the properties is inductive: that an event is not sent twice needs that
  nobody who waits for it has it. One step may serve many connections, drop the dead ones and write the
  file; `Stretch` states what every such step does, whether it begins a publish or resumes one. `Filter`
  is defined by the ranks of the places it keeps and not recursively, so that order and elements of the
  result can be proved (`Ranks`, `FilterElements`, `FilterDistinct`, `FilterInOrder`).
  `WaitsForReaderHolds` is that no wake-up is lost: whoever is suspended in a drain waits for a connection
  that is full and alive. It needs that publishers and clients are different tasks, which
  `EventStreamAssumption` says. `PublishAdvancesHolds` says that a publish that was woken goes past a
  connection before it can be suspended again.
- `AgentProofs`, of the loop: `TypeCorrect`, `RequestsWellPairedHolds`, `UserMessageSeenHolds`,
  `ThreadGrowsByRunHolds`. That a request is well paired has two reasons, each of which one of the faults
  takes away. Without a compaction inside a run, the thread is `Linked` (results follow their calls) and
  `Distinct` (no call twice), so that what the trimming leaves is `Answered`, whatever was broken off before.
  Without a broken run, the thread is `Answered` itself and is not trimmed, whatever was compacted. `LoopInv`
  carries both, through the loop, where the calls still open are those of the last response, and through the
  slice that goes back to the thread. `Ending` says that what a run produced is the end of its context, from
  `prefill_len` on; it is what a compaction breaks. `ThreadGrowsByRunHolds` adds that a run that is cut off
  outside its `try` leaves the thread as it was, and a run that nothing broke into never does.
  `AnswerKeptHolds` draws the boundary of the first finding below: without a compaction of the run's context
  or of the thread, and if nothing broke into the run, the answer of every run that succeeded is in the
  thread. `LoopAdvancesHolds` counts what a step of the loop has left to do (`Pending`).
- `AgentProofs`, of the board: `BoardTypeCorrect`, `GroundedHolds`, `NeverStuckHolds`. `Grounded` needs
  `Fresh`: ids are given out once and only readable files have dependencies, so that a file that becomes
  readable is of a task nobody waits for. Every failing write is one case of `Shrinking`: files are torn, or
  wait for less. `NeverStuck` follows from the least open task.
- `DaemonUiProofs`, of the daemon: `TypeCorrect`, `TraceIsPrefixHolds`, `StopLosesNothingHolds`,
  `AwaitedEndsTracedHolds`, `AnswerMatchesStreamHolds`. The steps of the daemon are first shown to be steps
  of the trace and of the calls (`StepOfTrace`, `StepOfChats`), whose invariants are then proved by
  themselves: `TraceInv`, that file and queue together are what was emitted as long as the drain task lives,
  and `ChatInv`, that a call's text is that of its stream, less the token whose publish is under way.
  `OrderInv` ties the stages of the shutdown to the runs it awaits. `DueInv` carries what `stop` relies on
  from the join to its end: records may be emitted after the join, but none that were due are missing.
  `EndsInv` adds where the record of a run's end is: emitted before the gather was over, so before the trace
  was told to stop, and from there `DueInv` brings it to the file (`AwaitedEndsTracedHolds`). The theorem is
  about runs that the shutdown awaits and that had called the model; a run cancelled before its loop begins
  publishes no end, and one of `session.send_message` is not awaited. `AwaitedWindsDownHolds`
  says that a run that was told to stop calls the model no more, and `ShutdownAdvancesHolds` that neither
  the daemon nor a run it awaits goes back.
- `DaemonUiProofs`, of the terminal UI: `UiTypeCorrect`, `AwaitedIsUnderWayHolds`,
  `ResultFindsUnlockedHolds`. `UiInv` adds what the two sides of a connection know of each other: `Linked`
  (the loop serves a connection exactly while there is one with a reader), `Closed` (the daemon owes nothing
  to a broken one), `Handshake` and `Sending` (who is subscribed sends, and only who has shaken hands), and
  `IdleFirst`, the order on the wire: before the result of a message there is its `session.idle`, or it was
  handled. For the last a turn needs a subscribed connection, which is why the handshake is part of it.
  `DaemonKeeps`, `CutKeeps`, `IssueKeeps`, `ReadKeeps` and `FinallyKeeps` are about the kinds of steps: the
  daemon appends lines, an outage cuts them, a command is issued, a line is read, the loop cleans up.
  `AwaitedIsUnderWayHolds` separates two states of a future: `waiting`, which the end of the reading cancels,
  and `unread`, made after that end, which nothing does.

`StaticAgreement`, `ClosedIsFinalHolds`, `MessageBeforeRunHolds`, `VerdictMatchesHolds`, `FamilyCallsHold` and
`TraceIsPrefixHolds` have no run beside the proof, like the type invariants.

Only model-checked: all liveness (`WaitersSettle`, `LockReleased`, `RunEnds`, `PublishReturns`,
`InputComesBack`, `LostConnectionIsReplaced`, `ChildrenEnd`, `DaemonEnds`), which TLAPS cannot prove: fairness
speaks of enabled actions. The table above says which part of each is proved; of `LostConnectionIsReplaced`
none is, since it is about repetition and not about a measure, and of `InputComesBack` only
`ResultFindsUnlockedHolds`: with several prompts there is no simple invariant of what locks the input. Nothing
else is only model-checked.

## Findings

Three runs end in a counterexample to a sentence of the repository.

1. **Lost answers** (`agent_loop_lost`): `prefill_len` is an index into the list that a compaction inside the
   loop replaces; the messages after it, the answer included, may not reach `thread.jsonl`. They are lost as
   well, without any compaction, if the publish of `run.finished` (`core/runner.py:263`) is cancelled or
   raises.
2. **Replay gap** (`event_stream_gap`): the subscription begins after the replay has drained; what is
   published in between reaches the client in neither part. `SmoothReplayHasNoGap` shows that this, and a
   publication that was already under way, are the only reasons.
3. **Reconnecting** (`tui_reconnect`): `CancelledError` in the handshake ends `_socket_loop` for good, and
   `_busy` outlives the connection of its message, whose worker was cancelled with its future or waits for one
   that nobody settles. A connection that is reset ends the application: `close` raises at `tui/app.py:1121`.
   `LostConnectionIsReplaced` says what is left: a connection closed by the other side while the UI serves.

Seen on the way, not a subject of a run: `cancel_session` is documented as what happens when a client
disconnects (`core/permissions/manager.py:212`), but nothing calls it, so without an approval timeout the
call and its session wait forever; `README.md:435` says that sessions survive daemon restarts, but nothing
reads `meta.json` back; `task_create` accepts a dependency on a completed task, which then blocks until the
agent removes it, and `add_blocked_by` accepts any id, the task's own included (`core/task/manager.py:47`,
`:85`); `README.md:443` says that the TUI renders permission prompts inline and waits for the user, but the
bridge from a child's bus passes only `subagent.started` and `subagent.finished`
(`core/subagent/tool.py:137`): the prompts of a child reach no client, so that without an approval timeout a
background child waits for ever, and with one every tool of a child that must be asked for is denied; the
registry of background tasks is made for every run, not shared by them (`core/runner.py:82`); `_send` is
called with three arguments in `core/transport/socket_server.py:145`; `HandleError` of an unknown method
becomes an internal error (179 against `envelope.py:43`); the TCP transport of MCP cannot work
(`core/mcp/client.py:208`); notifications are misspelt (`client.py:90`, `"spwan_agent"` in
`core/runner.py:124`, `"runtime_errpr"` in `core/tools/invocation.py:178`); `path.exists` is never called in
`core/task/manager.py:34`; the provider's retry delay is not slept (`core/llm/provider.py:173`); an
`events.jsonl` also holds events of other runs (`core/events/writer.py:44`), so `crisp run` may stop at a
foreign `run.finished` (`cli/commands/run.py:91`); `crisp chat` cannot answer permission requests while it
waits for its message.

Of the configuration: `CRISP_MAX_STEPS` is checked and never applied, because the assignment stands behind a
`raise` (`core/config.py:446`, against `README.md:355`); `trace.file` of a file is always replaced (460);
`CRISP_LLM_DEFAULT_MODEL` in a `[config]` table beats the system environment (166); a `[tui]` or `[permission]`
table in a file without a `[trace]` table ends the daemon with an unbound name (256, 279); `trace.enabled` of a
file must be a string, any one but the empty one turns the trace on, and a boolean is refused. So not
every key is taken from the last layer that gives one, against `README.md:342`. This is read from the code:
`Config` leaves the values out, and has what is refused and the unbound names.

Of the shutdown: the gather has no time limit and comes before the socket server is closed, so a client that
has stopped reading while a cancelled run publishes its end keeps the daemon alive, and a second SIGTERM
changes nothing; runs of `session.send_message`, and those of `agent.run` that are accepted during the gather,
are not awaited; a trace whose task died with records behind the failing one is waited for without end; After
a stream is retried, clients keep the fragment of the first one (`ShownIsFirstStream`) and the rest of the
answer is not shown until it is complete.

## Plan

Done, in this order: `Permission`, `Session` with `SessionTurns`, `AgentLoop`, `ToolCall`, `EventStream`,
`McpClient` and `Subagents` on `ToolCall`, `TuiClient`, `TaskBoard`, `Daemon` on `Trace`, `Provider` and
`Config`, and the theorems on all of their safety properties. Still to come:

1. **Composition**: a turn of `Session` around a run of `AgentLoop`, whose steps are `ToolCall`s.
2. **Proofs**: the connection as `TuiClient` sees it (its turn, the order of `session.idle` and reply) as an
   abstraction of what `Session` and `EventStream` do.

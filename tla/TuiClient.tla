------------------------------ MODULE TuiClient ------------------------------
(***************************************************************************)
(* The terminal UI as a client of the daemon: socket_client.py and the     *)
(* control of tui/app.py, that is the connection loop, the handling of     *)
(* events, the input line and the permission prompts.                      *)
(*                                                                         *)
(* In the client three kinds of coroutines share its state: _socket_loop,  *)
(* run_event_loop and the handlers and workers of the user's actions.  The *)
(* daemon is seen through its connection: commands are handled in any      *)
(* order, replies and events come back on one stream.  It may die and come *)
(* back, and the connection may break.                                     *)
(***************************************************************************)
EXTENDS Naturals, Sequences, SequencesExt, FiniteSets

CONSTANTS
  MaxSends,    \* bound: messages the user submits
  MaxOutages,  \* bound: broken connections and deaths of the daemon
  MaxForeign,  \* bound: events of other sessions
  MaxAsks,     \* bound: permission requests of this client's turns
  MaxInputs    \* bound: messages, permission requests and foreign events together

ASSUME TuiAssumption == {MaxSends, MaxOutages, MaxForeign, MaxAsks, MaxInputs} \subseteq Nat

VARIABLES
  up,         \* the daemon runs
  conn,       \* the connection: "none", "open", "eof" once the other side closed
              \* it, "reset" once it is lost with an error
  wire,       \* the lines the client has not read
  cmds,       \* the commands the daemon has not handled
  subscribed, \* the connection gets events
  turn,       \* the turn of the client's session
  resumes,    \* the session is idle: the next turn resumes it
  orphans,    \* the turns of earlier connections still under way
  loop,       \* where _socket_loop is suspended
  reader,     \* run_event_loop: "off", "reading" or "done"
  status,     \* the future of each command
  client,     \* _client is set
  session,    \* _session_id is set
  busy,       \* _busy
  prompt,     \* the input line is enabled
  blocks,     \* _pending_permission_blocks
  selects,    \* the PermissionSelect widgets on the screen, oldest first
  gone,       \* the message loop of the application has ended
  sends, outages, foreign, asks,  \* bounded counters
  idled       \* history: the turns whose session.idle the client has handled

daemon == <<up, cmds, turn, resumes, orphans>>
link == <<conn, wire, subscribed>>
ui == <<busy, prompt, blocks, selects>>
conns == <<loop, reader, client, session>>
bounds == <<sends, outages, foreign, asks>>
uiVars == <<daemon, link, conns, status, ui, gone, bounds, idled>>

Subscribe == [what |-> "subscribe", n |-> 0]
Create == [what |-> "create", n |-> 0]
Send(i) == [what |-> "send", n |-> i]
Respond(r) == [what |-> "respond", n |-> r]

\* Permission requests are numbered as they are asked, in a range that holds the
\* messages' numbers too; another session asks at most once.
Foreign == 0
Messages == 1 .. MaxSends
PermissionIds == (0 .. MaxAsks) \cup Messages
Commands == {Subscribe, Create} \cup {Send(i) : i \in Messages}
            \cup {Respond(r) : r \in PermissionIds}

Reply(c, ok) == [type |-> IF ok THEN "result" ELSE "error", cmd |-> c, n |-> 0]
Event(type, n) == [type |-> type, cmd |-> Subscribe, n |-> n]
EventTypes == {"session.resumed", "session.idle", "session.closed",
               "permission.requested", "permission.denied"}
NoTurn == [at |-> "none", of |-> 0, question |-> 0]
Started(i) == [at |-> "running", of |-> i, question |-> 0]

\* A turn works, waits for an answer of the user, or waits for one the user is
\* not asked for.
Underway == {"running", "asking", "unheard"}
Turns == [at: {"none", "closing"} \cup Underway, of: Messages \cup {0},
          question: PermissionIds]

TypeOK ==
  /\ {up, subscribed, resumes, client, session, busy, prompt, gone} \subseteq BOOLEAN
  /\ orphans \subseteq Turns
  /\ conn \in {"none", "open", "eof", "reset"}
  /\ wire \in Seq([type: {"result", "error"} \cup EventTypes, cmd: Commands,
                   n: PermissionIds])
  /\ cmds \subseteq Commands
  /\ turn \in Turns
  /\ loop \in {"connecting", "subscribing", "creating", "serving", "sleeping", "ended"}
  /\ reader \in {"off", "reading", "done"}
  /\ status \in [Commands -> {"none", "queued", "waiting", "result", "error",
                              "cancelled", "unread", "oserror", "over"}]
  /\ blocks \subseteq PermissionIds /\ selects \in Seq(PermissionIds)
  /\ sends \in 0 .. MaxSends /\ outages \in 0 .. MaxOutages /\ foreign \in 0 .. MaxForeign
  /\ asks \in 0 .. MaxAsks /\ idled \subseteq Messages

-----------------------------------------------------------------------------
(* SocketClient. *)

\* send_command: the command is written and its future awaited.  Once the other
\* side has closed, a write may still succeed; if it fails, and after a reset,
\* drain raises.  A future created after the event loop is over is awaited for
\* ever.
Issue(c) ==
  \/ /\ conn = "open"
     /\ cmds' = cmds \cup {c}
     /\ status' = [status EXCEPT ![c] = "waiting"]
     /\ UNCHANGED conn
  \/ /\ conn = "eof"
     /\ status' = [status EXCEPT ![c] = IF reader = "done" THEN "unread" ELSE "waiting"]
     /\ UNCHANGED <<cmds, conn>>
  \/ /\ conn \in {"eof", "reset"}
     /\ conn' = "reset"
     /\ status' = [status EXCEPT ![c] = "oserror"]
     /\ UNCHANGED cmds

KeepWaiting == status  \* mutant: the futures are only dropped

\* The finally of run_event_loop.
CancelWaiting ==
  [c \in Commands |-> IF status[c] = "waiting" THEN "cancelled" ELSE status[c]]

\* readline returns b"" after the last line, or raises: the event loop ends.
ReadEof ==
  /\ reader = "reading"
  /\ \/ conn = "reset"
     \/ conn = "eof" /\ wire = <<>>
  /\ reader' = "done"
  /\ status' = CancelWaiting
  /\ UNCHANGED <<daemon, link, loop, client, session, ui, gone, bounds, idled>>

\* _dispatch: a response settles the future that waits for it.
ReadReply ==
  /\ reader = "reading" /\ wire # <<>>
  /\ LET line == Head(wire)
     IN /\ line.type \in {"result", "error"}
        /\ status' = [status EXCEPT ![line.cmd] = IF @ = "waiting" THEN line.type ELSE @]
  /\ wire' = Tail(wire)
  /\ UNCHANGED <<daemon, conn, subscribed, conns, ui, gone, bounds, idled>>

-----------------------------------------------------------------------------
(* _handle_event. *)

Unlock == busy' = FALSE /\ prompt' = TRUE

\* query_one finds the first widget, whichever request it belongs to.
RemoveSelect == selects' = IF selects = <<>> THEN selects ELSE Tail(selects)

ReadEvent ==
  /\ reader = "reading" /\ wire # <<>>
  /\ wire' = Tail(wire)
  /\ LET line == Head(wire)
     IN \/ /\ line.type \in {"session.resumed", "session.idle"}
           /\ Unlock
           /\ idled' = IF line.type = "session.idle" THEN idled \cup ({line.n} \cap Messages)
                       ELSE idled
           /\ UNCHANGED <<blocks, selects>>
        \/ /\ line.type = "session.closed"
           /\ busy' = FALSE /\ prompt' = FALSE
           /\ UNCHANGED <<blocks, selects, idled>>
        \/ /\ line.type = "permission.requested"
           /\ blocks' = blocks \cup {line.n}
           /\ selects' = Append(selects, line.n)
           /\ prompt' = FALSE
           /\ UNCHANGED <<busy, idled>>
        \/ /\ line.type = "permission.denied" /\ line.n \in blocks
           /\ blocks' = blocks \ {line.n}
           /\ RemoveSelect
           /\ prompt' = (prompt \/ blocks' = {})
           /\ UNCHANGED <<busy, idled>>
        \/ /\ line.type = "permission.denied" /\ line.n \notin blocks
           /\ UNCHANGED <<ui, idled>>
  /\ UNCHANGED <<daemon, conn, subscribed, conns, status, gone, bounds>>

-----------------------------------------------------------------------------
(* _socket_loop. *)

\* The connection is gone for the daemon too.  A turn under way goes on without
\* this client, also one whose command is only now read.
ConnectionDropped ==
  /\ cmds' = {} /\ subscribed' = FALSE
  /\ \E read \in SUBSET {i \in Messages : Send(i) \in cmds} :
       orphans' = orphans \cup {Started(i) : i \in read}
                  \cup {t \in {turn} : t.at \in Underway}
  /\ turn' = NoTurn /\ resumes' = FALSE

\* The finally of the loop, which also ends the event loop.
Finally ==
  /\ client' = FALSE /\ session' = FALSE /\ prompt' = FALSE
  /\ conn' = "none" /\ wire' = <<>> /\ reader' = "off" /\ status' = CancelWaiting
  /\ ConnectionDropped
  /\ UNCHANGED <<up, busy, blocks, selects, bounds, idled>>

\* Its last call, close, waits until the transport is closed, and raises the
\* error the connection was lost with, if that has been noticed.
CloseRaises == IF reader = "done" THEN {conn = "reset"} ELSE {conn = "reset", FALSE}

\* Sleep and connect again; an error instead ends the worker and the application.
RetryUnless(error) ==
  /\ loop' = IF error THEN "ended" ELSE "sleeping"
  /\ gone' = (gone \/ error)

Connect ==
  /\ loop = "connecting" /\ up /\ ~gone
  /\ conn' = "open" /\ wire' = <<>> /\ client' = TRUE
  /\ reader' = "reading"
  /\ cmds' = cmds \cup {Subscribe}
  /\ status' = [status EXCEPT ![Subscribe] = "waiting"]
  /\ loop' = "subscribing"
  /\ UNCHANGED <<up, turn, resumes, orphans, subscribed, session, ui, gone, bounds, idled>>

\* mutant: the loop gives up.
RefusedEnds ==
  /\ loop = "connecting" /\ ~up
  /\ loop' = "ended"
  /\ UNCHANGED <<daemon, link, reader, client, session, status, ui, gone, bounds, idled>>

Refused ==
  /\ loop = "connecting" /\ ~up
  /\ loop' = "sleeping"
  /\ UNCHANGED <<daemon, link, reader, client, session, status, ui, gone, bounds, idled>>

\* Two seconds later.
Retry ==
  /\ loop = "sleeping" /\ \A i \in Messages : status[Send(i)] # "queued"
  /\ loop' = "connecting"
  /\ UNCHANGED <<daemon, link, reader, client, session, status, ui, gone, bounds, idled>>

SubscribeDone ==
  /\ loop = "subscribing" /\ status[Subscribe] = "result"
  /\ Issue(Create)
  /\ loop' = "creating"
  /\ UNCHANGED <<up, turn, resumes, orphans, wire, subscribed, reader, client, session, ui, gone, bounds, idled>>

CreateDone ==
  /\ loop = "creating" /\ status[Create] = "result"
  /\ session' = TRUE /\ prompt' = TRUE
  /\ loop' = "serving"
  /\ UNCHANGED <<daemon, link, reader, client, status, busy, blocks, selects, gone,
                 bounds, idled>>

Awaited == IF loop = "subscribing" THEN Subscribe ELSE Create

\* IpcError is caught.
HandshakeRefused ==
  /\ loop \in {"subscribing", "creating"} /\ status[Awaited] = "error"
  /\ Finally
  /\ \E error \in CloseRaises : RetryUnless(error)

\* CancelledError and OSError are not: they end the worker, the latter, also one
\* that close raises, the application too.
HandshakeBreaks ==
  /\ loop \in {"subscribing", "creating"} /\ status[Awaited] \in {"cancelled", "oserror"}
  /\ Finally
  /\ loop' = "ended"
  /\ \E error \in CloseRaises : gone' = (gone \/ error \/ status[Awaited] = "oserror")

\* await loop_task returns.
Disconnected ==
  /\ loop = "serving" /\ reader = "done"
  /\ Finally
  /\ \E error \in CloseRaises : RetryUnless(error)

MoreInputs == sends + asks + foreign < MaxInputs

-----------------------------------------------------------------------------
(* The user. *)

\* on_permission_select_decided awaits its answer in the message loop of the
\* application: until then no other input is handled.
InputHandled == ~gone /\ \A r \in PermissionIds : status[Respond(r)] \in {"none", "over"}

Submit(i) ==
  /\ InputHandled /\ prompt /\ client /\ session /\ ~busy
  /\ sends < MaxSends /\ MoreInputs /\ i = sends + 1
  /\ sends' = i
  /\ busy' = TRUE /\ prompt' = FALSE
  /\ status' = [status EXCEPT ![Send(i)] = "queued"]
  /\ UNCHANGED <<daemon, link, conns, blocks, selects, gone, outages, foreign, asks, idled>>

\* The worker begins.  Without a connection it ends, and _busy stays set.
SendStart(i) ==
  /\ status[Send(i)] = "queued"
  /\ \/ client /\ Issue(Send(i))
     \/ /\ ~client
        /\ status' = [status EXCEPT ![Send(i)] = "over"]
        /\ UNCHANGED <<conn, cmds>>
  /\ UNCHANGED <<up, turn, resumes, orphans, wire, subscribed, conns, ui, gone, bounds, idled>>

\* mutant: an error is only shown.
SendOverLocked(i) ==
  /\ status[Send(i)] \in {"result", "error", "oserror", "cancelled"}
  /\ status' = [status EXCEPT ![Send(i)] = "over"]
  /\ UNCHANGED <<daemon, link, conns, ui, gone, bounds, idled>>

\* An error unlocks the input, a result does nothing, a cancellation ends the
\* worker.
SendOver(i) ==
  /\ status[Send(i)] \in {"result", "error", "oserror", "cancelled"}
  /\ status' = [status EXCEPT ![Send(i)] = "over"]
  /\ IF status[Send(i)] \in {"error", "oserror"} THEN Unlock ELSE UNCHANGED <<busy, prompt>>
  /\ UNCHANGED <<daemon, link, conns, blocks, selects, gone, bounds, idled>>

\* The user answers the k-th widget.
Decide(k) ==
  /\ InputHandled
  /\ selects' = RemoveAt(selects, k)
  /\ blocks' = blocks \ {selects[k]}
  /\ \/ client /\ UNCHANGED prompt /\ Issue(Respond(selects[k]))
     \/ /\ ~client
        /\ prompt' = (prompt \/ blocks' = {})
        /\ UNCHANGED <<conn, status, cmds>>
  /\ UNCHANGED <<up, turn, resumes, orphans, wire, subscribed, conns, busy, gone, bounds, idled>>

RespondOver(r) ==
  /\ status[Respond(r)] \in {"result", "error", "oserror"}
  /\ status' = [status EXCEPT ![Respond(r)] = "over"]
  /\ prompt' = (prompt \/ blocks = {})
  /\ UNCHANGED <<daemon, link, conns, busy, blocks, selects, gone, bounds, idled>>

\* A CancelledError leaves the handler; it may end the message loop.
RespondCancelled(r) ==
  /\ status[Respond(r)] = "cancelled"
  /\ status' = [status EXCEPT ![Respond(r)] = "over"]
  /\ gone' \in {gone, TRUE}
  /\ UNCHANGED <<daemon, link, conns, ui, bounds, idled>>

-----------------------------------------------------------------------------
(* The daemon. *)

Lines(ls) == wire' = wire \o ls
Published(type, n) == IF subscribed THEN <<Event(type, n)>> ELSE <<>>
ClientUnchanged == UNCHANGED <<conns, status, ui, gone, idled>>

HandleSubscribe ==
  /\ Subscribe \in cmds
  /\ cmds' = cmds \ {Subscribe} /\ subscribed' = TRUE
  /\ Lines(<<Reply(Subscribe, TRUE)>>)
  /\ UNCHANGED <<up, turn, resumes, orphans, conn, bounds>> /\ ClientUnchanged

\* session.create, or the disk is full.
HandleCreate ==
  /\ Create \in cmds
  /\ cmds' = cmds \ {Create}
  /\ \/ Lines(<<Reply(Create, TRUE)>>) /\ UNCHANGED outages
     \/ /\ outages < MaxOutages /\ outages' = outages + 1
        /\ Lines(<<Reply(Create, FALSE)>>)
  /\ UNCHANGED <<up, turn, resumes, orphans, conn, subscribed, sends, foreign, asks>>
  /\ ClientUnchanged

StartTurn(i) ==
  /\ Send(i) \in cmds
  /\ cmds' = cmds \ {Send(i)}
  /\ \/ /\ turn.at = "none"
        /\ turn' = Started(i)
        /\ Lines(IF resumes THEN Published("session.resumed", i) ELSE <<>>)
     \/ /\ turn.at # "none"
        /\ Lines(<<Reply(Send(i), FALSE)>>)
        /\ UNCHANGED turn
  /\ UNCHANGED <<up, resumes, orphans, conn, subscribed, bounds>> /\ ClientUnchanged

\* A turn, of this connection or of an earlier one, goes on as t.
GoesOn(s, t) ==
  \/ s = turn /\ turn' = t /\ UNCHANGED orphans
  \/ s \in orphans /\ orphans' = (orphans \ {s}) \cup {t} /\ UNCHANGED turn

\* A tool call needs a permission.  What a subagent asks stays on its own bus.
Ask ==
  /\ asks < MaxAsks /\ MoreInputs /\ asks' = asks + 1
  /\ \E s \in orphans \cup {turn} :
       /\ s.at = "running"
       /\ \/ /\ GoesOn(s, [s EXCEPT !.at = "asking", !.question = asks + 1])
             /\ Lines(Published("permission.requested", asks + 1))
          \/ /\ GoesOn(s, [s EXCEPT !.at = "unheard"])
             /\ Lines(<<>>)
  /\ UNCHANGED <<up, cmds, resumes, conn, subscribed, sends, outages, foreign>>
  /\ ClientUnchanged

\* permission.respond, in time, with a permission or a denial, or too late.
HandleRespond(r) ==
  /\ Respond(r) \in cmds
  /\ cmds' = cmds \ {Respond(r)}
  /\ \/ \E s \in orphans \cup {turn} :
          /\ s.at = "asking" /\ s.question = r
          /\ GoesOn(s, [s EXCEPT !.at = "running"])
          /\ \E denial \in {<<>>, Published("permission.denied", r)} :
               Lines(<<Reply(Respond(r), TRUE)>> \o denial)
     \/ /\ \A s \in orphans \cup {turn} : s.at = "asking" => s.question # r
        /\ Lines(<<Reply(Respond(r), TRUE)>>)
        /\ UNCHANGED <<turn, orphans>>
  /\ UNCHANGED <<up, resumes, conn, subscribed, bounds>> /\ ClientUnchanged

\* With timeout_s = 0 there is no timer: nothing makes this happen.
AskTimesOut ==
  /\ \E s \in orphans \cup {turn} :
       /\ s.at \in {"asking", "unheard"}
       /\ GoesOn(s, [s EXCEPT !.at = "running"])
       /\ Lines(IF s.at = "asking" THEN Published("permission.denied", s.question) ELSE <<>>)
  /\ UNCHANGED <<up, cmds, resumes, conn, subscribed, bounds>> /\ ClientUnchanged

\* mutant: the reply comes first.
FinishReplies ==
  /\ turn.at = "running"
  /\ turn' = [turn EXCEPT !.at = "closing"] /\ resumes' = TRUE
  /\ Lines(<<Reply(Send(turn.of), TRUE)>> \o Published("session.idle", turn.of))
  /\ UNCHANGED <<up, cmds, orphans, conn, subscribed, bounds>> /\ ClientUnchanged

\* The run is over: session.idle, later the reply.  Or it raised.
FinishTurn ==
  /\ turn.at = "running"
  /\ turn' = [turn EXCEPT !.at = "closing"] /\ resumes' = TRUE
  /\ Lines(Published("session.idle", turn.of))
  /\ UNCHANGED <<up, cmds, orphans, conn, subscribed, bounds>> /\ ClientUnchanged

\* meta.json is written, or that raises.
ReleaseTurn ==
  /\ turn.at = "closing"
  /\ turn' = NoTurn
  /\ \E ok \in BOOLEAN : Lines(<<Reply(Send(turn.of), ok)>>)
  /\ UNCHANGED <<up, cmds, resumes, orphans, conn, subscribed, bounds>> /\ ClientUnchanged

FailTurn ==
  /\ turn.at = "running"
  /\ turn' = NoTurn
  /\ Lines(<<Reply(Send(turn.of), FALSE)>>)
  /\ UNCHANGED <<up, cmds, resumes, orphans, conn, subscribed, bounds>> /\ ClientUnchanged

\* The turn of a connection that is gone ends, or raises.
OrphanEnds ==
  /\ \E s \in orphans :
       /\ s.at = "running"
       /\ orphans' = orphans \ {s}
       /\ \E told \in {<<>>, Published("session.idle", s.of)} : Lines(told)
  /\ UNCHANGED <<up, cmds, turn, resumes, conn, subscribed, bounds>> /\ ClientUnchanged

\* An event of another session, which the subscription includes.
ForeignEvent(type) ==
  /\ subscribed /\ foreign < MaxForeign /\ MoreInputs
  /\ foreign' = foreign + 1
  /\ type = "permission.requested" => status[Respond(Foreign)] = "none"
                                      /\ Foreign \notin blocks
  /\ Lines(Published(type, Foreign))
  /\ UNCHANGED <<daemon, conn, subscribed, sends, outages, asks>> /\ ClientUnchanged

\* The connection breaks, with some of the lines not received.
Break ==
  /\ conn = "open" /\ outages < MaxOutages
  /\ outages' = outages + 1
  /\ conn' \in {"eof", "reset"}
  /\ \E k \in 0 .. Len(wire) : wire' = SubSeq(wire, 1, k)
  /\ ConnectionDropped
  /\ UNCHANGED <<up, sends, foreign, asks>> /\ ClientUnchanged

\* The daemon dies, and with it every turn and session.
Die ==
  /\ up /\ outages < MaxOutages
  /\ outages' = outages + 1
  /\ up' = FALSE
  /\ conn' \in IF conn = "open" THEN {"eof", "reset"} ELSE {conn}
  /\ \E k \in 0 .. Len(wire) : wire' = SubSeq(wire, 1, k)
  /\ cmds' = {} /\ subscribed' = FALSE
  /\ turn' = NoTurn /\ resumes' = FALSE /\ orphans' = {}
  /\ UNCHANGED <<sends, foreign, asks>> /\ ClientUnchanged

Restart ==
  /\ ~up
  /\ up' = TRUE
  /\ UNCHANGED <<cmds, turn, resumes, orphans, link, bounds>> /\ ClientUnchanged

-----------------------------------------------------------------------------
Init ==
  /\ up = TRUE /\ cmds = {} /\ turn = NoTurn /\ resumes = FALSE /\ orphans = {}
  /\ conn = "none" /\ wire = <<>> /\ subscribed = FALSE
  /\ loop = "connecting" /\ reader = "off" /\ client = FALSE /\ session = FALSE
  /\ status = [c \in Commands |-> "none"]
  /\ busy = FALSE /\ prompt = FALSE /\ blocks = {} /\ selects = <<>>
  /\ gone = FALSE
  /\ sends = 0 /\ outages = 0 /\ foreign = 0 /\ asks = 0
  /\ idled = {}

SocketLoop ==
  \/ Connect \/ Refused \/ Retry \/ SubscribeDone \/ CreateDone
  \/ HandshakeRefused \/ HandshakeBreaks \/ Disconnected

EventLoop == ReadEof \/ ReadReply \/ ReadEvent

\* Handlers and workers that are ready to run.
Handlers ==
  \/ \E i \in Messages : SendStart(i) \/ SendOver(i)
  \/ \E r \in PermissionIds : RespondOver(r) \/ RespondCancelled(r)

User ==
  \/ \E i \in Messages : Submit(i)
  \/ \E k \in DOMAIN selects : Decide(k)

Daemon ==
  \/ HandleSubscribe \/ HandleCreate
  \/ \E i \in Messages : StartTurn(i)
  \/ \E r \in PermissionIds : HandleRespond(r)
  \/ FinishTurn \/ ReleaseTurn \/ OrphanEnds \/ Restart

Environment ==
  \/ Ask \/ AskTimesOut \/ FailTurn \/ Break \/ Die
  \/ \E type \in EventTypes : ForeignEvent(type)

Next == SocketLoop \/ EventLoop \/ Handlers \/ User \/ Daemon \/ Environment

Spec == Init /\ [][Next]_uiVars

\* Ready tasks run, the daemon answers and is started again.  Neither the user
\* nor the model has to do anything, and an approval may wait without a limit.
Fairness ==
  /\ WF_uiVars(SocketLoop) /\ WF_uiVars(EventLoop) /\ WF_uiVars(Handlers)
  /\ WF_uiVars(HandleSubscribe) /\ WF_uiVars(HandleCreate)
  /\ \A i \in Messages : WF_uiVars(StartTurn(i))
  /\ \A r \in PermissionIds : WF_uiVars(HandleRespond(r))
  /\ WF_uiVars(FinishTurn) /\ WF_uiVars(ReleaseTurn) /\ WF_uiVars(OrphanEnds)
  /\ WF_uiVars(Restart)

FairSpec == Spec /\ Fairness

-----------------------------------------------------------------------------
(* Safety. *)

\* While the connection lives no answer is lost: every awaited command is with
\* the daemon, worked on, or its reply is on the way.  When the connection ends,
\* the end of the reading cancels what is awaited; only a command written after
\* that, to a connection that is gone, is awaited for ever
\* (socket_client.py:50-103).
AwaitedIsUnderWay ==
  \A c \in Commands :
    /\ status[c] = "waiting" =>
         /\ reader = "reading"
         /\ conn = "open" =>
              \/ c \in cmds
              \/ turn.at # "none" /\ c = Send(turn.of)
              \/ \E k \in DOMAIN wire :
                   wire[k].type \in {"result", "error"} /\ wire[k].cmd = c
    /\ status[c] = "unread" => outages > 0

\* The reply to a message does not unlock the input, session.idle does: when the
\* result arrives, that event has been handled (app.py:960-983, 1154-1164).
ResultFindsUnlocked ==
  \A i \in Messages : status[Send(i)] = "result" => i \in idled

-----------------------------------------------------------------------------
(* Liveness. *)

\* Approvals are answered by the user or, with timeout_s > 0, by their timer.
ApprovalsEnd == []<>(turn.at \notin {"asking", "unheard"})

\* As long as the connection holds and no other session interferes, the input
\* is given back after every message and every permission prompt, whether the
\* user answers it or its timer does (app.py:772-803, 960-983, 1154-1164,
\* 1384-1403).
InputComesBack ==
  ApprovalsEnd =>
    (loop = "serving" /\ (busy \/ ~prompt) ~>
       (~busy /\ prompt) \/ outages > 0 \/ foreign > 0)

\* A connection that the other side closes while the UI is serving is replaced,
\* provided the next one is not lost too.  One that is reset, or under which a
\* write fails, is not: close raises, and the application ends (app.py:1048-1124).
LostConnectionIsReplaced ==
  \A n \in 1 .. MaxOutages :
    loop = "serving" /\ reader = "done" /\ conn = "eof" /\ outages = n ~>
      (loop = "serving" /\ reader = "reading") \/ outages > n \/ gone

\* The UI reconnects automatically (app.py:643): the daemon stays up in the end,
\* and then an application that still runs is connected and not busy for ever.
Reconnects == []<>(gone \/ (loop = "serving" /\ reader = "reading" /\ ~busy))
=============================================================================

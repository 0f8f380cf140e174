----------------------------- MODULE EventStream -----------------------------
(***************************************************************************)
(* The event stream of the daemon: core/events/bus.py and writer.py,       *)
(* core/transport/ipc_broadcaster.py, the connection handling of           *)
(* socket_server.py and event.subscribe of core/app.py.                    *)
(*                                                                         *)
(* Every event of the daemon goes through one bus.  publish calls its      *)
(* subscribers one after the other: the broadcaster, which writes the      *)
(* event to each matching connection and waits until it has drained, and   *)
(* then the EventWriter of every run that has started, which appends it to *)
(* the run's events.jsonl.  A client subscribes, possibly after a replay   *)
(* of such a file.                                                         *)
(*                                                                         *)
(* asyncio runs a task until it really has to wait: a drain suspends only  *)
(* when the connection's buffer is above its limit or the connection is    *)
(* closing.  An action is one such stretch.  A connection makes at most    *)
(* one subscription, as the command line and the terminal UI do.           *)
(***************************************************************************)
EXTENDS Naturals, Sequences, FiniteSets

CONSTANTS
  Publishers,   \* who publishes: runs, and background subagents and sessions
  Runs,         \* the publishers that keep an events.jsonl
  Clients,      \* connections
  Commands,     \* bound: the event.subscribe commands that clients send
  Count,        \* bound: how many events each publisher publishes
  DiskFails,    \* appending a line to events.jsonl may fail
  MayCancel     \* a task may be cancelled inside publish

\* event.subscribe; topics is the set of the publishers whose events match.
Asks == [scope: Publishers \cup {"global"}, topics: SUBSET Publishers,
         replay: Runs \cup {"none"}]

ASSUME EventStreamAssumption ==
  /\ Runs \subseteq Publishers /\ Publishers \cap Clients = {}
  /\ Commands # {} /\ Commands \subseteq Asks
  /\ Count \in [Publishers -> Nat \ {0}]
  /\ {DiskFails, MayCancel} \subseteq BOOLEAN

VARIABLES
  begun,      \* how many events each publisher has started to publish
  todo,       \* the subscriptions publish still has to serve, per publisher
  dead,       \* the dead list of that publish
  busy,       \* the publishers inside publish
  blocked,    \* the publishers and connections' handlers stuck in a drain
  recording,  \* the EventWriter of each run: "new", "open" or "closed"
  file,       \* events.jsonl of each run
  subs,       \* _subscriptions, in insertion order
  conn,       \* each connection: "open", "lost" (closed or reset), "gone"
  full,       \* the connection's buffer is above its limit
  ask,        \* the event.subscribe command of each connection
  stage,      \* where its handler stands
  stream,     \* what was written to each connection
  since,      \* history: what had begun when a connection was subscribed
  smooth,     \* history: its replay saw no publish under way and did not wait
  cut         \* history: the events whose publication was cancelled or failed

vars == <<begun, todo, dead, busy, blocked, recording, file, subs, conn, full,
          ask, stage, stream, since, smooth, cut>>

Events == [by: Publishers, n: Nat \ {0}]

Elements(s) == {s[i] : i \in DOMAIN s}

\* The elements of s that are in T, in their order.
Places(s, T) == {i \in DOMAIN s : s[i] \in T}
Rank(s, T, i) == Cardinality({j \in Places(s, T) : j <= i})
Filter(s, T) ==
  [k \in 1 .. Cardinality(Places(s, T)) |->
     s[CHOOSE i \in Places(s, T) : Rank(s, T, i) = k]]

TypeOK ==
  /\ begun \in [Publishers -> Nat]
  /\ \A p \in Publishers : begun[p] <= Count[p] /\ Elements(todo[p]) \subseteq Clients
  /\ dead \in [Publishers -> SUBSET Clients]
  /\ busy \subseteq Publishers
  /\ blocked \subseteq Publishers \cup Clients
  /\ recording \in [Runs -> {"new", "open", "closed"}]
  /\ \A r \in Runs : recording[r] = "new" <=> begun[r] = 0
  /\ \A r \in Runs : Elements(file[r]) \subseteq Events
  /\ Elements(subs) \subseteq Clients
  /\ conn \in [Clients -> {"open", "lost", "gone"}]
  /\ full \subseteq {c \in Clients : conn[c] = "open"}
  /\ ask \in [Clients -> Commands]
  /\ stage \in [Clients -> {"none", "requested", "draining", "subscribed", "failed"}]
  /\ \A c \in Clients : Elements(stream[c]) \subseteq Events
  /\ since \in [Clients -> [Publishers -> Nat]]
  /\ smooth \subseteq Clients
  /\ cut \subseteq Events

-----------------------------------------------------------------------------
(* EventBus.publish. *)

Current(p) == [by |-> p, n |-> begun[p]]

\* _matches_scope and _matches_topic.
Matches(c, p) == ask[c].scope \in {"global", p} /\ p \in ask[c].topics

Broken(c) == conn[c] # "open"

\* The connections of a list that still take what is written to them.
Alive(conns) == {i \in DOMAIN conns : ~Broken(conns[i])}

\* write, for each subscription up to the one where the task suspends.
Push(event, conns, k) ==
  stream' = [c \in Clients |->
               IF \E i \in Alive(conns) : i <= k /\ conns[i] = c
               THEN Append(stream[c], event) ELSE stream[c]]

RecordOwn(event, rec, failing) ==  \* mutant: forgets the run's last event
  file' = [r \in Runs |->
             IF rec[r] = "open" /\ r \notin failing /\ event.n < Count[event.by]
             THEN Append(file[r], event) ELSE file[r]]

\* EventWriter.handle of every run whose file is open.
Record(event, rec, failing) ==
  file' = [r \in Runs |->
             IF rec[r] = "open" /\ r \notin failing
             THEN Append(file[r], event) ELSE file[r]]

\* run_and_capture closes the file when its last publish is over.
CloseAfter(event, rec) ==
  [r \in Runs |-> IF r = event.by /\ event.n = Count[r] THEN "closed" ELSE rec[r]]

\* Serve the subscriptions conns.  The task suspends in the drain of the k-th
\* of them, or, if k is past the last, leaves the broadcaster: the dead are
\* unsubscribed, the files are written and publish returns.
Serve(p, event, conns, gone, rec) ==
  \E k \in 1 .. Len(conns) + 1 :
    /\ \A i \in 1 .. k - 1 : ~Broken(conns[i]) /\ conns[i] \notin full
    /\ Push(event, conns, k)
    /\ \/ /\ k <= Len(conns)
          /\ todo' = [todo EXCEPT ![p] = SubSeq(conns, k, Len(conns))]
          /\ dead' = [dead EXCEPT ![p] = gone]
          /\ busy' = busy \cup {p}
          /\ \/ Broken(conns[k]) /\ UNCHANGED <<full, blocked>>
             \/ /\ ~Broken(conns[k])
                /\ full' = full \cup {conns[k]}
                /\ blocked' = blocked \cup {p}
          /\ recording' = rec
          /\ UNCHANGED <<file, subs, cut>>
       \/ /\ k = Len(conns) + 1
          /\ todo' = [todo EXCEPT ![p] = <<>>]
          /\ dead' = [dead EXCEPT ![p] = {}]
          /\ busy' = busy \ {p}
          /\ subs' = Filter(subs, Clients \ gone)
          /\ \E failing \in IF DiskFails THEN SUBSET Runs ELSE {{}} :
               /\ Record(event, rec, failing)
               /\ cut' = IF event.by \in failing THEN cut \cup {event} ELSE cut
          /\ recording' = CloseAfter(event, rec)
          /\ UNCHANGED <<full, blocked>>

\* A run opens its file and subscribes its writer before its first event.
Opened(p) ==
  IF p \in Runs /\ recording[p] = "new"
  THEN [recording EXCEPT ![p] = "open"] ELSE recording

\* publish is called; the broadcaster takes its list of subscriptions.
Publish(p) ==
  /\ p \notin busy /\ begun[p] < Count[p]
  /\ begun' = [begun EXCEPT ![p] = @ + 1]
  /\ Serve(p, [by |-> p, n |-> begun[p] + 1],
           Filter(subs, {c \in Clients : Matches(c, p)}), {}, Opened(p))
  /\ UNCHANGED <<conn, ask, stage, since, smooth>>

SendAgain(p) == todo[p]  \* mutant: serves the drained connection again
StopAtDead(p) ==  \* mutant: the handler of the exception encloses the loop
  IF Broken(Head(todo[p])) THEN <<>> ELSE Tail(todo[p])

Remaining(p) == Tail(todo[p])

\* The drain of the first subscription in todo is over.  It raises when the
\* connection is lost; one that is closing may still return.
Continue(p) ==
  /\ p \in busy \ blocked
  /\ \E gone \in IF Broken(Head(todo[p]))
                 THEN {dead[p], dead[p] \cup {Head(todo[p])}} ELSE {dead[p]} :
       Serve(p, Current(p), Remaining(p), gone, recording)
  /\ UNCHANGED <<begun, conn, ask, stage, since, smooth>>

\* The task is cancelled in the drain (shutdown, the time limit of a tool):
\* the rest of the subscribers never see the event.
CancelPublish(p) ==
  /\ MayCancel /\ p \in busy
  /\ todo' = [todo EXCEPT ![p] = <<>>]
  /\ dead' = [dead EXCEPT ![p] = {}]
  /\ busy' = busy \ {p}
  /\ blocked' = blocked \ {p}
  /\ recording' = CloseAfter(Current(p), recording)
  /\ cut' = cut \cup {Current(p)}
  /\ UNCHANGED <<begun, file, subs, conn, full, ask, stage, stream, since, smooth>>

-----------------------------------------------------------------------------
(* Connections. *)

\* A client sends event.subscribe; the read loop starts a task for the line.
Request(c, a) ==
  /\ conn[c] = "open" /\ stage[c] = "none"
  /\ ask' = [ask EXCEPT ![c] = a]
  /\ stage' = [stage EXCEPT ![c] = "requested"]
  /\ UNCHANGED <<begun, todo, dead, busy, blocked, recording, file, subs, conn,
                 full, stream, since, smooth, cut>>

\* IpcEventBroadcaster.subscribe, at the end of the handler.
Register(c, quietly) ==
  /\ subs' = Append(subs, c)
  /\ stage' = [stage EXCEPT ![c] = "subscribed"]
  /\ since' = [since EXCEPT ![c] = begun]
  /\ smooth' = IF quietly THEN smooth \cup {c} ELSE smooth

ReplayFinished(a) ==  \* mutant: replays only runs that are over
  IF a.replay = "none" THEN <<>>
  ELSE IF recording[a.replay] = "closed"
    THEN Filter(file[a.replay], [by : a.topics, n : Nat \ {0}]) ELSE <<>>

\* The lines _replay_events sends: all of the file that match the topics, of
\* whatever run they are.
Replayed(a) ==
  IF a.replay = "none" THEN <<>>
  ELSE Filter(file[a.replay], [by : a.topics, n : Nat \ {0}])

\* The handler starts.  It writes the replayed lines at once and waits for one
\* drain, unless there was nothing to replay.
Subscribe(c) ==
  LET lines == Replayed(ask[c])
  IN /\ stage[c] = "requested"
     /\ stream' = IF Broken(c) THEN stream
                  ELSE [stream EXCEPT ![c] = @ \o lines]
     /\ \/ /\ lines = <<>> \/ (~Broken(c) /\ c \notin full)
           /\ Register(c, busy = {})
           /\ UNCHANGED <<full, blocked>>
        \/ /\ lines # <<>>
           /\ stage' = [stage EXCEPT ![c] = "draining"]
           /\ \/ Broken(c) /\ UNCHANGED <<full, blocked>>
              \/ /\ ~Broken(c)
                 /\ full' = full \cup {c}
                 /\ blocked' = blocked \cup {c}
           /\ UNCHANGED <<subs, since, smooth>>
     /\ UNCHANGED <<begun, todo, dead, busy, recording, file, conn, ask, cut>>

\* The drain of the replay is over; it may raise if the connection is closing.
Replaying(c) ==
  /\ stage[c] = "draining" /\ c \notin blocked
  /\ \/ Register(c, FALSE)
     \/ /\ Broken(c)
        /\ stage' = [stage EXCEPT ![c] = "failed"]
        /\ UNCHANGED <<subs, since, smooth>>
  /\ UNCHANGED <<begun, todo, dead, busy, blocked, recording, file, conn, full,
                 ask, stream, cut>>

ForgetOthers(c) == blocked \ {c}  \* mutant: only the connection's own task is woken

\* The tasks that wait for connection c to drain.
Released(c) ==
  blocked \ ({c} \cup {p \in busy : todo[p] # <<>> /\ Head(todo[p]) = c})

\* The client reads what was sent: resume_writing.
Reads(c) ==
  /\ c \in full
  /\ full' = full \ {c}
  /\ blocked' = Released(c)
  /\ UNCHANGED <<begun, todo, dead, busy, recording, file, subs, conn, ask, stage,
                 stream, since, smooth, cut>>

\* The connection breaks or the client closes it: connection_lost.
Lose(c) ==
  /\ conn[c] = "open"
  /\ conn' = [conn EXCEPT ![c] = "lost"]
  /\ full' = full \ {c}
  /\ blocked' = Released(c)
  /\ UNCHANGED <<begun, todo, dead, busy, recording, file, subs, ask, stage,
                 stream, since, smooth, cut>>

\* The read loop ends: the finally of _handle_connection unsubscribes.
ReadLoopEnds(c) ==
  /\ conn[c] = "lost"
  /\ conn' = [conn EXCEPT ![c] = "gone"]
  /\ subs' = Filter(subs, Clients \ {c})
  /\ UNCHANGED <<begun, todo, dead, busy, blocked, recording, file, full, ask,
                 stage, stream, since, smooth, cut>>

-----------------------------------------------------------------------------
Init ==
  /\ begun = [p \in Publishers |-> 0]
  /\ todo = [p \in Publishers |-> <<>>]
  /\ dead = [p \in Publishers |-> {}]
  /\ busy = {} /\ blocked = {}
  /\ recording = [r \in Runs |-> "new"]
  /\ file = [r \in Runs |-> <<>>]
  /\ subs = <<>>
  /\ conn = [c \in Clients |-> "open"]
  /\ full = {}
  /\ ask = [c \in Clients |-> CHOOSE a \in Commands : TRUE]
  /\ stage = [c \in Clients |-> "none"]
  /\ stream = [c \in Clients |-> <<>>]
  /\ since = [c \in Clients |-> begun]
  /\ smooth = {} /\ cut = {}

PublisherStep(p) == Publish(p) \/ Continue(p) \/ CancelPublish(p)

ConnectionStep(c) ==
  \/ \E a \in Commands : Request(c, a)
  \/ Subscribe(c)
  \/ Replaying(c)
  \/ Reads(c)
  \/ Lose(c)
  \/ ReadLoopEnds(c)

Next ==
  \/ \E p \in Publishers : PublisherStep(p)
  \/ \E c \in Clients : ConnectionStep(c)

Spec == Init /\ [][Next]_vars

\* The event loop runs every task that is ready.  No client has to read.
Fairness == \A p \in Publishers : WF_vars(Continue(p))

FairSpec == Spec /\ Fairness

-----------------------------------------------------------------------------
(* Safety. *)

InOrder(s) ==
  \A i, j \in DOMAIN s : i < j /\ s[i].by = s[j].by => s[i].n < s[j].n

\* A connection gets the events of a publisher in their order and each at most
\* once, the replayed ones and the live ones together: what the replay read
\* from events.jsonl had already passed the broadcaster (bus.py:18-21,
\* ipc_broadcaster.py:57-95, app.py:152-171).
StreamInOrder == \A c \in Clients : InOrder(stream[c])

\* The publish of p's n-th event is over.
Over(p, n) == n < begun[p] \/ (n = begun[p] /\ p \notin busy)

Seen(c, p, n) ==
  \/ ~Over(p, n) \/ [by |-> p, n |-> n] \in cut
  \/ [by |-> p, n |-> n] \in Elements(stream[c])

Following(c) == stage[c] = "subscribed" /\ conn[c] = "open"

\* A dead or slow connection costs the others nothing: every event whose
\* publish began after a client was subscribed, and returned, reached it
\* (ipc_broadcaster.py:57-95).
LiveComplete ==
  \A c \in Clients : Following(c) =>
    \A p \in Publishers : Matches(c, p) =>
      \A n \in since[c][p] + 1 .. begun[p] : Seen(c, p, n)

\* events.jsonl of a finished run holds its events, in order and none missing,
\* among those of others (runner.py:180-261, writer.py:31-44).
RunRecorded ==
  \A r \in Runs :
    /\ InOrder(file[r])
    /\ recording[r] = "closed" =>
         \A n \in 1 .. Count[r] :
           [by |-> r, n |-> n] \in cut \cup Elements(file[r])

\* What a client that replays a run and then follows it gets of that run.
SeesAll(c) ==
  LET r == ask[c].replay
  IN r # "none" /\ Following(c) /\ Matches(c, r) =>
       \A n \in 1 .. begun[r] : Seen(c, r, n)

\* A client that replays a run and subscribes misses nothing of it, if no
\* publish was under way and its replay did not have to wait (app.py:152-171).
SmoothReplayHasNoGap == \A c \in smooth : SeesAll(c)

\* app.py:153 and commands.py:31: the subscription replays the history of the
\* run and then continues with the live events.
ReplayThenLive == \A c \in Clients : SeesAll(c)

-----------------------------------------------------------------------------
(* Liveness. *)

\* Only a client that stops reading, and keeps its connection, can hold a
\* publish for ever (ipc_broadcaster.py:71-73).
PublishReturns ==
  (\A c \in Clients : []<>(c \notin full)) =>
    \A p \in Publishers : p \in busy ~> p \notin busy
=============================================================================

------------------------------ MODULE Session -------------------------------
(***************************************************************************)
(* SessionManager (core/session/manager.py) with the handlers of           *)
(* core/app.py that call it and the meta.json it keeps.                    *)
(*                                                                         *)
(* Every request of a client is a task of its own.  The manager publishes  *)
(* events while it holds the lock of the session, and a publish awaits     *)
(* every subscriber, slow clients included, so requests interleave at each *)
(* publish.  An action is what one request does between two awaits.  What  *)
(* happens inside a run is module AgentLoop.                               *)
(***************************************************************************)
EXTENDS Naturals, FiniteSets

CONSTANTS
  Sessions,  \* session ids: uuids, never issued twice
  Requests,  \* client requests: tasks of the daemon
  Nobody,    \* the holder of a free lock
  MaxUsages, \* bound: usage events of one run
  Faults,    \* a handler may raise, a write of meta.json may fail half-way
  MayCrash   \* the daemon may be killed and started again

ASSUME SessionAssumption ==
  /\ Nobody \notin Requests
  /\ MaxUsages \in Nat
  /\ {Faults, MayCrash} \subseteq BOOLEAN

VARIABLES
  up,          \* the daemon process is running
  status,      \* status of each entry of _sessions; "none" before, "gone" after
  mode,        \* mode of each session
  runs,        \* Len(runs_ids)
  contextPct,  \* context_pct: how many usage events have been taken over
  owner,       \* the request holding _locks[s]
  meta,        \* meta.json of each session
  messages,    \* user rows ever appended to thread.jsonl
  pc,          \* where each request stands
  target,      \* the session of each request
  background,  \* the request is the task agent.run started
  result,      \* what the manager returned or raised
  faulty       \* history: the sessions a fault has hit

memory == <<status, mode, runs, contextPct>>
vars == <<up, status, mode, runs, contextPct, owner, meta, messages, pc, target,
          background, result, faulty>>

Modes == {"chat", "one_shot"}
Statuses == {"active", "idle", "closed"}
NoMeta == [kind |-> "none", status |-> "none", runs |-> 0, contextPct |-> 0]
Torn == [kind |-> "torn", status |-> "none", runs |-> 0, contextPct |-> 0]
Metas == [kind: {"none", "torn", "saved"}, status: Statuses \cup {"none"},
          runs: Nat, contextPct: Nat]

\* The places inside `async with lock`.
InLock == {"resuming", "received", "running", "announcing", "closing", "compacting"}

\* The state is well-typed, and the lock of a session is held by exactly the
\* request that stands inside its critical section.
TypeOK ==
  /\ up \in BOOLEAN
  /\ status \in [Sessions -> Statuses \cup {"none", "gone"}]
  /\ mode \in [Sessions -> Modes]
  /\ runs \in [Sessions -> Nat]
  /\ contextPct \in [Sessions -> Nat]
  /\ owner \in [Sessions -> Requests \cup {Nobody}]
  /\ meta \in [Sessions -> Metas]
  /\ messages \in [Sessions -> Nat]
  /\ pc \in [Requests -> InLock \cup {"new", "creating", "tasked", "done", "lost"}]
  /\ target \in [Requests -> Sessions]
  /\ background \in [Requests -> BOOLEAN]
  /\ result \in [Requests -> {"none", "ok", "busy", "closed", "notfound", "failed"}]
  /\ faulty \subseteq Sessions

Init ==
  /\ up = TRUE
  /\ status = [s \in Sessions |-> "none"]
  /\ mode \in [Sessions -> Modes]
  /\ runs = [s \in Sessions |-> 0]
  /\ contextPct = [s \in Sessions |-> 0]
  /\ owner = [s \in Sessions |-> Nobody]
  /\ meta = [s \in Sessions |-> NoMeta]
  /\ messages = [s \in Sessions |-> 0]
  /\ pc = [r \in Requests |-> "new"]
  /\ target \in [Requests -> Sessions]
  /\ background \in [Requests -> BOOLEAN]
  /\ result = [r \in Requests |-> "none"]
  /\ faulty = {}

-----------------------------------------------------------------------------
(* The pieces of the handlers. *)

Known(s) == status[s] \in Statuses
Locked(s) == owner[s] # Nobody
Holds(r, at) == up /\ pc[r] = at

Goto(r, at) == pc' = [pc EXCEPT ![r] = at] /\ UNCHANGED result
Return(r, res) ==
  /\ pc' = [pc EXCEPT ![r] = "done"]
  /\ result' = [result EXCEPT ![r] = res]

Acquire(s, r) == owner' = [owner EXCEPT ![s] = r]
ReleaseForAnyone(s) == owner' = [q \in Sessions |-> Nobody]  \* mutant
Release(s) == owner' = [owner EXCEPT ![s] = Nobody]

SnapshotBefore(s) ==  \* mutant: saved before the assignment
  [kind |-> "saved", status |-> status[s], runs |-> runs'[s],
   contextPct |-> contextPct'[s]]

\* write_meta of the session as it is after the step.
Snapshot(s) == [kind |-> "saved", status |-> status'[s], runs |-> runs'[s],
                contextPct |-> contextPct'[s]]
WriteMeta(s) == meta' = [meta EXCEPT ![s] = Snapshot(s)] /\ UNCHANGED faulty

\* write_text truncates meta.json first: when it raises, the file is as it was
\* or empty.
WriteMetaFails(s) ==
  /\ Faults
  /\ \E m \in {meta[s], Torn} : meta' = [meta EXCEPT ![s] = m]
  /\ faulty' = faulty \cup {s}

RefusedUnlessLocked(s) == {res \in {"notfound"} : ~Known(s)}  \* mutant
Refused(s) ==
  {res \in {"notfound", "busy"} :
     \/ res = "notfound" /\ ~Known(s)
     \/ res = "busy" /\ Known(s) /\ Locked(s)}

\* _get_session and the test of the lock raise before anything is touched.
Refuse(r, s) ==
  /\ \E res \in Refused(s) : Return(r, res)
  /\ UNCHANGED <<up, memory, owner, meta, messages, faulty>>

\* The request is up to its first step: an RPC of a client, or the task that
\* agent.run started.
Starts(r) == up /\ pc[r] = "new" /\ ~background[r]

-----------------------------------------------------------------------------
(* session.create, and agent.run until it starts its task. *)

Create(r) ==
  LET s == target[r]
  IN /\ up /\ pc[r] = "new" /\ status[s] = "none"
     /\ background[r] => mode[s] = "one_shot"
     /\ status' = [status EXCEPT ![s] = "active"]
     /\ UNCHANGED <<up, mode, runs, contextPct, owner, messages, target, background>>
     /\ \/ WriteMeta(s) /\ Goto(r, "creating")
        \/ WriteMetaFails(s) /\ Return(r, "failed")

\* session.created has been published.  session.create returns; agent.run
\* returns the runs_id and leaves the task of send_message behind.
Created(r) ==
  /\ Holds(r, "creating")
  /\ IF background[r] THEN Goto(r, "tasked") ELSE Return(r, "ok")
  /\ UNCHANGED <<up, memory, owner, meta, messages, target, background, faulty>>

-----------------------------------------------------------------------------
(* send_message. *)

\* append_message, before session.message_received is published.
AppendMessage(s) == messages' = [messages EXCEPT ![s] = @ + 1]

SendMessage(r) ==
  LET s == target[r]
  IN /\ Starts(r) \/ Holds(r, "tasked")
     /\ UNCHANGED <<target, background>>
     /\ \/ Refuse(r, s)
        \/ /\ Refused(s) = {} /\ status[s] = "closed"
           /\ Return(r, "closed")
           /\ UNCHANGED <<up, memory, owner, meta, messages, faulty>>
        \/ /\ Refused(s) = {} /\ status[s] = "idle"
           /\ Acquire(s, r) /\ Goto(r, "resuming")
           /\ UNCHANGED <<up, memory, meta, messages, faulty>>
        \/ /\ Refused(s) = {} /\ status[s] = "active"
           /\ Acquire(s, r) /\ AppendMessage(s) /\ Goto(r, "received")
           /\ UNCHANGED <<up, memory, meta, faulty>>

\* session.resumed has been published.
Resumed(r) ==
  /\ Holds(r, "resuming")
  /\ AppendMessage(target[r]) /\ Goto(r, "received")
  /\ UNCHANGED <<up, memory, owner, meta, target, background, faulty>>

\* session.message_received has been published: the run is recorded and starts.
StartRun(r) ==
  LET s == target[r]
  IN /\ Holds(r, "received")
     /\ runs' = [runs EXCEPT ![s] = @ + 1]
     /\ UNCHANGED <<up, status, mode, contextPct, messages, target, background>>
     /\ \/ WriteMeta(s) /\ Goto(r, "running") /\ UNCHANGED owner
        \/ WriteMetaFails(s) /\ Return(r, "failed") /\ Release(s)

\* _on_bus_event: an llm.usage event of the run.  When its write raises, the
\* loop takes it for a failed LLM call and ends the run in the normal way.
Usage(r) ==
  LET s == target[r]
  IN /\ Holds(r, "running") /\ contextPct[s] < MaxUsages * runs[s]
     /\ contextPct' = [contextPct EXCEPT ![s] = @ + 1]
     /\ UNCHANGED <<up, status, mode, runs, messages, target, background>>
     /\ UNCHANGED <<pc, result, owner>>
     /\ WriteMeta(s) \/ WriteMetaFails(s)

StatusOverClosed(s) == "idle"  \* mutant: every session goes back to idle
StatusAfterRun(s) == IF mode[s] = "one_shot" THEN "closed" ELSE "idle"

\* run_and_capture has returned; session.closed or session.idle is published.
RunReturns(r) ==
  LET s == target[r]
  IN /\ Holds(r, "running")
     /\ status' = [status EXCEPT ![s] = StatusAfterRun(s)]
     /\ Goto(r, "announcing")
     /\ UNCHANGED <<up, mode, runs, contextPct, owner, meta, messages, target,
                    background, faulty>>

\* Everybody has been told: the status is saved and the lock released.
SendReturns(r) ==
  LET s == target[r]
  IN /\ Holds(r, "announcing")
     /\ Release(s)
     /\ UNCHANGED <<up, memory, messages, target, background>>
     /\ \/ WriteMeta(s) /\ Return(r, "ok")
        \/ WriteMetaFails(s) /\ Return(r, "failed")

-----------------------------------------------------------------------------
(* close and compact. *)

Close(r) ==
  LET s == target[r]
  IN /\ Starts(r)
     /\ UNCHANGED <<target, background>>
     /\ \/ Refuse(r, s)
        \/ /\ Refused(s) = {}
           /\ status' = [status EXCEPT ![s] = "closed"]
           /\ UNCHANGED <<up, mode, runs, contextPct, messages>>
           /\ \/ WriteMeta(s) /\ Acquire(s, r) /\ Goto(r, "closing")
              \/ WriteMetaFails(s) /\ Return(r, "failed") /\ UNCHANGED owner

CloseReturns(r) ==
  /\ Holds(r, "closing")
  /\ Release(target[r]) /\ Return(r, "ok")
  /\ UNCHANGED <<up, memory, meta, messages, target, background, faulty>>

\* The LLM is asked for a summary under the lock.  A closed session may be
\* compacted too.
Compact(r) ==
  LET s == target[r]
  IN /\ Starts(r)
     /\ UNCHANGED <<target, background>>
     /\ \/ Refuse(r, s)
        \/ /\ Refused(s) = {}
           /\ Acquire(s, r) /\ Goto(r, "compacting")
           /\ UNCHANGED <<up, memory, meta, messages, faulty>>

\* The thread is rewritten (module AgentLoop), or nothing is gained.
CompactReturns(r) ==
  /\ Holds(r, "compacting")
  /\ \E res \in {"ok", "failed"} : Return(r, res)
  /\ Release(target[r])
  /\ UNCHANGED <<up, memory, meta, messages, target, background, faulty>>

-----------------------------------------------------------------------------
(* Faults. *)

UnlockOnlyOnSuccess(s) == UNCHANGED owner  \* mutant: release() outside finally
ReleaseOnError(s) == Release(s)

\* A subscriber or a write of thread.jsonl raises, or the task is cancelled:
\* `async with` releases the lock.
HandlerRaises(r) ==
  /\ Faults /\ up /\ pc[r] \in InLock \cup {"creating"}
  /\ Return(r, "failed")
  /\ IF pc[r] \in InLock THEN ReleaseOnError(target[r]) ELSE UNCHANGED owner
  /\ faulty' = faulty \cup {target[r]}
  /\ UNCHANGED <<up, memory, meta, messages, target, background>>

\* The process dies: memory and tasks are gone, the files stay.
Crash ==
  /\ MayCrash /\ up
  /\ up' = FALSE
  /\ status' = [s \in Sessions |-> IF status[s] = "none" THEN "none" ELSE "gone"]
  /\ owner' = [s \in Sessions |-> Nobody]
  /\ pc' = [r \in Requests |-> IF pc[r] \in {"new", "done"} THEN pc[r] ELSE "lost"]
  /\ UNCHANGED <<mode, runs, contextPct, meta, messages, target, background, result,
                 faulty>>

\* CoreApp.run: a SessionManager with an empty _sessions; nothing is read back.
Restart ==
  /\ ~up
  /\ up' = TRUE
  /\ UNCHANGED <<memory, owner, meta, messages, pc, target, background, result,
                 faulty>>

-----------------------------------------------------------------------------

\* The steps that end the wait for a publish, a run or a summary.
Proceed(r) ==
  \/ Created(r) \/ Resumed(r) \/ StartRun(r) \/ RunReturns(r) \/ SendReturns(r)
  \/ CloseReturns(r) \/ CompactReturns(r)

Step(r) ==
  \/ Create(r) \/ SendMessage(r) \/ Close(r) \/ Compact(r)
  \/ Proceed(r) \/ Usage(r) \/ HandlerRaises(r)

Next == Crash \/ Restart \/ \E r \in Requests : Step(r)

Spec == Init /\ [][Next]_vars

\* Tasks are scheduled fairly, every client reads what it is sent or hangs up,
\* and a run ends (module AgentLoop).  Clients promise nothing.
FairSpec ==
  /\ Spec
  /\ \A r \in Requests :
       WF_vars(Proceed(r)) /\ WF_vars(Holds(r, "tasked") /\ SendMessage(r))

-----------------------------------------------------------------------------
(* Safety. *)

\* A request inside `async with lock` is the one that holds the lock, and no
\* lock is held by a request that has left: two requests never work on one
\* session, and no session stays busy without a reason.
LockDiscipline ==
  \A s \in Sessions, r \in Requests :
    owner[s] = r <=> (pc[r] \in InLock /\ target[r] = s)

\* A closed session stays closed, also when a run or another close was under
\* way, and takes no further message and no further run.
ClosedIsFinal ==
  [][\A s \in Sessions :
       status[s] = "closed" =>
         /\ status'[s] \in {"closed", "gone"}
         /\ runs'[s] = runs[s] /\ messages'[s] = messages[s]]_vars

\* A one-shot session runs once, however many messages are sent to it, unless
\* a handler raised and left it active.
OneShotRunsOnce ==
  \A s \in Sessions \ faulty : mode[s] = "one_shot" => runs[s] <= 1

\* While nobody works on a session that no fault has hit, meta.json says what
\* memory says and every message has its run.
MetaCurrent ==
  \A s \in Sessions \ faulty :
    Known(s) /\ ~Locked(s) =>
      /\ runs[s] = messages[s]
      /\ meta[s] = [kind |-> "saved", status |-> status[s], runs |-> runs[s],
                    contextPct |-> contextPct[s]]

\* Whatever fails and whenever the daemon dies, meta.json records no run whose
\* message is not in the thread file.
MessageBeforeRun == \A s \in Sessions : meta[s].runs <= messages[s]

(* Liveness. *)

\* Every lock is given back, also by handlers that raise.
LockReleased ==
  \A s \in Sessions : owner[s] # Nobody ~> owner[s] = Nobody

(* Refinement. *)

\* The life of a session as its clients see it.
LifeOf(st) ==
  IF st = "none" THEN "absent"
  ELSE IF st = "gone" THEN "lost"
  ELSE IF st = "closed" THEN "closed" ELSE "open"

Turns == INSTANCE SessionTurns
           WITH state <- [s \in Sessions |-> LifeOf(status[s])],
                worker <- owner, turns <- runs

\* The manager implements a serial sequence of turns per session.
SerialTurns == Turns!Spec
=============================================================================

------------------------------- MODULE Daemon -------------------------------
(***************************************************************************)
(* The life of the daemon (CoreApp.run, core/app.py) with the requests that*)
(* are under way when it is told to stop: configuration, start, service,   *)
(* shutdown in its order (cancel and await the runs of agent.run, stop the *)
(* MCP servers, close the socket server, stop the trace), and the end of   *)
(* asyncio.run, which cancels every other task.                            *)
(*                                                                         *)
(* A request is a run: its task publishes what begins it, calls the model  *)
(* (Provider, one call stands for all), and publishes what ends it, also   *)
(* when it has been cancelled.  agent.run is answered at once and its run  *)
(* is a task of CoreApp; session.send_message is the run, in the task the  *)
(* socket server made for the line.                                        *)
(*                                                                         *)
(* Every publish, request and response makes a record of the trace; the    *)
(* records of a call, of its response and of the end of a run stand for    *)
(* all of them.                                                            *)
(***************************************************************************)
EXTENDS Provider, Config

CONSTANT AgentRuns  \* the requests that are agent.run; the others are messages

ASSUME DaemonAssumption == AgentRuns \subseteq Chats

VARIABLES
  stage,    \* where CoreApp.run is
  servers,  \* the MCP servers are running
  work,     \* per request, the stage of its run
  awaited,  \* the runs that the shutdown cancels and gathers
  called,   \* history: the requests that have called the model
  ends,     \* history: per request, the record of the end of its run, or 0
  due       \* history: the records emitted when the trace was told to stop

history == <<called, ends, due>>
daemonVars == <<stage, servers, work, awaited, history>>
vars == <<traceVars, chatVars, daemonVars>>

Requests == Chats
Serving == {"serving", "gathering", "stopping"}  \* connections are open
Stages == {"loading", "starting", "closing", "joining", "joined", "exiting",
           "unwinding", "ended"} \cup Serving

DaemonInit ==
  /\ TraceInit /\ ChatInit
  /\ stage = "loading"
  /\ servers = FALSE
  /\ work = [r \in Requests |-> "none"]
  /\ awaited = {}
  /\ called = {} /\ ends = [r \in Requests |-> 0] /\ due = 0

At(s, t) == stage = s /\ stage' = t
Work(r, w) == work' = [work EXCEPT ![r] = w]

-----------------------------------------------------------------------------
(* Start.                                                                   *)

(* get_config, from whatever it finds, and the trace, which is on or off by *)
(* the configuration.                                                       *)
Load ==
  /\ stage = "loading"
  /\ \E in \in Inputs :
       \/ /\ GetConfig(in)
          /\ stage' = "starting"
          /\ \/ StartTrace /\ UNCHANGED <<queue, unfinished, file, emitted>>
             \/ UNCHANGED traceVars
       \/ ~GetConfig(in) /\ stage' = "ended" /\ UNCHANGED traceVars
  /\ UNCHANGED <<chatVars, servers, work, awaited, history>>

(* Without an API key the first provider ends the daemon (SystemExit).      *)
KeyMissing ==
  /\ ~servers /\ At("starting", "exiting")
  /\ UNCHANGED <<traceVars, chatVars, servers, work, awaited, history>>

(* McpServerManager.start_all: a server that does not start is skipped.     *)
StartServers ==
  /\ stage = "starting" /\ ~servers
  /\ servers' = TRUE
  /\ UNCHANGED <<traceVars, chatVars, stage, work, awaited, history>>

(* SocketServer.start: the port is bound, or another daemon has it and this *)
(* one ends as it is: no other line of the shutdown is reached.             *)
Listen ==
  /\ stage = "starting" /\ servers
  /\ stage' \in {"serving", "exiting"}
  /\ UNCHANGED <<traceVars, chatVars, servers, work, awaited, history>>

-----------------------------------------------------------------------------
(* Requests.                                                                *)

(* A line arrives.  agent.run creates its session first, and publishes it.  *)
Accept(r) ==
  /\ stage \in Serving /\ work[r] = "none"
  /\ Work(r, IF r \in AgentRuns THEN "creating" ELSE "opening")
  /\ UNCHANGED <<traceVars, chatVars, stage, servers, awaited, history>>

(* The session exists; the run becomes a task and the client has its answer.*)
Created(r) ==
  /\ work[r] = "creating" /\ ~stalled
  /\ Work(r, "opening")
  /\ UNCHANGED <<traceVars, chatVars, stage, servers, awaited, history>>

(* The publishes before the loop return, and the loop calls the model.      *)
Opened(r) ==
  /\ work[r] = "opening" /\ ~stalled
  /\ Work(r, "running")
  /\ Call(r)
  /\ called' = called \cup {r}
  /\ UNCHANGED <<stage, servers, awaited, ends, due>>

RunCalls(r) ==
  /\ work[r] = "running"
  /\ ChatStep(r)
  /\ UNCHANGED daemonVars

RunFails(r) ==
  /\ work[r] = "running"
  /\ PublishRaises(r)
  /\ UNCHANGED daemonVars

(* The loop ends with the call, however it ended.  RunFinishedEvent goes to *)
(* the trace at once and then to the clients.                               *)
Finish(r) ==
  /\ work[r] = "running" /\ pc[r] \in Final
  /\ Work(r, "finishing")
  /\ Forget(r)
  /\ Emit
  /\ ends' = [ends EXCEPT ![r] = emitted']
  /\ UNCHANGED <<stage, servers, awaited, called, due>>

Finished(r) ==
  /\ work[r] = "finishing" /\ ~stalled
  /\ Work(r, "over")
  /\ UNCHANGED <<traceVars, chatVars, stage, servers, awaited, history>>

(* A subscriber raises in a publish outside the loop: the request ends with *)
(* that exception.                                                          *)
Breaks(r) ==
  /\ work[r] \in {"creating", "opening", "finishing"}
  /\ Work(r, "over")
  /\ UNCHANGED <<traceVars, chatVars, stage, servers, awaited, history>>

(* The cancellation of the tasks in R, as it arrives: before the loop, or   *)
(* while the end is published, it ends the request; inside the loop it ends *)
(* the call of the model, and the end is published.                         *)
Alive(r) == work[r] \notin {"none", "over"}

Cancel(R) ==
  /\ work' = [r \in Requests |->
       IF r \in R /\ Alive(r) /\ work[r] # "running" THEN "over" ELSE work[r]]
  /\ pc' = [r \in Requests |->
       IF r \in R /\ work[r] = "running" /\ pc[r] \notin Final
       THEN "cancelled" ELSE pc[r]]
  /\ UNCHANGED <<attempt, deltas, said, parts, shown>>

-----------------------------------------------------------------------------
(* Shutdown.                                                                *)

(* The runs CoreApp knows at the signal: cancelled, and awaited.            *)
RunningRuns == {r \in AgentRuns : Alive(r) /\ work[r] # "creating"}

Shutdown ==
  /\ At("serving", "gathering")
  /\ awaited' = RunningRuns
  /\ Cancel(RunningRuns)
  /\ UNCHANGED <<traceVars, stalled, servers, history>>

(* What the shutdown would do without the gather.                           *)
GatheredNothing == TRUE

GatheredRuns == \A r \in awaited : ~Alive(r)

Gathered ==
  /\ GatheredRuns
  /\ At("gathering", "stopping")
  /\ UNCHANGED <<traceVars, chatVars, servers, work, awaited, history>>

(* McpServerManager.stop_all returns: each close is limited to 5 s.         *)
StopServers ==
  /\ At("stopping", "closing")
  /\ servers' = FALSE
  /\ UNCHANGED <<traceVars, chatVars, work, awaited, history>>

(* SocketServer.stop returns after 2 s at the latest, and the trace, if     *)
(* there is one, is told to stop.                                           *)
CloseServer ==
  /\ At("closing", IF drain = "off" THEN "exiting" ELSE "joining")
  /\ due' = emitted
  /\ UNCHANGED <<traceVars, chatVars, servers, work, awaited, called, ends>>

(* Queue.join sees nothing unfinished; stop is resumed in a later step.     *)
Join ==
  /\ Joined
  /\ At("joining", "joined")
  /\ UNCHANGED <<traceVars, chatVars, servers, work, awaited, history>>

StopTrace ==
  /\ At("joined", "exiting")
  /\ EndDrain
  /\ UNCHANGED <<chatVars, servers, work, awaited, history>>

(* The end of asyncio.run: all tasks that are left are cancelled, the task  *)
(* of the stalled connection among them, which may end its subscription     *)
(* before the others publish again.                                         *)
Exit ==
  /\ At("exiting", "unwinding")
  /\ Cancel(Requests)
  /\ stalled' \in {stalled, FALSE}
  /\ EndDrain
  /\ UNCHANGED <<servers, awaited, history>>

End ==
  /\ \A r \in Requests : ~Alive(r)
  /\ At("unwinding", "ended")
  /\ UNCHANGED <<traceVars, chatVars, servers, work, awaited, history>>

TraceRuns ==
  /\ stage # "ended" /\ DrainStep
  /\ UNCHANGED <<chatVars, daemonVars>>

ClientStalls ==
  /\ stage \in Serving /\ Stall
  /\ UNCHANGED daemonVars

-----------------------------------------------------------------------------
Moves(r) ==
  Created(r) \/ Opened(r) \/ RunCalls(r) \/ Finish(r) \/ Finished(r)

CoreStep ==
  \/ Load \/ KeyMissing \/ StartServers \/ Listen \/ Gathered \/ StopServers
  \/ CloseServer \/ Join \/ StopTrace \/ Exit \/ End

DaemonNext ==
  \/ CoreStep \/ Shutdown \/ TraceRuns \/ ClientStalls
  \/ \E r \in Requests : Accept(r) \/ Moves(r) \/ RunFails(r) \/ Breaks(r)

DaemonSpec == DaemonInit /\ [][DaemonNext]_vars

(* Tasks run, publishes return unless a client has stalled, and a stream    *)
(* ends, drops or fails (the client library has its timeouts).  No request, *)
(* no signal, no stalled client and no raising subscriber has to come.      *)
FairDaemonSpec ==
  /\ DaemonSpec
  /\ WF_vars(CoreStep) /\ WF_vars(TraceRuns)
  /\ \A r \in Requests : WF_vars(Moves(r))

-----------------------------------------------------------------------------
DaemonTypeOK ==
  /\ TraceTypeOK /\ ChatTypeOK
  /\ stage \in Stages
  /\ servers \in BOOLEAN
  /\ work \in [Requests ->
       {"none", "creating", "opening", "running", "finishing", "over"}]
  /\ awaited \subseteq AgentRuns
  /\ called \subseteq Requests /\ ends \in [Requests -> Nat] /\ due \in Nat

(* Stopping the daemon hides no run of agent.run from the trace: each that  *)
(* was under way at the signal and had called the model has the record of   *)
(* its end in the file, if the trace was stopped and its task did not die   *)
(* (app.py:312-324).  A run of session.send_message is not awaited, and what*)
(* it publishes at the end of asyncio.run may be lost.                      *)
AwaitedEndsTraced ==
  drain = "stopped" => \A r \in awaited \cap called : ends[r] \in 1 .. Len(file)

(* The file is a prefix of what was emitted, in order and without a hole: a *)
(* record that cannot be written is the last one, and so is one lost at the *)
(* end.                                                                     *)
TraceIsPrefix ==
  /\ Len(file) <= emitted
  /\ \A i \in 1 .. Len(file) : file[i] = i

(* A trace that was stopped, and whose task did not die, has every record   *)
(* emitted before it was told to stop: those of all awaited runs.           *)
StopLosesNothing ==
  stage \in {"exiting", "unwinding", "ended"} /\ drain = "stopped"
    => Len(file) >= due

(* Told to stop, the daemon ends, unless a client that has stopped reading  *)
(* suspends a run that is awaited, or the trace's task has died with        *)
(* records in the queue.                                                    *)
Hangs ==
  \/ stalled /\ \E r \in Requests : Alive(r)
  \/ drain = "dead" /\ queue # <<>>
DaemonEnds == (stage = "gathering") ~> (stage = "ended" \/ Hangs)
=============================================================================

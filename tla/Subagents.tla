------------------------------ MODULE Subagents ------------------------------
(***************************************************************************)
(* Agents that agents start: SpawnAgentTool of core/subagent/tool.py under *)
(* the retry loop of ToolCall, the background registry and the bridge from *)
(* a child's event bus to its parent's.                                    *)
(*                                                                         *)
(* Each execution of a spawn call starts one child.  A foreground child    *)
(* runs inside the call, under its time limit; a background child is a     *)
(* task of its own.  Children make tool calls too, which may start further *)
(* agents; those of the second level have no tool for it.  What a child's  *)
(* loop does besides its calls is module AgentLoop.                        *)
(***************************************************************************)
EXTENDS ToolCall

CONSTANTS
  Maker,           \* the call whose child makes this call, or Root
  ApprovalTimeout  \* permission.timeout_s > 0

Root == "root"

ASSUME SubagentsAssumption ==
  /\ Root \notin Calls
  /\ Maker \in [Calls -> Calls \cup {Root}]
  /\ \A c \in Calls : Maker[c] # c
  /\ ApprovalTimeout \in BOOLEAN

VARIABLES
  what,     \* the tool: spawn_agent in the foreground or background, or another
  by,       \* the child that makes the call
  kid,      \* the stage of each child
  outcome,  \* context.status of the child
  reports,  \* the subagent events about the child that reached the clients
  asked,    \* calls for which permission.requested was published
  shown     \* history: those whose request reached the clients

kids == <<what, by, kid, outcome, reports, asked, shown>>
subVars == <<vars, kids>>

\* The child of each execution of a call.
Kids == Calls \X (1 .. Retries + 1)
KidOf(c) == <<c, attempt[c]>>
CallOf(k) == k[1]
NoKid == <<>>

Active == {"announcing", "working", "reporting"}
Stages == Active \cup {"none", "over", "cancelled", "broken"}

SubTypeOK ==
  /\ TypeOK
  /\ what \in [Calls -> {"fg", "bg", "plain"}]
  /\ by \in [Calls -> Kids \cup {NoKid}]
  /\ kid \in [Kids -> Stages]
  /\ outcome \in [Kids -> {"running", "success", "failed"}]
  /\ reports \in [Kids -> Seq({"started", "success", "failed"})]
  /\ shown \subseteq asked /\ asked \subseteq Calls

-----------------------------------------------------------------------------
(* The bridge: a child's bus passes the two kinds of subagent events on to *)
(* its parent's and nothing else.                                          *)

Opaque(c, kind) == Maker[c] = Root  \* mutant: nothing passes

Reaches(c, kind) ==
  Maker[c] = Root \/ kind \in {"subagent.started", "subagent.finished"}

Report(k, kind, report) ==
  reports' = IF Reaches(CallOf(k), kind)
             THEN [reports EXCEPT ![k] = Append(@, report)] ELSE reports

-----------------------------------------------------------------------------
(* SpawnAgentTool.invoke and _run_background. *)

\* The child's loop, registry and bus are made and subagent.started published.
Spawn(c) ==
  /\ pc[c] = "running" /\ what[c] # "plain" /\ kid[KidOf(c)] = "none"
  /\ kid' = [kid EXCEPT ![KidOf(c)] = "announcing"]
  /\ Report(KidOf(c), "subagent.started", "started")
  /\ UNCHANGED <<vars, what, by, outcome, asked, shown>>

\* A subscriber raised: the call fails and is tried again.
SpawnRaises(c) ==
  /\ PublishRaises
  /\ pc[c] = "running" /\ kid[KidOf(c)] = "announcing"
  /\ kid' = [kid EXCEPT ![KidOf(c)] = "broken"]
  /\ ToolFails(c, "runtime_error")
  /\ UNCHANGED <<what, by, outcome, reports, asked, shown>>

\* The child starts.  A background child is registered, and the call is over.
Begin(c) ==
  /\ pc[c] = "running" /\ kid[KidOf(c)] = "announcing"
  /\ kid' = [kid EXCEPT ![KidOf(c)] = "working"]
  /\ IF what[c] = "bg" THEN ToolSucceeds(c) ELSE UNCHANGED vars
  /\ UNCHANGED <<what, by, outcome, reports, asked, shown>>

\* The child's loop ends; its calls are made one after the other, so none is
\* under way.  subagent.finished is published on the parent's bus.
KidEnds(k, status) ==
  /\ kid[k] = "working"
  /\ \A d \in Calls : by[d] = k => pc[d] \notin Awaits
  /\ kid' = [kid EXCEPT ![k] = "reporting"]
  /\ outcome' = [outcome EXCEPT ![k] = status]
  /\ Report(k, "subagent.finished", status)
  /\ UNCHANGED <<vars, what, by, asked, shown>>

FailsAnyway(k) == ToolFails(CallOf(k), "runtime_error")  \* mutant: `is_error` for every status

\* What invoke returns for a foreground child.
Verdict(k) ==
  IF outcome[k] = "success" THEN ToolSucceeds(CallOf(k))
  ELSE ToolFails(CallOf(k), "runtime_error")

KidReported(k) ==
  /\ kid[k] = "reporting"
  /\ kid' = [kid EXCEPT ![k] = "over"]
  /\ IF what[CallOf(k)] = "fg" THEN Verdict(k) ELSE UNCHANGED vars
  /\ UNCHANGED <<what, by, outcome, reports, asked, shown>>

\* A subscriber raised: the call fails, or the background task ends with it.
ReportRaises(k) ==
  /\ PublishRaises
  /\ kid[k] = "reporting"
  /\ kid' = [kid EXCEPT ![k] = "broken"]
  /\ IF what[CallOf(k)] = "fg" THEN ToolFails(CallOf(k), "runtime_error")
     ELSE UNCHANGED vars
  /\ UNCHANGED <<what, by, outcome, reports, asked, shown>>

-----------------------------------------------------------------------------
(* Cancellation unwinds through the calls of a foreground child. *)

\* A child that is awaited by the call, or not yet started for it.
Awaited(c) ==
  {k \in {KidOf(c)} : /\ pc[c] = "running" /\ what[c] # "plain"
                      /\ kid[k] \in Active
                      /\ what[c] = "fg" \/ kid[k] = "announcing"}

LeavesInner(c) == {}  \* mutant: only the call itself is cancelled

\* The call the awaited child has under way.
InnerCalls(c) == {d \in Calls : by[d] \in Awaited(c) /\ pc[d] \in Awaits}

\* Children of the second level make calls that start no agents: two levels.
Unwound(c) == {c} \cup InnerCalls(c) \cup UNION {InnerCalls(d) : d \in InnerCalls(c)}

\* c goes on at `at`, the calls inside leave with CancelledError.
Unwind(c, at) ==
  /\ pc' = [d \in Calls |-> IF d = c THEN at
                            ELSE IF d \in Unwound(c) THEN "raised" ELSE pc[d]]
  /\ LET cut == UNION {Awaited(d) : d \in Unwound(c)}
     IN kid' = [k \in Kids |-> IF k \in cut THEN "cancelled" ELSE kid[k]]

\* The time limit of invoke_tool.  It may fire while the end of a successful
\* child is being reported.
Limit(c) ==
  /\ pc[c] = "running" /\ Awaited(c) # {}
  /\ Unwind(c, "failing")
  /\ pending' = [pending EXCEPT ![c] = "timeout"]
  /\ Publish(c, "failed", "timeout")
  /\ works' = IF outcome[KidOf(c)] = "success" THEN [works EXCEPT ![c] = @ + 1] ELSE works
  /\ UNCHANGED <<attempt, result, decision, late, what, by, outcome, reports, asked, shown>>

\* The run of the root is cancelled.  Nothing cancels a background child.
CancelRun(c) ==
  /\ MayCancel /\ Maker[c] = Root /\ pc[c] \in Awaits
  /\ Unwind(c, "raised")
  /\ UNCHANGED <<attempt, pending, result, decision, events, works, late,
                 what, by, outcome, reports, asked, shown>>

-----------------------------------------------------------------------------
(* invoke_tool. *)

\* An agent that works and has no call under way makes one.
StartCall(c) ==
  /\ Start(c)
  /\ \/ Maker[c] = Root /\ UNCHANGED by
     \/ \E k \in Kids :
          /\ CallOf(k) = Maker[c] /\ kid[k] = "working"
          /\ \A d \in Calls : by[d] = k => pc[d] \notin Awaits
          /\ by' = [by EXCEPT ![c] = k]
  /\ UNCHANGED <<what, kid, outcome, reports, asked, shown>>

\* check_and_wait asks: permission.requested is published on the bus of the
\* agent that makes the call.
Ask(c) ==
  /\ pc[c] = "asking" /\ c \notin asked
  /\ {"allow", "deny"} \cap Decisions # {}
  /\ asked' = asked \cup {c}
  /\ shown' = IF Reaches(c, "permission.requested") THEN shown \cup {c} ELSE shown
  /\ UNCHANGED <<vars, what, by, kid, outcome, reports>>

AutoDecided(c) ==
  /\ c \notin asked
  /\ Decided(c) /\ decision'[c] \in {"auto_allow", "auto_deny"}
  /\ UNCHANGED kids

\* The user answers what a client shows.
UserDecides(c) ==
  /\ c \in shown
  /\ Decided(c) /\ decision'[c] \in {"allow", "deny"}
  /\ UNCHANGED kids

ApprovalOfShown(c) ==  \* mutant: only a request a client shows has a time limit
  /\ ApprovalTimeout /\ c \in shown
  /\ Decided(c) /\ decision'[c] = "deny"
  /\ UNCHANGED kids

ApprovalTimesOut(c) ==
  /\ ApprovalTimeout /\ c \in asked
  /\ Decided(c) /\ decision'[c] = "deny"
  /\ UNCHANGED kids

\* A tool that starts no agent.
PlainTool(c) ==
  /\ what[c] = "plain"
  /\ ToolSucceeds(c) \/ (\E class \in ToolErrors : ToolFails(c, class)) \/ TimesOut(c)
  /\ UNCHANGED kids

\* No subscriber of a child's bus raises.
Around(c) ==
  /\ \/ Validate(c) \/ Granted(c) \/ Denied(c) \/ Reported(c) \/ Again(c) \/ Return(c)
     \/ Maker[c] = Root /\ PublishFails(c)
  /\ UNCHANGED kids

-----------------------------------------------------------------------------
SubInit ==
  /\ Init
  /\ what \in [Calls -> {"fg", "bg", "plain"}]
  /\ \A c \in Calls : Maker[c] # Root => what[Maker[c]] # "plain"
  \* depth < 1: a child of the second level gets no spawn_agent.
  /\ \A c \in Calls : Maker[c] # Root /\ Maker[Maker[c]] # Root => what[c] = "plain"
  /\ by = [c \in Calls |-> NoKid]
  /\ kid = [k \in Kids |-> "none"]
  /\ outcome = [k \in Kids |-> "running"]
  /\ reports = [k \in Kids |-> <<>>]
  /\ asked = {} /\ shown = {}

\* Steps the scheduler, the model and the timers take.
Progress ==
  \/ \E c \in Calls :
       \/ Spawn(c) \/ SpawnRaises(c) \/ Begin(c) \/ Limit(c)
       \/ Ask(c) \/ AutoDecided(c) \/ ApprovalTimesOut(c) \/ PlainTool(c) \/ Around(c)
  \/ \E k \in Kids :
       \/ \E status \in {"success", "failed"} : KidEnds(k, status)
       \/ KidReported(k) \/ ReportRaises(k)

SubNext ==
  \/ Progress
  \/ \E c \in Calls : StartCall(c) \/ UserDecides(c) \/ CancelRun(c)

SubSpec == SubInit /\ [][SubNext]_subVars

\* A child's loop ends (RunEnds of AgentLoop), publishing returns and timers
\* fire; no call needs to be made, and no user needs to answer.
FairSubSpec == SubSpec /\ WF_subVars(Progress)

-----------------------------------------------------------------------------
(* Safety. *)

\* A foreground child works only as long as the call that waits for it, and
\* with it the agent that made the call: no time limit and no cancellation at
\* any level leaves one behind (tool.py:180-192, invocation.py:173-204).
ForegroundIsNested ==
  \A k \in Kids :
    LET c == CallOf(k)
    IN kid[k] \in Active /\ what[c] = "fg" =>
         /\ pc[c] = "running" /\ KidOf(c) = k
         /\ by[c] # NoKid => kid[by[c]] = "working"

\* One call has one child that works or has done its work, however often it is
\* tried; another one only after a finished event that could not be delivered,
\* which starts a background child twice (tool.py:160-200, invocation.py:180-226).
OneChildPerCall ==
  \A c \in Calls :
    LET useful == {n \in 1 .. Retries + 1 :
                     \/ kid[<<c, n>>] \in Active
                     \/ kid[<<c, n>>] = "over" /\ ~(what[c] = "fg" /\ outcome[<<c, n>>] = "failed")}
    IN Cardinality(useful) <= 1 + late[c]

\* The clients see every child of every level start and finish, once, with its
\* status.  One of which they never see the end was cut off by a time limit or a
\* cancellation, or not reported because a subscriber raised (tool.py:128-140, 180-192).
ClientsSeeChildren ==
  \A k \in Kids :
    \/ kid[k] = "none" /\ reports[k] = <<>>
    \/ kid[k] \in Active /\ outcome[k] = "running" /\ reports[k] = <<"started">>
    \/ kid[k] \notin {"none", "working"} /\ reports[k] = <<"started", outcome[k]>>
    \/ /\ kid[k] = "cancelled" /\ reports[k] = <<"started">>
       /\ pc[CallOf(k)] \in {"failing", "raised"} \/ result[CallOf(k)] = "timeout"
    \/ kid[k] = "broken" /\ PublishRaises /\ reports[k] = <<"started">>

\* Every child comes to its end, in the background as well, whatever its calls
\* wait for, if unanswered requests time out (invocation.py:173, manager.py:132).
ChildrenEnd ==
  \A k \in Kids : kid[k] \in Active ~> kid[k] \in {"over", "cancelled", "broken"}
=============================================================================

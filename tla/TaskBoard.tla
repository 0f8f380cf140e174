------------------------------ MODULE TaskBoard ------------------------------
(***************************************************************************)
(* The task board of an agent: TaskManager of core/task/manager.py, one     *)
(* JSON file per task in a directory of the run, driven by the tools        *)
(* task_create and task_update.  task_get and task_list only read.          *)
(*                                                                         *)
(* One agent at a time uses a board and no operation awaits, so operations  *)
(* are atomic; but each writes several files in place, and a write may fail *)
(* before or after it has truncated its file.  A tool that failed is called *)
(* again by invoke_tool (module ToolCall) or by the agent, which may name   *)
(* any ids.                                                                 *)
(***************************************************************************)
EXTENDS Naturals

CONSTANTS
  MaxTasks,   \* bound on the number of tasks
  IdSets,     \* the sets of ids that one call may name
  WritesFail  \* the disk may be full

Tasks == 1 .. MaxTasks
Ids == 0 .. MaxTasks  \* 0 stands for the ids that no task has
Statuses == {"pending", "in_progress", "completed"}

ASSUME BoardAssumption ==
  /\ MaxTasks \in Nat
  /\ IdSets \subseteq SUBSET Ids
  /\ WritesFail \in BOOLEAN

VARIABLES
  file,    \* task_<id>.json
  nextId,  \* _next_id
  loose    \* history: dependencies the agent asked for with a doubtful id

boardVars == <<file, nextId, loose>>

Task(status, blocked) == [form |-> "whole", status |-> status, blocked |-> blocked]
Absent == [form |-> "none", status |-> "pending", blocked |-> {}]
Torn == [form |-> "torn", status |-> "pending", blocked |-> {}]

BoardTypeOK ==
  /\ file \in [Tasks -> [form: {"none", "torn", "whole"}, status: Statuses,
                         blocked: SUBSET Ids]]
  /\ nextId \in 1 .. MaxTasks + 1
  /\ loose \subseteq Tasks \X Ids

\* A file that _load and list_all can read.
Whole(t) == t \in Tasks /\ file[t].form = "whole"
Completed(t) == Whole(t) /\ file[t].status = "completed"

Remember(new) ==
  loose' = {p \in loose \cup new : p[2] \in file'[p[1]].blocked}

-----------------------------------------------------------------------------
(* create. *)

AnyId(d) == TRUE  \* mutant: no test of the ids
Exists(d) == d \in Tasks /\ file[d].form # "none"

Create(deps) ==
  /\ nextId \in Tasks
  /\ \A d \in deps : Exists(d)
  /\ file' = [file EXCEPT ![nextId] = Task("pending", deps)]
  /\ nextId' = nextId + 1
  /\ Remember({nextId} \X {d \in deps : Completed(d) \/ (d \in Tasks /\ file[d].form = "torn")})

\* The id is not used up.
CreateFails(deps) ==
  /\ WritesFail /\ nextId \in Tasks
  /\ \A d \in deps : Exists(d)
  /\ \E left \in {file[nextId], Torn} : file' = [file EXCEPT ![nextId] = left]
  /\ Remember({})
  /\ UNCHANGED nextId

-----------------------------------------------------------------------------
(* update. *)

Dependents(t) == {u \in Tasks : t \in file[u].blocked}

\* The files after the dependency on t is taken from those of `us`.
Cleared(t, us) ==
  [u \in Tasks |-> IF u \in us THEN [form |-> file[u].form, status |-> file[u].status,
                                     blocked |-> file[u].blocked \ {t}]
                   ELSE file[u]]

ClearPending(t, status) ==  \* mutant: only tasks that have not begun are cleared
  IF status = "completed"
  THEN Cleared(t, {u \in Dependents(t) : file[u].status = "pending"}) ELSE file

\* _clear_dependency, called for a task that is set to completed.
ClearDependency(t, status) ==
  IF status = "completed" THEN Cleared(t, Dependents(t)) ELSE file

\* The copy loaded at the start, changed: what _clear_dependency did to the
\* file of t itself is lost.
Saved(t, status, add, remove) ==
  Task(IF status = "same" THEN file[t].status ELSE status,
       (file[t].blocked \cup add) \ remove)

Update(t, status, add, remove) ==
  /\ Whole(t)
  /\ file' = [ClearDependency(t, status) EXCEPT ![t] = Saved(t, status, add, remove)]
  /\ Remember({t} \X {d \in add \ file[t].blocked : ~Whole(d) \/ Completed(d) \/ d >= t})
  /\ UNCHANGED nextId

\* One of the writes fails: files are cleared in any order, those before it
\* stay cleared.
UpdateFails(t, status) ==
  /\ WritesFail /\ Whole(t)
  /\ \/ /\ status = "completed"
        /\ \E cut \in Dependents(t) :
             \E done \in SUBSET (Dependents(t) \ {cut}), left \in {file[cut], Torn} :
               file' = [Cleared(t, done) EXCEPT ![cut] = left]
     \/ \E left \in {ClearDependency(t, status)[t], Torn} :
          file' = [ClearDependency(t, status) EXCEPT ![t] = left]
  /\ Remember({})
  /\ UNCHANGED nextId

-----------------------------------------------------------------------------
BoardInit ==
  /\ file = [t \in Tasks |-> Absent]
  /\ nextId = 1
  /\ loose = {}

BoardNext ==
  \/ \E deps \in IdSets : Create(deps) \/ CreateFails(deps)
  \/ \E t \in Tasks, status \in Statuses \cup {"same"} :
       \/ \E add, remove \in IdSets : Update(t, status, add, remove)
       \/ UpdateFails(t, status)

BoardSpec == BoardInit /\ [][BoardNext]_boardVars

-----------------------------------------------------------------------------
(* Safety. *)

\* A task waits only for earlier tasks that are not completed: there are no
\* cycles and no waiting for what has happened, whatever is reopened, completed
\* again or half written.  Excepted are dependencies that the agent asked for
\* with an id that manager.py does not check: of a completed or an unreadable
\* task, or, in an update, of the task itself or a later one (manager.py:43-116).
Grounded ==
  \A u \in Tasks : \A d \in file[u].blocked :
    \/ <<u, d>> \in loose
    \/ d < u /\ ~Completed(d)

\* The tasks that remain to be done, as task_list shows them.
Open == {t \in Tasks : Whole(t) /\ ~Completed(t)}

\* An agent that follows the board always finds a task it may start, unless a
\* task waits for a doubtful id or for a task whose file a failed write took
\* away (manager.py:118-128).
NeverStuck ==
  /\ Open # {}
  /\ \A u \in Open : \A d \in file[u].blocked : <<u, d>> \notin loose /\ Whole(d)
  => \E t \in Open : file[t].blocked = {}
=============================================================================

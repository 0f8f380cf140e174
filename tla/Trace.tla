------------------------------- MODULE Trace -------------------------------
(***************************************************************************)
(* The trace of the daemon (core/trace/writer.py): emit puts a record into *)
(* an unbounded queue, a background task drains the queue into a file, and *)
(* stop waits until every record is marked done before it cancels the      *)
(* task.  A record is its number in the order of emission.                 *)
(*                                                                         *)
(* The task takes records without suspending as long as there are any      *)
(* (Queue.get returns at once), so it empties the queue in one step, or    *)
(* ends at the first record that cannot be written.                        *)
(***************************************************************************)
EXTENDS Naturals, Sequences

VARIABLES
  drain,       \* "off" (no tracing) | "starting" | "running" | "dead" | "stopped"
  queue,       \* the records in the queue
  unfinished,  \* what Queue.join waits for: records put and not marked done
  file,        \* the records in the file
  emitted      \* history: how many records have been emitted

traceVars == <<drain, queue, unfinished, file, emitted>>

TraceInit ==
  /\ drain = "off"
  /\ queue = <<>> /\ file = <<>>
  /\ unfinished = 0 /\ emitted = 0

(* TraceWriter.start: the task exists and has not run yet.                  *)
StartTrace == drain = "off" /\ drain' = "starting"

(* TraceWriter.emit, from wherever the daemon has a trace: it works before  *)
(* the task has opened the file, and after the task has ended.              *)
Emit ==
  IF drain = "off" THEN UNCHANGED traceVars
  ELSE /\ emitted' = emitted + 1
       /\ queue' = Append(queue, emitted + 1)
       /\ unfinished' = unfinished + 1
       /\ UNCHANGED <<drain, file>>

Draining == drain = "starting" \/ (drain = "running" /\ queue # <<>>)

(* The first n records leave the queue, marked done; k of them are in the   *)
(* file.                                                                    *)
Take(n, k) ==
  /\ file' = file \o SubSeq(queue, 1, k)
  /\ queue' = SubSeq(queue, n + 1, Len(queue))
  /\ unfinished' = unfinished - n
  /\ UNCHANGED emitted

DrainWrites == Draining /\ drain' = "running" /\ Take(Len(queue), Len(queue))

(* What a task does that marks a record done only after it is written.      *)
DrainHoldsOn ==
  /\ Draining /\ drain' = "dead"
  /\ \E n \in 1 .. Len(queue) :
       /\ file' = file \o SubSeq(queue, 1, n - 1)
       /\ queue' = SubSeq(queue, n + 1, Len(queue))
       /\ unfinished' = (unfinished - n) + 1
       /\ UNCHANGED emitted

(* A write raises: its record is marked done all the same (the finally),    *)
(* whether or not it reached the file, and the task ends.                   *)
DrainFails ==
  /\ Draining /\ drain' = "dead"
  /\ \E n \in 1 .. Len(queue), lost \in 0 .. 1 : Take(n, n - lost)

OpenFails == drain = "starting" /\ drain' = "dead" /\ Take(0, 0)

DrainStep == DrainWrites \/ DrainFails \/ OpenFails

(* What stop would do without the join.                                     *)
JoinedAtOnce == TRUE

(* Queue.join returns when nothing is unfinished, and does not look again.  *)
Joined == unfinished = 0

(* The end of stop, and the end of every task when the loop is closed: a    *)
(* running task is cancelled, a dead one raises its exception to the waiter.*)
EndDrain ==
  /\ drain' = IF drain \in {"starting", "running"} THEN "stopped" ELSE drain
  /\ UNCHANGED <<queue, unfinished, file, emitted>>

TraceTypeOK ==
  /\ drain \in {"off", "starting", "running", "dead", "stopped"}
  /\ queue \in Seq(Nat) /\ file \in Seq(Nat)
  /\ unfinished \in Nat /\ emitted \in Nat
=============================================================================

---------------------------- MODULE MCEventStream ----------------------------
(* Two publishers, of which m1 is a run, and two connections that send one *)
(* of two commands: follow everything after a replay of m1, or m1 alone. *)
EXTENDS EventStream, TLC

CONSTANTS m1, b1

MCCount == m1 :> 2 @@ b1 :> 1

MCCommands ==
  {[scope |-> "global", topics |-> {m1, b1}, replay |-> m1],
   [scope |-> m1, topics |-> {m1, b1}, replay |-> "none"]}
=============================================================================

------------------------------ MODULE MCDaemon ------------------------------
(* A run of agent.run and a message, each with one call of the model.  The  *)
(* stream of the first is followed delta by delta.                          *)
EXTENDS Daemon, TLC

CONSTANTS run, message

MCDeltas == (run :> 1) @@ (message :> 0)
=============================================================================

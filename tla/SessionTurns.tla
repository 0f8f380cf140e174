---------------------------- MODULE SessionTurns ----------------------------
(***************************************************************************)
(* What the session layer promises its clients.  A session is opened once  *)
(* and closed for good; while it is open, requests work on it one at a     *)
(* time, and only the request that holds it adds a turn.  When the daemon  *)
(* goes down every open session is lost to the process that follows.       *)
(***************************************************************************)
EXTENDS Naturals

CONSTANTS
  Sessions,
  Requests,
  Nobody     \* no request: the worker of a session that is not reserved

VARIABLES
  state,   \* the life of each session
  worker,  \* the request each session is reserved for
  turns    \* how many turns each session has taken

vars == <<state, worker, turns>>

TypeOK ==
  /\ state \in [Sessions -> {"absent", "open", "closed", "lost"}]
  /\ worker \in [Sessions -> Requests \cup {Nobody}]
  /\ turns \in [Sessions -> Nat]

Init ==
  /\ state = [s \in Sessions |-> "absent"]
  /\ worker = [s \in Sessions |-> Nobody]
  /\ turns = [s \in Sessions |-> 0]

Open(s) ==
  /\ state[s] = "absent"
  /\ state' = [state EXCEPT ![s] = "open"]
  /\ UNCHANGED <<worker, turns>>

Reserve(s, r) ==
  /\ state[s] \in {"open", "closed"} /\ worker[s] = Nobody
  /\ worker' = [worker EXCEPT ![s] = r]
  /\ UNCHANGED <<state, turns>>

Turn(s, r) ==
  /\ state[s] = "open" /\ worker[s] = r
  /\ turns' = [turns EXCEPT ![s] = @ + 1]
  /\ UNCHANGED <<state, worker>>

\* A turn that could not be recorded is given up at once.
FailedTurn(s, r) ==
  /\ state[s] = "open" /\ worker[s] = r
  /\ turns' = [turns EXCEPT ![s] = @ + 1]
  /\ worker' = [worker EXCEPT ![s] = Nobody]
  /\ UNCHANGED state

\* Closing reserves the session, unless it already is the closer's; it may be
\* released again at once.
Close(s, r) ==
  /\ state[s] \in {"open", "closed"} /\ worker[s] \in {Nobody, r}
  /\ state' = [state EXCEPT ![s] = "closed"]
  /\ \E w \in {Nobody, r} : worker' = [worker EXCEPT ![s] = w]
  /\ UNCHANGED turns

Release(s, r) ==
  /\ worker[s] = r
  /\ worker' = [worker EXCEPT ![s] = Nobody]
  /\ UNCHANGED <<state, turns>>

LoseAll ==
  /\ state' = [s \in Sessions |-> IF state[s] = "absent" THEN "absent" ELSE "lost"]
  /\ worker' = [s \in Sessions |-> Nobody]
  /\ UNCHANGED turns

Next ==
  \/ \E s \in Sessions : Open(s)
  \/ \E s \in Sessions, r \in Requests :
       Reserve(s, r) \/ Turn(s, r) \/ FailedTurn(s, r) \/ Close(s, r) \/ Release(s, r)
  \/ LoseAll

Spec == Init /\ [][Next]_vars
=============================================================================

----------------------------- MODULE Permission -----------------------------
(***************************************************************************)
(* The tool permission gate of the daemon: core/permissions/manager.py,    *)
(* policy.py and storage.py.                                               *)
(*                                                                         *)
(* Every tool call asks PermissionManager.check_and_wait before it runs.   *)
(* The call is settled at once by one of the static tiers (deny patterns,  *)
(* caches, allow patterns, tool default), or a future is registered under  *)
(* the tool_use_id, permission.requested is published, and the call        *)
(* suspends until a client answers, the approval timer fires or its task   *)
(* is cancelled.  The manager runs on one asyncio loop: an action is what  *)
(* the code does between two awaits.                                       *)
(*                                                                         *)
(* A tool_use_id is a member of Calls; the loop hands each id to the       *)
(* manager once.  A command is abstracted to the patterns it matches.      *)
(***************************************************************************)
EXTENDS Naturals, FiniteSets

CONSTANTS
  Calls,          \* tool_use_ids
  Sessions,       \* session ids
  Tools,          \* tool names
  Bash,           \* the tool whose command the patterns inspect
  DefaultOf,      \* the default of each tool's ToolPolicy, "none" if it has none
  HitSets,        \* bound: the sets of patterns a command may match
  TimeoutOn,      \* timeout_s > 0
  SaveMayFail,    \* write_text may raise OSError (full disk, no permission)
  ManualEdits,    \* the user may edit policy.toml by hand
  CancelSessions, \* somebody calls cancel_session (nothing in the daemon does)
  MayCrash        \* the daemon may be killed and started again

ASSUME PermissionAssumption ==
  /\ Bash \in Tools
  /\ Sessions # {}
  /\ DefaultOf \in [Tools -> {"allow", "deny", "ask", "none"}]
  /\ {} \in HitSets
  /\ HitSets \subseteq SUBSET {"deny_pattern", "outside_cwd", "allow_pattern"}
  /\ {TimeoutOn, SaveMayFail, ManualEdits, CancelSessions, MayCrash} \subseteq BOOLEAN

VARIABLES
  up,                \* the daemon process is running
  pc,                \* where each call stands
  req,               \* what each call asks for
  pending,           \* the keys of _pending
  future,            \* the future of each call
  interrupt,         \* what was thrown into the suspended task, if anything
  outcome,           \* the second component of check_and_wait's result
  sessionAlways,     \* _session_always
  persistentAlways,  \* _persistent_always
  policyFile,        \* the [always] section of policy.toml
  fileOk,            \* policy.toml parses as TOML
  connected,         \* the client that watches each session is connected
  granted,           \* history: the calls a client sent an allowing answer for
  alwaysGranted,     \* history: the tools somebody chose "always allow" for
  revoked,           \* history: the tools whose last lasting decision is a deny that was saved
  manual             \* history: the manual edit of a tool no later answer replaced

disk == <<policyFile, fileOk>>
vars == <<up, pc, req, pending, future, interrupt, outcome, sessionAlways,
          persistentAlways, policyFile, fileOk, connected, granted,
          alwaysGranted, revoked, manual>>

Always == {"always_allow", "always_deny"}
Allowing == {"allow_once", "always_allow"}
\* PermissionRespondCommand.decision is any string: "other" stands for the rest.
Decisions == {"allow_once", "always_allow", "deny_once", "always_deny", "other"}
Entry == {"none", "allow", "deny"}

Requests ==
  {r \in [session: Sessions, tool: Tools, hits: HitSets] :
     /\ r.tool # Bash => r.hits = {}
     /\ DefaultOf[r.tool] = "none" => r.hits \subseteq {"outside_cwd"}}

TypeOK ==
  /\ up \in BOOLEAN
  /\ pc \in [Calls -> {"idle", "emitting", "waiting", "done", "lost"}]
  /\ req \in [Calls -> Requests]
  /\ pending \subseteq Calls
  /\ future \in [Calls -> Decisions \cup {"none", "open", "cancelled"}]
  /\ interrupt \in [Calls -> {"none", "timer", "cancel"}]
  /\ outcome \in [Calls -> Decisions \cup {"none", "auto_allow", "auto_deny",
                                           "timeout", "raised"}]
  /\ sessionAlways \in [Sessions -> [Tools -> Entry]]
  /\ persistentAlways \in [Tools -> Entry]
  /\ policyFile \in [Tools -> Entry]
  /\ fileOk \in BOOLEAN
  /\ connected \in [Sessions -> BOOLEAN]
  /\ granted \subseteq Calls
  /\ alwaysGranted \subseteq Tools
  /\ revoked \subseteq Tools
  /\ manual \in [Tools -> Entry]

-----------------------------------------------------------------------------
(* The tiers. *)

\* What a cached entry makes of a call: f"auto_{cached}".
CachedOutcome(entry) == IF entry = "allow" THEN "auto_allow" ELSE "auto_deny"

\* Tiers 5 and 6: the allow patterns, then the tool's default.  A tool without
\* a policy and a default of ASK both leave the decision to the user.
PolicyTiers(r) ==
  IF "allow_pattern" \in r.hits THEN "auto_allow"
  ELSE IF DefaultOf[r.tool] = "allow" THEN "auto_allow"
  ELSE IF DefaultOf[r.tool] = "deny" THEN "auto_deny"
  ELSE "ask"

TiersCacheFirst(r) ==  \* mutant: the session cache overrides outside_cwd
  IF "deny_pattern" \in r.hits THEN "auto_deny"
  ELSE IF sessionAlways[r.session][r.tool] # "none"
    THEN CachedOutcome(sessionAlways[r.session][r.tool])
  ELSE IF "outside_cwd" \in r.hits THEN "ask"
  ELSE PolicyTiers(r)

\* The six tiers of check_and_wait, in the code's order.  An outside_cwd
\* command skips the caches, the allow patterns and the default.
Tiers(r) ==
  IF "deny_pattern" \in r.hits THEN "auto_deny"
  ELSE IF "outside_cwd" \in r.hits THEN "ask"
  ELSE IF sessionAlways[r.session][r.tool] # "none"
    THEN CachedOutcome(sessionAlways[r.session][r.tool])
  ELSE IF persistentAlways[r.tool] # "none"
    THEN CachedOutcome(persistentAlways[r.tool])
  ELSE PolicyTiers(r)

\* The pure function evaluate of policy.py: the same policy without the caches.
Evaluate(r) ==
  IF DefaultOf[r.tool] = "none" THEN "ask"
  ELSE IF "deny_pattern" \in r.hits THEN "deny"
  ELSE IF "outside_cwd" \in r.hits THEN "ask"
  ELSE IF "allow_pattern" \in r.hits THEN "allow"
  ELSE DefaultOf[r.tool]

-----------------------------------------------------------------------------
(* Where a response lands: the caches and policy.toml. *)

EntryOf(d) == IF d = "always_allow" THEN "allow" ELSE "deny"

\* A partly written file: some of the entries, or text that is no TOML.
TornSave(m) ==
  \/ \E kept \in SUBSET Tools :
       /\ policyFile' = [t \in Tools |-> IF t \in kept THEN m[t] ELSE "none"]
       /\ fileOk' = TRUE
  \/ /\ policyFile' = [t \in Tools |-> "none"]
     /\ fileOk' = FALSE

SaveStale(m) ==  \* mutant: saves the entries of before the answer
  policyFile' = persistentAlways /\ fileOk' = TRUE

WriteText(m) == policyFile' = m /\ fileOk' = TRUE

\* The last lasting decision about t, wherever it was taken.
Decided(t, entry) ==
  revoked' = IF entry = "deny" THEN revoked \cup {t} ELSE revoked \ {t}

\* save_policy_file replaces the whole file.  _apply_response swallows its
\* exceptions: the old file stays, or what was written before the error, and
\* the decision is not a lasting one.
SavePolicyFile(m, t, entry) ==
  \/ WriteText(m) /\ Decided(t, entry)
  \/ /\ SaveMayFail
     /\ (UNCHANGED disk \/ TornSave(m))
     /\ revoked' = revoked \ {t}

RememberForAll(t, entry) ==
  persistentAlways' = [persistentAlways EXCEPT ![t] = entry]

\* _apply_response: always_* goes to both caches and to the file.
ApplyResponse(u, d) ==
  LET s == req[u].session
      t == req[u].tool
  IN \/ /\ d \in Always
        /\ sessionAlways' = [sessionAlways EXCEPT ![s][t] = EntryOf(d)]
        /\ RememberForAll(t, EntryOf(d))
        /\ SavePolicyFile(persistentAlways', t, EntryOf(d))
        /\ manual' = [manual EXCEPT ![t] = "none"]
     \/ /\ d \notin Always
        /\ UNCHANGED <<sessionAlways, persistentAlways, policyFile, fileOk,
                       revoked, manual>>

Settle(u, o) ==
  /\ pc' = [pc EXCEPT ![u] = "done"]
  /\ outcome' = [outcome EXCEPT ![u] = o]

-----------------------------------------------------------------------------
(* check_and_wait, from the call to the result. *)

Register(u) == pending \cup {u}

KeepEntry(u) == pending  \* mutant: the timeout leaves the entry behind
PopEntry(u) == pending \ {u}

\* timeout_s > 0
TimeoutInverted == ~TimeoutOn  \* mutant
HasTimeout == TimeoutOn

\* Lines 71-135: the tiers settle the call, or it registers its future and
\* suspends in the event emitter (which waits for every subscriber to drain).
CheckAndWait(u, r) ==
  /\ up /\ pc[u] = "idle"
  /\ req' = [req EXCEPT ![u] = r]
  /\ \/ /\ Tiers(r) # "ask"
        /\ Settle(u, Tiers(r))
        /\ UNCHANGED <<pending, future>>
     \/ /\ Tiers(r) = "ask"
        /\ pc' = [pc EXCEPT ![u] = "emitting"]
        /\ pending' = Register(u)
        /\ future' = [future EXCEPT ![u] = "open"]
        /\ UNCHANGED outcome
  /\ UNCHANGED <<up, interrupt, sessionAlways, persistentAlways, policyFile, fileOk,
                 connected, granted, alwaysGranted, revoked, manual>>

\* The emitter returned.  An answer that came meanwhile is applied at once,
\* otherwise the call suspends on the future.
Emitted(u) ==
  /\ up /\ pc[u] = "emitting" /\ interrupt[u] = "none"
  /\ \/ /\ future[u] = "open"
        /\ pc' = [pc EXCEPT ![u] = "waiting"]
        /\ UNCHANGED <<outcome, sessionAlways, persistentAlways, policyFile,
                       fileOk, revoked, manual>>
     \/ /\ future[u] # "open"
        /\ ApplyResponse(u, future[u])
        /\ Settle(u, future[u])
  /\ UNCHANGED <<up, req, pending, future, interrupt, connected, granted,
                 alwaysGranted>>

\* The approval timer of wait_for.  The event loop may run it between the
\* answer and the task's wake-up: the task is then cancelled all the same.
TimerFires(u) ==
  /\ up /\ HasTimeout /\ pc[u] = "waiting" /\ interrupt[u] = "none"
  /\ interrupt' = [interrupt EXCEPT ![u] = "timer"]
  /\ future' = [future EXCEPT ![u] = IF @ = "open" THEN "cancelled" ELSE @]
  /\ UNCHANGED <<up, pc, req, pending, outcome, sessionAlways, persistentAlways,
                 policyFile, fileOk, connected, granted, alwaysGranted, revoked,
                 manual>>

\* The task is cancelled from outside (the 120 s limit of an enclosing
\* spawn_agent call, shutdown), or the emitter raised.
CancelTask(u) ==
  /\ up /\ pc[u] \in {"emitting", "waiting"} /\ interrupt[u] # "cancel"
  /\ interrupt' = [interrupt EXCEPT ![u] = "cancel"]
  /\ future' = [future EXCEPT ![u] =
                  IF @ = "open" /\ pc[u] = "waiting" THEN "cancelled" ELSE @]
  /\ UNCHANGED <<up, pc, req, pending, outcome, sessionAlways, persistentAlways,
                 policyFile, fileOk, connected, granted, alwaysGranted, revoked,
                 manual>>

TimeoutRemembered(u) ==  \* mutant: a timeout counts as "always deny"
  /\ pending' = PopEntry(u)
  /\ Settle(u, "timeout")
  /\ RememberForAll(req[u].tool, "deny")
  /\ UNCHANGED <<sessionAlways, policyFile, fileOk, revoked, manual>>

\* The TimeoutError of wait_for (lines 142-147).
TimedOut(u) ==
  /\ pending' = PopEntry(u)
  /\ Settle(u, "timeout")
  /\ UNCHANGED <<sessionAlways, persistentAlways, policyFile, fileOk, revoked, manual>>

\* The suspended task runs again: with the answer (lines 148-149), timed
\* out, or with a CancelledError, which no handler catches: the entry of
\* _pending stays behind.
Resume(u) ==
  /\ up
  /\ \/ /\ pc[u] = "waiting" /\ interrupt[u] = "none"
        /\ future[u] \in Decisions
        /\ ApplyResponse(u, future[u])
        /\ Settle(u, future[u])
        /\ UNCHANGED pending
     \/ /\ pc[u] = "waiting" /\ interrupt[u] = "timer"
        /\ TimedOut(u)
     \/ /\ pc[u] \in {"emitting", "waiting"} /\ interrupt[u] = "cancel"
        /\ Settle(u, "raised")
        /\ UNCHANGED <<pending, sessionAlways, persistentAlways, policyFile,
                       fileOk, revoked, manual>>
  /\ UNCHANGED <<up, req, future, interrupt, connected, granted, alwaysGranted>>

-----------------------------------------------------------------------------
(* Clients. *)

\* permission.respond, for a call that waits, or too late, or a second time:
\* the reply is always ok.
Respond(u, d) ==
  /\ up /\ pc[u] # "idle" /\ connected[req[u].session]
  /\ pending' = pending \ {u}
  /\ future' = [future EXCEPT ![u] =
                  IF u \in pending /\ @ = "open" THEN d ELSE @]
  /\ granted' = IF d \in Allowing THEN granted \cup {u} ELSE granted
  /\ alwaysGranted' = IF d = "always_allow"
                      THEN alwaysGranted \cup {req[u].tool} ELSE alwaysGranted
  /\ UNCHANGED <<up, pc, req, interrupt, outcome, sessionAlways, persistentAlways,
                 policyFile, fileOk, connected, revoked, manual>>

\* The client that watches session s goes away.  The server drops its
\* subscriptions; nothing tells the permission manager.
Disconnect(s) ==
  /\ connected[s]
  /\ connected' = [connected EXCEPT ![s] = FALSE]
  /\ UNCHANGED <<up, pc, req, pending, future, interrupt, outcome, sessionAlways,
                 persistentAlways, policyFile, fileOk, granted, alwaysGranted,
                 revoked, manual>>

\* cancel_session: denies every pending request of the session.
CancelSession(s) ==
  LET theirs == {u \in pending : req[u].session = s}
  IN /\ up /\ CancelSessions /\ theirs # {}
     /\ pending' = pending \ theirs
     /\ future' = [u \in Calls |-> IF u \in theirs /\ future[u] = "open"
                                   THEN "deny_once" ELSE future[u]]
     /\ UNCHANGED <<up, pc, req, interrupt, outcome, sessionAlways,
                    persistentAlways, policyFile, fileOk, connected, granted,
                    alwaysGranted, revoked, manual>>

\* The user edits policy.toml by hand, which also repairs a broken file.
EditPolicyFile(t, entry) ==
  /\ ManualEdits
  /\ policyFile' = [policyFile EXCEPT ![t] = entry]
  /\ fileOk' = TRUE
  /\ manual' = [manual EXCEPT ![t] = entry]
  /\ Decided(t, entry)
  /\ alwaysGranted' = IF entry = "allow"
                      THEN alwaysGranted \cup {t} ELSE alwaysGranted
  /\ UNCHANGED <<up, pc, req, pending, future, interrupt, outcome, sessionAlways,
                 persistentAlways, connected, granted>>

-----------------------------------------------------------------------------
(* The daemon stops, at any point, and starts again. *)

Stop ==
  /\ up /\ MayCrash
  /\ up' = FALSE
  /\ pc' = [u \in Calls |-> IF pc[u] \in {"emitting", "waiting"}
                            THEN "lost" ELSE pc[u]]
  /\ pending' = {}
  /\ sessionAlways' = [s \in Sessions |-> [t \in Tools |-> "none"]]
  /\ persistentAlways' = [t \in Tools |-> "none"]
  /\ UNCHANGED <<req, future, interrupt, outcome, connected, granted, alwaysGranted>>

Crash == Stop /\ UNCHANGED <<policyFile, fileOk, revoked, manual>>

\* The daemon dies inside save_policy_file of call u.
CrashInSave(u) ==
  /\ pc[u] = "waiting" /\ interrupt[u] = "none" /\ future[u] \in Always
  /\ LET t == req[u].tool
     IN /\ TornSave([persistentAlways EXCEPT ![t] = EntryOf(future[u])])
        /\ Decided(t, EntryOf(future[u]))
        /\ manual' = [manual EXCEPT ![t] = "none"]
  /\ Stop

\* __init__ loads policy.toml without a handler: a file that does not parse
\* keeps the daemon from starting.
Start ==
  /\ ~up /\ fileOk
  /\ up' = TRUE
  /\ persistentAlways' = policyFile
  /\ UNCHANGED <<pc, req, pending, future, interrupt, outcome, sessionAlways,
                 policyFile, fileOk, connected, granted, alwaysGranted, revoked,
                 manual>>

-----------------------------------------------------------------------------
Init ==
  /\ up = TRUE
  /\ pc = [u \in Calls |-> "idle"]
  /\ req = [u \in Calls |-> CHOOSE r \in Requests : TRUE]
  /\ pending = {}
  /\ future = [u \in Calls |-> "none"]
  /\ interrupt = [u \in Calls |-> "none"]
  /\ outcome = [u \in Calls |-> "none"]
  /\ sessionAlways = [s \in Sessions |-> [t \in Tools |-> "none"]]
  /\ persistentAlways = [t \in Tools |-> "none"]
  /\ policyFile = persistentAlways
  /\ fileOk = TRUE
  /\ connected = [s \in Sessions |-> TRUE]
  /\ granted = {} /\ alwaysGranted = {} /\ revoked = {}
  /\ manual = [t \in Tools |-> "none"]

CallStep(u) ==
  \/ \E r \in Requests : CheckAndWait(u, r)
  \/ Emitted(u)
  \/ TimerFires(u)
  \/ CancelTask(u)
  \/ Resume(u)

ClientStep ==
  \/ \E u \in Calls, d \in Decisions : Respond(u, d)
  \/ \E s \in Sessions : Disconnect(s)
  \/ \E s \in Sessions : CancelSession(s)
  \/ \E t \in Tools, entry \in {"allow", "deny"} : EditPolicyFile(t, entry)

DaemonStep ==
  \/ Crash
  \/ \E u \in Calls : CrashInSave(u)
  \/ Start

Next == (\E u \in Calls : CallStep(u)) \/ ClientStep \/ DaemonStep

Spec == Init /\ [][Next]_vars

\* The event loop runs every task that is ready and every timer that is due.
\* Nothing makes the emitter return: a client that stops reading blocks it.
Fairness == \A u \in Calls : WF_vars(Resume(u)) /\ WF_vars(TimerFires(u))

FairSpec == Spec /\ Fairness

-----------------------------------------------------------------------------
(* Safety. *)

Allowed(u) == outcome[u] \in Allowing \cup {"auto_allow"}

\* No call runs without consent: the user allowed this very call, or, for a
\* command that stays inside the working directory, once chose "always" for
\* its tool, or the policy allows it.  No cache, answer or race lets a command
\* through that a deny pattern matches (manager.py:73-115, 160-207).
Consented(u) ==
  /\ "deny_pattern" \notin req[u].hits
  /\ \/ u \in granted
     \/ /\ "outside_cwd" \notin req[u].hits
        /\ \/ req[u].tool \in alwaysGranted
           \/ PolicyTiers(req[u]) = "auto_allow"

NoGrantWithoutConsent == \A u \in Calls : Allowed(u) => Consented(u)

\* A call that still waits for its answer can be reached by one, even an answer
\* that overtakes the return of the emitter (manager.py:116-135, 151-158).
WaitersReachable ==
  \A u \in Calls :
    pc[u] \in {"emitting", "waiting"} /\ future[u] = "open" => u \in pending

\* _pending holds no entry of a settled call, except of one that left
\* check_and_wait by an exception (manager.py:116-147).
PendingOwned ==
  \A u \in pending : pc[u] \in {"emitting", "waiting"} \/ outcome[u] = "raised"

\* _pending is exact in both directions.
PendingExact == WaitersReachable /\ PendingOwned

\* "Always deny" holds until the user says otherwise: no later race, crash,
\* torn save or restart brings back an older "always allow", provided it was
\* saved and the user left the file alone (manager.py:160-207, storage.py:8-35).
DenySurvives ==
  \A t \in revoked :
    manual[t] = "none" => policyFile[t] # "allow" /\ persistentAlways[t] # "allow"

\* The caches change only when a call returns the always_* answer it got: an
\* answer that lost against the timer or a cancellation leaves no trace
\* (manager.py:137-149).
CachesFollowReturns ==
  [][up /\ up' /\ persistentAlways' # persistentAlways =>
       \E u \in Calls :
         /\ outcome[u] = "none" /\ outcome'[u] \in Always
         /\ interrupt[u] = "none"
         /\ persistentAlways' =
              [persistentAlways EXCEPT ![req[u].tool] = EntryOf(outcome'[u])]]_vars

\* policy.evaluate and check_and_wait order the tiers alike: without cache
\* entries they agree on every call, whatever it matches (policy.py:76-101,
\* manager.py:71-115).
StaticTiersAgree ==
  \A r \in Requests :
    sessionAlways[r.session][r.tool] = "none" /\ persistentAlways[r.tool] = "none" =>
      /\ Tiers(r) = "auto_allow" <=> Evaluate(r) = "allow"
      /\ Tiers(r) = "auto_deny" <=> Evaluate(r) = "deny"
      /\ Tiers(r) = "ask" <=> Evaluate(r) = "ask"

-----------------------------------------------------------------------------
(* Liveness. *)

\* With an approval timeout every call that suspends on its future is settled,
\* whether or not anybody answers (manager.py:137-147).
WaitersSettle ==
  \A u \in Calls : pc[u] = "waiting" ~> pc[u] # "waiting"
=============================================================================

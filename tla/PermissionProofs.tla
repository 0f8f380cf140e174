-------------------------- MODULE PermissionProofs --------------------------
(***************************************************************************)
(* Proofs about Permission.  The invariant is proved action by action: one *)
(* lemma says which variables an action may disturb, and the properties    *)
(* follow from the parts of IInv.                                          *)
(***************************************************************************)
EXTENDS Permission, TLAPS

\* A call that has not started has no future, no entry and no outcome; a call
\* in flight has no outcome yet; a call inside the emitter is never cancelled
\* through its future; a command that a deny pattern matches is never asked for.
Lifecycle ==
  /\ \A u \in Calls : pc[u] = "idle" => future[u] = "none"
  /\ \A u \in Calls : pc[u] # "done" => outcome[u] = "none"
  /\ \A u \in Calls : pc[u] = "emitting" => future[u] \in Decisions \cup {"open"}
  /\ \A u \in pending : future[u] \in {"open", "cancelled"}
  /\ \A u \in Calls :
       pc[u] \in {"emitting", "waiting"} => "deny_pattern" \notin req[u].hits

\* Every allowing answer and every entry that allows goes back to the user.
Consent ==
  /\ \A u \in Calls : future[u] \in Allowing => u \in granted
  /\ \A u \in Calls : future[u] = "always_allow" => req[u].tool \in alwaysGranted
  /\ \A s \in Sessions, t \in Tools :
       sessionAlways[s][t] = "allow" => t \in alwaysGranted
  /\ \A t \in Tools : persistentAlways[t] = "allow" => t \in alwaysGranted
  /\ \A t \in Tools : policyFile[t] = "allow" => t \in alwaysGranted

IInv ==
  /\ TypeOK
  /\ Lifecycle
  /\ WaitersReachable
  /\ PendingOwned
  /\ Consent
  /\ NoGrantWithoutConsent

-----------------------------------------------------------------------------
LEMMA RequestExists == (CHOOSE r \in Requests : TRUE) \in Requests
<1>1. PICK s \in Sessions : TRUE
  BY PermissionAssumption
<1>2. [session |-> s, tool |-> Bash, hits |-> {}] \in Requests
  BY <1>1, PermissionAssumption DEF Requests
<1> QED
  BY <1>2

LEMMA InitInv == Init => IInv
<1> SUFFICES ASSUME Init PROVE IInv
  OBVIOUS
<1>1. TypeOK
  BY RequestExists DEF Init, TypeOK, Entry
<1>2. Lifecycle
  BY DEF Init, Lifecycle
<1>3. WaitersReachable /\ PendingOwned
  BY DEF Init, WaitersReachable, PendingOwned
<1>4. Consent
  BY DEF Init, Consent, Allowing
<1>5. NoGrantWithoutConsent
  BY DEF Init, NoGrantWithoutConsent, Allowed, Allowing
<1> QED
  BY <1>1, <1>2, <1>3, <1>4, <1>5 DEF IInv

\* Whatever the save makes of the file, its entries come from the map.
LEMMA TornSaveEntries ==
  ASSUME NEW m \in [Tools -> Entry], TornSave(m)
  PROVE  /\ policyFile' \in [Tools -> Entry]
         /\ fileOk' \in BOOLEAN
         /\ \A t \in Tools : policyFile'[t] = "allow" => m[t] = "allow"
BY DEF TornSave, Entry

LEMMA SaveEntries ==
  ASSUME TypeOK, NEW m \in [Tools -> Entry], NEW t0 \in Tools, NEW entry,
         SavePolicyFile(m, t0, entry)
  PROVE  /\ policyFile' \in [Tools -> Entry]
         /\ fileOk' \in BOOLEAN
         /\ \A t \in Tools :
              policyFile'[t] = "allow" => m[t] = "allow" \/ policyFile[t] = "allow"
<1>1. CASE policyFile' = m /\ fileOk' = TRUE
  BY <1>1
<1>2. CASE UNCHANGED disk
  BY <1>2 DEF disk, TypeOK
<1>3. CASE TornSave(m)
  BY <1>3, TornSaveEntries
<1> QED
  BY <1>1, <1>2, <1>3 DEF SavePolicyFile, WriteText

\* A response touches the caches, the file and the histories of lasting
\* decisions, and what it adds is the answer it applies.
LEMMA ApplyEntries ==
  ASSUME TypeOK, NEW u \in Calls, NEW d \in Decisions, ApplyResponse(u, d)
  PROVE  /\ sessionAlways' \in [Sessions -> [Tools -> Entry]]
         /\ persistentAlways' \in [Tools -> Entry]
         /\ policyFile' \in [Tools -> Entry]
         /\ fileOk' \in BOOLEAN
         /\ revoked' \subseteq Tools
         /\ manual' \in [Tools -> Entry]
         /\ \A s \in Sessions, t \in Tools : sessionAlways'[s][t] = "allow" =>
              sessionAlways[s][t] = "allow" \/ (d = "always_allow" /\ t = req[u].tool)
         /\ \A t \in Tools : persistentAlways'[t] = "allow" =>
              persistentAlways[t] = "allow" \/ (d = "always_allow" /\ t = req[u].tool)
         /\ \A t \in Tools : policyFile'[t] = "allow" =>
              \/ policyFile[t] = "allow" \/ persistentAlways[t] = "allow"
              \/ (d = "always_allow" /\ t = req[u].tool)
<1> DEFINE s0 == req[u].session
           t0 == req[u].tool
<1>0. s0 \in Sessions /\ t0 \in Tools /\ EntryOf(d) \in Entry
  BY DEF TypeOK, Requests, EntryOf, Entry
<1>1. CASE d \notin Always
  BY <1>1 DEF ApplyResponse, TypeOK
<1>2. CASE d \in Always
  <2>1. /\ sessionAlways' = [sessionAlways EXCEPT ![s0][t0] = EntryOf(d)]
        /\ persistentAlways' = [persistentAlways EXCEPT ![t0] = EntryOf(d)]
        /\ SavePolicyFile(persistentAlways', t0, EntryOf(d))
        /\ manual' = [manual EXCEPT ![t0] = "none"]
    BY <1>2 DEF ApplyResponse, RememberForAll
  <2>2. EntryOf(d) = "allow" => d = "always_allow"
    BY DEF EntryOf
  <2>3. /\ sessionAlways' \in [Sessions -> [Tools -> Entry]]
        /\ \A s \in Sessions, t \in Tools : sessionAlways'[s][t] = "allow" =>
             sessionAlways[s][t] = "allow" \/ (d = "always_allow" /\ t = t0)
    BY <1>0, <2>1, <2>2 DEF TypeOK
  <2>4. /\ persistentAlways' \in [Tools -> Entry]
        /\ \A t \in Tools : persistentAlways'[t] = "allow" =>
             persistentAlways[t] = "allow" \/ (d = "always_allow" /\ t = t0)
    BY <1>0, <2>1, <2>2 DEF TypeOK
  <2>5. /\ policyFile' \in [Tools -> Entry]
        /\ fileOk' \in BOOLEAN
        /\ \A t \in Tools : policyFile'[t] = "allow" =>
             persistentAlways'[t] = "allow" \/ policyFile[t] = "allow"
    BY <1>0, <2>1, <2>4, SaveEntries
  <2>6. revoked' \subseteq Tools /\ manual' \in [Tools -> Entry]
    BY <1>0, <2>1 DEF SavePolicyFile, Decided, TypeOK, Entry
  <2> QED
    BY <2>3, <2>4, <2>5, <2>6
<1> QED
  BY <1>1, <1>2

-----------------------------------------------------------------------------
(* One lemma per action: the action keeps the invariant. *)

\* A tier lets a call through only with a lasting permission or by the policy.
LEMMA TiersConsent ==
  ASSUME TypeOK, Consent, NEW r \in Requests, Tiers(r) = "auto_allow"
  PROVE  /\ "deny_pattern" \notin r.hits
         /\ "outside_cwd" \notin r.hits
         /\ r.tool \in alwaysGranted \/ PolicyTiers(r) = "auto_allow"
<1>1. r.session \in Sessions /\ r.tool \in Tools
  BY DEF Requests
<1> QED
  BY <1>1 DEF Tiers, CachedOutcome, Consent, TypeOK, Entry

LEMMA TiersType ==
  ASSUME NEW r \in Requests
  PROVE  /\ Tiers(r) \in {"ask", "auto_allow", "auto_deny"}
         /\ Tiers(r) = "ask" => "deny_pattern" \notin r.hits
BY DEF Tiers, CachedOutcome, PolicyTiers

LEMMA CheckAndWaitInv ==
  ASSUME IInv, NEW u \in Calls, NEW r \in Requests, CheckAndWait(u, r)
  PROVE  IInv'
<1> USE DEF IInv
<1>0. TypeOK
  OBVIOUS
<1>1. TypeOK'
  <2>1. /\ req' = [req EXCEPT ![u] = r]
        /\ UNCHANGED <<up, interrupt, sessionAlways, persistentAlways, policyFile,
                       fileOk, connected, granted, alwaysGranted, revoked, manual>>
    BY DEF CheckAndWait
  <2>2. req' \in [Calls -> Requests]
    BY <1>0, <2>1 DEF TypeOK
  <2>3. CASE Tiers(r) # "ask"
    <3>1. /\ pc' = [pc EXCEPT ![u] = "done"]
          /\ outcome' = [outcome EXCEPT ![u] = Tiers(r)]
          /\ UNCHANGED <<pending, future>>
          /\ Tiers(r) \in {"auto_allow", "auto_deny"}
      BY <2>3, TiersType DEF CheckAndWait, Settle
    <3> QED
      BY <1>0, <2>1, <2>2, <3>1 DEF TypeOK
  <2>4. CASE Tiers(r) = "ask"
    <3>1. /\ pc' = [pc EXCEPT ![u] = "emitting"]
          /\ pending' = pending \cup {u}
          /\ future' = [future EXCEPT ![u] = "open"]
          /\ outcome' = outcome
      BY <2>4 DEF CheckAndWait, Register
    <3> QED
      BY <1>0, <2>1, <2>2, <3>1 DEF TypeOK
  <2> QED
    BY <2>3, <2>4
<1>2. Lifecycle'
  <2> USE DEF TypeOK, Lifecycle
  <2>1. CASE Tiers(r) # "ask"
    BY <2>1, TiersType DEF CheckAndWait, Register, Settle
  <2>2. CASE Tiers(r) = "ask"
    <3>1. /\ "deny_pattern" \notin r.hits
          /\ pc[u] = "idle" /\ outcome' = outcome
          /\ pc' = [pc EXCEPT ![u] = "emitting"]
          /\ req' = [req EXCEPT ![u] = r]
          /\ pending' = pending \cup {u}
          /\ future' = [future EXCEPT ![u] = "open"]
      BY <2>2, TiersType DEF CheckAndWait, Register, Settle
    <3>2. /\ \A v \in Calls : pc'[v] = "idle" => future'[v] = "none"
          /\ \A v \in Calls : pc'[v] # "done" => outcome'[v] = "none"
          /\ \A v \in Calls : pc'[v] = "emitting" => future'[v] \in Decisions \cup {"open"}
      BY <3>1 DEF Decisions
    <3>3. \A v \in pending' : future'[v] \in {"open", "cancelled"}
      BY <3>1
    <3>4. \A v \in Calls :
            pc'[v] \in {"emitting", "waiting"} => "deny_pattern" \notin req'[v].hits
      BY <3>1
    <3> QED
      BY <3>2, <3>3, <3>4
  <2> QED
    BY <2>1, <2>2
<1>3. WaitersReachable'
  BY DEF CheckAndWait, Register, TypeOK, Settle, WaitersReachable
<1>4. PendingOwned'
  BY DEF CheckAndWait, Register, TypeOK, Settle, PendingOwned, Lifecycle
<1>5. Consent'
  BY DEF CheckAndWait, Register, TypeOK, Consent, Lifecycle, Allowing
<1>6. NoGrantWithoutConsent'
  <2> SUFFICES ASSUME NEW v \in Calls, Allowed(v)' PROVE Consented(v)'
    BY DEF NoGrantWithoutConsent
  <2>1. CASE v # u
    BY <2>1 DEF CheckAndWait, Register, TypeOK, Settle, NoGrantWithoutConsent, Allowed, Consented, PolicyTiers
  <2>2. CASE v = u
    <3>1. Tiers(r) = "auto_allow" /\ req'[u] = r
      BY <2>2, TiersType DEF CheckAndWait, Register, TypeOK, Settle, Allowed, Allowing, Lifecycle
    <3> QED
      BY <2>2, <3>1, TiersConsent DEF CheckAndWait, Register, Consented, PolicyTiers
  <2> QED
    BY <2>1, <2>2
<1> QED
  BY <1>1, <1>2, <1>3, <1>4, <1>5, <1>6

\* A call that returns the answer of its future.
LEMMA AnswerInv ==
  ASSUME IInv, NEW u \in Calls, future[u] \in Decisions,
         pc[u] \in {"emitting", "waiting"},
         ApplyResponse(u, future[u]), Settle(u, future[u]),
         UNCHANGED <<up, req, pending, future, interrupt, connected, granted,
                     alwaysGranted>>
  PROVE  IInv'
<1> USE DEF IInv
<1>0. /\ TypeOK /\ Consent /\ Lifecycle
      /\ u \notin pending
  BY DEF Lifecycle, Decisions
<1>1. TypeOK'
  BY ApplyEntries DEF TypeOK, Settle
<1>2. Lifecycle'
  BY DEF TypeOK, Settle, Lifecycle
<1>3. WaitersReachable'
  BY DEF TypeOK, Settle, WaitersReachable
<1>4. PendingOwned'
  BY <1>0 DEF TypeOK, Settle, PendingOwned
<1>5. Consent'
  <2>1. /\ \A v \in Calls : future'[v] \in Allowing => v \in granted'
        /\ \A v \in Calls : future'[v] = "always_allow" => req'[v].tool \in alwaysGranted'
    BY DEF Consent
  <2>2. future[u] = "always_allow" => req[u].tool \in alwaysGranted
    BY DEF Consent
  <2>3. \A s \in Sessions, t \in Tools :
          sessionAlways'[s][t] = "allow" => t \in alwaysGranted'
    BY <1>0, <2>2, ApplyEntries DEF Consent
  <2>4. \A t \in Tools : persistentAlways'[t] = "allow" => t \in alwaysGranted'
    BY <1>0, <2>2, ApplyEntries DEF Consent
  <2>5. \A t \in Tools : policyFile'[t] = "allow" => t \in alwaysGranted'
    BY <1>0, <2>2, ApplyEntries DEF Consent
  <2> QED
    BY <2>1, <2>3, <2>4, <2>5 DEF Consent
<1>6. NoGrantWithoutConsent'
  <2> SUFFICES ASSUME NEW v \in Calls, Allowed(v)' PROVE Consented(v)'
    BY DEF NoGrantWithoutConsent
  <2>1. CASE v # u
    BY <2>1 DEF TypeOK, Settle, NoGrantWithoutConsent, Allowed, Consented, PolicyTiers
  <2>2. CASE v = u
    <3>1. future[u] \in Allowing
      BY <2>2 DEF TypeOK, Settle, Allowed, Allowing, Decisions
    <3> QED
      BY <2>2, <3>1 DEF Consent, Consented, Lifecycle
  <2> QED
    BY <2>1, <2>2
<1> QED
  BY <1>1, <1>2, <1>3, <1>4, <1>5, <1>6

LEMMA EmittedInv ==
  ASSUME IInv, NEW u \in Calls, Emitted(u)
  PROVE  IInv'
<1>1. CASE future[u] = "open"
  <2> USE DEF IInv
  <2>1. TypeOK'
    BY <1>1 DEF Emitted, TypeOK, Decisions, Settle
  <2>2. Lifecycle'
    BY <1>1 DEF Emitted, TypeOK, Lifecycle
  <2>3. WaitersReachable' /\ PendingOwned'
    BY <1>1 DEF Emitted, TypeOK, WaitersReachable, PendingOwned, Lifecycle
  <2>4. Consent'
    BY <1>1 DEF Emitted, Consent
  <2>5. NoGrantWithoutConsent'
    BY <1>1 DEF Emitted, NoGrantWithoutConsent, Allowed, Consented, PolicyTiers
  <2> QED
    BY <2>1, <2>2, <2>3, <2>4, <2>5
<1>2. CASE future[u] # "open"
  <2>1. future[u] \in Decisions /\ pc[u] = "emitting"
    BY <1>2 DEF Emitted, IInv, Lifecycle
  <2> QED
    BY <1>2, <2>1, AnswerInv DEF Emitted
<1> QED
  BY <1>1, <1>2

LEMMA InterruptInv ==
  ASSUME IInv, NEW u \in Calls, TimerFires(u) \/ CancelTask(u)
  PROVE  IInv'
<1> USE DEF IInv
<1>1. TypeOK'
  BY DEF TimerFires, CancelTask, TypeOK
<1>2. Lifecycle'
  BY DEF TimerFires, CancelTask, TypeOK, Lifecycle
<1>3. WaitersReachable' /\ PendingOwned'
  BY DEF TimerFires, CancelTask, TypeOK, WaitersReachable, PendingOwned
<1>4. Consent'
  BY DEF TimerFires, CancelTask, TypeOK, Consent, Allowing
<1>5. NoGrantWithoutConsent'
  BY DEF TimerFires, CancelTask, NoGrantWithoutConsent, Allowed, Consented, PolicyTiers
<1> QED
  BY <1>1, <1>2, <1>3, <1>4, <1>5

LEMMA ResumeInv ==
  ASSUME IInv, NEW u \in Calls, Resume(u)
  PROVE  IInv'
<1>1. CASE /\ pc[u] = "waiting" /\ interrupt[u] = "none"
           /\ future[u] \in Decisions
  <2>1. /\ ApplyResponse(u, future[u]) /\ Settle(u, future[u])
        /\ UNCHANGED pending
    BY <1>1 DEF Resume
  <2> QED
    BY <1>1, <2>1, AnswerInv DEF Resume
<1>2. CASE interrupt[u] # "none"
  <2> USE DEF IInv
  <2>0. /\ pc[u] \in {"emitting", "waiting"}
        /\ UNCHANGED <<sessionAlways, persistentAlways, policyFile, fileOk, revoked,
                       manual, up, req, future, interrupt, connected, granted,
                       alwaysGranted>>
        /\ \/ pending' = pending \ {u} /\ Settle(u, "timeout")
           \/ pending' = pending /\ Settle(u, "raised")
    BY <1>2 DEF Resume, TimedOut, PopEntry
  <2>1. TypeOK'
    BY <2>0 DEF TypeOK, Settle
  <2>2. Lifecycle'
    BY <2>0 DEF TypeOK, Lifecycle, Settle
  <2>3. WaitersReachable' /\ PendingOwned'
    BY <2>0 DEF TypeOK, WaitersReachable, PendingOwned, Settle
  <2>4. Consent'
    BY <2>0 DEF Consent
  <2>5. NoGrantWithoutConsent'
    BY <2>0 DEF TypeOK, Settle, NoGrantWithoutConsent, Allowed, Allowing, Consented,
                PolicyTiers
  <2> QED
    BY <2>1, <2>2, <2>3, <2>4, <2>5
<1> QED
  BY <1>1, <1>2 DEF Resume

LEMMA RespondInv ==
  ASSUME IInv, NEW u \in Calls, NEW d \in Decisions, Respond(u, d)
  PROVE  IInv'
<1> USE DEF IInv
<1>1. TypeOK'
  BY DEF Respond, TypeOK, Requests
<1>2. Lifecycle'
  BY DEF Respond, TypeOK, Lifecycle
<1>3. WaitersReachable' /\ PendingOwned'
  <2>1. WaitersReachable'
    BY DEF Respond, TypeOK, WaitersReachable, Decisions
  <2>2. PendingOwned'
    BY DEF Respond, TypeOK, PendingOwned
  <2> QED
    BY <2>1, <2>2
<1>4. Consent'
  BY DEF Respond, TypeOK, Consent, Allowing
<1>5. NoGrantWithoutConsent'
  BY DEF Respond, TypeOK, NoGrantWithoutConsent, Allowed, Consented, PolicyTiers
<1> QED
  BY <1>1, <1>2, <1>3, <1>4, <1>5

LEMMA SessionInv ==
  ASSUME IInv, NEW s \in Sessions, Disconnect(s) \/ CancelSession(s)
  PROVE  IInv'
<1> USE DEF IInv
<1>1. TypeOK'
  <2>1. CASE Disconnect(s)
    BY <2>1 DEF Disconnect, TypeOK, Decisions
  <2>2. CASE CancelSession(s)
    BY <2>2 DEF CancelSession, TypeOK, Decisions
  <2> QED
    BY <2>1, <2>2
<1>2. Lifecycle'
  BY DEF Disconnect, CancelSession, TypeOK, Lifecycle, Decisions
<1>3. WaitersReachable' /\ PendingOwned'
  BY DEF Disconnect, CancelSession, TypeOK, WaitersReachable, PendingOwned
<1>4. Consent'
  BY DEF Disconnect, CancelSession, TypeOK, Consent, Allowing
<1>5. NoGrantWithoutConsent'
  BY DEF Disconnect, CancelSession, NoGrantWithoutConsent, Allowed, Consented,
         PolicyTiers
<1> QED
  BY <1>1, <1>2, <1>3, <1>4, <1>5

LEMMA EditInv ==
  ASSUME IInv, NEW t \in Tools, NEW entry \in {"allow", "deny"},
         EditPolicyFile(t, entry)
  PROVE  IInv'
<1> USE DEF IInv
<1>1. TypeOK'
  BY DEF EditPolicyFile, TypeOK, Entry, Decided
<1>2. Lifecycle' /\ WaitersReachable' /\ PendingOwned'
  BY DEF EditPolicyFile, Lifecycle, WaitersReachable, PendingOwned
<1>3. Consent'
  BY DEF EditPolicyFile, TypeOK, Consent
<1>4. NoGrantWithoutConsent'
  BY DEF EditPolicyFile, NoGrantWithoutConsent, Allowed, Consented, PolicyTiers
<1> QED
  BY <1>1, <1>2, <1>3, <1>4

LEMMA StopInv ==
  ASSUME IInv, Stop, policyFile' \in [Tools -> Entry], fileOk' \in BOOLEAN,
         revoked' \subseteq Tools, manual' \in [Tools -> Entry],
         \A t \in Tools : policyFile'[t] = "allow" => t \in alwaysGranted
  PROVE  IInv'
<1> USE DEF IInv
<1>1. TypeOK'
  BY DEF Stop, TypeOK, Entry
<1>2. Lifecycle' /\ WaitersReachable' /\ PendingOwned'
  BY DEF Stop, TypeOK, Lifecycle, WaitersReachable, PendingOwned
<1>3. Consent'
  BY DEF Stop, TypeOK, Consent
<1>4. NoGrantWithoutConsent'
  BY DEF Stop, NoGrantWithoutConsent, Allowed, Consented, PolicyTiers
<1> QED
  BY <1>1, <1>2, <1>3, <1>4

LEMMA CrashInv ==
  ASSUME IInv, Crash
  PROVE  IInv'
BY StopInv DEF Crash, IInv, TypeOK, Consent

LEMMA CrashInSaveInv ==
  ASSUME IInv, NEW u \in Calls, CrashInSave(u)
  PROVE  IInv'
<1> DEFINE t0 == req[u].tool
           m == [persistentAlways EXCEPT ![t0] = EntryOf(future[u])]
<1>1. t0 \in Tools /\ EntryOf(future[u]) \in {"allow", "deny"}
  BY DEF IInv, TypeOK, Requests, EntryOf
<1>2. m \in [Tools -> Entry]
  BY <1>1 DEF IInv, TypeOK, Entry
<1>3. \A t \in Tools : m[t] = "allow" => t \in alwaysGranted
  BY <1>1 DEF IInv, TypeOK, Consent, EntryOf, CrashInSave, Always
<1>4. TornSave(m) /\ Decided(t0, EntryOf(future[u])) /\ Stop
  BY DEF CrashInSave
<1>5. revoked' \subseteq Tools /\ manual' \in [Tools -> Entry]
  BY <1>1, <1>4 DEF CrashInSave, Decided, IInv, TypeOK, Entry
<1> QED
  BY <1>2, <1>3, <1>4, <1>5, TornSaveEntries, StopInv

LEMMA StartInv ==
  ASSUME IInv, Start
  PROVE  IInv'
<1> USE DEF IInv
<1>1. TypeOK'
  BY DEF Start, TypeOK
<1>2. Lifecycle' /\ WaitersReachable' /\ PendingOwned'
  BY DEF Start, Lifecycle, WaitersReachable, PendingOwned
<1>3. Consent'
  BY DEF Start, Consent
<1>4. NoGrantWithoutConsent'
  BY DEF Start, NoGrantWithoutConsent, Allowed, Consented, PolicyTiers
<1> QED
  BY <1>1, <1>2, <1>3, <1>4

-----------------------------------------------------------------------------
LEMMA NextInv == IInv /\ [Next]_vars => IInv'
<1> SUFFICES ASSUME IInv, [Next]_vars PROVE IInv'
  OBVIOUS
<1>1. ASSUME NEW u \in Calls, CallStep(u) PROVE IInv'
  BY <1>1, CheckAndWaitInv, EmittedInv, InterruptInv, ResumeInv DEF CallStep
<1>2. CASE ClientStep
  BY <1>2, RespondInv, SessionInv, EditInv DEF ClientStep
<1>3. CASE DaemonStep
  BY <1>3, CrashInv, CrashInSaveInv, StartInv DEF DaemonStep
<1>4. CASE UNCHANGED vars
  BY <1>4 DEF vars, IInv, TypeOK, Lifecycle, WaitersReachable, PendingOwned, Consent,
     NoGrantWithoutConsent, Allowed, Consented, PolicyTiers
<1> QED
  BY <1>1, <1>2, <1>3, <1>4 DEF Next

THEOREM Invariance == Spec => []IInv
<1> QED
  BY InitInv, NextInv, PTL DEF Spec

\* Every variable keeps its type.
THEOREM TypeCorrect == Spec => []TypeOK
<1>1. IInv => TypeOK
  BY DEF IInv
<1> QED
  BY <1>1, Invariance, PTL

\* Whatever the sessions, tools and policies, and however answers, timers,
\* cancellations, crashes and manual edits interleave: a call runs only if the
\* user allowed it, once allowed its tool for good, or the policy allows it,
\* and never if a deny pattern matches it.
THEOREM NoGrantWithoutConsentHolds == Spec => []NoGrantWithoutConsent
<1>1. IInv => NoGrantWithoutConsent
  BY DEF IInv
<1> QED
  BY <1>1, Invariance, PTL

\* No call waits for an answer that cannot reach it, and _pending leaks only
\* the entries of calls that were cancelled.
THEOREM PendingExactHolds == Spec => []PendingExact
<1>1. IInv => PendingExact
  BY DEF IInv, PendingExact
<1> QED
  BY <1>1, Invariance, PTL

\* The two implementations of the tiers agree on every request.
THEOREM StaticAgreement == StaticTiersAgree
BY PermissionAssumption DEF StaticTiersAgree, Tiers, PolicyTiers, Evaluate, Requests

-----------------------------------------------------------------------------
(* Lasting decisions. *)

\* An answer about one tool leaves the lasting decisions about the others as
\* they were: the file takes over what the daemon has in memory at most.
LEMMA AnswerKeepsDenials ==
  ASSUME IInv, DenySurvives, NEW u \in Calls, NEW d \in Decisions, ApplyResponse(u, d)
  PROVE  DenySurvives'
<1> DEFINE t0 == req[u].tool
<1> TypeOK
  BY DEF IInv
<1>0. t0 \in Tools
  BY DEF TypeOK, Requests
<1> SUFFICES ASSUME NEW t \in revoked', manual'[t] = "none"
             PROVE  policyFile'[t] # "allow" /\ persistentAlways'[t] # "allow"
  BY DEF DenySurvives
<1>1. CASE d \notin Always
  BY <1>1 DEF ApplyResponse, DenySurvives
<1>2. CASE d \in Always
  <2>1. /\ persistentAlways' = [persistentAlways EXCEPT ![t0] = EntryOf(d)]
        /\ SavePolicyFile(persistentAlways', t0, EntryOf(d))
        /\ manual' = [manual EXCEPT ![t0] = "none"]
    BY <1>2 DEF ApplyResponse, RememberForAll
  <2>2. persistentAlways' \in [Tools -> Entry]
    BY <1>0, <2>1 DEF TypeOK, EntryOf, Entry
  <2>3. \A q \in Tools : policyFile'[q] = "allow" =>
          persistentAlways'[q] = "allow" \/ policyFile[q] = "allow"
    BY <1>0, <2>1, <2>2, SaveEntries
  <2>4. t \in Tools
    BY <1>0, <2>1 DEF SavePolicyFile, Decided, TypeOK
  <2>5. CASE t # t0
    <3>1. t \in revoked /\ manual[t] = "none"
      BY <2>1, <2>4, <2>5 DEF SavePolicyFile, Decided, TypeOK
    <3>2. policyFile[t] # "allow" /\ persistentAlways'[t] # "allow"
      BY <2>1, <2>4, <2>5, <3>1 DEF DenySurvives, TypeOK
    <3> QED
      BY <2>3, <2>4, <3>2
  <2>6. CASE t = t0
    <3>1. WriteText(persistentAlways') /\ EntryOf(d) = "deny"
      BY <1>0, <2>1, <2>6 DEF SavePolicyFile, Decided, EntryOf
    <3> QED
      BY <1>0, <2>1, <2>6, <3>1 DEF WriteText, TypeOK
  <2> QED
    BY <2>5, <2>6
<1> QED
  BY <1>1, <1>2

LEMMA DenialsStep == IInv /\ DenySurvives /\ [Next]_vars => DenySurvives'
<1> SUFFICES ASSUME IInv, DenySurvives, [Next]_vars PROVE DenySurvives'
  OBVIOUS
<1> DEFINE Same == UNCHANGED <<persistentAlways, policyFile, revoked, manual>>
<1> TypeOK
  BY DEF IInv
<1>0. CASE Same
  BY <1>0 DEF DenySurvives
<1>1. ASSUME NEW u \in Calls, CallStep(u) PROVE DenySurvives'
  <2>1. ASSUME NEW r \in Requests, CheckAndWait(u, r) PROVE Same
    BY <2>1 DEF CheckAndWait
  <2>2. CASE TimerFires(u) \/ CancelTask(u)
    BY <1>0, <2>2 DEF TimerFires, CancelTask
  <2>3. CASE Emitted(u)
    <3>1. CASE future[u] = "open"
      BY <1>0, <2>3, <3>1, Zenon DEF Emitted, ApplyResponse
    <3>2. CASE future[u] # "open"
      <4>1. future[u] \in Decisions
        BY <2>3, <3>2 DEF Emitted, IInv, Lifecycle
      <4> QED
        BY <2>3, <3>2, <4>1, AnswerKeepsDenials DEF Emitted
    <3> QED
      BY <3>1, <3>2
  <2>4. CASE Resume(u)
    <3>1. CASE interrupt[u] = "none" /\ future[u] \in Decisions /\ ApplyResponse(u, future[u])
      BY <3>1, AnswerKeepsDenials
    <3>2. CASE Same
      BY <1>0, <3>2
    <3> QED
      BY <2>4, <3>1, <3>2 DEF Resume, TimedOut
  <2> QED
    BY <1>0, <1>1, <2>1, <2>2, <2>3, <2>4 DEF CallStep
<1>2. CASE ClientStep
  <2>1. ASSUME NEW u \in Calls, NEW d \in Decisions, Respond(u, d) PROVE Same
    BY <2>1 DEF Respond
  <2>2. ASSUME NEW s \in Sessions, Disconnect(s) \/ CancelSession(s) PROVE Same
    BY <2>2 DEF Disconnect, CancelSession
  <2>3. ASSUME NEW t \in Tools, NEW entry \in {"allow", "deny"}, EditPolicyFile(t, entry)
        PROVE  DenySurvives'
    BY <2>3 DEF EditPolicyFile, Decided, DenySurvives, TypeOK
  <2> QED
    BY <1>0, <1>2, <2>1, <2>2, <2>3 DEF ClientStep
<1>3. CASE DaemonStep
  <2>1. CASE Crash
    BY <2>1 DEF Crash, Stop, DenySurvives, TypeOK
  <2>2. ASSUME NEW u \in Calls, CrashInSave(u) PROVE DenySurvives'
    <3> DEFINE t0 == req[u].tool
               m == [persistentAlways EXCEPT ![t0] = EntryOf(future[u])]
    <3>1. t0 \in Tools /\ m \in [Tools -> Entry]
      BY DEF TypeOK, Requests, EntryOf, Entry
    <3>2. /\ Decided(t0, EntryOf(future[u]))
          /\ manual' = [manual EXCEPT ![t0] = "none"]
          /\ persistentAlways' = [t \in Tools |-> "none"]
      BY <2>2 DEF CrashInSave, Stop
    <3>3. \A t \in Tools : policyFile'[t] = "allow" => m[t] = "allow"
      BY <2>2, <3>1, TornSaveEntries DEF CrashInSave
    <3>4. ASSUME NEW t \in revoked', manual'[t] = "none" PROVE m[t] # "allow" /\ t \in Tools
      BY <3>1, <3>2, <3>4 DEF Decided, DenySurvives, TypeOK, EntryOf
    <3> QED
      BY <3>2, <3>3, <3>4 DEF DenySurvives
  <2>3. CASE Start
    BY <2>3 DEF Start, DenySurvives
  <2> QED
    BY <1>3, <2>1, <2>2, <2>3 DEF DaemonStep
<1>4. CASE UNCHANGED vars
  BY <1>0, <1>4 DEF vars
<1> QED
  BY <1>1, <1>2, <1>3, <1>4 DEF Next

\* A saved "always deny" is never undone by an older "always allow", whatever
\* answers, failed saves, crashes and restarts follow.
THEOREM DenySurvivesHolds == Spec => []DenySurvives
<1>1. Init => DenySurvives
  BY DEF Init, DenySurvives
<1> QED
  BY <1>1, DenialsStep, Invariance, PTL DEF Spec

\* While the daemon runs, only an always_* answer that its call returns changes
\* what later calls of all sessions are told.
THEOREM CachesFollowReturnsHolds == Spec => CachesFollowReturns
<1> DEFINE Returned ==
             up /\ up' /\ persistentAlways' # persistentAlways =>
               \E u \in Calls :
                 /\ outcome[u] = "none" /\ outcome'[u] \in Always
                 /\ interrupt[u] = "none"
                 /\ persistentAlways' =
                      [persistentAlways EXCEPT ![req[u].tool] = EntryOf(outcome'[u])]
<1>1. IInv /\ [Next]_vars => [Returned]_vars
  <2> SUFFICES ASSUME IInv, Next, up, up', persistentAlways' # persistentAlways
               PROVE  Returned
    OBVIOUS
  <2>1. PICK u \in Calls : CallStep(u)
    BY DEF Next, ClientStep, DaemonStep, Respond, Disconnect, CancelSession,
           EditPolicyFile, Crash, CrashInSave, Stop, Start
  <2>2. Emitted(u) \/ Resume(u)
    BY <2>1 DEF CallStep, CheckAndWait, TimerFires, CancelTask
  <2>3. /\ pc[u] # "done" /\ interrupt[u] = "none"
        /\ ApplyResponse(u, future[u]) /\ Settle(u, future[u])
    BY <2>2 DEF Emitted, Resume, TimedOut
  <2>4. future[u] \in Always
    BY <2>3 DEF ApplyResponse
  <2>5. outcome[u] = "none" /\ outcome'[u] = future[u]
    BY <2>3 DEF IInv, Lifecycle, TypeOK, Settle
  <2>6. persistentAlways' = [persistentAlways EXCEPT ![req[u].tool] = EntryOf(future[u])]
    BY <2>3, <2>4 DEF ApplyResponse, RememberForAll
  <2> QED
    BY <2>3, <2>4, <2>5, <2>6
<1> QED
  BY <1>1, Invariance, PTL DEF Spec, CachesFollowReturns

-----------------------------------------------------------------------------
(* Progress of the calls.                                                  *)

Place(at) ==
  CASE at = "idle" -> 0 [] at = "emitting" -> 1 [] at = "waiting" -> 2 [] OTHER -> 3

\* A call goes forward and is settled once.  Its future takes one value: the first
\* answer, or the timer's or the cancellation's; a call that returns an answer
\* returns that one.
AskMoves(u) ==
  /\ \/ pc'[u] = pc[u] /\ outcome'[u] = outcome[u] /\ req'[u] = req[u]
     \/ Place(pc'[u]) > Place(pc[u])
  /\ future[u] \in Decisions \cup {"cancelled"} => future'[u] = future[u]
  /\ outcome[u] = "none" /\ outcome'[u] \in Decisions => outcome'[u] = future[u]

FirstAnswerCounts == [][\A u \in Calls : AskMoves(u)]_vars

LEMMA StillAsks ==
  ASSUME NEW u \in Calls, UNCHANGED <<pc[u], outcome[u], req[u], future[u]>>
  PROVE  AskMoves(u)
BY DEF AskMoves, Decisions

\* A call in flight is settled, with the value of its future or without an answer.
LEMMA SettledMoves ==
  ASSUME IInv, NEW c \in Calls, pc[c] \in {"emitting", "waiting"},
         NEW o \in {future[c], "timeout", "raised"}, Settle(c, o),
         UNCHANGED <<req, future>>, NEW u \in Calls
  PROVE  AskMoves(u)
<1>0. /\ pc \in [Calls -> {"idle", "emitting", "waiting", "done", "lost"}]
      /\ outcome \in [Calls -> Decisions \cup {"none", "auto_allow", "auto_deny",
                                               "timeout", "raised"}]
  BY DEF IInv, TypeOK
<1>1. CASE u = c
  <2>1. pc'[u] = "done" /\ outcome'[u] = o
    BY <1>0, <1>1 DEF Settle
  <2>2. Place(pc'[u]) > Place(pc[u])
    BY <1>1, <2>1 DEF Place
  <2>3. o \in Decisions => o = future[u]
    BY <1>1 DEF Decisions
  <2> QED
    BY <2>1, <2>2, <2>3 DEF AskMoves
<1>2. CASE u # c
  <2>1. pc'[u] = pc[u] /\ outcome'[u] = outcome[u]
    BY <1>0, <1>2 DEF Settle
  <2> QED
    BY <2>1, StillAsks
<1> QED
  BY <1>1, <1>2

\* The steps of a call's own task.
LEMMA OwnMoves ==
  ASSUME IInv, NEW c \in Calls, CallStep(c), NEW u \in Calls
  PROVE  AskMoves(u)
<1>0. /\ TypeOK /\ Lifecycle
      /\ pc \in [Calls -> {"idle", "emitting", "waiting", "done", "lost"}]
  BY DEF IInv, TypeOK
<1>1. ASSUME NEW r \in Requests, CheckAndWait(c, r) PROVE AskMoves(u)
  <2>1. pc[c] = "idle" /\ future[c] = "none" /\ req' = [req EXCEPT ![c] = r]
    BY <1>0, <1>1 DEF CheckAndWait, Lifecycle
  <2>2. CASE u # c
    <3>1. UNCHANGED <<pc[u], outcome[u], req[u], future[u]>>
      BY <1>0, <1>1, <2>2 DEF CheckAndWait, Settle, TypeOK
    <3> QED
      BY <3>1, StillAsks
  <2>3. CASE u = c
    <3>1. pc'[u] \in {"done", "emitting"}
      BY <1>0, <1>1, <2>3 DEF CheckAndWait, Settle
    <3>2. Place(pc'[u]) > Place(pc[u])
      BY <2>1, <2>3, <3>1 DEF Place
    <3>3. outcome'[u] \in Decisions => outcome[u] = outcome'[u]
      BY <1>0, <1>1, <2>3, TiersType DEF CheckAndWait, Settle, TypeOK, Decisions
    <3>4. outcome[u] = "none" => outcome'[u] \notin Decisions
      BY <3>3 DEF Decisions
    <3> QED
      BY <2>1, <2>3, <3>2, <3>4 DEF AskMoves, Decisions
  <2> QED
    BY <2>2, <2>3
<1>2. CASE Emitted(c)
  <2>1. pc[c] = "emitting" /\ UNCHANGED <<req, future>>
    BY <1>2 DEF Emitted
  <2>2. CASE pc' = [pc EXCEPT ![c] = "waiting"] /\ outcome' = outcome
    BY <1>0, <2>1, <2>2 DEF AskMoves, Place, Decisions
  <2>3. CASE Settle(c, future[c])
    BY <2>1, <2>3, SettledMoves
  <2> QED
    BY <1>2, <2>2, <2>3 DEF Emitted
<1>3. CASE TimerFires(c) \/ CancelTask(c)
  <2>1. UNCHANGED <<pc, outcome, req>>
    BY <1>3 DEF TimerFires, CancelTask
  <2>2. future[u] # "open" => future'[u] = future[u]
    BY <1>0, <1>3 DEF TimerFires, CancelTask, TypeOK
  <2> QED
    BY <2>1, <2>2 DEF AskMoves, Decisions
<1>4. CASE Resume(c)
  <2>1. UNCHANGED <<req, future>> /\ pc[c] \in {"emitting", "waiting"}
    BY <1>4 DEF Resume
  <2>2. PICK o \in {future[c], "timeout", "raised"} : Settle(c, o)
    BY <1>4 DEF Resume, TimedOut
  <2> QED
    BY <2>1, <2>2, SettledMoves
<1> QED
  BY <1>1, <1>2, <1>3, <1>4 DEF CallStep

\* The steps of clients and of the daemon as a whole.
LEMMA OtherMoves ==
  ASSUME IInv, ClientStep \/ DaemonStep, NEW u \in Calls
  PROVE  AskMoves(u)
<1>0. /\ TypeOK
      /\ pc \in [Calls -> {"idle", "emitting", "waiting", "done", "lost"}]
  BY DEF IInv, TypeOK
<1>1. ASSUME UNCHANGED <<pc, outcome, req>>, future[u] # "open" => future'[u] = future[u]
      PROVE  AskMoves(u)
  BY <1>1 DEF AskMoves, Decisions
<1>2. ASSUME NEW c \in Calls, NEW d \in Decisions, Respond(c, d) PROVE AskMoves(u)
  BY <1>0, <1>1, <1>2 DEF Respond, TypeOK
<1>3. ASSUME NEW s \in Sessions, CancelSession(s) PROVE AskMoves(u)
  BY <1>0, <1>1, <1>3 DEF CancelSession, TypeOK
<1>4. CASE \/ \E s \in Sessions : Disconnect(s)
           \/ \E t \in Tools, entry \in {"allow", "deny"} : EditPolicyFile(t, entry)
           \/ Start
  BY <1>4, StillAsks DEF Disconnect, EditPolicyFile, Start
<1>5. CASE Stop
  <2>1. UNCHANGED <<req, future, outcome>>
    BY <1>5 DEF Stop
  <2>2. CASE pc[u] \in {"emitting", "waiting"}
    <3>1. pc'[u] = "lost"
      BY <1>5, <2>2 DEF Stop
    <3>2. Place(pc'[u]) > Place(pc[u])
      BY <2>2, <3>1 DEF Place
    <3> QED
      BY <2>1, <3>2 DEF AskMoves, Decisions
  <2>3. CASE pc[u] \notin {"emitting", "waiting"}
    <3>1. pc'[u] = pc[u]
      BY <1>5, <2>3 DEF Stop
    <3> QED
      BY <2>1, <3>1 DEF AskMoves, Decisions
  <2> QED
    BY <2>2, <2>3
<1> QED
  BY <1>2, <1>3, <1>4, <1>5 DEF ClientStep, DaemonStep, Crash, CrashInSave

\* Whatever answers, timers, cancellations and crashes overtake each other: the first
\* answer to a request is the one that counts, a second or a late one changes nothing,
\* and a call is settled once (manager.py:116-158).
THEOREM FirstAnswerCountsHolds == Spec => FirstAnswerCounts
<1>1. IInv /\ [Next]_vars => [\A u \in Calls : AskMoves(u)]_vars
  BY OwnMoves, OtherMoves DEF Next
<1> QED
  BY <1>1, Invariance, PTL DEF Spec, FirstAnswerCounts
=============================================================================

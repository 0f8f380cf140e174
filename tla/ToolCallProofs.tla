---------------------------- MODULE ToolCallProofs ----------------------------
(***************************************************************************)
(* Proofs about ToolCall: the verdict the clients see is the one the model *)
(* gets, nothing runs without consent, and work that is done is not done   *)
(* again.  The invariant is kept call by call: CallInv(c) is all that is   *)
(* known of one call, and a step of one call leaves the others alone.      *)
(***************************************************************************)
EXTENDS ToolCall, TLAPS, FiniteSetTheorems

\* How often a call has run, stage by stage.
Executions(c) ==
  /\ pc[c] \in {"idle", "announcing", "asking", "granting", "denying"} => attempt[c] = 0
  /\ pc[c] \in {"running", "reporting", "backoff"} => attempt[c] > 0 /\ works[c] = late[c]
  /\ pc[c] = "running" => works[c] < attempt[c]
  /\ pc[c] \in {"reporting", "backoff"} => attempt[c] <= Retries
  /\ pc[c] = "finishing" => attempt[c] > 0 /\ works[c] = late[c] + 1
  /\ works[c] \in {late[c], late[c] + 1}
  /\ works[c] > late[c] => pc[c] \in {"finishing", "failing", "done", "raised"}
  /\ works[c] <= attempt[c]

\* What the decision and the events say of each other.
Cleared(c) ==
  /\ pc[c] = "idle" => Len(events[c]) = 0 /\ decision[c] = "none"
  /\ pc[c] \in {"announcing", "asking"} => Len(events[c]) = 1 /\ decision[c] = "none"
  /\ pc[c] = "granting" => decision[c] = "allow"
  /\ pc[c] = "denying" => decision[c] = "deny"
  /\ decision[c] = "allow" => Len(events[c]) > 1 /\ events[c][2].kind = "granted"
  /\ attempt[c] > 0 => decision[c] \in {"auto_allow", "allow"}
  /\ \A i \in 1 .. Len(events[c]) :
       /\ events[c][i].kind = "denied" => decision[c] = "deny"
       /\ events[c][i].kind = "finished" => works[c] > 0

\* The last event while the verdict is on its way.
LastWord(c) ==
  /\ pc[c] = "finishing" => LastEvent(c) = [kind |-> "finished", class |-> "none"]
  /\ pc[c] = "failing" =>
       LastEvent(c) = [kind |-> "failed", class |-> pending[c]] /\ pending[c] \in Errors
  /\ pc[c] = "done" =>
       LastEvent(c) = IF result[c] = "ok" THEN [kind |-> "finished", class |-> "none"]
                      ELSE [kind |-> "failed", class |-> result[c]]

CallType(c) ==
  /\ pc[c] \in Awaits \cup {"idle", "done", "raised"}
  /\ attempt[c] \in 0 .. Retries + 1
  /\ pending[c] \in Errors \cup {"none"}
  /\ result[c] \in Errors \cup {"none", "ok"}
  /\ decision[c] \in {"none", "auto_allow", "allow", "auto_deny", "deny"}
  /\ events[c] \in Seq(Event)
  /\ works[c] \in Nat
  /\ late[c] \in Nat

CallInv(c) == CallType(c) /\ Executions(c) /\ Cleared(c) /\ LastWord(c)

IInv == TypeOK /\ \A c \in Calls : CallInv(c)

-----------------------------------------------------------------------------
\* What appending an event does to a call's events.
LEMMA AppendEvent ==
  ASSUME NEW s \in Seq(Event), NEW e \in Event
  PROVE  /\ Append(s, e) \in Seq(Event)
         /\ Len(Append(s, e)) = Len(s) + 1
         /\ Append(s, e)[Len(s) + 1] = e
         /\ \A i \in 1 .. Len(s) : Append(s, e)[i] = s[i]
OBVIOUS

\* Nothing of call d changes.
Still(d) ==
  /\ pc'[d] = pc[d] /\ attempt'[d] = attempt[d] /\ pending'[d] = pending[d]
  /\ result'[d] = result[d] /\ decision'[d] = decision[d]
  /\ events'[d] = events[d] /\ works'[d] = works[d] /\ late'[d] = late[d]

\* A step of call c disturbs no other call.
Others(c) == \A d \in Calls \ {c} : Still(d)

LEMMA StillCall ==
  ASSUME NEW d \in Calls, CallInv(d), Still(d)
  PROVE  CallInv(d)'
<1>1. CallType(d)'
  BY DEF Still, CallInv, CallType
<1>2. Executions(d)'
  BY DEF Still, CallInv, Executions
<1>3. Cleared(d)'
  BY DEF Still, CallInv, Cleared
<1>4. LastWord(d)'
  BY DEF Still, CallInv, LastWord, LastEvent
<1> QED
  BY <1>1, <1>2, <1>3, <1>4 DEF CallInv

LEMMA Isolation ==
  ASSUME TypeOK, NEW c \in Calls, Others(c), TypeOK', CallInv(c)',
         \A d \in Calls : CallInv(d)
  PROVE  IInv'
<1>1. ASSUME NEW d \in Calls, d # c PROVE CallInv(d)'
  BY <1>1, StillCall DEF Others, Still
<1> QED
  BY <1>1 DEF IInv

-----------------------------------------------------------------------------
(* The steps that publish nothing. *)

LEMMA ExecuteInv ==
  ASSUME IInv, NEW c \in Calls, Execute(c),
         \/ pc[c] = "granting" \/ pc[c] = "backoff"
         \/ pc[c] = "asking" /\ decision'[c] = "auto_allow",
         decision' = [decision EXCEPT ![c] = decision'[c]],
         pc[c] # "asking" => decision' = decision,
         UNCHANGED <<pending, result, events, works, late>>
  PROVE  IInv'
<1>0. TypeOK /\ CallInv(c) /\ \A d \in Calls : CallInv(d)
  BY DEF IInv
<1>1. /\ pc' = [pc EXCEPT ![c] = "running"]
      /\ attempt' = [attempt EXCEPT ![c] = attempt[c] + 1]
      /\ attempt[c] <= Retries
      /\ decision'[c] \in {"auto_allow", "allow"}
  BY <1>0, ToolCallAssumption DEF Execute, Goto, CallInv, Executions, Cleared
<1>2. TypeOK' /\ Others(c)
  <2>1. attempt' \in [Calls -> 0 .. Retries + 1]
    <3>1. attempt \in [Calls -> 0 .. Retries + 1] /\ attempt[c] <= Retries
      BY <1>0, <1>1 DEF TypeOK
    <3>2. attempt[c] + 1 \in 0 .. Retries + 1
      BY <3>1, ToolCallAssumption
    <3> QED
      BY <1>1, <3>1, <3>2
  <2>2. decision' \in [Calls -> {"none", "auto_allow", "allow", "auto_deny", "deny"}]
    BY <1>0, <1>1 DEF TypeOK
  <2>3. TypeOK'
    BY <1>0, <1>1, <2>1, <2>2 DEF TypeOK, Awaits
  <2>4. Others(c)
    BY <1>0, <1>1 DEF TypeOK, Others, Still
  <2> QED
    BY <2>3, <2>4
<1>3. CallType(c)'
  BY <1>2 DEF TypeOK, CallType
<1>4. Executions(c)'
  BY <1>0, <1>1 DEF TypeOK, CallInv, CallType, Executions
<1>5. Cleared(c)'
  BY <1>0, <1>1 DEF TypeOK, CallInv, CallType, Executions, Cleared
<1>6. LastWord(c)'
  BY <1>0, <1>1 DEF TypeOK, LastWord
<1> QED
  BY <1>0, <1>2, <1>3, <1>4, <1>5, <1>6, Isolation DEF CallInv

LEMMA ReportedInv ==
  ASSUME IInv, NEW c \in Calls, Reported(c)
  PROVE  IInv'
<1>0. TypeOK /\ CallInv(c) /\ \A d \in Calls : CallInv(d)
  BY DEF IInv
<1>1. /\ pc[c] = "reporting" /\ pc' = [pc EXCEPT ![c] = "backoff"]
      /\ UNCHANGED <<attempt, pending, result, decision, events, works, late>>
  BY DEF Reported, Goto
<1>2. TypeOK' /\ Others(c)
  BY <1>0, <1>1 DEF TypeOK, Others, Still, Awaits
<1>3. CallType(c)'
  BY <1>2 DEF TypeOK, CallType
<1>4. Executions(c)' /\ Cleared(c)' /\ LastWord(c)'
  BY <1>0, <1>1 DEF TypeOK, CallInv, Executions, Cleared, LastWord
<1> QED
  BY <1>0, <1>2, <1>3, <1>4, Isolation DEF CallInv

LEMMA ReturnInv ==
  ASSUME IInv, NEW c \in Calls, Return(c)
  PROVE  IInv'
<1>0. TypeOK /\ CallInv(c) /\ \A d \in Calls : CallInv(d)
  BY DEF IInv
<1>1. /\ \/ pc[c] = "finishing" /\ result' = [result EXCEPT ![c] = "ok"]
         \/ pc[c] = "failing" /\ result' = [result EXCEPT ![c] = pending[c]]
      /\ pc' = [pc EXCEPT ![c] = "done"]
      /\ UNCHANGED <<attempt, pending, decision, events, works, late>>
  BY DEF Return, Goto
<1>2. TypeOK' /\ Others(c)
  BY <1>0, <1>1 DEF TypeOK, Others, Still, CallInv, LastWord
<1>3. CallType(c)'
  BY <1>2 DEF TypeOK, CallType
<1>4. Executions(c)' /\ Cleared(c)'
  BY <1>0, <1>1 DEF TypeOK, CallInv, Executions, Cleared
<1>5. LastWord(c)'
  BY <1>0, <1>1 DEF TypeOK, CallInv, LastWord, LastEvent, Errors, ToolErrors, Retryable
<1> QED
  BY <1>0, <1>2, <1>3, <1>4, <1>5, Isolation DEF CallInv

\* The call leaves invoke_tool by an exception.
LEMMA RaisedCall ==
  ASSUME NEW c \in Calls, CallInv(c), pc[c] \in Awaits, pc'[c] = "raised",
         /\ attempt'[c] = attempt[c] /\ pending'[c] = pending[c]
         /\ result'[c] = result[c] /\ decision'[c] = decision[c]
         /\ events'[c] = events[c] /\ works'[c] = works[c] /\ late'[c] = late[c]
  PROVE  CallInv(c)'
<1>1. CallType(c)'
  BY DEF CallInv, CallType
<1>2. Executions(c)'
  BY DEF CallInv, Executions
<1>3. Cleared(c)'
  BY DEF CallInv, Cleared
<1>4. LastWord(c)'
  BY DEF LastWord
<1> QED
  BY <1>1, <1>2, <1>3, <1>4 DEF CallInv

LEMMA RaisedInv ==
  ASSUME IInv, NEW c \in Calls, pc[c] \in Awaits, Goto(c, "raised"),
         UNCHANGED <<attempt, pending, result, decision, events, works, late>>
  PROVE  IInv'
<1>0. TypeOK /\ CallInv(c) /\ \A d \in Calls : CallInv(d)
  BY DEF IInv
<1>1. pc' = [pc EXCEPT ![c] = "raised"] /\ pc'[c] = "raised"
  BY <1>0 DEF Goto, TypeOK
<1>2. TypeOK' /\ Others(c)
  BY <1>0, <1>1 DEF TypeOK, Others, Still
<1>3. CallInv(c)'
  BY <1>0, <1>1, RaisedCall
<1> QED
  BY <1>0, <1>2, <1>3, Isolation

-----------------------------------------------------------------------------
(* The steps that publish an event. *)

LEMMA PublishFacts ==
  ASSUME TypeOK, NEW c \in Calls, NEW e \in Event, Publish(c, e.kind, e.class)
  PROVE  /\ events' \in [Calls -> Seq(Event)]
         /\ \A d \in Calls \ {c} : events'[d] = events[d]
         /\ Len(events'[c]) = Len(events[c]) + 1
         /\ Len(events[c]) \in Nat
         /\ events'[c][Len(events'[c])] = e
         /\ \A i \in 1 .. Len(events[c]) : events'[c][i] = events[c][i]
         /\ \A i \in 1 .. Len(events'[c]) :
              events'[c][i] = e \/ (i \in 1 .. Len(events[c]) /\ events'[c][i] = events[c][i])
<1>1. events \in [Calls -> Seq(Event)] /\ events[c] \in Seq(Event)
  BY DEF TypeOK
<1>2. [kind |-> e.kind, class |-> e.class] = e
  BY DEF Event
<1>3. events' = [events EXCEPT ![c] = Append(events[c], e)]
  BY <1>2 DEF Publish
<1>4. events'[c] = Append(events[c], e)
  BY <1>1, <1>3
<1>5. /\ Len(events'[c]) = Len(events[c]) + 1
      /\ Len(events[c]) \in Nat
      /\ events'[c][Len(events[c]) + 1] = e
      /\ \A i \in 1 .. Len(events[c]) : events'[c][i] = events[c][i]
  BY <1>1, <1>4, AppendEvent
<1>6. \A i \in 1 .. Len(events'[c]) : i = Len(events[c]) + 1 \/ i \in 1 .. Len(events[c])
  BY <1>5
<1>7. events' \in [Calls -> Seq(Event)] /\ \A d \in Calls \ {c} : events'[d] = events[d]
  BY <1>1, <1>3, AppendEvent
<1> QED
  BY <1>5, <1>6, <1>7

LEMMA StartInv ==
  ASSUME IInv, NEW c \in Calls, Start(c)
  PROVE  IInv'
<1> DEFINE e == [kind |-> "started", class |-> "none"]
<1>0. /\ TypeOK /\ CallInv(c) /\ \A d \in Calls : CallInv(d)
      /\ e \in Event /\ e.kind = "started" /\ e.class = "none"
  BY DEF IInv, Event
<1>1. /\ pc[c] = "idle" /\ pc' = [pc EXCEPT ![c] = "announcing"]
      /\ Publish(c, e.kind, e.class)
      /\ UNCHANGED <<attempt, pending, result, decision, works, late>>
  BY <1>0 DEF Start, Goto
<1> HIDE DEF e
<1>2. TypeOK' /\ Others(c)
  BY <1>0, <1>1, PublishFacts DEF TypeOK, Others, Still, Awaits
<1>3. CallType(c)'
  BY <1>2 DEF TypeOK, CallType
<1>4. Executions(c)'
  BY <1>0, <1>1 DEF TypeOK, CallInv, Executions
<1>5. Cleared(c)'
  <2>1. /\ Len(events'[c]) = Len(events[c]) + 1 /\ Len(events[c]) \in Nat
        /\ events'[c][Len(events'[c])] = e
        /\ \A i \in 1 .. Len(events[c]) : events'[c][i] = events[c][i]
        /\ \A i \in 1 .. Len(events'[c]) :
             events'[c][i] = e \/ (i \in 1 .. Len(events[c]) /\ events'[c][i] = events[c][i])
    BY <1>0, <1>1, PublishFacts
  <2>2. /\ pc[c] = "idle" /\ pc'[c] = "announcing" /\ attempt'[c] = 0
        /\ decision'[c] = "none" /\ works'[c] = works[c]
    BY <1>0, <1>1 DEF TypeOK, CallInv, Executions, Cleared
  <2>3. Cleared(c)
    BY <1>0 DEF CallInv
  <2>4. \A i \in 1 .. Len(events'[c]) :
          /\ events'[c][i].kind = "denied" => decision'[c] = "deny"
          /\ events'[c][i].kind = "finished" => works'[c] > 0
    BY <1>0, <2>1, <2>2, <2>3 DEF Cleared
  <2>5. decision'[c] = "allow" =>
          Len(events'[c]) > 1 /\ events'[c][2].kind = "granted"
    BY <1>0, <2>1, <2>2, <2>3 DEF Cleared
  <2> QED
    BY <2>1, <2>2, <2>3, <2>4, <2>5 DEF Cleared
<1>6. LastWord(c)'
  BY <1>0, <1>1 DEF TypeOK, LastWord
<1> QED
  BY <1>0, <1>2, <1>3, <1>4, <1>5, <1>6, Isolation DEF CallInv

\* The user decided: permission.granted or permission.denied is published.
LEMMA UserDecisionInv ==
  ASSUME IInv, NEW c \in Calls, pc[c] = "asking",
         NEW kind, NEW d, NEW at,
         \/ kind = "granted" /\ d = "allow" /\ at = "granting"
         \/ kind = "denied" /\ d = "deny" /\ at = "denying",
         Publish(c, kind, "none"), Goto(c, at),
         decision' = [decision EXCEPT ![c] = d],
         UNCHANGED <<attempt, pending, result, works, late>>
  PROVE  IInv'
<1> DEFINE e == [kind |-> kind, class |-> "none"]
<1>0. /\ TypeOK /\ CallInv(c) /\ \A x \in Calls : CallInv(x)
      /\ e \in Event /\ e.kind = kind /\ e.class = "none"
  BY DEF IInv, Event
<1>1. pc' = [pc EXCEPT ![c] = at] /\ Publish(c, e.kind, e.class)
  BY <1>0 DEF Goto
<1> HIDE DEF e
<1>2. TypeOK' /\ Others(c)
  BY <1>0, <1>1, PublishFacts DEF TypeOK, Others, Still, Awaits
<1>3. CallType(c)'
  BY <1>2 DEF TypeOK, CallType
<1>4. Executions(c)'
  BY <1>0, <1>1 DEF TypeOK, CallInv, Executions
<1>5. Cleared(c)'
  <2>1. /\ Len(events'[c]) = Len(events[c]) + 1 /\ Len(events[c]) \in Nat
        /\ events'[c][Len(events'[c])] = e
        /\ \A i \in 1 .. Len(events[c]) : events'[c][i] = events[c][i]
        /\ \A i \in 1 .. Len(events'[c]) :
             events'[c][i] = e \/ (i \in 1 .. Len(events[c]) /\ events'[c][i] = events[c][i])
    BY <1>0, <1>1, PublishFacts
  <2>2. /\ pc[c] = "asking" /\ pc'[c] = at /\ attempt'[c] = 0
        /\ decision'[c] = d /\ decision[c] = "none" /\ works'[c] = works[c]
        /\ Len(events[c]) = 1
    BY <1>0, <1>1 DEF TypeOK, CallInv, Executions, Cleared
  <2>3. Cleared(c)
    BY <1>0 DEF CallInv
  <2>4. \A i \in 1 .. Len(events'[c]) :
          /\ events'[c][i].kind = "denied" => decision'[c] = "deny"
          /\ events'[c][i].kind = "finished" => works'[c] > 0
    BY <1>0, <2>1, <2>2, <2>3 DEF Cleared
  <2>5. decision'[c] = "allow" =>
          Len(events'[c]) > 1 /\ events'[c][2].kind = "granted"
    BY <1>0, <2>1, <2>2, <2>3 DEF Cleared
  <2> QED
    BY <2>2, <2>3, <2>4, <2>5 DEF Cleared
<1>6. LastWord(c)'
  BY <1>0, <1>1 DEF TypeOK, LastWord
<1> QED
  BY <1>0, <1>2, <1>3, <1>4, <1>5, <1>6, Isolation DEF CallInv

LEMMA ToolSucceedsInv ==
  ASSUME IInv, NEW c \in Calls, ToolSucceeds(c)
  PROVE  IInv'
<1> DEFINE e == [kind |-> "finished", class |-> "none"]
<1>0. /\ TypeOK /\ CallInv(c) /\ \A d \in Calls : CallInv(d)
      /\ e \in Event /\ e.kind = "finished" /\ e.class = "none"
  BY DEF IInv, Event
<1>1. /\ pc[c] = "running" /\ pc' = [pc EXCEPT ![c] = "finishing"]
      /\ Publish(c, e.kind, e.class)
      /\ works' = [works EXCEPT ![c] = works[c] + 1]
      /\ UNCHANGED <<attempt, pending, result, decision, late>>
  BY <1>0 DEF ToolSucceeds, Goto
<1>2. TypeOK' /\ Others(c)
  BY <1>0, <1>1, PublishFacts DEF TypeOK, Others, Still, Awaits
<1>3. CallType(c)'
  BY <1>2 DEF TypeOK, CallType
<1>4. Executions(c)'
  BY <1>0, <1>1 DEF TypeOK, CallInv, CallType, Executions
<1>5. Cleared(c)'
  <2>1. /\ Len(events'[c]) = Len(events[c]) + 1 /\ Len(events[c]) \in Nat
        /\ events'[c][Len(events'[c])] = e
        /\ \A i \in 1 .. Len(events[c]) : events'[c][i] = events[c][i]
        /\ \A i \in 1 .. Len(events'[c]) :
             events'[c][i] = e \/ (i \in 1 .. Len(events[c]) /\ events'[c][i] = events[c][i])
    BY <1>0, <1>1, PublishFacts
  <2>2. /\ pc[c] = "running" /\ pc'[c] = "finishing" /\ attempt'[c] = attempt[c]
        /\ attempt[c] > 0 /\ decision'[c] = decision[c] /\ works'[c] > 0
    BY <1>0, <1>1 DEF TypeOK, CallInv, CallType, Executions
  <2>3. Cleared(c)
    BY <1>0 DEF CallInv
  <2>4. \A i \in 1 .. Len(events'[c]) :
          /\ events'[c][i].kind = "denied" => decision'[c] = "deny"
          /\ events'[c][i].kind = "finished" => works'[c] > 0
    BY <1>0, <2>1, <2>2, <2>3 DEF Cleared
  <2>5. decision'[c] = "allow" =>
          Len(events'[c]) > 1 /\ events'[c][2].kind = "granted"
    BY <1>0, <2>1, <2>2, <2>3 DEF Cleared
  <2> QED
    BY <2>2, <2>3, <2>4, <2>5 DEF Cleared
<1>6. LastWord(c)'
  BY <1>0, <1>1, PublishFacts DEF TypeOK, LastWord, LastEvent
<1> QED
  BY <1>0, <1>2, <1>3, <1>4, <1>5, <1>6, Isolation DEF CallInv

\* A failure is published, before a further attempt (at = "reporting") or as
\* the verdict (at = "failing"): what becomes of the call.
LEMMA FailureCall ==
  ASSUME TypeOK, NEW c \in Calls, CallInv(c), NEW class \in Errors, NEW at,
         \/ at = "failing"
         \/ at = "reporting" /\ attempt[c] <= Retries /\ pc[c] \in {"running", "finishing"},
         pc'[c] = at, pending'[c] = class, Publish(c, "failed", class),
         attempt'[c] = attempt[c] /\ result'[c] = result[c],
         pc[c] \in {"announcing", "asking", "denying", "running", "finishing"},
         \/ works'[c] = works[c]
         \/ works'[c] = works[c] + 1 /\ pc[c] = "running" /\ at = "failing",
         late'[c] = (IF pc[c] = "finishing" THEN late[c] + 1 ELSE late[c]),
         decision'[c] = IF pc[c] = "asking" THEN "auto_deny" ELSE decision[c]
  PROVE  CallInv(c)'
<1> DEFINE e == [kind |-> "failed", class |-> class]
<1>0. /\ CallType(c) /\ Executions(c) /\ Cleared(c)
      /\ e \in Event /\ e.kind = "failed" /\ e.class = class
      /\ works[c] \in Nat /\ late[c] \in Nat /\ attempt[c] \in Nat
  BY ToolCallAssumption DEF CallInv, CallType, Event
<1>1. Publish(c, e.kind, e.class)
  BY <1>0
<1>2. CallType(c)'
  <2>1. events'[c] \in Seq(Event)
    BY <1>0, <1>1, PublishFacts
  <2>2. pc'[c] \in Awaits
    BY DEF Awaits
  <2>3. works'[c] \in Nat /\ late'[c] \in Nat
    BY <1>0
  <2> QED
    BY <1>0, <2>1, <2>2, <2>3 DEF CallType
<1>6. Executions(c)'
  BY <1>0 DEF Executions
<1>7. Cleared(c)'
  <2>1. /\ Len(events'[c]) = Len(events[c]) + 1 /\ Len(events[c]) \in Nat
        /\ \A i \in 1 .. Len(events[c]) : events'[c][i] = events[c][i]
        /\ \A i \in 1 .. Len(events'[c]) :
             events'[c][i] = e \/ (i \in 1 .. Len(events[c]) /\ events'[c][i] = events[c][i])
    BY <1>0, <1>1, PublishFacts
  <2>2. pc[c] = "asking" => attempt[c] = 0
    BY <1>0 DEF Executions
  <2>3. ASSUME NEW i \in 1 .. Len(events'[c])
        PROVE  /\ events'[c][i].kind = "denied" => decision'[c] = "deny"
               /\ events'[c][i].kind = "finished" => works'[c] > 0
    <3>1. CASE events'[c][i] = e
      BY <1>0, <3>1
    <3>2. CASE i \in 1 .. Len(events[c]) /\ events'[c][i] = events[c][i]
      <4>1. events[c][i].kind = "denied" => decision[c] = "deny"
        BY <1>0, <3>2 DEF Cleared
      <4>2. events[c][i].kind = "finished" => works[c] > 0
        BY <1>0, <3>2 DEF Cleared
      <4>3. pc[c] = "asking" => decision[c] = "none"
        BY <1>0 DEF Cleared
      <4> QED
        BY <1>0, <3>2, <4>1, <4>2, <4>3
    <3> QED
      BY <2>1, <3>1, <3>2
  <2>4. decision'[c] = "allow" =>
          Len(events'[c]) > 1 /\ events'[c][2].kind = "granted"
    <3>1. decision'[c] = "allow" => decision[c] = "allow"
      OBVIOUS
    <3>2. decision[c] = "allow" => Len(events[c]) > 1 /\ events[c][2].kind = "granted"
      BY <1>0 DEF Cleared
    <3>3. Len(events[c]) > 1 => Len(events'[c]) > 1 /\ events'[c][2] = events[c][2]
      BY <2>1
    <3> QED
      BY <3>1, <3>2, <3>3
  <2> QED
    BY <1>0, <2>2, <2>3, <2>4 DEF Cleared
<1>8. LastWord(c)'
  <2>1. LastEvent(c)' = e
    BY <1>0, <1>1, PublishFacts DEF LastEvent
  <2>2. pc'[c] \in {"failing", "reporting"} /\ pending'[c] = class /\ class \in Errors
    OBVIOUS
  <2> QED
    BY <2>1, <2>2 DEF LastWord
<1> QED
  BY <1>2, <1>6, <1>7, <1>8 DEF CallInv

LEMMA FailureInv ==
  ASSUME IInv, NEW c \in Calls, NEW class \in Errors, NEW at,
         \/ at = "failing"
         \/ at = "reporting" /\ attempt[c] <= Retries /\ pc[c] \in {"running", "finishing"},
         pending' = [pending EXCEPT ![c] = class],
         Publish(c, "failed", class), Goto(c, at),
         UNCHANGED <<attempt, result>>,
         \/ /\ pc[c] \in {"announcing", "denying", "running"}
            /\ UNCHANGED <<decision, works, late>>
         \/ /\ pc[c] = "asking" /\ decision' = [decision EXCEPT ![c] = "auto_deny"]
            /\ UNCHANGED <<works, late>>
         \/ /\ pc[c] = "running" /\ at = "failing"
            /\ works' = [works EXCEPT ![c] = works[c] + 1]
            /\ UNCHANGED <<decision, late>>
         \/ /\ pc[c] = "finishing" /\ late' = [late EXCEPT ![c] = late[c] + 1]
            /\ UNCHANGED <<decision, works>>
  PROVE  IInv'
<1> DEFINE e == [kind |-> "failed", class |-> class]
<1>0. /\ TypeOK /\ CallInv(c) /\ \A d \in Calls : CallInv(d)
      /\ e \in Event /\ e.kind = "failed" /\ e.class = class
  BY DEF IInv, Event
<1>1. pc' = [pc EXCEPT ![c] = at] /\ Publish(c, e.kind, e.class)
  BY <1>0 DEF Goto
<1>2. TypeOK' /\ Others(c)
  <2>1. works' \in [Calls -> Nat] /\ late' \in [Calls -> Nat]
    <3>1. /\ works \in [Calls -> Nat] /\ late \in [Calls -> Nat]
          /\ works[c] + 1 \in Nat /\ late[c] + 1 \in Nat
      BY <1>0 DEF TypeOK
    <3>2. works' = works \/ works' = [works EXCEPT ![c] = works[c] + 1]
      OBVIOUS
    <3>3. late' = late \/ late' = [late EXCEPT ![c] = late[c] + 1]
      OBVIOUS
    <3>4. works' \in [Calls -> Nat]
      BY <3>1, <3>2
    <3>5. late' \in [Calls -> Nat]
      BY <3>1, <3>3
    <3> QED
      BY <3>4, <3>5
  <2>2. pc' \in [Calls -> Awaits \cup {"idle", "done", "raised"}]
    BY <1>0, <1>1 DEF TypeOK, Awaits
  <2>3. decision' \in [Calls -> {"none", "auto_allow", "allow", "auto_deny", "deny"}]
    BY <1>0 DEF TypeOK
  <2>4. pending' \in [Calls -> Errors \cup {"none"}]
    BY <1>0 DEF TypeOK
  <2>a. events' \in [Calls -> Seq(Event)]
    BY <1>0, <1>1, PublishFacts
  <2>5. TypeOK'
    BY <1>0, <2>1, <2>2, <2>3, <2>4, <2>a DEF TypeOK
  <2>6. Others(c)
    BY <1>0, <1>1, PublishFacts DEF TypeOK, Others, Still
  <2> QED
    BY <2>5, <2>6
<1>3. /\ pc'[c] = at /\ attempt'[c] = attempt[c] /\ pending'[c] = class
      /\ result'[c] = result[c]
  BY <1>0, <1>1 DEF TypeOK
<1>4. /\ \/ works'[c] = works[c]
         \/ works'[c] = works[c] + 1 /\ pc[c] = "running" /\ at = "failing"
      /\ late'[c] = IF pc[c] = "finishing" THEN late[c] + 1 ELSE late[c]
      /\ decision'[c] = IF pc[c] = "asking" THEN "auto_deny" ELSE decision[c]
      /\ pc[c] \in {"announcing", "asking", "denying", "running", "finishing"}
  BY <1>0 DEF TypeOK
<1>5. CallInv(c)'
  BY <1>0, <1>3, <1>4, FailureCall
<1> QED
  BY <1>0, <1>2, <1>5, Isolation

LEMMA AttemptFailsInv ==
  ASSUME IInv, NEW c \in Calls, NEW class \in ToolErrors, AttemptFails(c, class),
         UNCHANGED <<attempt, result, decision, works>>,
         \/ pc[c] = "running" /\ UNCHANGED late
         \/ pc[c] = "finishing" /\ late' = [late EXCEPT ![c] = late[c] + 1]
  PROVE  IInv'
<1>1. class \in Errors
  BY DEF Errors
<1>2. CASE class \in Retryable /\ attempt[c] <= Retries
  <2>1. /\ pending' = [pending EXCEPT ![c] = class]
        /\ Publish(c, "failed", class) /\ Goto(c, "reporting")
    BY <1>2 DEF AttemptFails
  <2> QED
    BY <1>1, <1>2, <2>1, FailureInv
<1>3. CASE ~(class \in Retryable /\ attempt[c] <= Retries)
  <2>1. /\ pending' = [pending EXCEPT ![c] = class]
        /\ Publish(c, "failed", class) /\ Goto(c, "failing")
    BY <1>3 DEF AttemptFails, Fail
  <2> QED
    BY <1>1, <2>1, FailureInv
<1> QED
  BY <1>2, <1>3

-----------------------------------------------------------------------------
LEMMA InitInv == Init => IInv
<1> SUFFICES ASSUME Init PROVE IInv
  OBVIOUS
<1>1. TypeOK
  BY ToolCallAssumption DEF Init, TypeOK, Awaits
<1>2. ASSUME NEW c \in Calls PROVE CallInv(c)
  BY <1>1, <1>2 DEF Init, TypeOK, CallInv, CallType, Executions, Cleared, LastWord
<1> QED
  BY <1>1, <1>2 DEF IInv

LEMMA CallStepInv ==
  ASSUME IInv, NEW c \in Calls, CallStep(c)
  PROVE  IInv'
<1>0. TypeOK /\ CallInv(c)
  BY DEF IInv
<1>1. CASE Start(c)
  BY <1>1, StartInv
<1>2. CASE Validate(c)
  <2>1. CASE \E class \in {"runtime_error", "schema_error"} : Fail(c, class)
    <3>1. PICK class \in {"runtime_error", "schema_error"} : Fail(c, class)
      BY <2>1
    <3>2. class \in Errors /\ pc[c] = "announcing"
      BY <1>2 DEF Validate, Errors, ToolErrors, Retryable
    <3>3. /\ pending' = [pending EXCEPT ![c] = class]
          /\ Publish(c, "failed", class) /\ Goto(c, "failing")
          /\ UNCHANGED <<attempt, result, decision, works, late>>
      BY <1>2, <3>1 DEF Fail, Validate
    <3> QED
      BY <3>2, <3>3, FailureInv
  <2>2. CASE Goto(c, "asking") /\ UNCHANGED <<events, pending>>
    <3>0. \A d \in Calls : CallInv(d)
      BY DEF IInv
    <3>1. /\ pc[c] = "announcing" /\ pc' = [pc EXCEPT ![c] = "asking"]
          /\ UNCHANGED <<attempt, pending, result, decision, events, works, late>>
      BY <1>2, <2>2 DEF Validate, Goto
    <3>2. TypeOK' /\ Others(c)
      BY <1>0, <3>1 DEF TypeOK, Others, Still, Awaits
    <3>3. CallType(c)'
      BY <3>2 DEF TypeOK, CallType
    <3>4. Executions(c)' /\ Cleared(c)' /\ LastWord(c)'
      BY <1>0, <3>1 DEF TypeOK, CallInv, Executions, Cleared, LastWord
    <3> QED
      BY <1>0, <3>0, <3>2, <3>3, <3>4, Isolation DEF CallInv
  <2> QED
    BY <1>2, <2>1, <2>2 DEF Validate
<1>3. CASE Decided(c)
  <2>0. pc[c] = "asking" /\ decision \in [Calls -> {"none", "auto_allow", "allow", "auto_deny", "deny"}]
    BY <1>0, <1>3 DEF Decided, TypeOK
  <2>1. CASE /\ decision' = [decision EXCEPT ![c] = "auto_allow"]
             /\ Execute(c)
             /\ UNCHANGED <<events, pending>>
    <3>1. decision'[c] = "auto_allow"
      BY <2>0, <2>1
    <3>2. decision' = [decision EXCEPT ![c] = decision'[c]]
      BY <2>1, <3>1
    <3>3. UNCHANGED <<pending, result, events, works, late>>
      BY <1>3, <2>1 DEF Decided
    <3> QED
      BY <2>0, <2>1, <3>1, <3>2, <3>3, ExecuteInv
  <2>2. CASE /\ decision' = [decision EXCEPT ![c] = "allow"]
             /\ Publish(c, "granted", "none")
             /\ Goto(c, "granting")
             /\ UNCHANGED <<attempt, pending>>
    <3>1. UNCHANGED <<attempt, pending, result, works, late>>
      BY <1>3, <2>2 DEF Decided
    <3> QED
      BY <2>0, <2>2, <3>1, UserDecisionInv
  <2>3. CASE /\ decision' = [decision EXCEPT ![c] = "auto_deny"]
             /\ Fail(c, "permission_denied")
             /\ UNCHANGED attempt
    <3>1. /\ pending' = [pending EXCEPT ![c] = "permission_denied"]
          /\ Publish(c, "failed", "permission_denied") /\ Goto(c, "failing")
          /\ UNCHANGED <<attempt, result, works, late>>
          /\ "permission_denied" \in Errors
      BY <1>3, <2>3 DEF Decided, Fail, Errors
    <3> QED
      BY <2>0, <2>3, <3>1, FailureInv
  <2>4. CASE /\ decision' = [decision EXCEPT ![c] = "deny"]
             /\ Publish(c, "denied", "none")
             /\ Goto(c, "denying")
             /\ UNCHANGED <<attempt, pending>>
    <3>1. UNCHANGED <<attempt, pending, result, works, late>>
      BY <1>3, <2>4 DEF Decided
    <3> QED
      BY <2>0, <2>4, <3>1, UserDecisionInv
  <2> QED
    BY <1>3, <2>1, <2>2, <2>3, <2>4 DEF Decided
<1>4. CASE Granted(c) \/ Again(c)
  <2>1. /\ pc[c] \in {"granting", "backoff"} /\ Execute(c)
        /\ UNCHANGED <<pending, result, decision, events, works, late>>
    BY <1>4 DEF Granted, Again
  <2>2. decision' = [decision EXCEPT ![c] = decision'[c]]
    BY <1>0, <2>1 DEF TypeOK
  <2> QED
    BY <2>1, <2>2, ExecuteInv
<1>5. CASE Denied(c)
  <2>1. /\ pc[c] = "denying" /\ pending' = [pending EXCEPT ![c] = "permission_denied"]
        /\ Publish(c, "failed", "permission_denied") /\ Goto(c, "failing")
        /\ UNCHANGED <<attempt, result, decision, works, late>>
        /\ "permission_denied" \in Errors
    BY <1>5 DEF Denied, Fail, Errors
  <2> QED
    BY <2>1, FailureInv
<1>6. CASE ToolSucceeds(c)
  BY <1>6, ToolSucceedsInv
<1>7. CASE \E class \in ToolErrors : ToolFails(c, class)
  <2>1. PICK class \in ToolErrors : ToolFails(c, class)
    BY <1>7
  <2>2. /\ pc[c] = "running" /\ AttemptFails(c, class)
        /\ UNCHANGED <<attempt, result, decision, works, late>>
    BY <2>1 DEF ToolFails
  <2> QED
    BY <2>2, AttemptFailsInv
<1>8. CASE TimesOut(c)
  <2>1. /\ pc[c] = "running" /\ pending' = [pending EXCEPT ![c] = "timeout"]
        /\ Publish(c, "failed", "timeout") /\ Goto(c, "failing")
        /\ UNCHANGED <<attempt, result, decision, late>>
        /\ works' = works \/ works' = [works EXCEPT ![c] = works[c] + 1]
        /\ "timeout" \in Errors
    BY <1>8 DEF TimesOut, Fail, Errors
  <2> QED
    BY <2>1, FailureInv
<1>9. CASE Reported(c)
  BY <1>9, ReportedInv
<1>10. CASE Return(c)
  BY <1>10, ReturnInv
<1>11. CASE PublishFails(c)
  <2>1. UNCHANGED <<attempt, result, decision, works>>
    BY <1>11 DEF PublishFails
  <2>2. CASE /\ pc[c] = "finishing"
             /\ late' = [late EXCEPT ![c] = @ + 1]
             /\ AttemptFails(c, "runtime_error")
    <3>1. "runtime_error" \in ToolErrors
      BY DEF ToolErrors, Retryable
    <3> QED
      BY <2>1, <2>2, <3>1, AttemptFailsInv
  <2>3. CASE /\ pc[c] \in {"announcing", "granting", "denying", "reporting", "failing"}
             /\ Goto(c, "raised")
             /\ UNCHANGED <<late, pending, events>>
    BY <2>1, <2>3, RaisedInv DEF Awaits
  <2> QED
    BY <1>11, <2>2, <2>3 DEF PublishFails
<1>12. CASE Cancel(c)
  BY <1>12, RaisedInv DEF Cancel
<1> QED
  BY <1>1, <1>2, <1>3, <1>4, <1>5, <1>6, <1>7, <1>8, <1>9, <1>10, <1>11, <1>12 DEF CallStep

LEMMA StutterInv == IInv /\ UNCHANGED vars => IInv'
BY DEF vars, IInv, TypeOK, CallInv, CallType, Executions, Cleared, LastWord, LastEvent

THEOREM Invariance == Spec => []IInv
<1>1. IInv /\ [Next]_vars => IInv'
  BY CallStepInv, StutterInv DEF Next
<1> QED
  BY <1>1, InitInv, PTL DEF Spec

\* For any number of calls: what the clients saw last is what the model is told
\* (invocation.py:167-236).
THEOREM VerdictMatchesHolds == Spec => []VerdictMatches
<1>1. IInv => VerdictMatches
  BY DEF IInv, CallInv, LastWord, VerdictMatches
<1> QED
  BY <1>1, Invariance, PTL

LEMMA ConsentKnown == IInv => ConsentBeforeWork
<1> SUFFICES ASSUME IInv, NEW c \in Calls
             PROVE  /\ attempt[c] > 0 =>
                         \/ decision[c] = "auto_allow"
                         \/ decision[c] = "allow" /\ events[c][2].kind = "granted"
                    /\ Kinds(c, {"denied"}) # {} =>
                         works[c] = 0 /\ Kinds(c, {"finished"}) = {}
  BY DEF ConsentBeforeWork
<1>0. CallType(c) /\ Executions(c) /\ Cleared(c)
  BY DEF IInv, CallInv
<1>1. attempt[c] > 0 =>
        \/ decision[c] = "auto_allow"
        \/ decision[c] = "allow" /\ events[c][2].kind = "granted"
  BY <1>0 DEF Cleared
<1>2. ASSUME Kinds(c, {"denied"}) # {} PROVE decision[c] = "deny"
  BY <1>0, <1>2 DEF Kinds, CallType, Cleared
<1>3. decision[c] = "deny" => works[c] = 0
  BY <1>0 DEF CallType, Cleared, Executions
<1>4. works[c] = 0 => Kinds(c, {"finished"}) = {}
  BY <1>0 DEF Kinds, CallType, Cleared
<1> QED
  BY <1>1, <1>2, <1>3, <1>4

LEMMA WorkKnown == IInv => NoSecondWork
BY DEF IInv, CallInv, CallType, Executions, NoSecondWork

\* No tool runs without consent, and a denied call does no work
\* (invocation.py:123-165).
THEOREM ConsentBeforeWorkHolds == Spec => []ConsentBeforeWork
BY ConsentKnown, Invariance, PTL

\* Work that is done is not done again, and one permission covers at most
\* Retries + 1 executions (invocation.py:167-226).
THEOREM NoSecondWorkHolds == Spec => []NoSecondWork
BY WorkKnown, Invariance, PTL

-----------------------------------------------------------------------------
(* Counting the verdicts.  Kinds is a set of positions, to which publishing *)
(* a verdict adds the last one.                                             *)

Verdicts(c) == Cardinality(Kinds(c, {"finished", "failed"}))

\* Each execution has its verdict, the one under way excepted; an undelivered
\* finished event adds one.  A call cancelled while it runs leaves without.
Counted(c) ==
  /\ attempt[c] = 0 => Verdicts(c) <= 1
  /\ pc[c] \in {"idle", "announcing", "asking", "granting", "denying"} => Verdicts(c) = 0
  /\ pc[c] = "running" => Verdicts(c) + 1 = attempt[c] + late[c]
  /\ attempt[c] > 0 /\ pc[c] \notin {"running", "raised"} =>
       Verdicts(c) = attempt[c] + late[c]
  /\ attempt[c] > 0 /\ pc[c] = "raised" =>
       Verdicts(c) = attempt[c] + late[c] \/ Verdicts(c) + 1 = attempt[c] + late[c]

\* The positions of events of the given kinds are finitely many.
LEMMA KindsFinite ==
  ASSUME NEW c \in Calls, events[c] \in Seq(Event), NEW kinds
  PROVE  IsFiniteSet(Kinds(c, kinds)) /\ Cardinality(Kinds(c, kinds)) \in Nat
<1>1. Len(events[c]) \in Nat /\ DOMAIN events[c] = 1 .. Len(events[c])
  OBVIOUS
<1>2. IsFiniteSet(1 .. Len(events[c]))
  BY <1>1, FS_Interval
<1>3. Kinds(c, kinds) \in SUBSET (1 .. Len(events[c]))
  BY <1>1 DEF Kinds
<1>4. IsFiniteSet(Kinds(c, kinds))
  BY <1>2, <1>3, FS_Subset
<1> QED
  BY <1>4, FS_CardinalityType

LEMMA VerdictPublished ==
  ASSUME TypeOK, NEW c \in Calls, NEW e \in Event, Publish(c, e.kind, e.class)
  PROVE  Verdicts(c)' = IF e.kind \in {"finished", "failed"}
                        THEN Verdicts(c) + 1 ELSE Verdicts(c)
<1> DEFINE kinds == {"finished", "failed"}
           n == Len(events[c])
<1>1. /\ Len(events'[c]) = n + 1 /\ n \in Nat
      /\ events'[c][n + 1] = e
      /\ \A i \in 1 .. n : events'[c][i] = events[c][i]
      /\ events[c] \in Seq(Event) /\ events'[c] \in Seq(Event)
  BY PublishFacts DEF TypeOK
<1>2. DOMAIN events[c] = 1 .. n /\ DOMAIN events'[c] = 1 .. n + 1
  BY <1>1
<1>3. Kinds(c, kinds)' = {i \in 1 .. n + 1 : events'[c][i].kind \in kinds}
  BY <1>2 DEF Kinds
<1>4. Kinds(c, kinds) = {i \in 1 .. n : events[c][i].kind \in kinds}
  BY <1>2 DEF Kinds
<1>5. 1 .. n + 1 = 1 .. n \cup {n + 1} /\ n + 1 \notin 1 .. n
  BY <1>1
<1>6. CASE e.kind \in kinds
  <2>1. Kinds(c, kinds)' = Kinds(c, kinds) \cup {n + 1} /\ n + 1 \notin Kinds(c, kinds)
    BY <1>1, <1>3, <1>4, <1>5, <1>6
  <2>2. Cardinality(Kinds(c, kinds)') = Cardinality(Kinds(c, kinds)) + 1
    BY <1>1, <2>1, KindsFinite, FS_AddElement
  <2> QED
    BY <1>6, <2>2 DEF Verdicts
<1>7. CASE e.kind \notin kinds
  <2>1. Kinds(c, kinds)' = Kinds(c, kinds)
    BY <1>1, <1>3, <1>4, <1>5, <1>7
  <2> QED
    BY <1>7, <2>1 DEF Verdicts
<1> QED
  BY <1>6, <1>7

LEMMA VerdictsSame ==
  ASSUME NEW c \in Calls, events'[c] = events[c]
  PROVE  Verdicts(c)' = Verdicts(c)
BY DEF Verdicts, Kinds

LEMMA StillCounted ==
  ASSUME NEW d \in Calls, Counted(d), Still(d)
  PROVE  Counted(d)'
BY VerdictsSame DEF Still, Counted

LEMMA RaisedCounted ==
  ASSUME NEW c \in Calls, CallInv(c), Counted(c), pc[c] \in Awaits, pc'[c] = "raised",
         attempt'[c] = attempt[c] /\ events'[c] = events[c] /\ late'[c] = late[c]
  PROVE  Counted(c)'
<1>1. Verdicts(c)' = Verdicts(c)
  BY VerdictsSame
<1> QED
  BY <1>1 DEF Counted, Awaits

\* What FailureCall is for CallInv.
LEMMA FailureCounted ==
  ASSUME TypeOK, NEW c \in Calls, CallInv(c), Counted(c), NEW class \in Errors, NEW at,
         at \in {"failing", "reporting"},
         pc'[c] = at, Publish(c, "failed", class), attempt'[c] = attempt[c],
         pc[c] \in {"announcing", "asking", "denying", "running", "finishing"},
         late'[c] = IF pc[c] = "finishing" THEN late[c] + 1 ELSE late[c]
  PROVE  Counted(c)'
<1> DEFINE e == [kind |-> "failed", class |-> class]
<1>1. e \in Event /\ Publish(c, e.kind, e.class) /\ e.kind = "failed"
  BY DEF Event
<1>2. Verdicts(c)' = Verdicts(c) + 1
  BY <1>1, VerdictPublished
<1>3. Verdicts(c) \in Nat /\ attempt[c] \in Nat /\ late[c] \in Nat
  BY KindsFinite, ToolCallAssumption DEF Verdicts, TypeOK
<1>4. /\ pc[c] \in {"announcing", "asking", "denying"} => attempt[c] = 0
      /\ pc[c] \in {"running", "finishing"} => attempt[c] > 0
  BY DEF CallInv, Executions
<1> QED
  BY <1>2, <1>3, <1>4 DEF Counted

\* The steps of one call keep its count.
LEMMA CountedStep ==
  ASSUME IInv, NEW c \in Calls, CallStep(c), Counted(c)
  PROVE  Counted(c)'
<1>0. /\ TypeOK /\ CallInv(c) /\ Executions(c) /\ pc[c] \in Awaits \cup {"idle", "done", "raised"}
      /\ Verdicts(c) \in Nat /\ attempt[c] \in Nat /\ late[c] \in Nat /\ works[c] \in Nat
  BY KindsFinite, ToolCallAssumption DEF IInv, CallInv, Verdicts, TypeOK
<1>E. ASSUME Execute(c), pc[c] \in {"asking", "granting", "backoff"},
             UNCHANGED <<events, late>>
      PROVE  Counted(c)'
  <2>1. Verdicts(c)' = Verdicts(c)
    BY <1>E, VerdictsSame
  <2>2. pc'[c] = "running" /\ attempt'[c] = attempt[c] + 1 /\ late'[c] = late[c]
    BY <1>0, <1>E DEF Execute, Goto, TypeOK
  <2>3. pc[c] \in {"asking", "granting"} => attempt[c] = 0 /\ late[c] = 0
    BY <1>0 DEF Executions
  <2>4. pc[c] = "backoff" => attempt[c] > 0
    BY <1>0 DEF Executions
  <2>5. Verdicts(c) = attempt[c] + late[c]
    BY <1>0, <1>E, <2>3, <2>4 DEF Counted
  <2> QED
    BY <1>0, <2>1, <2>2, <2>5 DEF Counted
<1>F. ASSUME NEW class \in Errors, NEW at \in {"failing", "reporting"}, Goto(c, at),
             Publish(c, "failed", class), UNCHANGED attempt,
             pc[c] \in {"announcing", "asking", "denying", "running", "finishing"},
             late'[c] = IF pc[c] = "finishing" THEN late[c] + 1 ELSE late[c]
      PROVE  Counted(c)'
  <2>1. pc'[c] = at /\ attempt'[c] = attempt[c]
    BY <1>0, <1>F DEF Goto, TypeOK
  <2> QED
    BY <1>0, <1>F, <2>1, FailureCounted
<1>P. ASSUME NEW kind \in {"started", "granted", "denied"}, Publish(c, kind, "none"),
             UNCHANGED <<attempt, late>>, attempt[c] = 0, Verdicts(c) = 0,
             Goto(c, "announcing") \/ Goto(c, "granting") \/ Goto(c, "denying")
      PROVE  Counted(c)'
  <2> DEFINE e == [kind |-> kind, class |-> "none"]
  <2>1. e \in Event /\ Publish(c, e.kind, e.class) /\ e.kind \notin {"finished", "failed"}
    BY <1>P DEF Event
  <2>2. Verdicts(c)' = 0
    BY <1>0, <1>P, <2>1, VerdictPublished
  <2>3. pc'[c] \in {"announcing", "granting", "denying"} /\ attempt'[c] = 0
    BY <1>0, <1>P DEF Goto, TypeOK
  <2> QED
    BY <2>2, <2>3 DEF Counted
<1>A. ASSUME NEW class \in ToolErrors, AttemptFails(c, class), UNCHANGED attempt,
             pc[c] \in {"running", "finishing"},
             late'[c] = IF pc[c] = "finishing" THEN late[c] + 1 ELSE late[c]
      PROVE  Counted(c)'
  <2>1. class \in Errors
    BY <1>A DEF Errors
  <2>2. /\ Publish(c, "failed", class)
        /\ Goto(c, "failing") \/ Goto(c, "reporting")
    BY <1>A DEF AttemptFails, Fail
  <2> QED
    BY <1>A, <1>F, <2>1, <2>2
<1>R. ASSUME pc[c] \in Awaits, Goto(c, "raised"), UNCHANGED <<attempt, events, late>>
      PROVE  Counted(c)'
  <2>1. pc'[c] = "raised"
    BY <1>0, <1>R DEF Goto, TypeOK
  <2> QED
    BY <1>0, <1>R, <2>1, RaisedCounted
<1>1. CASE Start(c)
  <2>1. attempt[c] = 0 /\ Verdicts(c) = 0
    BY <1>0, <1>1 DEF Start, Executions, Counted
  <2> QED
    BY <1>1, <1>P, <2>1 DEF Start
<1>2. CASE Validate(c)
  <2>1. CASE Goto(c, "asking") /\ UNCHANGED events
    <3>1. Verdicts(c)' = Verdicts(c)
      BY <2>1, VerdictsSame
    <3>2. pc'[c] = "asking" /\ attempt'[c] = 0 /\ Verdicts(c) = 0
      BY <1>0, <1>2, <2>1 DEF Validate, Goto, TypeOK, Executions, Counted
    <3> QED
      BY <3>1, <3>2 DEF Counted
  <2>2. ASSUME NEW class \in {"runtime_error", "schema_error"}, Fail(c, class)
        PROVE  Counted(c)'
    <3>1. class \in Errors
      BY DEF Errors, ToolErrors, Retryable
    <3>2. Publish(c, "failed", class) /\ Goto(c, "failing")
      BY <2>2 DEF Fail
    <3>3. pc[c] = "announcing" /\ UNCHANGED <<attempt, late>>
      BY <1>2 DEF Validate
    <3> QED
      BY <1>F, <3>1, <3>2, <3>3
  <2> QED
    BY <1>2, <2>1, <2>2 DEF Validate
<1>3. CASE Decided(c)
  <2>0. pc[c] = "asking" /\ UNCHANGED late /\ attempt[c] = 0 /\ Verdicts(c) = 0
    BY <1>0, <1>3 DEF Decided, Executions, Counted
  <2>1. CASE Execute(c) /\ UNCHANGED events
    BY <1>E, <2>0, <2>1
  <2>2. CASE Publish(c, "granted", "none") /\ Goto(c, "granting") /\ UNCHANGED attempt
    BY <1>P, <2>0, <2>2
  <2>3. CASE Fail(c, "permission_denied") /\ UNCHANGED attempt
    <3>1. "permission_denied" \in Errors
      BY DEF Errors
    <3> QED
      BY <1>F, <2>0, <2>3, <3>1 DEF Fail
  <2>4. CASE Publish(c, "denied", "none") /\ Goto(c, "denying") /\ UNCHANGED attempt
    BY <1>P, <2>0, <2>4
  <2> QED
    BY <1>3, <2>1, <2>2, <2>3, <2>4 DEF Decided
<1>4. CASE Granted(c) \/ Again(c)
  BY <1>4, <1>E DEF Granted, Again
<1>5. CASE Denied(c)
  <2>1. "permission_denied" \in Errors
    BY DEF Errors
  <2> QED
    BY <1>5, <1>F, <2>1 DEF Denied, Fail
<1>6. CASE ToolSucceeds(c)
  <2> DEFINE e == [kind |-> "finished", class |-> "none"]
  <2>1. e \in Event /\ Publish(c, e.kind, e.class) /\ e.kind = "finished"
    BY <1>6 DEF ToolSucceeds, Event
  <2>2. Verdicts(c)' = Verdicts(c) + 1
    BY <1>0, <2>1, VerdictPublished
  <2>3. pc[c] = "running" /\ pc'[c] = "finishing" /\ attempt'[c] = attempt[c] /\ late'[c] = late[c]
    BY <1>0, <1>6 DEF ToolSucceeds, Goto, TypeOK
  <2>4. attempt[c] > 0
    BY <1>0, <2>3 DEF Executions
  <2> QED
    BY <1>0, <2>2, <2>3, <2>4 DEF Counted
<1>7. ASSUME NEW class \in ToolErrors, ToolFails(c, class) PROVE Counted(c)'
  BY <1>7, <1>A DEF ToolFails
<1>8. CASE TimesOut(c)
  <2>1. "timeout" \in Errors
    BY DEF Errors
  <2> QED
    BY <1>8, <1>F, <2>1 DEF TimesOut, Fail
<1>9. CASE Reported(c) \/ Return(c)
  <2>1. Verdicts(c)' = Verdicts(c)
    BY <1>9, VerdictsSame DEF Reported, Return
  <2>2. /\ pc[c] \in {"reporting", "finishing", "failing"} /\ pc'[c] \in {"backoff", "done"}
        /\ attempt'[c] = attempt[c] /\ late'[c] = late[c]
    BY <1>0, <1>9 DEF Reported, Return, Goto, TypeOK
  <2> QED
    BY <2>1, <2>2 DEF Counted
<1>10. CASE PublishFails(c)
  <2>1. CASE /\ pc[c] = "finishing"
             /\ late' = [late EXCEPT ![c] = @ + 1]
             /\ AttemptFails(c, "runtime_error")
    <3>1. "runtime_error" \in ToolErrors /\ late'[c] = late[c] + 1
      BY <1>0, <2>1 DEF ToolErrors, Retryable, TypeOK
    <3> QED
      BY <1>10, <1>A, <2>1, <3>1 DEF PublishFails
  <2>2. CASE /\ pc[c] \in {"announcing", "granting", "denying", "reporting", "failing"}
             /\ Goto(c, "raised")
             /\ UNCHANGED <<late, pending, events>>
    BY <1>10, <1>R, <2>2 DEF PublishFails, Awaits
  <2> QED
    BY <1>10, <2>1, <2>2 DEF PublishFails
<1>11. CASE Cancel(c)
  BY <1>11, <1>R DEF Cancel
<1> QED
  BY <1>1, <1>2, <1>3, <1>4, <1>5, <1>6, <1>7, <1>8, <1>9, <1>10, <1>11 DEF CallStep

\* A step of call c leaves the others alone.
LEMMA OthersStill ==
  ASSUME IInv, NEW c \in Calls, CallStep(c)
  PROVE  Others(c)
<1> USE DEF Others, Still, TypeOK, IInv, Goto, Publish, Fail, Execute, AttemptFails
<1>1. CASE Start(c) \/ Validate(c)
  BY <1>1 DEF Start, Validate
<1>2. CASE Decided(c)
  BY <1>2 DEF Decided
<1>3. CASE Granted(c) \/ Denied(c) \/ ToolSucceeds(c)
  BY <1>3 DEF Granted, Denied, ToolSucceeds
<1>4. ASSUME NEW class \in ToolErrors, ToolFails(c, class) PROVE Others(c)
  BY <1>4 DEF ToolFails
<1>5. CASE TimesOut(c) \/ Reported(c) \/ Again(c)
  BY <1>5 DEF TimesOut, Reported, Again
<1>6. CASE Return(c) \/ PublishFails(c) \/ Cancel(c)
  BY <1>6 DEF Return, PublishFails, Cancel
<1> QED
  BY <1>1, <1>2, <1>3, <1>4, <1>5, <1>6 DEF CallStep

AllCounted == \A c \in Calls : Counted(c)

LEMMA AllCountedStep == IInv /\ AllCounted /\ [Next]_vars => AllCounted'
<1> SUFFICES ASSUME IInv, AllCounted, [Next]_vars, NEW d \in Calls PROVE Counted(d)'
  BY DEF AllCounted
<1>1. Counted(d)
  BY DEF AllCounted
<1>2. CASE UNCHANGED vars
  BY <1>1, <1>2, StillCounted DEF Still, vars
<1>3. ASSUME NEW c \in Calls, CallStep(c) PROVE Counted(d)'
  <2>1. CASE c = d
    BY <1>1, <1>3, <2>1, CountedStep
  <2>2. CASE c # d
    BY <1>1, <1>3, <2>2, OthersStill, StillCounted DEF Others
  <2> QED
    BY <2>1, <2>2
<1> QED
  BY <1>2, <1>3 DEF Next

LEMMA InitCounted == Init => AllCounted
<1> SUFFICES ASSUME Init, NEW c \in Calls PROVE Counted(c)
  BY DEF AllCounted
<1>1. events[c] = <<>> /\ attempt[c] = 0 /\ pc[c] = "idle"
  BY DEF Init
<1>2. Kinds(c, {"finished", "failed"}) = {}
  BY <1>1 DEF Kinds
<1>3. Verdicts(c) = 0
  BY <1>2, FS_EmptySet DEF Verdicts
<1> QED
  BY <1>1, <1>3 DEF Counted

LEMMA CountedReported == IInv /\ AllCounted => EachAttemptReported
<1> SUFFICES ASSUME IInv, AllCounted, NEW c \in Calls
             PROVE  LET verdicts == Cardinality(Kinds(c, {"finished", "failed"})) - late[c]
                    IN IF attempt[c] = 0 THEN verdicts <= 1
                       ELSE IF pc[c] = "running" THEN verdicts = attempt[c] - 1
                       ELSE IF pc[c] = "raised" THEN verdicts \in {attempt[c] - 1, attempt[c]}
                       ELSE verdicts = attempt[c]
  BY DEF EachAttemptReported
<1>1. /\ Verdicts(c) \in Nat /\ attempt[c] \in Nat /\ late[c] \in Nat
      /\ Cardinality(Kinds(c, {"finished", "failed"})) = Verdicts(c)
  BY KindsFinite, ToolCallAssumption DEF IInv, Verdicts, TypeOK
<1>2. Counted(c)
  BY DEF AllCounted
<1>3. /\ attempt[c] = 0 => Verdicts(c) - late[c] <= 1
      /\ attempt[c] > 0 /\ pc[c] = "running" => Verdicts(c) - late[c] = attempt[c] - 1
      /\ attempt[c] > 0 /\ pc[c] = "raised" => Verdicts(c) - late[c] \in {attempt[c] - 1, attempt[c]}
      /\ attempt[c] > 0 /\ pc[c] \notin {"running", "raised"} => Verdicts(c) - late[c] = attempt[c]
  BY <1>1, <1>2 DEF Counted
<1> QED
  BY <1>1, <1>3

\* However a call is retried, refused, cancelled or disturbed by a subscriber:
\* its events count its executions (invocation.py:180-236).
THEOREM EachAttemptReportedHolds == Spec => []EachAttemptReported
  BY InitCounted, AllCountedStep, CountedReported, Invariance, PTL DEF Spec

-----------------------------------------------------------------------------
(* Progress of a call.  Whatever step is taken, a call goes forward: to a  *)
(* later stage of the same execution or into the next one.                 *)

Stage(at) ==
  CASE at = "idle" -> 0
    [] at = "announcing" -> 1
    [] at = "asking" -> 2
    [] at \in {"granting", "denying"} -> 3
    [] at = "running" -> 4
    [] at = "finishing" -> 5
    [] at = "reporting" -> 6
    [] at = "backoff" -> 7
    [] at = "failing" -> 8
    [] OTHER -> 9

Advances(c) ==
  \/ attempt'[c] = attempt[c] /\ Stage(pc'[c]) > Stage(pc[c])
  \/ attempt'[c] = attempt[c] + 1 /\ pc[c] \in {"asking", "granting", "backoff"}

\* An event that is out is not taken back, and a step adds at most one.
EventsGrow(c) ==
  events'[c] = events[c] \/ \E e \in Event : events'[c] = Append(events[c], e)

CallMoves(c) == (Still(c) \/ Advances(c)) /\ EventsGrow(c)

CallAdvances == [][\A c \in Calls : CallMoves(c)]_vars

\* The event a stage publishes, and the stage a failure leads to.
LEMMA PublishGrows ==
  ASSUME NEW c \in Calls, IInv, NEW kind \in {"started", "granted", "denied", "finished", "failed"},
         NEW class \in Errors \cup {"none"}, Publish(c, kind, class)
  PROVE  EventsGrow(c)
<1>1. [kind |-> kind, class |-> class] \in Event
  BY DEF Event
<1>2. events'[c] = Append(events[c], [kind |-> kind, class |-> class])
  BY DEF IInv, TypeOK, Publish
<1> QED
  BY <1>1, <1>2 DEF EventsGrow

LEMMA FailMoves ==
  ASSUME NEW c \in Calls, IInv, NEW class \in Errors, Fail(c, class), attempt' = attempt,
         pc[c] \in {"announcing", "asking", "denying", "running", "finishing"}
  PROVE  CallMoves(c)
<1>1. pc'[c] = "failing" /\ attempt'[c] = attempt[c]
  BY DEF IInv, TypeOK, Fail, Goto
<1>2. Advances(c)
  BY <1>1 DEF Advances, Stage
<1>3. EventsGrow(c)
  BY PublishGrows DEF Fail
<1> QED
  BY <1>2, <1>3 DEF CallMoves

LEMMA AttemptFailsMoves ==
  ASSUME NEW c \in Calls, IInv, NEW class \in ToolErrors, AttemptFails(c, class),
         attempt' = attempt, pc[c] \in {"running", "finishing"}
  PROVE  CallMoves(c)
<1>0. class \in Errors
  BY DEF Errors
<1>1. CASE Fail(c, class)
  BY <1>0, <1>1, FailMoves
<1>2. CASE Publish(c, "failed", class) /\ Goto(c, "reporting")
  <2>1. pc'[c] = "reporting" /\ attempt'[c] = attempt[c]
    BY <1>2 DEF IInv, TypeOK, Goto
  <2>2. Advances(c)
    BY <2>1 DEF Advances, Stage
  <2>3. EventsGrow(c)
    BY <1>0, <1>2, PublishGrows
  <2> QED
    BY <2>2, <2>3 DEF CallMoves
<1> QED
  BY <1>1, <1>2 DEF AttemptFails

LEMMA ExecuteMoves ==
  ASSUME NEW c \in Calls, IInv, Execute(c), pc[c] \in {"asking", "granting", "backoff"},
         events' = events
  PROVE  CallMoves(c)
<1>1. attempt'[c] = attempt[c] + 1
  BY DEF IInv, TypeOK, Execute
<1> QED
  BY <1>1 DEF CallMoves, Advances, EventsGrow

\* The steps of a call that start no execution and report no failure.
LEMMA LaterStage ==
  ASSUME NEW c \in Calls, IInv, NEW at, Goto(c, at), attempt' = attempt,
         Stage(at) > Stage(pc[c]), EventsGrow(c)
  PROVE  CallMoves(c)
<1>1. pc'[c] = at /\ attempt'[c] = attempt[c]
  BY DEF IInv, TypeOK, Goto
<1> QED
  BY <1>1 DEF CallMoves, Advances

LEMMA CallStepMoves ==
  ASSUME NEW c \in Calls, IInv, CallStep(c)
  PROVE  CallMoves(c)
<1>0. events' = events => EventsGrow(c)
  BY DEF EventsGrow
<1>1. CASE Start(c)
  <2>1. Stage("announcing") > Stage(pc[c])
    BY <1>1 DEF Start, Stage
  <2> QED
    BY <1>1, <2>1, PublishGrows, LaterStage DEF Start
<1>2. CASE Validate(c)
  <2>1. ASSUME NEW class \in {"runtime_error", "schema_error"}, Fail(c, class) PROVE CallMoves(c)
    <3>1. class \in Errors
      BY DEF Errors, ToolErrors, Retryable
    <3> QED
      BY <1>2, <2>1, <3>1, FailMoves DEF Validate
  <2>2. CASE Goto(c, "asking") /\ UNCHANGED <<events, pending>>
    <3>1. Stage("asking") > Stage(pc[c])
      BY <1>2 DEF Validate, Stage
    <3> QED
      BY <1>0, <1>2, <2>2, <3>1, LaterStage DEF Validate
  <2> QED
    BY <1>2, <2>1, <2>2 DEF Validate
<1>3. CASE Decided(c)
  <2>1. pc[c] = "asking"
    BY <1>3 DEF Decided
  <2>2. CASE Execute(c) /\ UNCHANGED <<events, pending>>
    BY <2>1, <2>2, ExecuteMoves
  <2>3. CASE Publish(c, "granted", "none") /\ Goto(c, "granting") /\ UNCHANGED <<attempt, pending>>
    <3>1. Stage("granting") > Stage(pc[c])
      BY <2>1 DEF Stage
    <3> QED
      BY <2>3, <3>1, PublishGrows, LaterStage
  <2>4. CASE Fail(c, "permission_denied") /\ UNCHANGED attempt
    BY <2>1, <2>4, FailMoves DEF Errors
  <2>5. CASE Publish(c, "denied", "none") /\ Goto(c, "denying") /\ UNCHANGED <<attempt, pending>>
    <3>1. Stage("denying") > Stage(pc[c])
      BY <2>1 DEF Stage
    <3> QED
      BY <2>5, <3>1, PublishGrows, LaterStage
  <2> QED
    BY <1>3, <2>2, <2>3, <2>4, <2>5 DEF Decided
<1>4. CASE Granted(c) \/ Again(c)
  BY <1>4, ExecuteMoves DEF Granted, Again
<1>5. CASE Denied(c)
  BY <1>5, FailMoves DEF Denied, Errors
<1>6. CASE ToolSucceeds(c)
  <2>1. Stage("finishing") > Stage(pc[c])
    BY <1>6 DEF ToolSucceeds, Stage
  <2> QED
    BY <1>6, <2>1, PublishGrows, LaterStage DEF ToolSucceeds
<1>7. ASSUME NEW class \in ToolErrors, ToolFails(c, class) PROVE CallMoves(c)
  BY <1>7, AttemptFailsMoves DEF ToolFails
<1>8. CASE TimesOut(c)
  BY <1>8, FailMoves DEF TimesOut, Errors
<1>9. CASE Reported(c)
  <2>1. Stage("backoff") > Stage(pc[c])
    BY <1>9 DEF Reported, Stage
  <2> QED
    BY <1>0, <1>9, <2>1, LaterStage DEF Reported
<1>10. CASE Return(c)
  <2>1. Stage("done") > Stage(pc[c])
    BY <1>10 DEF Return, Stage
  <2> QED
    BY <1>0, <1>10, <2>1, LaterStage DEF Return
<1>11. CASE PublishFails(c)
  <2>1. CASE pc[c] = "finishing" /\ AttemptFails(c, "runtime_error")
    <3>1. "runtime_error" \in ToolErrors
      BY DEF ToolErrors, Retryable
    <3> QED
      BY <1>11, <2>1, <3>1, AttemptFailsMoves DEF PublishFails
  <2>2. CASE /\ pc[c] \in {"announcing", "granting", "denying", "reporting", "failing"}
             /\ Goto(c, "raised")
             /\ UNCHANGED <<late, pending, events>>
    <3>1. Stage("raised") > Stage(pc[c])
      BY <2>2 DEF Stage
    <3> QED
      BY <1>0, <1>11, <2>2, <3>1, LaterStage DEF PublishFails
  <2> QED
    BY <1>11, <2>1, <2>2 DEF PublishFails
<1>12. CASE Cancel(c)
  <2>1. Stage("raised") > Stage(pc[c])
    BY <1>12 DEF Cancel, Awaits, Stage
  <2> QED
    BY <1>0, <1>12, <2>1, LaterStage DEF Cancel
<1> QED
  BY <1>1, <1>2, <1>3, <1>4, <1>5, <1>6, <1>7, <1>8, <1>9, <1>10, <1>11, <1>12 DEF CallStep

LEMMA StillMoves ==
  ASSUME NEW d \in Calls, Still(d)
  PROVE  CallMoves(d)
BY DEF CallMoves, Still, EventsGrow

\* A call goes from stage to stage of an execution and from execution to
\* execution, never back, and stops for good at "done" or "raised"; with the
\* bound of NoSecondWork this limits the steps of a call and the events it
\* publishes, whatever the tool, the user and the subscribers do
\* (invocation.py:60-240).
THEOREM CallAdvancesHolds == Spec => CallAdvances
<1>1. ASSUME IInv, [Next]_vars, NEW d \in Calls PROVE CallMoves(d)
  <2>1. CASE UNCHANGED vars
    BY <2>1, StillMoves DEF vars, Still
  <2>2. ASSUME NEW c \in Calls, CallStep(c) PROVE CallMoves(d)
    <3>1. CASE c = d
      BY <1>1, <2>2, <3>1, CallStepMoves
    <3>2. CASE c # d
      BY <1>1, <2>2, <3>2, OthersStill, StillMoves DEF Others
    <3> QED
      BY <3>1, <3>2
  <2> QED
    BY <1>1, <2>1, <2>2 DEF Next
<1>2. IInv /\ [Next]_vars => [\A c \in Calls : CallMoves(c)]_vars
  BY <1>1
<1> QED
  BY <1>2, Invariance, PTL DEF Spec, CallAdvances
=============================================================================

--------------------------- MODULE SubagentsProofs ---------------------------
(***************************************************************************)
(* Proofs about Subagents, for any number of calls, any family tree of     *)
(* them and any number of retries.  What ToolCallProofs knows of one call  *)
(* holds here too; the rest of the invariant ties the children to the      *)
(* calls that started them and to those they make.                         *)
(***************************************************************************)
EXTENDS Subagents, ToolCallProofs, SequenceTheorems

SubTypes ==
  /\ what \in [Calls -> {"fg", "bg", "plain"}]
  /\ by \in [Calls -> Kids \cup {NoKid}]
  /\ kid \in [Kids -> Stages]
  /\ outcome \in [Kids -> {"running", "success", "failed"}]
  /\ reports \in [Kids -> Seq({"started", "success", "failed"})]
  /\ shown \subseteq asked /\ asked \subseteq Calls

\* The family tree: two levels of children, each call made by a child of its
\* maker.
Family ==
  \A c \in Calls :
    /\ Maker[c] # Root => what[Maker[c]] # "plain"
    /\ Maker[c] # Root /\ Maker[Maker[c]] # Root => what[c] = "plain"
    /\ by[c] # NoKid => CallOf(by[c]) = Maker[c]

\* A child belongs to an execution that has begun.  One that is announced, or
\* awaited, belongs to the execution that is under way.
StagedAt(c, n) ==
  /\ n > attempt[c] \/ what[c] = "plain" => kid[<<c, n>>] = "none"
  /\ kid[<<c, n>>] = "announcing" \/ (what[c] = "fg" /\ kid[<<c, n>>] \in Active) =>
       pc[c] = "running" /\ n = attempt[c]

Staged == \A c \in Calls, n \in 1 .. Retries + 1 : StagedAt(c, n)

\* The child that makes a call works until the call is over.
Nested ==
  \A c \in Calls : by[c] # NoKid /\ pc[c] \in Awaits => kid[by[c]] = "working"

\* The call was cancelled or ran out of time.
CutOff(c) ==
  \/ pc[c] = "raised"
  \/ pc[c] = "failing" /\ pending[c] = "timeout"
  \/ pc[c] = "done" /\ result[c] = "timeout"

\* What the clients know of a child in each of its stages.
Seen(k) ==
  /\ kid[k] = "none" => reports[k] = <<>> /\ outcome[k] = "running"
  /\ kid[k] \in {"announcing", "working"} =>
       reports[k] = <<"started">> /\ outcome[k] = "running"
  /\ kid[k] \in {"reporting", "over"} =>
       reports[k] = <<"started", outcome[k]>> /\ outcome[k] # "running"
  /\ kid[k] = "cancelled" =>
       \/ reports[k] = <<"started", outcome[k]>>
       \/ reports[k] = <<"started">> /\ CutOff(CallOf(k))
  /\ kid[k] = "broken" =>
       \/ reports[k] = <<"started", outcome[k]>>
       \/ reports[k] = <<"started">> /\ PublishRaises

AllSeen == \A k \in Kids : Seen(k)

\* The executions of a call whose child works or has done its work.
Useful(c) ==
  {n \in 1 .. Retries + 1 :
     \/ kid[<<c, n>>] \in Active
     \/ kid[<<c, n>>] = "over" /\ ~(what[c] = "fg" /\ outcome[<<c, n>>] = "failed")}

\* A call that is going to start a child has none that is of use, except those
\* whose finished event was not delivered.
SparedAt(c) ==
  /\ Cardinality(Useful(c)) <= 1 + late[c]
  /\ pc[c] \in {"reporting", "backoff"} \/ (pc[c] = "running" /\ kid[KidOf(c)] = "none") =>
       Cardinality(Useful(c)) <= late[c]

Spared == \A c \in Calls : SparedAt(c)

\* The inductive invariant.
SubInv ==
  /\ IInv /\ AllCounted
  /\ SubTypes /\ Family /\ Staged /\ Nested /\ AllSeen /\ Spared

-----------------------------------------------------------------------------
(* The data. *)

LEMMA KidShape ==
  ASSUME NEW k \in Kids
  PROVE  k[1] \in Calls /\ k[2] \in 1 .. Retries + 1 /\ k = <<k[1], k[2]>> /\ CallOf(k) = k[1]
BY DEF Kids, CallOf

LEMMA KidMade ==
  ASSUME NEW c \in Calls, NEW n \in 1 .. Retries + 1
  PROVE  <<c, n>> \in Kids /\ CallOf(<<c, n>>) = c
BY DEF Kids, CallOf

LEMMA AppendSecond ==
  ASSUME NEW S, NEW a \in S, NEW b \in S
  PROVE  Append(<<a>>, b) = <<a, b>>
<1> DEFINE s == Append(<<a>>, b)
<1>1. <<a>> \in Seq(S) /\ Len(<<a>>) = 1 /\ <<a>>[1] = a
  OBVIOUS
<1>2. s \in Seq(S) /\ Len(s) = 2 /\ s[1] = a /\ s[2] = b
  BY <1>1
<1>3. <<a, b>> \in Seq(S) /\ Len(<<a, b>>) = 2 /\ <<a, b>>[1] = a /\ <<a, b>>[2] = b
  OBVIOUS
<1> HIDE DEF s
<1>4. \A i \in 1 .. Len(s) : s[i] = <<a, b>>[i]
  <2> TAKE i \in 1 .. Len(s)
  <2>1. i = 1 \/ i = 2
    BY <1>2
  <2> QED
    BY <1>2, <1>3, <2>1
<1>5. s = <<a, b>>
  BY <1>2, <1>3, <1>4, SeqEqual
<1> QED
  BY <1>5 DEF s

\* The child of the execution that is under way.
LEMMA CurrentKid ==
  ASSUME IInv, NEW c \in Calls, pc[c] = "running"
  PROVE  /\ KidOf(c) \in Kids /\ KidOf(c) = <<c, attempt[c]>> /\ CallOf(KidOf(c)) = c
         /\ attempt[c] \in 1 .. Retries + 1
<1>1. attempt[c] \in 0 .. Retries + 1 /\ attempt[c] > 0
  BY DEF IInv, TypeOK, CallInv, Executions
<1>2. attempt[c] \in 1 .. Retries + 1
  BY <1>1, ToolCallAssumption
<1> QED
  BY <1>2, KidMade DEF KidOf

LEMMA UsefulFinite ==
  ASSUME NEW c \in Calls
  PROVE  IsFiniteSet(Useful(c)) /\ Cardinality(Useful(c)) \in Nat
<1>1. IsFiniteSet(1 .. Retries + 1)
  BY FS_Interval, ToolCallAssumption
<1>2. Useful(c) \in SUBSET (1 .. Retries + 1)
  BY DEF Useful
<1>3. IsFiniteSet(Useful(c))
  BY <1>1, <1>2, FS_Subset
<1> QED
  BY <1>3, FS_CardinalityType

\* Every event about a child passes every bridge.
LEMMA ReportReaches ==
  ASSUME NEW k, NEW kind \in {"subagent.started", "subagent.finished"}, NEW report,
         Report(k, kind, report)
  PROVE  reports' = [reports EXCEPT ![k] = Append(@, report)]
BY DEF Report, Reaches

-----------------------------------------------------------------------------
(* One step of one call. *)

LEMMA CallFacts ==
  ASSUME IInv, NEW c \in Calls, CallStep(c)
  PROVE  /\ attempt[c] \in Nat /\ late[c] \in Nat
         /\ attempt'[c] \in {attempt[c], attempt[c] + 1}
         /\ late'[c] \in {late[c], late[c] + 1}
         /\ pc[c] \in Awaits \/ (pc[c] = "idle" /\ Start(c))
         /\ CutOff(c) => CutOff(c)'
         /\ pc'[c] \in {"running", "reporting", "backoff"} =>
              \/ pc[c] \in {"asking", "granting"}
              \/ pc[c] \in {"reporting", "backoff"}
              \/ pc[c] = "running"
              \/ pc[c] = "finishing" /\ late'[c] = late[c] + 1
<1> DEFINE Goal ==
             /\ attempt'[c] \in {attempt[c], attempt[c] + 1}
             /\ late'[c] \in {late[c], late[c] + 1}
             /\ pc[c] \in Awaits \/ (pc[c] = "idle" /\ Start(c))
             /\ CutOff(c) => CutOff(c)'
             /\ pc'[c] \in {"running", "reporting", "backoff"} =>
                  \/ pc[c] \in {"asking", "granting"}
                  \/ pc[c] \in {"reporting", "backoff"}
                  \/ pc[c] = "running"
                  \/ pc[c] = "finishing" /\ late'[c] = late[c] + 1
<1>0. attempt[c] \in Nat /\ late[c] \in Nat /\ TypeOK
  BY ToolCallAssumption DEF IInv, TypeOK
<1> USE DEF TypeOK, Goto, Execute, Fail, AttemptFails, CutOff, Awaits
<1>1. CASE Start(c) \/ Validate(c) \/ Granted(c) \/ Denied(c)
  BY <1>0, <1>1 DEF Start, Validate, Granted, Denied
<1>2. CASE Decided(c)
  BY <1>0, <1>2 DEF Decided
<1>3. CASE ToolSucceeds(c) \/ TimesOut(c) \/ Reported(c) \/ Again(c)
  BY <1>0, <1>3 DEF ToolSucceeds, TimesOut, Reported, Again
<1>4. ASSUME NEW class \in ToolErrors, ToolFails(c, class) PROVE Goal
  BY <1>0, <1>4 DEF ToolFails
<1>5. CASE Return(c)
  BY <1>0, <1>5 DEF Return
<1>6. CASE PublishFails(c) \/ Cancel(c)
  BY <1>0, <1>6 DEF PublishFails, Cancel
<1> QED
  BY <1>0, <1>1, <1>2, <1>3, <1>4, <1>5, <1>6 DEF CallStep

\* A call that has not been cut off and moves is the only one that moves.
LEMMA CutOffStays ==
  ASSUME IInv, UNCHANGED vars \/ \E c \in Calls : CallStep(c), NEW d \in Calls, CutOff(d)
  PROVE  CutOff(d)'
<1>1. CASE UNCHANGED vars
  BY <1>1 DEF vars, CutOff
<1>2. ASSUME NEW c \in Calls, CallStep(c) PROVE CutOff(d)'
  <2>1. CASE c = d
    BY <1>2, <2>1, CallFacts
  <2>2. CASE c # d
    BY <1>2, <2>2, OthersStill DEF Others, Still, CutOff
  <2> QED
    BY <2>1, <2>2
<1> QED
  BY <1>1, <1>2

\* The part of the invariant that is about the calls.
LEMMA CallsStep ==
  ASSUME SubInv, UNCHANGED vars \/ \E c \in Calls : CallStep(c)
  PROVE  IInv' /\ AllCounted'
<1>1. [Next]_vars
  BY DEF Next
<1>2. IInv'
  BY <1>1, CallStepInv, StutterInv DEF SubInv, Next
<1>3. AllCounted'
  BY <1>1, AllCountedStep DEF SubInv
<1> QED
  BY <1>2, <1>3

-----------------------------------------------------------------------------
(* Steps of invoke_tool that no child takes part in. *)

\* c makes a step, or nothing about the calls changes; the children stay as
\* they are.
Quiet(c) ==
  /\ UNCHANGED vars \/ CallStep(c)
  /\ pc[c] = "running" /\ ~UNCHANGED vars => what[c] = "plain"
  /\ UNCHANGED <<what, kid, outcome, reports>>

LEMMA QuietStaged ==
  ASSUME SubInv, NEW c \in Calls, Quiet(c)
  PROVE  Staged'
<1> SUFFICES ASSUME NEW d \in Calls, NEW n \in 1 .. Retries + 1 PROVE StagedAt(d, n)'
  BY DEF Staged
<1>1. StagedAt(d, n) /\ IInv
  BY DEF SubInv, Staged
<1>2. CASE UNCHANGED vars
  BY <1>1, <1>2 DEF Quiet, vars, StagedAt
<1>3. CASE CallStep(c) /\ c # d
  BY <1>1, <1>3, OthersStill DEF Quiet, Others, Still, StagedAt
<1>4. CASE CallStep(c) /\ c = d /\ ~UNCHANGED vars
  <2>1. /\ attempt[d] \in Nat /\ attempt'[d] \in {attempt[d], attempt[d] + 1}
        /\ UNCHANGED <<what, kid>>
        /\ pc[d] = "running" => what[d] = "plain"
    BY <1>1, <1>4, CallFacts DEF Quiet
  <2>2. kid[<<d, n>>] # "announcing" /\ ~(what[d] = "fg" /\ kid[<<d, n>>] \in Active)
    BY <1>1, <2>1 DEF StagedAt, Active
  <2>3. n > attempt'[d] => n > attempt[d]
    BY <2>1
  <2> QED
    BY <1>1, <2>1, <2>2, <2>3 DEF StagedAt
<1> QED
  BY <1>2, <1>3, <1>4 DEF Quiet

LEMMA QuietSpared ==
  ASSUME SubInv, NEW c \in Calls, Quiet(c)
  PROVE  Spared'
<1> SUFFICES ASSUME NEW d \in Calls PROVE SparedAt(d)'
  BY DEF Spared
<1>1. SparedAt(d) /\ IInv /\ Cardinality(Useful(d)) \in Nat
  BY UsefulFinite DEF SubInv, Spared
<1>2. Useful(d)' = Useful(d)
  BY DEF Quiet, Useful
<1>3. CASE UNCHANGED vars
  BY <1>1, <1>2, <1>3 DEF Quiet, vars, SparedAt, KidOf
<1>4. CASE CallStep(c) /\ c # d
  BY <1>1, <1>2, <1>4, OthersStill DEF Quiet, Others, Still, SparedAt, KidOf
<1>5. CASE CallStep(c) /\ c = d /\ ~UNCHANGED vars
  <2>1. /\ late[d] \in Nat /\ late'[d] \in {late[d], late[d] + 1}
        /\ pc'[d] \in {"running", "reporting", "backoff"} =>
              \/ pc[d] \in {"asking", "granting"}
              \/ pc[d] \in {"reporting", "backoff"}
              \/ pc[d] = "running"
              \/ pc[d] = "finishing" /\ late'[d] = late[d] + 1
    BY <1>1, <1>5, CallFacts
  <2>2. ASSUME attempt[d] = 0 \/ what[d] = "plain" PROVE Cardinality(Useful(d)) = 0
    <3>1. \A n \in 1 .. Retries + 1 : kid[<<d, n>>] = "none"
      BY <2>2 DEF SubInv, Staged, StagedAt
    <3>2. Useful(d) = {}
      BY <3>1 DEF Useful, Active
    <3> QED
      BY <3>2, FS_EmptySet
  <2>3. pc[d] \in {"asking", "granting"} => attempt[d] = 0
    BY <1>1 DEF IInv, CallInv, Executions
  <2>4. pc[d] = "running" => what[d] = "plain"
    BY <1>5 DEF Quiet
  <2>5. pc'[d] \in {"running", "reporting", "backoff"} => Cardinality(Useful(d)) <= late'[d]
    BY <1>1, <2>1, <2>2, <2>3, <2>4 DEF SparedAt
  <2>6. Cardinality(Useful(d)) <= 1 + late'[d]
    BY <1>1, <2>1 DEF SparedAt
  <2> QED
    BY <1>2, <2>5, <2>6 DEF SparedAt
<1> QED
  BY <1>3, <1>4, <1>5 DEF Quiet

LEMMA QuietSeen ==
  ASSUME SubInv, NEW c \in Calls, Quiet(c)
  PROVE  AllSeen'
<1> SUFFICES ASSUME NEW k \in Kids PROVE Seen(k)'
  BY DEF AllSeen
<1>1. Seen(k) /\ IInv /\ CallOf(k) \in Calls
  BY KidShape DEF SubInv, AllSeen
<1>2. CutOff(CallOf(k)) => CutOff(CallOf(k))'
  BY <1>1, CutOffStays DEF Quiet
<1> QED
  BY <1>1, <1>2 DEF Quiet, Seen

LEMMA QuietNested ==
  ASSUME SubInv, NEW c \in Calls, Quiet(c), pc[c] # "idle" \/ UNCHANGED vars, by' = by
  PROVE  Nested'
<1> SUFFICES ASSUME NEW d \in Calls, by[d] # NoKid, pc'[d] \in Awaits
             PROVE  kid[by[d]] = "working"
  BY DEF Nested, Quiet
<1>1. pc[d] \in Awaits
  <2>1. CASE UNCHANGED vars
    BY <2>1 DEF vars
  <2>2. CASE CallStep(c) /\ c # d
    BY <2>2, OthersStill DEF SubInv, Others, Still
  <2>3. CASE CallStep(c) /\ c = d /\ pc[c] # "idle"
    BY <2>3, CallFacts DEF SubInv
  <2> QED
    BY <2>1, <2>2, <2>3 DEF Quiet
<1> QED
  BY <1>1 DEF SubInv, Nested

LEMMA QuietInv ==
  ASSUME SubInv, NEW c \in Calls, Quiet(c), pc[c] # "idle" \/ UNCHANGED vars, by' = by,
         shown' \subseteq asked' /\ asked' \subseteq Calls
  PROVE  SubInv'
<1>1. IInv' /\ AllCounted'
  BY CallsStep DEF Quiet
<1>2. SubTypes' /\ Family'
  BY DEF SubInv, SubTypes, Family, Quiet
<1> QED
  BY <1>1, <1>2, QuietStaged, QuietSpared, QuietSeen, QuietNested DEF SubInv

LEMMA AskInv ==
  ASSUME SubInv, NEW c \in Calls, Ask(c)
  PROVE  SubInv'
<1>1. Quiet(c) /\ UNCHANGED vars /\ by' = by
  BY DEF Ask, Quiet
<1>2. shown' \subseteq asked' /\ asked' \subseteq Calls
  BY DEF Ask, SubInv, SubTypes
<1> QED
  BY <1>1, <1>2, QuietInv

LEMMA DecisionInv ==
  ASSUME SubInv, NEW c \in Calls,
         AutoDecided(c) \/ UserDecides(c) \/ ApprovalTimesOut(c) \/ PlainTool(c) \/ Around(c)
  PROVE  SubInv'
<1>1. CallStep(c) /\ UNCHANGED kids
  BY DEF AutoDecided, UserDecides, ApprovalTimesOut, PlainTool, Around, CallStep
<1>2. pc[c] = "running" => what[c] = "plain"
  BY DEF AutoDecided, UserDecides, ApprovalTimesOut, PlainTool, Around, Decided,
     Validate, Granted, Denied, Reported, Again, Return, PublishFails
<1>3. pc[c] # "idle"
  BY DEF AutoDecided, UserDecides, ApprovalTimesOut, PlainTool, Around, Decided,
     Validate, Granted, Denied, Reported, Again, Return, PublishFails, ToolSucceeds,
     ToolFails, TimesOut
<1>4. Quiet(c) /\ by' = by /\ shown' \subseteq asked' /\ asked' \subseteq Calls
  BY <1>1, <1>2 DEF Quiet, kids, SubInv, SubTypes
<1> QED
  BY <1>3, <1>4, QuietInv

LEMMA StartCallInv ==
  ASSUME SubInv, NEW c \in Calls, StartCall(c)
  PROVE  SubInv'
<1>1. /\ Start(c) /\ pc[c] = "idle" /\ CallStep(c)
      /\ UNCHANGED <<what, kid, outcome, reports, asked, shown>>
  BY DEF StartCall, Start, CallStep
<1>2. Quiet(c)
  BY <1>1 DEF Quiet
<1>3. IInv' /\ AllCounted'
  BY <1>1, CallsStep
<1>4. \/ Maker[c] = Root /\ by' = by
      \/ \E k \in Kids : /\ CallOf(k) = Maker[c] /\ kid[k] = "working"
                         /\ by' = [by EXCEPT ![c] = k]
  BY DEF StartCall
<1>5. SubTypes' /\ Family'
  BY <1>1, <1>4 DEF SubInv, SubTypes, Family
<1>6. Nested'
  <2> SUFFICES ASSUME NEW d \in Calls, by'[d] # NoKid, pc'[d] \in Awaits
               PROVE  kid[by'[d]] = "working"
    BY <1>1 DEF Nested
  <2>1. CASE d # c
    <3>1. pc'[d] = pc[d] /\ by'[d] = by[d]
      BY <1>1, <1>4, <2>1, OthersStill DEF SubInv, SubTypes, Others, Still
    <3> QED
      BY <3>1 DEF SubInv, Nested
  <2>2. CASE d = c
    <3>1. CASE Maker[c] = Root /\ by' = by
      <4>1. by[c] \in Kids /\ CallOf(by[c]) = Root
        BY <2>2, <3>1 DEF SubInv, SubTypes, Family
      <4> QED
        BY <4>1, KidShape, SubagentsAssumption
    <3>2. CASE \E k \in Kids : kid[k] = "working" /\ by' = [by EXCEPT ![c] = k]
      BY <2>2, <3>2 DEF SubInv, SubTypes
    <3> QED
      BY <1>4, <3>1, <3>2
  <2> QED
    BY <2>1, <2>2
<1> QED
  BY <1>2, <1>3, <1>5, <1>6, QuietStaged, QuietSpared, QuietSeen DEF SubInv

-----------------------------------------------------------------------------
(* Steps of one child. *)

\* Child n of call c goes to another stage; the call moves with it only out of
\* the execution the child belongs to.
Moves(c, n, at) ==
  /\ kid[<<c, n>>] # "none" \/ (n = attempt[c] /\ pc[c] = "running")
  /\ what[c] # "plain" /\ at \in Stages \ {"none"}
  /\ kid' = [kid EXCEPT ![<<c, n>>] = at]
  /\ \/ UNCHANGED vars
     \/ CallStep(c) /\ n = attempt[c] /\ pc[c] = "running"
  /\ at = "announcing" \/ (what[c] = "fg" /\ at \in Active) =>
       UNCHANGED vars /\ n = attempt[c] /\ pc[c] = "running"
  /\ kid[<<c, n>>] = "working" /\ at # "working" =>
       \A d \in Calls : by[d] = <<c, n>> => pc[d] \notin Awaits
  /\ UNCHANGED <<what, by, asked, shown>>

LEMMA MovesStaged ==
  ASSUME SubInv, NEW c \in Calls, NEW n \in 1 .. Retries + 1, NEW at, Moves(c, n, at)
  PROVE  Staged'
<1> SUFFICES ASSUME NEW d \in Calls, NEW m \in 1 .. Retries + 1 PROVE StagedAt(d, m)'
  BY DEF Staged
<1>1. /\ StagedAt(d, m) /\ StagedAt(c, n) /\ IInv
      /\ kid \in [Kids -> Stages] /\ <<c, n>> \in Kids /\ <<d, m>> \in Kids
  BY KidMade DEF SubInv, SubTypes, Staged
<1>2. attempt[c] \in Nat /\ attempt[d] \in Nat
  BY ToolCallAssumption DEF SubInv, IInv, TypeOK
<1>3. attempt'[c] \in {attempt[c], attempt[c] + 1}
  BY <1>1, <1>2, CallFacts DEF Moves, vars
<1>4. n <= attempt[c]
  BY <1>1, <1>2 DEF Moves, StagedAt
<1>5. CASE d = c /\ m = n
  <2>1. kid'[<<c, n>>] = at
    BY <1>1 DEF Moves
  <2> QED
    BY <1>2, <1>3, <1>4, <1>5, <2>1 DEF Moves, StagedAt, vars
<1>6. CASE d = c /\ m # n
  <2>1. kid'[<<d, m>>] = kid[<<d, m>>]
    BY <1>1, <1>6 DEF Moves
  <2>2. m > attempt'[c] => m > attempt[c]
    BY <1>2, <1>3
  <2>3. CASE UNCHANGED vars
    BY <1>1, <2>1, <2>3 DEF StagedAt, vars, Moves
  <2>4. CASE n = attempt[c]
    BY <1>1, <1>6, <2>1, <2>2, <2>4 DEF StagedAt, Moves
  <2> QED
    BY <2>3, <2>4 DEF Moves
<1>7. CASE d # c
  <2>1. kid'[<<d, m>>] = kid[<<d, m>>]
    BY <1>1, <1>7 DEF Moves
  <2>2. attempt'[d] = attempt[d] /\ pc'[d] = pc[d]
    BY <1>1, <1>7, OthersStill DEF Moves, vars, Others, Still
  <2> QED
    BY <1>1, <2>1, <2>2 DEF StagedAt, Moves
<1> QED
  BY <1>5, <1>6, <1>7

LEMMA MovesNested ==
  ASSUME SubInv, NEW c \in Calls, NEW n \in 1 .. Retries + 1, NEW at, Moves(c, n, at)
  PROVE  Nested'
<1> SUFFICES ASSUME NEW d \in Calls, by[d] # NoKid, pc'[d] \in Awaits
             PROVE  kid'[by[d]] = "working"
  BY DEF Nested, Moves
<1>1. IInv /\ kid \in [Kids -> Stages] /\ by[d] \in Kids /\ <<c, n>> \in Kids
  BY KidMade DEF SubInv, SubTypes
<1>2. pc[d] \in Awaits
  <2>1. CASE UNCHANGED vars
    BY <2>1 DEF vars
  <2>2. CASE CallStep(c) /\ c # d
    BY <1>1, <2>2, OthersStill DEF Others, Still
  <2>3. CASE c = d /\ pc[c] = "running"
    BY <2>3 DEF Awaits
  <2> QED
    BY <2>1, <2>2, <2>3 DEF Moves
<1>3. kid[by[d]] = "working"
  BY <1>2 DEF SubInv, Nested
<1> QED
  BY <1>1, <1>2, <1>3 DEF Moves

LEMMA MovesSeen ==
  ASSUME SubInv, NEW c \in Calls, NEW n \in 1 .. Retries + 1, NEW at, Moves(c, n, at),
         \A k \in Kids \ {<<c, n>>} : outcome'[k] = outcome[k] /\ reports'[k] = reports[k],
         Seen(<<c, n>>)'
  PROVE  AllSeen'
<1> SUFFICES ASSUME NEW k \in Kids, k # <<c, n>> PROVE Seen(k)'
  BY DEF AllSeen
<1>1. Seen(k) /\ IInv /\ CallOf(k) \in Calls
  BY KidShape DEF SubInv, AllSeen
<1>2. CutOff(CallOf(k)) => CutOff(CallOf(k))'
  BY <1>1, CutOffStays DEF Moves
<1>3. kid'[k] = kid[k] /\ outcome'[k] = outcome[k] /\ reports'[k] = reports[k]
  BY DEF Moves, SubInv, SubTypes
<1> QED
  BY <1>1, <1>2, <1>3 DEF Seen

\* A child becomes of use, stays it, or is no longer.
LEMMA MovesUseful ==
  ASSUME SubInv, NEW c \in Calls, NEW n \in 1 .. Retries + 1, NEW at, Moves(c, n, at),
         \A k \in Kids \ {<<c, n>>} : outcome'[k] = outcome[k]
  PROVE  /\ Useful(c) \ {n} = Useful(c)' \ {n}
         /\ n \in Useful(c)' <=> at \in Active
                \/ (at = "over" /\ ~(what[c] = "fg" /\ outcome'[<<c, n>>] = "failed"))
         /\ \A d \in Calls \ {c} : Useful(d)' = Useful(d)
<1>1. \A d \in Calls, m \in 1 .. Retries + 1 : <<d, m>> \in Kids
  BY KidMade
<1>2. \A d \in Calls, m \in 1 .. Retries + 1 : <<d, m>> # <<c, n>> =>
        kid'[<<d, m>>] = kid[<<d, m>>] /\ outcome'[<<d, m>>] = outcome[<<d, m>>]
  BY <1>1 DEF Moves, SubInv, SubTypes
<1>3. kid'[<<c, n>>] = at /\ what' = what
  BY <1>1 DEF Moves, SubInv, SubTypes
<1>4. \A d \in Calls \ {c} : Useful(d)' = Useful(d)
  BY <1>2, <1>3 DEF Useful
<1>5. Useful(c) \ {n} = Useful(c)' \ {n}
  BY <1>2, <1>3 DEF Useful
<1>6. n \in Useful(c)' <=> at \in Active
                \/ (at = "over" /\ ~(what[c] = "fg" /\ outcome'[<<c, n>>] = "failed"))
  BY <1>3 DEF Useful
<1> QED
  BY <1>4, <1>5, <1>6

LEMMA MovesSpared ==
  ASSUME SubInv, NEW c \in Calls, NEW n \in 1 .. Retries + 1, NEW at, Moves(c, n, at),
         \A k \in Kids \ {<<c, n>>} : outcome'[k] = outcome[k],
         late'[c] = late[c],
         \/ /\ n \in Useful(c) /\ n \notin Useful(c)'
         \/ /\ n \notin Useful(c) /\ at = "announcing"
            /\ pc[c] = "running" /\ kid[<<c, n>>] = "none" /\ n = attempt[c]
         \/ /\ n \in Useful(c) /\ n \in Useful(c)'
            /\ pc'[c] \in {"reporting", "backoff", "running"} =>
                 pc'[c] = pc[c] /\ attempt'[c] = attempt[c]
  PROVE  Spared'
<1> SUFFICES ASSUME NEW d \in Calls PROVE SparedAt(d)'
  BY DEF Spared
<1>0. /\ SparedAt(d) /\ SparedAt(c) /\ IInv /\ kid \in [Kids -> Stages] /\ <<c, n>> \in Kids
      /\ late[c] \in Nat
  BY KidMade DEF SubInv, SubTypes, Spared, IInv, TypeOK
<1>1. CASE d # c
  <2>1. Useful(d)' = Useful(d)
    BY <1>1, MovesUseful
  <2>2. pc'[d] = pc[d] /\ attempt'[d] = attempt[d] /\ late'[d] = late[d]
    BY <1>0, <1>1, OthersStill DEF Moves, vars, Others, Still
  <2>3. kid'[<<d, attempt[d]>>] = kid[<<d, attempt[d]>>]
    BY <1>0, <1>1 DEF Moves
  <2> QED
    BY <1>0, <2>1, <2>2, <2>3 DEF SparedAt, KidOf
<1>2. CASE d = c
  <2> DEFINE U == Useful(c)
             V == Useful(c)'
  <2>1. IsFiniteSet(U) /\ Cardinality(U) \in Nat
    BY UsefulFinite
  <2>2. U \ {n} = V \ {n}
    BY MovesUseful
  <2>3. CASE n \in U /\ n \notin V
    <3>1. V = U \ {n}
      BY <2>2, <2>3
    <3>2. Cardinality(V) = Cardinality(U) - 1
      BY <2>1, <2>3, <3>1, FS_RemoveElement
    <3> QED
      BY <1>0, <1>2, <2>1, <3>2 DEF SparedAt
  <2>4. CASE n \notin U /\ at = "announcing"
             /\ pc[c] = "running" /\ kid[<<c, n>>] = "none" /\ n = attempt[c]
    <3>1. n \in V
      BY <2>4, MovesUseful DEF Active
    <3>2. V = U \cup {n}
      BY <2>2, <2>4, <3>1
    <3>3. Cardinality(V) = Cardinality(U) + 1
      BY <2>1, <2>4, <3>2, FS_AddElement
    <3>4. Cardinality(U) <= late[c]
      BY <1>0, <2>4 DEF SparedAt, KidOf
    <3>5. ~(pc'[c] \in {"reporting", "backoff"} \/ (pc'[c] = "running" /\ kid'[<<c, attempt'[c]>>] = "none"))
      <4>1. UNCHANGED vars /\ kid'[<<c, n>>] = at
        BY <1>0, <2>4 DEF Moves
      <4> QED
        BY <2>4, <4>1 DEF vars
    <3> QED
      BY <1>0, <1>2, <2>1, <3>3, <3>4, <3>5 DEF SparedAt, KidOf
  <2>5. CASE n \in U /\ n \in V
             /\ (pc'[c] \in {"reporting", "backoff", "running"} =>
                   pc'[c] = pc[c] /\ attempt'[c] = attempt[c])
    <3>1. V = U
      BY <2>2, <2>5
    <3>2. kid[<<c, n>>] # "none"
      BY <2>5 DEF Useful, Active
    <3>3. kid'[<<c, attempt[c]>>] = "none" => kid[<<c, attempt[c]>>] = "none"
      BY <1>0, <3>2 DEF Moves
    <3> QED
      BY <1>0, <1>2, <2>1, <2>5, <3>1, <3>3 DEF SparedAt, KidOf
  <2> QED
    BY <2>3, <2>4, <2>5
<1> QED
  BY <1>1, <1>2

LEMMA MovesInv ==
  ASSUME SubInv, NEW c \in Calls, NEW n \in 1 .. Retries + 1, NEW at, Moves(c, n, at),
         outcome' \in [Kids -> {"running", "success", "failed"}],
         reports' \in [Kids -> Seq({"started", "success", "failed"})],
         \A k \in Kids \ {<<c, n>>} : outcome'[k] = outcome[k] /\ reports'[k] = reports[k],
         Seen(<<c, n>>)', late'[c] = late[c],
         \/ /\ n \in Useful(c) /\ n \notin Useful(c)'
         \/ /\ n \notin Useful(c) /\ at = "announcing"
            /\ pc[c] = "running" /\ kid[<<c, n>>] = "none" /\ n = attempt[c]
         \/ /\ n \in Useful(c) /\ n \in Useful(c)'
            /\ pc'[c] \in {"reporting", "backoff", "running"} =>
                 pc'[c] = pc[c] /\ attempt'[c] = attempt[c]
  PROVE  SubInv'
<1>1. IInv' /\ AllCounted'
  BY CallsStep DEF Moves
<1>2. SubTypes'
  BY DEF Moves, SubInv, SubTypes
<1>3. Family'
  BY DEF Moves, SubInv, Family
<1>4. Staged' /\ Nested' /\ AllSeen'
  BY MovesStaged, MovesNested, MovesSeen
<1>5. Spared'
  BY MovesSpared
<1> QED
  BY <1>1, <1>2, <1>3, <1>4, <1>5 DEF SubInv

\* What is known of a child before it moves.
LEMMA ChildFacts ==
  ASSUME SubInv, NEW c \in Calls, NEW n \in 1 .. Retries + 1
  PROVE  /\ <<c, n>> \in Kids /\ CallOf(<<c, n>>) = c
         /\ Seen(<<c, n>>) /\ StagedAt(c, n)
         /\ pc \in [Calls -> Awaits \cup {"idle", "done", "raised"}]
         /\ outcome \in [Kids -> {"running", "success", "failed"}]
         /\ reports \in [Kids -> Seq({"started", "success", "failed"})]
         /\ kid \in [Kids -> Stages] /\ what \in [Calls -> {"fg", "bg", "plain"}]
         /\ n \in Useful(c) <=>
              \/ kid[<<c, n>>] \in Active
              \/ kid[<<c, n>>] = "over" /\ ~(what[c] = "fg" /\ outcome[<<c, n>>] = "failed")
<1>1. <<c, n>> \in Kids /\ CallOf(<<c, n>>) = c
  BY KidMade
<1>2. Seen(<<c, n>>) /\ StagedAt(c, n)
  BY <1>1 DEF SubInv, AllSeen, Staged
<1>3. n \in Useful(c) <=>
        \/ kid[<<c, n>>] \in Active
        \/ kid[<<c, n>>] = "over" /\ ~(what[c] = "fg" /\ outcome[<<c, n>>] = "failed")
  BY DEF Useful
<1> QED
  BY <1>1, <1>2, <1>3 DEF SubInv, SubTypes, IInv, TypeOK

LEMMA SpawnInv ==
  ASSUME SubInv, NEW c \in Calls, Spawn(c)
  PROVE  SubInv'
<1>0. attempt[c] \in 1 .. Retries + 1 /\ pc[c] = "running"
  BY CurrentKid DEF SubInv, Spawn
<1>N. PICK n \in 1 .. Retries + 1 : n = attempt[c]
  BY <1>0
<1> DEFINE k == <<c, n>>
<1>1. /\ pc[c] = "running" /\ what[c] # "plain" /\ kid[k] = "none"
      /\ n \in 1 .. Retries + 1 /\ k \in Kids
      /\ kid' = [kid EXCEPT ![k] = "announcing"]
      /\ UNCHANGED <<vars, what, by, outcome, asked, shown>>
  BY <1>0, <1>N, CurrentKid DEF Spawn, SubInv
<1>2. reports' = [reports EXCEPT ![k] = Append(@, "started")]
  BY <1>0, <1>N, CurrentKid, ReportReaches DEF Spawn, SubInv
<1>3. /\ Seen(k) /\ kid \in [Kids -> Stages]
      /\ outcome \in [Kids -> {"running", "success", "failed"}]
      /\ reports \in [Kids -> Seq({"started", "success", "failed"})]
      /\ n \in Useful(c) <=>
           \/ kid[k] \in Active
           \/ kid[k] = "over" /\ ~(what[c] = "fg" /\ outcome[k] = "failed")
  BY <1>1, ChildFacts
<1>4. reports[k] = <<>> /\ outcome[k] = "running"
  BY <1>1, <1>3 DEF Seen
<1>5. reports'[k] = <<"started">>
  BY <1>1, <1>2, <1>3, <1>4
<1>6. Moves(c, n, "announcing")
  BY <1>N, <1>1 DEF Moves, Stages, Active
<1>7. Seen(k)'
  BY <1>1, <1>3, <1>4, <1>5 DEF Seen
<1>8. reports' \in [Kids -> Seq({"started", "success", "failed"})]
  BY <1>1, <1>2, <1>3
<1>9. n \notin Useful(c)
  BY <1>1, <1>3 DEF Active
<1>10. late'[c] = late[c] /\ n = attempt[c]
  BY <1>N, <1>1 DEF vars
<1>11. \A x \in Kids \ {k} : outcome'[x] = outcome[x] /\ reports'[x] = reports[x]
  BY <1>1, <1>2, <1>3
<1>12. outcome' \in [Kids -> {"running", "success", "failed"}]
  BY <1>1, <1>3
<1> QED
  BY <1>1, <1>6, <1>7, <1>8, <1>9, <1>10, <1>11, <1>12, MovesInv

LEMMA SpawnRaisesInv ==
  ASSUME SubInv, NEW c \in Calls, SpawnRaises(c)
  PROVE  SubInv'
<1>0. attempt[c] \in 1 .. Retries + 1 /\ pc[c] = "running"
  BY CurrentKid DEF SubInv, SpawnRaises
<1>N. PICK n \in 1 .. Retries + 1 : n = attempt[c]
  BY <1>0
<1> DEFINE k == <<c, n>>
<1>1. /\ PublishRaises
      /\ pc[c] = "running" /\ kid[k] = "announcing"
      /\ n \in 1 .. Retries + 1 /\ k \in Kids
      /\ kid' = [kid EXCEPT ![k] = "broken"]
      /\ ToolFails(c, "runtime_error")
      /\ UNCHANGED <<what, by, outcome, reports, asked, shown>>
  BY <1>0, <1>N, CurrentKid DEF SpawnRaises, SubInv
<1>2. CallStep(c) /\ late'[c] = late[c]
  BY <1>1 DEF CallStep, ToolFails, ToolErrors, Retryable
<1>3. /\ Seen(k) /\ StagedAt(c, n) /\ kid \in [Kids -> Stages]
      /\ outcome \in [Kids -> {"running", "success", "failed"}]
      /\ reports \in [Kids -> Seq({"started", "success", "failed"})]
      /\ n \in Useful(c) <=>
           \/ kid[k] \in Active
           \/ kid[k] = "over" /\ ~(what[c] = "fg" /\ outcome[k] = "failed")
  BY <1>1, ChildFacts
<1>4. what[c] # "plain"
  BY <1>1, <1>3 DEF StagedAt
<1>6. Moves(c, n, "broken")
  BY <1>N, <1>1, <1>2, <1>4 DEF Moves, Stages, Active
<1>7. Seen(k)'
  BY <1>1, <1>3 DEF Seen
<1>8. n \in Useful(c)
  BY <1>1, <1>3 DEF Active
<1>9. n \notin Useful(c)'
  BY <1>1, <1>6, MovesUseful DEF Active
<1> QED
  BY <1>1, <1>2, <1>3, <1>6, <1>7, <1>8, <1>9, MovesInv

LEMMA BeginInv ==
  ASSUME SubInv, NEW c \in Calls, Begin(c)
  PROVE  SubInv'
<1>0. attempt[c] \in 1 .. Retries + 1 /\ pc[c] = "running"
  BY CurrentKid DEF SubInv, Begin
<1>N. PICK n \in 1 .. Retries + 1 : n = attempt[c]
  BY <1>0
<1> DEFINE k == <<c, n>>
<1>1. /\ pc[c] = "running" /\ kid[k] = "announcing"
      /\ n \in 1 .. Retries + 1 /\ k \in Kids
      /\ kid' = [kid EXCEPT ![k] = "working"]
      /\ what[c] = "bg" => ToolSucceeds(c)
      /\ what[c] # "bg" => UNCHANGED vars
      /\ UNCHANGED <<what, by, outcome, reports, asked, shown>>
  BY <1>0, <1>N, CurrentKid DEF Begin, SubInv
<1>3. /\ Seen(k) /\ StagedAt(c, n) /\ kid \in [Kids -> Stages]
      /\ outcome \in [Kids -> {"running", "success", "failed"}]
      /\ reports \in [Kids -> Seq({"started", "success", "failed"})]
      /\ pc \in [Calls -> Awaits \cup {"idle", "done", "raised"}]
      /\ n \in Useful(c) <=>
           \/ kid[k] \in Active
           \/ kid[k] = "over" /\ ~(what[c] = "fg" /\ outcome[k] = "failed")
  BY <1>1, ChildFacts
<1>4. what[c] # "plain"
  BY <1>1, <1>3 DEF StagedAt
<1>5. /\ UNCHANGED vars \/ (what[c] = "bg" /\ CallStep(c) /\ pc'[c] = "finishing")
      /\ late'[c] = late[c]
  BY <1>1, <1>3 DEF CallStep, ToolSucceeds, Goto, vars
<1>6. Moves(c, n, "working")
  BY <1>N, <1>1, <1>4, <1>5 DEF Moves, Stages, Active
<1>7. Seen(k)'
  BY <1>1, <1>3 DEF Seen
<1>8. n \in Useful(c)
  BY <1>1, <1>3 DEF Active
<1>9. n \in Useful(c)'
  BY <1>1, <1>6, MovesUseful DEF Active
<1>10. pc'[c] \in {"reporting", "backoff", "running"} =>
         pc'[c] = pc[c] /\ attempt'[c] = attempt[c]
  BY <1>5 DEF vars
<1> QED
  BY <1>1, <1>3, <1>5, <1>6, <1>7, <1>8, <1>9, <1>10, MovesInv

LEMMA KidEndsInv ==
  ASSUME SubInv, NEW k \in Kids, NEW status \in {"success", "failed"}, KidEnds(k, status)
  PROVE  SubInv'
<1> DEFINE c == k[1]
           n == k[2]
<1>0. c \in Calls /\ n \in 1 .. Retries + 1 /\ k = <<c, n>> /\ CallOf(k) = c
  BY KidShape
<1> HIDE DEF c, n
<1>1. /\ kid[k] = "working"
      /\ \A d \in Calls : by[d] = k => pc[d] \notin Awaits
      /\ kid' = [kid EXCEPT ![k] = "reporting"]
      /\ outcome' = [outcome EXCEPT ![k] = status]
      /\ UNCHANGED <<vars, what, by, asked, shown>>
  BY DEF KidEnds
<1>2. reports' = [reports EXCEPT ![k] = Append(@, status)]
  BY ReportReaches DEF KidEnds
<1>3. /\ Seen(k) /\ StagedAt(c, n) /\ kid \in [Kids -> Stages]
      /\ outcome \in [Kids -> {"running", "success", "failed"}]
      /\ reports \in [Kids -> Seq({"started", "success", "failed"})]
      /\ what \in [Calls -> {"fg", "bg", "plain"}]
      /\ n \in Useful(c) <=>
           \/ kid[k] \in Active
           \/ kid[k] = "over" /\ ~(what[c] = "fg" /\ outcome[k] = "failed")
  BY <1>0, ChildFacts
<1>4. what[c] # "plain" /\ (what[c] = "fg" => pc[c] = "running" /\ n = attempt[c])
  BY <1>0, <1>1, <1>3 DEF StagedAt, Active
<1>S. reports[k] = <<"started">>
  BY <1>1, <1>3 DEF Seen
<1>5. reports'[k] = <<"started", status>> /\ outcome'[k] = status
  <2>1. reports'[k] = Append(<<"started">>, status) /\ outcome'[k] = status
    BY <1>1, <1>2, <1>3, <1>S
  <2>2. "started" \in {"started", "success", "failed"} /\ status \in {"started", "success", "failed"}
    OBVIOUS
  <2> QED
    BY <2>1, <2>2, AppendSecond
<1>6. Moves(c, n, "reporting")
  BY <1>0, <1>1, <1>4 DEF Moves, Stages, Active
<1>7. Seen(k)'
  BY <1>1, <1>3, <1>5 DEF Seen
<1>8. n \in Useful(c)
  BY <1>1, <1>3 DEF Active
<1>9. \A x \in Kids \ {k} : outcome'[x] = outcome[x] /\ reports'[x] = reports[x]
  BY <1>1, <1>2, <1>3
<1>10. n \in Useful(c)'
  BY <1>0, <1>6, <1>9, MovesUseful DEF Active
<1>11. outcome' \in [Kids -> {"running", "success", "failed"}]
  BY <1>1, <1>3
<1>12. reports' \in [Kids -> Seq({"started", "success", "failed"})]
  BY <1>1, <1>2, <1>3
<1>13. late'[c] = late[c] /\ pc'[c] = pc[c] /\ attempt'[c] = attempt[c]
  BY <1>1 DEF vars
<1> QED
  BY <1>0, <1>6, <1>7, <1>8, <1>9, <1>10, <1>11, <1>12, <1>13, MovesInv

\* The child has ended; the call it is awaited by gets the result.
LEMMA KidReportedInv ==
  ASSUME SubInv, NEW k \in Kids, KidReported(k)
  PROVE  SubInv'
<1> DEFINE c == k[1]
           n == k[2]
<1>0. c \in Calls /\ n \in 1 .. Retries + 1 /\ k = <<c, n>> /\ CallOf(k) = c
  BY KidShape
<1> HIDE DEF c, n
<1>1. /\ kid[k] = "reporting"
      /\ kid' = [kid EXCEPT ![k] = "over"]
      /\ what[c] = "fg" => Verdict(k)
      /\ what[c] # "fg" => UNCHANGED vars
      /\ UNCHANGED <<what, by, outcome, reports, asked, shown>>
  BY <1>0 DEF KidReported
<1>3. /\ Seen(k) /\ StagedAt(c, n) /\ kid \in [Kids -> Stages]
      /\ outcome \in [Kids -> {"running", "success", "failed"}]
      /\ reports \in [Kids -> Seq({"started", "success", "failed"})]
      /\ pc \in [Calls -> Awaits \cup {"idle", "done", "raised"}]
      /\ n \in Useful(c) <=>
           \/ kid[k] \in Active
           \/ kid[k] = "over" /\ ~(what[c] = "fg" /\ outcome[k] = "failed")
  BY <1>0, ChildFacts
<1>4. what[c] # "plain" /\ (what[c] = "fg" => pc[c] = "running" /\ n = attempt[c])
  BY <1>0, <1>1, <1>3 DEF StagedAt, Active
<1>5. outcome[k] \in {"success", "failed"}
  BY <1>1, <1>3 DEF Seen
<1>6. \/ UNCHANGED vars /\ what[c] # "fg"
      \/ /\ what[c] = "fg" /\ outcome[k] = "success" /\ ToolSucceeds(c)
      \/ /\ what[c] = "fg" /\ outcome[k] = "failed" /\ ToolFails(c, "runtime_error")
  BY <1>0, <1>1, <1>5 DEF Verdict
<1>7. /\ UNCHANGED vars \/ (what[c] = "fg" /\ CallStep(c))
      /\ late'[c] = late[c]
  BY <1>6 DEF CallStep, ToolSucceeds, ToolFails, ToolErrors, Retryable, vars
<1>8. Moves(c, n, "over")
  BY <1>0, <1>1, <1>4, <1>7 DEF Moves, Stages, Active
<1>9. Seen(k)'
  BY <1>1, <1>3 DEF Seen
<1>10. n \in Useful(c)
  BY <1>1, <1>3 DEF Active
<1>11. n \in Useful(c)' <=> ~(what[c] = "fg" /\ outcome[k] = "failed")
  BY <1>0, <1>1, <1>8, MovesUseful DEF Active
<1>12. n \in Useful(c)' /\ pc'[c] \in {"reporting", "backoff", "running"} =>
         pc'[c] = pc[c] /\ attempt'[c] = attempt[c]
  BY <1>3, <1>6, <1>11 DEF ToolSucceeds, Goto, vars
<1> QED
  BY <1>0, <1>1, <1>3, <1>7, <1>8, <1>9, <1>10, <1>12, MovesInv

LEMMA ReportRaisesInv ==
  ASSUME SubInv, NEW k \in Kids, ReportRaises(k)
  PROVE  SubInv'
<1> DEFINE c == k[1]
           n == k[2]
<1>0. c \in Calls /\ n \in 1 .. Retries + 1 /\ k = <<c, n>> /\ CallOf(k) = c
  BY KidShape
<1> HIDE DEF c, n
<1>1. /\ PublishRaises /\ kid[k] = "reporting"
      /\ kid' = [kid EXCEPT ![k] = "broken"]
      /\ what[c] = "fg" => ToolFails(c, "runtime_error")
      /\ what[c] # "fg" => UNCHANGED vars
      /\ UNCHANGED <<what, by, outcome, reports, asked, shown>>
  BY <1>0 DEF ReportRaises
<1>3. /\ Seen(k) /\ StagedAt(c, n) /\ kid \in [Kids -> Stages]
      /\ outcome \in [Kids -> {"running", "success", "failed"}]
      /\ reports \in [Kids -> Seq({"started", "success", "failed"})]
      /\ n \in Useful(c) <=>
           \/ kid[k] \in Active
           \/ kid[k] = "over" /\ ~(what[c] = "fg" /\ outcome[k] = "failed")
  BY <1>0, ChildFacts
<1>4. what[c] # "plain" /\ (what[c] = "fg" => pc[c] = "running" /\ n = attempt[c])
  BY <1>0, <1>1, <1>3 DEF StagedAt, Active
<1>5. /\ UNCHANGED vars \/ (what[c] = "fg" /\ CallStep(c))
      /\ late'[c] = late[c]
  BY <1>1 DEF CallStep, ToolFails, ToolErrors, Retryable, vars
<1>6. Moves(c, n, "broken")
  BY <1>0, <1>1, <1>4, <1>5 DEF Moves, Stages, Active
<1>7. Seen(k)'
  BY <1>1, <1>3 DEF Seen
<1>8. n \in Useful(c)
  BY <1>1, <1>3 DEF Active
<1>9. n \notin Useful(c)'
  BY <1>0, <1>1, <1>6, MovesUseful DEF Active
<1> QED
  BY <1>0, <1>1, <1>3, <1>5, <1>6, <1>7, <1>8, <1>9, MovesInv

-----------------------------------------------------------------------------
(* Unwinding: several calls leave at once, and the children they await.    *)

\* The children that are cut off.
Cut(c) == UNION {Awaited(d) : d \in Unwound(c)}

\* A time limit or the cancellation of the run at call c.
Leaves(c, at) ==
  /\ pc[c] \in Awaits /\ Unwind(c, at)
  /\ \/ at = "raised" /\ UNCHANGED <<pending, events, works>>
     \/ /\ at = "failing" /\ pc[c] = "running"
        /\ pending' = [pending EXCEPT ![c] = "timeout"]
        /\ Publish(c, "failed", "timeout")
        /\ works' = works \/ works' = [works EXCEPT ![c] = @ + 1]
  /\ UNCHANGED <<attempt, result, decision, late, what, by, outcome, reports, asked, shown>>

LEMMA AwaitedFacts ==
  ASSUME SubInv, NEW d \in Calls, NEW k \in Awaited(d)
  PROVE  /\ k \in Kids /\ k = <<d, attempt[d]>> /\ CallOf(k) = d
         /\ kid[k] \in Active /\ pc[d] = "running" /\ what[d] # "plain"
         /\ what[d] = "fg" \/ kid[k] = "announcing"
<1>1. /\ k = KidOf(d) /\ pc[d] = "running" /\ what[d] # "plain"
      /\ kid[k] \in Active
      /\ what[d] = "fg" \/ kid[k] = "announcing"
  BY DEF Awaited
<1> QED
  BY <1>1, CurrentKid DEF SubInv

\* The calls of an awaited child are those of a working foreground child.
LEMMA InnerFacts ==
  ASSUME SubInv, NEW c \in Calls, NEW d \in InnerCalls(c)
  PROVE  /\ d \in Calls /\ Maker[d] = c /\ pc[d] \in Awaits /\ d # c
         /\ pc[c] = "running" /\ what[c] # "plain"
<1>1. d \in Calls /\ by[d] \in Awaited(c) /\ pc[d] \in Awaits
  BY DEF InnerCalls
<1>2. by[d] \in Kids /\ CallOf(by[d]) = c /\ pc[c] = "running" /\ what[c] # "plain"
  BY <1>1, AwaitedFacts
<1>3. by[d] # NoKid
  BY <1>2, KidShape DEF NoKid
<1>4. Maker[d] = c
  BY <1>1, <1>2, <1>3 DEF SubInv, Family
<1> QED
  BY <1>1, <1>2, <1>4, SubagentsAssumption

LEMMA UnwoundFacts ==
  ASSUME SubInv, NEW c \in Calls, NEW d \in Unwound(c)
  PROVE  d \in Calls /\ (d # c => pc[d] \in Awaits)
<1>1. \/ d = c \/ d \in InnerCalls(c)
      \/ \E f \in InnerCalls(c) : d \in InnerCalls(f)
  BY DEF Unwound
<1>2. \A f \in InnerCalls(c) : f \in Calls /\ pc[f] \in Awaits
  BY InnerFacts
<1> QED
  BY <1>1, <1>2, InnerFacts

\* Two levels are all there are: the calls inside an unwound call are unwound.
LEMMA UnwoundClosed ==
  ASSUME SubInv, NEW c \in Calls, NEW d \in Unwound(c), NEW e \in InnerCalls(d)
  PROVE  e \in Unwound(c) /\ e # c
<1>0. d \in Calls
  BY UnwoundFacts
<1>1. e \in Calls /\ Maker[e] = d /\ what[d] # "plain"
  BY <1>0, InnerFacts
<1>F. Family /\ Root \notin Calls
  BY SubagentsAssumption DEF SubInv
<1>2. CASE d = c
  BY <1>1, <1>2, SubagentsAssumption DEF Unwound
<1>3. CASE d \in InnerCalls(c)
  <2>1. Maker[d] = c
    BY <1>3, InnerFacts
  <2>2. e # c
    BY <1>0, <1>1, <1>F, <2>1 DEF Family
  <2> QED
    BY <1>3, <2>2 DEF Unwound
<1>4. ASSUME NEW f \in InnerCalls(c), d \in InnerCalls(f) PROVE FALSE
  <2>1. f \in Calls /\ Maker[f] = c
    BY InnerFacts
  <2>2. Maker[d] = f
    BY <1>4, <2>1, InnerFacts
  <2> QED
    BY <1>0, <1>1, <1>F, <2>1, <2>2 DEF Family
<1> QED
  BY <1>2, <1>3, <1>4 DEF Unwound

\* Where the calls and the children are afterwards.
LEMMA LeavesFacts ==
  ASSUME SubInv, NEW c \in Calls, NEW at, Leaves(c, at)
  PROVE  /\ at \in {"raised", "failing"} /\ pc'[c] = at /\ pc[c] \in Awaits
         /\ \A d \in Calls \ {c} : pc'[d] = IF d \in Unwound(c) THEN "raised" ELSE pc[d]
         /\ \A k \in Kids : kid'[k] = IF k \in Cut(c) THEN "cancelled" ELSE kid[k]
         /\ pc' \in [Calls -> Awaits \cup {"idle", "done", "raised"}]
         /\ kid' \in [Kids -> Stages]
<1>1. /\ pc' = [d \in Calls |-> IF d = c THEN at
                              ELSE IF d \in Unwound(c) THEN "raised" ELSE pc[d]]
      /\ kid' = [k \in Kids |-> IF k \in Cut(c) THEN "cancelled" ELSE kid[k]]
  BY DEF Leaves, Unwind, Cut
<1>2. at \in {"raised", "failing"} /\ pc[c] \in Awaits
  BY DEF Leaves
<1>3. /\ pc \in [Calls -> Awaits \cup {"idle", "done", "raised"}]
      /\ kid \in [Kids -> Stages]
  BY DEF SubInv, SubTypes, IInv, TypeOK
<1>4. kid' \in [Kids -> Stages]
  BY <1>1, <1>3 DEF Stages
<1>5. pc' \in [Calls -> Awaits \cup {"idle", "done", "raised"}]
  BY <1>1, <1>2, <1>3 DEF Awaits
<1> QED
  BY <1>1, <1>2, <1>4, <1>5

LEMMA CutFacts ==
  ASSUME SubInv, NEW c \in Calls, NEW k \in Cut(c)
  PROVE  /\ k \in Kids /\ CallOf(k) \in Unwound(c)
         /\ kid[k] \in Active /\ pc[CallOf(k)] = "running"
<1>1. PICK d \in Unwound(c) : k \in Awaited(d)
  BY DEF Cut
<1>2. d \in Calls
  BY UnwoundFacts
<1> QED
  BY <1>1, <1>2, AwaitedFacts

\* Every call leaves, fails or is not concerned.
LEMMA LeavesCall ==
  ASSUME SubInv, NEW c \in Calls, NEW at, Leaves(c, at), NEW d \in Calls
  PROVE  /\ CallInv(d)' /\ Counted(d)'
<1>0. /\ TypeOK /\ CallInv(d) /\ Counted(d) /\ works[d] \in Nat
      /\ events \in [Calls -> Seq(Event)]
      /\ UNCHANGED <<attempt, result, decision, late>>
  BY DEF SubInv, IInv, AllCounted, Leaves, TypeOK
<1>1. CASE at = "failing" /\ d = c
  <2>1. /\ pc[d] = "running" /\ pc'[d] = "failing" /\ Publish(d, "failed", "timeout")
        /\ pending'[d] = "timeout"
        /\ works'[d] = works[d] \/ works'[d] = works[d] + 1
    BY <1>0, <1>1, LeavesFacts DEF Leaves, TypeOK
  <2>2. "timeout" \in Errors
    BY DEF Errors
  <2>3. CallInv(d)'
    BY <1>0, <2>1, <2>2, FailureCall
  <2>4. Counted(d)'
    BY <1>0, <2>1, <2>2, FailureCounted
  <2> QED
    BY <2>3, <2>4
<1>2. CASE ~(at = "failing" /\ d = c)
  <2>1. pending'[d] = pending[d] /\ events'[d] = events[d] /\ works'[d] = works[d]
    BY <1>0, <1>2, LeavesFacts DEF Leaves, Publish, TypeOK
  <2>2. \/ pc[d] \in Awaits /\ pc'[d] = "raised"
        \/ pc'[d] = pc[d]
    BY <1>2, LeavesFacts, UnwoundFacts
  <2>3. CASE pc[d] \in Awaits /\ pc'[d] = "raised"
    BY <1>0, <2>1, <2>3, RaisedCall, RaisedCounted
  <2>4. CASE pc'[d] = pc[d]
    BY <1>0, <2>1, <2>4, StillCall, StillCounted DEF Still
  <2> QED
    BY <2>2, <2>3, <2>4
<1> QED
  BY <1>1, <1>2

LEMMA LeavesCalls ==
  ASSUME SubInv, NEW c \in Calls, NEW at, Leaves(c, at)
  PROVE  IInv' /\ AllCounted'
<1>1. TypeOK
  BY DEF SubInv, IInv
<1>2. TypeOK'
  <2>1. /\ pc' \in [Calls -> Awaits \cup {"idle", "done", "raised"}]
        /\ UNCHANGED <<attempt, result, decision, late>>
    BY LeavesFacts DEF Leaves
  <2>2. CASE UNCHANGED <<pending, events, works>>
    BY <1>1, <2>1, <2>2 DEF TypeOK
  <2>3. CASE /\ pending' = [pending EXCEPT ![c] = "timeout"]
             /\ Publish(c, "failed", "timeout")
             /\ works' = works \/ works' = [works EXCEPT ![c] = @ + 1]
    <3> DEFINE e == [kind |-> "failed", class |-> "timeout"]
    <3>1. e \in Event /\ Publish(c, e.kind, e.class)
      BY <2>3 DEF Event, Errors
    <3>2. events' \in [Calls -> Seq(Event)]
      BY <1>1, <3>1, PublishFacts
    <3>3. pending' \in [Calls -> Errors \cup {"none"}]
      BY <1>1, <2>3 DEF TypeOK, Errors
    <3>4. works' \in [Calls -> Nat]
      <4>1. works \in [Calls -> Nat] /\ works[c] + 1 \in Nat
        BY <1>1 DEF TypeOK
      <4>2. CASE works' = [works EXCEPT ![c] = works[c] + 1]
        BY <4>1, <4>2
      <4> QED
        BY <2>3, <4>1, <4>2
    <3> QED
      BY <1>1, <2>1, <3>2, <3>3, <3>4 DEF TypeOK
  <2> QED
    BY <2>2, <2>3 DEF Leaves
<1>3. \A d \in Calls : CallInv(d)' /\ Counted(d)'
  BY LeavesCall
<1> QED
  BY <1>2, <1>3 DEF IInv, AllCounted

LEMMA LeavesStaged ==
  ASSUME SubInv, NEW c \in Calls, NEW at, Leaves(c, at)
  PROVE  Staged'
<1> SUFFICES ASSUME NEW d \in Calls, NEW n \in 1 .. Retries + 1 PROVE StagedAt(d, n)'
  BY DEF Staged
<1> DEFINE k == <<d, n>>
<1>1. k \in Kids /\ StagedAt(d, n) /\ attempt' = attempt /\ what' = what
  BY ChildFacts DEF Leaves
<1>2. CASE k \in Cut(c)
  <2>1. kid'[k] = "cancelled" /\ kid[k] # "none"
    BY <1>1, <1>2, LeavesFacts, CutFacts DEF Active
  <2> QED
    BY <1>1, <2>1 DEF StagedAt, Active
<1>3. CASE k \notin Cut(c)
  <2>1. kid'[k] = kid[k]
    BY <1>1, <1>3, LeavesFacts
  <2>2. ASSUME kid[k] = "announcing" \/ (what[d] = "fg" /\ kid[k] \in Active)
        PROVE  pc'[d] = "running" /\ n = attempt[d]
    <3>1. pc[d] = "running" /\ n = attempt[d] /\ what[d] # "plain"
      BY <1>1, <2>2 DEF StagedAt, Active
    <3>2. k \in Awaited(d)
      BY <2>2, <3>1 DEF Awaited, KidOf, Active
    <3>3. d \notin Unwound(c)
      BY <1>3, <3>2 DEF Cut
    <3>4. d # c
      BY <3>3 DEF Unwound
    <3> QED
      BY <3>1, <3>3, <3>4, LeavesFacts
  <2> QED
    BY <1>1, <2>1, <2>2 DEF StagedAt
<1> QED
  BY <1>2, <1>3

LEMMA LeavesNested ==
  ASSUME SubInv, NEW c \in Calls, NEW at, Leaves(c, at)
  PROVE  Nested'
<1> SUFFICES ASSUME NEW e \in Calls, by[e] # NoKid, pc'[e] \in Awaits
             PROVE  kid'[by[e]] = "working"
  BY DEF Nested, Leaves
<1>1. pc[e] \in Awaits /\ (e # c => e \notin Unwound(c))
  BY LeavesFacts DEF Awaits
<1>2. kid[by[e]] = "working" /\ by[e] \in Kids
  BY <1>1 DEF SubInv, Nested, SubTypes
<1>3. by[e] \notin Cut(c)
  <2> SUFFICES ASSUME NEW d \in Unwound(c), by[e] \in Awaited(d) PROVE FALSE
    BY DEF Cut
  <2>1. e \in InnerCalls(d)
    BY <1>1 DEF InnerCalls
  <2> QED
    BY <1>1, <2>1, UnwoundClosed
<1> QED
  BY <1>2, <1>3, LeavesFacts

LEMMA LeavesSeen ==
  ASSUME SubInv, NEW c \in Calls, NEW at, Leaves(c, at)
  PROVE  AllSeen'
<1> SUFFICES ASSUME NEW k \in Kids PROVE Seen(k)'
  BY DEF AllSeen
<1> DEFINE d == CallOf(k)
<1>1. d \in Calls /\ Seen(k) /\ outcome' = outcome /\ reports' = reports
  BY KidShape DEF SubInv, AllSeen, Leaves
<1>2. CASE k \in Cut(c)
  <2>1. kid'[k] = "cancelled" /\ d \in Unwound(c) /\ kid[k] \in Active
    BY <1>2, LeavesFacts, CutFacts
  <2>2. CutOff(d)'
    <3>1. CASE d # c \/ at = "raised"
      BY <1>1, <2>1, <3>1, LeavesFacts DEF CutOff
    <3>2. CASE d = c /\ at = "failing"
      <4>1. pending'[c] = "timeout" /\ pc'[c] = "failing"
        BY <3>2, LeavesFacts DEF Leaves, SubInv, IInv, TypeOK
      <4> QED
        BY <3>2, <4>1 DEF CutOff
    <3> QED
      BY <3>1, <3>2, LeavesFacts
  <2> QED
    BY <1>1, <2>1, <2>2 DEF Seen, Active
<1>3. CASE k \notin Cut(c)
  <2>1. kid'[k] = kid[k]
    BY <1>3, LeavesFacts
  <2>2. CutOff(d) => CutOff(d)'
    <3>1. CASE d = c
      <4>1. CASE at = "raised"
        BY <3>1, <4>1, LeavesFacts DEF CutOff
      <4>2. CASE at = "failing"
        BY <3>1, <4>2 DEF CutOff, Leaves
      <4> QED
        BY <4>1, <4>2, LeavesFacts
    <3>2. CASE d # c
      <4>1. pending'[d] = pending[d] /\ result'[d] = result[d]
        BY <1>1, <3>2 DEF Leaves, SubInv, IInv, TypeOK
      <4>2. pc'[d] = "raised" \/ pc'[d] = pc[d]
        BY <1>1, <3>2, LeavesFacts
      <4> QED
        BY <4>1, <4>2 DEF CutOff
    <3> QED
      BY <3>1, <3>2
  <2> QED
    BY <1>1, <2>1, <2>2 DEF Seen
<1> QED
  BY <1>2, <1>3

LEMMA LeavesSpared ==
  ASSUME SubInv, NEW c \in Calls, NEW at, Leaves(c, at)
  PROVE  Spared'
<1> SUFFICES ASSUME NEW d \in Calls PROVE SparedAt(d)'
  BY DEF Spared
<1>1. /\ SparedAt(d) /\ UNCHANGED <<attempt, late, what, outcome>> /\ late[d] \in Nat
  BY DEF SubInv, Spared, Leaves, IInv, TypeOK
<1>2. \A k \in Kids : (kid'[k] = "cancelled" /\ kid[k] # "none") \/ kid'[k] = kid[k]
  BY LeavesFacts, CutFacts DEF Active
<1>3. \A n \in 1 .. Retries + 1 : <<d, n>> \in Kids
  BY KidMade
<1>4. Useful(d)' \in SUBSET Useful(d)
  BY <1>1, <1>2, <1>3 DEF Useful, Active
<1>5. /\ Cardinality(Useful(d)') \in Nat /\ Cardinality(Useful(d)) \in Nat
      /\ Cardinality(Useful(d)') <= Cardinality(Useful(d))
  <2>1. IsFiniteSet(Useful(d)) /\ Cardinality(Useful(d)) \in Nat
    BY UsefulFinite
  <2>2. IsFiniteSet(Useful(d)') /\ Cardinality(Useful(d)') <= Cardinality(Useful(d))
    BY <1>4, <2>1, FS_Subset
  <2> QED
    BY <2>1, <2>2, FS_CardinalityType
<1>6. pc'[d] \in {"reporting", "backoff", "running"} => pc'[d] = pc[d]
  BY LeavesFacts
<1>7. pc[d] = "running" /\ kid'[KidOf(d)] = "none" /\ attempt' = attempt => kid[KidOf(d)] = "none"
  BY <1>2, CurrentKid DEF SubInv
<1>8. KidOf(d)' = KidOf(d)
  BY <1>1 DEF KidOf
<1> QED
  BY <1>1, <1>5, <1>6, <1>7, <1>8 DEF SparedAt

LEMMA LeavesInv ==
  ASSUME SubInv, NEW c \in Calls, NEW at, Leaves(c, at)
  PROVE  SubInv'
<1>1. SubTypes'
  BY LeavesFacts DEF Leaves, SubInv, SubTypes
<1>2. Family'
  BY DEF Leaves, SubInv, Family
<1> QED
  BY <1>1, <1>2, LeavesCalls, LeavesStaged, LeavesNested, LeavesSeen, LeavesSpared DEF SubInv

LEMMA UnwindInv ==
  ASSUME SubInv, NEW c \in Calls, Limit(c) \/ CancelRun(c)
  PROVE  SubInv'
<1>1. CASE Limit(c)
  <2>1. Leaves(c, "failing")
    BY <1>1 DEF Limit, Leaves, Awaits
  <2> QED
    BY <2>1, LeavesInv
<1>2. CASE CancelRun(c)
  <2>1. Leaves(c, "raised")
    BY <1>2 DEF CancelRun, Leaves
  <2> QED
    BY <2>1, LeavesInv
<1> QED
  BY <1>1, <1>2

-----------------------------------------------------------------------------
LEMMA InitSub == SubInit => SubInv
<1> SUFFICES ASSUME SubInit PROVE SubInv
  OBVIOUS
<1>0. /\ what \in [Calls -> {"fg", "bg", "plain"}]
      /\ by = [c \in Calls |-> NoKid]
      /\ kid = [k \in Kids |-> "none"]
      /\ outcome = [k \in Kids |-> "running"]
      /\ reports = [k \in Kids |-> <<>>]
      /\ asked = {} /\ shown = {}
  BY DEF SubInit
<1>1. IInv /\ AllCounted
  BY InitInv, InitCounted DEF SubInit
<1>2. SubTypes
  <2>1. <<>> \in Seq({"started", "success", "failed"})
    OBVIOUS
  <2> QED
    BY <1>0, <2>1 DEF SubTypes, Stages
<1>3. Family
  BY <1>0 DEF Family, SubInit
<1>4. Staged
  BY <1>0, KidMade DEF Staged, StagedAt, Active
<1>5. Nested
  BY <1>0 DEF Nested
<1>6. AllSeen
  BY <1>0 DEF AllSeen, Seen
<1>7. Spared
  <2> SUFFICES ASSUME NEW c \in Calls PROVE SparedAt(c)
    BY DEF Spared
  <2>1. Useful(c) = {}
    BY <1>0, KidMade DEF Useful, Active
  <2>2. Cardinality(Useful(c)) = 0 /\ late[c] \in Nat
    BY <1>1, <2>1, FS_EmptySet DEF IInv, TypeOK
  <2> QED
    BY <2>2 DEF SparedAt
<1> QED
  BY <1>1, <1>2, <1>3, <1>4, <1>5, <1>6, <1>7 DEF SubInv

LEMMA StutterSub ==
  ASSUME SubInv, UNCHANGED subVars
  PROVE  SubInv'
<1>0. UNCHANGED vars /\ UNCHANGED <<what, by, kid, outcome, reports, asked, shown>>
  BY DEF subVars, kids
<1>1. IInv' /\ AllCounted'
  BY <1>0, CallsStep
<1>2. SubTypes' /\ Family'
  BY <1>0 DEF SubInv, SubTypes, Family
<1>3. Staged'
  BY <1>0 DEF SubInv, Staged, StagedAt, vars
<1>4. Nested'
  BY <1>0 DEF SubInv, Nested, vars
<1>5. AllSeen'
  BY <1>0 DEF SubInv, AllSeen, Seen, CutOff, vars
<1>6. Spared'
  BY <1>0 DEF SubInv, Spared, SparedAt, Useful, KidOf, vars
<1> QED
  BY <1>1, <1>2, <1>3, <1>4, <1>5, <1>6 DEF SubInv

LEMMA SubStep == SubInv /\ [SubNext]_subVars => SubInv'
<1> SUFFICES ASSUME SubInv, SubNext PROVE SubInv'
  BY StutterSub
<1>1. ASSUME NEW c \in Calls,
             \/ Spawn(c) \/ SpawnRaises(c) \/ Begin(c) \/ Limit(c)
             \/ Ask(c) \/ AutoDecided(c) \/ ApprovalTimesOut(c) \/ PlainTool(c) \/ Around(c)
      PROVE  SubInv'
  BY <1>1, SpawnInv, SpawnRaisesInv, BeginInv, UnwindInv, AskInv, DecisionInv
<1>2. ASSUME NEW k \in Kids,
             \/ \E status \in {"success", "failed"} : KidEnds(k, status)
             \/ KidReported(k) \/ ReportRaises(k)
      PROVE  SubInv'
  BY <1>2, KidEndsInv, KidReportedInv, ReportRaisesInv
<1>3. ASSUME NEW c \in Calls, StartCall(c) \/ UserDecides(c) \/ CancelRun(c)
      PROVE  SubInv'
  BY <1>3, StartCallInv, DecisionInv, UnwindInv
<1> QED
  BY <1>1, <1>2, <1>3 DEF SubNext, Progress

THEOREM SubInvariance == SubSpec => []SubInv
BY InitSub, SubStep, PTL DEF SubSpec

-----------------------------------------------------------------------------
(* What the invariant says, for any family of calls. *)

\* Type correctness.
THEOREM SubTypeCorrect == SubSpec => []SubTypeOK
<1>1. SubInv => SubTypeOK
  BY DEF SubInv, IInv, SubTypes, SubTypeOK
<1> QED
  BY <1>1, SubInvariance, PTL

\* No time limit and no cancellation leaves a foreground child of any level
\* behind (tool.py:180-192, invocation.py:173-204).
THEOREM ForegroundIsNestedHolds == SubSpec => []ForegroundIsNested
<1>1. SubInv => ForegroundIsNested
  <2> SUFFICES ASSUME SubInv, NEW k \in Kids, kid[k] \in Active, what[CallOf(k)] = "fg"
               PROVE  /\ pc[CallOf(k)] = "running" /\ KidOf(CallOf(k)) = k
                      /\ by[CallOf(k)] # NoKid => kid[by[CallOf(k)]] = "working"
    BY DEF ForegroundIsNested
  <2>1. /\ k[1] \in Calls /\ k[2] \in 1 .. Retries + 1
        /\ k = <<k[1], k[2]>> /\ CallOf(k) = k[1]
    BY KidShape
  <2>2. pc[k[1]] = "running" /\ k[2] = attempt[k[1]]
    BY <2>1 DEF SubInv, Staged, StagedAt
  <2>3. by[k[1]] # NoKid => kid[by[k[1]]] = "working"
    BY <2>1, <2>2 DEF SubInv, Nested, Awaits
  <2> QED
    BY <2>1, <2>2, <2>3 DEF KidOf
<1> QED
  BY <1>1, SubInvariance, PTL

\* However often a call is tried, one child works for it or has done its work,
\* except after a finished event that was not delivered (tool.py:160-200).
THEOREM OneChildPerCallHolds == SubSpec => []OneChildPerCall
<1>1. SubInv => OneChildPerCall
  BY DEF SubInv, Spared, SparedAt, Useful, OneChildPerCall
<1> QED
  BY <1>1, SubInvariance, PTL

\* Clients see each child of each level start and finish once, with its status
\* (tool.py:128-140, 180-192).
THEOREM ClientsSeeChildrenHolds == SubSpec => []ClientsSeeChildren
<1>1. SubInv => ClientsSeeChildren
  <2> SUFFICES ASSUME SubInv, NEW k \in Kids
               PROVE  \/ kid[k] = "none" /\ reports[k] = <<>>
                      \/ kid[k] \in Active /\ outcome[k] = "running" /\ reports[k] = <<"started">>
                      \/ kid[k] \notin {"none", "working"} /\ reports[k] = <<"started", outcome[k]>>
                      \/ /\ kid[k] = "cancelled" /\ reports[k] = <<"started">>
                         /\ pc[CallOf(k)] \in {"failing", "raised"} \/ result[CallOf(k)] = "timeout"
                      \/ kid[k] = "broken" /\ PublishRaises /\ reports[k] = <<"started">>
    BY DEF ClientsSeeChildren
  <2>1. Seen(k) /\ kid[k] \in Stages
    BY DEF SubInv, AllSeen, SubTypes
  <2> QED
    BY <2>1 DEF Seen, Stages, Active, CutOff
<1> QED
  BY <1>1, SubInvariance, PTL

\* What holds of one call holds of the calls of a family, whose agents' calls
\* end together when one is cut off: the verdicts count the executions, nothing
\* runs without consent and nothing that is done is done again
\* (invocation.py:123-236).
THEOREM FamilyCallsHold ==
  SubSpec => [](EachAttemptReported /\ ConsentBeforeWork /\ NoSecondWork)
<1>1. SubInv => EachAttemptReported /\ ConsentBeforeWork /\ NoSecondWork
  BY CountedReported, ConsentKnown, WorkKnown DEF SubInv
<1> QED
  BY <1>1, SubInvariance, PTL

-----------------------------------------------------------------------------
(* Progress of the family.                                                 *)

ChildStage(at) ==
  CASE at = "none" -> 0
    [] at = "announcing" -> 1
    [] at = "working" -> 2
    [] at = "reporting" -> 3
    [] OTHER -> 4

\* A child goes forward, has one outcome, and is cancelled only inside the call
\* that waits for it or before it has begun.
ChildMoves(k) ==
  /\ \/ kid'[k] = kid[k] /\ outcome'[k] = outcome[k] /\ reports'[k] = reports[k]
     \/ ChildStage(kid'[k]) > ChildStage(kid[k])
  /\ outcome[k] # "running" => outcome'[k] = outcome[k]
  /\ kid'[k] = "cancelled" =>
       kid[k] \in {"cancelled", "announcing"} \/ what[CallOf(k)] = "fg"

FamilyMoves == (\A c \in Calls : CallMoves(c)) /\ \A k \in Kids : ChildMoves(k)

FamilyAdvances == [][FamilyMoves]_subVars

LEMMA QuietChild ==
  ASSUME NEW k \in Kids, UNCHANGED <<kid, outcome, reports>>
  PROVE  ChildMoves(k)
BY DEF ChildMoves

LEMMA OneChildMoves ==
  ASSUME SubInv, NEW j \in Kids, NEW at, at # "cancelled",
         kid' = [kid EXCEPT ![j] = at], ChildStage(at) > ChildStage(kid[j]),
         outcome[j] = "running" \/ outcome'[j] = outcome[j],
         \A x \in Kids \ {j} : outcome'[x] = outcome[x] /\ reports'[x] = reports[x],
         NEW k \in Kids
  PROVE  ChildMoves(k)
<1>0. kid \in [Kids -> Stages]
  BY DEF SubInv, SubTypes
<1>1. CASE k = j
  BY <1>0, <1>1 DEF ChildMoves
<1>2. CASE k # j
  <2>1. kid'[k] = kid[k] /\ outcome'[k] = outcome[k] /\ reports'[k] = reports[k]
    BY <1>0, <1>2
  <2> QED
    BY <2>1 DEF ChildMoves
<1> QED
  BY <1>1, <1>2

\* The steps of one child.
LEMMA ChildStepMoves ==
  ASSUME SubInv, NEW c \in Calls, Spawn(c) \/ SpawnRaises(c) \/ Begin(c), NEW k \in Kids
  PROVE  ChildMoves(k)
<1>1. KidOf(c) \in Kids
  BY CurrentKid DEF SubInv, Spawn, SpawnRaises, Begin
<1>2. outcome' = outcome
  BY DEF Spawn, SpawnRaises, Begin
<1>3. PICK at \in {"announcing", "working", "broken"} :
        kid' = [kid EXCEPT ![KidOf(c)] = at] /\ ChildStage(at) > ChildStage(kid[KidOf(c)])
  BY DEF Spawn, SpawnRaises, Begin, ChildStage
<1>4. \A x \in Kids \ {KidOf(c)} : reports'[x] = reports[x]
  <2>1. CASE Spawn(c)
    BY <2>1, ReportReaches DEF Spawn, SubInv, SubTypes
  <2>2. CASE SpawnRaises(c) \/ Begin(c)
    BY <2>2 DEF SpawnRaises, Begin
  <2> QED
    BY <2>1, <2>2
<1> QED
  BY <1>1, <1>2, <1>3, <1>4, OneChildMoves

LEMMA ChildEndMoves ==
  ASSUME SubInv, NEW j \in Kids, NEW k \in Kids,
         (\E status \in {"success", "failed"} : KidEnds(j, status)) \/ KidReported(j) \/ ReportRaises(j)
  PROVE  ChildMoves(k)
<1>0. /\ outcome \in [Kids -> {"running", "success", "failed"}]
      /\ reports \in [Kids -> Seq({"started", "success", "failed"})]
  BY DEF SubInv, SubTypes
<1>1. ASSUME NEW status \in {"success", "failed"}, KidEnds(j, status) PROVE ChildMoves(k)
  <2>1. kid[j] = "working" /\ kid' = [kid EXCEPT ![j] = "reporting"]
    BY <1>1 DEF KidEnds
  <2>2. outcome[j] = "running"
    BY <2>1 DEF SubInv, AllSeen, Seen
  <2>3. /\ outcome' = [outcome EXCEPT ![j] = status]
        /\ reports' = [reports EXCEPT ![j] = Append(@, status)]
    BY <1>1, ReportReaches DEF KidEnds
  <2>4. \A x \in Kids \ {j} : outcome'[x] = outcome[x] /\ reports'[x] = reports[x]
    BY <1>0, <2>3
  <2>5. ChildStage("reporting") > ChildStage(kid[j])
    BY <2>1 DEF ChildStage
  <2> QED
    BY <2>1, <2>2, <2>4, <2>5, OneChildMoves
<1>2. CASE KidReported(j) \/ ReportRaises(j)
  <2>1. PICK at \in {"over", "broken"} :
          kid' = [kid EXCEPT ![j] = at] /\ ChildStage(at) > ChildStage(kid[j])
    BY <1>2 DEF KidReported, ReportRaises, ChildStage
  <2>2. UNCHANGED <<outcome, reports>>
    BY <1>2 DEF KidReported, ReportRaises
  <2> QED
    BY <2>1, <2>2, OneChildMoves
<1> QED
  BY <1>1, <1>2

\* Those that leave together.
LEMMA CutMoves ==
  ASSUME SubInv, NEW c \in Calls, NEW at, Leaves(c, at), NEW k \in Kids
  PROVE  ChildMoves(k)
<1>1. UNCHANGED <<outcome, reports>>
  BY DEF Leaves
<1>2. CASE k \notin Cut(c)
  BY <1>1, <1>2, LeavesFacts DEF ChildMoves
<1>3. CASE k \in Cut(c)
  <2>1. PICK d \in Unwound(c) : k \in Awaited(d)
    BY <1>3 DEF Cut
  <2>2. d \in Calls
    BY UnwoundFacts
  <2>3. kid[k] \in Active /\ (what[CallOf(k)] = "fg" \/ kid[k] = "announcing")
    BY <2>1, <2>2, AwaitedFacts
  <2>4. kid'[k] = "cancelled"
    BY <1>3, LeavesFacts
  <2>5. ChildStage("cancelled") > ChildStage(kid[k])
    BY <2>3 DEF Active, ChildStage
  <2> QED
    BY <1>1, <2>3, <2>4, <2>5 DEF ChildMoves
<1> QED
  BY <1>2, <1>3

LEMMA LeavesMoves ==
  ASSUME SubInv, NEW c \in Calls, NEW at, Leaves(c, at), NEW d \in Calls
  PROVE  CallMoves(d)
<1>0. /\ IInv /\ TypeOK
      /\ UNCHANGED <<attempt, result, decision, late>>
  BY DEF SubInv, IInv, Leaves
<1>1. CASE at = "failing" /\ d = c
  <2>1. pc[d] = "running" /\ pc'[d] = "failing" /\ Publish(d, "failed", "timeout")
    BY <1>1, LeavesFacts DEF Leaves
  <2>2. EventsGrow(d)
    BY <1>0, <2>1, PublishGrows DEF Errors
  <2>3. Stage("failing") > Stage("running")
    BY DEF Stage
  <2> QED
    BY <1>0, <2>1, <2>2, <2>3 DEF CallMoves, Advances
<1>2. CASE ~(at = "failing" /\ d = c)
  <2>1. pending'[d] = pending[d] /\ events'[d] = events[d] /\ works'[d] = works[d]
    BY <1>0, <1>2, LeavesFacts DEF Leaves, Publish, TypeOK
  <2>2. \/ pc[d] \in Awaits /\ pc'[d] = "raised"
        \/ pc'[d] = pc[d]
    BY <1>2, LeavesFacts, UnwoundFacts
  <2>3. CASE pc[d] \in Awaits /\ pc'[d] = "raised"
    <3>1. Stage("raised") > Stage(pc[d])
      BY <2>3 DEF Stage, Awaits
    <3> QED
      BY <1>0, <2>1, <2>3, <3>1 DEF CallMoves, Advances, EventsGrow
  <2>4. CASE pc'[d] = pc[d]
    BY <1>0, <2>1, <2>4, StillMoves DEF Still
  <2> QED
    BY <2>2, <2>3, <2>4
<1> QED
  BY <1>1, <1>2

\* What a step does to the calls.
CallsGoOn ==
  \/ UNCHANGED vars
  \/ \E c \in Calls : CallStep(c)
  \/ \E c \in Calls, at \in {"raised", "failing"} : Leaves(c, at)

LEMMA FamilyStep ==
  ASSUME SubInv, [SubNext]_subVars
  PROVE  CallsGoOn
<1>0. {"runtime_error"} \subseteq ToolErrors
  BY DEF ToolErrors, Retryable
<1>1. ASSUME NEW c \in Calls, Spawn(c) \/ SpawnRaises(c) \/ Begin(c) PROVE CallsGoOn
  BY <1>0, <1>1 DEF Spawn, SpawnRaises, Begin, CallStep, CallsGoOn
<1>2. ASSUME NEW c \in Calls, Limit(c) PROVE CallsGoOn
  <2>1. Leaves(c, "failing")
    BY <1>2 DEF Limit, Leaves, Awaits
  <2> QED
    BY <2>1 DEF CallsGoOn
<1>3. ASSUME NEW c \in Calls, CancelRun(c) PROVE CallsGoOn
  <2>1. Leaves(c, "raised")
    BY <1>3 DEF CancelRun, Leaves
  <2> QED
    BY <2>1 DEF CallsGoOn
<1>4. ASSUME NEW c \in Calls, Ask(c) \/ StartCall(c) PROVE CallsGoOn
  BY <1>4 DEF Ask, StartCall, CallStep, CallsGoOn
<1>5. ASSUME NEW c \in Calls, AutoDecided(c) \/ ApprovalTimesOut(c) \/ UserDecides(c)
      PROVE  CallsGoOn
  BY <1>5 DEF AutoDecided, ApprovalTimesOut, UserDecides, CallStep, CallsGoOn
<1>6. ASSUME NEW c \in Calls, PlainTool(c) \/ Around(c) PROVE CallsGoOn
  BY <1>6 DEF PlainTool, Around, CallStep, CallsGoOn
<1>7. ASSUME NEW k \in Kids,
             \/ \E status \in {"success", "failed"} : KidEnds(k, status)
             \/ KidReported(k) \/ ReportRaises(k)
      PROVE  CallsGoOn
  <2>1. CallOf(k) \in Calls
    BY KidShape
  <2>2. CASE UNCHANGED vars
    BY <2>2 DEF CallsGoOn
  <2>3. CASE ToolSucceeds(CallOf(k)) \/ ToolFails(CallOf(k), "runtime_error")
    BY <1>0, <2>1, <2>3 DEF CallStep, CallsGoOn
  <2> QED
    BY <1>7, <2>2, <2>3 DEF KidEnds, KidReported, ReportRaises, Verdict, CallsGoOn
<1>8. CASE UNCHANGED subVars
  BY <1>8 DEF subVars, CallsGoOn
<1> QED
  BY <1>1, <1>2, <1>3, <1>4, <1>5, <1>6, <1>7, <1>8 DEF SubNext, Progress

LEMMA FamilyCallsMove ==
  ASSUME SubInv, [SubNext]_subVars, NEW d \in Calls
  PROVE  CallMoves(d)
<1>0. IInv
  BY DEF SubInv
<1>1. CASE UNCHANGED vars
  BY <1>1, StillMoves DEF vars, Still
<1>2. ASSUME NEW c \in Calls, CallStep(c) PROVE CallMoves(d)
  BY <1>0, <1>2, CallStepMoves, OthersStill, StillMoves DEF Others
<1>3. ASSUME NEW c \in Calls, NEW at, Leaves(c, at) PROVE CallMoves(d)
  BY <1>3, LeavesMoves
<1> QED
  BY <1>1, <1>2, <1>3, FamilyStep DEF CallsGoOn

LEMMA FamilyChildrenMove ==
  ASSUME SubInv, [SubNext]_subVars, NEW k \in Kids
  PROVE  ChildMoves(k)
<1>1. ASSUME NEW c \in Calls, Spawn(c) \/ SpawnRaises(c) \/ Begin(c) PROVE ChildMoves(k)
  BY <1>1, ChildStepMoves
<1>2. ASSUME NEW c \in Calls, Limit(c) PROVE ChildMoves(k)
  <2>1. Leaves(c, "failing")
    BY <1>2 DEF Limit, Leaves, Awaits
  <2> QED
    BY <2>1, CutMoves
<1>3. ASSUME NEW c \in Calls, CancelRun(c) PROVE ChildMoves(k)
  <2>1. Leaves(c, "raised")
    BY <1>3 DEF CancelRun, Leaves
  <2> QED
    BY <2>1, CutMoves
<1>4. ASSUME NEW c \in Calls,
             \/ Ask(c) \/ StartCall(c) \/ AutoDecided(c) \/ ApprovalTimesOut(c)
             \/ UserDecides(c) \/ PlainTool(c) \/ Around(c)
      PROVE  ChildMoves(k)
  <2>1. UNCHANGED <<kid, outcome, reports>>
    BY <1>4 DEF Ask, StartCall, AutoDecided, ApprovalTimesOut, UserDecides, PlainTool, Around, kids
  <2> QED
    BY <2>1, QuietChild
<1>5. ASSUME NEW j \in Kids,
             \/ \E status \in {"success", "failed"} : KidEnds(j, status)
             \/ KidReported(j) \/ ReportRaises(j)
      PROVE  ChildMoves(k)
  BY <1>5, ChildEndMoves
<1>6. CASE UNCHANGED subVars
  BY <1>6, QuietChild DEF subVars, kids
<1> QED
  BY <1>1, <1>2, <1>3, <1>4, <1>5, <1>6 DEF SubNext, Progress

\* Every step takes every call and every child of the family forward or leaves it
\* where it is; a child's outcome is final, and one that works in the background is
\* cancelled by nothing, however its caller ends.  This is what ChildrenEnd needs
\* beside fairness (tool.py:128-200, 215-260).
THEOREM FamilyAdvancesHolds == SubSpec => FamilyAdvances
<1>1. SubInv /\ [SubNext]_subVars => [FamilyMoves]_subVars
  BY FamilyCallsMove, FamilyChildrenMove DEF FamilyMoves
<1> QED
  BY <1>1, SubInvariance, PTL DEF SubSpec, FamilyAdvances
=============================================================================

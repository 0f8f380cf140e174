---------------------------- MODULE AgentProofs ----------------------------
(***************************************************************************)
(* Theorems about an agent: its loop, module AgentLoop, and the board of    *)
(* its tasks, module TaskBoard.                                             *)
(*                                                                         *)
(* What the model is asked with is well formed and complete, and what a    *)
(* run made is what the thread keeps, for any number of runs, steps and    *)
(* calls.  The board stays grounded, and so an agent that follows it never *)
(* gets stuck, for any number of tasks, any ids the agent names and any    *)
(* failing writes.                                                         *)
(***************************************************************************)
EXTENDS AgentLoop, TaskBoard, TLAPS, SequenceTheorems, WellFoundedInduction

-----------------------------------------------------------------------------
(* The loop: what its messages say. *)

\* The results in a message belong to the calls of the message before it.
Linked(ms) ==
  \A i \in 1 .. Len(ms) : ms[i].results # {} =>
    i > 1 /\ ms[i].role = "user" /\ ms[i].results \subseteq ms[i - 1].uses

\* No call is requested twice.
Distinct(ms) ==
  \A i, j \in 1 .. Len(ms) : \A id \in ms[i].uses \cap ms[j].uses : i = j

\* The calls are of runs before r, or of the first s steps of run r.
Older(ms, r, s) ==
  \A i \in 1 .. Len(ms) : \A id \in ms[i].uses :
    id[1] < r \/ (id[1] = r /\ id[2] <= s)

\* The message whose calls are being answered.
Base(ms) == IF ms # <<>> /\ Last(ms).kind = "results" THEN Len(ms) - 1 ELSE Len(ms)

\* All calls but the open ones of the last response are answered.
Answered(ms, open) ==
  \A i \in 1 .. Len(ms) : \A id \in ms[i].uses :
    \/ i < Len(ms) /\ id \in ms[i + 1].results
    \/ i = Base(ms) /\ id \in open

-----------------------------------------------------------------------------
(* Messages. *)

LEMMA AnsweredIsWellPaired ==
  ASSUME NEW ms \in Seq(Message), Linked(ms), Answered(ms, {})
  PROVE  WellPaired(ms)
<1> SUFFICES ASSUME NEW i \in 1 .. Len(ms)
             PROVE  /\ ms[i].uses # {} =>
                         i < Len(ms) /\ ms[i+1].role = "user" /\ ms[i].uses \subseteq ms[i+1].results
                    /\ ms[i].results # {} => i > 1 /\ ms[i].results \subseteq ms[i-1].uses
  BY DEF WellPaired
<1>1. \A id \in ms[i].uses : i < Len(ms) /\ id \in ms[i + 1].results
  BY DEF Answered
<1>2. i < Len(ms) => i + 1 \in 1 .. Len(ms)
  OBVIOUS
<1>3. ms[i].uses # {} => ms[i + 1].role = "user"
  BY <1>1, <1>2 DEF Linked
<1> QED
  BY <1>1, <1>3 DEF Linked

\* The longest of some lengths.
LEMMA LongestExists ==
  ASSUME NEW n \in Nat, NEW S \in SUBSET (0 .. n), S # {}
  PROVE  Max(S) \in S /\ \A k \in S : Max(S) >= k
<1> DEFINE D == {d \in 0 .. n : n - d \in S}
<1>1. D # {}
  <2>1. PICK k \in S : TRUE
    OBVIOUS
  <2>2. k \in Nat /\ n - k \in 0 .. n /\ n - (n - k) = k
    OBVIOUS
  <2>3. n - k \in D
    BY <2>1, <2>2
  <2> QED
    BY <2>3
<1>2. D \subseteq Nat /\ \A d \in D : n - d \in S /\ n - (n - d) = d
  OBVIOUS
<1>a. \A j \in S : n - (n - j) = j /\ n - j \in D
  OBVIOUS
<1>b. \E d \in D : \A e \in D : d <= e
  <2> HIDE DEF D
  <2> DEFINE below == OpToRel(<, Nat)
  <2>1. IsWellFoundedOn(below, Nat)
    BY NatLessThanWellFounded, Zenon
  <2>2. \A i, j \in Nat : i < j => <<i, j>> \in below
    BY DEF OpToRel
  <2> HIDE DEF below
  <2>3. PICK d \in D : \A e \in D : ~(<<e, d>> \in below)
    BY <1>1, <1>2, <2>1, WFMin
  <2>4. d \in Nat /\ \A e \in D : e \in Nat /\ ~(e < d)
    BY <1>2, <2>2, <2>3
  <2>5. \A e \in D : d <= e
    BY <2>4
  <2> QED
    BY <2>5
<1>3. PICK k \in S : \A e \in D : n - k <= e
  <2>1. PICK d \in D : \A e \in D : d <= e
    BY <1>b
  <2> QED
    BY <1>2, <2>1
<1> HIDE DEF D
<1>4. \A j \in S : k >= j
  <2> SUFFICES ASSUME NEW j \in S PROVE k >= j
    OBVIOUS
  <2>1. n - k <= n - j
    BY <1>a, <1>3
  <2> QED
    BY <2>1
<1> QED
  BY <1>4 DEF Max

\* The rows that _trim_orphan_tool_use leaves end where no call is open.
LEMMA TrimFacts ==
  ASSUME NEW ms \in Seq(Message), ms # <<>>, ms[1].uses = {}
  PROVE  \E n \in 1 .. Len(ms) :
           Unanswered(ms, n) = {} /\ TrimOrphanToolUse(ms) = SubSeq(ms, 1, n)
<1> DEFINE S == {n \in 0 .. Len(ms) : Unanswered(ms, n) = {}}
<1>1. Len(ms) \in Nat /\ Len(ms) > 0
  OBVIOUS
<1>2. Unanswered(ms, 1) = {}
  <2>1. 1 .. 1 = {1}
    OBVIOUS
  <2> QED
    BY <2>1 DEF Unanswered
<1>3. CASE Unanswered(ms, Len(ms)) = {}
  <2>1. SubSeq(ms, 1, Len(ms)) = ms
    BY <1>1
  <2>2. Len(ms) \in 1 .. Len(ms)
    BY <1>1
  <2> QED
    BY <1>3, <2>1, <2>2 DEF TrimOrphanToolUse
<1>4. CASE Unanswered(ms, Len(ms)) # {}
  <2>1. S \in SUBSET (0 .. Len(ms)) /\ 1 \in S
    BY <1>1, <1>2
  <2>2. \A n \in S : n \in 0 .. Len(ms) /\ Unanswered(ms, n) = {}
    OBVIOUS
  <2>3. Max(S) \in 1 .. Len(ms) /\ Unanswered(ms, Max(S)) = {}
    <3> HIDE DEF S
    <3>1. Max(S) \in S /\ Max(S) >= 1
      BY <1>1, <2>1, LongestExists
    <3> QED
      BY <1>1, <2>2, <3>1
  <2>4. TrimOrphanToolUse(ms) = SubSeq(ms, 1, Max(S))
    BY <1>4 DEF TrimOrphanToolUse
  <2> QED
    BY <2>3, <2>4
<1> QED
  BY <1>3, <1>4

\* Where no call is open, every call is answered by the next message.
LEMMA NothingOpen ==
  ASSUME NEW ms \in Seq(Message), Linked(ms), Distinct(ms),
         NEW n \in 1 .. Len(ms), Unanswered(ms, n) = {},
         NEW t \in Seq(Message), Len(t) = n, \A i \in 1 .. n : t[i] = ms[i]
  PROVE  Answered(t, {})
<1> SUFFICES ASSUME NEW i \in 1 .. n, NEW id \in t[i].uses
             PROVE  i < n /\ id \in t[i + 1].results
  BY DEF Answered
<1>0. Len(ms) \in Nat /\ n \in Nat
  OBVIOUS
<1>1. id \in UNION {ms[j].uses : j \in 1 .. n}
  OBVIOUS
<1>2. PICK k, j \in 1 .. n : id \in ms[k].uses /\ k < j /\ id \in ms[j].results
  BY <1>1 DEF Unanswered
<1>3. j > 1 /\ id \in ms[j - 1].uses /\ j \in 1 .. Len(ms) /\ j - 1 \in 1 .. Len(ms)
  BY <1>0, <1>2 DEF Linked
<1>4. i \in 1 .. Len(ms) /\ id \in ms[i].uses
  BY <1>0
<1>5. i = j - 1
  BY <1>3, <1>4 DEF Distinct
<1>6. i < n /\ i + 1 = j /\ i + 1 \in 1 .. n
  BY <1>0, <1>2, <1>5
<1> QED
  BY <1>2, <1>6

\* A thread without open calls is read as it is.
LEMMA NothingTrimmed ==
  ASSUME NEW ms \in Seq(Message), Answered(ms, {})
  PROVE  TrimOrphanToolUse(ms) = ms
<1>1. Unanswered(ms, Len(ms)) = {}
  <2> SUFFICES ASSUME NEW i \in 1 .. Len(ms), NEW id \in ms[i].uses
               PROVE  \E k, j \in 1 .. Len(ms) : id \in ms[k].uses /\ k < j /\ id \in ms[j].results
    BY DEF Unanswered
  <2>1. i < Len(ms) /\ id \in ms[i + 1].results
    BY DEF Answered
  <2>2. i + 1 \in 1 .. Len(ms) /\ i < i + 1
    BY <2>1
  <2> QED
    BY <2>1, <2>2
<1> QED
  BY <1>1 DEF TrimOrphanToolUse

\* What holds of a conversation holds of its beginning.
LEMMA PrefixKeeps ==
  ASSUME NEW ms \in Seq(Message), NEW t \in Seq(Message), Len(t) <= Len(ms),
         \A i \in 1 .. Len(t) : t[i] = ms[i]
  PROVE  /\ Linked(ms) => Linked(t)
         /\ Distinct(ms) => Distinct(t)
         /\ \A r, k : Older(ms, r, k) => Older(t, r, k)
<1>1. \A i \in 1 .. Len(t) : i \in 1 .. Len(ms)
  OBVIOUS
<1>2. Linked(ms) => Linked(t)
  <2> SUFFICES ASSUME Linked(ms), NEW i \in 1 .. Len(t), t[i].results # {}
               PROVE  i > 1 /\ t[i].role = "user" /\ t[i].results \subseteq t[i - 1].uses
    BY DEF Linked
  <2>1. i > 1 /\ ms[i].role = "user" /\ ms[i].results \subseteq ms[i - 1].uses
    BY <1>1 DEF Linked
  <2>2. i - 1 \in 1 .. Len(t)
    BY <2>1
  <2> QED
    BY <2>1, <2>2
<1>3. Distinct(ms) => Distinct(t)
  BY <1>1 DEF Distinct
<1>4. \A r, k : Older(ms, r, k) => Older(t, r, k)
  BY <1>1 DEF Older
<1> QED
  BY <1>2, <1>3, <1>4

\* A message without results is added.
LEMMA AddMessage ==
  ASSUME NEW ms \in Seq(Message), NEW m \in Message, m.results = {}, m.kind # "results",
         NEW t, t = Append(ms, m)
  PROVE  /\ t \in Seq(Message) /\ Len(t) = Len(ms) + 1 /\ t[Len(t)] = m /\ t # <<>>
         /\ \A i \in 1 .. Len(ms) : t[i] = ms[i]
         /\ Base(t) = Len(t)
         /\ Linked(ms) => Linked(t)
         /\ Distinct(ms) /\ (\A i \in 1 .. Len(ms) : ms[i].uses \cap m.uses = {}) => Distinct(t)
         /\ Answered(ms, {}) => Answered(t, m.uses)
<1>1. /\ t \in Seq(Message) /\ Len(t) = Len(ms) + 1 /\ t[Len(t)] = m /\ t # <<>>
      /\ \A i \in 1 .. Len(ms) : t[i] = ms[i]
  OBVIOUS
<1>a. Len(ms) \in Nat /\ \A i \in 1 .. Len(t) : i \in 1 .. Len(ms) \/ i = Len(t)
  BY <1>1
<1>2. Base(t) = Len(t)
  BY <1>1 DEF Base, Last
<1>3. Linked(ms) => Linked(t)
  <2> SUFFICES ASSUME Linked(ms), NEW i \in 1 .. Len(t), t[i].results # {}
               PROVE  i > 1 /\ t[i].role = "user" /\ t[i].results \subseteq t[i - 1].uses
    BY DEF Linked
  <2>1. i \in 1 .. Len(ms) /\ t[i] = ms[i]
    BY <1>1, <1>a
  <2>2. i > 1 /\ ms[i].role = "user" /\ ms[i].results \subseteq ms[i - 1].uses
    BY <2>1 DEF Linked
  <2>3. i - 1 \in 1 .. Len(ms)
    BY <2>1, <2>2
  <2> QED
    BY <1>1, <2>1, <2>2, <2>3
<1>4. ASSUME Distinct(ms), \A i \in 1 .. Len(ms) : ms[i].uses \cap m.uses = {}
      PROVE  Distinct(t)
  BY <1>1, <1>a, <1>4 DEF Distinct
<1>5. ASSUME Answered(ms, {}) PROVE Answered(t, m.uses)
  <2> SUFFICES ASSUME NEW i \in 1 .. Len(t), NEW id \in t[i].uses
               PROVE  \/ i < Len(t) /\ id \in t[i + 1].results
                      \/ i = Base(t) /\ id \in m.uses
    BY DEF Answered
  <2>1. CASE i = Len(t)
    BY <1>1, <1>2, <2>1
  <2>2. CASE i \in 1 .. Len(ms)
    <3>1. i < Len(ms) /\ id \in ms[i + 1].results
      BY <1>1, <1>5, <2>2 DEF Answered
    <3>2. i + 1 \in 1 .. Len(ms)
      BY <1>a, <2>2, <3>1
    <3> QED
      BY <1>1, <1>a, <2>2, <3>1, <3>2
  <2> QED
    BY <1>a, <2>1, <2>2
<1> QED
  BY <1>1, <1>2, <1>3, <1>4, <1>5

\* add_tool_result: the message whose calls are answered stays where it is.
ResultAdded(t, ms, r, id) ==
  /\ t \in Seq(Message) /\ Base(t) = Base(ms) /\ Len(t) = Base(ms) + 1
  /\ Last(t).kind = "results" /\ Last(t).role = "user" /\ Last(t).uses = {}
  /\ \A i \in 1 .. Base(ms) : t[i] = ms[i]
  /\ Last(t).results =
       {id} \cup (IF Last(ms).kind = "results" THEN Last(ms).results ELSE {})
  /\ Last(t) = ToolResults(r, Last(t).results)

LEMMA AddResult ==
  ASSUME NEW ms \in Seq(Message), NEW r \in 0 .. MaxRuns, NEW id \in ToolIds,
         Base(ms) \in 1 .. Len(ms), id \in ms[Base(ms)].uses,
         NEW t, t = AddToolResult(ms, r, id)
  PROVE  ResultAdded(t, ms, r, id)
<1> USE DEF ResultAdded
<1>1. Len(ms) \in Nat /\ Len(ms) > 0 /\ ms # <<>>
  OBVIOUS
<1>2. Last(ms) \in Message /\ Last(ms) = ms[Len(ms)]
  BY <1>1 DEF Last
<1>3. CASE Last(ms).kind = "results"
  <2> DEFINE m == ToolResults(r, Last(ms).results \cup {id})
  <2>1. t = [ms EXCEPT ![Len(ms)] = m]
    BY <1>1, <1>2, <1>3 DEF AddToolResult
  <2>2. m \in Message
    BY <1>2 DEF ToolResults, Message, Kinds
  <2>3. /\ m.kind = "results" /\ m.role = "user" /\ m.uses = {}
        /\ m.results = {id} \cup Last(ms).results
        /\ m = ToolResults(r, m.results)
    BY DEF ToolResults
  <2> HIDE DEF m
  <2>4. /\ t \in Seq(Message) /\ Len(t) = Len(ms) /\ t[Len(ms)] = m
        /\ \A i \in 1 .. Len(ms) - 1 : t[i] = ms[i]
    BY <1>1, <2>1, <2>2
  <2>5. Last(t) = m /\ t # <<>>
    BY <1>1, <2>4 DEF Last
  <2>6. Base(ms) = Len(ms) - 1 /\ Base(t) = Len(ms) - 1
    BY <1>1, <1>3, <2>3, <2>4, <2>5 DEF Base
  <2>7. Len(t) = Base(ms) + 1
    BY <1>1, <2>4, <2>6
  <2> QED
    BY <1>3, <2>3, <2>4, <2>5, <2>6, <2>7
<1>4. CASE Last(ms).kind # "results"
  <2> DEFINE m == ToolResults(r, {id})
  <2>1. t = Append(ms, m)
    BY <1>1, <1>4 DEF AddToolResult
  <2>2. m \in Message
    BY DEF ToolResults, Message, Kinds
  <2>3. /\ m.kind = "results" /\ m.role = "user" /\ m.uses = {} /\ m.results = {id}
        /\ m = ToolResults(r, m.results)
    BY DEF ToolResults
  <2> HIDE DEF m
  <2>4. /\ t \in Seq(Message) /\ Len(t) = Len(ms) + 1 /\ t[Len(ms) + 1] = m
        /\ \A i \in 1 .. Len(ms) : t[i] = ms[i]
    BY <1>1, <2>1, <2>2
  <2>5. Last(t) = m /\ t # <<>>
    BY <1>1, <2>4 DEF Last
  <2>6. Base(ms) = Len(ms) /\ Base(t) = Len(ms)
    BY <1>1, <1>4, <2>3, <2>4, <2>5 DEF Base
  <2> QED
    BY <1>4, <2>3, <2>4, <2>5, <2>6
<1> QED
  BY <1>3, <1>4

\* The result belongs to one of the calls that are being answered.
LEMMA ResultKeeps ==
  ASSUME NEW ms \in Seq(Message), NEW r \in 0 .. MaxRuns, NEW id \in ToolIds,
         Base(ms) \in 1 .. Len(ms), id \in ms[Base(ms)].uses,
         NEW t, t = AddToolResult(ms, r, id)
  PROVE  /\ Linked(ms) => Linked(t)
         /\ Distinct(ms) => Distinct(t)
         /\ \A q, k : Older(ms, q, k) => Older(t, q, k)
         /\ \A open, rest : Answered(ms, open) /\ open \subseteq rest \cup {id} => Answered(t, rest)
<1> DEFINE b == Base(ms)
<1>1. /\ t \in Seq(Message) /\ Base(t) = b /\ Len(t) = b + 1
      /\ Last(t).role = "user" /\ Last(t).uses = {}
      /\ \A i \in 1 .. b : t[i] = ms[i]
      /\ Last(t).results =
              {id} \cup (IF Last(ms).kind = "results" THEN Last(ms).results ELSE {})
  <2>1. ResultAdded(t, ms, r, id)
    BY AddResult
  <2> QED
    BY <2>1 DEF ResultAdded
<1>2. b \in Nat /\ b > 0 /\ Len(ms) \in Nat /\ b <= Len(ms)
  OBVIOUS
<1>3. (Last(ms).kind = "results" /\ Len(ms) = b + 1) \/ (Last(ms).kind # "results" /\ Len(ms) = b)
  BY <1>2 DEF Base
<1>4. Last(t) = t[b + 1] /\ Last(ms) = ms[Len(ms)]
  BY <1>1 DEF Last
<1>5. t[b] = ms[b] /\ id \in t[b].uses
  BY <1>1, <1>2
<1>6. \A i \in 1 .. Len(t) : i \in 1 .. b \/ i = b + 1
  BY <1>1, <1>2
<1>7. \A i \in 1 .. b : i \in 1 .. Len(ms)
  BY <1>2
<1> HIDE DEF b
<1>8. Linked(ms) => Linked(t)
  <2> SUFFICES ASSUME Linked(ms), NEW i \in 1 .. Len(t), t[i].results # {}
               PROVE  i > 1 /\ t[i].role = "user" /\ t[i].results \subseteq t[i - 1].uses
    BY DEF Linked
  <2>1. CASE i \in 1 .. b
    <3>1. i > 1 /\ ms[i].role = "user" /\ ms[i].results \subseteq ms[i - 1].uses
      BY <1>1, <1>7, <2>1 DEF Linked
    <3>2. i - 1 \in 1 .. b
      BY <1>2, <2>1, <3>1
    <3> QED
      BY <1>1, <2>1, <3>1, <3>2
  <2>2. CASE i = b + 1
    <3>1. i > 1 /\ i - 1 = b
      BY <1>2, <2>2
    <3>2. CASE Last(ms).kind = "results"
      <4>1. Len(ms) = b + 1 /\ Len(ms) \in 1 .. Len(ms) /\ Len(ms) - 1 = b
        BY <1>2, <1>3, <3>2
      <4>2. Last(ms).results \subseteq ms[b].uses
        BY <1>4, <4>1 DEF Linked
      <4> QED
        BY <1>1, <1>4, <1>5, <2>2, <3>1, <3>2, <4>2
    <3>3. CASE Last(ms).kind # "results"
      BY <1>1, <1>4, <1>5, <2>2, <3>1, <3>3
    <3> QED
      BY <3>2, <3>3
  <2> QED
    BY <1>6, <2>1, <2>2
<1>9. Distinct(ms) => Distinct(t)
  BY <1>1, <1>4, <1>6, <1>7 DEF Distinct
<1>10. \A q, k : Older(ms, q, k) => Older(t, q, k)
  BY <1>1, <1>4, <1>6, <1>7 DEF Older
<1>11. ASSUME NEW open, NEW rest, Answered(ms, open), open \subseteq rest \cup {id}
       PROVE  Answered(t, rest)
  <2> SUFFICES ASSUME NEW i \in 1 .. Len(t), NEW j \in t[i].uses
               PROVE  \/ i < Len(t) /\ j \in t[i + 1].results
                      \/ i = Base(t) /\ j \in rest
    BY DEF Answered
  <2>1. i \in 1 .. b /\ i \in 1 .. Len(ms) /\ j \in ms[i].uses
    BY <1>1, <1>4, <1>6, <1>7
  <2>2. (i < Len(ms) /\ j \in ms[i + 1].results) \/ (i = Base(ms) /\ j \in open)
    BY <1>11, <2>1 DEF Answered
  <2>3. CASE i < b
    <3>1. i # b /\ i + 1 \in 1 .. b /\ i < Len(t)
      BY <1>1, <1>2, <2>1, <2>3
    <3>2. j \in ms[i + 1].results
      BY <2>2, <3>1 DEF b
    <3> QED
      BY <1>1, <3>1, <3>2
  <2>4. CASE i = b
    <3>1. i < Len(t) /\ t[i + 1] = Last(t)
      BY <1>1, <1>2, <1>4, <2>4
    <3>2. CASE i < Len(ms) /\ j \in ms[i + 1].results
      <4>1. Last(ms).kind = "results" /\ ms[i + 1] = Last(ms)
        BY <1>2, <1>3, <1>4, <2>4, <3>2
      <4> QED
        BY <1>1, <3>1, <3>2, <4>1
    <3>3. CASE j \in open
      <4>1. j = id \/ j \in rest
        BY <1>11, <3>3
      <4> QED
        BY <1>1, <2>4, <3>1, <4>1
    <3> QED
      BY <2>2, <3>2, <3>3
  <2> QED
    BY <1>2, <2>1, <2>3, <2>4
<1> QED
  BY <1>8, <1>9, <1>10, <1>11

\* What a run has produced is the end of its context.
Ending(ms, ps, p, r) ==
  /\ p + Len(ps) = Len(ms)
  /\ \A i \in 1 .. Len(ps) : ps[i] = ms[p + i]
  /\ ps # <<>> => ps[1].results = {} /\ ps[1].kind # "results"
  /\ \A i \in 1 .. Len(ps) : \A id \in ps[i].uses : id[1] = r

LEMMA EndingAppend ==
  ASSUME NEW ms \in Seq(Message), NEW ps \in Seq(Message), NEW p \in Nat, NEW r,
         Ending(ms, ps, p, r), NEW m \in Message, \A id \in m.uses : id[1] = r,
         ps = <<>> => m.results = {} /\ m.kind # "results"
  PROVE  Ending(Append(ms, m), Append(ps, m), p, r)
<1> DEFINE mt == Append(ms, m)
           pt == Append(ps, m)
<1>1. /\ Len(mt) = Len(ms) + 1 /\ mt[Len(ms) + 1] = m
      /\ \A i \in 1 .. Len(ms) : mt[i] = ms[i]
  OBVIOUS
<1>2. /\ Len(pt) = Len(ps) + 1 /\ pt[Len(ps) + 1] = m /\ pt \in Seq(Message)
      /\ \A i \in 1 .. Len(ps) : pt[i] = ps[i]
  OBVIOUS
<1>3. Len(ms) \in Nat /\ Len(ps) \in Nat /\ p + Len(ps) = Len(ms)
  BY DEF Ending
<1> HIDE DEF mt, pt
<1>4. \A i \in 1 .. Len(pt) : i \in 1 .. Len(ps) \/ i = Len(ps) + 1
  BY <1>2, <1>3
<1>5. \A i \in 1 .. Len(ps) : p + i \in 1 .. Len(ms)
  BY <1>3
<1>6. p + Len(pt) = Len(mt) /\ p + (Len(ps) + 1) = Len(ms) + 1
  <2>1. Len(mt) = Len(ms) + 1 /\ Len(pt) = Len(ps) + 1
    BY <1>1, <1>2
  <2> QED
    BY <1>3, <2>1
<1>7. \A i \in 1 .. Len(pt) : pt[i] = mt[p + i]
  BY <1>1, <1>2, <1>4, <1>5, <1>6 DEF Ending
<1>8. pt[1].results = {} /\ pt[1].kind # "results"
  <2>1. CASE ps = <<>>
    <3>1. Len(ps) + 1 = 1
      BY <2>1
    <3> QED
      BY <1>2, <2>1, <3>1
  <2>2. CASE ps # <<>>
    <3>1. 1 \in 1 .. Len(ps)
      BY <2>2, <1>3
    <3> QED
      BY <1>2, <2>2, <3>1 DEF Ending
  <2> QED
    BY <2>1, <2>2
<1>9. \A i \in 1 .. Len(pt) : \A id \in pt[i].uses : id[1] = r
  BY <1>2, <1>4 DEF Ending
<1>10. Ending(mt, pt, p, r)
  BY <1>6, <1>7, <1>8, <1>9 DEF Ending
<1> QED
  BY <1>10 DEF mt, pt

LEMMA EndingResult ==
  ASSUME NEW ms \in Seq(Message), NEW ps \in Seq(Message), NEW p \in Nat,
         NEW q \in 0 .. MaxRuns, NEW r, Ending(ms, ps, p, r), ps # <<>>, NEW id \in ToolIds,
         Base(ms) \in 1 .. Len(ms), id \in ms[Base(ms)].uses
  PROVE  Ending(AddToolResult(ms, q, id), AddToolResult(ps, q, id), p, r)
<1> DEFINE mt == AddToolResult(ms, q, id)
           pt == AddToolResult(ps, q, id)
<1>1. Len(ms) \in Nat /\ Len(ps) \in Nat /\ p + Len(ps) = Len(ms) /\ Len(ps) > 0
  BY DEF Ending
<1>2. Last(ps) = Last(ms) /\ Last(ps) = ps[Len(ps)]
  <2>1. Len(ps) \in 1 .. Len(ps)
    BY <1>1
  <2>2. ps[Len(ps)] = ms[p + Len(ps)]
    BY <2>1 DEF Ending
  <2> QED
    BY <1>1, <2>2 DEF Last
<1>3. Len(ps) = 1 => Last(ps).kind # "results"
  BY <1>2 DEF Ending
<1>4. Base(ps) \in 1 .. Len(ps) /\ p + Base(ps) = Base(ms)
  <2>1. ms # <<>>
    BY <1>1
  <2>2. CASE Last(ms).kind = "results"
    <3>1. Base(ms) = Len(ms) - 1 /\ Base(ps) = Len(ps) - 1
      BY <1>2, <2>1, <2>2 DEF Base
    <3>2. Len(ps) # 1
      BY <1>2, <1>3, <2>2
    <3>a. \A n \in Nat : n > 0 /\ n # 1 => n - 1 \in 1 .. n
      OBVIOUS
    <3>3. Len(ps) - 1 \in 1 .. Len(ps)
      BY <1>1, <3>2, <3>a
    <3>4. p + (Len(ps) - 1) = Len(ms) - 1
      BY <1>1
    <3> QED
      BY <3>1, <3>3, <3>4
  <2>3. CASE Last(ms).kind # "results"
    <3>1. Base(ms) = Len(ms) /\ Base(ps) = Len(ps)
      BY <1>2, <2>3 DEF Base
    <3> QED
      BY <1>1, <3>1
  <2> QED
    BY <2>2, <2>3
<1>5. id \in ps[Base(ps)].uses
  BY <1>4 DEF Ending
<1>a. mt = AddToolResult(ms, q, id) /\ pt = AddToolResult(ps, q, id)
  OBVIOUS
<1> HIDE DEF mt, pt
<1>6. /\ mt \in Seq(Message) /\ Base(mt) = Base(ms) /\ Len(mt) = Base(ms) + 1
      /\ \A i \in 1 .. Base(ms) : mt[i] = ms[i]
      /\ Last(mt).results = {id} \cup (IF Last(ms).kind = "results" THEN Last(ms).results ELSE {})
      /\ Last(mt) = ToolResults(q, Last(mt).results)
  <2>1. ResultAdded(mt, ms, q, id)
    BY <1>a, AddResult
  <2> QED
    BY <2>1 DEF ResultAdded
<1>7. /\ pt \in Seq(Message) /\ Base(pt) = Base(ps) /\ Len(pt) = Base(ps) + 1
      /\ \A i \in 1 .. Base(ps) : pt[i] = ps[i]
      /\ Last(pt).uses = {}
      /\ Last(pt).results = {id} \cup (IF Last(ps).kind = "results" THEN Last(ps).results ELSE {})
      /\ Last(pt) = ToolResults(q, Last(pt).results)
  <2>1. Base(ps) \in 1 .. Len(ps)
    BY <1>4
  <2>2. ResultAdded(pt, ps, q, id)
    BY <1>5, <1>a, <2>1, AddResult
  <2> QED
    BY <2>2 DEF ResultAdded
<1>8. Last(mt) = Last(pt)
  BY <1>2, <1>6, <1>7
<1>9. Last(mt) = mt[Base(ms) + 1] /\ Last(pt) = pt[Base(ps) + 1]
  BY <1>6, <1>7 DEF Last
<1> DEFINE b == Base(ps)
           c == Base(ms)
<1>10. b \in Nat /\ b > 0 /\ c \in Nat /\ p + b = c /\ b <= Len(ps) /\ c <= Len(ms)
  BY <1>1, <1>4
<1>11. Len(pt) = b + 1 /\ Len(mt) = c + 1
  BY <1>6, <1>7
<1>12. \A i \in 1 .. b : pt[i] = ps[i] /\ mt[p + i] = ms[p + i] /\ i \in 1 .. Len(ps)
  <2>1. \A i \in 1 .. b : p + i \in 1 .. c /\ i \in 1 .. Len(ps)
    BY <1>1, <1>10
  <2>2. \A i \in 1 .. b : pt[i] = ps[i]
    BY <1>7
  <2>3. \A i \in 1 .. c : mt[i] = ms[i]
    BY <1>6
  <2> QED
    BY <2>1, <2>2, <2>3
<1>13. pt[b + 1] = mt[c + 1] /\ pt[b + 1].uses = {}
  BY <1>7, <1>8, <1>9
<1> HIDE DEF b, c
<1>14. \A i \in 1 .. Len(pt) : i \in 1 .. b \/ i = b + 1
  BY <1>10, <1>11
<1>15. p + Len(pt) = Len(mt) /\ p + (b + 1) = c + 1
  BY <1>10, <1>11
<1>16. \A i \in 1 .. Len(pt) : pt[i] = mt[p + i]
  BY <1>12, <1>13, <1>14, <1>15 DEF Ending
<1>17. pt[1].results = {} /\ pt[1].kind # "results"
  <2>1. 1 \in 1 .. b
    BY <1>10
  <2> QED
    BY <1>12, <2>1 DEF Ending
<1>18. \A i \in 1 .. Len(pt) : \A j \in pt[i].uses : j[1] = r
  BY <1>12, <1>13, <1>14 DEF Ending
<1>19. Ending(mt, pt, p, r)
  BY <1>15, <1>16, <1>17, <1>18 DEF Ending
<1> QED
  BY <1>19 DEF mt, pt

\* The slice that run_and_capture appends to the thread.
LEMMA Slice ==
  ASSUME NEW ms \in Seq(Message), NEW p \in Nat,
         NEW b, b = SubSeq(ms, p + 1, Len(ms))
  PROVE  /\ b \in Seq(Message) /\ Len(b) = (IF p <= Len(ms) THEN Len(ms) - p ELSE 0)
         /\ \A i \in 1 .. Len(b) : p + i \in 1 .. Len(ms) /\ b[i] = ms[p + i]
<1>1. Len(ms) \in Nat
  OBVIOUS
<1>2. CASE p < Len(ms)
  <2>1. p + 1 \in 1 .. Len(ms) + 1 /\ Len(ms) \in (p + 1) - 1 .. Len(ms)
    BY <1>1, <1>2
  <2>2. /\ b \in Seq(Message) /\ Len(b) = Len(ms) - (p + 1) + 1
        /\ \A i \in 1 .. Len(ms) - (p + 1) + 1 : b[i] = ms[(p + 1) + i - 1]
    BY <2>1, SubSeqProperties
  <2>3. Len(ms) - (p + 1) + 1 = Len(ms) - p
    BY <1>1
  <2>4. \A i \in 1 .. Len(ms) - p : (p + 1) + i - 1 = p + i /\ p + i \in 1 .. Len(ms)
    BY <1>1
  <2>5. \A i \in 1 .. Len(ms) - p : b[i] = ms[(p + 1) + i - 1]
    BY <2>2, <2>3
  <2>6. p <= Len(ms)
    BY <1>1, <1>2
  <2>7. Len(b) = Len(ms) - p
    BY <2>2, <2>3
  <2> QED
    BY <2>2, <2>4, <2>5, <2>6, <2>7
<1>3. CASE ~(p < Len(ms))
  <2>1. b = <<>>
    BY <1>1, <1>3
  <2>2. (IF p <= Len(ms) THEN Len(ms) - p ELSE 0) = 0
    BY <1>1, <1>3
  <2> QED
    BY <2>1, <2>2
<1> QED
  BY <1>2, <1>3

LEMMA SliceAnswered ==
  ASSUME NEW ms \in Seq(Message), NEW p \in Nat, Answered(ms, {}),
         NEW b, b = SubSeq(ms, p + 1, Len(ms))
  PROVE  Answered(b, {})
<1>1. /\ b \in Seq(Message) /\ Len(b) = (IF p <= Len(ms) THEN Len(ms) - p ELSE 0)
      /\ \A i \in 1 .. Len(b) : p + i \in 1 .. Len(ms) /\ b[i] = ms[p + i]
  BY Slice
<1> SUFFICES ASSUME NEW i \in 1 .. Len(b), NEW id \in b[i].uses
             PROVE  i < Len(b) /\ id \in b[i + 1].results
  BY DEF Answered
<1>2. p + i < Len(ms) /\ id \in ms[(p + i) + 1].results
  BY <1>1 DEF Answered
<1>3. Len(ms) \in Nat /\ Len(b) = Len(ms) - p /\ i \in Nat
  BY <1>1, <1>2
<1>4. i < Len(b) /\ i + 1 \in 1 .. Len(b) /\ p + (i + 1) = (p + i) + 1
  BY <1>2, <1>3
<1> QED
  BY <1>1, <1>2, <1>4

\* A thread is extended.
LEMMA JoinKeeps ==
  ASSUME NEW a \in Seq(Message), NEW b \in Seq(Message), NEW t, t = a \o b
  PROVE  /\ t \in Seq(Message)
         /\ Linked(a) /\ Linked(b) => Linked(t)
         /\ /\ Distinct(a) /\ Distinct(b)
            /\ \A i \in 1 .. Len(a), j \in 1 .. Len(b) : a[i].uses \cap b[j].uses = {}
            => Distinct(t)
         /\ Answered(a, {}) /\ Answered(b, {}) => Answered(t, {})
         /\ \A r, k : Older(a, r, k) /\ Older(b, r, k) => Older(t, r, k)
         /\ a # <<>> => t # <<>> /\ t[1] = a[1]
<1>1. /\ t \in Seq(Message) /\ Len(t) = Len(a) + Len(b)
      /\ \A i \in 1 .. Len(a) + Len(b) :
           t[i] = IF i <= Len(a) THEN a[i] ELSE b[i - Len(a)]
  BY ConcatProperties
<1>2. Len(a) \in Nat /\ Len(b) \in Nat
  OBVIOUS
<1>3. \A i \in 1 .. Len(a) : t[i] = a[i] /\ i \in 1 .. Len(t)
  BY <1>1, <1>2
<1>4. \A i \in 1 .. Len(b) : t[Len(a) + i] = b[i] /\ Len(a) + i \in 1 .. Len(t)
  <2> SUFFICES ASSUME NEW i \in 1 .. Len(b)
               PROVE  t[Len(a) + i] = b[i] /\ Len(a) + i \in 1 .. Len(t)
    OBVIOUS
  <2>1. /\ Len(a) + i \in 1 .. Len(a) + Len(b) /\ ~(Len(a) + i <= Len(a))
        /\ (Len(a) + i) - Len(a) = i
    BY <1>2
  <2> QED
    BY <1>1, <2>1
<1>5. \A i \in 1 .. Len(t) : i \in 1 .. Len(a) \/ \E j \in 1 .. Len(b) : i = Len(a) + j
  <2> SUFFICES ASSUME NEW i \in 1 .. Len(t), i \notin 1 .. Len(a)
               PROVE  \E j \in 1 .. Len(b) : i = Len(a) + j
    OBVIOUS
  <2>1. i - Len(a) \in 1 .. Len(b) /\ i = Len(a) + (i - Len(a))
    BY <1>1, <1>2
  <2> QED
    BY <2>1
<1>6. ASSUME Linked(a), Linked(b) PROVE Linked(t)
  <2> SUFFICES ASSUME NEW i \in 1 .. Len(t), t[i].results # {}
               PROVE  i > 1 /\ t[i].role = "user" /\ t[i].results \subseteq t[i - 1].uses
    BY DEF Linked
  <2>1. CASE i \in 1 .. Len(a)
    <3>1. i > 1 /\ a[i].role = "user" /\ a[i].results \subseteq a[i - 1].uses
      BY <1>3, <1>6, <2>1 DEF Linked
    <3>2. i - 1 \in 1 .. Len(a)
      BY <1>2, <2>1, <3>1
    <3> QED
      BY <1>3, <2>1, <3>1, <3>2
  <2>2. ASSUME NEW j \in 1 .. Len(b), i = Len(a) + j 
        PROVE  i > 1 /\ t[i].role = "user" /\ t[i].results \subseteq t[i - 1].uses
    <3>1. j > 1 /\ b[j].role = "user" /\ b[j].results \subseteq b[j - 1].uses
      BY <1>4, <1>6, <2>2 DEF Linked
    <3>2. j - 1 \in 1 .. Len(b) /\ Len(a) + (j - 1) = i - 1 /\ i > 1
      BY <1>2, <2>2, <3>1
    <3>3. t[i - 1] = b[j - 1] /\ t[i] = b[j]
      BY <1>4, <2>2, <3>2
    <3> QED
      BY <3>1, <3>2, <3>3
  <2> QED
    BY <1>5, <2>1, <2>2
<1>7. ASSUME Distinct(a), Distinct(b),
             \A i \in 1 .. Len(a), j \in 1 .. Len(b) : a[i].uses \cap b[j].uses = {}
      PROVE  Distinct(t)
  <2> SUFFICES ASSUME NEW i \in 1 .. Len(t), NEW j \in 1 .. Len(t),
                      NEW id \in t[i].uses \cap t[j].uses
               PROVE  i = j
    BY DEF Distinct
  <2>1. CASE i \in 1 .. Len(a) /\ j \in 1 .. Len(a)
    BY <1>3, <1>7, <2>1 DEF Distinct
  <2>2. ASSUME NEW k \in 1 .. Len(b), i = Len(a) + k, NEW l \in 1 .. Len(b), j = Len(a) + l
        PROVE  i = j
    BY <1>4, <1>7, <2>2 DEF Distinct
  <2>3. ASSUME i \in 1 .. Len(a), NEW l \in 1 .. Len(b), j = Len(a) + l PROVE FALSE
    BY <1>3, <1>4, <1>7, <2>3
  <2>4. ASSUME j \in 1 .. Len(a), NEW l \in 1 .. Len(b), i = Len(a) + l PROVE FALSE
    BY <1>3, <1>4, <1>7, <2>4
  <2> QED
    BY <1>5, <2>1, <2>2, <2>3, <2>4
<1>8. ASSUME Answered(a, {}), Answered(b, {}) PROVE Answered(t, {})
  <2> SUFFICES ASSUME NEW i \in 1 .. Len(t), NEW id \in t[i].uses
               PROVE  i < Len(t) /\ id \in t[i + 1].results
    BY DEF Answered
  <2>1. CASE i \in 1 .. Len(a)
    <3>1. i < Len(a) /\ id \in a[i + 1].results
      BY <1>3, <1>8, <2>1 DEF Answered
    <3>2. i + 1 \in 1 .. Len(a) /\ i < Len(t)
      BY <1>1, <1>2, <2>1, <3>1
    <3> QED
      BY <1>3, <3>1, <3>2
  <2>2. ASSUME NEW j \in 1 .. Len(b), i = Len(a) + j
        PROVE  i < Len(t) /\ id \in t[i + 1].results
    <3>1. j < Len(b) /\ id \in b[j + 1].results
      BY <1>4, <1>8, <2>2 DEF Answered
    <3>2. j + 1 \in 1 .. Len(b) /\ Len(a) + (j + 1) = i + 1 /\ i < Len(t)
      BY <1>1, <1>2, <2>2, <3>1
    <3>3. t[i + 1] = b[j + 1]
      BY <1>4, <3>2
    <3> QED
      BY <3>1, <3>2, <3>3
  <2> QED
    BY <1>5, <2>1, <2>2
<1>9. \A r, k : Older(a, r, k) /\ Older(b, r, k) => Older(t, r, k)
  BY <1>3, <1>4, <1>5 DEF Older
<1>10. a # <<>> => t # <<>> /\ t[1] = a[1]
  <2> SUFFICES ASSUME a # <<>> PROVE t # <<>> /\ t[1] = a[1]
    OBVIOUS
  <2>1. 1 \in 1 .. Len(a)
    BY <1>2
  <2>2. t[1] = a[1] /\ 1 \in 1 .. Len(t)
    BY <1>3, <2>1
  <2>3. t # <<>>
    BY <2>2
  <2> QED
    BY <2>2, <2>3
<1> QED
  BY <1>1, <1>6, <1>7, <1>8, <1>9, <1>10

-----------------------------------------------------------------------------
(* The invariant.  A thread is linked, distinct and older than the next run *)
(* as long as no context was compacted, and answered as long as no run was  *)
(* broken off: what a run is asked with follows from either.                *)

StageInv ==
  /\ phase # "idle" => run > 0 /\ step > 0 /\ messages # <<>> /\ thread # <<>>
  /\ phase = "compact" => step < MaxSteps
  /\ phase # "tools" => todo = <<>>
  /\ phase = "tools" =>
       Base(messages) \in 1 .. Len(messages) /\ ToSet(todo) \subseteq messages[Base(messages)].uses
  /\ thread # <<>> => thread[1].uses = {}
  /\ broken \subseteq 1 .. run /\ compacted \subseteq 1 .. run

ThreadInv ==
  /\ compacted = {} =>
       Linked(thread) /\ Distinct(thread) /\ Older(thread, IF phase = "idle" THEN run + 1 ELSE run, 0)
  /\ broken = {} => Answered(thread, {})

MessagesInv ==
  phase # "idle" =>
    /\ compacted \subseteq {run} =>
         /\ Linked(messages) /\ Distinct(messages)
         /\ Older(messages, run, IF phase = "chat" THEN step - 1 ELSE step)
    /\ broken = {} \/ (compacted \subseteq {run} /\ phase # "finish") =>
         Answered(messages, ToSet(todo))

ProducedInv ==
  phase # "idle" /\ run \notin compacted =>
    Ending(messages, produced, prefillLen, run) /\ (phase = "tools" => produced # <<>>)

LoopInv == StageInv /\ ThreadInv /\ MessagesInv /\ ProducedInv /\ UserMessageSeen

LEMMA Settings ==
  /\ MaxRuns \in Nat /\ MaxSteps \in Nat /\ MaxCalls \in Nat /\ MaxCompacts \in Nat
  /\ MaxSteps > 0 /\ AutoCompact \in BOOLEAN
BY AgentLoopAssumption

\* The messages that the loop and the compactions make.
LEMMA MessageTypes ==
  ASSUME NEW r \in 0 .. MaxRuns, NEW ids \in SUBSET ToolIds
  PROVE  UserText(r) \in Message /\ AssistantBlocks(r, ids) \in Message
         /\ ToolResults(r, ids) \in Message
BY DEF UserText, AssistantBlocks, ToolResults, Message, Kinds

LEMMA SummaryFacts ==
  /\ Summary \in Seq(Message) /\ Summary # <<>> /\ Summary[1].uses = {}
  /\ Linked(Summary) /\ Distinct(Summary) /\ Answered(Summary, {})
  /\ \A r, k : Older(Summary, r, k)
<1> DEFINE first == [role |-> "user", kind |-> "summary", run |-> 0, uses |-> {}, results |-> {}]
           second == [role |-> "assistant", kind |-> "ack", run |-> 0, uses |-> {}, results |-> {}]
<1>1. first \in Message /\ second \in Message
  BY Settings DEF Message, Kinds
<1>2. /\ Summary \in Seq(Message) /\ Len(Summary) = 2 /\ Summary # <<>>
      /\ Summary[1] = first /\ Summary[2] = second
  BY <1>1 DEF Summary
<1>3. \A i \in 1 .. Len(Summary) : Summary[i].uses = {} /\ Summary[i].results = {}
  <2>1. \A i \in 1 .. Len(Summary) : i = 1 \/ i = 2
    BY <1>2
  <2> QED
    BY <1>2, <2>1
<1>4. Summary[1].uses = {}
  BY <1>2
<1> QED
  BY <1>2, <1>3, <1>4 DEF Linked, Distinct, Answered, Older

\* The calls of a response.
LEMMA CallIds ==
  ASSUME TypeOK, phase # "idle", StageInv, NEW n \in 0 .. MaxCalls
  PROVE  /\ [i \in 1 .. n |-> <<run, step, i>>] \in Seq(ToolIds)
         /\ ToSet([i \in 1 .. n |-> <<run, step, i>>]) = {<<run, step, i>> : i \in 1 .. n}
         /\ {<<run, step, i>> : i \in 1 .. n} \in SUBSET ToolIds
         /\ n > 0 => {<<run, step, i>> : i \in 1 .. n} # {}
         /\ \A id \in {<<run, step, i>> : i \in 1 .. n} : id[1] = run /\ id[2] = step
<1>1. run \in 1 .. MaxRuns /\ step \in 1 .. MaxSteps /\ n \in Nat /\ n <= MaxCalls
  BY Settings DEF TypeOK, StageInv
<1>2. \A i \in 1 .. n : i \in 1 .. MaxCalls
  BY <1>1, Settings
<1>3. \A i \in 1 .. n : <<run, step, i>> \in ToolIds
  BY <1>1, <1>2 DEF ToolIds
<1>4. [i \in 1 .. n |-> <<run, step, i>>] \in Seq(ToolIds)
  BY <1>1, <1>3
<1>5. ToSet([i \in 1 .. n |-> <<run, step, i>>]) = {<<run, step, i>> : i \in 1 .. n}
  BY DEF ToSet
<1>6. n > 0 => {<<run, step, i>> : i \in 1 .. n} # {}
  <2> SUFFICES ASSUME n > 0 PROVE <<run, step, 1>> \in {<<run, step, i>> : i \in 1 .. n}
    OBVIOUS
  <2>1. 1 \in 1 .. n
    BY <1>1
  <2> QED
    BY <2>1
<1>7. {<<run, step, i>> : i \in 1 .. n} \in SUBSET ToolIds
  BY <1>3
<1>8. \A id \in {<<run, step, i>> : i \in 1 .. n} : id[1] = run /\ id[2] = step
  OBVIOUS
<1> QED
  BY <1>4, <1>5, <1>6, <1>7, <1>8

\* How a step of the loop ends.
LEMMA EndStepFacts ==
  ASSUME TypeOK, NEW high, EndStep(high), phase \in {"chat", "tools"}, StageInv
  PROVE  /\ phase' \in {"chat", "compact", "finish"} /\ step' \in 1 .. MaxSteps
         /\ status' \in {"running", "success", "failed"}
         /\ phase' = "chat" => step' = step + 1
         /\ phase' # "chat" => step' = step
         /\ phase' = "compact" => step < MaxSteps
<1>1. step \in 1 .. MaxSteps
  BY Settings DEF TypeOK, StageInv
<1>2. CASE StepLimit(step) /\ End("failed")
  BY <1>1, <1>2 DEF End
<1>3. CASE ~StepLimit(step) /\ phase' = "compact" /\ UNCHANGED <<step, status>>
  BY <1>1, <1>3, Settings DEF StepLimit, TypeOK
<1>4. CASE ~StepLimit(step) /\ phase' = "chat" /\ step' = step + 1 /\ UNCHANGED status
  BY <1>1, <1>4, Settings DEF StepLimit, TypeOK
<1> QED
  BY <1>2, <1>3, <1>4 DEF EndStep

\* The thread is only touched between the runs.
LEMMA ThreadStays ==
  ASSUME ThreadInv, phase # "idle", phase' # "idle", UNCHANGED <<thread, run>>,
         broken \subseteq broken', compacted \subseteq compacted'
  PROVE  ThreadInv'
BY DEF ThreadInv

-----------------------------------------------------------------------------
(* One lemma per group of actions.                                         *)

LEMMA NoneOpen == ToSet(<<>>) = {}
BY DEF ToSet

\* The thread with the new message, and what of it becomes the context.
LEMMA SendKeeps ==
  ASSUME TypeOK, LoopInv, SendMessage
  PROVE  TypeOK' /\ LoopInv'
<1> DEFINE msg == UserText(run + 1)
           th == Append(thread, msg)
           rows == TrimOrphanToolUse(th)
<1>0. StageInv /\ ThreadInv
  BY DEF LoopInv
<1>1. /\ phase = "idle" /\ run < MaxRuns /\ run' = run + 1 /\ thread' = th
      /\ phase' = "chat" /\ step' = 1 /\ status' = "running" /\ produced' = <<>>
      /\ messages' = (IF rows = <<>> THEN <<UserText(run')>> ELSE rows)
      /\ prefillLen' = Len(rows)
      /\ UNCHANGED <<todo, full, compacts, broken, compacted>>
  BY DEF SendMessage, Store, PrefillLen, history
<1>2. run \in Nat /\ run + 1 \in 1 .. MaxRuns /\ thread \in Seq(Message)
      /\ broken \subseteq 1 .. run /\ compacted \subseteq 1 .. run /\ todo = <<>>
  BY <1>0, <1>1, Settings DEF TypeOK, StageInv
<1>3. msg \in Message /\ msg.uses = {} /\ msg.results = {} /\ msg.kind # "results"
  <2>1. run + 1 \in 0 .. MaxRuns /\ {} \in SUBSET ToolIds
    BY <1>2, Settings
  <2>2. msg \in Message
    BY <2>1, MessageTypes
  <2> QED
    BY <2>2 DEF UserText
<1>4. /\ th \in Seq(Message) /\ Len(th) = Len(thread) + 1 /\ th[Len(th)] = msg /\ th # <<>>
      /\ \A i \in 1 .. Len(thread) : th[i] = thread[i]
      /\ Linked(thread) => Linked(th)
      /\ Distinct(thread) => Distinct(th)
      /\ Answered(thread, {}) => Answered(th, {})
  <2> HIDE DEF msg
  <2>a. th = Append(thread, msg)
    OBVIOUS
  <2> HIDE DEF th
  <2>b. /\ th \in Seq(Message) /\ Len(th) = Len(thread) + 1 /\ th[Len(th)] = msg /\ th # <<>>
        /\ \A i \in 1 .. Len(thread) : th[i] = thread[i]
    BY <1>2, <1>3, <2>a, AddMessage
  <2>c. Linked(thread) => Linked(th)
    BY <1>2, <1>3, <2>a, AddMessage
  <2>d. Distinct(thread) => Distinct(th)
    <3>1. \A i \in 1 .. Len(thread) : thread[i].uses \cap msg.uses = {}
      BY <1>3
    <3> QED
      BY <1>2, <1>3, <2>a, <3>1, AddMessage
  <2>e. Answered(thread, {}) => Answered(th, msg.uses)
    BY <1>2, <1>3, <2>a, AddMessage
  <2> QED
    BY <1>3, <2>b, <2>c, <2>d, <2>e
<1>5. Len(thread) \in Nat /\ \A i \in 1 .. Len(th) : i \in 1 .. Len(thread) \/ i = Len(th)
  BY <1>2, <1>4
<1>6. th[1].uses = {}
  <2>1. CASE thread = <<>>
    <3>1. Len(th) = 1
      BY <1>4, <2>1
    <3> QED
      BY <1>3, <1>4, <3>1
  <2>2. CASE thread # <<>>
    <3>1. 1 \in 1 .. Len(thread)
      BY <1>2, <2>2
    <3> QED
      BY <1>0, <1>4, <2>2, <3>1 DEF StageInv
  <2> QED
    BY <2>1, <2>2
<1>7. \A r, k : Older(thread, r, k) => Older(th, r, k)
  BY <1>3, <1>4, <1>5 DEF Older
<1> HIDE DEF msg, th
<1>8. PICK n \in 1 .. Len(th) : Unanswered(th, n) = {} /\ rows = SubSeq(th, 1, n)
  BY <1>4, <1>6, TrimFacts
<1>9. /\ rows \in Seq(Message) /\ Len(rows) = n /\ n \in Nat /\ n > 0
      /\ \A i \in 1 .. n : rows[i] = th[i]
  <2>1. n \in Nat /\ n > 0 /\ n <= Len(th)
    BY <1>2, <1>4
  <2>2. /\ SubSeq(th, 1, n) \in Seq(Message) /\ Len(SubSeq(th, 1, n)) = n
        /\ \A i \in 1 .. n : SubSeq(th, 1, n)[i] = th[i]
    BY <1>4, <2>1
  <2> QED
    BY <1>8, <2>1, <2>2
<1>10. /\ Linked(th) => Linked(rows)
       /\ Distinct(th) => Distinct(rows)
       /\ \A r, k : Older(th, r, k) => Older(rows, r, k)
  <2>1. Len(rows) <= Len(th) /\ \A i \in 1 .. Len(rows) : rows[i] = th[i]
    BY <1>9
  <2> HIDE DEF rows
  <2> QED
    BY <1>4, <1>9, <2>1, PrefixKeeps
<1>11. broken = {} => Answered(rows, {}) /\ rows = th
  BY <1>0, <1>4, NothingTrimmed DEF ThreadInv
<1>12. compacted = {} => Answered(rows, {})
  <2> SUFFICES ASSUME compacted = {} PROVE Answered(rows, {})
    OBVIOUS
  <2>1. Linked(th) /\ Distinct(th)
    BY <1>0, <1>4 DEF ThreadInv
  <2> HIDE DEF rows
  <2> QED
    BY <1>4, <1>8, <1>9, <2>1, NothingOpen
<1>13. messages' = rows /\ rows # <<>>
  <2>1. rows # <<>>
    BY <1>9
  <2> QED
    BY <1>1, <2>1
<1> HIDE DEF rows
<1>14. compacted \subseteq {run'} => compacted = {}
  BY <1>1, <1>2
<1>15. TypeOK'
  BY <1>1, <1>2, <1>4, <1>9, <1>13, Settings DEF TypeOK
<1>16. StageInv'
  BY <1>1, <1>2, <1>4, <1>6, <1>13 DEF StageInv
<1>17. ThreadInv'
  BY <1>0, <1>1, <1>4, <1>7 DEF ThreadInv
<1>18. MessagesInv'
  <2>1. ToSet(todo') = {}
    BY <1>1, <1>2, NoneOpen
  <2>2. compacted = {} => Older(rows, run', step' - 1)
    BY <1>0, <1>1, <1>7, <1>10 DEF ThreadInv
  <2>3. compacted = {} => Linked(rows) /\ Distinct(rows)
    BY <1>0, <1>4, <1>10 DEF ThreadInv
  <2> QED
    BY <1>1, <1>11, <1>12, <1>13, <1>14, <2>1, <2>2, <2>3 DEF MessagesInv
<1>19. ProducedInv'
  <2>1. Ending(rows, <<>>, n, run')
    BY <1>9 DEF Ending
  <2> QED
    BY <1>1, <1>9, <1>13, <2>1 DEF ProducedInv
<1>20. UserMessageSeen'
  <2>1. broken = {} => Last(rows) = UserText(run')
    BY <1>1, <1>4, <1>11 DEF Last, msg
  <2> QED
    BY <1>1, <1>13, <2>1 DEF UserMessageSeen
<1> QED
  BY <1>15, <1>16, <1>17, <1>18, <1>19, <1>20 DEF LoopInv

\* A response is added to the context.
LEMMA ResponseAdded ==
  ASSUME TypeOK, LoopInv, phase = "chat",
         NEW ids \in SUBSET ToolIds, \A id \in ids : id[1] = run /\ id[2] = step,
         NEW ms, ms = Append(messages, AssistantBlocks(run, ids)),
         NEW ps, ps = Append(produced, AssistantBlocks(run, ids))
  PROVE  /\ ms \in Seq(Message) /\ ps \in Seq(Message) /\ ms # <<>> /\ ps # <<>>
         /\ Base(ms) = Len(ms) /\ ms[Len(ms)].uses = ids
         /\ compacted \subseteq {run} => Linked(ms) /\ Distinct(ms) /\ Older(ms, run, step)
         /\ broken = {} \/ compacted \subseteq {run} => Answered(ms, ids)
         /\ run \notin compacted => Ending(ms, ps, prefillLen, run)
<1> DEFINE m == AssistantBlocks(run, ids)
<1>0. StageInv /\ MessagesInv /\ ProducedInv
  BY DEF LoopInv
<1>1. /\ messages \in Seq(Message) /\ produced \in Seq(Message) /\ prefillLen \in Nat
      /\ run \in 0 .. MaxRuns /\ step \in Nat /\ step > 0 /\ run \in Nat
  BY <1>0, Settings DEF TypeOK, StageInv
<1>2. todo = <<>>
  BY <1>0 DEF StageInv
<1>3. m \in Message
  BY <1>1, MessageTypes
<1>4. m.uses = ids /\ m.results = {} /\ m.kind # "results"
  BY DEF AssistantBlocks
<1>5. ms = Append(messages, m) /\ ps = Append(produced, m)
  OBVIOUS
<1> HIDE DEF m
<1>6. /\ ms \in Seq(Message) /\ Len(ms) = Len(messages) + 1 /\ ms[Len(ms)] = m /\ ms # <<>>
      /\ \A i \in 1 .. Len(messages) : ms[i] = messages[i]
      /\ Base(ms) = Len(ms)
  <2>1. /\ ms \in Seq(Message) /\ Len(ms) = Len(messages) + 1 /\ ms[Len(ms)] = m /\ ms # <<>>
        /\ \A i \in 1 .. Len(messages) : ms[i] = messages[i]
    BY <1>1, <1>3, <1>5
  <2>2. Last(ms).kind # "results"
    BY <1>4, <2>1 DEF Last
  <2>3. Base(ms) = Len(ms)
    BY <2>2 DEF Base
  <2> QED
    BY <2>1, <2>3
<1>7. ps \in Seq(Message) /\ ps # <<>>
  BY <1>1, <1>3, <1>5
<1>8. ASSUME compacted \subseteq {run} PROVE Linked(ms) /\ Distinct(ms) /\ Older(ms, run, step)
  <2>1. Linked(messages) /\ Distinct(messages) /\ Older(messages, run, step - 1)
    BY <1>0, <1>8 DEF MessagesInv
  <2>2. Linked(ms)
    BY <1>1, <1>3, <1>4, <1>5, <2>1, AddMessage
  <2>3. \A i \in 1 .. Len(messages) : messages[i].uses \cap m.uses = {}
    <3> SUFFICES ASSUME NEW i \in 1 .. Len(messages), NEW id \in messages[i].uses, id \in ids
                 PROVE  FALSE
      BY <1>4
    <3>1. id[1] < run \/ (id[1] = run /\ id[2] <= step - 1)
      BY <2>1 DEF Older
    <3>2. id[1] = run /\ id[2] = step
      OBVIOUS
    <3>3. ~(run < run) /\ ~(step <= step - 1)
      BY <1>1
    <3> QED
      BY <3>1, <3>2, <3>3
  <2>4. Distinct(ms)
    BY <1>1, <1>3, <1>4, <1>5, <2>1, <2>3, AddMessage
  <2>5. Older(ms, run, step)
    <3> SUFFICES ASSUME NEW i \in 1 .. Len(ms), NEW id \in ms[i].uses
                 PROVE  id[1] < run \/ (id[1] = run /\ id[2] <= step)
      BY DEF Older
    <3>1. CASE i = Len(ms)
      BY <1>1, <1>4, <1>6, <3>1
    <3>2. CASE i \in 1 .. Len(messages)
      <4>1. id \in messages[i].uses
        BY <1>6, <3>2
      <4>2. id[1] < run \/ (id[1] = run /\ id[2] <= step - 1)
        BY <2>1, <3>2, <4>1 DEF Older
      <4>3. id \in ToolIds
        <5>1. messages[i] \in Message
          BY <1>1, <3>2
        <5>2. messages[i].uses \in SUBSET ToolIds
          BY <5>1 DEF Message
        <5> QED
          BY <4>1, <5>2
      <4>4. id[2] \in Nat
        BY <4>3 DEF ToolIds
      <4>5. id[2] <= step - 1 => id[2] <= step
        BY <1>1, <4>4
      <4> QED
        BY <4>2, <4>5
    <3>3. Len(messages) \in Nat
      BY <1>1
    <3> QED
      BY <1>6, <3>1, <3>2, <3>3
  <2> QED
    BY <2>2, <2>4, <2>5
<1>9. ASSUME broken = {} \/ compacted \subseteq {run} PROVE Answered(ms, ids)
  <2>1. Answered(messages, {})
    BY <1>0, <1>2, <1>9, NoneOpen DEF MessagesInv
  <2>2. Answered(ms, m.uses)
    BY <1>1, <1>3, <1>4, <1>5, <2>1, AddMessage
  <2> QED
    BY <1>4, <2>2
<1>10. ASSUME run \notin compacted PROVE Ending(ms, ps, prefillLen, run)
  <2>1. Ending(messages, produced, prefillLen, run)
    BY <1>0, <1>10 DEF ProducedInv
  <2>2. \A id \in m.uses : id[1] = run
    BY <1>4
  <2>3. messages \in Seq(Message) /\ produced \in Seq(Message) /\ prefillLen \in Nat
    BY <1>1
  <2>4. m.results = {} /\ m.kind # "results"
    BY <1>4
  <2>5. Ending(Append(messages, m), Append(produced, m), prefillLen, run)
    BY <1>3, <2>1, <2>2, <2>3, <2>4, EndingAppend
  <2> QED
    BY <1>5, <2>5
<1> QED
  BY <1>4, <1>6, <1>7, <1>8, <1>9, <1>10

\* The calls of a response that was cut off are answered at once.
LEMMA ErrorsAdded ==
  ASSUME NEW r \in 0 .. MaxRuns, NEW q, NEW k, NEW p \in Nat, NEW ids \in SUBSET ToolIds,
         NEW ms \in Seq(Message), ms # <<>>, Base(ms) = Len(ms), ms[Len(ms)].uses = ids,
         NEW ps \in Seq(Message), ps # <<>>,
         NEW mt, mt = AddErrorResults(ms, r, ids), NEW pt, pt = AddErrorResults(ps, r, ids)
  PROVE  /\ mt \in Seq(Message) /\ pt \in Seq(Message) /\ mt # <<>> /\ pt # <<>>
         /\ Linked(ms) => Linked(mt)
         /\ Distinct(ms) => Distinct(mt)
         /\ Older(ms, q, k) => Older(mt, q, k)
         /\ Answered(ms, ids) => Answered(mt, {})
         /\ Ending(ms, ps, p, q) => Ending(mt, pt, p, q)
<1>1. CASE ids = {}
  BY <1>1 DEF AddErrorResults
<1>2. CASE ids # {}
  <2> DEFINE m == ToolResults(r, ids)
  <2>1. m \in Message
    BY MessageTypes
  <2>2. m.uses = {} /\ m.results = ids /\ m.role = "user" /\ m.kind = "results"
    BY DEF ToolResults
  <2>3. mt = Append(ms, m) /\ pt = Append(ps, m)
    BY <1>2 DEF AddErrorResults
  <2> HIDE DEF m
  <2>4. /\ mt \in Seq(Message) /\ mt # <<>> /\ Len(mt) = Len(ms) + 1 /\ mt[Len(ms) + 1] = m
        /\ \A i \in 1 .. Len(ms) : mt[i] = ms[i]
    BY <2>1, <2>3
  <2>5. pt \in Seq(Message) /\ pt # <<>>
    BY <2>1, <2>3
  <2>6. Len(ms) \in Nat /\ Len(ms) > 0 /\ \A i \in 1 .. Len(mt) : i \in 1 .. Len(ms) \/ i = Len(ms) + 1
    BY <2>4
  <2>7. ASSUME Linked(ms) PROVE Linked(mt)
    <3> SUFFICES ASSUME NEW i \in 1 .. Len(mt), mt[i].results # {}
                 PROVE  i > 1 /\ mt[i].role = "user" /\ mt[i].results \subseteq mt[i - 1].uses
      BY DEF Linked
    <3>1. CASE i \in 1 .. Len(ms)
      <4>1. i > 1 /\ ms[i].role = "user" /\ ms[i].results \subseteq ms[i - 1].uses
        BY <2>4, <2>7, <3>1 DEF Linked
      <4>2. i - 1 \in 1 .. Len(ms)
        BY <2>6, <3>1, <4>1
      <4> QED
        BY <2>4, <3>1, <4>1, <4>2
    <3>2. CASE i = Len(ms) + 1
      <4>1. i > 1 /\ i - 1 = Len(ms) /\ i - 1 \in 1 .. Len(ms)
        BY <2>6, <3>2
      <4> QED
        BY <2>2, <2>4, <3>2, <4>1
    <3> QED
      BY <2>6, <3>1, <3>2
  <2>8. Distinct(ms) => Distinct(mt)
    BY <2>2, <2>4, <2>6 DEF Distinct
  <2>9. Older(ms, q, k) => Older(mt, q, k)
    BY <2>2, <2>4, <2>6 DEF Older
  <2>10. ASSUME Answered(ms, ids) PROVE Answered(mt, {})
    <3> SUFFICES ASSUME NEW i \in 1 .. Len(mt), NEW id \in mt[i].uses
                 PROVE  i < Len(mt) /\ id \in mt[i + 1].results
      BY DEF Answered
    <3>1. i \in 1 .. Len(ms) /\ id \in ms[i].uses /\ i < Len(mt)
      BY <2>2, <2>4, <2>6
    <3>2. (i < Len(ms) /\ id \in ms[i + 1].results) \/ (i = Len(ms) /\ id \in ids)
      BY <2>10, <3>1 DEF Answered
    <3>3. CASE i < Len(ms)
      <4>1. i + 1 \in 1 .. Len(ms)
        BY <2>6, <3>1, <3>3
      <4>2. i # Len(ms)
        BY <2>6, <3>3
      <4> QED
        BY <2>4, <3>1, <3>2, <4>1, <4>2
    <3>4. CASE i = Len(ms)
      <4>1. ~(i < Len(ms))
        BY <2>6, <3>4
      <4> QED
        BY <2>2, <2>4, <3>1, <3>2, <3>4, <4>1
    <3> QED
      BY <2>6, <3>1, <3>3, <3>4
  <2>11. Ending(ms, ps, p, q) => Ending(mt, pt, p, q)
    BY <2>1, <2>2, <2>3, EndingAppend
  <2> QED
    BY <2>4, <2>5, <2>7, <2>8, <2>9, <2>10, <2>11
<1> QED
  BY <1>1, <1>2

\* A later step has used up more of the ids.
LEMMA OlderStill ==
  ASSUME NEW ms \in Seq(Message), NEW r, NEW k \in Nat, Older(ms, r, k - 1)
  PROVE  Older(ms, r, k)
<1> SUFFICES ASSUME NEW i \in 1 .. Len(ms), NEW id \in ms[i].uses
             PROVE  id[1] < r \/ (id[1] = r /\ id[2] <= k)
  BY DEF Older
<1>1. id[1] < r \/ (id[1] = r /\ id[2] <= k - 1)
  BY DEF Older
<1>2. id \in ToolIds
  <2>1. ms[i] \in Message
    OBVIOUS
  <2>2. ms[i].uses \in SUBSET ToolIds
    BY <2>1 DEF Message
  <2> QED
    BY <2>2
<1>3. id[2] \in Nat
  BY <1>2 DEF ToolIds
<1>4. id[2] <= k - 1 => id[2] <= k
  BY <1>3
<1> QED
  BY <1>1, <1>4

\* What a step inside the loop has to show.
LEMMA LoopStep ==
  ASSUME StageInv, ThreadInv, phase # "idle", phase' # "idle",
         UNCHANGED <<run, thread, broken, compacted>>,
         messages' # <<>>, step' > 0, phase' = "chat" => step' # 1,
         phase' = "compact" => step' < MaxSteps,
         phase' # "tools" => todo' = <<>>,
         phase' = "tools" =>
           /\ Base(messages') \in 1 .. Len(messages')
           /\ ToSet(todo') \subseteq messages'[Base(messages')].uses,
         compacted \subseteq {run} =>
           /\ Linked(messages') /\ Distinct(messages')
           /\ Older(messages', run, IF phase' = "chat" THEN step' - 1 ELSE step'),
         broken = {} \/ (compacted \subseteq {run} /\ phase' # "finish") =>
           Answered(messages', ToSet(todo')),
         run \notin compacted =>
           Ending(messages', produced', prefillLen', run) /\ (phase' = "tools" => produced' # <<>>)
  PROVE  LoopInv'
<1>1. StageInv'
  BY DEF StageInv
<1>2. ThreadInv'
  BY ThreadStays
<1>3. MessagesInv'
  BY DEF MessagesInv
<1>4. ProducedInv' /\ UserMessageSeen'
  BY DEF ProducedInv, UserMessageSeen
<1> QED
  BY <1>1, <1>2, <1>3, <1>4 DEF LoopInv

LEMMA ChatEndTurnKeeps ==
  ASSUME TypeOK, LoopInv, ChatEndTurn
  PROVE  TypeOK' /\ LoopInv'
<1>0. StageInv /\ ThreadInv
  BY DEF LoopInv
<1>1. /\ phase = "chat" /\ phase' = "finish" /\ status' = "success" /\ step' = step
      /\ messages' = Append(messages, AssistantBlocks(run, {}))
      /\ produced' = Append(produced, AssistantBlocks(run, {}))
      /\ UNCHANGED <<run, prefillLen, todo, full, thread, compacts, broken, compacted>>
  BY DEF ChatEndTurn, End, history
<1>2. {} \in SUBSET ToolIds /\ \A id \in {} : id[1] = run /\ id[2] = step
  OBVIOUS
<1>3. messages' \in Seq(Message) /\ produced' \in Seq(Message) /\ messages' # <<>>
  BY <1>1, <1>2, ResponseAdded
<1>4. compacted \subseteq {run} =>
        Linked(messages') /\ Distinct(messages') /\ Older(messages', run, step)
  BY <1>1, <1>2, ResponseAdded
<1>5. broken = {} \/ compacted \subseteq {run} => Answered(messages', {})
  BY <1>1, <1>2, ResponseAdded
<1>6. run \notin compacted => Ending(messages', produced', prefillLen, run)
  BY <1>1, <1>2, ResponseAdded
<1>7. todo = <<>> /\ step > 0
  BY <1>0, <1>1 DEF StageInv
<1>8. ToSet(todo') = {}
  BY <1>1, <1>7, NoneOpen
<1>9. TypeOK'
  BY <1>1, <1>3 DEF TypeOK
<1>10. LoopInv'
  BY <1>0, <1>1, <1>3, <1>4, <1>5, <1>6, <1>7, <1>8, LoopStep
<1> QED
  BY <1>9, <1>10

LEMMA ChatToolUseKeeps ==
  ASSUME TypeOK, LoopInv, NEW n \in 1 .. MaxCalls, NEW high \in {FALSE, AutoCompact},
         ChatToolUse(n, high)
  PROVE  TypeOK' /\ LoopInv'
<1> DEFINE calls == [i \in 1 .. n |-> <<run, step, i>>]
           ids == {<<run, step, i>> : i \in 1 .. n}
<1>1. StageInv /\ ThreadInv
  BY DEF LoopInv
<1>a. phase = "chat"
  BY DEF ChatToolUse
<1>b. n \in 0 .. MaxCalls /\ n > 0
  BY Settings
<1>2. /\ calls \in Seq(ToolIds) /\ ToSet(calls) = ids /\ ids \in SUBSET ToolIds
      /\ \A id \in ids : id[1] = run /\ id[2] = step
  BY <1>1, <1>a, <1>b, CallIds
<1>3. /\ phase' = "tools" /\ todo' = calls /\ full' = high
      /\ messages' = Append(messages, AssistantBlocks(run, ids))
      /\ produced' = Append(produced, AssistantBlocks(run, ids))
      /\ UNCHANGED <<run, step, status, prefillLen, thread, compacts, broken, compacted>>
  BY <1>2 DEF ChatToolUse, history
<1> HIDE DEF calls, ids
<1>4. /\ messages' \in Seq(Message) /\ produced' \in Seq(Message) /\ messages' # <<>>
      /\ produced' # <<>>
  BY <1>a, <1>3, <1>2, ResponseAdded
<1>5. compacted \subseteq {run} =>
        Linked(messages') /\ Distinct(messages') /\ Older(messages', run, step)
  BY <1>a, <1>3, <1>2, ResponseAdded
<1>6. broken = {} \/ compacted \subseteq {run} => Answered(messages', ids)
  BY <1>a, <1>3, <1>2, ResponseAdded
<1>7. run \notin compacted => Ending(messages', produced', prefillLen, run)
  BY <1>a, <1>3, <1>2, ResponseAdded
<1>8. Base(messages') = Len(messages') /\ messages'[Len(messages')].uses = ids
  BY <1>a, <1>3, <1>2, ResponseAdded
<1>9. Base(messages') \in 1 .. Len(messages')
  BY <1>4, <1>8
<1>10. ToSet(todo') = ids /\ step > 0
  BY <1>1, <1>a, <1>3, <1>2 DEF StageInv
<1>11. TypeOK'
  BY <1>3, <1>2, <1>4, Settings DEF TypeOK
<1>12. LoopInv'
  BY <1>1, <1>a, <1>3, <1>4, <1>5, <1>6, <1>7, <1>8, <1>9, <1>10, LoopStep
<1> QED
  BY <1>11, <1>12

LEMMA ChatMaxTokensKeeps ==
  ASSUME TypeOK, LoopInv, NEW n \in 0 .. MaxCalls, ChatMaxTokens(n)
  PROVE  TypeOK' /\ LoopInv'
<1> DEFINE ids == {<<run, step, i>> : i \in 1 .. n}
           ms == Append(messages, AssistantBlocks(run, ids))
           ps == Append(produced, AssistantBlocks(run, ids))
<1>0. StageInv /\ ThreadInv
  BY DEF LoopInv
<1>1. /\ phase = "chat" /\ EndStep(FALSE)
      /\ messages' = AddErrorResults(ms, run, ids)
      /\ produced' = AddErrorResults(ps, run, ids)
      /\ UNCHANGED <<run, prefillLen, todo, full, thread, compacts, broken, compacted>>
  BY DEF ChatMaxTokens, history
<1>2. ids \in SUBSET ToolIds /\ \A id \in ids : id[1] = run /\ id[2] = step
  BY <1>0, <1>1, CallIds
<1>a. ms = Append(messages, AssistantBlocks(run, ids))
      /\ ps = Append(produced, AssistantBlocks(run, ids))
  OBVIOUS
<1> HIDE DEF ids, ms, ps
<1>3. /\ ms \in Seq(Message) /\ ps \in Seq(Message) /\ ms # <<>> /\ ps # <<>>
      /\ Base(ms) = Len(ms) /\ ms[Len(ms)].uses = ids
  BY <1>a, <1>1, <1>2, ResponseAdded
<1>4. compacted \subseteq {run} => Linked(ms) /\ Distinct(ms) /\ Older(ms, run, step)
  BY <1>a, <1>1, <1>2, ResponseAdded
<1>5. broken = {} \/ compacted \subseteq {run} => Answered(ms, ids)
  BY <1>a, <1>1, <1>2, ResponseAdded
<1>6. run \notin compacted => Ending(ms, ps, prefillLen, run)
  BY <1>a, <1>1, <1>2, ResponseAdded
<1>7. run \in 0 .. MaxRuns /\ prefillLen \in Nat /\ step \in Nat
  BY DEF TypeOK
<1>8. /\ messages' \in Seq(Message) /\ produced' \in Seq(Message) /\ messages' # <<>>
      /\ Linked(ms) => Linked(messages')
      /\ Distinct(ms) => Distinct(messages')
      /\ Older(ms, run, step) => Older(messages', run, step)
      /\ Answered(ms, ids) => Answered(messages', {})
      /\ Ending(ms, ps, prefillLen, run) => Ending(messages', produced', prefillLen, run)
  <2>1. messages' = AddErrorResults(ms, run, ids) /\ produced' = AddErrorResults(ps, run, ids)
    BY <1>1
  <2>2. ids \in SUBSET ToolIds
    BY <1>2
  <2> QED
    BY <1>3, <1>7, <2>1, <2>2, ErrorsAdded
<1>9. todo = <<>> /\ step > 0
  BY <1>0, <1>1 DEF StageInv
<1>10. ToSet(todo') = {}
  BY <1>1, <1>9, NoneOpen
<1>11. /\ phase' \in {"chat", "compact", "finish"} /\ step' \in 1 .. MaxSteps
       /\ status' \in {"running", "success", "failed"}
       /\ phase' = "chat" => step' = step + 1
       /\ phase' # "chat" => step' = step
       /\ phase' = "compact" => step < MaxSteps
  BY <1>0, <1>1, EndStepFacts
<1>12. TypeOK'
  BY <1>1, <1>8, <1>11, Settings DEF TypeOK
<1>13. /\ step' > 0 /\ (phase' = "chat" => step' # 1)
       /\ (IF phase' = "chat" THEN step' - 1 ELSE step') = step
  <2>1. CASE phase' = "chat"
    <3>1. step' = step + 1
      BY <1>11, <2>1
    <3>2. step' > 0 /\ step' # 1 /\ step' - 1 = step
      BY <1>7, <1>9, <3>1
    <3> QED
      BY <2>1, <3>2
  <2>2. CASE phase' # "chat"
    BY <1>9, <1>11, <2>2
  <2> QED
    BY <2>1, <2>2
<1>14. LoopInv'
  BY <1>0, <1>1, <1>4, <1>5, <1>6, <1>8, <1>9, <1>10, <1>11, <1>13, LoopStep
<1> QED
  BY <1>12, <1>14

LEMMA ChatFailsKeeps ==
  ASSUME TypeOK, LoopInv, ChatFails
  PROVE  TypeOK' /\ LoopInv'
<1>0. StageInv /\ ThreadInv /\ MessagesInv /\ ProducedInv
  BY DEF LoopInv
<1>1. /\ phase = "chat" /\ phase' = "finish" /\ status' = "failed" /\ step' = step
      /\ UNCHANGED <<run, messages, prefillLen, todo, full, thread, compacts, produced,
                     broken, compacted>>
  BY DEF ChatFails, End, history
<1>2. TypeOK'
  BY <1>1 DEF TypeOK
<1>3. todo = <<>> /\ step > 0 /\ messages # <<>> /\ messages \in Seq(Message) /\ step \in Nat
  BY <1>0, <1>1 DEF StageInv, TypeOK
<1>4. compacted \subseteq {run} =>
        Linked(messages) /\ Distinct(messages) /\ Older(messages, run, step)
  <2> SUFFICES ASSUME compacted \subseteq {run}
               PROVE  Linked(messages) /\ Distinct(messages) /\ Older(messages, run, step)
    OBVIOUS
  <2>1. Linked(messages) /\ Distinct(messages) /\ Older(messages, run, step - 1)
    BY <1>0, <1>1 DEF MessagesInv
  <2>2. Older(messages, run, step)
    BY <1>3, <2>1, OlderStill
  <2> QED
    BY <2>1, <2>2
<1>5. broken = {} => Answered(messages, ToSet(todo))
  BY <1>0, <1>1 DEF MessagesInv
<1>6. run \notin compacted => Ending(messages, produced, prefillLen, run)
  BY <1>0, <1>1 DEF ProducedInv
<1>7. LoopInv'
  BY <1>0, <1>1, <1>3, <1>4, <1>5, <1>6, LoopStep
<1> QED
  BY <1>2, <1>7

\* A call is answered.
LEMMA ToolReturnsKeeps ==
  ASSUME TypeOK, LoopInv, ToolReturns
  PROVE  TypeOK' /\ LoopInv'
<1> DEFINE id == Head(todo)
<1>0. StageInv /\ ThreadInv /\ MessagesInv /\ ProducedInv
  BY DEF LoopInv
<1>1. /\ phase = "tools" /\ todo # <<>> /\ phase' = "tools" /\ step' = step
      /\ messages' = AddToolResult(messages, run, id)
      /\ produced' = AddToolResult(produced, run, id)
      /\ todo' = Tail(todo)
      /\ UNCHANGED <<run, status, prefillLen, full, thread, compacts, broken, compacted>>
  BY DEF ToolReturns, history
<1>2. /\ todo \in Seq(ToolIds) /\ messages \in Seq(Message) /\ produced \in Seq(Message)
      /\ run \in 0 .. MaxRuns /\ prefillLen \in Nat
  BY DEF TypeOK
<1>3. /\ id \in ToolIds /\ todo' \in Seq(ToolIds)
      /\ id \in ToSet(todo) /\ ToSet(todo') \subseteq ToSet(todo)
      /\ ToSet(todo) \subseteq ToSet(todo') \cup {id}
  <2>1. /\ Len(todo) \in Nat /\ Len(todo) > 0 /\ id = todo[1] /\ 1 \in 1 .. Len(todo)
        /\ todo' \in Seq(ToolIds) /\ Len(todo') = Len(todo) - 1
        /\ \A i \in 1 .. Len(todo) - 1 : todo'[i] = todo[i + 1]
    BY <1>1, <1>2
  <2>2. id \in ToolIds /\ id \in ToSet(todo)
    BY <1>2, <2>1 DEF ToSet
  <2>3. ToSet(todo') \subseteq ToSet(todo)
    <3> SUFFICES ASSUME NEW i \in 1 .. Len(todo') PROVE todo'[i] \in ToSet(todo)
      BY DEF ToSet
    <3>1. i \in 1 .. Len(todo) - 1 /\ i + 1 \in 1 .. Len(todo)
      BY <2>1
    <3> QED
      BY <2>1, <3>1 DEF ToSet
  <2>4. ToSet(todo) \subseteq ToSet(todo') \cup {id}
    <3> SUFFICES ASSUME NEW i \in 1 .. Len(todo), i # 1 PROVE todo[i] \in ToSet(todo')
      BY <2>1 DEF ToSet
    <3>1. i - 1 \in 1 .. Len(todo') /\ i - 1 \in 1 .. Len(todo) - 1 /\ (i - 1) + 1 = i
      BY <2>1
    <3>2. todo'[i - 1] = todo[i]
      BY <2>1, <3>1
    <3> QED
      BY <3>1, <3>2 DEF ToSet
  <2> QED
    BY <2>1, <2>2, <2>3, <2>4
<1>4. Base(messages) \in 1 .. Len(messages) /\ ToSet(todo) \subseteq messages[Base(messages)].uses
  BY <1>0, <1>1 DEF StageInv
<1>5. id \in messages[Base(messages)].uses
  BY <1>3, <1>4
<1> HIDE DEF id
<1>6. /\ messages' \in Seq(Message) /\ Base(messages') = Base(messages)
      /\ Len(messages') = Base(messages) + 1
      /\ \A i \in 1 .. Base(messages) : messages'[i] = messages[i]
  <2>1. ResultAdded(messages', messages, run, id)
    BY <1>1, <1>2, <1>3, <1>4, <1>5, AddResult
  <2> QED
    BY <2>1 DEF ResultAdded
<1>7. /\ messages' # <<>> /\ Base(messages') \in 1 .. Len(messages')
      /\ messages'[Base(messages')] = messages[Base(messages)]
  BY <1>4, <1>6
<1>8. produced' \in Seq(Message)
  <2>1. \A r \in 0 .. MaxRuns, ids \in SUBSET ToolIds : ToolResults(r, ids) \in Message
    BY MessageTypes
  <2>2. CASE produced # <<>> /\ Last(produced).kind = "results"
    <3> DEFINE m == ToolResults(run, Last(produced).results \cup {id})
    <3>1. Len(produced) \in 1 .. Len(produced) /\ Last(produced) \in Message
      BY <1>2, <2>2 DEF Last
    <3>2. Last(produced).results \in SUBSET ToolIds
      BY <3>1 DEF Message
    <3>3. m \in Message
      BY <1>2, <1>3, <2>1, <3>2
    <3>4. produced' = [produced EXCEPT ![Len(produced)] = m]
      BY <1>1, <2>2, <3>1 DEF AddToolResult, Last
    <3> HIDE DEF m
    <3> QED
      BY <1>2, <3>1, <3>3, <3>4
  <2>3. CASE ~(produced # <<>> /\ Last(produced).kind = "results")
    <3>1. produced' = Append(produced, ToolResults(run, {id}))
      BY <1>1, <2>3 DEF AddToolResult
    <3>2. ToolResults(run, {id}) \in Message
      BY <1>2, <1>3, <2>1
    <3> QED
      BY <1>2, <3>1, <3>2
  <2> QED
    BY <2>2, <2>3
<1>9. /\ Linked(messages) => Linked(messages')
      /\ Distinct(messages) => Distinct(messages')
      /\ \A q, k : Older(messages, q, k) => Older(messages', q, k)
  BY <1>1, <1>2, <1>3, <1>4, <1>5, ResultKeeps
<1>10. Answered(messages, ToSet(todo)) => Answered(messages', ToSet(todo'))
  BY <1>1, <1>2, <1>3, <1>4, <1>5, ResultKeeps
<1>11. compacted \subseteq {run} =>
         Linked(messages') /\ Distinct(messages') /\ Older(messages', run, step)
  BY <1>0, <1>1, <1>9 DEF MessagesInv
<1>12. broken = {} \/ compacted \subseteq {run} => Answered(messages', ToSet(todo'))
  BY <1>0, <1>1, <1>10 DEF MessagesInv
<1>13. run \notin compacted =>
         Ending(messages', produced', prefillLen, run) /\ produced' # <<>>
  <2> SUFFICES ASSUME run \notin compacted
               PROVE  Ending(messages', produced', prefillLen, run) /\ produced' # <<>>
    OBVIOUS
  <2>1. Ending(messages, produced, prefillLen, run) /\ produced # <<>>
    BY <1>0, <1>1 DEF ProducedInv
  <2>2. Ending(messages', produced', prefillLen, run)
    BY <1>1, <1>2, <1>3, <1>4, <1>5, <2>1, EndingResult
  <2>3. produced' # <<>>
    <3>1. CASE Last(produced).kind = "results"
      <4>1. Len(produced') = Len(produced) /\ Len(produced) > 0
        BY <1>1, <1>2, <2>1, <3>1 DEF AddToolResult
      <4> QED
        BY <4>1
    <3>2. CASE Last(produced).kind # "results"
      BY <1>1, <1>2, <2>1, <3>2 DEF AddToolResult
    <3> QED
      BY <3>1, <3>2
  <2> QED
    BY <2>2, <2>3
<1>14. TypeOK'
  BY <1>1, <1>3, <1>6, <1>8 DEF TypeOK
<1>15. step > 0
  BY <1>0, <1>1 DEF StageInv
<1>16. ToSet(todo') \subseteq messages'[Base(messages')].uses
  BY <1>3, <1>4, <1>7
<1>17. LoopInv'
  BY <1>0, <1>1, <1>7, <1>11, <1>12, <1>13, <1>15, <1>16, LoopStep
<1> QED
  BY <1>14, <1>17

LEMMA ToolsDoneKeeps ==
  ASSUME TypeOK, LoopInv, ToolsDone
  PROVE  TypeOK' /\ LoopInv'
<1>0. StageInv /\ ThreadInv /\ MessagesInv /\ ProducedInv
  BY DEF LoopInv
<1>1. /\ phase = "tools" /\ todo = <<>> /\ EndStep(full)
      /\ UNCHANGED <<run, messages, prefillLen, todo, full, thread, compacts, produced,
                     broken, compacted>>
  BY DEF ToolsDone, history
<1>2. /\ phase' \in {"chat", "compact", "finish"} /\ step' \in 1 .. MaxSteps
      /\ status' \in {"running", "success", "failed"}
      /\ phase' = "chat" => step' = step + 1
      /\ phase' # "chat" => step' = step
      /\ phase' = "compact" => step < MaxSteps
  BY <1>0, <1>1, EndStepFacts
<1>3. step > 0 /\ messages # <<>> /\ step \in Nat
  BY <1>0, <1>1 DEF StageInv, TypeOK
<1>4. /\ step' > 0 /\ (phase' = "chat" => step' # 1)
      /\ (IF phase' = "chat" THEN step' - 1 ELSE step') = step
  <2>1. CASE phase' = "chat"
    <3>1. step' = step + 1
      BY <1>2, <2>1
    <3>2. step' > 0 /\ step' # 1 /\ step' - 1 = step
      BY <1>3, <3>1
    <3> QED
      BY <2>1, <3>2
  <2>2. CASE phase' # "chat"
    BY <1>2, <1>3, <2>2
  <2> QED
    BY <2>1, <2>2
<1>5. TypeOK'
  BY <1>1, <1>2, Settings DEF TypeOK
<1>6. compacted \subseteq {run} =>
        Linked(messages) /\ Distinct(messages) /\ Older(messages, run, step)
  BY <1>0, <1>1 DEF MessagesInv
<1>7. broken = {} \/ compacted \subseteq {run} => Answered(messages, ToSet(todo))
  BY <1>0, <1>1 DEF MessagesInv
<1>8. run \notin compacted => Ending(messages, produced, prefillLen, run)
  BY <1>0, <1>1 DEF ProducedInv
<1>9. phase' = "compact" => step' < MaxSteps
  BY <1>2
<1>10. LoopInv'
  BY <1>0, <1>1, <1>2, <1>3, <1>4, <1>6, <1>7, <1>8, <1>9, LoopStep
<1> QED
  BY <1>5, <1>10

LEMMA CompactKeeps ==
  ASSUME TypeOK, LoopInv, NEW ok \in BOOLEAN, CompactReturns(ok)
  PROVE  TypeOK' /\ LoopInv'
<1>0. StageInv /\ ThreadInv /\ MessagesInv /\ ProducedInv
  BY DEF LoopInv
<1>1. /\ phase = "compact" /\ phase' = "chat" /\ step' = step + 1
      /\ UNCHANGED <<run, status, prefillLen, todo, full, thread, compacts, broken>>
  BY DEF CompactReturns, CountStep
<1>2. /\ step > 0 /\ step \in Nat /\ step < MaxSteps /\ messages # <<>> /\ todo = <<>>
      /\ run \in 1 .. MaxRuns
  BY <1>0, <1>1, Settings DEF StageInv, TypeOK
<1>3. step' > 0 /\ step' # 1 /\ step' - 1 = step /\ step' \in 0 .. MaxSteps
  BY <1>1, <1>2, Settings
<1>4. ToSet(todo') = {}
  BY <1>1, <1>2, NoneOpen
<1>5. CASE ok
  <2>1. messages' = Summary /\ produced' = Summary /\ compacted' = compacted \cup {run}
    BY <1>5 DEF CompactReturns
  <2>2. TypeOK'
    BY <1>1, <1>2, <1>3, <2>1, SummaryFacts DEF TypeOK
  <2>3. StageInv'
    BY <1>0, <1>1, <1>2, <1>3, <2>1, SummaryFacts DEF StageInv
  <2>4. ThreadInv'
    BY <1>0, <1>1, <2>1, ThreadStays
  <2>5. MessagesInv'
    BY <1>4, <2>1, SummaryFacts DEF MessagesInv
  <2>6. ProducedInv'
    BY <1>1, <2>1 DEF ProducedInv
  <2>7. UserMessageSeen'
    BY <1>3 DEF UserMessageSeen
  <2> QED
    BY <2>2, <2>3, <2>4, <2>5, <2>6, <2>7 DEF LoopInv
<1>6. CASE ~ok
  <2>1. messages' = messages /\ produced' = produced /\ compacted' = compacted
    BY <1>6 DEF CompactReturns
  <2>2. TypeOK'
    BY <1>1, <1>3, <2>1 DEF TypeOK
  <2>3. compacted \subseteq {run} =>
          Linked(messages) /\ Distinct(messages) /\ Older(messages, run, step)
    BY <1>0, <1>1 DEF MessagesInv
  <2>4. broken = {} \/ compacted \subseteq {run} => Answered(messages, ToSet(todo))
    BY <1>0, <1>1 DEF MessagesInv
  <2>5. run \notin compacted => Ending(messages, produced, prefillLen, run)
    BY <1>0, <1>1 DEF ProducedInv
  <2>6. LoopInv'
    BY <1>0, <1>1, <1>2, <1>3, <2>1, <2>3, <2>4, <2>5, LoopStep
  <2> QED
    BY <2>2, <2>6
<1> QED
  BY <1>5, <1>6

LEMMA RunBrokenKeeps ==
  ASSUME TypeOK, LoopInv, RunBroken
  PROVE  TypeOK' /\ LoopInv'
<1>0. StageInv /\ ThreadInv /\ MessagesInv /\ ProducedInv
  BY DEF LoopInv
<1>1. /\ phase \in {"chat", "tools", "compact"} /\ phase' = "finish" /\ step' = step
      /\ status' = "failed" /\ todo' = <<>> /\ broken' = broken \cup {run}
      /\ UNCHANGED <<run, messages, prefillLen, full, thread, compacts, produced, compacted>>
  BY DEF RunBroken, End
<1>2. /\ step > 0 /\ step \in Nat /\ messages # <<>> /\ run \in 1 .. MaxRuns
      /\ messages \in Seq(Message)
  BY <1>0, <1>1, Settings DEF StageInv, TypeOK
<1>3. broken' # {} /\ phase' # "idle"
  BY <1>1
<1>4. TypeOK'
  BY <1>1, <1>2 DEF TypeOK
<1>5. StageInv'
  BY <1>0, <1>1, <1>2 DEF StageInv
<1>6. ThreadInv'
  BY <1>0, <1>1, <1>3, ThreadStays
<1>7. ASSUME compacted \subseteq {run}
      PROVE  Linked(messages) /\ Distinct(messages) /\ Older(messages, run, step)
  <2>1. /\ Linked(messages) /\ Distinct(messages)
        /\ Older(messages, run, IF phase = "chat" THEN step - 1 ELSE step)
    BY <1>0, <1>1, <1>7 DEF MessagesInv
  <2>2. Older(messages, run, step)
    <3>1. CASE phase = "chat"
      <4>1. Older(messages, run, step - 1)
        BY <2>1, <3>1
      <4> QED
        BY <1>2, <4>1, OlderStill
    <3>2. CASE phase # "chat"
      BY <2>1, <3>2
    <3> QED
      BY <3>1, <3>2
  <2> QED
    BY <2>1, <2>2
<1>8. MessagesInv'
  BY <1>1, <1>3, <1>7 DEF MessagesInv
<1>9. ProducedInv'
  BY <1>0, <1>1 DEF ProducedInv
<1>10. UserMessageSeen'
  BY <1>1 DEF UserMessageSeen
<1> QED
  BY <1>4, <1>5, <1>6, <1>8, <1>9, <1>10 DEF LoopInv

\* A run that was not compacted hands over what it produced.
LEMMA SliceIsProduced ==
  ASSUME NEW ms \in Seq(Message), NEW ps \in Seq(Message), NEW p \in Nat, NEW r,
         Ending(ms, ps, p, r)
  PROVE  SubSeq(ms, p + 1, Len(ms)) = ps
<1> DEFINE b == SubSeq(ms, p + 1, Len(ms))
<1>1. /\ b \in Seq(Message) /\ Len(b) = (IF p <= Len(ms) THEN Len(ms) - p ELSE 0)
      /\ \A i \in 1 .. Len(b) : p + i \in 1 .. Len(ms) /\ b[i] = ms[p + i]
  BY Slice
<1>2. p + Len(ps) = Len(ms) /\ \A i \in 1 .. Len(ps) : ps[i] = ms[p + i]
  BY DEF Ending
<1> HIDE DEF b
<1>3. Len(ms) \in Nat /\ Len(ps) \in Nat
  OBVIOUS
<1>4. Len(b) = Len(ps)
  BY <1>1, <1>2, <1>3
<1>5. \A i \in 1 .. Len(b) : b[i] = ps[i]
  BY <1>1, <1>2, <1>4
<1>6. b = ps
  BY <1>1, <1>4, <1>5
<1> QED
  BY <1>6 DEF b

\* The part of the context that a run has produced, by itself.
LEMMA EndingKeeps ==
  ASSUME NEW ms \in Seq(Message), NEW ps \in Seq(Message), NEW p \in Nat, NEW r,
         Ending(ms, ps, p, r), Linked(ms), Distinct(ms)
  PROVE  Linked(ps) /\ Distinct(ps)
<1>1. /\ p + Len(ps) = Len(ms) /\ \A i \in 1 .. Len(ps) : ps[i] = ms[p + i]
      /\ ps # <<>> => ps[1].results = {}
  BY DEF Ending
<1>2. Len(ms) \in Nat /\ Len(ps) \in Nat
  OBVIOUS
<1>3. \A i \in 1 .. Len(ps) : p + i \in 1 .. Len(ms)
  BY <1>1, <1>2
<1>4. Linked(ps)
  <2> SUFFICES ASSUME NEW i \in 1 .. Len(ps), ps[i].results # {}
               PROVE  i > 1 /\ ps[i].role = "user" /\ ps[i].results \subseteq ps[i - 1].uses
    BY DEF Linked
  <2>1. ps # <<>> /\ i # 1
    BY <1>1, <1>2
  <2>2. i > 1 /\ i - 1 \in 1 .. Len(ps) /\ p + (i - 1) = (p + i) - 1
    BY <1>2, <2>1
  <2>3. ms[p + i].role = "user" /\ ms[p + i].results \subseteq ms[(p + i) - 1].uses
    BY <1>1, <1>3 DEF Linked
  <2>4. ps[i - 1] = ms[p + (i - 1)] /\ ps[i] = ms[p + i]
    BY <1>1, <2>2
  <2> QED
    BY <2>2, <2>3, <2>4
<1>5. Distinct(ps)
  <2> SUFFICES ASSUME NEW i \in 1 .. Len(ps), NEW j \in 1 .. Len(ps),
                      NEW id \in ps[i].uses \cap ps[j].uses
               PROVE  i = j
    BY DEF Distinct
  <2>1. p + i = p + j
    BY <1>1, <1>3 DEF Distinct
  <2> QED
    BY <2>1
<1> QED
  BY <1>4, <1>5

\* The calls in a thread that is older than run r are of earlier runs.
LEMMA EarlierRuns ==
  ASSUME NEW ms \in Seq(Message), NEW r, Older(ms, r, 0),
         NEW i \in 1 .. Len(ms), NEW id \in ms[i].uses
  PROVE  id[1] \in Nat /\ id[1] < r
<1>1. id \in ToolIds
  <2>1. ms[i] \in Message
    OBVIOUS
  <2>2. ms[i].uses \in SUBSET ToolIds
    BY <2>1 DEF Message
  <2> QED
    BY <2>2
<1>2. id[1] \in 1 .. MaxRuns /\ id[2] \in 1 .. MaxSteps
  BY <1>1 DEF ToolIds
<1>3. id[1] \in Nat /\ ~(id[2] <= 0)
  BY <1>2
<1>4. id[1] < r \/ (id[1] = r /\ id[2] <= 0)
  BY DEF Older
<1> QED
  BY <1>3, <1>4

LEMMA FinishKeeps ==
  ASSUME TypeOK, LoopInv, Finish
  PROVE  TypeOK' /\ LoopInv'
<1> DEFINE b == SubSeq(messages, prefillLen + 1, Len(messages))
<1>0. StageInv /\ ThreadInv /\ MessagesInv /\ ProducedInv
  BY DEF LoopInv
<1>1. /\ phase = "finish" /\ phase' = "idle" /\ thread' = thread \o b
      /\ UNCHANGED <<run, step, status, messages, prefillLen, todo, full, compacts,
                     produced, broken, compacted>>
  BY DEF Finish, history
<1>2. /\ messages \in Seq(Message) /\ thread \in Seq(Message) /\ produced \in Seq(Message)
      /\ prefillLen \in Nat /\ run \in Nat /\ run > 0
      /\ todo = <<>> /\ thread # <<>> /\ thread[1].uses = {}
      /\ broken \subseteq 1 .. run /\ compacted \subseteq 1 .. run
  BY <1>0, <1>1, Settings DEF StageInv, TypeOK
<1>a. b = SubSeq(messages, prefillLen + 1, Len(messages))
  OBVIOUS
<1> HIDE DEF b
<1>3. b \in Seq(Message)
  BY <1>2, <1>a, Slice
<1>4. thread' \in Seq(Message) /\ thread' # <<>> /\ thread'[1].uses = {}
  BY <1>1, <1>2, <1>3, JoinKeeps
<1>5. TypeOK'
  BY <1>1, <1>4 DEF TypeOK
<1>6. StageInv'
  BY <1>1, <1>2, <1>4 DEF StageInv
<1>7. broken = {} => Answered(thread', {})
  <2> SUFFICES ASSUME broken = {} PROVE Answered(thread', {})
    OBVIOUS
  <2>1. Answered(thread, {})
    BY <1>0 DEF ThreadInv
  <2>2. Answered(messages, {})
    BY <1>0, <1>1, <1>2, NoneOpen DEF MessagesInv
  <2>3. Answered(b, {})
    BY <1>2, <1>a, <2>2, SliceAnswered
  <2> QED
    BY <1>1, <1>2, <1>3, <2>1, <2>3, JoinKeeps
<1>8. compacted = {} => Linked(thread') /\ Distinct(thread') /\ Older(thread', run + 1, 0)
  <2> SUFFICES ASSUME compacted = {}
               PROVE  Linked(thread') /\ Distinct(thread') /\ Older(thread', run + 1, 0)
    OBVIOUS
  <2>1. Linked(thread) /\ Distinct(thread) /\ Older(thread, run, 0)
    BY <1>0, <1>1 DEF ThreadInv
  <2>2. Linked(messages) /\ Distinct(messages)
    BY <1>0, <1>1 DEF MessagesInv
  <2>3. Ending(messages, produced, prefillLen, run)
    BY <1>0, <1>1 DEF ProducedInv
  <2>4. b = produced
    BY <1>2, <1>a, <2>3, SliceIsProduced
  <2>5. Linked(b) /\ Distinct(b)
    BY <1>2, <2>2, <2>3, <2>4, EndingKeeps
  <2>6. \A i \in 1 .. Len(b) : \A id \in b[i].uses : id[1] = run
    BY <2>3, <2>4 DEF Ending
  <2>7. \A i \in 1 .. Len(thread) : \A id \in thread[i].uses : id[1] \in Nat /\ id[1] < run
    BY <1>2, <2>1, EarlierRuns
  <2>8. \A i \in 1 .. Len(thread), j \in 1 .. Len(b) : thread[i].uses \cap b[j].uses = {}
    BY <1>2, <2>6, <2>7
  <2>9. Older(thread, run + 1, 0)
    BY <1>2, <2>7 DEF Older
  <2>10. Older(b, run + 1, 0)
    BY <1>2, <2>6 DEF Older
  <2>11. Linked(thread')
    BY <1>1, <1>2, <1>3, <2>1, <2>5, JoinKeeps
  <2>12. Distinct(thread')
    BY <1>1, <1>2, <1>3, <2>1, <2>5, <2>8, JoinKeeps
  <2>13. Older(thread', run + 1, 0)
    BY <1>1, <1>2, <1>3, <2>9, <2>10, JoinKeeps
  <2> QED
    BY <2>11, <2>12, <2>13
<1>9. ThreadInv'
  BY <1>1, <1>7, <1>8 DEF ThreadInv
<1>10. MessagesInv' /\ ProducedInv' /\ UserMessageSeen'
  BY <1>1 DEF MessagesInv, ProducedInv, UserMessageSeen
<1> QED
  BY <1>5, <1>6, <1>9, <1>10 DEF LoopInv

\* A run that is cut off leaves the thread as it is.
LEMMA RunCutOffKeeps ==
  ASSUME TypeOK, LoopInv, RunCutOff
  PROVE  TypeOK' /\ LoopInv'
<1>0. StageInv /\ ThreadInv
  BY DEF LoopInv
<1>1. /\ phase \in {"chat", "finish"} /\ phase' = "idle" /\ broken' = broken \cup {run}
      /\ UNCHANGED <<run, step, status, messages, prefillLen, todo, full, thread, compacts,
                     produced, compacted>>
  BY DEF RunCutOff
<1>2. /\ run \in 1 .. MaxRuns /\ run \in Nat /\ thread \in Seq(Message) /\ todo = <<>>
  BY <1>0, <1>1, Settings DEF StageInv, TypeOK
<1>3. TypeOK'
  BY <1>1, <1>2 DEF TypeOK
<1>4. StageInv'
  BY <1>0, <1>1, <1>2 DEF StageInv
<1>5. compacted = {} => Linked(thread) /\ Distinct(thread) /\ Older(thread, run + 1, 0)
  <2> SUFFICES ASSUME compacted = {}
               PROVE  Linked(thread) /\ Distinct(thread) /\ Older(thread, run + 1, 0)
    OBVIOUS
  <2>1. Linked(thread) /\ Distinct(thread) /\ Older(thread, run, 0)
    BY <1>0, <1>1 DEF ThreadInv
  <2>2. \A i \in 1 .. Len(thread) : \A id \in thread[i].uses : id[1] \in Nat /\ id[1] < run
    BY <1>2, <2>1, EarlierRuns
  <2>3. Older(thread, run + 1, 0)
    BY <1>2, <2>2 DEF Older
  <2> QED
    BY <2>1, <2>3
<1>6. broken' # {}
  BY <1>1
<1>7. ThreadInv'
  BY <1>1, <1>5, <1>6 DEF ThreadInv
<1>8. MessagesInv' /\ ProducedInv' /\ UserMessageSeen'
  BY <1>1 DEF MessagesInv, ProducedInv, UserMessageSeen
<1> QED
  BY <1>3, <1>4, <1>7, <1>8 DEF LoopInv

LEMMA ManualCompactKeeps ==
  ASSUME TypeOK, LoopInv, NEW ok \in BOOLEAN, ManualCompact(ok)
  PROVE  TypeOK' /\ LoopInv'
<1>0. StageInv /\ ThreadInv
  BY DEF LoopInv
<1>1. /\ phase = "idle" /\ compacts < MaxCompacts /\ compacts' = compacts + 1
      /\ thread' = (IF ok THEN Summary ELSE thread)
      /\ UNCHANGED <<phase, run, step, status, messages, prefillLen, todo, full, produced,
                     broken, compacted>>
  BY DEF ManualCompact, history
<1>2. compacts' \in 0 .. MaxCompacts
  BY <1>1, Settings DEF TypeOK
<1>3. CASE ok
  <2>1. thread' = Summary
    BY <1>1, <1>3
  <2>2. TypeOK'
    BY <1>1, <1>2, <2>1, SummaryFacts DEF TypeOK
  <2>3. StageInv'
    BY <1>0, <1>1, <2>1, SummaryFacts DEF StageInv
  <2>4. ThreadInv'
    BY <2>1, SummaryFacts DEF ThreadInv
  <2> QED
    BY <1>1, <2>2, <2>3, <2>4 DEF LoopInv, MessagesInv, ProducedInv, UserMessageSeen
<1>4. CASE ~ok
  <2>1. thread' = thread
    BY <1>1, <1>4
  <2>2. TypeOK'
    BY <1>1, <1>2, <2>1 DEF TypeOK
  <2>3. StageInv' /\ ThreadInv'
    BY <1>0, <1>1, <2>1 DEF StageInv, ThreadInv
  <2> QED
    BY <1>1, <2>2, <2>3 DEF LoopInv, MessagesInv, ProducedInv, UserMessageSeen
<1> QED
  BY <1>3, <1>4

-----------------------------------------------------------------------------
(* The theorems. *)

LEMMA InitHolds == Init => TypeOK /\ LoopInv
<1> SUFFICES ASSUME Init PROVE TypeOK /\ LoopInv
  OBVIOUS
<1>1. TypeOK
  <2>1. 0 \in 0 .. MaxRuns /\ 0 \in 0 .. MaxSteps /\ 0 \in 0 .. MaxCompacts /\ 0 \in Nat
    BY Settings
  <2>2. <<>> \in Seq(Message) /\ <<>> \in Seq(ToolIds)
    OBVIOUS
  <2>3. run \in 0 .. MaxRuns /\ step \in 0 .. MaxSteps /\ compacts \in 0 .. MaxCompacts
        /\ prefillLen \in Nat
    BY <2>1 DEF Init
  <2>4. messages \in Seq(Message) /\ thread \in Seq(Message) /\ produced \in Seq(Message)
        /\ todo \in Seq(ToolIds)
    BY <2>2 DEF Init
  <2>5. broken \subseteq 1 .. MaxRuns /\ compacted \subseteq 1 .. MaxRuns
    BY DEF Init
  <2>6. phase = "idle" /\ status = "running" /\ full \in BOOLEAN
    BY DEF Init
  <2> QED
    BY <2>3, <2>4, <2>5, <2>6 DEF TypeOK
<1>2. StageInv
  BY DEF Init, StageInv
<1>3. ThreadInv
  BY DEF Init, ThreadInv, Linked, Distinct, Older, Answered
<1> QED
  BY <1>1, <1>2, <1>3 DEF Init, LoopInv, MessagesInv, ProducedInv, UserMessageSeen

LEMMA NextKeeps == TypeOK /\ LoopInv /\ [Next]_vars => TypeOK' /\ LoopInv'
<1> SUFFICES ASSUME TypeOK, LoopInv, [Next]_vars PROVE TypeOK' /\ LoopInv'
  OBVIOUS
<1>1. CASE SendMessage
  BY <1>1, SendKeeps
<1>2. CASE Chat
  BY <1>2, ChatEndTurnKeeps, ChatToolUseKeeps, ChatMaxTokensKeeps, ChatFailsKeeps DEF Chat
<1>3. CASE ToolReturns
  BY <1>3, ToolReturnsKeeps
<1>4. CASE ToolsDone
  BY <1>4, ToolsDoneKeeps
<1>5. CASE Compact
  BY <1>5, CompactKeeps DEF Compact
<1>6. CASE Finish
  BY <1>6, FinishKeeps
<1>7. CASE RunBroken
  BY <1>7, RunBrokenKeeps
<1>8. CASE \E ok \in BOOLEAN : ManualCompact(ok)
  BY <1>8, ManualCompactKeeps
<1>10. CASE RunCutOff
  BY <1>10, RunCutOffKeeps
<1>9. CASE UNCHANGED vars
  <2>1. UNCHANGED <<phase, run, step, status, messages, prefillLen, todo, full, thread,
                    compacts, produced, broken, compacted>>
    BY <1>9 DEF vars
  <2>2. TypeOK'
    BY <2>1 DEF TypeOK
  <2>3. StageInv' /\ ThreadInv'
    BY <2>1 DEF LoopInv, StageInv, ThreadInv
  <2>4. MessagesInv' /\ ProducedInv' /\ UserMessageSeen'
    BY <2>1 DEF LoopInv, MessagesInv, ProducedInv, UserMessageSeen
  <2> QED
    BY <2>2, <2>3, <2>4 DEF LoopInv
<1> QED
  BY <1>1, <1>2, <1>3, <1>4, <1>5, <1>6, <1>7, <1>8, <1>9, <1>10 DEF Next

\* Every variable keeps its type, among them: the step never exceeds the limit
\* of config.agent.max_steps (loop.py:114-136).
THEOREM TypeCorrect == Spec => []TypeOK
<1>1. TypeOK /\ LoopInv /\ [Next]_vars => (TypeOK /\ LoopInv)'
  BY NextKeeps
<1> QED
  BY <1>1, InitHolds, PTL DEF Spec

LEMMA LoopInvHolds == Spec => [](TypeOK /\ LoopInv)
<1>1. TypeOK /\ LoopInv /\ [Next]_vars => (TypeOK /\ LoopInv)'
  BY NextKeeps
<1> QED
  BY <1>1, InitHolds, PTL DEF Spec

\* Every request to the model is well paired, also after runs that were
\* cancelled in the middle of their tool calls (store.py:110-175).
THEOREM RequestsWellPairedHolds == Spec => []RequestsWellPaired
<1>1. TypeOK /\ LoopInv => RequestsWellPaired
  <2> SUFFICES ASSUME TypeOK, LoopInv, phase = "chat", compacted \subseteq {run}
               PROVE  WellPaired(messages)
    BY DEF RequestsWellPaired
  <2>1. messages \in Seq(Message) /\ todo = <<>>
    BY DEF TypeOK, LoopInv, StageInv
  <2>2. Linked(messages)
    BY DEF LoopInv, MessagesInv
  <2>3. Answered(messages, {})
    BY <2>1, NoneOpen DEF LoopInv, MessagesInv
  <2> QED
    BY <2>1, <2>2, <2>3, AnsweredIsWellPaired
<1> QED
  BY <1>1, LoopInvHolds, PTL

\* The model is asked with the message the user sent, whatever was compacted
\* (manager.py:104, runner.py:163, 183).
THEOREM UserMessageSeenHolds == Spec => []UserMessageSeen
<1>1. LoopInv => UserMessageSeen
  BY DEF LoopInv
<1> QED
  BY <1>1, LoopInvHolds, PTL

\* What the end of a run adds to the thread, when its context was not compacted.
LEMMA FinishAppends ==
  ASSUME TypeOK, LoopInv, Finish, run \notin compacted
  PROVE  thread' = thread \o produced
<1>1. thread' = thread \o SubSeq(messages, prefillLen + 1, Len(messages)) /\ phase = "finish"
  BY DEF Finish
<1>2. /\ messages \in Seq(Message) /\ produced \in Seq(Message) /\ prefillLen \in Nat
      /\ Ending(messages, produced, prefillLen, run)
  BY <1>1 DEF TypeOK, LoopInv, ProducedInv
<1>3. SubSeq(messages, prefillLen + 1, Len(messages)) = produced
  BY <1>2, SliceIsProduced
<1> QED
  BY <1>1, <1>3

\* All or nothing: a run that was not compacted extends the thread by all its
\* messages, in order, each once, or was cancelled or broken off and leaves the
\* thread alone (runner.py:192-200, 263-275).
THEOREM ThreadGrowsByRunHolds == Spec => ThreadGrowsByRun
<1>1. TypeOK /\ LoopInv /\ [Next]_vars =>
        [phase # "idle" /\ phase' = "idle" /\ run \notin compacted =>
           \/ thread' = thread \o produced
           \/ thread' = thread /\ run \in broken']_vars
  <2> SUFFICES ASSUME TypeOK, LoopInv, Next,
                      phase # "idle", phase' = "idle", run \notin compacted
               PROVE  \/ thread' = thread \o produced
                      \/ thread' = thread /\ run \in broken'
    OBVIOUS
  <2>1. CASE Finish
    BY <2>1, FinishAppends
  <2>2. CASE RunCutOff
    BY <2>2 DEF RunCutOff
  <2>3. CASE (\E n \in 0 .. MaxCalls : ChatMaxTokens(n)) \/ ToolsDone
    <3>1. phase \in {"chat", "tools"} /\ \E high : EndStep(high)
      BY <2>3 DEF ChatMaxTokens, ToolsDone
    <3>2. phase' # "idle"
      BY <3>1 DEF EndStep, End
    <3> QED
      BY <3>2
  <2>4. CASE ChatEndTurn \/ ChatFails \/ RunBroken
    BY <2>4 DEF ChatEndTurn, ChatFails, RunBroken, End
  <2>5. CASE (\E n \in 1 .. MaxCalls, high \in {FALSE, AutoCompact} : ChatToolUse(n, high))
             \/ ToolReturns \/ Compact
    BY <2>5 DEF ChatToolUse, ToolReturns, Compact, CompactReturns
  <2>6. ~SendMessage /\ ~\E ok \in BOOLEAN : ManualCompact(ok)
    BY DEF SendMessage, ManualCompact
  <2> QED
    BY <2>1, <2>2, <2>3, <2>4, <2>5, <2>6 DEF Next, Chat
<1> QED
  BY <1>1, LoopInvHolds, PTL DEF Spec, ThreadGrowsByRun

\* Where the promise of README.md:435 does hold, and so the two ways it breaks:
\* the answer of a run that succeeded is in the thread, unless that run's
\* context was compacted (or the user has compacted the thread since), or the
\* run was cut off while it published its end.
AnswerKept ==
  phase = "idle" /\ status = "success" /\ compacts = 0 /\ run \notin compacted \cup broken =>
    AssistantBlocks(run, {}) \in ToSet(thread)

\* A run has no verdict before its loop is over, and one that succeeded has
\* produced its answer last.
AnswerInv ==
  /\ phase \in {"chat", "tools", "compact"} => status = "running"
  /\ phase = "finish" /\ status = "success" =>
       produced # <<>> /\ Last(produced) = AssistantBlocks(run, {})
  /\ AnswerKept

LEMMA LastIsMember ==
  ASSUME NEW S, NEW s \in Seq(S), NEW ps \in Seq(S), ps # <<>>
  PROVE  Last(ps) \in ToSet(s \o ps)
<1>1. Len(s) \in Nat /\ Len(ps) \in Nat /\ Len(ps) > 0
  OBVIOUS
<1>2. s \o ps \in Seq(S) /\ Len(s \o ps) = Len(s) + Len(ps)
  OBVIOUS
<1>3. (s \o ps)[Len(s) + Len(ps)] = ps[Len(ps)]
  BY <1>1, ConcatProperties
<1>4. Len(s) + Len(ps) \in DOMAIN (s \o ps)
  BY <1>1, <1>2
<1> QED
  BY <1>3, <1>4 DEF ToSet, Last

LEMMA AnswerKeeps ==
  ASSUME TypeOK, LoopInv, AnswerInv, [Next]_vars
  PROVE  AnswerInv'
<1>1. CASE SendMessage
  BY <1>1 DEF SendMessage, AnswerInv, AnswerKept
<1>2. CASE ChatEndTurn
  <2>1. /\ phase' = "finish" /\ run' = run
        /\ produced' = Append(produced, AssistantBlocks(run, {}))
    BY <1>2 DEF ChatEndTurn, End
  <2>2. produced \in Seq(Message)
    BY DEF TypeOK
  <2> DEFINE a == AssistantBlocks(run, {})
  <2> HIDE DEF a
  <2>3. \A ps \in Seq(Message) : Append(ps, a) # <<>> /\ Last(Append(ps, a)) = a
    BY DEF Last
  <2>4. produced' # <<>> /\ Last(produced') = AssistantBlocks(run, {})
    BY <2>1, <2>2, <2>3 DEF a
  <2>5. AssistantBlocks(run, {})' = AssistantBlocks(run, {})
    BY <2>1 DEF AssistantBlocks
  <2> QED
    BY <2>1, <2>4, <2>5 DEF AnswerInv, AnswerKept
<1>3. CASE ChatFails \/ RunBroken
  BY <1>3 DEF ChatFails, RunBroken, End, AnswerInv, AnswerKept
<1>4. CASE (\E n \in 1 .. MaxCalls, high \in {FALSE, AutoCompact} : ChatToolUse(n, high))
           \/ ToolReturns \/ Compact
  BY <1>4 DEF ChatToolUse, ToolReturns, Compact, CompactReturns, AnswerInv, AnswerKept
<1>5. CASE (\E n \in 0 .. MaxCalls : ChatMaxTokens(n)) \/ ToolsDone
  <2>1. phase \in {"chat", "tools"} /\ \E high : EndStep(high)
    BY <1>5 DEF ChatMaxTokens, ToolsDone
  <2>2. \/ phase' \in {"chat", "compact"} /\ status' = status
        \/ phase' = "finish" /\ status' = "failed"
    BY <2>1 DEF EndStep, End
  <2> QED
    BY <2>1, <2>2 DEF AnswerInv, AnswerKept
<1>6. CASE Finish
  <2>1. phase = "finish" /\ phase' = "idle" /\ UNCHANGED <<run, status, compacts, compacted>>
    BY <1>6 DEF Finish, history
  <2> SUFFICES ASSUME status = "success", run \notin compacted
               PROVE  AssistantBlocks(run, {}) \in ToSet(thread')
    BY <2>1 DEF AnswerInv, AnswerKept, AssistantBlocks
  <2>2. produced # <<>> /\ Last(produced) = AssistantBlocks(run, {})
    BY <2>1 DEF AnswerInv
  <2>3. thread' = thread \o produced
    BY <1>6, FinishAppends
  <2>4. thread \in Seq(Message) /\ produced \in Seq(Message)
    BY DEF TypeOK
  <2> QED
    BY <2>2, <2>3, <2>4, LastIsMember
<1>7. CASE \E ok \in BOOLEAN : ManualCompact(ok)
  <2>1. phase = "idle" /\ phase' = "idle" /\ compacts' = compacts + 1 /\ compacts \in Nat
    BY <1>7 DEF ManualCompact, TypeOK
  <2>2. compacts' # 0
    BY <2>1
  <2> QED
    BY <2>1, <2>2 DEF AnswerInv, AnswerKept
<1>9. CASE RunCutOff
  <2>1. phase' = "idle" /\ run' = run /\ run \in broken'
    BY <1>9 DEF RunCutOff
  <2> QED
    BY <2>1 DEF AnswerInv, AnswerKept
<1>8. CASE UNCHANGED vars
  BY <1>8 DEF vars, history, AnswerInv, AnswerKept, AssistantBlocks
<1> QED
  BY <1>1, <1>2, <1>3, <1>4, <1>5, <1>6, <1>7, <1>8, <1>9 DEF Next, Chat

\* The answer of every run that succeeded is in the thread when neither its
\* context nor the thread was compacted and nothing broke into the run
\* (runner.py:263-275, README.md:435): a compaction inside the run and a publish
\* of run.finished that is cancelled or raises lose answers, and nothing else.
THEOREM AnswerKeptHolds == Spec => []AnswerKept
<1>1. Init => AnswerInv
  BY DEF Init, AnswerInv, AnswerKept
<1>2. TypeOK /\ LoopInv /\ AnswerInv /\ [Next]_vars => AnswerInv'
  BY AnswerKeeps
<1>3. AnswerInv => AnswerKept
  BY DEF AnswerInv
<1> QED
  BY <1>1, <1>2, <1>3, LoopInvHolds, PTL DEF Spec

\* What is left to do in the current step of the loop: at most the response,
\* its calls, one after the other, and a compaction.
Pending ==
  CASE phase = "chat" -> MaxCalls + 3 [] phase = "tools" -> Len(todo) + 2
    [] phase = "compact" -> 1 [] OTHER -> 0

\* The loop does not go round: while a run is under way every step of the
\* session ends it, begins the run's next step, of which there are MaxSteps at
\* the most, or leaves strictly less to do in this one (loop.py:53-136).
LoopMoves ==
  phase # "idle" =>
    /\ run' = run /\ step' \in step .. MaxSteps
    /\ phase' = "idle" \/ step' > step \/ Pending' < Pending

LoopAdvances == [][LoopMoves]_vars

\* Every run makes progress with every step, for any limit and any number of
\* calls: what RunEnds needs of the steps, beside the fairness that takes them.
THEOREM LoopAdvancesHolds == Spec => LoopAdvances
<1>1. TypeOK /\ LoopInv /\ [Next]_vars => [LoopMoves]_vars
  <2> SUFFICES ASSUME TypeOK, LoopInv, Next, phase # "idle" PROVE LoopMoves
    BY DEF LoopMoves
  <2>0. step \in 1 .. MaxSteps /\ MaxCalls \in Nat /\ MaxSteps \in Nat /\ StageInv
    BY Settings DEF TypeOK, LoopInv, StageInv
  <2>1. CASE ChatEndTurn \/ ChatFails
    BY <2>0, <2>1 DEF ChatEndTurn, ChatFails, End, LoopMoves, Pending
  <2>2. CASE \E n \in 1 .. MaxCalls, high \in {FALSE, AutoCompact} : ChatToolUse(n, high)
    <3>1. PICK n \in 1 .. MaxCalls, high \in {FALSE, AutoCompact} : ChatToolUse(n, high)
      BY <2>2
    <3>2. Len(todo') = n
      BY <3>1 DEF ChatToolUse
    <3>3. n + 2 < MaxCalls + 3
      BY <2>0
    <3>4. phase = "chat" /\ phase' = "tools" /\ UNCHANGED <<run, step>>
      BY <3>1 DEF ChatToolUse
    <3>5. Pending = MaxCalls + 3 /\ Pending' = n + 2
      BY <3>2, <3>4 DEF Pending
    <3> QED
      BY <2>0, <3>3, <3>4, <3>5 DEF LoopMoves
  <2>3. CASE (\E n \in 0 .. MaxCalls : ChatMaxTokens(n)) \/ ToolsDone
    <3>1. /\ run' = run /\ phase \in {"chat", "tools"} /\ \E high : EndStep(high)
          /\ phase = "tools" => todo = <<>>
      BY <2>3 DEF ChatMaxTokens, ToolsDone
    <3>2. /\ phase' \in {"chat", "compact", "finish"} /\ step' \in 1 .. MaxSteps
          /\ phase' = "chat" => step' = step + 1
          /\ phase' # "chat" => step' = step
      BY <2>0, <3>1, EndStepFacts
    <3>3. step' \in step .. MaxSteps /\ (phase' = "chat" => step' > step)
      BY <2>0, <3>2
    <3>4. phase' # "chat" => Pending' \in {0, 1}
      BY <3>2 DEF Pending
    <3>5. Pending \in Nat /\ Pending > 1
      BY <2>0, <3>1 DEF Pending
    <3> QED
      BY <3>1, <3>3, <3>4, <3>5 DEF LoopMoves
  <2>4. CASE ToolReturns
    <3>1. phase = "tools" /\ todo # <<>> /\ todo' = Tail(todo) /\ UNCHANGED <<phase, run, step>>
      BY <2>4 DEF ToolReturns
    <3>2. Len(todo) \in Nat /\ Len(todo') = Len(todo) - 1
      BY <3>1 DEF TypeOK
    <3>3. Pending' < Pending
      BY <3>1, <3>2 DEF Pending
    <3> QED
      BY <2>0, <3>1, <3>3 DEF LoopMoves
  <2>5. CASE Compact
    <3>1. phase = "compact" /\ phase' = "chat" /\ run' = run /\ step' = step + 1
      BY <2>5 DEF Compact, CompactReturns, CountStep
    <3>2. step < MaxSteps
      BY <2>0, <3>1 DEF StageInv
    <3> QED
      BY <2>0, <3>1, <3>2 DEF LoopMoves
  <2>6. CASE Finish
    BY <2>0, <2>6 DEF Finish, LoopMoves
  <2>8. CASE RunCutOff
    BY <2>0, <2>8 DEF RunCutOff, LoopMoves
  <2>7. CASE RunBroken
    <3>1. /\ phase \in {"chat", "tools", "compact"} /\ phase' = "finish"
          /\ UNCHANGED <<run, step>>
      BY <2>7 DEF RunBroken, End
    <3>2. Pending' = 0 /\ Pending \in Nat /\ Pending > 0
      BY <2>0, <3>1 DEF Pending, TypeOK
    <3> QED
      BY <2>0, <3>1, <3>2 DEF LoopMoves
  <2> QED
    BY <2>1, <2>2, <2>3, <2>4, <2>5, <2>6, <2>7, <2>8 DEF Next, Chat, SendMessage, ManualCompact
<1> QED
  BY <1>1, LoopInvHolds, PTL DEF Spec, LoopAdvances

-----------------------------------------------------------------------------
(* The board. *)

\* Ids are given out once: the files behind the counter are not yet used, and
\* only a failed create has touched the one at the counter.
Fresh ==
  \A t \in Tasks :
    /\ file[t].form = "whole" => t < nextId
    /\ file[t].form # "whole" => file[t].blocked = {}

\* Grounded alone is not inductive: a task that is read again, after a failed
\* create, must not be one that others already wait for.
BoardInv == BoardTypeOK /\ Fresh /\ Grounded

-----------------------------------------------------------------------------
(* Facts about files. *)

LEMMA RecordTypes ==
  ASSUME BoardTypeOK, NEW t \in Tasks
  PROVE  /\ file[t].form \in {"none", "torn", "whole"}
         /\ file[t].status \in Statuses
         /\ file[t].blocked \subseteq Ids
BY DEF BoardTypeOK

LEMMA MemoryTyped ==
  ASSUME file' \in [Tasks -> [form: {"none", "torn", "whole"}, status: Statuses,
                              blocked: SUBSET Ids]],
         BoardTypeOK, NEW new, new \subseteq Tasks \X Ids, Remember(new)
  PROVE  loose' \subseteq Tasks \X Ids
BY DEF BoardTypeOK, Remember

\* What clearing a set of files leaves.
LEMMA ClearedFiles ==
  ASSUME BoardTypeOK, NEW t \in Tasks, NEW us \in SUBSET Tasks, NEW u \in Tasks
  PROVE  /\ Cleared(t, us)[u].form = file[u].form
         /\ Cleared(t, us)[u].status = file[u].status
         /\ Cleared(t, us)[u].blocked \subseteq file[u].blocked
         /\ u \in us => t \notin Cleared(t, us)[u].blocked
         /\ Cleared(t, us)[u] \in [form: {"none", "torn", "whole"}, status: Statuses,
                                   blocked: SUBSET Ids]
<1>1. file[u] \in [form: {"none", "torn", "whole"}, status: Statuses, blocked: SUBSET Ids]
  BY DEF BoardTypeOK
<1>2. CASE u \in us
  BY <1>1, <1>2 DEF Cleared
<1>3. CASE u \notin us
  BY <1>1, <1>3 DEF Cleared
<1>4. QED
  BY <1>2, <1>3

\* A step after which every file is torn, or what it was with fewer
\* dependencies, keeps the board grounded: all that a failing write does.
LEMMA Shrinking ==
  ASSUME BoardInv, UNCHANGED nextId, Remember({}),
         file' \in [Tasks -> [form: {"none", "torn", "whole"}, status: Statuses,
                              blocked: SUBSET Ids]],
         \A u \in Tasks :
           \/ file'[u] = Torn
           \/ /\ file'[u].form = file[u].form
              /\ file'[u].status = file[u].status
              /\ file'[u].blocked \subseteq file[u].blocked
  PROVE  BoardInv'
<1>1. BoardTypeOK'
  BY MemoryTyped DEF BoardInv, BoardTypeOK
<1>2. Fresh'
  <2> SUFFICES ASSUME NEW t \in Tasks
               PROVE  /\ file'[t].form = "whole" => t < nextId'
                      /\ file'[t].form # "whole" => file'[t].blocked = {}
    BY DEF Fresh
  <2>1. CASE file'[t] = Torn
    BY <2>1 DEF Torn
  <2>2. CASE file'[t] # Torn
    BY <2>2 DEF BoardInv, Fresh
  <2>3. QED
    BY <2>1, <2>2
<1>3. Grounded'
  <2> SUFFICES ASSUME NEW u \in Tasks, NEW d \in file'[u].blocked, <<u, d>> \notin loose'
               PROVE  d < u /\ ~Completed(d)'
    BY DEF Grounded
  <2>1. d \in file[u].blocked
    BY DEF Torn
  <2>2. <<u, d>> \notin loose
    BY DEF Remember
  <2>3. d < u /\ ~Completed(d)
    BY <2>1, <2>2 DEF BoardInv, Grounded
  <2>4. Completed(d)' => Completed(d)
    BY DEF Completed, Whole, Torn
  <2>5. QED
    BY <2>3, <2>4
<1>4. QED
  BY <1>1, <1>2, <1>3 DEF BoardInv

-----------------------------------------------------------------------------
(* The operations. *)

LEMMA CreateStep ==
  ASSUME BoardInv, NEW deps \in IdSets, Create(deps)
  PROVE  BoardInv'
<1> DEFINE doubtful == {d \in deps : Completed(d) \/ (d \in Tasks /\ file[d].form = "torn")}
<1>1. /\ nextId \in Tasks /\ nextId' = nextId + 1
      /\ file' = [file EXCEPT ![nextId] = Task("pending", deps)]
      /\ \A d \in deps : Exists(d)
      /\ Remember({nextId} \X doubtful)
  BY DEF Create
<1>2. deps \subseteq Ids
  BY BoardAssumption
<1>3. \A u \in Tasks : file'[u] = IF u = nextId THEN Task("pending", deps) ELSE file[u]
  BY <1>1 DEF BoardInv, BoardTypeOK
<1>4. BoardTypeOK'
  <2>1. Task("pending", deps) \in [form: {"none", "torn", "whole"}, status: Statuses,
                                   blocked: SUBSET Ids]
    BY <1>2 DEF Task, Statuses
  <2>2. file' \in [Tasks -> [form: {"none", "torn", "whole"}, status: Statuses,
                             blocked: SUBSET Ids]]
    BY <1>1, <2>1 DEF BoardInv, BoardTypeOK
  <2>3. {nextId} \X doubtful \subseteq Tasks \X Ids
    BY <1>1, <1>2
  <2>4. loose' \subseteq Tasks \X Ids
    BY <1>1, <2>2, <2>3, MemoryTyped DEF BoardInv
  <2>5. nextId' \in 1 .. MaxTasks + 1
    BY <1>1, BoardAssumption DEF Tasks
  <2>6. QED
    BY <2>2, <2>4, <2>5 DEF BoardTypeOK
<1>5. Fresh'
  <2> SUFFICES ASSUME NEW t \in Tasks
               PROVE  /\ file'[t].form = "whole" => t < nextId'
                      /\ file'[t].form # "whole" => file'[t].blocked = {}
    BY DEF Fresh
  <2>1. CASE t = nextId
    BY <1>1, <1>3, <2>1, BoardAssumption DEF Task, Tasks
  <2>2. CASE t # nextId
    <3>1. file'[t] = file[t]
      BY <1>3, <2>2
    <3>2. t < nextId => t < nextId'
      BY <1>1, BoardAssumption DEF Tasks
    <3>3. QED
      BY <3>1, <3>2 DEF BoardInv, Fresh
  <2>3. QED
    BY <2>1, <2>2
<1>6. Grounded'
  <2> SUFFICES ASSUME NEW u \in Tasks, NEW d \in file'[u].blocked, <<u, d>> \notin loose'
               PROVE  d < u /\ ~Completed(d)'
    BY DEF Grounded
  <2>0. <<u, d>> \notin loose /\ <<u, d>> \notin {nextId} \X doubtful
    BY <1>1 DEF Remember
  <2>1. Completed(d)' => Completed(d) /\ d # nextId
    <3>1. CASE d = nextId
      BY <1>1, <1>3, <3>1 DEF Completed, Task
    <3>2. CASE d # nextId
      BY <1>3, <3>2 DEF Completed, Whole
    <3>3. QED
      BY <3>1, <3>2
  <2>2. CASE u = nextId
    <3>1. d \in deps
      BY <1>3, <2>2 DEF Task
    <3>2. d \notin doubtful
      BY <2>0, <2>2
    <3>3. ~Completed(d) /\ d \in Tasks /\ file[d].form = "whole"
      BY <1>1, <3>1, <3>2, RecordTypes DEF Exists, BoardInv
    <3>4. d < nextId
      BY <3>3 DEF BoardInv, Fresh
    <3>5. QED
      BY <2>1, <2>2, <3>3, <3>4
  <2>3. CASE u # nextId
    <3>1. d \in file[u].blocked
      BY <1>3, <2>3
    <3>2. d < u /\ ~Completed(d)
      BY <2>0, <3>1 DEF BoardInv, Grounded
    <3>3. QED
      BY <2>1, <3>2
  <2>4. QED
    BY <2>2, <2>3
<1>7. QED
  BY <1>4, <1>5, <1>6 DEF BoardInv

LEMMA CreateFailsStep ==
  ASSUME BoardInv, NEW deps \in IdSets, CreateFails(deps)
  PROVE  BoardInv'
<1>1. PICK left \in {file[nextId], Torn} : file' = [file EXCEPT ![nextId] = left]
  BY DEF CreateFails
<1>2. nextId \in Tasks /\ Remember({}) /\ UNCHANGED nextId
  BY DEF CreateFails
<1>3. left \in [form: {"none", "torn", "whole"}, status: Statuses, blocked: SUBSET Ids]
  BY <1>1, <1>2 DEF BoardInv, BoardTypeOK, Torn, Statuses
<1>4. file' \in [Tasks -> [form: {"none", "torn", "whole"}, status: Statuses,
                           blocked: SUBSET Ids]]
  BY <1>1, <1>3 DEF BoardInv, BoardTypeOK
<1>5. \A u \in Tasks : file'[u] = Torn \/ file'[u] = file[u]
  BY <1>1 DEF BoardInv, BoardTypeOK
<1>6. QED
  BY <1>2, <1>4, <1>5, Shrinking

LEMMA UpdateStep ==
  ASSUME BoardInv, NEW t \in Tasks, NEW to \in Statuses \cup {"same"},
         NEW add \in IdSets, NEW remove \in IdSets, Update(t, to, add, remove)
  PROVE  BoardInv'
<1> DEFINE doubtful == {d \in add \ file[t].blocked : ~Whole(d) \/ Completed(d) \/ d >= t}
           record == [form: {"none", "torn", "whole"}, status: Statuses, blocked: SUBSET Ids]
           cleared == ClearDependency(t, to)
           saved == Saved(t, to, add, remove)
<1>1. /\ Whole(t) /\ UNCHANGED nextId
      /\ file' = [cleared EXCEPT ![t] = saved]
      /\ Remember({t} \X doubtful)
  BY DEF Update
<1>2. /\ add \subseteq Ids /\ remove \subseteq Ids
      /\ file[t].form = "whole" /\ file[t].status \in Statuses /\ file[t].blocked \subseteq Ids
  BY <1>1, BoardAssumption, RecordTypes DEF BoardInv, Whole
<1>3. \A u \in Tasks :
        /\ cleared[u] \in record
        /\ cleared[u].form = file[u].form /\ cleared[u].status = file[u].status
        /\ cleared[u].blocked \subseteq file[u].blocked
        /\ to = "completed" => t \notin cleared[u].blocked
  <2> SUFFICES ASSUME NEW u \in Tasks
               PROVE  /\ cleared[u] \in record
                      /\ cleared[u].form = file[u].form /\ cleared[u].status = file[u].status
                      /\ cleared[u].blocked \subseteq file[u].blocked
                      /\ to = "completed" => t \notin cleared[u].blocked
    OBVIOUS
  <2>1. CASE to = "completed"
    <3>1. Dependents(t) \in SUBSET Tasks
      BY DEF Dependents
    <3>2. cleared = Cleared(t, Dependents(t))
      BY <2>1 DEF ClearDependency
    <3>3. u \notin Dependents(t) => t \notin file[u].blocked
      BY DEF Dependents
    <3>4. QED
      BY <3>1, <3>2, <3>3, ClearedFiles DEF BoardInv
  <2>2. CASE to # "completed"
    BY <2>2 DEF ClearDependency, BoardInv, BoardTypeOK
  <2>3. QED
    BY <2>1, <2>2
<1>4. DOMAIN cleared = Tasks /\ cleared = [u \in Tasks |-> cleared[u]]
  BY DEF ClearDependency, Cleared, BoardInv, BoardTypeOK
<1>5. \A u \in Tasks : file'[u] = IF u = t THEN saved ELSE cleared[u]
  BY <1>1, <1>4
<1>6. /\ saved.form = "whole"
      /\ saved.status = IF to = "same" THEN file[t].status ELSE to
      /\ saved.blocked = (file[t].blocked \cup add) \ remove
      /\ saved \in record
  <2>1. (IF to = "same" THEN file[t].status ELSE to) \in Statuses
    BY <1>2 DEF Statuses
  <2>2. (file[t].blocked \cup add) \ remove \in SUBSET Ids
    BY <1>2
  <2>3. QED
    BY <2>1, <2>2 DEF Saved, Task
<1> HIDE DEF cleared, saved, doubtful
<1>7. BoardTypeOK'
  <2>1. file' \in [Tasks -> record]
    BY <1>1, <1>3, <1>4, <1>6
  <2>2. {t} \X doubtful \subseteq Tasks \X Ids
    BY <1>2 DEF doubtful
  <2>3. loose' \subseteq Tasks \X Ids
    BY <1>1, <2>1, <2>2, MemoryTyped DEF BoardInv
  <2>4. QED
    BY <1>1, <2>1, <2>3 DEF BoardInv, BoardTypeOK
<1>8. Fresh'
  <2> SUFFICES ASSUME NEW u \in Tasks
               PROVE  /\ file'[u].form = "whole" => u < nextId'
                      /\ file'[u].form # "whole" => file'[u].blocked = {}
    BY DEF Fresh
  <2>1. CASE u = t
    BY <1>1, <1>2, <1>5, <1>6, <2>1 DEF BoardInv, Fresh
  <2>2. CASE u # t
    BY <1>1, <1>3, <1>5, <2>2 DEF BoardInv, Fresh
  <2>3. QED
    BY <2>1, <2>2
<1>9. Grounded'
  <2> SUFFICES ASSUME NEW u \in Tasks, NEW d \in file'[u].blocked, <<u, d>> \notin loose'
               PROVE  d < u /\ ~Completed(d)'
    BY DEF Grounded
  <2>0. <<u, d>> \notin loose /\ <<u, d>> \notin {t} \X doubtful
    BY <1>1 DEF Remember
  <2>1. d # t => (Completed(d)' => Completed(d))
    BY <1>3, <1>5 DEF Completed, Whole
  <2>2. Completed(t)' => to = "completed" \/ Completed(t)
    BY <1>1, <1>5, <1>6 DEF Completed
  <2>3. CASE u = t /\ d \notin file[t].blocked
    <3>1. d \in add
      BY <1>5, <1>6, <2>3
    <3>2. d \notin doubtful
      BY <2>0, <2>3
    <3>3. Whole(d) /\ ~Completed(d) /\ ~(d >= t)
      BY <2>3, <3>1, <3>2 DEF doubtful
    <3>4. d < t
      BY <3>3 DEF Whole, Tasks
    <3>5. QED
      BY <2>1, <2>3, <3>3, <3>4 DEF Tasks
  <2>4. CASE u = t /\ d \in file[t].blocked
    <3>1. d < t /\ ~Completed(d)
      BY <2>0, <2>4 DEF BoardInv, Grounded
    <3>2. d # t
      BY <3>1 DEF Tasks
    <3>3. QED
      BY <2>1, <2>4, <3>1, <3>2
  <2>5. CASE u # t
    <3>1. d \in cleared[u].blocked
      BY <1>5, <2>5
    <3>2. d \in file[u].blocked
      BY <1>3, <3>1
    <3>3. d < u /\ ~Completed(d)
      BY <2>0, <3>2 DEF BoardInv, Grounded
    <3>4. d = t => to # "completed"
      BY <1>3, <3>1
    <3>5. QED
      BY <2>1, <2>2, <3>3, <3>4
  <2>6. QED
    BY <2>3, <2>4, <2>5
<1>10. QED
  BY <1>7, <1>8, <1>9 DEF BoardInv

LEMMA UpdateFailsStep ==
  ASSUME BoardInv, NEW t \in Tasks, NEW to \in Statuses \cup {"same"}, UpdateFails(t, to)
  PROVE  BoardInv'
<1> DEFINE record == [form: {"none", "torn", "whole"}, status: Statuses, blocked: SUBSET Ids]
           Shrunk(f, u) == /\ f[u].form = file[u].form /\ f[u].status = file[u].status
                           /\ f[u].blocked \subseteq file[u].blocked
<1>1. Remember({}) /\ UNCHANGED nextId
  BY DEF UpdateFails
<1>2. Torn \in record /\ \A u \in Tasks : file[u] \in record
  BY DEF Torn, Statuses, BoardInv, BoardTypeOK
<1>3. Dependents(t) \in SUBSET Tasks
  BY DEF Dependents
<1>4. \E us \in SUBSET Tasks, hit \in Tasks :
        \E left \in {Cleared(t, us)[hit], Torn} :
          file' = [Cleared(t, us) EXCEPT ![hit] = left]
  <2>1. CASE \E cut \in Dependents(t) :
               \E done \in SUBSET (Dependents(t) \ {cut}), left \in {file[cut], Torn} :
                 file' = [Cleared(t, done) EXCEPT ![cut] = left]
    <3>1. PICK cut \in Dependents(t) :
            \E done \in SUBSET (Dependents(t) \ {cut}), left \in {file[cut], Torn} :
              file' = [Cleared(t, done) EXCEPT ![cut] = left]
      BY <2>1
    <3>2. PICK done \in SUBSET (Dependents(t) \ {cut}) :
            \E left \in {file[cut], Torn} : file' = [Cleared(t, done) EXCEPT ![cut] = left]
      BY <3>1
    <3>3. cut \in Tasks /\ done \in SUBSET Tasks /\ Cleared(t, done)[cut] = file[cut]
      BY <1>3, <3>2 DEF Cleared
    <3>4. QED
      BY <3>2, <3>3
  <2>2. CASE \E left \in {ClearDependency(t, to)[t], Torn} :
               file' = [ClearDependency(t, to) EXCEPT ![t] = left]
    <3>1. Cleared(t, {}) = file
      BY DEF Cleared, BoardInv, BoardTypeOK
    <3>2. PICK us \in SUBSET Tasks : ClearDependency(t, to) = Cleared(t, us)
      BY <1>3, <3>1 DEF ClearDependency
    <3>3. QED
      BY <2>2, <3>2
  <2>3. QED
    BY <2>1, <2>2 DEF UpdateFails
<1>5a. PICK us \in SUBSET Tasks, hit \in Tasks :
         \E left \in {Cleared(t, us)[hit], Torn} :
           file' = [Cleared(t, us) EXCEPT ![hit] = left]
  BY <1>4
<1>5. PICK left \in {Cleared(t, us)[hit], Torn} :
        file' = [Cleared(t, us) EXCEPT ![hit] = left]
  BY <1>5a
<1>6. \A u \in Tasks : Cleared(t, us)[u] \in record /\ Shrunk(Cleared(t, us), u)
  BY <1>5, ClearedFiles DEF BoardInv
<1>7. \A u \in Tasks : file'[u] = IF u = hit THEN left ELSE Cleared(t, us)[u]
  BY <1>5 DEF Cleared
<1>8. DOMAIN file' = Tasks /\ file' = [u \in Tasks |-> file'[u]]
  BY <1>5 DEF Cleared
<1>9. \A u \in Tasks : file'[u] \in record
  BY <1>2, <1>5, <1>6, <1>7
<1>10. file' \in [Tasks -> record]
  BY <1>8, <1>9
<1>11. \A u \in Tasks : file'[u] = Torn \/ Shrunk(file', u)
  BY <1>5, <1>6, <1>7
<1>12. QED
  BY <1>1, <1>10, <1>11, Shrinking

-----------------------------------------------------------------------------
(* The theorems. *)

LEMMA InitInvariant ==
  ASSUME BoardInit
  PROVE  BoardInv
<1>1. BoardTypeOK
  BY BoardAssumption DEF BoardInit, BoardTypeOK, Absent, Statuses
<1>2. Fresh
  BY DEF BoardInit, Fresh, Absent
<1>3. Grounded
  BY DEF BoardInit, Grounded, Absent
<1>4. QED
  BY <1>1, <1>2, <1>3 DEF BoardInv

LEMMA StepInvariant ==
  ASSUME BoardInv, [BoardNext]_boardVars
  PROVE  BoardInv'
<1>1. CASE \E deps \in IdSets : Create(deps) \/ CreateFails(deps)
  BY <1>1, CreateStep, CreateFailsStep
<1>2. CASE \E t \in Tasks, to \in Statuses \cup {"same"} :
             \/ \E add, remove \in IdSets : Update(t, to, add, remove)
             \/ UpdateFails(t, to)
  <2>1. PICK t \in Tasks, to \in Statuses \cup {"same"} :
          \/ \E add, remove \in IdSets : Update(t, to, add, remove)
          \/ UpdateFails(t, to)
    BY <1>2
  <2>2. CASE UpdateFails(t, to)
    BY <2>1, <2>2, UpdateFailsStep
  <2>3. CASE \E add, remove \in IdSets : Update(t, to, add, remove)
    <3>1. PICK add \in IdSets, remove \in IdSets : Update(t, to, add, remove)
      BY <2>3
    <3>2. QED
      BY <2>1, <3>1, UpdateStep
  <2>4. QED
    BY <2>1, <2>2, <2>3
<1>3. CASE UNCHANGED boardVars
  <2>1. file' = file /\ nextId' = nextId /\ loose' = loose
    BY <1>3 DEF boardVars
  <2>2. QED
    BY <2>1 DEF BoardInv, BoardTypeOK, Fresh, Grounded, Completed, Whole
<1>4. QED
  BY <1>1, <1>2, <1>3 DEF BoardNext

LEMMA BoardInvariance == BoardSpec => []BoardInv
<1>1. BoardInit => BoardInv
  BY InitInvariant
<1>2. BoardInv /\ [BoardNext]_boardVars => BoardInv'
  BY StepInvariant
<1>3. QED
  BY <1>1, <1>2, PTL DEF BoardSpec

\* Every board is well-typed (task/model.py:10-40).
THEOREM BoardTypeCorrect == BoardSpec => []BoardTypeOK
<1>1. BoardInv => BoardTypeOK
  BY DEF BoardInv
<1>2. QED
  BY <1>1, BoardInvariance, PTL

\* A task waits only for earlier tasks that are not completed, unless the agent
\* named a doubtful id (manager.py:43-116).
THEOREM GroundedHolds == BoardSpec => []Grounded
<1>1. BoardInv => Grounded
  BY DEF BoardInv
<1>2. QED
  BY <1>1, BoardInvariance, PTL

-----------------------------------------------------------------------------
\* A set of tasks that is not empty has a least one.
LEMMA LeastTask ==
  ASSUME NEW S \in SUBSET Tasks, S # {}
  PROVE  \E t \in S : \A u \in S : ~(u < t)
<1> DEFINE below == OpToRel(<, Nat)
<1>1. IsWellFoundedOn(below, Nat)
  BY NatLessThanWellFounded, Zenon
<1>2. S \subseteq Nat
  BY BoardAssumption DEF Tasks
<1>3. \A i, j \in Nat : i < j => <<i, j>> \in below
  BY DEF OpToRel
<1> HIDE DEF below
<1>4. PICK t \in S : \A u \in S : ~(<<u, t>> \in below)
  BY <1>1, <1>2, WFMin
<1>5. QED
  BY <1>2, <1>3, <1>4

\* The least task that remains to be done waits for none: an agent that follows
\* the board never gets stuck (manager.py:93-128).
THEOREM NeverStuckHolds == BoardSpec => []NeverStuck
<1>1. ASSUME Grounded
      PROVE  NeverStuck
  <2> SUFFICES ASSUME Open # {},
                      \A u \in Open : \A d \in file[u].blocked : <<u, d>> \notin loose /\ Whole(d)
               PROVE  \E t \in Open : file[t].blocked = {}
    BY DEF NeverStuck
  <2>1. PICK t \in Open : \A u \in Open : ~(u < t)
    <3>1. Open \in SUBSET Tasks
      BY DEF Open
    <3>2. QED
      BY <3>1, LeastTask
  <2>2. ASSUME NEW d \in file[t].blocked
        PROVE  FALSE
    <3>1. d < t /\ ~Completed(d)
      BY <1>1, <2>1, <2>2 DEF Grounded, Open
    <3>2. d \in Open
      BY <2>1, <2>2, <3>1 DEF Open, Whole
    <3>3. QED
      BY <2>1, <3>1, <3>2
  <2>3. QED
    BY <2>1, <2>2
<1>2. Grounded => NeverStuck
  BY <1>1
<1>3. QED
  BY <1>2, GroundedHolds, PTL

=============================================================================

-------------------------- MODULE EventStreamProofs --------------------------
(***************************************************************************)
(* What a client and events.jsonl get of the events, for any number of     *)
(* publishers, runs and clients, whichever of them stall, break or are     *)
(* cancelled.                                                              *)
(*                                                                         *)
(* The invariant says of every publish under way, client and run where its *)
(* events are.  A publish takes a whole stretch of the loop over the       *)
(* subscriptions in one step, in publish and again whenever a drain        *)
(* returns: the lemmas on Stretch say once what such a step writes, drops  *)
(* and leaves, and the actions that contain one cite them.                 *)
(***************************************************************************)
EXTENDS EventStream, TLAPS, FiniteSetTheorems, SequenceTheorems

-----------------------------------------------------------------------------
(* Filtering a sequence. *)

Distinct(s) == \A i, j \in 1 .. Len(s) : s[i] = s[j] => i = j

PlaceOf(s, T, k) == CHOOSE i \in Places(s, T) : Rank(s, T, i) = k

\* Later elements have the higher rank, and every rank is taken.
LEMMA Ranks ==
  ASSUME NEW S, NEW s \in Seq(S), NEW T
  PROVE  /\ IsFiniteSet(Places(s, T)) /\ Cardinality(Places(s, T)) \in Nat
         /\ \A i \in Places(s, T) : Rank(s, T, i) \in 1 .. Cardinality(Places(s, T))
         /\ \A i, j \in Places(s, T) : i < j => Rank(s, T, i) < Rank(s, T, j)
         /\ \A k \in 1 .. Cardinality(Places(s, T)) : \E i \in Places(s, T) : Rank(s, T, i) = k
<1> DEFINE P == Places(s, T)
           Upto(i) == {j \in P : j <= i}
           n == Cardinality(P)
<1>1. IsFiniteSet(P) /\ n \in Nat
  <2>1. IsFiniteSet(1 .. Len(s)) /\ P \in SUBSET (1 .. Len(s))
    BY FS_Interval DEF Places
  <2>2. IsFiniteSet(P)
    BY <2>1, FS_Subset
  <2> QED
    BY <2>2, FS_CardinalityType
<1>2. \A i \in P : i \in Nat
  BY DEF Places
<1>3. ASSUME NEW i \in P
      PROVE  /\ IsFiniteSet(Upto(i)) /\ Cardinality(Upto(i)) \in 1 .. n
             /\ Rank(s, T, i) = Cardinality(Upto(i))
  <2>1. Upto(i) \in SUBSET P
    OBVIOUS
  <2>2. IsFiniteSet(Upto(i)) /\ Cardinality(Upto(i)) <= n
    BY <1>1, <2>1, FS_Subset
  <2>3. Cardinality(Upto(i)) \in Nat
    BY <2>2, FS_CardinalityType
  <2>4. i \in Upto(i)
    BY <1>2
  <2>5. Cardinality(Upto(i)) # 0
    BY <2>2, <2>4, FS_EmptySet
  <2> QED
    BY <1>1, <2>2, <2>3, <2>5 DEF Rank
<1>4. ASSUME NEW i \in P, NEW j \in P, i < j
      PROVE  Rank(s, T, i) < Rank(s, T, j)
  <2>1. Upto(i) \in SUBSET Upto(j) /\ j \in Upto(j) /\ j \notin Upto(i)
    BY <1>2, <1>4
  <2>2. Upto(i) # Upto(j)
    BY <2>1
  <2>3. Cardinality(Upto(i)) <= Cardinality(Upto(j)) /\ Cardinality(Upto(i)) # Cardinality(Upto(j))
    BY <1>3, <2>1, <2>2, FS_Subset
  <2>4. /\ Rank(s, T, i) \in 1 .. n /\ Rank(s, T, j) \in 1 .. n
        /\ Rank(s, T, i) <= Rank(s, T, j) /\ Rank(s, T, i) # Rank(s, T, j)
    BY <1>3, <2>3
  <2> HIDE DEF n
  <2> QED
    BY <1>1, <2>4
<1>5. ASSUME NEW k \in 1 .. n PROVE \E i \in P : Rank(s, T, i) = k
  <2> DEFINE f == [i \in P |-> Rank(s, T, i)]
  <2>1. f \in [P -> 1 .. n]
    BY <1>3
  <2>2. \A i, j \in P : i # j => f[i] # f[j]
    <3> SUFFICES ASSUME NEW i \in P, NEW j \in P, i # j PROVE Rank(s, T, i) # Rank(s, T, j)
      OBVIOUS
    <3>1. i < j \/ j < i
      BY <1>2
    <3>2. Rank(s, T, i) < Rank(s, T, j) \/ Rank(s, T, j) < Rank(s, T, i)
      BY <1>4, <3>1
    <3>3. Rank(s, T, i) \in 1 .. n /\ Rank(s, T, j) \in 1 .. n
      BY <1>3
    <3> HIDE DEF n
    <3> QED
      BY <1>1, <3>2, <3>3
  <2>3. f \in Injection(P, 1 .. n)
    <3> HIDE DEF f, n, P
    <3> QED
      BY <2>1, <2>2 DEF Injection, IsInjective
  <2>4. IsFiniteSet(1 .. n) /\ Cardinality(1 .. n) = n
    BY <1>1, FS_Interval
  <2>5. f \in Surjection(P, 1 .. n)
    BY <2>3, <2>4, FS_Injection
  <2>6. \E i \in P : f[i] = k
    BY <2>5 DEF Surjection
  <2> QED
    BY <2>6
<1> QED
  BY <1>1, <1>3, <1>4, <1>5

\* A filtered sequence keeps the order of the one it is taken from: at says
\* from which places.
LEMMA Filtered ==
  ASSUME NEW S, NEW s \in Seq(S), NEW T
  PROVE  \E f \in Seq(S), at \in [1 .. Len(Filter(s, T)) -> 1 .. Len(s)] :
           /\ f = Filter(s, T)
           /\ \A k \in 1 .. Len(f) : f[k] = s[at[k]] /\ f[k] \in T
           /\ \A k, l \in 1 .. Len(f) : k < l => at[k] < at[l]
           /\ \A i \in 1 .. Len(s) :
                s[i] \in T => \E k \in 1 .. Len(f) : f[k] = s[i]
<1> DEFINE P == Places(s, T)
           n == Cardinality(P)
           f == Filter(s, T)
           place(k) == PlaceOf(s, T, k)
<1>0. n \in Nat /\ P \in SUBSET (1 .. Len(s)) /\ \A i \in P : s[i] \in S \cap T
  <2>1. n \in Nat
    BY Ranks
  <2>2. P \in SUBSET (1 .. Len(s)) /\ \A i \in P : s[i] \in S \cap T
    BY DEF Places
  <2> QED
    BY <2>1, <2>2
<1>1. ASSUME NEW k \in 1 .. n PROVE place(k) \in P /\ Rank(s, T, place(k)) = k
  <2>1. \E i \in P : Rank(s, T, i) = k
    BY Ranks
  <2> QED
    BY <2>1 DEF PlaceOf
<1>2. f = [k \in 1 .. n |-> s[place(k)]]
  BY DEF Filter, PlaceOf
<1>3. f \in Seq(S \cap T) /\ Len(f) = n
  BY <1>0, <1>1, <1>2
<1>4. \A k \in 1 .. Len(f) : place(k) \in 1 .. Len(s) /\ f[k] = s[place(k)] /\ f[k] \in T
  BY <1>0, <1>1, <1>2, <1>3
<1>5. ASSUME NEW k \in 1 .. Len(f), NEW l \in 1 .. Len(f), k < l PROVE place(k) < place(l)
  <2>1. place(k) \in P /\ place(l) \in P /\ Rank(s, T, place(k)) < Rank(s, T, place(l))
    BY <1>1, <1>3, <1>5
  <2>2. place(k) \in Nat /\ place(l) \in Nat
    BY <1>0, <2>1
  <2>3. ~(place(l) < place(k)) /\ place(k) # place(l)
    <3>1. place(l) < place(k) => Rank(s, T, place(l)) < Rank(s, T, place(k))
      BY <2>1, Ranks
    <3> QED
      BY <1>1, <1>3, <2>1, <3>1
  <2> QED
    BY <2>2, <2>3
<1>6. ASSUME NEW i \in 1 .. Len(s), s[i] \in T PROVE \E k \in 1 .. Len(f) : f[k] = s[i]
  <2>1. i \in P /\ Rank(s, T, i) \in 1 .. n
    <3>1. i \in P
      BY <1>6 DEF Places
    <3> QED
      BY <3>1, Ranks
  <2> DEFINE k == Rank(s, T, i)
  <2>2. place(k) \in P /\ Rank(s, T, place(k)) = k
    BY <1>1, <2>1
  <2>3. place(k) = i
    <3>1. place(k) < i => Rank(s, T, place(k)) < Rank(s, T, i)
      BY <2>1, <2>2, Ranks
    <3>2. i < place(k) => Rank(s, T, i) < Rank(s, T, place(k))
      BY <2>1, <2>2, Ranks
    <3>3. place(k) \in Nat /\ i \in Nat /\ k \in Nat
      BY <1>0, <2>1, <2>2
    <3> QED
      BY <2>2, <3>1, <3>2, <3>3
  <2> QED
    BY <1>3, <1>4, <2>1, <2>3
<1>7. \A k, l \in 1 .. Len(f) : k < l => place(k) < place(l)
  BY <1>5
<1>8. \A i \in 1 .. Len(s) : s[i] \in T => \E k \in 1 .. Len(f) : f[k] = s[i]
  BY <1>6
<1> DEFINE at == [k \in 1 .. Len(f) |-> place(k)]
<1> HIDE DEF f, n, P
<1>9. f \in Seq(S)
  BY <1>3, <1>4, <1>7
<1>10. at \in [1 .. Len(f) -> 1 .. Len(s)]
  BY <1>3, <1>4, <1>7
<1>11. \A k \in 1 .. Len(f) : f[k] = s[at[k]] /\ f[k] \in T
  BY <1>3, <1>4, <1>7
<1>12. \A k, l \in 1 .. Len(f) : k < l => at[k] < at[l]
  BY <1>3, <1>4, <1>7
<1> HIDE DEF at
<1>13. \E g \in Seq(S), to \in [1 .. Len(f) -> 1 .. Len(s)] :
        /\ g = f
        /\ \A k \in 1 .. Len(g) : g[k] = s[to[k]] /\ g[k] \in T
        /\ \A k, l \in 1 .. Len(g) : k < l => to[k] < to[l]
        /\ \A i \in 1 .. Len(s) : s[i] \in T => \E k \in 1 .. Len(g) : g[k] = s[i]
  BY <1>8, <1>9, <1>10, <1>11, <1>12
<1> QED
  BY <1>13 DEF f

(* The same, with the four facts named: f is what is left of s, and at says *)
(* where in s each of its elements came from.                              *)
FilteredFrom(f, at, s, T) ==
  /\ f = Filter(s, T)
  /\ \A k \in 1 .. Len(f) : f[k] = s[at[k]] /\ f[k] \in T
  /\ \A k, l \in 1 .. Len(f) : k < l => at[k] < at[l]
  /\ \A i \in 1 .. Len(s) : s[i] \in T => \E k \in 1 .. Len(f) : f[k] = s[i]

LEMMA FilteredSome ==
  ASSUME NEW S, NEW s \in Seq(S), NEW T
  PROVE  \E f \in Seq(S), at \in [1 .. Len(Filter(s, T)) -> 1 .. Len(s)] :
           FilteredFrom(f, at, s, T)
  BY Filtered DEF FilteredFrom

LEMMA FilterElements ==
  ASSUME NEW S, NEW s \in Seq(S), NEW T
  PROVE  Filter(s, T) \in Seq(S) /\ Elements(Filter(s, T)) = Elements(s) \cap T
<1>0. PICK f \in Seq(S), at \in [1 .. Len(Filter(s, T)) -> 1 .. Len(s)] :
        FilteredFrom(f, at, s, T)
  BY FilteredSome, Zenon
<1>1. /\ f = Filter(s, T)
      /\ \A k \in 1 .. Len(f) : f[k] = s[at[k]] /\ f[k] \in T
      /\ \A k, l \in 1 .. Len(f) : k < l => at[k] < at[l]
      /\ \A i \in 1 .. Len(s) :
           s[i] \in T => \E k \in 1 .. Len(f) : f[k] = s[i]
  BY <1>0 DEF FilteredFrom
<1>2. DOMAIN f = 1 .. Len(f) /\ DOMAIN s = 1 .. Len(s) /\ at \in [1 .. Len(f) -> 1 .. Len(s)]
  BY <1>1
<1>3. Elements(f) \subseteq Elements(s) \cap T
  BY <1>1, <1>2 DEF Elements
<1>4. Elements(s) \cap T \subseteq Elements(f)
  <2> SUFFICES ASSUME NEW i \in 1 .. Len(s), s[i] \in T PROVE s[i] \in Elements(f)
    BY <1>2 DEF Elements
  <2>1. PICK k \in 1 .. Len(f) : f[k] = s[i]
    BY <1>1
  <2> QED
    BY <1>2, <2>1 DEF Elements
<1>5. f = Filter(s, T)
  BY <1>1
<1> QED
  BY <1>3, <1>4, <1>5

LEMMA FilterDistinct ==
  ASSUME NEW S, NEW s \in Seq(S), NEW T, Distinct(s)
  PROVE  Distinct(Filter(s, T))
<1>0. PICK f \in Seq(S), at \in [1 .. Len(Filter(s, T)) -> 1 .. Len(s)] :
        FilteredFrom(f, at, s, T)
  BY FilteredSome, Zenon
<1>1. /\ f = Filter(s, T)
      /\ \A k \in 1 .. Len(f) : f[k] = s[at[k]] /\ f[k] \in T
      /\ \A k, l \in 1 .. Len(f) : k < l => at[k] < at[l]
      /\ \A i \in 1 .. Len(s) :
           s[i] \in T => \E k \in 1 .. Len(f) : f[k] = s[i]
  BY <1>0 DEF FilteredFrom
<1>2. Len(f) \in Nat /\ at \in [1 .. Len(f) -> 1 .. Len(s)]
  BY <1>1
<1>3. ASSUME NEW k \in 1 .. Len(f), NEW l \in 1 .. Len(f), f[k] = f[l] PROVE k = l
  <2>1. at[k] \in 1 .. Len(s) /\ at[l] \in 1 .. Len(s)
    BY <1>2
  <2>2. s[at[k]] = s[at[l]]
    BY <1>1, <1>3
  <2>3. at[k] = at[l] /\ at[k] \in Int
    BY <2>1, <2>2 DEF Distinct
  <2>4. k < l => at[k] < at[l]
    BY <1>1
  <2>5. l < k => at[l] < at[k]
    BY <1>1
  <2>6. ~(k < l) /\ ~(l < k)
    BY <2>3, <2>4, <2>5
  <2> QED
    BY <1>2, <2>6
<1> QED
  BY <1>1, <1>3 DEF Distinct

LEMMA FilterInOrder ==
  ASSUME NEW S, NEW s \in Seq(S), NEW T, InOrder(s)
  PROVE  InOrder(Filter(s, T))
<1>0. PICK f \in Seq(S), at \in [1 .. Len(Filter(s, T)) -> 1 .. Len(s)] :
        FilteredFrom(f, at, s, T)
  BY FilteredSome, Zenon
<1>1. /\ f = Filter(s, T)
      /\ \A k \in 1 .. Len(f) : f[k] = s[at[k]] /\ f[k] \in T
      /\ \A k, l \in 1 .. Len(f) : k < l => at[k] < at[l]
      /\ \A i \in 1 .. Len(s) :
           s[i] \in T => \E k \in 1 .. Len(f) : f[k] = s[i]
  BY <1>0 DEF FilteredFrom
<1>2. DOMAIN f = 1 .. Len(f) /\ DOMAIN s = 1 .. Len(s) /\ at \in [1 .. Len(f) -> 1 .. Len(s)]
  BY <1>1
<1>3. ASSUME NEW k \in DOMAIN f, NEW l \in DOMAIN f, k < l, f[k].by = f[l].by
      PROVE  f[k].n < f[l].n
  <2>1. at[k] \in DOMAIN s /\ at[l] \in DOMAIN s /\ at[k] < at[l]
    BY <1>1, <1>2, <1>3
  <2>2. f[k] = s[at[k]] /\ f[l] = s[at[l]]
    BY <1>1, <1>2, <1>3
  <2> QED
    BY <1>3, <2>1, <2>2 DEF InOrder
<1> QED
  BY <1>1, <1>3 DEF InOrder

LEMMA EventFields ==
  ASSUME NEW s \in Seq(Events), NEW e \in Elements(s)
  PROVE  e \in Events /\ e.by \in Publishers /\ e.n \in Nat
<1>1. e \in Events
  BY DEF Elements
<1> QED
  BY <1>1 DEF Events

LEMMA AppendFacts ==
  ASSUME NEW S, NEW s \in Seq(S), NEW e \in S
  PROVE  Append(s, e) \in Seq(S) /\ Elements(Append(s, e)) = Elements(s) \cup {e}
<1>1. /\ Append(s, e) \in Seq(S) /\ DOMAIN s = 1 .. Len(s) /\ Len(s) \in Nat
      /\ DOMAIN Append(s, e) = 1 .. Len(s) + 1 /\ Append(s, e)[Len(s) + 1] = e
      /\ \A i \in 1 .. Len(s) : Append(s, e)[i] = s[i]
  OBVIOUS
<1>2. Elements(Append(s, e)) \subseteq Elements(s) \cup {e}
  <2> SUFFICES ASSUME NEW i \in 1 .. Len(s) + 1 PROVE Append(s, e)[i] \in Elements(s) \cup {e}
    BY <1>1 DEF Elements
  <2>1. i \in 1 .. Len(s) \/ i = Len(s) + 1
    BY <1>1
  <2> QED
    BY <1>1, <2>1 DEF Elements
<1>3. Elements(s) \subseteq Elements(Append(s, e)) /\ e \in Elements(Append(s, e))
  <2>1. 1 .. Len(s) \subseteq 1 .. Len(s) + 1 /\ Len(s) + 1 \in 1 .. Len(s) + 1
    BY <1>1
  <2> QED
    BY <1>1, <2>1 DEF Elements
<1> QED
  BY <1>1, <1>2, <1>3

LEMMA AppendInOrder ==
  ASSUME NEW s \in Seq(Events), NEW e \in Events, InOrder(s),
         \A x \in Elements(s) : x.by = e.by => x.n < e.n
  PROVE  InOrder(Append(s, e))
<1>1. /\ DOMAIN s = 1 .. Len(s) /\ Len(s) \in Nat
      /\ DOMAIN Append(s, e) = 1 .. Len(s) + 1 /\ Append(s, e)[Len(s) + 1] = e
      /\ \A i \in 1 .. Len(s) : Append(s, e)[i] = s[i]
  OBVIOUS
<1>2. ASSUME NEW i \in DOMAIN Append(s, e), NEW j \in DOMAIN Append(s, e), i < j,
             Append(s, e)[i].by = Append(s, e)[j].by
      PROVE  Append(s, e)[i].n < Append(s, e)[j].n
  <2>1. i \in 1 .. Len(s) /\ (j \in 1 .. Len(s) \/ j = Len(s) + 1)
    BY <1>1, <1>2
  <2>2. CASE j \in 1 .. Len(s)
    BY <1>1, <1>2, <2>1, <2>2 DEF InOrder
  <2>3. CASE j = Len(s) + 1
    <3>1. s[i] \in Elements(s)
      BY <1>1, <2>1 DEF Elements
    <3> QED
      BY <1>1, <1>2, <2>1, <2>3, <3>1
  <2> QED
    BY <2>1, <2>2, <2>3
<1> QED
  BY <1>2 DEF InOrder

\* From the k-th element on.
FromThe(k, s, t) ==
  /\ t = SubSeq(s, k, Len(s)) /\ t # <<>>
  /\ Elements(t) \subseteq Elements(s)
  /\ {t[i] : i \in 2 .. Len(t)} = {s[i] : i \in k + 1 .. Len(s)}
  /\ Distinct(s) => Distinct(t)

LEMMA Suffix ==
  ASSUME NEW S, NEW s \in Seq(S), NEW k \in 1 .. Len(s)
  PROVE  \E t \in Seq(S) : FromThe(k, s, t)
<1> DEFINE t == SubSeq(s, k, Len(s))
<1>1. k \in Nat /\ Len(s) \in Nat /\ k <= Len(s) /\ 1 <= k
  OBVIOUS
<1>2. /\ t \in Seq(S) /\ Len(t) = Len(s) - k + 1
      /\ \A i \in 1 .. Len(s) - k + 1 : t[i] = s[k + i - 1]
  BY <1>1
<1>0. t = SubSeq(s, k, Len(s))
  OBVIOUS
<1> HIDE DEF t
<1>3. t # <<>>
  BY <1>1, <1>2
<1>4. DOMAIN t = 1 .. Len(s) - k + 1 /\ DOMAIN s = 1 .. Len(s)
  BY <1>2
<1>5. \A i \in 1 .. Len(s) - k + 1 : k + i - 1 \in 1 .. Len(s)
  BY <1>1
<1>6. Elements(t) \subseteq Elements(s)
  BY <1>2, <1>4, <1>5 DEF Elements
<1>7. {t[i] : i \in 2 .. Len(t)} = {s[i] : i \in k + 1 .. Len(s)}
  <2>1. \A i \in 2 .. Len(t) : t[i] = s[k + i - 1] /\ k + i - 1 \in k + 1 .. Len(s)
    BY <1>1, <1>2
  <2>2. \A j \in k + 1 .. Len(s) :
          /\ j - k + 1 \in 2 .. Len(t) /\ j - k + 1 \in 1 .. Len(s) - k + 1
          /\ k + (j - k + 1) - 1 = j
    BY <1>1, <1>2
  <2>3. \A j \in k + 1 .. Len(s) : j - k + 1 \in 2 .. Len(t) /\ s[j] = t[j - k + 1]
    BY <1>2, <2>2
  <2>4. {t[i] : i \in 2 .. Len(t)} \subseteq {s[i] : i \in k + 1 .. Len(s)}
    BY <2>1
  <2>5. {s[i] : i \in k + 1 .. Len(s)} \subseteq {t[i] : i \in 2 .. Len(t)}
    BY <2>3
  <2> QED
    BY <2>4, <2>5
<1>8. ASSUME Distinct(s), NEW i \in 1 .. Len(t), NEW j \in 1 .. Len(t), t[i] = t[j]
      PROVE  i = j
  <2>1. s[k + i - 1] = s[k + j - 1] /\ k + i - 1 \in 1 .. Len(s) /\ k + j - 1 \in 1 .. Len(s)
    BY <1>2, <1>5, <1>8
  <2>2. k + i - 1 = k + j - 1
    BY <1>8, <2>1 DEF Distinct
  <2> QED
    BY <1>1, <2>2
<1>9. Distinct(s) => Distinct(t)
  BY <1>8 DEF Distinct
<1>10. FromThe(k, s, t)
  BY <1>0, <1>3, <1>6, <1>7, <1>9 DEF FromThe
<1> QED
  BY <1>2, <1>10

\* All but the first.
LEMMA TailFacts ==
  ASSUME NEW S, NEW s \in Seq(S), s # <<>>
  PROVE  /\ Tail(s) \in Seq(S) /\ Head(s) \in Elements(s)
         /\ Elements(Tail(s)) = {s[i] : i \in 2 .. Len(s)}
         /\ Elements(Tail(s)) \subseteq Elements(s)
         /\ Distinct(s) => Distinct(Tail(s))
<1>1. /\ Tail(s) \in Seq(S) /\ Len(s) \in Nat /\ Len(s) > 0
      /\ Len(Tail(s)) = Len(s) - 1 /\ Head(s) = s[1]
      /\ \A i \in 1 .. Len(s) - 1 : Tail(s)[i] = s[i + 1]
      /\ DOMAIN s = 1 .. Len(s) /\ DOMAIN Tail(s) = 1 .. Len(s) - 1
  OBVIOUS
<1>2. Head(s) \in Elements(s)
  BY <1>1 DEF Elements
<1>3. /\ \A i \in 1 .. Len(s) - 1 : i + 1 \in 2 .. Len(s) /\ i + 1 \in 1 .. Len(s)
      /\ \A j \in 2 .. Len(s) : j - 1 \in 1 .. Len(s) - 1 /\ s[j] = Tail(s)[j - 1]
  <2>1. \A j \in 2 .. Len(s) : j - 1 \in 1 .. Len(s) - 1 /\ (j - 1) + 1 = j
    BY <1>1
  <2> QED
    BY <1>1, <2>1
<1>4. Elements(Tail(s)) = {s[i] : i \in 2 .. Len(s)}
  <2>1. Elements(Tail(s)) \subseteq {s[i] : i \in 2 .. Len(s)}
    BY <1>1, <1>3 DEF Elements
  <2>2. ASSUME NEW j \in 2 .. Len(s) PROVE s[j] \in Elements(Tail(s))
    <3>1. j - 1 \in DOMAIN Tail(s) /\ s[j] = Tail(s)[j - 1]
      BY <1>1, <1>3
    <3> QED
      BY <3>1 DEF Elements
  <2> QED
    BY <2>1, <2>2
<1>5. Elements(Tail(s)) \subseteq Elements(s)
  BY <1>1, <1>3 DEF Elements
<1>6. Distinct(s) => Distinct(Tail(s))
  <2> SUFFICES ASSUME Distinct(s), NEW i \in 1 .. Len(s) - 1, NEW j \in 1 .. Len(s) - 1,
                      Tail(s)[i] = Tail(s)[j]
               PROVE  i = j
    BY <1>1 DEF Distinct
  <2>1. i + 1 = j + 1
    BY <1>1, <1>3 DEF Distinct
  <2> QED
    BY <2>1
<1> QED
  BY <1>1, <1>2, <1>4, <1>5, <1>6

-----------------------------------------------------------------------------
(* The inductive invariant. *)

\* The connections p has yet to write its event to: the first of todo has it.
Waits(p) == {todo[p][i] : i \in 2 .. Len(todo[p])}

Old(e) == e.n <= begun[e.by]

Types ==
  /\ begun \in [Publishers -> Nat]
  /\ todo \in [Publishers -> Seq(Clients)]
  /\ dead \in [Publishers -> SUBSET Clients]
  /\ busy \subseteq Publishers
  /\ blocked \subseteq Publishers \cup Clients
  /\ recording \in [Runs -> {"new", "open", "closed"}]
  /\ file \in [Runs -> Seq(Events)]
  /\ subs \in Seq(Clients)
  /\ conn \in [Clients -> {"open", "lost", "gone"}]
  /\ full \subseteq {c \in Clients : conn[c] = "open"}
  /\ ask \in [Clients -> Commands]
  /\ stage \in [Clients -> {"none", "requested", "draining", "subscribed", "failed"}]
  /\ stream \in [Clients -> Seq(Events)]
  /\ since \in [Clients -> [Publishers -> Nat]]
  /\ smooth \subseteq Clients
  /\ cut \subseteq Events

\* publish serves subscribed connections, each once, and finds dead only broken ones.
Serving(p) ==
  /\ begun[p] <= Count[p]
  /\ p \in busy => begun[p] > 0 /\ todo[p] # <<>>
  /\ p \notin busy => todo[p] = <<>>
  /\ Distinct(todo[p])
  /\ \A c \in Elements(todo[p]) : stage[c] = "subscribed"
  /\ \A c \in dead[p] : Broken(c)

\* _subscriptions names a connection once, and each that follows the stream.
Subscribed ==
  /\ Distinct(subs)
  /\ \A c \in Elements(subs) : stage[c] = "subscribed"
  /\ \A c \in Clients : Following(c) => c \in Elements(subs)

\* What was written to c is in order, and older than what c waits for.
Received(c) ==
  /\ stage[c] \in {"none", "requested"} => stream[c] = <<>>
  /\ InOrder(stream[c])
  /\ \A e \in Elements(stream[c]) :
       Old(e) /\ (c \in Waits(e.by) => e.n < begun[e.by])

\* A file holds events whose publish is over, and of its own run all of them.
Kept(r) ==
  /\ recording[r] = "new" <=> begun[r] = 0
  /\ recording[r] = "closed" => begun[r] = Count[r] /\ r \notin busy
  /\ InOrder(file[r])
  /\ \A e \in Elements(file[r]) : Old(e) /\ (e.by \in busy => e.n < begun[e.by])
  /\ \A n \in 1 .. begun[r] :
       Over(r, n) => [by |-> r, n |-> n] \in cut \cup Elements(file[r])

\* An event that began since c subscribed was written to c, or c waits for it.
Reached(c, p) ==
  Following(c) /\ Matches(c, p) =>
    \A n \in since[c][p] + 1 .. begun[p] :
      \/ [by |-> p, n |-> n] \in cut \cup Elements(stream[c])
      \/ n = begun[p] /\ c \in Waits(p)

\* A smooth replay holds all of its run that had begun when c subscribed.
CaughtUp(c) ==
  c \in smooth =>
    /\ stage[c] = "subscribed"
    /\ LET r == ask[c].replay
       IN r # "none" /\ Following(c) /\ Matches(c, r) =>
            \A n \in 1 .. since[c][r] :
              [by |-> r, n |-> n] \in cut \cup Elements(stream[c])

IInv ==
  /\ Types
  /\ \A p \in Publishers : Serving(p)
  /\ Subscribed
  /\ \A c \in Clients : Received(c)
  /\ \A r \in Runs : Kept(r)
  /\ \A c \in Clients, p \in Publishers : Reached(c, p)
  /\ \A c \in Clients : CaughtUp(c)

-----------------------------------------------------------------------------
(* What a stretch of publish does. *)

\* A stretch of publish, from values that a caller gives it.
Served(p, event, conns, away, rec) ==
  /\ event \in Events /\ event.by = p
  /\ conns \in Seq(Clients) /\ Distinct(conns) /\ away \in SUBSET Clients
  /\ rec \in [Runs -> {"new", "open", "closed"}]
  /\ Serve(p, event, conns, away, rec)

\* It ends in the drain of the k-th connection, or past the last of them.
LEMMA ServeEnds ==
  ASSUME Types, NEW p \in Publishers, NEW event, NEW conns, NEW away, NEW rec,
         Served(p, event, conns, away, rec)
  PROVE  \E k \in 1 .. Len(conns) + 1 :
           /\ Push(event, conns, k)
           /\ todo' \in [Publishers -> Seq(Clients)]
           /\ \A q \in Publishers \ {p} : todo'[q] = todo[q]
           /\ Distinct(todo'[p]) /\ Elements(todo'[p]) \subseteq Elements(conns)
           /\ Waits(p)' = {conns[i] : i \in k + 1 .. Len(conns)}
           /\ k <= Len(conns) => p \in busy' /\ todo'[p] # <<>>
           /\ k = Len(conns) + 1 => p \notin busy' /\ todo'[p] = <<>>
<1> /\ event \in Events /\ event.by = p
    /\ conns \in Seq(Clients) /\ Distinct(conns) /\ away \in SUBSET Clients
    /\ rec \in [Runs -> {"new", "open", "closed"}]
    /\ Serve(p, event, conns, away, rec)
  BY DEF Served
<1>1. PICK k \in 1 .. Len(conns) + 1 :
        /\ Push(event, conns, k)
        /\ \/ /\ k <= Len(conns)
              /\ todo' = [todo EXCEPT ![p] = SubSeq(conns, k, Len(conns))]
              /\ busy' = busy \cup {p}
           \/ /\ k = Len(conns) + 1
              /\ todo' = [todo EXCEPT ![p] = <<>>]
              /\ busy' = busy \ {p}
  BY DEF Serve
<1>2. todo \in [Publishers -> Seq(Clients)] /\ Len(conns) \in Nat
  BY DEF Types
<1>3. CASE k <= Len(conns)
  <2>1. /\ todo' = [todo EXCEPT ![p] = SubSeq(conns, k, Len(conns))]
        /\ busy' = busy \cup {p} /\ k \in 1 .. Len(conns)
    BY <1>1, <1>2, <1>3
  <2>a. k \in 1 .. Len(conns) /\ conns \in Seq(Clients)
    BY <2>1
  <2>b. PICK t \in Seq(Clients) : FromThe(k, conns, t)
    BY <2>a, Suffix, Zenon
  <2>2. /\ t = SubSeq(conns, k, Len(conns)) /\ t # <<>>
        /\ Elements(t) \subseteq Elements(conns)
        /\ {t[i] : i \in 2 .. Len(t)} = {conns[i] : i \in k + 1 .. Len(conns)}
        /\ Distinct(conns) => Distinct(t)
    BY <2>b DEF FromThe
  <2>3. /\ todo' \in [Publishers -> Seq(Clients)] /\ todo'[p] = t
        /\ \A q \in Publishers \ {p} : todo'[q] = todo[q]
    BY <1>2, <2>1, <2>2
  <2>4. Waits(p)' = {conns[i] : i \in k + 1 .. Len(conns)}
    <3>1. todo'[p] = t
      BY <2>3
    <3>2. Waits(p)' = {t[i] : i \in 2 .. Len(t)}
      BY <3>1, Zenon DEF Waits
    <3>3. {t[i] : i \in 2 .. Len(t)} = {conns[i] : i \in k + 1 .. Len(conns)}
      BY <2>b, Zenon DEF FromThe
    <3> QED
      BY <3>2, <3>3, Zenon
  <2>5. k # Len(conns) + 1 /\ Push(event, conns, k) /\ p \in busy'
    BY <1>1, <1>2, <1>3, <2>1
  <2>6. Distinct(todo'[p]) /\ Elements(todo'[p]) \subseteq Elements(conns) /\ todo'[p] # <<>>
    BY <2>2, <2>3
  <2> QED
    BY <2>3, <2>4, <2>5, <2>6
<1>4. CASE k = Len(conns) + 1
  <2>1. /\ todo' = [todo EXCEPT ![p] = <<>>] /\ busy' = busy \ {p}
    BY <1>1, <1>2, <1>4
  <2>2. /\ todo' \in [Publishers -> Seq(Clients)] /\ todo'[p] = <<>>
        /\ \A q \in Publishers \ {p} : todo'[q] = todo[q]
    BY <1>2, <2>1
  <2>3. Waits(p)' = {} /\ {conns[i] : i \in k + 1 .. Len(conns)} = {}
    BY <1>2, <1>4, <2>2 DEF Waits
  <2>4. Distinct(todo'[p]) /\ Elements(todo'[p]) \subseteq Elements(conns)
    BY <2>2 DEF Distinct, Elements
  <2>5. ~(k <= Len(conns)) /\ Push(event, conns, k) /\ p \notin busy'
    BY <1>1, <1>2, <1>4, <2>1
  <2>6. Waits(p)' = {conns[i] : i \in k + 1 .. Len(conns)}
    BY <2>3
  <2> QED
    BY <1>4, <2>2, <2>4, <2>5, <2>6
<1>5. k <= Len(conns) \/ k = Len(conns) + 1
  BY <1>2
<1> QED
  BY <1>3, <1>4, <1>5

\* Every live connection it was to serve has the event or is still to get it,
\* and none has it twice.
LEMMA ServeWrites ==
  ASSUME Types, NEW p \in Publishers, NEW event, NEW conns, NEW away, NEW rec,
         Served(p, event, conns, away, rec)
  PROVE  /\ stream' \in [Clients -> Seq(Events)]
         /\ \A c \in Clients :
              \/ stream'[c] = stream[c]
              \/ /\ stream'[c] = Append(stream[c], event)
                 /\ c \in Elements(conns) /\ c \notin Waits(p)'
         /\ \A c \in Elements(conns) :
              Broken(c) \/ c \in Waits(p)' \/ stream'[c] = Append(stream[c], event)
         /\ Waits(p)' \subseteq Elements(conns)
<1> /\ event \in Events /\ event.by = p
    /\ conns \in Seq(Clients) /\ Distinct(conns) /\ away \in SUBSET Clients
    /\ rec \in [Runs -> {"new", "open", "closed"}]
    /\ Serve(p, event, conns, away, rec)
  BY DEF Served
<1>1. PICK k \in 1 .. Len(conns) + 1 :
        /\ Push(event, conns, k)
        /\ Waits(p)' = {conns[i] : i \in k + 1 .. Len(conns)}
  BY ServeEnds
<1>2. /\ stream \in [Clients -> Seq(Events)] /\ Len(conns) \in Nat /\ DOMAIN conns = 1 .. Len(conns)
      /\ k \in Nat
  BY DEF Types
<1>3. /\ stream' \in [Clients -> Seq(Events)]
      /\ \A c \in Clients :
           stream'[c] = IF \E i \in Alive(conns) : i <= k /\ conns[i] = c
                        THEN Append(stream[c], event) ELSE stream[c]
  BY <1>1, <1>2 DEF Push
<1>4. ASSUME NEW c \in Clients, NEW i \in Alive(conns), i <= k, conns[i] = c
      PROVE  c \in Elements(conns) /\ c \notin Waits(p)'
  <2>1. i \in 1 .. Len(conns)
    BY <1>2 DEF Alive
  <2>2. ASSUME NEW j \in k + 1 .. Len(conns) PROVE conns[j] # c
    <3>1. j \in 1 .. Len(conns) /\ i # j
      BY <1>2, <1>4, <2>1
    <3> QED
      BY <1>4, <2>1, <3>1 DEF Distinct
  <2> QED
    BY <1>1, <1>2, <1>4, <2>1, <2>2 DEF Elements
<1>5. ASSUME NEW c \in Elements(conns)
      PROVE  Broken(c) \/ c \in Waits(p)' \/ stream'[c] = Append(stream[c], event)
  <2>1. PICK i \in 1 .. Len(conns) : conns[i] = c
    BY <1>2 DEF Elements
  <2>2. c \in Clients
    BY <1>2, <2>1
  <2>3. i <= k \/ i \in k + 1 .. Len(conns)
    BY <1>2
  <2>4. CASE i <= k /\ ~Broken(c)
    <3>1. i \in Alive(conns)
      BY <1>2, <2>1, <2>4 DEF Alive
    <3> QED
      BY <1>3, <2>1, <2>2, <2>4, <3>1
  <2>5. CASE i \in k + 1 .. Len(conns)
    BY <1>1, <2>1, <2>5
  <2> QED
    BY <2>3, <2>4, <2>5
<1>6. Waits(p)' \subseteq Elements(conns)
  <2>1. \A i \in k + 1 .. Len(conns) : i \in DOMAIN conns
    BY <1>2
  <2> QED
    BY <1>1, <2>1 DEF Elements
<1>7. ASSUME NEW c \in Clients
      PROVE  \/ stream'[c] = stream[c]
             \/ /\ stream'[c] = Append(stream[c], event)
                /\ c \in Elements(conns) /\ c \notin Waits(p)'
  <2>1. CASE \E i \in Alive(conns) : i <= k /\ conns[i] = c
    BY <1>3, <1>4, <2>1
  <2>2. CASE ~\E i \in Alive(conns) : i <= k /\ conns[i] = c
    BY <1>3, <2>2
  <2> QED
    BY <2>1, <2>2
<1> QED
  BY <1>3, <1>5, <1>6, <1>7

\* The dead connections are unsubscribed.
LEMMA ServeUnsubscribes ==
  ASSUME Types, NEW p \in Publishers, NEW event, NEW conns, NEW away, NEW rec,
         Served(p, event, conns, away, rec)
  PROVE  subs' = subs \/ subs' = Filter(subs, Clients \ away)
<1> /\ event \in Events /\ event.by = p
    /\ conns \in Seq(Clients) /\ Distinct(conns) /\ away \in SUBSET Clients
    /\ rec \in [Runs -> {"new", "open", "closed"}]
    /\ Serve(p, event, conns, away, rec)
  BY DEF Served
<1>1. \/ UNCHANGED <<file, subs, cut>>
      \/ subs' = Filter(subs, Clients \ away)
  BY DEF Serve
<1> QED
  BY <1>1

\* The run closes its file with its last publish.
LEMMA ServeCloses ==
  ASSUME Types, NEW p \in Publishers, NEW event, NEW conns, NEW away, NEW rec,
         Served(p, event, conns, away, rec)
  PROVE  /\ p \in busy' => recording' = rec
         /\ p \notin busy' => recording' = CloseAfter(event, rec)
<1> /\ event \in Events /\ event.by = p
    /\ conns \in Seq(Clients) /\ Distinct(conns) /\ away \in SUBSET Clients
    /\ rec \in [Runs -> {"new", "open", "closed"}]
    /\ Serve(p, event, conns, away, rec)
  BY DEF Served
<1>1. \/ busy' = busy \cup {p} /\ recording' = rec
      \/ busy' = busy \ {p} /\ recording' = CloseAfter(event, rec)
  BY DEF Serve
<1> QED
  BY <1>1

\* The files that take the event, where publish returns.
LEMMA ServeRecords ==
  ASSUME Types, NEW p \in Publishers, NEW event, NEW conns, NEW away, NEW rec,
         Served(p, event, conns, away, rec), p \notin busy',
         NEW r \in Runs
  PROVE  \/ file'[r] = file[r] /\ (rec[r] = "open" /\ r = p => event \in cut')
         \/ file'[r] = Append(file[r], event)
<1> /\ event \in Events /\ event.by = p
    /\ conns \in Seq(Clients) /\ Distinct(conns) /\ away \in SUBSET Clients
    /\ rec \in [Runs -> {"new", "open", "closed"}]
    /\ Serve(p, event, conns, away, rec)
  BY DEF Served
<1>1. PICK failing :
        /\ Record(event, rec, failing)
        /\ cut' = IF event.by \in failing THEN cut \cup {event} ELSE cut
  <2>1. \/ busy' = busy \cup {p}
        \/ \E failing \in IF DiskFails THEN SUBSET Runs ELSE {{}} :
             /\ Record(event, rec, failing)
             /\ cut' = IF event.by \in failing THEN cut \cup {event} ELSE cut
    BY DEF Serve
  <2> QED
    BY <2>1
<1>2. file'[r] = IF rec[r] = "open" /\ r \notin failing
                 THEN Append(file[r], event) ELSE file[r]
  BY <1>1 DEF Record
<1>3. CASE rec[r] = "open" /\ r \notin failing
  BY <1>2, <1>3
<1>4. CASE ~(rec[r] = "open" /\ r \notin failing)
  <2>1. file'[r] = file[r]
    BY <1>2, <1>4
  <2>2. rec[r] = "open" /\ r = p => event \in cut'
    BY <1>1, <1>4
  <2> QED
    BY <2>1, <2>2
<1> QED
  BY <1>3, <1>4

\* The files and the rest of the state.
LEMMA ServeLeaves ==
  ASSUME Types, NEW p \in Publishers, NEW event, NEW conns, NEW away, NEW rec,
         Served(p, event, conns, away, rec)
  PROVE  /\ busy' \subseteq Publishers /\ \A q \in Publishers \ {p} : q \in busy' <=> q \in busy
         /\ dead' \in [Publishers -> SUBSET Clients] /\ dead'[p] \in {away, {}}
         /\ \A q \in Publishers \ {p} : dead'[q] = dead[q]
         /\ blocked' \subseteq Publishers \cup Clients
         /\ full' \subseteq {c \in Clients : conn[c] = "open"}
         /\ cut \subseteq cut' /\ cut' \subseteq cut \cup {event}
         /\ p \in busy' => file' = file
         /\ file' \in [Runs -> Seq(Events)]
<1> /\ event \in Events /\ event.by = p
    /\ conns \in Seq(Clients) /\ Distinct(conns) /\ away \in SUBSET Clients
    /\ rec \in [Runs -> {"new", "open", "closed"}]
    /\ Serve(p, event, conns, away, rec)
  BY DEF Served
<1>1. PICK k \in 1 .. Len(conns) + 1 :
        \/ /\ k <= Len(conns)
           /\ dead' = [dead EXCEPT ![p] = away]
           /\ busy' = busy \cup {p}
           /\ \/ Broken(conns[k]) /\ UNCHANGED <<full, blocked>>
              \/ /\ ~Broken(conns[k])
                 /\ full' = full \cup {conns[k]}
                 /\ blocked' = blocked \cup {p}
           /\ recording' = rec
           /\ UNCHANGED <<file, subs, cut>>
        \/ /\ dead' = [dead EXCEPT ![p] = {}]
           /\ busy' = busy \ {p}
           /\ subs' = Filter(subs, Clients \ away)
           /\ \E failing \in IF DiskFails THEN SUBSET Runs ELSE {{}} :
                /\ Record(event, rec, failing)
                /\ cut' = IF event.by \in failing THEN cut \cup {event} ELSE cut
           /\ recording' = CloseAfter(event, rec)
           /\ UNCHANGED <<full, blocked>>
  BY DEF Serve
<1>2. /\ busy \subseteq Publishers /\ dead \in [Publishers -> SUBSET Clients]
      /\ blocked \subseteq Publishers \cup Clients /\ cut \subseteq Events
      /\ full \subseteq {c \in Clients : conn[c] = "open"}
      /\ file \in [Runs -> Seq(Events)]
      /\ conn \in [Clients -> {"open", "lost", "gone"}]
  BY DEF Types
<1>3. CASE /\ k <= Len(conns)
           /\ dead' = [dead EXCEPT ![p] = away]
           /\ busy' = busy \cup {p}
           /\ \/ Broken(conns[k]) /\ UNCHANGED <<full, blocked>>
              \/ /\ ~Broken(conns[k])
                 /\ full' = full \cup {conns[k]}
                 /\ blocked' = blocked \cup {p}
           /\ recording' = rec
           /\ UNCHANGED <<file, subs, cut>>
  <2>1. /\ dead' \in [Publishers -> SUBSET Clients] /\ dead'[p] \in {away, {}}
        /\ \A q \in Publishers \ {p} : dead'[q] = dead[q]
    BY <1>2, <1>3
  <2>2. conns[k] \in Clients
    BY <1>3
  <2>3. full' \subseteq {c \in Clients : conn[c] = "open"}
    BY <1>2, <1>3, <2>2 DEF Broken
  <2>4. blocked' \subseteq Publishers \cup Clients
    BY <1>2, <1>3
  <2>5. /\ busy' \subseteq Publishers /\ p \in busy'
        /\ \A q \in Publishers \ {p} : q \in busy' <=> q \in busy
    BY <1>2, <1>3
  <2> QED
    BY <1>2, <1>3, <2>1, <2>3, <2>4, <2>5
<1>4. CASE /\ dead' = [dead EXCEPT ![p] = {}]
           /\ busy' = busy \ {p}
           /\ subs' = Filter(subs, Clients \ away)
           /\ \E failing \in IF DiskFails THEN SUBSET Runs ELSE {{}} :
                /\ Record(event, rec, failing)
                /\ cut' = IF event.by \in failing THEN cut \cup {event} ELSE cut
           /\ recording' = CloseAfter(event, rec)
           /\ UNCHANGED <<full, blocked>>
  <2>1. /\ dead' \in [Publishers -> SUBSET Clients] /\ dead'[p] \in {away, {}}
        /\ \A q \in Publishers \ {p} : dead'[q] = dead[q]
    BY <1>2, <1>4
  <2>2. /\ busy' \subseteq Publishers /\ p \notin busy'
        /\ \A q \in Publishers \ {p} : q \in busy' <=> q \in busy
    BY <1>2, <1>4
  <2>3. PICK failing :
          /\ Record(event, rec, failing)
          /\ cut' = IF event.by \in failing THEN cut \cup {event} ELSE cut
    BY <1>4
  <2>4. cut \subseteq cut' /\ cut' \subseteq cut \cup {event}
    BY <2>3
  <2>5. /\ file' = [r \in Runs |-> IF rec[r] = "open" /\ r \notin failing
                                   THEN Append(file[r], event) ELSE file[r]]
    BY <2>3 DEF Record
  <2>6. ASSUME NEW r \in Runs PROVE file'[r] \in Seq(Events)
    <3>1. file[r] \in Seq(Events) /\ Append(file[r], event) \in Seq(Events)
      BY <1>2
    <3> QED
      BY <2>5, <3>1
  <2>7. file' \in [Runs -> Seq(Events)]
    BY <2>5, <2>6
  <2> QED
    BY <1>2, <1>4, <2>1, <2>2, <2>4, <2>6, <2>7
<1> QED
  BY <1>1, <1>3, <1>4

-----------------------------------------------------------------------------
(* A stretch of publish keeps the invariant. *)

\* p's n-th event goes to conns.
Stretch(p, n, conns, away, rec) ==
  /\ begun' = [begun EXCEPT ![p] = n]
  /\ Serve(p, [by |-> p, n |-> n], conns, away, rec)
  /\ UNCHANGED <<conn, ask, stage, since, smooth>>

\* What holds where one starts: nobody in conns has the event, everybody who
\* should get it is there, and the files have all that is older.
Fit(p, n, conns, away, rec) ==
  /\ n \in Nat \ {0} /\ begun[p] <= n /\ n <= Count[p]
  /\ conns \in Seq(Clients) /\ Distinct(conns)
  /\ \A c \in Elements(conns) :
       stage[c] = "subscribed" /\ \A e \in Elements(stream[c]) : e.by = p => e.n < n
  /\ \A c \in Clients : Following(c) /\ Matches(c, p) =>
       \A m \in since[c][p] + 1 .. n :
         \/ [by |-> p, n |-> m] \in cut \cup Elements(stream[c])
         \/ m = n /\ c \in Elements(conns)
  /\ away \subseteq {c \in Clients : Broken(c)}
  /\ rec \in [Runs -> {"new", "open", "closed"}]
  /\ \A r \in Runs : IF r = p THEN rec[r] = "open" ELSE rec[r] = recording[r]
  /\ \A r \in Runs : \A e \in Elements(file[r]) : e.by = p => e.n < n
  /\ p \in Runs => \A m \in 1 .. n - 1 : [by |-> p, n |-> m] \in cut \cup Elements(file[p])

LEMMA StretchTypes ==
  ASSUME Types, NEW p \in Publishers, NEW n, NEW conns, NEW away, NEW rec,
         Fit(p, n, conns, away, rec), Stretch(p, n, conns, away, rec)
  PROVE  Types'
<1>0. Served(p, [by |-> p, n |-> n], conns, away, rec)
  BY DEF Fit, Stretch, Events, Served
<1>1. /\ [by |-> p, n |-> n] \in Events /\ conns \in Seq(Clients) /\ away \in SUBSET Clients
      /\ rec \in [Runs -> {"new", "open", "closed"}] /\ Distinct(conns)
      /\ Serve(p, [by |-> p, n |-> n], conns, away, rec)
  BY DEF Fit, Stretch, Events
<1>2. /\ todo' \in [Publishers -> Seq(Clients)]
  BY <1>0, ServeEnds
<1>3. stream' \in [Clients -> Seq(Events)]
  BY <1>0, ServeWrites
<1>4. subs' = subs \/ subs' = Filter(subs, Clients \ away)
  BY <1>0, ServeUnsubscribes
<1>5. /\ busy' \subseteq Publishers /\ dead' \in [Publishers -> SUBSET Clients]
      /\ blocked' \subseteq Publishers \cup Clients
      /\ full' \subseteq {c \in Clients : conn[c] = "open"}
      /\ file' \in [Runs -> Seq(Events)]
  BY <1>0, ServeLeaves
<1>6. cut' \subseteq cut \cup {[by |-> p, n |-> n]}
  BY <1>0, ServeLeaves
<1>7. recording' = rec \/ recording' = CloseAfter([by |-> p, n |-> n], rec)
  BY <1>0, ServeCloses
<1>8. subs' \in Seq(Clients)
  <2>1. subs \in Seq(Clients)
    BY DEF Types
  <2>2. Filter(subs, Clients \ away) \in Seq(Clients)
    BY <2>1, FilterElements
  <2> QED
    BY <1>4, <2>1, <2>2
<1>9. recording' \in [Runs -> {"new", "open", "closed"}]
  <2>1. CloseAfter([by |-> p, n |-> n], rec) \in [Runs -> {"new", "open", "closed"}]
    BY <1>1 DEF CloseAfter
  <2> QED
    BY <1>1, <1>7, <2>1
<1>10. begun' \in [Publishers -> Nat]
  BY DEF Stretch, Fit, Types
<1>11. full' \subseteq {c \in Clients : conn'[c] = "open"}
  BY <1>5 DEF Stretch
<1>12. /\ conn' \in [Clients -> {"open", "lost", "gone"}]
      /\ ask' \in [Clients -> Commands]
      /\ stage' \in [Clients -> {"none", "requested", "draining", "subscribed", "failed"}]
      /\ since' \in [Clients -> [Publishers -> Nat]]
      /\ smooth' \subseteq Clients
  BY DEF Stretch, Types
<1>13. cut' \subseteq Events
  BY <1>1, <1>6 DEF Types
<1> QED
  BY <1>2, <1>3, <1>5, <1>8, <1>9, <1>10, <1>11, <1>12, <1>13 DEF Types

\* The facts that the parts below share.
LEMMA StretchFacts ==
  ASSUME Types, NEW p \in Publishers, NEW n, NEW conns, NEW away, NEW rec,
         Fit(p, n, conns, away, rec), Stretch(p, n, conns, away, rec)
  PROVE  /\ begun'[p] = n /\ \A q \in Publishers \ {p} : begun'[q] = begun[q]
         /\ \A q \in Publishers \ {p} :
              /\ todo'[q] = todo[q] /\ Waits(q)' = Waits(q) /\ dead'[q] = dead[q]
              /\ q \in busy' <=> q \in busy
         /\ Waits(p)' \subseteq Elements(conns)
         /\ \A c \in Clients :
              \/ stream'[c] = stream[c]
              \/ /\ stream'[c] = Append(stream[c], [by |-> p, n |-> n])
                 /\ c \in Elements(conns) /\ c \notin Waits(p)'
         /\ \A c \in Clients :
              Elements(stream[c]) \subseteq Elements(stream'[c])
         /\ cut \subseteq cut'
<1>0. Served(p, [by |-> p, n |-> n], conns, away, rec)
  BY DEF Fit, Stretch, Events, Served
<1>1. /\ [by |-> p, n |-> n] \in Events /\ conns \in Seq(Clients) /\ away \in SUBSET Clients
      /\ rec \in [Runs -> {"new", "open", "closed"}] /\ Distinct(conns)
      /\ Serve(p, [by |-> p, n |-> n], conns, away, rec)
  BY DEF Fit, Stretch, Events
<1>2. begun'[p] = n /\ \A q \in Publishers \ {p} : begun'[q] = begun[q]
  BY DEF Stretch, Types
<1>3. \A q \in Publishers \ {p} : todo'[q] = todo[q]
  BY <1>0, ServeEnds
<1>4. \A q \in Publishers \ {p} : Waits(q)' = Waits(q)
  BY <1>3 DEF Waits
<1>5. /\ Waits(p)' \subseteq Elements(conns)
      /\ \A c \in Clients :
           \/ stream'[c] = stream[c]
           \/ /\ stream'[c] = Append(stream[c], [by |-> p, n |-> n])
              /\ c \in Elements(conns) /\ c \notin Waits(p)'
  BY <1>0, ServeWrites
<1>6. /\ \A q \in Publishers \ {p} : q \in busy' <=> q \in busy
      /\ \A q \in Publishers \ {p} : dead'[q] = dead[q]
      /\ cut \subseteq cut'
  BY <1>0, ServeLeaves
<1>7. ASSUME NEW c \in Clients PROVE Elements(stream[c]) \subseteq Elements(stream'[c])
  <2>1. stream[c] \in Seq(Events)
    BY DEF Types
  <2>2. Elements(Append(stream[c], [by |-> p, n |-> n]))
          = Elements(stream[c]) \cup {[by |-> p, n |-> n]}
    BY <1>1, <2>1, AppendFacts
  <2> QED
    BY <1>5, <2>2
<1> QED
  BY <1>2, <1>3, <1>4, <1>5, <1>6, <1>7

LEMMA StretchServing ==
  ASSUME Types, NEW p \in Publishers, NEW n, NEW conns, NEW away, NEW rec,
         Fit(p, n, conns, away, rec), Stretch(p, n, conns, away, rec),
         NEW q \in Publishers, Serving(q)
  PROVE  Serving(q)'
<1>1. stage' = stage /\ \A c \in Clients : Broken(c) <=> Broken(c)'
  BY DEF Stretch, Broken
<1>2. CASE q # p
  <2>1. /\ begun'[q] = begun[q] /\ todo'[q] = todo[q] /\ dead'[q] = dead[q]
        /\ q \in busy' <=> q \in busy
    BY <1>2, StretchFacts
  <2>2. dead[q] \subseteq Clients
    BY DEF Types
  <2> QED
    BY <1>1, <2>1, <2>2 DEF Serving
<1>3. CASE q = p
  <2> DEFINE event == [by |-> p, n |-> n]
  <2>1. Served(p, event, conns, away, rec) /\ conns \in Seq(Clients)
    BY DEF Fit, Stretch, Events, Served
  <2>2. begun'[p] = n
    BY StretchFacts
  <2> HIDE DEF event
  <2>3. PICK k \in 1 .. Len(conns) + 1 :
          /\ Distinct(todo'[p]) /\ Elements(todo'[p]) \subseteq Elements(conns)
          /\ k <= Len(conns) => p \in busy' /\ todo'[p] # <<>>
          /\ k = Len(conns) + 1 => p \notin busy' /\ todo'[p] = <<>>
    BY <2>1, ServeEnds
  <2>4. k <= Len(conns) \/ k = Len(conns) + 1
    BY <2>1
  <2>5. dead'[p] \in {away, {}}
    BY <2>1, ServeLeaves
  <2>6. \A c \in dead'[p] : Broken(c)'
    BY <1>1, <2>5 DEF Fit
  <2>7. n > 0 /\ n <= Count[p] /\ \A c \in Elements(conns) : stage'[c] = "subscribed"
    BY <1>1 DEF Fit
  <2> QED
    BY <1>3, <2>2, <2>3, <2>4, <2>6, <2>7 DEF Serving
<1> QED
  BY <1>2, <1>3

LEMMA FilteredSubs ==
  ASSUME Types, Subscribed, NEW away \in SUBSET Clients, UNCHANGED <<stage>>,
         \A c \in Clients : Following(c)' => Following(c) /\ c \notin away,
         subs' = Filter(subs, Clients \ away)
  PROVE  Subscribed'
<1>1. subs \in Seq(Clients)
  BY DEF Types
<1>2. Elements(subs') = Elements(subs) \cap (Clients \ away)
  BY <1>1, FilterElements
<1>3. Distinct(subs')
  <2>1. Distinct(subs)
    BY DEF Subscribed
  <2>2. Distinct(Filter(subs, Clients \ away))
    BY <1>1, <2>1, FilterDistinct
  <2> QED
    BY <2>2
<1>4. \A c \in Elements(subs') : stage'[c] = "subscribed"
  BY <1>2 DEF Subscribed
<1>5. \A c \in Clients : Following(c)' => c \in Elements(subs')
  BY <1>2 DEF Subscribed
<1> QED
  BY <1>3, <1>4, <1>5 DEF Subscribed

LEMMA StretchSubscribed ==
  ASSUME Types, NEW p \in Publishers, NEW n, NEW conns, NEW away, NEW rec,
         Fit(p, n, conns, away, rec), Stretch(p, n, conns, away, rec), Subscribed
  PROVE  Subscribed'
<1>1. Served(p, [by |-> p, n |-> n], conns, away, rec)
  BY DEF Fit, Stretch, Events, Served
<1>2. subs' = subs \/ subs' = Filter(subs, Clients \ away)
  BY <1>1, ServeUnsubscribes
<1>3. /\ stage' = stage
      /\ \A c \in Clients : (Following(c)' <=> Following(c)) /\ (Following(c) => c \notin away)
  BY DEF Stretch, Following, Fit, Broken
<1>4. CASE subs' = subs
  BY <1>3, <1>4 DEF Subscribed
<1>5. CASE subs' = Filter(subs, Clients \ away)
  <2>1. away \in SUBSET Clients
    BY DEF Fit
  <2> QED
    BY <1>3, <1>5, <2>1, FilteredSubs
<1> QED
  BY <1>2, <1>4, <1>5

LEMMA StretchReceived ==
  ASSUME Types, NEW p \in Publishers, NEW n, NEW conns, NEW away, NEW rec,
         Fit(p, n, conns, away, rec), Stretch(p, n, conns, away, rec),
         NEW c \in Clients, Received(c)
  PROVE  Received(c)'
<1> DEFINE event == [by |-> p, n |-> n]
<1>1. /\ begun'[p] = n /\ \A q \in Publishers \ {p} : begun'[q] = begun[q]
      /\ \A q \in Publishers \ {p} : Waits(q)' = Waits(q)
      /\ Waits(p)' \subseteq Elements(conns)
      /\ \/ stream'[c] = stream[c]
         \/ /\ stream'[c] = Append(stream[c], event)
            /\ c \in Elements(conns) /\ c \notin Waits(p)'
  BY StretchFacts
<1>2. /\ stage' = stage /\ n \in Nat /\ begun[p] <= n
      /\ \A e \in Elements(stream[c]) : c \in Elements(conns) /\ e.by = p => e.n < n
      /\ c \in Elements(conns) => stage[c] = "subscribed"
  BY DEF Stretch, Fit
<1>3. stream[c] \in Seq(Events) /\ begun \in [Publishers -> Nat] /\ event \in Events
  BY DEF Types, Events, Fit
<1>4. ASSUME NEW e \in Elements(stream[c])
      PROVE  e.n <= begun'[e.by] /\ (c \in Waits(e.by)' => e.n < begun'[e.by])
  <2>1. e \in Events
    BY <1>3 DEF Elements
  <2>2. e.by \in Publishers /\ e.n \in Nat
    BY <2>1 DEF Events
  <2>3. e.n <= begun[e.by] /\ (c \in Waits(e.by) => e.n < begun[e.by])
    BY DEF Received, Old
  <2>4. CASE e.by = p
    <3>1. e.n <= n
      BY <1>2, <1>3, <2>2, <2>3, <2>4
    <3>2. c \in Waits(p)' => e.n < n
      BY <1>1, <1>2, <2>4
    <3> QED
      BY <1>1, <2>4, <3>1, <3>2
  <2>5. CASE e.by # p
    <3>1. begun'[e.by] = begun[e.by] /\ Waits(e.by)' = Waits(e.by)
      BY <1>1, <2>2, <2>5
    <3> QED
      BY <2>3, <3>1
  <2> QED
    BY <2>4, <2>5
<1>5. CASE stream'[c] = stream[c]
  <2>1. \A e \in Elements(stream'[c]) :
          Old(e)' /\ (c \in Waits(e.by)' => e.n < begun'[e.by])
    BY <1>4, <1>5 DEF Old
  <2>2. InOrder(stream'[c]) /\ (stage'[c] \in {"none", "requested"} => stream'[c] = <<>>)
    BY <1>2, <1>5 DEF Received
  <2> QED
    BY <2>1, <2>2 DEF Received
<1>6. CASE /\ stream'[c] = Append(stream[c], event)
           /\ c \in Elements(conns) /\ c \notin Waits(p)'
  <2>1. Elements(stream'[c]) = Elements(stream[c]) \cup {event}
    BY <1>3, <1>6, AppendFacts
  <2>2. Old(event)' /\ (c \in Waits(event.by)' => event.n < begun'[event.by])
    <3>1. event.by = p /\ event.n = n /\ n <= n
      BY <1>2
    <3>2. Old(event)'
      BY <1>1, <3>1 DEF Old
    <3>3. c \notin Waits(event.by)'
      BY <1>6, <3>1
    <3> QED
      BY <3>2, <3>3
  <2>3. \A e \in Elements(stream'[c]) :
          Old(e)' /\ (c \in Waits(e.by)' => e.n < begun'[e.by])
    <3> SUFFICES ASSUME NEW e \in Elements(stream'[c])
                 PROVE  Old(e)' /\ (c \in Waits(e.by)' => e.n < begun'[e.by])
      OBVIOUS
    <3> HIDE DEF event
    <3>1. CASE e = event
      BY <2>2, <3>1
    <3>2. CASE e \in Elements(stream[c])
      BY <1>4, <3>2 DEF Old
    <3> QED
      BY <2>1, <3>1, <3>2
  <2>4. InOrder(stream'[c])
    <3>1. InOrder(stream[c])
      BY DEF Received
    <3>2. \A x \in Elements(stream[c]) : x.by = event.by => x.n < event.n
      BY <1>2, <1>6
    <3>3. InOrder(Append(stream[c], event))
      BY <1>3, <3>1, <3>2, AppendInOrder
    <3> QED
      BY <1>6, <3>3
  <2>5. stage'[c] \notin {"none", "requested"}
    BY <1>2, <1>6
  <2> QED
    BY <2>3, <2>4, <2>5 DEF Received
<1> QED
  BY <1>1, <1>5, <1>6

LEMMA StretchReached ==
  ASSUME Types, NEW p \in Publishers, NEW n, NEW conns, NEW away, NEW rec,
         Fit(p, n, conns, away, rec), Stretch(p, n, conns, away, rec),
         NEW c \in Clients, NEW q \in Publishers, Reached(c, q)
  PROVE  Reached(c, q)'
<1>1. /\ begun'[p] = n /\ \A u \in Publishers \ {p} : begun'[u] = begun[u]
      /\ \A u \in Publishers \ {p} : Waits(u)' = Waits(u)
      /\ Elements(stream[c]) \subseteq Elements(stream'[c])
      /\ cut \subseteq cut'
  BY StretchFacts
<1>2. /\ since' = since /\ (Following(c)' <=> Following(c)) /\ (Matches(c, q)' <=> Matches(c, q))
      /\ Following(c) => ~Broken(c)
  BY DEF Stretch, Following, Matches, Broken
<1>3. SUFFICES ASSUME Following(c), Matches(c, q), NEW m \in since[c][q] + 1 .. begun'[q]
               PROVE  \/ [by |-> q, n |-> m] \in cut' \cup Elements(stream'[c])
                      \/ m = begun'[q] /\ c \in Waits(q)'
  BY <1>2 DEF Reached
<1>4. CASE q # p
  <2>1. begun'[q] = begun[q] /\ Waits(q)' = Waits(q)
    BY <1>1, <1>4
  <2> QED
    BY <1>1, <1>3, <2>1 DEF Reached
<1>5. CASE q = p
  <2>1. \/ [by |-> p, n |-> m] \in cut \cup Elements(stream[c])
        \/ m = n /\ c \in Elements(conns)
    BY <1>1, <1>3, <1>5 DEF Fit
  <2>2. CASE m = n /\ c \in Elements(conns)
    <3>0. Served(p, [by |-> p, n |-> n], conns, away, rec)
      BY DEF Fit, Stretch, Events, Served
    <3>1. [by |-> p, n |-> n] \in Events
      BY <3>0 DEF Served
    <3>2. c \in Waits(p)' \/ stream'[c] = Append(stream[c], [by |-> p, n |-> n])
      BY <1>2, <1>3, <2>2, <3>0, ServeWrites
    <3>3. stream[c] \in Seq(Events)
      BY DEF Types
    <3>4. [by |-> p, n |-> n] \in Elements(Append(stream[c], [by |-> p, n |-> n]))
      BY <3>1, <3>3, AppendFacts
    <3> QED
      BY <1>1, <1>5, <2>2, <3>2, <3>4
  <2>3. CASE [by |-> p, n |-> m] \in cut \cup Elements(stream[c])
    BY <1>1, <1>5, <2>3
  <2> QED
    BY <2>1, <2>2, <2>3
<1> QED
  BY <1>4, <1>5

LEMMA StretchCaughtUp ==
  ASSUME Types, NEW p \in Publishers, NEW n, NEW conns, NEW away, NEW rec,
         Fit(p, n, conns, away, rec), Stretch(p, n, conns, away, rec),
         NEW c \in Clients, CaughtUp(c)
  PROVE  CaughtUp(c)'
<1>1. Elements(stream[c]) \subseteq Elements(stream'[c]) /\ cut \subseteq cut'
  BY StretchFacts
<1>2. /\ since' = since /\ smooth' = smooth /\ stage' = stage /\ ask' = ask
      /\ Following(c)' <=> Following(c)
      /\ \A r : Matches(c, r)' <=> Matches(c, r)
  BY DEF Stretch, Following, Matches
<1> QED
  BY <1>1, <1>2 DEF CaughtUp

LEMMA StretchKept ==
  ASSUME Types, NEW p \in Publishers, NEW n, NEW conns, NEW away, NEW rec,
         Fit(p, n, conns, away, rec), Stretch(p, n, conns, away, rec),
         NEW r \in Runs, Kept(r)
  PROVE  Kept(r)'
<1> DEFINE event == [by |-> p, n |-> n]
<1>0. Served(p, event, conns, away, rec)
  BY DEF Fit, Stretch, Events, Served
<1>1. /\ event \in Events /\ conns \in Seq(Clients) /\ away \in SUBSET Clients
      /\ rec \in [Runs -> {"new", "open", "closed"}] /\ Distinct(conns)
      /\ Serve(p, event, conns, away, rec)
  BY DEF Fit, Stretch, Events
<1>2. event = [by |-> p, n |-> n] /\ event.by = p /\ event.n = n
  OBVIOUS
<1> HIDE DEF event
<1>3. /\ begun'[p] = n /\ \A q \in Publishers \ {p} : begun'[q] = begun[q]
      /\ \A q \in Publishers \ {p} : q \in busy' <=> q \in busy
      /\ cut \subseteq cut'
  BY StretchFacts
<1>4. /\ r \in Publishers /\ file[r] \in Seq(Events) /\ begun \in [Publishers -> Nat]
      /\ n \in Nat \ {0} /\ begun[p] <= n
  BY EventStreamAssumption DEF Types, Fit
<1>5. \/ /\ file'[r] = file[r]
         /\ p \notin busy' /\ rec[r] = "open" /\ r = p => event \in cut'
      \/ file'[r] = Append(file[r], event) /\ p \notin busy'
  <2>1. CASE p \in busy'
    BY <1>0, <2>1, ServeLeaves
  <2>2. CASE p \notin busy'
    <3>1. \/ file'[r] = file[r] /\ (rec[r] = "open" /\ r = p => event \in cut')
          \/ file'[r] = Append(file[r], event)
      BY <1>0, <2>2, ServeRecords
    <3> QED
      BY <2>2, <3>1
  <2> QED
    BY <2>1, <2>2
<1>6. Elements(file'[r]) \subseteq Elements(file[r]) \cup {event}
      /\ Elements(file[r]) \subseteq Elements(file'[r])
  <2>1. Elements(Append(file[r], event)) = Elements(file[r]) \cup {event}
    BY <1>1, <1>4, AppendFacts
  <2> QED
    BY <1>5, <2>1
<1>7. recording'[r] = "new" <=> begun'[r] = 0
  <2>1. CASE r # p
    <3>1. recording'[r] = rec[r]
      BY <1>0, <2>1, <1>2, ServeCloses DEF CloseAfter
    <3>2. rec[r] = recording[r] /\ begun'[r] = begun[r]
      BY <1>3, <1>4, <2>1 DEF Fit
    <3> QED
      BY <3>1, <3>2 DEF Kept
  <2>2. CASE r = p
    <3>1. rec[r] = "open" /\ recording'[r] \in {rec[r], "closed"}
      BY <1>0, <2>2, <1>2, ServeCloses DEF CloseAfter, Fit
    <3> QED
      BY <1>3, <1>4, <2>2, <3>1
  <2> QED
    BY <2>1, <2>2
<1>8. recording'[r] = "closed" => begun'[r] = Count[r] /\ r \notin busy'
  <2>1. CASE r # p
    <3>1. recording'[r] = rec[r]
      BY <1>0, <2>1, <1>2, ServeCloses DEF CloseAfter
    <3>2. rec[r] = recording[r] /\ begun'[r] = begun[r] /\ (r \in busy' <=> r \in busy)
      BY <1>3, <1>4, <2>1 DEF Fit
    <3> QED
      BY <3>1, <3>2 DEF Kept
  <2>2. CASE r = p
    <3>1. rec[r] = "open"
      BY <2>2 DEF Fit
    <3>2. CASE p \in busy'
      <4>1. recording'[r] = "open"
        BY <1>0, <3>1, <3>2, ServeCloses
      <4> QED
        BY <4>1
    <3>3. CASE p \notin busy'
      <4>1. recording'[r] = IF n = Count[r] THEN "closed" ELSE "open"
        BY <1>0, <2>2, <3>1, <3>3, <1>2, ServeCloses DEF CloseAfter
      <4> QED
        BY <1>3, <2>2, <3>3, <4>1
    <3> QED
      BY <3>2, <3>3
  <2> QED
    BY <2>1, <2>2
<1>9. InOrder(file'[r])
  <2>1. InOrder(file[r])
    BY DEF Kept
  <2>2. \A x \in Elements(file[r]) : x.by = event.by => x.n < event.n
    BY <1>2 DEF Fit
  <2>3. InOrder(Append(file[r], event))
    BY <1>1, <1>4, <2>1, <2>2, AppendInOrder
  <2> QED
    BY <1>5, <2>1, <2>3
<1>10. ASSUME NEW e \in Elements(file'[r])
      PROVE  Old(e)' /\ (e.by \in busy' => e.n < begun'[e.by])
  <2>1. CASE e \in Elements(file[r])
    <3>1. e \in Events
      BY <1>4, <2>1 DEF Elements
    <3>2. e.by \in Publishers /\ e.n \in Nat
      BY <3>1 DEF Events
    <3>3. e.n <= begun[e.by] /\ (e.by \in busy => e.n < begun[e.by])
      BY <2>1 DEF Kept, Old
    <3>4. CASE e.by = p
      <4>1. e.n < n
        BY <2>1, <3>4 DEF Fit
      <4>2. e.n <= n
        BY <1>4, <3>2, <4>1
      <4> QED
        BY <1>3, <3>4, <4>1, <4>2 DEF Old
    <3>5. CASE e.by # p
      <4>1. begun'[e.by] = begun[e.by] /\ (e.by \in busy' <=> e.by \in busy)
        BY <1>3, <3>2, <3>5
      <4> QED
        BY <3>3, <4>1 DEF Old
    <3> QED
      BY <3>4, <3>5
  <2>2. CASE e \notin Elements(file[r])
    <3>1. e = event
      BY <1>6, <2>2
    <3>2. p \notin busy'
      BY <1>5, <2>2
    <3>3. e.by = p /\ e.n = n /\ n <= n
      BY <1>2, <1>4, <3>1
    <3> QED
      BY <1>3, <3>2, <3>3 DEF Old
  <2> QED
    BY <2>1, <2>2
<1>11. ASSUME NEW m \in 1 .. begun'[r], Over(r, m)'
       PROVE  [by |-> r, n |-> m] \in cut' \cup Elements(file'[r])
  <2>1. CASE r # p
    <3>1. begun'[r] = begun[r] /\ (r \in busy' <=> r \in busy)
      BY <1>3, <1>4, <2>1
    <3>2. m \in 1 .. begun[r] /\ Over(r, m)
      BY <1>11, <3>1 DEF Over
    <3>3. [by |-> r, n |-> m] \in cut \cup Elements(file[r])
      BY <3>2 DEF Kept
    <3> QED
      BY <1>3, <1>6, <3>3
  <2>2. CASE r = p /\ m < n
    <3>1. m \in 1 .. n - 1
      BY <1>3, <1>4, <2>2
    <3>2. [by |-> r, n |-> m] \in cut \cup Elements(file[r])
      BY <2>2, <3>1 DEF Fit
    <3> QED
      BY <1>3, <1>6, <3>2
  <2>3. CASE r = p /\ ~(m < n)
    <3>1. m = n /\ p \notin busy'
      BY <1>3, <1>4, <1>11, <2>3 DEF Over
    <3>2. rec[r] = "open" /\ r = p
      BY <1>2, <2>3 DEF Fit
    <3>3. event \in cut' \/ file'[r] = Append(file[r], event)
      BY <1>5, <3>1, <3>2
    <3>4. event \in Elements(Append(file[r], event))
      BY <1>1, <1>4, AppendFacts
    <3> QED
      BY <1>2, <2>3, <3>1, <3>3, <3>4
  <2> QED
    BY <2>1, <2>2, <2>3
<1>12. \A e \in Elements(file'[r]) : Old(e)' /\ (e.by \in busy' => e.n < begun'[e.by])
  BY <1>10
<1>13. \A m \in 1 .. begun'[r] :
         Over(r, m)' => [by |-> r, n |-> m] \in cut' \cup Elements(file'[r])
  BY <1>11
<1> QED
  BY <1>7, <1>8, <1>9, <1>12, <1>13 DEF Kept

LEMMA StretchKeeps ==
  ASSUME IInv, NEW p \in Publishers, NEW n, NEW conns, NEW away, NEW rec,
         Fit(p, n, conns, away, rec), Stretch(p, n, conns, away, rec)
  PROVE  IInv'
<1>1. Types
  BY DEF IInv
<1>2. Types'
  BY <1>1, StretchTypes
<1>3. ASSUME NEW q \in Publishers PROVE Serving(q)'
  BY <1>1, StretchServing DEF IInv
<1>4. Subscribed'
  BY <1>1, StretchSubscribed DEF IInv
<1>5. ASSUME NEW c \in Clients PROVE Received(c)'
  BY <1>1, StretchReceived DEF IInv
<1>6. ASSUME NEW r \in Runs PROVE Kept(r)'
  BY <1>1, StretchKept DEF IInv
<1>7. ASSUME NEW c \in Clients, NEW q \in Publishers PROVE Reached(c, q)'
  BY <1>1, StretchReached DEF IInv
<1>8. ASSUME NEW c \in Clients PROVE CaughtUp(c)'
  BY <1>1, StretchCaughtUp DEF IInv
<1> QED
  BY <1>2, <1>3, <1>4, <1>5, <1>6, <1>7, <1>8 DEF IInv

LEMMA PublishKeeps ==
  ASSUME IInv, NEW p \in Publishers, Publish(p)
  PROVE  IInv'
<1> DEFINE n == begun[p] + 1
           conns == Filter(subs, {c \in Clients : Matches(c, p)})
<1>1. /\ begun \in [Publishers -> Nat] /\ begun[p] \in Nat /\ Count[p] \in Nat
      /\ begun[p] < Count[p] /\ p \notin busy
      /\ subs \in Seq(Clients) /\ recording \in [Runs -> {"new", "open", "closed"}]
      /\ since \in [Clients -> [Publishers -> Nat]]
  BY EventStreamAssumption DEF IInv, Types, Publish
<1>2. n \in Nat \ {0} /\ begun[p] <= n /\ n <= Count[p] /\ begun[p] < n
  BY <1>1
<1>3. /\ conns \in Seq(Clients)
      /\ Elements(conns) = Elements(subs) \cap {c \in Clients : Matches(c, p)}
  BY <1>1, FilterElements
<1>4. Distinct(conns)
  BY <1>1, FilterDistinct DEF IInv, Subscribed
<1>5. ASSUME NEW c \in Elements(conns)
      PROVE  stage[c] = "subscribed" /\ \A e \in Elements(stream[c]) : e.by = p => e.n < n
  <2>1. c \in Elements(subs) /\ c \in Clients
    BY <1>3
  <2>2. stage[c] = "subscribed"
    BY <2>1 DEF IInv, Subscribed
  <2>3. ASSUME NEW e \in Elements(stream[c]), e.by = p PROVE e.n < n
    <3>1. e.n <= begun[p]
      BY <2>1, <2>3 DEF IInv, Received, Old
    <3>2. e.n \in Nat
      <4>1. stream[c] \in Seq(Events)
        BY <2>1 DEF IInv, Types
      <4> QED
        BY <4>1, EventFields
    <3> QED
      BY <1>1, <3>1, <3>2
  <2> QED
    BY <2>2, <2>3
<1>6. ASSUME NEW c \in Clients, Following(c), Matches(c, p), NEW m \in since[c][p] + 1 .. n
      PROVE  \/ [by |-> p, n |-> m] \in cut \cup Elements(stream[c])
             \/ m = n /\ c \in Elements(conns)
  <2>1. m = n \/ m \in since[c][p] + 1 .. begun[p]
    BY <1>1
  <2>2. CASE m = n
    <3>1. c \in Elements(subs)
      BY <1>6 DEF IInv, Subscribed
    <3> QED
      BY <1>3, <1>6, <2>2, <3>1
  <2>3. CASE m \in since[c][p] + 1 .. begun[p]
    <3>1. todo[p] = <<>>
      BY <1>1 DEF IInv, Serving
    <3>2. c \notin Waits(p)
      BY <3>1 DEF Waits
    <3> QED
      BY <1>6, <2>3, <3>2 DEF IInv, Reached
  <2> QED
    BY <2>1, <2>2, <2>3
<1>7. Opened(p) \in [Runs -> {"new", "open", "closed"}]
  BY <1>1 DEF Opened
<1>8. ASSUME NEW r \in Runs
      PROVE  IF r = p THEN Opened(p)[r] = "open" ELSE Opened(p)[r] = recording[r]
  <2>1. CASE r = p
    <3>1. recording[p] # "closed"
      BY <1>1, <2>1 DEF IInv, Kept
    <3> QED
      BY <1>1, <2>1, <3>1 DEF Opened
  <2>2. CASE r # p
    BY <1>1, <2>2 DEF Opened
  <2> QED
    BY <2>1, <2>2
<1>9. ASSUME NEW r \in Runs, NEW e \in Elements(file[r]), e.by = p PROVE e.n < n
  <2>1. e.n <= begun[p]
    BY <1>9 DEF IInv, Kept, Old
  <2>2. e.n \in Nat
    <3>1. file[r] \in Seq(Events)
      BY DEF IInv, Types
    <3> QED
      BY <3>1, EventFields
  <2> QED
    BY <1>1, <2>1, <2>2
<1>10. ASSUME p \in Runs, NEW m \in 1 .. n - 1
       PROVE  [by |-> p, n |-> m] \in cut \cup Elements(file[p])
  <2>1. m \in 1 .. begun[p] /\ Over(p, m)
    BY <1>1 DEF Over
  <2> QED
    BY <1>10, <2>1 DEF IInv, Kept
<1>11. Stretch(p, n, conns, {}, Opened(p))
  BY DEF Stretch, Publish
<1> HIDE DEF n, conns
<1>12. Fit(p, n, conns, {}, Opened(p))
  BY <1>2, <1>3, <1>4, <1>5, <1>6, <1>7, <1>8, <1>9, <1>10 DEF Fit
<1> QED
  BY <1>11, <1>12, StretchKeeps

LEMMA ContinueKeeps ==
  ASSUME IInv, NEW p \in Publishers, Continue(p)
  PROVE  IInv'
<1> DEFINE n == begun[p]
           conns == Tail(todo[p])
<1>1. PICK away \in IF Broken(Head(todo[p]))
                    THEN {dead[p], dead[p] \cup {Head(todo[p])}} ELSE {dead[p]} :
        Serve(p, Current(p), Remaining(p), away, recording)
  BY DEF Continue
<1>2. /\ begun \in [Publishers -> Nat] /\ begun[p] \in Nat /\ Count[p] \in Nat
      /\ p \in busy /\ begun[p] > 0 /\ begun[p] <= Count[p]
      /\ todo[p] \in Seq(Clients) /\ todo[p] # <<>> /\ Distinct(todo[p])
      /\ recording \in [Runs -> {"new", "open", "closed"}]
      /\ dead[p] \subseteq Clients /\ \A c \in dead[p] : Broken(c)
  BY EventStreamAssumption DEF IInv, Types, Serving, Continue
<1>3. /\ conns \in Seq(Clients) /\ Head(todo[p]) \in Elements(todo[p])
      /\ Elements(conns) = Waits(p) /\ Distinct(conns)
      /\ Elements(conns) \subseteq Elements(todo[p])
  BY <1>2, TailFacts DEF Waits
<1>4. Elements(todo[p]) \subseteq Clients
  BY <1>2 DEF Elements
<1>5. away \subseteq {c \in Clients : Broken(c)}
  BY <1>1, <1>2, <1>3, <1>4
<1>6. ASSUME NEW c \in Elements(conns)
      PROVE  stage[c] = "subscribed" /\ \A e \in Elements(stream[c]) : e.by = p => e.n < n
  <2>1. c \in Elements(todo[p]) /\ c \in Clients /\ c \in Waits(p)
    BY <1>3, <1>4
  <2>2. stage[c] = "subscribed"
    BY <2>1 DEF IInv, Serving
  <2> QED
    BY <2>1, <2>2 DEF IInv, Received
<1>7. ASSUME NEW c \in Clients, Following(c), Matches(c, p), NEW m \in since[c][p] + 1 .. n
      PROVE  \/ [by |-> p, n |-> m] \in cut \cup Elements(stream[c])
             \/ m = n /\ c \in Elements(conns)
  BY <1>3, <1>7 DEF IInv, Reached
<1>8. ASSUME NEW r \in Runs
      PROVE  IF r = p THEN recording[r] = "open" ELSE recording[r] = recording[r]
  BY <1>2 DEF IInv, Kept
<1>9. \A r \in Runs : \A e \in Elements(file[r]) : e.by = p => e.n < n
  BY <1>2 DEF IInv, Kept
<1>10. ASSUME p \in Runs, NEW m \in 1 .. n - 1
       PROVE  [by |-> p, n |-> m] \in cut \cup Elements(file[p])
  <2>1. m \in 1 .. begun[p] /\ Over(p, m)
    BY <1>2 DEF Over
  <2> QED
    BY <1>10, <2>1 DEF IInv, Kept
<1>11. Stretch(p, n, conns, away, recording)
  <2>1. begun' = [begun EXCEPT ![p] = n]
    BY <1>2 DEF Continue
  <2> QED
    BY <1>1, <2>1 DEF Stretch, Continue, Current, Remaining
<1>12. n \in Nat \ {0} /\ begun[p] <= n /\ n <= Count[p]
  BY <1>2
<1> HIDE DEF n, conns
<1>13. Fit(p, n, conns, away, recording)
  BY <1>2, <1>3, <1>5, <1>6, <1>7, <1>8, <1>9, <1>10, <1>12 DEF Fit
<1> QED
  BY <1>11, <1>13, StretchKeeps

-----------------------------------------------------------------------------
(* The other steps. *)

LEMMA CancelKeeps ==
  ASSUME IInv, NEW p \in Publishers, CancelPublish(p)
  PROVE  IInv'
<1>1. /\ Types /\ p \in busy
      /\ \A q \in Publishers : Serving(q)
      /\ begun \in [Publishers -> Nat]
  BY DEF IInv, CancelPublish, Types
<1>2. /\ todo' = [todo EXCEPT ![p] = <<>>]
      /\ dead' = [dead EXCEPT ![p] = {}]
      /\ busy' = busy \ {p}
      /\ blocked' = blocked \ {p}
      /\ recording' = CloseAfter(Current(p), recording)
      /\ cut' = cut \cup {Current(p)}
      /\ UNCHANGED <<begun, file, subs, conn, full, ask, stage, stream, since, smooth>>
  BY DEF CancelPublish
<1>3. Current(p) = [by |-> p, n |-> begun[p]] /\ Current(p) \in Events
  BY <1>1 DEF Current, Events, Serving
<1>4. /\ todo'[p] = <<>> /\ dead'[p] = {}
      /\ \A q \in Publishers \ {p} : todo'[q] = todo[q] /\ dead'[q] = dead[q]
  BY <1>1, <1>2 DEF Types
<1>5. Waits(p)' = {} /\ \A q \in Publishers \ {p} : Waits(q)' = Waits(q)
  BY <1>4 DEF Waits
<1>6. Types'
  <2>1. todo' \in [Publishers -> Seq(Clients)]
    BY <1>1, <1>2 DEF Types
  <2>2. dead' \in [Publishers -> SUBSET Clients]
    BY <1>1, <1>2 DEF Types
  <2>3. recording' \in [Runs -> {"new", "open", "closed"}]
    BY <1>1, <1>2 DEF Types, CloseAfter
  <2>4. /\ busy' \subseteq Publishers /\ blocked' \subseteq Publishers \cup Clients
        /\ cut' \subseteq Events
    BY <1>1, <1>2, <1>3 DEF Types
  <2> QED
    BY <1>1, <1>2, <2>1, <2>2, <2>3, <2>4 DEF Types
<1>7. ASSUME NEW q \in Publishers PROVE Serving(q)'
  <2>1. \A c \in Clients : Broken(c) => Broken(c)'
    BY <1>2 DEF Broken
  <2>2. CASE q = p
    <3>1. Distinct(todo'[p]) /\ Elements(todo'[p]) = {}
      BY <1>4 DEF Distinct, Elements
    <3> QED
      BY <1>1, <1>2, <1>4, <2>2, <3>1 DEF Serving
  <2>3. CASE q # p
    <3>1. todo'[q] = todo[q] /\ dead'[q] = dead[q] /\ (q \in busy' <=> q \in busy)
      BY <1>2, <1>4, <2>3
    <3>2. dead[q] \subseteq Clients
      BY <1>1 DEF Types
    <3> QED
      BY <1>1, <1>2, <2>1, <3>1, <3>2 DEF Serving
  <2> QED
    BY <2>2, <2>3
<1>8. Subscribed'
  BY <1>2 DEF IInv, Subscribed, Following
<1>9. ASSUME NEW c \in Clients PROVE Received(c)'
  <2>1. Received(c)
    BY DEF IInv
  <2>2. ASSUME NEW e \in Elements(stream[c])
        PROVE  Old(e)' /\ (c \in Waits(e.by)' => e.n < begun'[e.by])
    <3>1. stream[c] \in Seq(Events)
      BY <1>1 DEF Types
    <3>2. e.by \in Publishers
      BY <3>1, EventFields
    <3>3. Waits(e.by)' \subseteq Waits(e.by)
      BY <1>5, <3>2
    <3> QED
      BY <1>2, <2>1, <3>3 DEF Received, Old
  <2> QED
    BY <1>2, <2>1, <2>2 DEF Received
<1>10. ASSUME NEW r \in Runs PROVE Kept(r)'
  <2>1. Kept(r) /\ r \in Publishers
    BY EventStreamAssumption DEF IInv
  <2>2. recording'[r] = IF r = p /\ begun[p] = Count[r] THEN "closed" ELSE recording[r]
    BY <1>2, <1>3 DEF CloseAfter
  <2>3. recording'[r] = "new" <=> begun'[r] = 0
    BY <1>1, <1>2, <2>1, <2>2 DEF Kept, Serving
  <2>4. recording'[r] = "closed" => begun'[r] = Count[r] /\ r \notin busy'
    BY <1>2, <2>1, <2>2 DEF Kept
  <2>5. \A e \in Elements(file'[r]) : Old(e)' /\ (e.by \in busy' => e.n < begun'[e.by])
    BY <1>2, <2>1 DEF Kept, Old
  <2>6. ASSUME NEW m \in 1 .. begun'[r], Over(r, m)'
        PROVE  [by |-> r, n |-> m] \in cut' \cup Elements(file'[r])
    <3>1. CASE Over(r, m)
      BY <1>2, <2>1, <3>1 DEF Kept
    <3>2. CASE ~Over(r, m)
      <4>1. r = p /\ m = begun[p]
        BY <1>2, <2>6, <3>2 DEF Over
      <4> QED
        BY <1>2, <1>3, <4>1
    <3> QED
      BY <3>1, <3>2
  <2>7. InOrder(file'[r])
    BY <1>2, <2>1 DEF Kept
  <2> QED
    BY <2>3, <2>4, <2>5, <2>6, <2>7 DEF Kept
<1>11. ASSUME NEW c \in Clients, NEW q \in Publishers PROVE Reached(c, q)'
  <2>1. Reached(c, q) /\ (Following(c)' <=> Following(c)) /\ (Matches(c, q)' <=> Matches(c, q))
    BY <1>2 DEF IInv, Following, Matches
  <2>2. CASE q # p
    <3>1. Waits(q)' = Waits(q)
      BY <1>5, <2>2
    <3> QED
      BY <1>2, <2>1, <3>1 DEF Reached
  <2>3. CASE q = p
    BY <1>2, <1>3, <2>1, <2>3 DEF Reached
  <2> QED
    BY <2>2, <2>3
<1>12. ASSUME NEW c \in Clients PROVE CaughtUp(c)'
  <2>1. CaughtUp(c) /\ (Following(c)' <=> Following(c)) /\ \A r : Matches(c, r)' <=> Matches(c, r)
    BY <1>2 DEF IInv, Following, Matches
  <2> QED
    BY <1>2, <2>1 DEF CaughtUp
<1> QED
  BY <1>6, <1>7, <1>8, <1>9, <1>10, <1>11, <1>12 DEF IInv

\* A step that leaves the publishers and the handlers alone.
LEMMA CalmKeeps ==
  ASSUME IInv, Types', Subscribed',
         UNCHANGED <<begun, todo, dead, busy, recording, file, ask, stage, stream,
                     since, smooth, cut>>,
         \A c \in Clients : Broken(c) => Broken(c)'
  PROVE  IInv'
<1>1. \A c \in Clients : Following(c)' => Following(c)
  BY DEF Following, Broken
<1>2. \A p \in Publishers : Waits(p)' = Waits(p)
  BY DEF Waits
<1>3. ASSUME NEW p \in Publishers PROVE Serving(p)'
  <2>1. dead[p] \subseteq Clients
    BY DEF IInv, Types
  <2> QED
    BY <2>1 DEF IInv, Serving
<1>4. ASSUME NEW c \in Clients PROVE Received(c)'
  <2>1. stream[c] \in Seq(Events)
    BY DEF IInv, Types
  <2>2. ASSUME NEW e \in Elements(stream[c])
        PROVE  Old(e)' /\ (c \in Waits(e.by)' => e.n < begun'[e.by])
    <3>1. e.by \in Publishers
      BY <2>1, EventFields
    <3> QED
      BY <1>2, <3>1 DEF IInv, Received, Old
  <2> QED
    BY <2>2 DEF IInv, Received
<1>5. ASSUME NEW r \in Runs PROVE Kept(r)'
  BY DEF IInv, Kept, Old, Over
<1>6. ASSUME NEW c \in Clients, NEW p \in Publishers PROVE Reached(c, p)'
  BY <1>1, <1>2 DEF IInv, Reached, Matches
<1>7. ASSUME NEW c \in Clients PROVE CaughtUp(c)'
  BY <1>1 DEF IInv, CaughtUp, Matches
<1> QED
  BY <1>3, <1>4, <1>5, <1>6, <1>7 DEF IInv

LEMMA ReadsKeeps ==
  ASSUME IInv, NEW c \in Clients, Reads(c) \/ Lose(c)
  PROVE  IInv'
<1>1. Released(c) \subseteq blocked
  BY DEF Released
<1>2. Types'
  BY <1>1 DEF IInv, Types, Reads, Lose
<1>3. /\ UNCHANGED <<begun, todo, dead, busy, recording, file, subs, ask, stage, stream,
                     since, smooth, cut>>
      /\ \A d \in Clients : Broken(d) => Broken(d)'
  BY DEF Reads, Lose, Broken, IInv, Types
<1>4. Subscribed'
  BY <1>3 DEF IInv, Subscribed, Following, Broken
<1> QED
  BY <1>2, <1>3, <1>4, CalmKeeps

LEMMA ReadLoopEndsKeeps ==
  ASSUME IInv, NEW c \in Clients, ReadLoopEnds(c)
  PROVE  IInv'
<1>1. Types /\ subs \in Seq(Clients)
  BY DEF IInv, Types
<1>2. /\ UNCHANGED <<begun, todo, dead, busy, recording, file, ask, stage, stream,
                     since, smooth, cut>>
      /\ \A d \in Clients : Broken(d) <=> Broken(d)'
      /\ Broken(c)
  BY DEF ReadLoopEnds, Broken, IInv, Types
<1>3. subs' = Filter(subs, Clients \ {c})
  BY DEF ReadLoopEnds
<1>4. Filter(subs, Clients \ {c}) \in Seq(Clients)
  BY <1>1, FilterElements
<1>5. Types'
  <2>1. /\ conn' \in [Clients -> {"open", "lost", "gone"}]
        /\ full' \subseteq {d \in Clients : conn'[d] = "open"}
    BY <1>1 DEF Types, ReadLoopEnds
  <2> QED
    BY <1>1, <1>2, <1>3, <1>4, <2>1 DEF Types, ReadLoopEnds
<1>6. \A d \in Clients : Following(d)' => Following(d) /\ d \notin {c}
  BY <1>2 DEF Following, Broken
<1>7. Subscribed'
  BY <1>1, <1>2, <1>3, <1>6, FilteredSubs DEF IInv
<1> QED
  BY <1>2, <1>5, <1>7, CalmKeeps

\* A connection whose handler has not yet subscribed it: publish does not know
\* it, and what concerns the others stays.
LEMMA HandlerKeeps ==
  ASSUME IInv, Types', Subscribed', NEW c \in Clients, stage[c] # "subscribed",
         Received(c)', CaughtUp(c)',
         UNCHANGED <<begun, todo, dead, busy, recording, file, conn, cut>>,
         Following(c)' => since'[c] = begun,
         \A d \in Clients \ {c} :
           /\ ask'[d] = ask[d] /\ stage'[d] = stage[d] /\ stream'[d] = stream[d]
           /\ since'[d] = since[d] /\ (d \in smooth' => d \in smooth)
  PROVE  IInv'
<1>1. \A p \in Publishers : Waits(p)' = Waits(p)
  BY DEF Waits
<1>2. \A d \in Clients \ {c} :
        /\ Following(d)' <=> Following(d)
        /\ \A p : Matches(d, p)' <=> Matches(d, p)
  BY DEF Following, Matches
<1>3. ASSUME NEW p \in Publishers PROVE Serving(p)'
  <2>1. Serving(p) /\ dead[p] \subseteq Clients /\ todo[p] \in Seq(Clients)
    BY DEF IInv, Types
  <2>2. ASSUME NEW d \in Elements(todo'[p]) PROVE stage'[d] = "subscribed"
    <3>1. d \in Clients /\ stage[d] = "subscribed"
      BY <2>1 DEF Elements, Serving
    <3> QED
      BY <3>1
  <2>3. \A d \in dead'[p] : Broken(d)'
    BY <2>1 DEF Serving, Broken
  <2> QED
    BY <2>1, <2>2, <2>3 DEF Serving
<1>4. ASSUME NEW d \in Clients PROVE Received(d)'
  <2>1. CASE d = c
    BY <2>1
  <2>2. CASE d # c
    <3>1. stream[d] \in Seq(Events) /\ stream'[d] = stream[d] /\ stage'[d] = stage[d]
      BY <2>2 DEF IInv, Types
    <3>2. ASSUME NEW e \in Elements(stream[d])
          PROVE  Old(e)' /\ (d \in Waits(e.by)' => e.n < begun'[e.by])
      <4>1. e.by \in Publishers
        BY <3>1, EventFields
      <4> QED
        BY <1>1, <4>1 DEF IInv, Received, Old
    <3>3. Received(d)
      BY DEF IInv
    <3> QED
      BY <3>1, <3>2, <3>3 DEF Received
  <2> QED
    BY <2>1, <2>2
<1>5. ASSUME NEW r \in Runs PROVE Kept(r)'
  BY DEF IInv, Kept, Old, Over
<1>6. ASSUME NEW d \in Clients, NEW p \in Publishers PROVE Reached(d, p)'
  <2>1. CASE d = c
    <3>1. begun[p] \in Nat
      BY DEF IInv, Types
    <3>2. begun[p] + 1 .. begun[p] = {}
      BY <3>1
    <3> QED
      BY <2>1, <3>2 DEF Reached
  <2>2. CASE d # c
    <3>1. /\ Reached(d, p) /\ (Following(d)' <=> Following(d))
          /\ Matches(d, p)' <=> Matches(d, p)
          /\ stream'[d] = stream[d] /\ since'[d] = since[d] /\ Waits(p)' = Waits(p)
      BY <1>1, <1>2, <2>2 DEF IInv
    <3> QED
      BY <3>1 DEF Reached
  <2> QED
    BY <2>1, <2>2
<1>7. ASSUME NEW d \in Clients PROVE CaughtUp(d)'
  <2>1. CASE d = c
    BY <2>1
  <2>2. CASE d # c
    <3>1. /\ CaughtUp(d) /\ (Following(d)' <=> Following(d))
          /\ \A p : Matches(d, p)' <=> Matches(d, p)
          /\ stream'[d] = stream[d] /\ since'[d] = since[d] /\ stage'[d] = stage[d]
          /\ ask'[d] = ask[d] /\ (d \in smooth' => d \in smooth)
      BY <1>2, <2>2 DEF IInv
    <3> QED
      BY <3>1 DEF CaughtUp
  <2> QED
    BY <2>1, <2>2
<1> QED
  BY <1>3, <1>4, <1>5, <1>6, <1>7 DEF IInv

LEMMA RequestKeeps ==
  ASSUME IInv, NEW c \in Clients, NEW a \in Commands, Request(c, a)
  PROVE  IInv'
<1>1. Types /\ Subscribed /\ Received(c) /\ CaughtUp(c)
  BY DEF IInv
<1>2. Types'
  BY <1>1 DEF Types, Request
<1>3. /\ stage[c] = "none" /\ stage'[c] = "requested"
      /\ \A d \in Clients \ {c} : ask'[d] = ask[d] /\ stage'[d] = stage[d]
      /\ UNCHANGED <<begun, todo, dead, busy, recording, file, subs, conn, stream, since,
                     smooth, cut>>
  BY <1>1 DEF Types, Request
<1>4. Subscribed'
  <2>1. \A d \in Elements(subs) : d \in Clients /\ d # c
    <3>1. subs \in Seq(Clients)
      BY <1>1 DEF Types
    <3>2. Elements(subs) \subseteq Clients
      BY <3>1 DEF Elements
    <3> QED
      BY <1>1, <1>3, <3>2 DEF Subscribed
  <2>2. \A d \in Clients : Following(d)' => Following(d)
    BY <1>3 DEF Following
  <2> QED
    BY <1>1, <1>3, <2>1, <2>2 DEF Subscribed
<1>5. stream[c] = <<>>
  BY <1>1, <1>3 DEF Received
<1>6. Received(c)'
  <2>1. Elements(stream'[c]) = {} /\ InOrder(stream'[c])
    BY <1>3, <1>5 DEF Elements, InOrder
  <2> QED
    BY <1>3, <1>5, <2>1 DEF Received
<1>7. c \notin smooth
  BY <1>1, <1>3 DEF CaughtUp
<1>8. CaughtUp(c)'
  BY <1>3, <1>7 DEF CaughtUp
<1>9. ~Following(c)'
  BY <1>3 DEF Following
<1>10. stage[c] # "subscribed"
  BY <1>3
<1> QED
  BY <1>2, <1>3, <1>4, <1>6, <1>8, <1>9, <1>10, HandlerKeeps

\* What Register does to the subscriptions.
LEMMA Registers ==
  ASSUME IInv, NEW c \in Clients, NEW quietly \in BOOLEAN, Register(c, quietly),
         stage[c] # "subscribed", UNCHANGED conn
  PROVE  /\ Subscribed' /\ subs' \in Seq(Clients)
         /\ stage' \in [Clients -> {"none", "requested", "draining", "subscribed", "failed"}]
         /\ since' \in [Clients -> [Publishers -> Nat]] /\ smooth' \subseteq Clients
         /\ stage'[c] = "subscribed" /\ since'[c] = begun
         /\ \A d \in Clients \ {c} :
              stage'[d] = stage[d] /\ since'[d] = since[d] /\ (d \in smooth' => d \in smooth)
         /\ c \in smooth' => quietly
<1>1. /\ Types /\ Subscribed /\ CaughtUp(c) /\ subs \in Seq(Clients)
  BY DEF IInv, Types
<1>2. /\ subs' = Append(subs, c)
      /\ stage' = [stage EXCEPT ![c] = "subscribed"]
      /\ since' = [since EXCEPT ![c] = begun]
      /\ smooth' = IF quietly THEN smooth \cup {c} ELSE smooth
  BY DEF Register
<1>3. /\ stage'[c] = "subscribed" /\ since'[c] = begun
      /\ \A d \in Clients \ {c} : stage'[d] = stage[d] /\ since'[d] = since[d]
      /\ stage' \in [Clients -> {"none", "requested", "draining", "subscribed", "failed"}]
      /\ since' \in [Clients -> [Publishers -> Nat]]
  BY <1>1, <1>2 DEF Types
<1>4. /\ smooth' \subseteq Clients /\ \A d \in Clients \ {c} : d \in smooth' => d \in smooth
  BY <1>1, <1>2 DEF Types
<1>5. c \in smooth' => quietly
  <2>1. c \notin smooth
    BY <1>1 DEF CaughtUp
  <2> QED
    BY <1>2, <2>1
<1>6. subs' \in Seq(Clients) /\ Elements(subs') = Elements(subs) \cup {c}
  BY <1>1, <1>2, AppendFacts
<1>7. c \notin Elements(subs)
  BY <1>1 DEF Subscribed
<1>8. Distinct(subs')
  <2>1. /\ \A i \in 1 .. Len(subs) : subs[i] \in Elements(subs) /\ subs'[i] = subs[i]
        /\ Len(subs) \in Nat /\ Len(subs') = Len(subs) + 1 /\ subs'[Len(subs) + 1] = c
    <3>1. DOMAIN subs = 1 .. Len(subs) /\ Len(subs) \in Nat
      BY <1>1
    <3>2. \A i \in 1 .. Len(subs) : subs[i] \in Elements(subs)
      BY <3>1 DEF Elements
    <3> QED
      BY <1>1, <1>2, <3>1, <3>2
  <2>2. ASSUME NEW i \in 1 .. Len(subs'), NEW j \in 1 .. Len(subs'), subs'[i] = subs'[j]
        PROVE  i = j
    <3>1. /\ i \in 1 .. Len(subs) \/ i = Len(subs) + 1
          /\ j \in 1 .. Len(subs) \/ j = Len(subs) + 1
      BY <2>1
    <3>2. CASE i \in 1 .. Len(subs) /\ j \in 1 .. Len(subs)
      BY <1>1, <2>1, <2>2, <3>2 DEF Subscribed, Distinct
    <3>3. CASE i = Len(subs) + 1 /\ j \in 1 .. Len(subs)
      BY <1>7, <2>1, <2>2, <3>3
    <3>4. CASE i \in 1 .. Len(subs) /\ j = Len(subs) + 1
      BY <1>7, <2>1, <2>2, <3>4
    <3> QED
      BY <3>1, <3>2, <3>3, <3>4
  <2> QED
    BY <2>2 DEF Distinct
<1>9. Subscribed'
  <2>1. \A d \in Elements(subs') : stage'[d] = "subscribed"
    <3>1. Elements(subs) \subseteq Clients
      BY <1>1 DEF Elements
    <3> QED
      BY <1>1, <1>3, <1>6, <3>1 DEF Subscribed
  <2>2. \A d \in Clients : Following(d)' => d \in Elements(subs')
    BY <1>1, <1>3, <1>6 DEF Subscribed, Following
  <2> QED
    BY <1>8, <2>1, <2>2 DEF Subscribed
<1> QED
  BY <1>3, <1>4, <1>5, <1>6, <1>9

\* The replayed lines are those of the file, in its order.
LEMMA ReplayedFacts ==
  ASSUME IInv, NEW a \in Commands
  PROVE  /\ Replayed(a) \in Seq(Events) /\ InOrder(Replayed(a))
         /\ \A e \in Elements(Replayed(a)) : Old(e)
         /\ a.replay # "none" =>
              /\ a.replay \in Runs
              /\ Elements(Replayed(a)) =
                   Elements(file[a.replay]) \cap [by : a.topics, n : Nat \ {0}]
<1>1. a \in Asks
  BY EventStreamAssumption
<1>2. a.replay \in Runs \cup {"none"}
  BY <1>1 DEF Asks
<1>3. CASE a.replay = "none"
  <2>1. Replayed(a) = <<>>
    BY <1>3 DEF Replayed
  <2> QED
    BY <1>3, <2>1 DEF Elements, InOrder
<1>4. CASE a.replay # "none"
  <2> DEFINE T == [by : a.topics, n : Nat \ {0}]
  <2>1. /\ a.replay \in Runs /\ file[a.replay] \in Seq(Events)
        /\ Replayed(a) = Filter(file[a.replay], T)
    BY <1>2, <1>4 DEF IInv, Types, Replayed
  <2> HIDE DEF T
  <2>2. /\ Replayed(a) \in Seq(Events)
        /\ Elements(Replayed(a)) = Elements(file[a.replay]) \cap T
    BY <2>1, FilterElements
  <2>3. InOrder(file[a.replay]) /\ \A e \in Elements(file[a.replay]) : Old(e)
    BY <2>1 DEF IInv, Kept
  <2>4. InOrder(Replayed(a))
    BY <2>1, <2>3, FilterInOrder
  <2> QED
    BY <1>4, <2>1, <2>2, <2>3, <2>4 DEF T
<1> QED
  BY <1>3, <1>4

LEMMA SubscribeKeeps ==
  ASSUME IInv, NEW c \in Clients, Subscribe(c)
  PROVE  IInv'
<1> DEFINE lines == Replayed(ask[c])
<1>1. /\ Types /\ Subscribed /\ Received(c) /\ CaughtUp(c) /\ ask[c] \in Commands
      /\ stage[c] = "requested" /\ stream \in [Clients -> Seq(Events)]
      /\ UNCHANGED <<begun, todo, dead, busy, recording, file, conn, ask, cut>>
      /\ stream' = IF Broken(c) THEN stream ELSE [stream EXCEPT ![c] = @ \o lines]
  BY DEF IInv, Types, Subscribe
<1>2. /\ lines \in Seq(Events) /\ InOrder(lines)
      /\ \A e \in Elements(lines) : Old(e)
  BY <1>1, ReplayedFacts
<1>3. /\ ask[c].replay # "none" =>
              /\ ask[c].replay \in Runs
              /\ Elements(lines) =
                   Elements(file[ask[c].replay]) \cap [by : ask[c].topics, n : Nat \ {0}]
  BY <1>1, ReplayedFacts
<1>4. \/ /\ lines = <<>> \/ ~Broken(c)
         /\ Register(c, busy = {})
         /\ UNCHANGED <<full, blocked>>
      \/ /\ stage' = [stage EXCEPT ![c] = "draining"]
         /\ \/ UNCHANGED <<full, blocked>>
            \/ /\ ~Broken(c)
               /\ full' = full \cup {c}
               /\ blocked' = blocked \cup {c}
         /\ UNCHANGED <<subs, since, smooth>>
  BY DEF Subscribe
<1> HIDE DEF lines
<1>5. stream[c] = <<>> /\ stage[c] # "subscribed" /\ c \notin smooth
  BY <1>1 DEF Received, CaughtUp
<1>6. /\ stream' \in [Clients -> Seq(Events)]
      /\ stream'[c] = IF Broken(c) THEN <<>> ELSE lines
      /\ \A d \in Clients \ {c} : stream'[d] = stream[d]
  <2>1. <<>> \o lines = lines
    BY <1>2
  <2>2. CASE Broken(c)
    BY <1>1, <1>5, <2>2
  <2>3. CASE ~Broken(c)
    <3>1. stream' = [stream EXCEPT ![c] = lines]
      BY <1>1, <1>5, <2>1, <2>3
    <3> QED
      BY <1>1, <1>2, <2>3, <3>1
  <2> QED
    BY <2>2, <2>3
<1>7. \A p \in Publishers : c \notin Waits(p)
  <2> SUFFICES ASSUME NEW p \in Publishers, c \in Waits(p) PROVE FALSE
    OBVIOUS
  <2>1. todo[p] \in Seq(Clients) /\ \A d \in Elements(todo[p]) : stage[d] = "subscribed"
    BY DEF IInv, Types, Serving
  <2>2. Waits(p) \subseteq Elements(todo[p])
    <3>1. DOMAIN todo[p] = 1 .. Len(todo[p]) /\ 2 .. Len(todo[p]) \subseteq 1 .. Len(todo[p])
      BY <2>1
    <3> QED
      BY <3>1 DEF Waits, Elements
  <2> QED
    BY <1>1, <2>1, <2>2
<1>8. ASSUME stage'[c] \notin {"none", "requested"} PROVE Received(c)'
  <2>1. Elements(<<>>) = {} /\ InOrder(<<>>)
    BY DEF Elements, InOrder
  <2>2. \A p \in Publishers : Waits(p)' = Waits(p)
    BY <1>1 DEF Waits
  <2>3. ASSUME NEW e \in Elements(stream'[c])
        PROVE  Old(e)' /\ (c \in Waits(e.by)' => e.n < begun'[e.by])
    <3>1. e \in Elements(lines)
      BY <1>6, <2>1
    <3>2. e.by \in Publishers
      BY <1>2, <3>1, EventFields
    <3> QED
      BY <1>1, <1>2, <1>7, <2>2, <3>1, <3>2 DEF Old
  <2>4. InOrder(stream'[c])
    BY <1>2, <1>6, <2>1
  <2> QED
    BY <1>8, <2>3, <2>4 DEF Received
<1>9. CASE /\ lines = <<>> \/ ~Broken(c)
           /\ Register(c, busy = {})
           /\ UNCHANGED <<full, blocked>>
  <2>1. /\ Subscribed' /\ subs' \in Seq(Clients)
        /\ stage' \in [Clients -> {"none", "requested", "draining", "subscribed", "failed"}]
        /\ since' \in [Clients -> [Publishers -> Nat]] /\ smooth' \subseteq Clients
        /\ stage'[c] = "subscribed" /\ since'[c] = begun
        /\ \A d \in Clients \ {c} :
             stage'[d] = stage[d] /\ since'[d] = since[d] /\ (d \in smooth' => d \in smooth)
        /\ c \in smooth' => busy = {}
    BY <1>1, <1>5, <1>9, Registers
  <2>2. Types'
    BY <1>1, <1>6, <1>9, <2>1 DEF Types
  <2>3. CaughtUp(c)'
    <3> SUFFICES ASSUME c \in smooth', ask[c].replay # "none", Following(c)',
                        Matches(c, ask[c].replay),
                        NEW m \in 1 .. begun[ask[c].replay]
                 PROVE  [by |-> ask[c].replay, n |-> m] \in cut \cup Elements(stream'[c])
      BY <1>1, <2>1 DEF CaughtUp, Matches
    <3>1. PICK r \in Runs : r = ask[c].replay
      BY <1>3
    <3>2. busy = {} /\ ~Broken(c) /\ r \in ask[c].topics
      BY <1>1, <2>1, <3>1 DEF Following, Broken, Matches
    <3>3. m \in 1 .. begun[r] /\ begun[r] \in Nat
      BY <1>1, <3>1, EventStreamAssumption DEF Types
    <3>4. Over(r, m)
      BY <3>2, <3>3 DEF Over
    <3>5. [by |-> r, n |-> m] \in cut \cup Elements(file[r])
      BY <3>3, <3>4 DEF IInv, Kept
    <3>6. [by |-> r, n |-> m] \in [by : ask[c].topics, n : Nat \ {0}]
      BY <3>2, <3>3
    <3>7. stream'[c] = lines
      BY <1>6, <3>2
    <3> QED
      BY <1>3, <3>1, <3>5, <3>6, <3>7
  <2>4. Received(c)'
    BY <1>8, <2>1
  <2> QED
    BY <1>1, <1>5, <1>6, <2>1, <2>2, <2>3, <2>4, HandlerKeeps
<1>10. CASE /\ stage' = [stage EXCEPT ![c] = "draining"]
            /\ \/ UNCHANGED <<full, blocked>>
               \/ /\ ~Broken(c)
                  /\ full' = full \cup {c}
                  /\ blocked' = blocked \cup {c}
            /\ UNCHANGED <<subs, since, smooth>>
  <2>1. /\ stage' \in [Clients -> {"none", "requested", "draining", "subscribed", "failed"}]
        /\ stage'[c] = "draining" /\ \A d \in Clients \ {c} : stage'[d] = stage[d]
    BY <1>1, <1>10 DEF Types
  <2>2. Types'
    <3>1. /\ full' \subseteq {d \in Clients : conn'[d] = "open"}
          /\ blocked' \subseteq Publishers \cup Clients
      BY <1>1, <1>10 DEF Types, Broken
    <3> QED
      BY <1>1, <1>6, <1>10, <2>1, <3>1 DEF Types
  <2>3. Subscribed'
    <3>1. subs \in Seq(Clients)
      BY <1>1 DEF Types
    <3>2. \A d \in Elements(subs) : d \in Clients \ {c}
      <4>1. Elements(subs) \subseteq Clients
        BY <3>1 DEF Elements
      <4> QED
        BY <1>1, <1>5, <4>1 DEF Subscribed
    <3>3. \A d \in Clients : Following(d)' => Following(d)
      BY <1>1, <2>1 DEF Following
    <3> QED
      BY <1>1, <1>10, <2>1, <3>2, <3>3 DEF Subscribed
  <2>4. Received(c)'
    BY <1>8, <2>1
  <2>5. CaughtUp(c)' /\ ~Following(c)'
    BY <1>5, <1>10, <2>1 DEF CaughtUp, Following
  <2> QED
    BY <1>1, <1>5, <1>6, <1>10, <2>1, <2>2, <2>3, <2>4, <2>5, HandlerKeeps
<1> QED
  BY <1>4, <1>9, <1>10

LEMMA ReplayingKeeps ==
  ASSUME IInv, NEW c \in Clients, Replaying(c)
  PROVE  IInv'
<1>1. /\ Types /\ Subscribed /\ Received(c) /\ CaughtUp(c)
      /\ stage[c] = "draining" /\ stage[c] # "subscribed"
      /\ UNCHANGED <<begun, todo, dead, busy, blocked, recording, file, conn, full,
                     ask, stream, cut>>
  BY DEF IInv, Replaying
<1>2. \/ Register(c, FALSE)
      \/ stage' = [stage EXCEPT ![c] = "failed"] /\ UNCHANGED <<subs, since, smooth>>
  BY DEF Replaying
<1>3. ASSUME stage'[c] \notin {"none", "requested"} PROVE Received(c)'
  <2>1. stream[c] \in Seq(Events)
    BY <1>1 DEF Types
  <2>2. ASSUME NEW e \in Elements(stream[c])
        PROVE  Old(e)' /\ (c \in Waits(e.by)' => e.n < begun'[e.by])
    <3>1. e.by \in Publishers /\ Waits(e.by)' = Waits(e.by)
      BY <1>1, <2>1, EventFields DEF Waits
    <3> QED
      BY <1>1, <3>1 DEF Received, Old
  <2> QED
    BY <1>1, <1>3, <2>2 DEF Received
<1>4. CASE Register(c, FALSE)
  <2>1. /\ Subscribed' /\ subs' \in Seq(Clients)
        /\ stage' \in [Clients -> {"none", "requested", "draining", "subscribed", "failed"}]
        /\ since' \in [Clients -> [Publishers -> Nat]] /\ smooth' \subseteq Clients
        /\ stage'[c] = "subscribed" /\ since'[c] = begun
        /\ \A d \in Clients \ {c} :
             stage'[d] = stage[d] /\ since'[d] = since[d] /\ (d \in smooth' => d \in smooth)
        /\ c \notin smooth'
    BY <1>1, <1>4, Registers
  <2>2. Types'
    BY <1>1, <2>1 DEF Types
  <2>3. Received(c)' /\ CaughtUp(c)'
    BY <1>3, <2>1 DEF CaughtUp
  <2> QED
    BY <1>1, <2>1, <2>2, <2>3, HandlerKeeps
<1>5. CASE stage' = [stage EXCEPT ![c] = "failed"] /\ UNCHANGED <<subs, since, smooth>>
  <2>1. /\ stage' \in [Clients -> {"none", "requested", "draining", "subscribed", "failed"}]
        /\ stage'[c] = "failed" /\ \A d \in Clients \ {c} : stage'[d] = stage[d]
    BY <1>1, <1>5 DEF Types
  <2>2. Types'
    BY <1>1, <1>5, <2>1 DEF Types
  <2>3. Subscribed'
    <3>1. subs \in Seq(Clients)
      BY <1>1 DEF Types
    <3>2. \A d \in Elements(subs) : d \in Clients \ {c}
      <4>1. Elements(subs) \subseteq Clients
        BY <3>1 DEF Elements
      <4> QED
        BY <1>1, <4>1 DEF Subscribed
    <3>3. \A d \in Clients : Following(d)' => Following(d)
      BY <1>1, <2>1 DEF Following
    <3> QED
      BY <1>1, <1>5, <2>1, <3>2, <3>3 DEF Subscribed
  <2>4. c \notin smooth
    BY <1>1 DEF CaughtUp
  <2>5. Received(c)' /\ CaughtUp(c)' /\ ~Following(c)'
    BY <1>3, <1>5, <2>1, <2>4 DEF CaughtUp, Following
  <2> QED
    BY <1>1, <1>5, <2>1, <2>2, <2>3, <2>5, HandlerKeeps
<1> QED
  BY <1>2, <1>4, <1>5

-----------------------------------------------------------------------------
(* The theorems. *)

LEMMA Initially ==
  Init => IInv
<1> SUFFICES ASSUME Init PROVE IInv
  OBVIOUS
<1>1. /\ begun = [p \in Publishers |-> 0] /\ todo = [p \in Publishers |-> <<>>]
      /\ dead = [p \in Publishers |-> {}] /\ busy = {} /\ blocked = {}
      /\ recording = [r \in Runs |-> "new"] /\ file = [r \in Runs |-> <<>>]
      /\ subs = <<>> /\ conn = [c \in Clients |-> "open"] /\ full = {}
      /\ stage = [c \in Clients |-> "none"] /\ stream = [c \in Clients |-> <<>>]
      /\ since = [c \in Clients |-> begun] /\ smooth = {} /\ cut = {}
  BY DEF Init
<1>2. ask \in [Clients -> Commands]
  <2>1. (CHOOSE a \in Commands : TRUE) \in Commands
    BY EventStreamAssumption
  <2> QED
    BY <2>1 DEF Init
<1>3. Types
  BY <1>1, <1>2 DEF Types
<1>4. Elements(<<>>) = {} /\ InOrder(<<>>) /\ Distinct(<<>>)
  BY DEF Elements, InOrder, Distinct
<1>5. ASSUME NEW p \in Publishers PROVE Serving(p)
  <2>1. Count[p] \in Nat
    BY EventStreamAssumption
  <2> QED
    BY <1>1, <1>4, <2>1 DEF Serving
<1>6. Subscribed
  BY <1>1, <1>4 DEF Subscribed, Following
<1>7. ASSUME NEW c \in Clients PROVE Received(c)
  BY <1>1, <1>4 DEF Received
<1>8. ASSUME NEW r \in Runs PROVE Kept(r)
  <2>1. r \in Publishers /\ begun[r] = 0 /\ recording[r] = "new" /\ file[r] = <<>>
    BY <1>1, EventStreamAssumption
  <2>2. 1 .. begun[r] = {}
    BY <2>1
  <2> QED
    BY <1>4, <2>1, <2>2 DEF Kept
<1>9. ASSUME NEW c \in Clients, NEW p \in Publishers PROVE Reached(c, p)
  BY <1>1 DEF Reached, Following
<1>10. ASSUME NEW c \in Clients PROVE CaughtUp(c)
  BY <1>1 DEF CaughtUp
<1> QED
  BY <1>3, <1>5, <1>6, <1>7, <1>8, <1>9, <1>10 DEF IInv

LEMMA StutterKeeps ==
  ASSUME IInv, UNCHANGED vars
  PROVE  IInv'
<1>1. Types'
  BY DEF IInv, Types, vars
<1>2. Subscribed'
  BY DEF IInv, Subscribed, Following, vars
<1>3. \A c \in Clients : Broken(c) => Broken(c)'
  BY DEF Broken, vars
<1>4. UNCHANGED <<begun, todo, dead, busy, recording, file, ask, stage, stream,
                  since, smooth, cut>>
  BY DEF vars
<1> QED
  BY <1>1, <1>2, <1>3, <1>4, CalmKeeps

LEMMA Invariance ==
  Spec => []IInv
<1>1. Init => IInv
  BY Initially
<1>2. IInv /\ [Next]_vars => IInv'
  <2> SUFFICES ASSUME IInv, [Next]_vars PROVE IInv'
    OBVIOUS
  <2>1. ASSUME NEW p \in Publishers, Publish(p) PROVE IInv'
    BY <2>1, PublishKeeps
  <2>2. ASSUME NEW p \in Publishers, Continue(p) PROVE IInv'
    BY <2>2, ContinueKeeps
  <2>3. ASSUME NEW p \in Publishers, CancelPublish(p) PROVE IInv'
    BY <2>3, CancelKeeps
  <2>4. ASSUME NEW c \in Clients, NEW a \in Commands, Request(c, a) PROVE IInv'
    BY <2>4, RequestKeeps
  <2>5. ASSUME NEW c \in Clients, Subscribe(c) PROVE IInv'
    BY <2>5, SubscribeKeeps
  <2>6. ASSUME NEW c \in Clients, Replaying(c) PROVE IInv'
    BY <2>6, ReplayingKeeps
  <2>7. ASSUME NEW c \in Clients, Reads(c) \/ Lose(c) PROVE IInv'
    BY <2>7, ReadsKeeps
  <2>8. ASSUME NEW c \in Clients, ReadLoopEnds(c) PROVE IInv'
    BY <2>8, ReadLoopEndsKeeps
  <2>9. CASE UNCHANGED vars
    BY <2>9, StutterKeeps
  <2> QED
    BY <2>1, <2>2, <2>3, <2>4, <2>5, <2>6, <2>7, <2>8, <2>9
    DEF Next, PublisherStep, ConnectionStep
<1> QED
  BY <1>1, <1>2, PTL DEF Spec

\* The state has the types the code gives it, whatever is published, sent,
\* read or broken off.
THEOREM TypeCorrect ==
  Spec => []TypeOK
<1>1. IInv => TypeOK
  <2> SUFFICES ASSUME IInv PROVE TypeOK
    OBVIOUS
  <2>1. Types
    BY DEF IInv
  <2>2. ASSUME NEW p \in Publishers
        PROVE  begun[p] <= Count[p] /\ Elements(todo[p]) \subseteq Clients
    <3>1. todo[p] \in Seq(Clients)
      BY <2>1 DEF Types
    <3> QED
      BY <3>1 DEF IInv, Serving, Elements
  <2>3. \A r \in Runs : recording[r] = "new" <=> begun[r] = 0
    BY DEF IInv, Kept
  <2>4. ASSUME NEW r \in Runs PROVE Elements(file[r]) \subseteq Events
    <3>1. file[r] \in Seq(Events)
      BY <2>1 DEF Types
    <3> QED
      BY <3>1 DEF Elements
  <2>5. Elements(subs) \subseteq Clients
    <3>1. subs \in Seq(Clients)
      BY <2>1 DEF Types
    <3> QED
      BY <3>1 DEF Elements
  <2>6. ASSUME NEW c \in Clients PROVE Elements(stream[c]) \subseteq Events
    <3>1. stream[c] \in Seq(Events)
      BY <2>1 DEF Types
    <3> QED
      BY <3>1 DEF Elements
  <2> QED
    BY <2>1, <2>2, <2>3, <2>4, <2>5, <2>6 DEF Types, TypeOK
<1> QED
  BY <1>1, Invariance, PTL

\* A connection gets every publisher's events in their order and each at most
\* once, replayed and live ones together (bus.py:18-21, ipc_broadcaster.py:57-95).
THEOREM StreamInOrderHolds ==
  Spec => []StreamInOrder
<1>1. IInv => StreamInOrder
  BY DEF IInv, Received, StreamInOrder
<1> QED
  BY <1>1, Invariance, PTL

\* Dead, slow or leaving connections, and cancelled publishers, cost those that
\* follow the stream nothing but the cancelled event (ipc_broadcaster.py:57-95).
THEOREM LiveCompleteHolds ==
  Spec => []LiveComplete
<1>1. IInv => LiveComplete
  <2> SUFFICES ASSUME IInv, NEW c \in Clients, Following(c),
                      NEW p \in Publishers, Matches(c, p),
                      NEW n \in since[c][p] + 1 .. begun[p]
               PROVE  Seen(c, p, n)
    BY DEF LiveComplete
  <2>1. \/ [by |-> p, n |-> n] \in cut \cup Elements(stream[c])
        \/ n = begun[p] /\ c \in Waits(p)
    BY DEF IInv, Reached
  <2>2. begun[p] \in Nat
    BY DEF IInv, Types
  <2>3. c \in Waits(p) => p \in busy
    <3>1. p \notin busy => todo[p] = <<>>
      BY DEF IInv, Serving
    <3> QED
      BY <3>1 DEF Waits
  <2> QED
    BY <2>1, <2>2, <2>3 DEF Seen, Over
<1> QED
  BY <1>1, Invariance, PTL

\* The events.jsonl of a finished run has all of its events that were not
\* cancelled or lost to the disk, in their order (writer.py:16-44).
THEOREM RunRecordedHolds ==
  Spec => []RunRecorded
<1>1. IInv => RunRecorded
  <2> SUFFICES ASSUME IInv, NEW r \in Runs
               PROVE  /\ InOrder(file[r])
                      /\ recording[r] = "closed" =>
                           \A n \in 1 .. Count[r] :
                             [by |-> r, n |-> n] \in cut \cup Elements(file[r])
    BY DEF RunRecorded
  <2>1. Kept(r) /\ begun[r] \in Nat
    BY EventStreamAssumption DEF IInv, Types
  <2>2. ASSUME recording[r] = "closed", NEW n \in 1 .. Count[r]
        PROVE  [by |-> r, n |-> n] \in cut \cup Elements(file[r])
    <3>1. n \in 1 .. begun[r] /\ r \notin busy
      BY <2>1, <2>2 DEF Kept
    <3>2. Over(r, n)
      BY <2>1, <3>1 DEF Over
    <3> QED
      BY <2>1, <3>1, <3>2 DEF Kept
  <2> QED
    BY <2>1, <2>2 DEF Kept
<1> QED
  BY <1>1, Invariance, PTL

\* The replay and the live events of a client that asks for a run between two
\* publishes, and need not wait for the replay to drain, have no gap
\* (app.py:152-237).
THEOREM SmoothReplayHasNoGapHolds ==
  Spec => []SmoothReplayHasNoGap
<1>1. IInv => SmoothReplayHasNoGap
  <2> SUFFICES ASSUME IInv, NEW c \in smooth PROVE SeesAll(c)
    BY DEF SmoothReplayHasNoGap
  <2>1. c \in Clients /\ ask[c] \in Asks
    BY EventStreamAssumption DEF IInv, Types
  <2> SUFFICES ASSUME ask[c].replay # "none", Following(c), Matches(c, ask[c].replay),
                      NEW n \in 1 .. begun[ask[c].replay]
               PROVE  Seen(c, ask[c].replay, n)
    BY DEF SeesAll
  <2>2. PICK r \in Publishers : r = ask[c].replay
    BY <2>1, EventStreamAssumption DEF Asks
  <2>3. begun[r] \in Nat /\ since[c][r] \in Nat
    BY <2>1 DEF IInv, Types
  <2>4. n \in 1 .. since[c][r] \/ n \in since[c][r] + 1 .. begun[r]
    BY <2>2, <2>3
  <2>5. CASE n \in 1 .. since[c][r]
    BY <2>1, <2>2, <2>5 DEF IInv, CaughtUp, Seen
  <2>6. CASE n \in since[c][r] + 1 .. begun[r]
    <3>1. \/ [by |-> r, n |-> n] \in cut \cup Elements(stream[c])
          \/ n = begun[r] /\ c \in Waits(r)
      BY <2>1, <2>2, <2>6 DEF IInv, Reached
    <3>2. c \in Waits(r) => r \in busy
      <4>1. r \notin busy => todo[r] = <<>>
        BY DEF IInv, Serving
      <4> QED
        BY <4>1 DEF Waits
    <3> QED
      BY <2>2, <2>3, <3>1, <3>2 DEF Seen, Over
  <2> QED
    BY <2>4, <2>5, <2>6
<1> QED
  BY <1>1, Invariance, PTL
-----------------------------------------------------------------------------
(* Nobody waits for nothing. *)

\* A task that is suspended in a drain waits for a connection that is above its
\* limit and has not drained: no wake-up is lost, whoever reads, closes its
\* connection, is cancelled or starts to wait meanwhile (ipc_broadcaster.py:71-77,
\* app.py:152-171; the waiters of one connection are all woken).
WaitsForReader ==
  /\ \A p \in blocked \cap Publishers : p \in busy /\ Head(todo[p]) \in full
  /\ \A c \in blocked \cap Clients : stage[c] = "draining" /\ c \in full

\* While p is inside publish, a step ends it, takes it past a connection, or
\* leaves it where it is, and does not suspend it there again.
PublishMoves ==
  \A p \in busy : p \in busy' =>
    /\ begun'[p] = begun[p]
    /\ \/ Len(todo'[p]) < Len(todo[p])
       \/ todo'[p] = todo[p] /\ (p \in blocked' => p \in blocked)

PublishAdvances == [][PublishMoves]_vars

\* Where a stretch of publish leaves its task.
LEMMA ServeSuspends ==
  ASSUME Types, NEW p \in Publishers, NEW event, NEW conns \in Seq(Clients), NEW away,
         NEW rec, Serve(p, event, conns, away, rec)
  PROVE  /\ \A q \in Publishers \ {p} : todo'[q] = todo[q] /\ (q \in busy' <=> q \in busy)
         /\ \/ p \notin busy' /\ UNCHANGED <<full, blocked>>
            \/ /\ p \in busy' /\ Len(todo'[p]) \in Nat /\ Len(todo'[p]) <= Len(conns)
               /\ \/ UNCHANGED <<full, blocked>>
                  \/ /\ Head(todo'[p]) \in full'
                     /\ full \subseteq full' /\ blocked' = blocked \cup {p}
<1>1. todo \in [Publishers -> Seq(Clients)]
  BY DEF Types
<1>2. PICK k \in 1 .. Len(conns) + 1 :
        \/ /\ k <= Len(conns)
           /\ todo' = [todo EXCEPT ![p] = SubSeq(conns, k, Len(conns))]
           /\ busy' = busy \cup {p}
           /\ \/ UNCHANGED <<full, blocked>>
              \/ full' = full \cup {conns[k]} /\ blocked' = blocked \cup {p}
        \/ /\ todo' = [todo EXCEPT ![p] = <<>>]
           /\ busy' = busy \ {p}
           /\ UNCHANGED <<full, blocked>>
  BY DEF Serve
<1>3. \A q \in Publishers \ {p} : todo'[q] = todo[q] /\ (q \in busy' <=> q \in busy)
  BY <1>1, <1>2
<1>4. CASE /\ k <= Len(conns)
           /\ todo' = [todo EXCEPT ![p] = SubSeq(conns, k, Len(conns))]
           /\ busy' = busy \cup {p}
           /\ \/ UNCHANGED <<full, blocked>>
              \/ full' = full \cup {conns[k]} /\ blocked' = blocked \cup {p}
  <2> DEFINE s == SubSeq(conns, k, Len(conns))
  <2>1. k \in Nat /\ 1 <= k /\ Len(conns) \in Nat
    BY <1>2
  <2>2. /\ s \in Seq(Clients) /\ Len(s) = Len(conns) - k + 1
        /\ \A i \in 1 .. Len(conns) - k + 1 : s[i] = conns[k + i - 1]
    BY <1>4, <2>1
  <2> HIDE DEF s
  <2>3. Len(s) \in Nat /\ Len(s) <= Len(conns) /\ 1 \in 1 .. Len(conns) - k + 1
    BY <1>4, <2>1, <2>2
  <2>4. s[1] = conns[k]
    <3>1. s[1] = conns[k + 1 - 1] /\ k + 1 - 1 = k
      BY <2>1, <2>2, <2>3
    <3> QED
      BY <3>1
  <2>5. Head(s) = s[1]
    BY <2>2
  <2>6. todo'[p] = s
    BY <1>1, <1>4 DEF s
  <2>7. Head(todo'[p]) = conns[k]
    BY <2>4, <2>5, <2>6
  <2>8. p \in busy' /\ Len(todo'[p]) \in Nat /\ Len(todo'[p]) <= Len(conns)
    BY <1>4, <2>3, <2>6
  <2> QED
    BY <1>3, <1>4, <2>7, <2>8
<1> QED
  BY <1>2, <1>3, <1>4

\* A stretch that p may take: nobody else is touched.
LEMMA StretchWaits ==
  ASSUME IInv, WaitsForReader, NEW p \in Publishers \ blocked, NEW event,
         NEW conns \in Seq(Clients), NEW away, NEW rec,
         Serve(p, event, conns, away, rec), UNCHANGED stage,
         \A q \in Publishers \ {p} : begun'[q] = begun[q],
         p \in busy => begun'[p] = begun[p] /\ Len(conns) < Len(todo[p])
  PROVE  WaitsForReader' /\ PublishMoves
<1>1. /\ \A q \in Publishers \ {p} : todo'[q] = todo[q] /\ (q \in busy' <=> q \in busy)
      /\ \/ p \notin busy' /\ UNCHANGED <<full, blocked>>
         \/ /\ p \in busy' /\ Len(todo'[p]) \in Nat /\ Len(todo'[p]) <= Len(conns)
            /\ \/ UNCHANGED <<full, blocked>>
               \/ /\ Head(todo'[p]) \in full'
                  /\ full \subseteq full' /\ blocked' = blocked \cup {p}
  BY ServeSuspends DEF IInv
<1>2. full \subseteq full' /\ \A q \in blocked' \ {p} : q \in blocked
  BY <1>1
<1>3. ASSUME NEW q \in blocked' \cap Publishers PROVE q \in busy' /\ Head(todo'[q]) \in full'
  <2>1. CASE q = p
    BY <1>1, <1>3, <2>1
  <2>2. CASE q # p
    BY <1>1, <1>2, <1>3, <2>2 DEF WaitsForReader
  <2> QED
    BY <2>1, <2>2
<1>4. \A c \in blocked' \cap Clients : c \in blocked
  BY <1>2, EventStreamAssumption
<1>5. \A c \in blocked' \cap Clients : stage'[c] = "draining" /\ c \in full'
  BY <1>2, <1>4 DEF WaitsForReader
<1>6. ASSUME NEW q \in busy, q \in busy', q # p
      PROVE  begun'[q] = begun[q] /\ todo'[q] = todo[q] /\ (q \in blocked' => q \in blocked)
  BY <1>1, <1>2, <1>6 DEF IInv, Types
<1>7. ASSUME p \in busy, p \in busy' PROVE begun'[p] = begun[p] /\ Len(todo'[p]) < Len(todo[p])
  <2>1. Len(todo'[p]) \in Nat /\ Len(todo'[p]) <= Len(conns) /\ Len(conns) < Len(todo[p])
    BY <1>1, <1>7
  <2>2. Len(conns) \in Nat /\ Len(todo[p]) \in Nat
    BY DEF IInv, Types
  <2> QED
    BY <1>7, <2>1, <2>2
<1>8. PublishMoves
  BY <1>6, <1>7 DEF PublishMoves
<1> QED
  BY <1>3, <1>5, <1>8 DEF WaitsForReader

LEMMA WaitsKeep ==
  ASSUME IInv, WaitsForReader, [Next]_vars
  PROVE  WaitsForReader' /\ PublishMoves
<1> USE EventStreamAssumption
<1>1. ASSUME NEW p \in Publishers, Publish(p) PROVE WaitsForReader' /\ PublishMoves
  <2>1. p \notin busy /\ p \notin blocked
    BY <1>1 DEF Publish, WaitsForReader
  <2>2. Filter(subs, {c \in Clients : Matches(c, p)}) \in Seq(Clients)
    BY FilterElements DEF IInv, Types
  <2>3. \A q \in Publishers \ {p} : begun'[q] = begun[q]
    BY <1>1 DEF Publish, IInv, Types
  <2>4. /\ UNCHANGED stage
        /\ Serve(p, [by |-> p, n |-> begun[p] + 1],
                 Filter(subs, {c \in Clients : Matches(c, p)}), {}, Opened(p))
    BY <1>1 DEF Publish
  <2> QED
    BY <2>1, <2>2, <2>3, <2>4, StretchWaits
<1>2. ASSUME NEW p \in Publishers, Continue(p) PROVE WaitsForReader' /\ PublishMoves
  <2>1. PICK away \in IF Broken(Head(todo[p]))
                      THEN {dead[p], dead[p] \cup {Head(todo[p])}} ELSE {dead[p]} :
          Serve(p, Current(p), Remaining(p), away, recording)
    BY <1>2 DEF Continue
  <2>2. p \in busy /\ p \notin blocked /\ UNCHANGED <<begun, stage>>
    BY <1>2 DEF Continue
  <2>3. todo[p] \in Seq(Clients) /\ todo[p] # <<>>
    BY <2>2 DEF IInv, Types, Serving
  <2>4. Tail(todo[p]) \in Seq(Clients) /\ Len(Tail(todo[p])) < Len(todo[p])
    BY <2>3
  <2> QED
    BY <2>1, <2>2, <2>4, StretchWaits DEF Remaining
<1>3. ASSUME NEW p \in Publishers, CancelPublish(p) PROVE WaitsForReader' /\ PublishMoves
  BY <1>3 DEF CancelPublish, IInv, Types, WaitsForReader, PublishMoves
<1>4. ASSUME NEW c \in Clients, NEW a \in Commands, Request(c, a)
      PROVE  WaitsForReader' /\ PublishMoves
  <2>1. stage[c] = "none" /\ \A d \in Clients \ {c} : stage'[d] = stage[d]
    BY <1>4 DEF Request, IInv, Types
  <2>2. UNCHANGED <<begun, todo, busy, blocked, full>>
    BY <1>4 DEF Request
  <2>3. WaitsForReader'
    BY <2>1, <2>2 DEF WaitsForReader
  <2> QED
    BY <2>2, <2>3 DEF PublishMoves
<1>5. ASSUME NEW c \in Clients, Subscribe(c) PROVE WaitsForReader' /\ PublishMoves
  <2>1. /\ stage[c] = "requested" /\ UNCHANGED <<begun, todo, busy>>
        /\ \A d \in Clients \ {c} : stage'[d] = stage[d]
        /\ full \subseteq full'
    BY <1>5 DEF Subscribe, Register, IInv, Types
  <2>2. \/ blocked' = blocked
        \/ blocked' = blocked \cup {c} /\ c \in full' /\ stage'[c] = "draining"
    BY <1>5 DEF Subscribe, IInv, Types
  <2>3. c \notin blocked
    BY <2>1 DEF WaitsForReader
  <2>4. \A p \in Publishers : p \in blocked' <=> p \in blocked
    BY <2>2
  <2>5. WaitsForReader'
    BY <2>1, <2>2, <2>3, <2>4 DEF WaitsForReader
  <2> QED
    BY <2>1, <2>4, <2>5 DEF PublishMoves, IInv, Types
<1>6. ASSUME NEW c \in Clients, Replaying(c) PROVE WaitsForReader' /\ PublishMoves
  <2>1. /\ c \notin blocked /\ UNCHANGED <<begun, todo, busy, blocked, full>>
        /\ \A d \in Clients \ {c} : stage'[d] = stage[d]
    BY <1>6 DEF Replaying, Register, IInv, Types
  <2>2. WaitsForReader'
    BY <2>1 DEF WaitsForReader
  <2> QED
    BY <2>1, <2>2 DEF PublishMoves
<1>7. ASSUME NEW c \in Clients, Reads(c) \/ Lose(c) PROVE WaitsForReader' /\ PublishMoves
  <2>1. /\ full' = full \ {c} /\ blocked' = Released(c)
        /\ UNCHANGED <<begun, todo, busy, stage>>
    BY <1>7 DEF Reads, Lose
  <2>2. \A p \in blocked' \cap Publishers : p \in busy /\ Head(todo[p]) \in full
    BY <2>1 DEF Released, WaitsForReader
  <2>3. \A p \in blocked' \cap Publishers : Head(todo[p]) # c
    <3>1. \A p \in busy : todo[p] # <<>>
      BY DEF IInv, Types, Serving
    <3> QED
      BY <2>1, <2>2, <3>1 DEF Released
  <2>4. \A d \in blocked' \cap Clients : stage[d] = "draining" /\ d \in full /\ d # c
    BY <2>1 DEF Released, WaitsForReader
  <2>5. WaitsForReader'
    BY <2>1, <2>2, <2>3, <2>4 DEF WaitsForReader
  <2> QED
    BY <2>1, <2>5 DEF PublishMoves, Released
<1>8. ASSUME NEW c \in Clients, ReadLoopEnds(c) PROVE WaitsForReader' /\ PublishMoves
  BY <1>8 DEF ReadLoopEnds, WaitsForReader, PublishMoves
<1>9. CASE UNCHANGED vars
  BY <1>9 DEF vars, WaitsForReader, PublishMoves
<1> QED
  BY <1>1, <1>2, <1>3, <1>4, <1>5, <1>6, <1>7, <1>8, <1>9
  DEF Next, PublisherStep, ConnectionStep

LEMMA WaitsInvariance ==
  Spec => []WaitsForReader
<1>1. Init => WaitsForReader
  BY DEF Init, WaitsForReader
<1>2. IInv /\ WaitsForReader /\ [Next]_vars => WaitsForReader'
  BY WaitsKeep
<1> QED
  BY <1>1, <1>2, Invariance, PTL DEF Spec

\* Whoever waits in a drain waits for a client that has yet to read: what
\* PublishReturns needs to hold of its states, for any number of publishers and
\* connections (ipc_broadcaster.py:71-77).
THEOREM WaitsForReaderHolds ==
  Spec => []WaitsForReader
BY WaitsInvariance

\* Every step takes a publish on or leaves it where it is, and a task that was
\* woken is not suspended again before it has gone past a connection: what
\* PublishReturns needs of the steps.
THEOREM PublishAdvancesHolds ==
  Spec => PublishAdvances
<1>1. IInv /\ WaitsForReader /\ [Next]_vars => [PublishMoves]_vars
  BY WaitsKeep
<1> QED
  BY <1>1, Invariance, WaitsInvariance, PTL DEF Spec, PublishAdvances
=============================================================================

---------------------------- MODULE PipelineProofs ----------------------------
(***************************************************************************)
(* Proofs about a pipeline.  First the resolution (ModuleOrder), for every   *)
(* registry, profile and set of declarations: the resolved order is          *)
(* topological and stable, only a dependency cycle is rejected, and Kahn's   *)
(* algorithm implements the abstract sort.  Then the run (PipelineRun), for  *)
(* every plan, number of rounds, set of subdomains found and pattern of      *)
(* failures.                                                                 *)
(***************************************************************************)
EXTENDS PipelineRun, ListProofs

-----------------------------------------------------------------------------
LEMMA ByIndexIsList ==
  ASSUME NEW S
  PROVE  \E T : ByIndex(S) \in [1 .. Cardinality(S) -> T]
<1>. DEFINE T == {ByIndex(S)[k] : k \in 1 .. Cardinality(S)}
<1>1. ByIndex(S) \in [1 .. Cardinality(S) -> T]
  <2>1. \A k \in 1 .. Cardinality(S) : ByIndex(S)[k] \in T
    OBVIOUS
  <2>. HIDE DEF T
  <2>. QED  BY <2>1 DEF ByIndex
<1>. QED  BY <1>1

\* ByIndex lists every member of a set of modules exactly once, in registration order.
LEMMA ByIndexEnumerates ==
  ASSUME NEW S \in SUBSET Module
  PROVE  /\ ByIndex(S) \in Seq(S)
         /\ Elements(ByIndex(S)) = S
         /\ \A i, j \in 1 .. Len(ByIndex(S)) : ByIndex(S)[i] = ByIndex(S)[j] => i = j
         /\ \A i, j \in 1 .. Len(ByIndex(S)) : i < j => Index[ByIndex(S)[i]] < Index[ByIndex(S)[j]]
<1>. DEFINE below == [m \in S |-> {x \in S : Index[x] < Index[m]}]
            r == ByIndex(S)
<1>1. IsFiniteSet(S) /\ \A m \in S : Index[m] \in Nat
  BY OrderAssumption, FS_Subset
<1>2. IsOrder(below, S)
  <2>1. \A x, y \in S : x # y => Index[x] # Index[y]
    BY OrderAssumption
  <2>. QED  BY <1>1, <2>1 DEF IsOrder
<1>3. \E T : r \in [1 .. Cardinality(S) -> T]
  BY ByIndexIsList
<1>4. ASSUME NEW k \in 1 .. Cardinality(S), \E x \in S : Cardinality(below[x]) = k - 1
      PROVE  r[k] \in S /\ Cardinality(below[r[k]]) = k - 1
  <2>1. r[k] = CHOOSE m \in S : Cardinality({x \in S : Index[x] < Index[m]}) = k - 1
    BY DEF ByIndex
  <2>2. \E m \in S : Cardinality({x \in S : Index[x] < Index[m]}) = k - 1
    BY <1>4
  <2>. HIDE DEF r
  <2>3. r[k] \in S /\ Cardinality({x \in S : Index[x] < Index[r[k]]}) = k - 1
    BY <2>1, <2>2
  <2>. QED  BY <2>3
<1>5. IsRanking(r, below, S)
  <2>. HIDE DEF r, below
  <2>. QED  BY <1>3, <1>4 DEF IsRanking
<1>6. \A x, y \in S : x \in below[y] => Index[x] < Index[y]
  OBVIOUS
<1>. HIDE DEF below, r
<1>7. /\ r \in Seq(S) /\ Elements(r) = S /\ ~Repeats(r)
      /\ \A i, j \in 1 .. Len(r) : i < j => r[i] \in below[r[j]]
  BY <1>1, <1>2, <1>5, RankFacts
<1>8. \A i \in 1 .. Len(r) : r[i] \in S
  BY <1>7
<1>9. \A i, j \in 1 .. Len(r) : r[i] = r[j] => i = j
  BY <1>7 DEF Repeats
<1>. QED  BY <1>6, <1>7, <1>8, <1>9 DEF r

-----------------------------------------------------------------------------
\* Facts about sequences, phrased with Elements.
LEMMA ElementsAppend ==
  ASSUME NEW T, NEW s \in Seq(T), NEW e \in T
  PROVE  Elements(Append(s, e)) = Elements(s) \cup {e}
<1>1. /\ Len(s) \in Nat
      /\ Len(Append(s, e)) = Len(s) + 1
      /\ \A i \in 1 .. Len(s) : Append(s, e)[i] = s[i]
      /\ Append(s, e)[Len(s) + 1] = e
  BY AppendProperties, LenProperties
<1>2. \A i \in 1 .. Len(s) + 1 : i \in 1 .. Len(s) \/ i = Len(s) + 1
  BY <1>1
<1>3. \A i \in 1 .. Len(s) : i \in 1 .. Len(s) + 1
  BY <1>1
<1>4. Len(s) + 1 \in 1 .. Len(s) + 1
  BY <1>1
<1> QED  BY <1>1, <1>2, <1>3, <1>4 DEF Elements

\* Taking the head of a deque without repetitions and appending another list of
\* new elements gives a deque without repetitions.
LEMMA PopAndExtend ==
  ASSUME NEW T, NEW q \in Seq(T), NEW r \in Seq(T), q # << >>,
         \A i, j \in 1 .. Len(q) : q[i] = q[j] => i = j,
         \A i, j \in 1 .. Len(r) : r[i] = r[j] => i = j,
         Elements(q) \cap Elements(r) = {}
  PROVE  /\ Head(q) \in Elements(q)
         /\ Tail(q) \o r \in Seq(T)
         /\ Elements(Tail(q) \o r) = (Elements(q) \ {Head(q)}) \cup Elements(r)
         /\ \A i, j \in 1 .. Len(Tail(q) \o r) : (Tail(q) \o r)[i] = (Tail(q) \o r)[j] => i = j
<1> DEFINE t == Tail(q)
           c == Tail(q) \o r
<1>1. /\ Len(q) \in Nat \ {0}
      /\ Len(r) \in Nat
      /\ t \in Seq(T)
      /\ Len(t) = Len(q) - 1
      /\ \A i \in 1 .. Len(t) : t[i] = q[i + 1]
  BY HeadTailProperties, EmptySeq, LenProperties
<1>2. Head(q) = q[1]
  OBVIOUS
<1>3. /\ c \in Seq(T)
      /\ Len(c) = Len(t) + Len(r)
      /\ \A i \in 1 .. Len(t) + Len(r) : c[i] = IF i <= Len(t) THEN t[i] ELSE r[i - Len(t)]
  BY <1>1, ConcatProperties
<1>4. \A i \in 1 .. Len(c) : c[i] = IF i <= Len(t) THEN q[i + 1] ELSE r[i - Len(t)]
  BY <1>1, <1>3
<1>5. Head(q) \in Elements(q)
  BY <1>1, <1>2 DEF Elements
<1> HIDE DEF t, c
<1>6. Elements(c) = (Elements(q) \ {Head(q)}) \cup Elements(r)
  <2>1. ASSUME NEW i \in 1 .. Len(c)
        PROVE  c[i] \in (Elements(q) \ {Head(q)}) \cup Elements(r)
    <3>1. CASE i <= Len(t)
      <4>1. c[i] = q[i + 1] /\ i + 1 \in 1 .. Len(q) /\ i + 1 # 1
        BY <1>1, <1>3, <1>4, <3>1
      <4>2. 1 \in 1 .. Len(q)
        BY <1>1
      <4>3. q[i + 1] # q[1]
        BY <4>1, <4>2
      <4> QED  BY <1>2, <4>1, <4>3 DEF Elements
    <3>2. CASE ~(i <= Len(t))
      <4>1. c[i] = r[i - Len(t)] /\ i - Len(t) \in 1 .. Len(r)
        BY <1>1, <1>3, <1>4, <3>2
      <4> QED  BY <4>1 DEF Elements
    <3> QED  BY <3>1, <3>2
  <2>2. ASSUME NEW i \in 1 .. Len(q), q[i] # Head(q)
        PROVE  q[i] \in Elements(c)
    <3>1. i - 1 \in 1 .. Len(t) /\ i - 1 \in 1 .. Len(c)
      BY <1>1, <1>2, <1>3, <2>2
    <3>2. c[i - 1] = q[i]
      BY <1>1, <1>4, <3>1
    <3> QED  BY <3>1, <3>2 DEF Elements
  <2>3. ASSUME NEW i \in 1 .. Len(r)
        PROVE  r[i] \in Elements(c)
    <3>1. Len(t) + i \in 1 .. Len(c) /\ ~(Len(t) + i <= Len(t)) /\ (Len(t) + i) - Len(t) = i
      BY <1>1, <1>3
    <3>2. c[Len(t) + i] = r[i]
      BY <1>4, <3>1
    <3> QED  BY <3>1, <3>2 DEF Elements
  <2>4. Elements(c) \subseteq (Elements(q) \ {Head(q)}) \cup Elements(r)
    BY <2>1 DEF Elements
  <2>5. Elements(q) \ {Head(q)} \subseteq Elements(c)
    BY <2>2 DEF Elements
  <2>6. Elements(r) \subseteq Elements(c)
    BY <2>3 DEF Elements
  <2> QED  BY <2>4, <2>5, <2>6
<1>7. ASSUME NEW i \in 1 .. Len(c), NEW j \in 1 .. Len(c), c[i] = c[j]
      PROVE  i = j
  <2>1. CASE i <= Len(t) /\ j <= Len(t)
    <3>1. i + 1 \in 1 .. Len(q) /\ j + 1 \in 1 .. Len(q) /\ q[i + 1] = q[j + 1]
      BY <1>1, <1>3, <1>4, <1>7, <2>1
    <3> QED  BY <3>1
  <2>2. CASE ~(i <= Len(t)) /\ ~(j <= Len(t))
    <3>1. i - Len(t) \in 1 .. Len(r) /\ j - Len(t) \in 1 .. Len(r) /\ r[i - Len(t)] = r[j - Len(t)]
      BY <1>1, <1>3, <1>4, <1>7, <2>2
    <3>2. i - Len(t) = j - Len(t)
      BY <3>1
    <3> QED  BY <1>1, <3>2
  <2>3. ASSUME NEW k \in 1 .. Len(c), NEW l \in 1 .. Len(c), k <= Len(t), ~(l <= Len(t))
        PROVE  c[k] # c[l]
    <3>1. k + 1 \in 1 .. Len(q) /\ c[k] = q[k + 1]
      BY <1>1, <1>4, <2>3
    <3>2. l - Len(t) \in 1 .. Len(r) /\ c[l] = r[l - Len(t)]
      BY <1>1, <1>3, <1>4, <2>3
    <3>3. q[k + 1] \in Elements(q) /\ r[l - Len(t)] \in Elements(r)
      BY <3>1, <3>2 DEF Elements
    <3> QED  BY <3>1, <3>2, <3>3
  <2> QED  BY <1>7, <2>1, <2>2, <2>3
<1> QED  BY <1>3, <1>5, <1>6, <1>7 DEF c

-----------------------------------------------------------------------------
\* The graph of a plan is finite and no module is its own prerequisite.
LEMMA GraphFacts ==
  ASSUME NEW pl \in Plans
  PROVE  /\ Built(pl) \subseteq Module
         /\ IsFiniteSet(Built(pl))
         /\ Cardinality(Built(pl)) \in Nat
         /\ \A m : /\ Prereqs(pl, m) \subseteq Built(pl)
                   /\ m \notin Prereqs(pl, m)
                   /\ Dependents(pl, m) \subseteq Built(pl)
<1>1. Built(pl) \subseteq Module
  BY OrderAssumption DEF PlanType, Built
<1>2. IsFiniteSet(Built(pl)) /\ Cardinality(Built(pl)) \in Nat
  BY <1>1, OrderAssumption, FS_Subset, FS_CardinalityType
<1> QED  BY <1>1, <1>2 DEF Prereqs, Dependents

\* No prerequisite is missing exactly when their count is zero.
LEMMA NoneMissing ==
  ASSUME NEW pl \in Plans, NEW m, NEW D
  PROVE  /\ IsFiniteSet(Prereqs(pl, m) \ D)
         /\ Cardinality(Prereqs(pl, m) \ D) \in Nat
         /\ Cardinality(Prereqs(pl, m) \ D) = 0 <=> Prereqs(pl, m) \subseteq D
<1> DEFINE P == Prereqs(pl, m) \ D
<1>1. IsFiniteSet(P) /\ Cardinality(P) \in Nat
  BY GraphFacts, FS_Subset, FS_CardinalityType
<1>2. Cardinality(P) = 0 <=> P = {}
  BY <1>1, FS_EmptySet
<1>3. P = {} <=> Prereqs(pl, m) \subseteq D
  OBVIOUS
<1> QED  BY <1>1, <1>2, <1>3

\* Ordering one more module takes one off the missing prerequisites of those that
\* wait for it and of no other.
LEMMA OneFewerMissing ==
  ASSUME NEW pl \in Plans, NEW m, NEW D, NEW h, h \notin D
  PROVE  Cardinality(Prereqs(pl, m) \ (D \cup {h})) =
           IF h \in Prereqs(pl, m) THEN Cardinality(Prereqs(pl, m) \ D) - 1
                                   ELSE Cardinality(Prereqs(pl, m) \ D)
<1> DEFINE P == Prereqs(pl, m) \ D
<1>1. CASE h \in Prereqs(pl, m)
  <2>1. h \in P /\ Prereqs(pl, m) \ (D \cup {h}) = P \ {h} /\ IsFiniteSet(P)
    BY <1>1, NoneMissing
  <2> HIDE DEF P
  <2>2. Cardinality(P \ {h}) = Cardinality(P) - 1
    BY <2>1, FS_RemoveElement
  <2> QED  BY <1>1, <2>1, <2>2 DEF P
<1>2. CASE h \notin Prereqs(pl, m)
  <2>1. Prereqs(pl, m) \ (D \cup {h}) = P
    BY <1>2
  <2> QED  BY <1>2, <2>1
<1> QED  BY <1>1, <1>2

-----------------------------------------------------------------------------
\* Type correctness and the topological order are not inductive alone: a visit
\* needs to know what the deque and the in-degrees stand for.
Inv == TypeOK /\ TopologicalOrder /\ Bookkeeping

\* What a visit changes, seen through the sets the deque and the order hold.
LEMMA VisitFacts ==
  ASSUME Inv, Visit
  PROVE  /\ plan' = plan /\ pc' = pc /\ pc = "sort"
         /\ plan \in Plans
         /\ Head(ready) \in Built(plan)
         /\ Head(ready) \notin Elements(order)
         /\ Prereqs(plan, Head(ready)) \subseteq Elements(order)
         /\ order' \in Seq(Built(plan))
         /\ Elements(order') = Elements(order) \cup {Head(ready)}
         /\ ready' \in Seq(Built(plan))
         /\ Elements(ready') = (Elements(ready) \ {Head(ready)}) \cup Freed(Head(ready))
         /\ \A i, j \in 1 .. Len(ready') : ready'[i] = ready'[j] => i = j
         /\ Freed(Head(ready)) =
              {x \in Built(plan) : /\ ~(Prereqs(plan, x) \subseteq Elements(order))
                                   /\ Prereqs(plan, x) \subseteq Elements(order')}
         /\ indegree' = [x \in Built(plan) |-> Cardinality(Prereqs(plan, x) \ Elements(order'))]
<1> DEFINE h == Head(ready)
           D == Elements(order)
<1>1. /\ pc = "sort" /\ ready # << >> /\ plan \in Plans
      /\ order' = Append(order, h)
      /\ indegree' = Decremented(h)
      /\ ready' = Tail(ready) \o ByIndex(Freed(h))
      /\ plan' = plan /\ pc' = pc
  BY DEF Inv, TypeOK, Visit
<1>2. /\ ready \in Seq(Built(plan))
      /\ order \in Seq(Built(plan))
      /\ indegree = [x \in Built(plan) |-> Cardinality(Prereqs(plan, x) \ D)]
      /\ {x \in Built(plan) : Prereqs(plan, x) \subseteq D} = D \cup Elements(ready)
      /\ D \cap Elements(ready) = {}
      /\ \A i, j \in 1 .. Len(ready) : ready[i] = ready[j] => i = j
  BY <1>1 DEF Inv, TypeOK, Bookkeeping
<1>3. h \in Elements(ready) /\ h \in Built(plan)
  <2>1. Len(ready) \in Nat \ {0} /\ h = ready[1]
    BY <1>1, <1>2, EmptySeq, LenProperties
  <2>2. 1 \in 1 .. Len(ready)
    BY <2>1
  <2>3. h \in Elements(ready)
    BY <2>1, <2>2 DEF Elements
  <2> QED  BY <2>3, <1>2
<1>4. h \notin D /\ Prereqs(plan, h) \subseteq D
  BY <1>2, <1>3
<1> HIDE DEF h, D
<1>5. Elements(order') = D \cup {h} /\ order' \in Seq(Built(plan))
  BY <1>1, <1>2, <1>3, ElementsAppend, AppendProperties DEF D
<1>6. \A x \in Built(plan) :
        /\ indegree[x] = Cardinality(Prereqs(plan, x) \ D)
        /\ indegree'[x] = Cardinality(Prereqs(plan, x) \ Elements(order'))
  <2> SUFFICES ASSUME NEW x \in Built(plan)
               PROVE  /\ indegree[x] = Cardinality(Prereqs(plan, x) \ D)
                      /\ indegree'[x] = Cardinality(Prereqs(plan, x) \ Elements(order'))
    OBVIOUS
  <2>1. indegree[x] = Cardinality(Prereqs(plan, x) \ D)
    BY <1>2
  <2>2. indegree'[x] = IF h \in Prereqs(plan, x) THEN indegree[x] - 1 ELSE indegree[x]
    BY <1>1 DEF Decremented, Dependents
  <2>3. Cardinality(Prereqs(plan, x) \ (D \cup {h})) =
          IF h \in Prereqs(plan, x) THEN Cardinality(Prereqs(plan, x) \ D) - 1
                                    ELSE Cardinality(Prereqs(plan, x) \ D)
    <3>1. plan \in Plans /\ h \notin D
      BY <1>1, <1>4
    <3> QED  BY <3>1, OneFewerMissing
  <2> QED  BY <1>5, <2>1, <2>2, <2>3
<1>7. indegree' = [x \in Built(plan) |-> Cardinality(Prereqs(plan, x) \ Elements(order'))]
  <2>1. indegree' = [x \in Built(plan) |-> indegree'[x]]
    BY <1>1 DEF Decremented
  <2> QED  BY <1>6, <2>1
<1>8. Freed(h) = {x \in Built(plan) : /\ ~(Prereqs(plan, x) \subseteq D)
                                      /\ Prereqs(plan, x) \subseteq Elements(order')}
  <2>1. \A x : Freed(h) \subseteq Built(plan)
    BY DEF Freed, Dependents
  <2>2. ASSUME NEW x \in Built(plan)
        PROVE  x \in Freed(h) <=> /\ ~(Prereqs(plan, x) \subseteq D)
                                  /\ Prereqs(plan, x) \subseteq Elements(order')
    <3>1. x \in Freed(h) <=> h \in Prereqs(plan, x) /\ indegree'[x] = 0
      BY <1>1, <2>2 DEF Freed, Dependents
    <3>2. indegree'[x] = 0 <=> Prereqs(plan, x) \subseteq Elements(order')
      BY <1>1, <1>6, NoneMissing
    <3>3. Prereqs(plan, x) \subseteq D \cup {h} => (~(Prereqs(plan, x) \subseteq D) <=> h \in Prereqs(plan, x))
      BY <1>4
    <3> QED  BY <1>5, <3>1, <3>2, <3>3
  <2> QED  BY <2>1, <2>2
<1>9. /\ Freed(h) \in SUBSET Module
      /\ Freed(h) \subseteq Built(plan)
      /\ Freed(h) \cap Elements(ready) = {}
  BY <1>1, <1>2, <1>8, GraphFacts DEF D
<1>10. /\ ByIndex(Freed(h)) \in Seq(Freed(h))
       /\ Elements(ByIndex(Freed(h))) = Freed(h)
       /\ \A i, j \in 1 .. Len(ByIndex(Freed(h))) :
            ByIndex(Freed(h))[i] = ByIndex(Freed(h))[j] => i = j
  BY <1>9, ByIndexEnumerates
<1>11. ByIndex(Freed(h)) \in Seq(Built(plan))
  BY <1>9, <1>10, SeqDef
<1>12. /\ ready' \in Seq(Built(plan))
       /\ Elements(ready') = (Elements(ready) \ {h}) \cup Freed(h)
       /\ \A i, j \in 1 .. Len(ready') : ready'[i] = ready'[j] => i = j
  <2> DEFINE r == ByIndex(Freed(h))
  <2>1. /\ ready \in Seq(Built(plan)) /\ r \in Seq(Built(plan)) /\ ready # << >>
        /\ \A i, j \in 1 .. Len(ready) : ready[i] = ready[j] => i = j
        /\ \A i, j \in 1 .. Len(r) : r[i] = r[j] => i = j
        /\ Elements(ready) \cap Elements(r) = {}
        /\ Elements(r) = Freed(h)
        /\ ready' = Tail(ready) \o r
    BY <1>1, <1>2, <1>9, <1>10, <1>11
  <2> HIDE DEF r
  <2>2. /\ Tail(ready) \o r \in Seq(Built(plan))
        /\ Elements(Tail(ready) \o r) = (Elements(ready) \ {Head(ready)}) \cup Elements(r)
        /\ \A i, j \in 1 .. Len(Tail(ready) \o r) :
             (Tail(ready) \o r)[i] = (Tail(ready) \o r)[j] => i = j
    BY <2>1, PopAndExtend
  <2> QED  BY <2>1, <2>2 DEF h
<1> QED  BY <1>1, <1>3, <1>4, <1>5, <1>7, <1>8, <1>12 DEF h, D

-----------------------------------------------------------------------------
\* An order nobody has begun to build satisfies the invariant.
LEMMA InitInv == Init => Inv
<1> SUFFICES ASSUME Init PROVE Inv
  OBVIOUS
<1>1. << >> \in Seq(Built(plan)) /\ Len(<< >>) = 0
  BY EmptySeq
<1> QED  BY <1>1 DEF Init, Inv, TypeOK, TopologicalOrder, Bookkeeping

\* The tables and the first ready modules are right for an empty order.
LEMMA BuildInv == Inv /\ Build => Inv'
<1> SUFFICES ASSUME Inv, Build PROVE Inv'
  OBVIOUS
<1> DEFINE first == {m \in Built(plan) : Prereqs(plan, m) = {}}
<1>1. /\ pc = "build" /\ pc' = "sort" /\ plan' = plan /\ order' = order /\ order = << >>
      /\ plan \in Plans
      /\ indegree' = [m \in Built(plan) |-> Cardinality(Prereqs(plan, m))]
      /\ ready' = ByIndex(first)
  BY DEF Inv, TypeOK, Bookkeeping, Build
<1>2. first \in SUBSET Module /\ first \subseteq Built(plan)
  BY <1>1, GraphFacts
<1>3. /\ ready' \in Seq(first)
      /\ Elements(ready') = first
      /\ \A i, j \in 1 .. Len(ready') : ready'[i] = ready'[j] => i = j
  <2> HIDE DEF first
  <2> QED  BY <1>1, <1>2, ByIndexEnumerates
<1>4. Elements(order') = {} /\ Len(order') = 0 /\ order' \in Seq(Built(plan))
  BY <1>1, EmptySeq DEF Elements
<1>5. \A m \in Built(plan) : Cardinality(Prereqs(plan, m)) \in Nat /\ Prereqs(plan, m) \ {} = Prereqs(plan, m)
  BY <1>1, GraphFacts, FS_Subset, FS_CardinalityType
<1>6. TypeOK'
  <2>1. ready' \in Seq(Built(plan))
    BY <1>2, <1>3, SeqDef
  <2>2. indegree' \in [Built(plan) -> Nat]
    BY <1>1, <1>5
  <2> QED  BY <1>1, <1>4, <2>1, <2>2 DEF TypeOK
<1>7. TopologicalOrder'
  BY <1>4 DEF TopologicalOrder
<1>8. Bookkeeping'
  <2>1. indegree' = [m \in Built(plan) |-> Cardinality(Prereqs(plan, m) \ Elements(order'))]
    BY <1>1, <1>4, <1>5
  <2>2. {m \in Built(plan) : Prereqs(plan, m) \subseteq Elements(order')} = first
    BY <1>4
  <2> QED  BY <1>1, <1>3, <1>4, <2>1, <2>2 DEF Bookkeeping
<1> QED  BY <1>6, <1>7, <1>8 DEF Inv

\* One turn of the loop keeps the order closed under prerequisites, and the tables exact.
LEMMA VisitInv == Inv /\ Visit => Inv'
<1> SUFFICES ASSUME Inv, Visit PROVE Inv'
  OBVIOUS
<1> DEFINE h == Head(ready)
           n == Len(order)
<1>1. /\ plan' = plan /\ pc' = pc /\ pc = "sort" /\ plan \in Plans
      /\ order \in Seq(Built(plan)) /\ h \in Built(plan)
      /\ order' = Append(order, h)
      /\ TopologicalOrder /\ Bookkeeping
  BY VisitFacts DEF Inv, TypeOK, Visit
<1>2. TypeOK'
  <2>1. \A x : Cardinality(Prereqs(plan, x) \ Elements(order')) \in Nat
    BY <1>1, NoneMissing
  <2>2. indegree' \in [Built(plan) -> Nat]
    <3>1. indegree' = [x \in Built(plan) |-> Cardinality(Prereqs(plan, x) \ Elements(order'))]
      BY VisitFacts
    <3> QED  BY <2>1, <3>1
  <2>3. order' \in Seq(Built(plan)) /\ ready' \in Seq(Built(plan))
    BY VisitFacts
  <2> QED  BY <1>1, <2>2, <2>3 DEF TypeOK
<1>3. TopologicalOrder'
  <2>1. /\ n \in Nat /\ Len(order') = n + 1 /\ order'[n + 1] = h
        /\ \A i \in 1 .. n : order'[i] = order[i]
    BY <1>1, AppendProperties, LenProperties
  <2>2. \A i \in 1 .. n : order[i] # h
    BY VisitFacts DEF Elements
  <2>3. \A i \in 1 .. n + 1 : i \in 1 .. n \/ i = n + 1
    BY <2>1
  <2>4. \A i, j \in 1 .. Len(order') : order'[i] = order'[j] => i = j
    BY <1>1, <2>1, <2>2, <2>3 DEF TopologicalOrder
  <2>5. ASSUME NEW i \in 1 .. Len(order'), NEW p \in Prereqs(plan, order'[i])
        PROVE  \E j \in 1 .. i - 1 : order'[j] = p
    <3>1. CASE i \in 1 .. n
      <4>1. PICK j \in 1 .. i - 1 : order[j] = p
        BY <1>1, <2>1, <2>5, <3>1 DEF TopologicalOrder
      <4>2. j \in 1 .. n
        BY <2>1, <3>1
      <4> QED  BY <2>1, <4>1, <4>2
    <3>2. CASE i = n + 1
      <4>1. p \in Elements(order)
        BY <2>1, <2>5, <3>2, VisitFacts
      <4>2. PICK j \in 1 .. n : order[j] = p
        BY <4>1 DEF Elements
      <4>3. 1 .. i - 1 = 1 .. n
        BY <2>1, <3>2
      <4> QED  BY <2>1, <4>2, <4>3
    <3> QED  BY <2>1, <2>3, <3>1, <3>2
  <2> QED  BY <1>1, <2>4, <2>5 DEF TopologicalOrder
<1>4. Bookkeeping'
  <2> DEFINE D == Elements(order)
             E == Elements(order')
             Q == Elements(ready)
             R == Elements(ready')
             F == Freed(Head(ready))
  <2>1. /\ {m \in Built(plan) : Prereqs(plan, m) \subseteq D} = D \cup Q
        /\ D \cap Q = {}
        /\ h \in Built(plan) /\ h \notin D /\ Prereqs(plan, h) \subseteq D
        /\ E = D \cup {h}
        /\ R = (Q \ {h}) \cup F
        /\ F = {x \in Built(plan) : /\ ~(Prereqs(plan, x) \subseteq D)
                                    /\ Prereqs(plan, x) \subseteq E}
    BY <1>1, VisitFacts DEF Bookkeeping
  <2> HIDE DEF D, E, Q, R, F, h
  <2>2. {m \in Built(plan) : Prereqs(plan, m) \subseteq E} = E \cup R
    <3>1. \A m \in Built(plan) : Prereqs(plan, m) \subseteq E => m \in E \cup R
      BY <2>1
    <3>2. \A m \in E \cup R : m \in Built(plan) /\ Prereqs(plan, m) \subseteq E
      BY <2>1
    <3> QED  BY <3>1, <3>2
  <2>3. E \cap R = {}
    BY <2>1
  <2> QED  BY <1>1, <2>2, <2>3, VisitFacts DEF Bookkeeping, E, R
<1> QED  BY <1>2, <1>3, <1>4 DEF Inv

\* The verdict compares the length of the order with that of the plan.
LEMMA ConcludeInv == Inv /\ Conclude => Inv'
<1> SUFFICES ASSUME Inv, Conclude PROVE Inv'
  OBVIOUS
<1>1. TypeOK'
  BY DEF Inv, TypeOK, Conclude
<1>2. TopologicalOrder'
  BY DEF Inv, TopologicalOrder, Conclude
<1>3. Bookkeeping'
  BY DEF Inv, Bookkeeping, Conclude
<1> QED  BY <1>1, <1>2, <1>3 DEF Inv

\* The invariant holds all along every resolution.
THEOREM ResolutionInvariant == Spec => []Inv
<1>1. Inv /\ [Next]_vars => Inv'
  <2> SUFFICES ASSUME Inv, [Next]_vars PROVE Inv'
    OBVIOUS
  <2>1. CASE Build     BY <2>1, BuildInv
  <2>2. CASE Visit     BY <2>2, VisitInv
  <2>3. CASE Conclude  BY <2>3, ConcludeInv
  <2>4. CASE UNCHANGED vars
    BY <2>4 DEF Inv, TypeOK, TopologicalOrder, Bookkeeping, vars
  <2> QED  BY <2>1, <2>2, <2>3, <2>4 DEF Next
<1> QED  BY InitInv, <1>1, PTL DEF Spec

\* The tables and queues keep their types (TypeOK) for every plan.
THEOREM TypeCorrect == Spec => []TypeOK
<1>1. Inv => TypeOK  BY DEF Inv
<1> QED  BY <1>1, ResolutionInvariant, PTL

\* For every registry and profile, no module is ordered before a module it depends
\* on, and none is ordered twice.
THEOREM OrderIsTopological == Spec => []TopologicalOrder
<1>1. Inv => TopologicalOrder  BY DEF Inv
<1> QED  BY <1>1, ResolutionInvariant, PTL

\* For every plan, the deque and the in-degrees describe exactly what is left to do.
THEOREM BookkeepingIsExact == Spec => []Bookkeeping
<1>1. Inv => Bookkeeping  BY DEF Inv
<1> QED  BY <1>1, ResolutionInvariant, PTL

-----------------------------------------------------------------------------
\* Comparing two lengths, as the cycle check does, compares two sets of modules.
LEMMA CompleteOrder ==
  ASSUME Inv
  PROVE  /\ Elements(order) \subseteq Built(plan)
         /\ Len(order) = Cardinality(Built(plan)) <=> Elements(order) = Built(plan)
<1> DEFINE n == Len(order)
           B == Built(plan)
<1>1. /\ order \in Seq(B) /\ n \in Nat
      /\ IsFiniteSet(B) /\ Cardinality(B) \in Nat
      /\ \A i, j \in 1 .. n : order[i] = order[j] => i = j
  BY GraphFacts, LenProperties DEF Inv, TypeOK, TopologicalOrder
<1>2. order \in [1 .. n -> B]
  BY <1>1, LenProperties
<1>3. order \in Injection(1 .. n, B)
  BY <1>1, <1>2 DEF Injection, IsInjective
<1>4. Cardinality(1 .. n) = n
  <2>1. n \in Int /\ 1 \in Int /\ (1 > n => n = 0)
    BY <1>1
  <2> HIDE DEF n
  <2>2. Cardinality(1 .. n) = IF 1 > n THEN 0 ELSE n - 1 + 1
    BY <2>1, FS_Interval
  <2> QED  BY <2>1, <2>2
<1>5. n = Cardinality(B) <=> order \in Surjection(1 .. n, B)
  BY <1>1, <1>3, <1>4, FS_Injection
<1>6. order \in Surjection(1 .. n, B) <=> \A b \in B : \E i \in 1 .. n : order[i] = b
  BY <1>2 DEF Surjection
<1>7. Elements(order) \subseteq B
  BY <1>2 DEF Elements
<1>8. Elements(order) = B <=> \A b \in B : \E i \in 1 .. n : order[i] = b
  BY <1>7 DEF Elements
<1> QED  BY <1>5, <1>6, <1>7, <1>8

\* With an empty deque and modules left over, the leftovers wait for each other.
LEMMA LeftoversDeadlocked ==
  ASSUME Inv, pc # "build", ready = << >>, Elements(order) # Built(plan)
  PROVE  Deadlocked(plan, Built(plan) \ Elements(order))
<1>1. Elements(order) \subseteq Built(plan)
  BY CompleteOrder
<1>2. Elements(ready) = {}
  BY EmptySeq DEF Elements
<1>3. {m \in Built(plan) : Prereqs(plan, m) \subseteq Elements(order)} = Elements(order)
  BY <1>2 DEF Inv, Bookkeeping
<1>4. \A m : Prereqs(plan, m) \subseteq Built(plan)
  BY GraphFacts DEF Inv, TypeOK
<1> QED  BY <1>1, <1>3, <1>4 DEF Deadlocked

\* A short order means a cycle, an order of full length holds every module.
LEMMA VerdictIsRight == Inv => RejectsOnlyCycles
<1> SUFFICES ASSUME Inv PROVE RejectsOnlyCycles
  OBVIOUS
<1>1. ASSUME pc = "rejected" PROVE HasDependencyCycle(plan)
  <2>1. ready = << >> /\ Len(order) # Cardinality(Built(plan))
    BY <1>1 DEF Inv, Bookkeeping
  <2>2. Deadlocked(plan, Built(plan) \ Elements(order))
    BY <1>1, <2>1, CompleteOrder, LeftoversDeadlocked
  <2> QED  BY <2>2 DEF HasDependencyCycle
<1>2. ASSUME pc = "resolved" PROVE Elements(order) = Built(plan)
  BY <1>2, CompleteOrder DEF Inv, Bookkeeping
<1> QED  BY <1>1, <1>2 DEF RejectsOnlyCycles

\* For every plan, PipelineError is raised only when modules wait for each other in
\* a cycle, and an order that is returned holds every module of the plan.
THEOREM RejectionIsJustified == Spec => []RejectsOnlyCycles
BY VerdictIsRight, ResolutionInvariant, PTL

-----------------------------------------------------------------------------
\* No module of a dependency cycle is ever ordered: the reason why a cycle can
\* only be found when the deque runs dry.
CyclesNeverOrdered ==
  \A S : Deadlocked(plan, S) => S \cap Elements(order) = {}

\* No plan with a dependency cycle is ever given an order: together with
\* RejectionIsJustified, _resolve_order rejects exactly the cyclic plans.
THEOREM ResolvedPlansAreAcyclic == Spec => [](pc = "resolved" => ~HasDependencyCycle(plan))
<1>1. Init => CyclesNeverOrdered
  BY EmptySeq DEF Init, CyclesNeverOrdered, Elements
<1>2. Inv /\ CyclesNeverOrdered /\ [Next]_vars => CyclesNeverOrdered'
  <2> SUFFICES ASSUME Inv, CyclesNeverOrdered, [Next]_vars PROVE CyclesNeverOrdered'
    OBVIOUS
  <2>1. CASE Visit
    <3>1. /\ plan' = plan
          /\ Elements(order') = Elements(order) \cup {Head(ready)}
          /\ Prereqs(plan, Head(ready)) \subseteq Elements(order)
      BY <2>1, VisitFacts
    <3>2. ASSUME NEW S, Deadlocked(plan, S) PROVE Head(ready) \notin S
      BY <3>1, <3>2 DEF CyclesNeverOrdered, Deadlocked
    <3> QED  BY <3>1, <3>2 DEF CyclesNeverOrdered
  <2>2. CASE plan' = plan /\ order' = order
    BY <2>2 DEF CyclesNeverOrdered
  <2> QED  BY <2>1, <2>2 DEF Next, Build, Conclude, vars
<1>3. Inv /\ CyclesNeverOrdered => (pc = "resolved" => ~HasDependencyCycle(plan))
  <2> SUFFICES ASSUME Inv, CyclesNeverOrdered, pc = "resolved",
                      NEW S \in SUBSET Built(plan), Deadlocked(plan, S)
               PROVE  FALSE
    BY DEF HasDependencyCycle
  <2>1. Elements(order) = Built(plan)
    BY VerdictIsRight DEF RejectsOnlyCycles
  <2> QED  BY <2>1 DEF CyclesNeverOrdered, Deadlocked
<1> QED  BY ResolutionInvariant, <1>1, <1>2, <1>3, PTL DEF Spec

-----------------------------------------------------------------------------
\* Each turn of Kahn's algorithm is a step of the abstract topological sort.
LEMMA StepRefinement == Inv /\ [Next]_vars => [Sort!Next]_Sort!vars
<1> SUFFICES ASSUME Inv, [Next]_vars PROVE [Sort!Next]_Sort!vars
  OBVIOUS
<1>1. CASE Build
  BY <1>1 DEF Build, Sort!vars, Inv, TypeOK
<1>2. CASE Visit
  <2>1. /\ plan' = plan /\ pc' = pc /\ pc = "sort"
        /\ Head(ready) \in Built(plan) \ Elements(order)
        /\ Prereqs(plan, Head(ready)) \subseteq Elements(order)
    BY <1>2, VisitFacts
  <2>2. order' = Append(order, Head(ready))
    BY <1>2 DEF Visit
  <2>3. Sort!Emit(Head(ready))
    BY <2>1, <2>2 DEF Sort!Emit, Sort!CanEmit, Sort!Emitted, Sort!Built, Sort!Prereqs,
                      Built, Prereqs, Sort!Producers, Producers, Elements
  <2> QED  BY <2>1, <2>3 DEF Sort!Next, Sort!Built, Built
<1>3. CASE Conclude
  <2>1. /\ pc = "sort" /\ ready = << >>
        /\ pc' = IF Len(order) = Cardinality(Built(plan)) THEN "resolved" ELSE "rejected"
        /\ plan' = plan /\ order' = order
    BY <1>3 DEF Conclude
  <2>2. CASE Len(order) = Cardinality(Built(plan))
    <3>1. Elements(order) = Built(plan)
      BY <2>2, CompleteOrder
    <3> QED  BY <2>1, <2>2, <3>1 DEF Sort!Next, Sort!Resolve, Sort!Emitted, Sort!Built, Built, Elements
  <2>3. CASE Len(order) # Cardinality(Built(plan))
    <3>1. Elements(order) # Built(plan)
      BY <2>3, CompleteOrder
    <3>2. Deadlocked(plan, Built(plan) \ Elements(order))
      BY <2>1, <3>1, LeftoversDeadlocked
    <3>3. \A m \in Built(plan) : ~(m \notin Elements(order) /\ Prereqs(plan, m) \subseteq Elements(order))
      BY <3>2 DEF Deadlocked
    <3>4. Sort!Reject
      BY <2>1, <2>3, <3>1, <3>3 DEF Sort!Reject, Sort!CanEmit, Sort!Emitted, Sort!Built, Sort!Prereqs,
                      Built, Prereqs, Sort!Producers, Producers, Elements
    <3> QED  BY <3>4 DEF Sort!Next
  <2> QED  BY <2>2, <2>3
<1>4. CASE UNCHANGED vars
  BY <1>4 DEF vars, Sort!vars
<1> QED  BY <1>1, <1>2, <1>3, <1>4 DEF Next

\* Kahn's algorithm implements the abstract topological sort, for every plan.
THEOREM KahnImplementsSort == Spec => ImplementsSort
<1>1. Init => Sort!Init
  BY DEF Init, Sort!Init
<1> QED  BY <1>1, StepRefinement, ResolutionInvariant, PTL DEF Spec, ImplementsSort, Sort!Spec

-----------------------------------------------------------------------------
\* The order does not depend on how sets are iterated.  The module that released another
\* stays the last of its prerequisites, and the deque is what the order goes on with.
Releasing(m) == {i \in 1 .. Len(order) : order[i] \in Prereqs(plan, m)}

\* The last of a set of positions, 0 of none.
LastPosition(S) == CHOOSE i \in {0} \cup S : \A k \in {0} \cup S : k <= i

LEMMA LastPositionFacts ==
  ASSUME NEW n \in Nat, NEW S \in SUBSET (1 .. n)
  PROVE  /\ LastPosition(S) \in 0 .. n
         /\ LastPosition(S) \in {0} \cup S
         /\ \A k \in {0} \cup S : k <= LastPosition(S)
<1>. DEFINE at == {0} \cup S
<1>1. \E i \in at : \A k \in at : k <= i
  <2>1. CASE S = {}
    BY <2>1
  <2>2. CASE S # {}
    <3>1. PICK i \in S : \A k \in S : k <= i
      BY <2>2, GreatestNatural
    <3>. QED  BY <3>1
  <2>. QED  BY <2>1, <2>2
<1>2. LastPosition(S) = CHOOSE i \in at : \A k \in at : k <= i
  BY DEF LastPosition
<1>3. at \subseteq 0 .. n
  OBVIOUS
<1>. HIDE DEF at
<1>4. LastPosition(S) \in at /\ \A k \in at : k <= LastPosition(S)
  BY <1>1, <1>2
<1>. QED  BY <1>3, <1>4 DEF at

LEMMA LastPrereqIsLast == \A m : LastPrereq(m) = LastPosition(Releasing(m))
BY DEF LastPrereq, Releasing, LastPosition

LEMMA LastPrereqFacts ==
  ASSUME order \in Seq(Built(plan)), NEW m
  PROVE  /\ LastPrereq(m) \in 0 .. Len(order)
         /\ LastPrereq(m) \in {0} \cup Releasing(m)
         /\ \A k \in {0} \cup Releasing(m) : k <= LastPrereq(m)
<1>1. Len(order) \in Nat /\ Releasing(m) \in SUBSET (1 .. Len(order))
  BY DEF Releasing
<1>. QED  BY <1>1, LastPositionFacts, LastPrereqIsLast

Release == [m \in Built(plan) |-> LastPrereq(m)]

\* a is ordered before b, by when they are released and by their registration.
Precedes(release, a, b) ==
  \/ release[a] < release[b]
  \/ release[a] = release[b] /\ Index[a] < Index[b]

DequeInv ==
  /\ \A i, j \in 1 .. Len(order) : i < j => Precedes(Release, order[i], order[j])
  /\ \A i \in 1 .. Len(order), j \in 1 .. Len(ready) : Precedes(Release, order[i], ready[j])
  /\ \A i, j \in 1 .. Len(ready) : i < j => Precedes(Release, ready[i], ready[j])

\* What was known stays: the module ordered now is nobody's prerequisite that has all of its.
LEMMA ReleasedStays ==
  ASSUME Inv, Visit, NEW m, Prereqs(plan, m) \subseteq Elements(order)
  PROVE  LastPrereq(m)' = LastPrereq(m)
<1>. DEFINE h == Head(ready)
<1>1. /\ plan' = plan /\ order \in Seq(Built(plan)) /\ order' \in Seq(Built(plan)')
      /\ h \notin Elements(order) /\ order' = Append(order, h) /\ h \in Built(plan)
  BY VisitFacts DEF Inv, TypeOK, Visit
<1>. HIDE DEF h
<1>2. /\ Len(order) \in Nat /\ Len(order') = Len(order) + 1 /\ order'[Len(order) + 1] = h
      /\ \A i \in 1 .. Len(order) : order'[i] = order[i]
  BY <1>1, AppendProperties
<1>3. Releasing(m)' = Releasing(m)
  BY <1>1, <1>2 DEF Releasing
<1>. QED  BY <1>3 DEF LastPrereq, Releasing

LEMMA ReleasedNow ==
  ASSUME Inv, Visit, NEW m \in Freed(Head(ready))
  PROVE  LastPrereq(m)' = Len(order) + 1
<1>. DEFINE h == Head(ready)
<1>1. /\ plan' = plan /\ order \in Seq(Built(plan)) /\ order' \in Seq(Built(plan)')
      /\ order' = Append(order, h) /\ h \in Built(plan) /\ h \in Prereqs(plan, m)
  BY VisitFacts DEF Inv, TypeOK, Visit, Freed, Dependents
<1>. HIDE DEF h
<1>2. Len(order) \in Nat /\ Len(order') = Len(order) + 1 /\ order'[Len(order) + 1] = h
  BY <1>1, AppendProperties
<1>3. Len(order) + 1 \in Releasing(m)' /\ Releasing(m)' \subseteq 1 .. Len(order) + 1
  BY <1>1, <1>2 DEF Releasing
<1>4. LastPrereq(m)' = LastPosition(Releasing(m)')
  BY DEF LastPrereq, Releasing, LastPosition
<1>5. /\ LastPosition(Releasing(m)') \in {0} \cup Releasing(m)'
      /\ \A k \in {0} \cup Releasing(m)' : k <= LastPosition(Releasing(m)')
  BY <1>2, <1>3, LastPositionFacts
<1>. QED  BY <1>2, <1>3, <1>4, <1>5

LEMMA DequeInit == Init => DequeInv
BY DEF Init, DequeInv

LEMMA DequeBuild ==
  ASSUME Inv, Build
  PROVE  DequeInv'
<1>. DEFINE first == {m \in Built(plan) : Prereqs(plan, m) = {}}
<1>1. /\ order = << >> /\ order' = order /\ plan' = plan /\ plan \in Plans
      /\ ready' = ByIndex(first)
  BY DEF Inv, TypeOK, Bookkeeping, Build
<1>2. first \in SUBSET Module
  BY <1>1, GraphFacts
<1>. HIDE DEF first
<1>3. \A i, j \in 1 .. Len(ready') : i < j => Index[ready'[i]] < Index[ready'[j]]
  BY <1>1, <1>2, ByIndexEnumerates
<1>4. \A m \in Built(plan) : Release'[m] = 0
  <2>. TAKE m \in Built(plan)
  <2>1. Releasing(m)' = {}
    BY <1>1 DEF Releasing
  <2>2. LastPrereq(m)' = LastPosition(Releasing(m)')
    BY DEF LastPrereq, Releasing, LastPosition
  <2>3. LastPosition({}) = 0
    BY LastPositionFacts
  <2>. QED  BY <1>1, <2>1, <2>2, <2>3 DEF Release
<1>5. Len(order') = 0 /\ \A i \in 1 .. Len(ready') : ready'[i] \in Built(plan)
  <2>1. ready' \in Seq(first) /\ first \subseteq Built(plan)
    BY <1>1, <1>2, ByIndexEnumerates DEF first
  <2>. QED  BY <1>1, <2>1
<1>. QED  BY <1>3, <1>4, <1>5 DEF DequeInv, Precedes

LEMMA DequeVisit ==
  ASSUME Inv, DequeInv, Visit
  PROVE  DequeInv'
<1>. DEFINE h == Head(ready)
            n == Len(order)
            t == Tail(ready)
            f == ByIndex(Freed(h))
<1>1. /\ plan' = plan /\ plan \in Plans /\ pc = "sort" /\ ready # << >>
      /\ order \in Seq(Built(plan)) /\ ready \in Seq(Built(plan))
      /\ order' = Append(order, h) /\ ready' = t \o f
      /\ {x \in Built(plan) : Prereqs(plan, x) \subseteq Elements(order)} = Elements(order) \cup Elements(ready)
  BY VisitFacts DEF Inv, TypeOK, Bookkeeping, Visit
<1>2. /\ h = ready[1] /\ t \in Seq(Built(plan)) /\ Len(ready) \in Nat \ {0}
      /\ Len(t) = Len(ready) - 1 /\ \A i \in 1 .. Len(t) : t[i] = ready[i + 1]
  BY <1>1, HeadTailProperties
<1>3. Freed(h) \in SUBSET Module /\ Freed(h) \subseteq Built(plan)
  BY <1>1, GraphFacts DEF Freed
<1>4. /\ f \in Seq(Freed(h)) /\ Elements(f) = Freed(h)
      /\ \A i, j \in 1 .. Len(f) : i < j => Index[f[i]] < Index[f[j]]
  BY <1>3, ByIndexEnumerates
<1>5. f \in Seq(Built(plan)) /\ h \in Built(plan)
  BY <1>1, <1>2, <1>3, <1>4, SeqMonotonic
<1>. HIDE DEF h, f, t
<1>6. /\ n \in Nat /\ Len(order') = n + 1 /\ order'[n + 1] = h
      /\ \A i \in 1 .. n : order'[i] = order[i]
  BY <1>1, <1>5, AppendProperties
<1>7. /\ Len(t) \in Nat /\ Len(f) \in Nat /\ Len(ready') = Len(t) + Len(f)
      /\ \A i \in 1 .. Len(ready') : ready'[i] = IF i <= Len(t) THEN t[i] ELSE f[i - Len(t)]
  BY <1>1, <1>2, <1>5, ConcatProperties
<1>. HIDE DEF n
\* The modules known before keep their place, those released now come after all of them.
<1>8. \A x \in Elements(order) \cup Elements(ready) :
        Release'[x] = Release[x] /\ Release[x] \in 0 .. n
  <2>. TAKE x \in Elements(order) \cup Elements(ready)
  <2>1. x \in Built(plan) /\ Prereqs(plan, x) \subseteq Elements(order)
    BY <1>1
  <2>2. LastPrereq(x)' = LastPrereq(x) /\ LastPrereq(x) \in 0 .. n
    BY <1>1, <2>1, ReleasedStays, LastPrereqFacts DEF n
  <2>. QED  BY <1>1, <2>1, <2>2 DEF Release
<1>9. \A x \in Freed(h) : Release'[x] = n + 1
  <2>. TAKE x \in Freed(h)
  <2>1. LastPrereq(x)' = n + 1
    BY ReleasedNow DEF h, n
  <2>. QED  BY <1>1, <1>3, <2>1 DEF Release
<1>10. /\ \A i \in 1 .. n : order[i] \in Elements(order)
       /\ \A i \in 1 .. Len(ready) : ready[i] \in Elements(ready)
       /\ \A i \in 1 .. Len(f) : f[i] \in Freed(h)
  BY <1>4 DEF Elements, n
<1>11. \A x, y \in Elements(order) \cup Elements(ready) : Precedes(Release, x, y) => Precedes(Release', x, y)
  BY <1>8 DEF Precedes
<1>12. \A x \in Elements(order) \cup Elements(ready), y \in Freed(h) : Precedes(Release', x, y)
  BY <1>6, <1>8, <1>9 DEF Precedes
<1>13. 1 \in 1 .. Len(ready) /\ \A i \in 1 .. Len(t) : i + 1 \in 1 .. Len(ready) /\ 1 < i + 1
  BY <1>2, <1>7
<1>14. ASSUME NEW i \in 1 .. n + 1, NEW j \in 1 .. n + 1, i < j  PROVE Precedes(Release', order'[i], order'[j])
  <2>1. i \in 1 .. n
    BY <1>6, <1>14
  <2>2. CASE j \in 1 .. n
    <3>1. Precedes(Release, order[i], order[j])
      BY <1>14, <2>1, <2>2 DEF DequeInv, n
    <3>2. Precedes(Release', order[i], order[j])
      BY <1>10, <1>11, <2>1, <2>2, <3>1
    <3>. QED  BY <1>6, <2>1, <2>2, <3>2
  <2>3. CASE j = n + 1
    <3>1. Precedes(Release, order[i], ready[1])
      BY <1>13, <2>1 DEF DequeInv, n
    <3>. QED  BY <1>2, <1>6, <1>10, <1>11, <1>13, <2>1, <2>3, <3>1
  <2>. QED  BY <1>6, <2>2, <2>3
<1>15. ASSUME NEW i \in 1 .. n + 1, NEW j \in 1 .. Len(ready')  PROVE Precedes(Release', order'[i], ready'[j])
  <2>1. order'[i] \in Elements(order) \cup Elements(ready)
    BY <1>2, <1>6, <1>10, <1>13
  <2>2. CASE j <= Len(t)
    <3>1. ready'[j] = ready[j + 1] /\ j + 1 \in 1 .. Len(ready) /\ 1 < j + 1
      BY <1>2, <1>7, <1>13, <2>2
    <3>2. Precedes(Release, order'[i], ready[j + 1])
      <4>1. CASE i \in 1 .. n
        BY <1>6, <3>1, <4>1 DEF DequeInv, n
      <4>2. CASE i = n + 1
        BY <1>2, <1>6, <1>13, <3>1, <4>2 DEF DequeInv
      <4>. QED  BY <1>6, <4>1, <4>2
    <3>. QED  BY <1>10, <1>11, <2>1, <3>1, <3>2
  <2>3. CASE ~(j <= Len(t))
    <3>1. ready'[j] = f[j - Len(t)] /\ j - Len(t) \in 1 .. Len(f)
      BY <1>7, <2>3
    <3>. QED  BY <1>10, <1>12, <2>1, <3>1
  <2>. QED  BY <2>2, <2>3
<1>16. ASSUME NEW i \in 1 .. Len(ready'), NEW j \in 1 .. Len(ready'), i < j
       PROVE  Precedes(Release', ready'[i], ready'[j])
  <2>1. CASE j <= Len(t)
    <3>0. i \in 1 .. Len(t) /\ j \in 1 .. Len(t) /\ i <= Len(t)
      BY <1>7, <1>16, <2>1
    <3>1. /\ ready'[i] = ready[i + 1] /\ i + 1 \in 1 .. Len(ready)
          /\ ready'[j] = ready[j + 1] /\ j + 1 \in 1 .. Len(ready) /\ i + 1 < j + 1
      <4>1. ready'[i] = t[i] /\ ready'[j] = t[j]
        BY <1>7, <1>16, <2>1, <3>0
      <4>2. t[i] = ready[i + 1] /\ t[j] = ready[j + 1]
        BY <1>2, <3>0
      <4>. QED  BY <1>7, <1>13, <1>16, <3>0, <4>1, <4>2
    <3>2. Precedes(Release, ready[i + 1], ready[j + 1])
      BY <3>1 DEF DequeInv
    <3>. QED  BY <1>10, <1>11, <3>1, <3>2
  <2>2. CASE i <= Len(t) /\ ~(j <= Len(t))
    <3>0. i \in 1 .. Len(t) /\ j - Len(t) \in 1 .. Len(f)
      BY <1>7, <2>2
    <3>1. /\ ready'[i] = ready[i + 1] /\ i + 1 \in 1 .. Len(ready)
          /\ ready'[j] = f[j - Len(t)] /\ j - Len(t) \in 1 .. Len(f)
      <4>1. ready'[i] = t[i] /\ ready'[j] = f[j - Len(t)]
        BY <1>7, <2>2
      <4>2. t[i] = ready[i + 1]
        BY <1>2, <3>0
      <4>. QED  BY <1>13, <3>0, <4>1, <4>2
    <3>. QED  BY <1>10, <1>12, <3>1
  <2>3. CASE ~(i <= Len(t)) /\ ~(j <= Len(t))
    <3>1. /\ ready'[i] = f[i - Len(t)] /\ i - Len(t) \in 1 .. Len(f)
          /\ ready'[j] = f[j - Len(t)] /\ j - Len(t) \in 1 .. Len(f) /\ i - Len(t) < j - Len(t)
      BY <1>7, <1>16, <2>3
    <3>2. Index[ready'[i]] < Index[ready'[j]]
      BY <1>4, <3>1
    <3>3. Release'[ready'[i]] = n + 1 /\ Release'[ready'[j]] = n + 1
      BY <1>9, <1>10, <3>1
    <3>. QED  BY <3>2, <3>3 DEF Precedes
  <2>. QED  BY <1>7, <1>16, <2>1, <2>2, <2>3
<1>. QED  BY <1>6, <1>14, <1>15, <1>16 DEF DequeInv

\* Modules follow the module that released them, and among those the registration order:
\* the resolved order is a function of the plan (_resolve_order, its FIFO and sorted()).
THEOREM OrderIsStable == Spec => []StableOrder
<1>1. Init => DequeInv
  BY DequeInit
<1>2. Inv /\ DequeInv /\ [Next]_vars => DequeInv'
  <2>. SUFFICES ASSUME Inv, DequeInv, [Next]_vars PROVE DequeInv'
    OBVIOUS
  <2>1. CASE Conclude \/ UNCHANGED vars
    <3>1. plan' = plan /\ ready' = ready /\ order' = order
      BY <2>1 DEF Conclude, vars
    <3>2. \A m : LastPrereq(m)' = LastPrereq(m)
      BY <3>1 DEF LastPrereq
    <3>3. Release' = Release
      BY <3>1, <3>2 DEF Release
    <3>. QED  BY <3>1, <3>3 DEF DequeInv
  <2>. QED  BY <2>1, DequeBuild, DequeVisit DEF Next
<1>3. Inv /\ DequeInv => StableOrder
  <2>. SUFFICES ASSUME Inv, DequeInv PROVE StableOrder
    OBVIOUS
  <2>1. \A i \in 1 .. Len(order) : Release[order[i]] = LastPrereq(order[i])
    BY DEF Inv, TypeOK, Release
  <2>. QED  BY <2>1 DEF DequeInv, StableOrder, Precedes
<1>. QED  BY <1>1, <1>2, <1>3, ResolutionInvariant, PTL DEF Spec

-----------------------------------------------------------------------------
\* The run.  What it uses of the order is the invariant of its resolution.
\* A list of modules of the plan, each once and none before one that it waits for.
Distinct(s) == \A i, j \in 1 .. Len(s) : s[i] = s[j] => i = j
NoneAwaits(s) == \A i, j \in 1 .. Len(s) : i < j => s[j] \notin Prereqs(plan, s[i])
Listed(s) == s \in Seq(Built(plan)) /\ Distinct(s) /\ NoneAwaits(s)

LEMMA ResolvedFacts ==
  ASSUME Inv, pc = "resolved"
  PROVE  Listed(order) /\ Elements(order) = Built(plan) /\ Built(plan) \subseteq Module
<1>1. order \in Seq(Built(plan)) /\ plan \in Plans /\ TopologicalOrder
  BY DEF Inv, TypeOK
<1>2. Elements(order) = Built(plan)
  BY VerdictIsRight DEF RejectsOnlyCycles
<1>3. Distinct(order)
  BY <1>1 DEF TopologicalOrder, Distinct
<1>4. ASSUME NEW i \in 1 .. Len(order), NEW j \in 1 .. Len(order), i < j,
             order[j] \in Prereqs(plan, order[i])
      PROVE  FALSE
  <2>1. PICK k \in 1 .. i - 1 : order[k] = order[j]
    BY <1>1, <1>4 DEF TopologicalOrder
  <2>2. k \in 1 .. Len(order) /\ k # j
    BY <1>4, <2>1
  <2>. QED  BY <1>3, <2>1, <2>2 DEF Distinct
<1>. QED  BY <1>1, <1>2, <1>3, <1>4, GraphFacts DEF Listed, NoneAwaits

\* What is taken out of such a list, in its order, is such a list.
LEMMA FilteredListed ==
  ASSUME NEW s, NEW S, Listed(s)
  PROVE  Listed(Filtered(s, S)) /\ Elements(Filtered(s, S)) = Elements(s) \cap S
<1>. DEFINE F == Filtered(s, S)
<1>1. s \in Seq(Built(plan)) /\ Distinct(s) /\ NoneAwaits(s)
  BY DEF Listed
<1>2. F \in Seq(Built(plan)) /\ Elements(F) = Elements(s) \cap S
  BY <1>1, FilteredType, FilteredFacts
<1>3. \A i, j \in 1 .. Len(F) : i < j =>
        \E k, l \in 1 .. Len(s) : k < l /\ s[k] = F[i] /\ s[l] = F[j]
  BY <1>1, FilteredOrder
<1>. HIDE DEF F
<1>4. NoneAwaits(F)
  BY <1>1, <1>3 DEF NoneAwaits
<1>5. ASSUME NEW i \in 1 .. Len(F), NEW j \in 1 .. Len(F), i < j  PROVE F[i] # F[j]
  <2>1. PICK k \in 1 .. Len(s), l \in 1 .. Len(s) : k < l /\ s[k] = F[i] /\ s[l] = F[j]
    BY <1>3, <1>5
  <2>. QED  BY <1>1, <2>1 DEF Distinct
<1>6. Distinct(F)
  <2>1. SUFFICES ASSUME NEW i \in 1 .. Len(F), NEW j \in 1 .. Len(F), F[i] = F[j]  PROVE i = j
    BY DEF Distinct
  <2>2. ~(i < j) /\ ~(j < i)
    BY <1>5, <2>1
  <2>. QED  BY <2>2
<1>. QED  BY <1>2, <1>4, <1>6 DEF Listed, F

LEMMA ListedTail ==
  ASSUME NEW s, Listed(s), s # << >>
  PROVE  /\ Listed(Tail(s)) /\ Head(s) \in Built(plan)
         /\ Elements(s) = Elements(Tail(s)) \cup {Head(s)}
         /\ Head(s) \notin Elements(Tail(s))
         /\ Elements(Tail(s)) \cap Prereqs(plan, Head(s)) = {}
<1>. DEFINE t == Tail(s)
<1>1. s \in Seq(Built(plan)) /\ Distinct(s) /\ NoneAwaits(s)
  BY DEF Listed
<1>2. /\ Head(s) \in Built(plan) /\ Head(s) = s[1] /\ t \in Seq(Built(plan))
      /\ Len(s) \in Nat \ {0} /\ Len(t) = Len(s) - 1
      /\ \A i \in 1 .. Len(t) : t[i] = s[i + 1]
  BY <1>1, HeadTailProperties, EmptySeq
<1>3. Elements(s) = Elements(t) \cup {Head(s)}
  BY <1>1, ElementsOfTail
<1>. HIDE DEF t
<1>4. \A i \in 1 .. Len(t) : i + 1 \in 1 .. Len(s) /\ 1 < i + 1 /\ t[i] = s[i + 1] /\ 1 \in 1 .. Len(s)
  BY <1>2
<1>5. Head(s) \notin Elements(t) /\ Elements(t) \cap Prereqs(plan, Head(s)) = {}
  <2>1. \A i \in 1 .. Len(t) : t[i] # s[1] /\ t[i] \notin Prereqs(plan, s[1])
    <3>. TAKE i \in 1 .. Len(t)
    <3>1. i + 1 \in 1 .. Len(s) /\ 1 < i + 1 /\ t[i] = s[i + 1] /\ 1 \in 1 .. Len(s) /\ i + 1 # 1
      BY <1>4
    <3>. QED  BY <1>1, <3>1 DEF Distinct, NoneAwaits
  <2>. QED  BY <1>2, <2>1 DEF Elements
<1>6. Distinct(t)
  <2>1. SUFFICES ASSUME NEW i \in 1 .. Len(t), NEW j \in 1 .. Len(t), t[i] = t[j]  PROVE i = j
    BY DEF Distinct
  <2>2. i + 1 = j + 1
    BY <1>1, <1>4, <2>1 DEF Distinct
  <2>. QED  BY <2>2
<1>7. NoneAwaits(t)
  <2>1. SUFFICES ASSUME NEW i \in 1 .. Len(t), NEW j \in 1 .. Len(t), i < j
                 PROVE  t[j] \notin Prereqs(plan, t[i])
    BY DEF NoneAwaits
  <2>2. i + 1 < j + 1
    BY <2>1
  <2>. QED  BY <1>1, <1>4, <2>2 DEF NoneAwaits
<1>. QED  BY <1>2, <1>3, <1>5, <1>6, <1>7 DEF Listed, t

-----------------------------------------------------------------------------
\* What is left to run is a list of the plan; the phases go with the number of rounds.
RunInv ==
  /\ Inv
  /\ loop \in LoopConfigs /\ rnd \in Nat
  /\ phase \in {"building", "single", "cycle", "finalize", "done"}
  /\ phase # "building" => pc = "resolved"
  /\ phase = "building" => todo = << >> /\ results = << >> /\ prev = -1
  /\ phase = "done" => todo = << >>
  /\ Listed(todo)
  /\ results \in Seq(Built(plan))
  /\ phase = "single" => Rounds = 1
  /\ phase \in {"cycle", "finalize"} => Rounds > 1
  /\ phase = "cycle" => Elements(todo) \cap RunOnce = {}
  /\ phase = "finalize" => Elements(todo) \subseteq RunOnce
  /\ subs \subseteq Sub
  /\ \A m \in Module : seen[m] \subseteq subs
  /\ DOMAIN seen = Module

LEMMA RoundsFacts ==
  ASSUME loop \in LoopConfigs
  PROVE  Rounds = 1 \/ (Rounds \in Int /\ Rounds > 1)
BY RunAssumption DEF Rounds

\* The lists of the phases.
LEMMA PhaseLists ==
  ASSUME Inv, pc = "resolved"
  PROVE  /\ Listed(order) /\ Elements(order) = Built(plan) /\ Built(plan) \subseteq Module
         /\ Listed(Cycle) /\ Elements(Cycle) = Built(plan) \ RunOnce
         /\ Listed(Finalize) /\ Elements(Finalize) = Built(plan) \cap RunOnce
<1>1. Listed(order) /\ Elements(order) = Built(plan) /\ Built(plan) \subseteq Module
  BY ResolvedFacts
<1>2. Listed(Cycle) /\ Elements(Cycle) = Built(plan) \cap (Module \ RunOnce)
  BY <1>1, FilteredListed DEF Cycle
<1>3. Listed(Finalize) /\ Elements(Finalize) = Built(plan) \cap RunOnce
  BY <1>1, FilteredListed DEF Finalize
<1>. QED  BY <1>1, <1>2, <1>3


LEMMA RunInvResolve ==
  ASSUME RunInv, Resolve
  PROVE  RunInv' /\ plan' = plan
<1>1. Build \/ Visit \/ Conclude
  BY DEF Resolve, Next
<1>2. UNCHANGED runVars /\ plan' = plan
  BY <1>1 DEF Resolve, Build, Visit, Conclude
<1>3. Inv'
  BY <1>1, BuildInv, VisitInv, ConcludeInv DEF RunInv
<1>4. pc # "resolved"
  BY <1>1 DEF Build, Visit, Conclude
<1>. QED  BY <1>2, <1>3, <1>4 DEF RunInv, runVars, Listed, Distinct, NoneAwaits, Rounds

LEMMA RunInvBegin ==
  ASSUME RunInv, Begin
  PROVE  RunInv'
<1>1. /\ pc = "resolved" /\ phase = "building" /\ rnd' = 1
      /\ phase' = IF Rounds <= 1 THEN "single" ELSE "cycle"
      /\ todo' = IF Rounds <= 1 THEN order ELSE Cycle
      /\ UNCHANGED <<vars, loop, prev, results, subs, seen, miscounted>>
  BY DEF Begin
<1>2. Inv'
  BY <1>1 DEF RunInv, Inv, TypeOK, TopologicalOrder, Bookkeeping, vars
<1>3. Listed(todo') /\ (phase' = "cycle" => Elements(todo') \cap RunOnce = {})
  BY <1>1, PhaseLists DEF RunInv
<1>4. Listed(todo)'
  BY <1>1, <1>3 DEF Listed, Distinct, NoneAwaits, vars
<1>5. (phase' = "single" => Rounds' = 1) /\ (phase' \in {"cycle", "finalize"} => Rounds' > 1)
  BY <1>1, RoundsFacts DEF RunInv, Rounds
<1>6. phase' \in {"single", "cycle"}
  BY <1>1
<1>7. results' = results /\ plan' = plan /\ pc' = pc
  BY <1>1 DEF vars
<1>. QED  BY <1>1, <1>2, <1>3, <1>4, <1>5, <1>6, <1>7 DEF RunInv

LEMMA RunInvRunModule ==
  ASSUME RunInv, RunModule
  PROVE  RunInv'
<1>. DEFINE h == Head(todo)
<1>1. /\ todo # << >> /\ todo' = Tail(todo) /\ results' = Append(results, h)
      /\ seen' = [seen EXCEPT ![h] = subs]
      /\ UNCHANGED <<vars, loop, phase, rnd, prev, miscounted>>
  BY DEF RunModule
<1>2. PICK found \in SUBSET Findable(h) : subs' = subs \cup found
  BY DEF RunModule
<1>3. found \subseteq Sub
  BY <1>2 DEF Findable
<1>4. /\ Listed(todo') /\ h \in Built(plan) /\ Elements(todo') \subseteq Elements(todo)
  BY <1>1, ListedTail DEF RunInv
<1>5. Inv'
  BY <1>1 DEF RunInv, Inv, TypeOK, TopologicalOrder, Bookkeeping, vars
<1>6. Listed(todo)' /\ plan' = plan /\ pc' = pc
  BY <1>1, <1>4 DEF Listed, Distinct, NoneAwaits, vars
<1>7. phase \in {"single", "cycle", "finalize"}
  BY <1>1 DEF RunInv
<1>8. results' \in Seq(Built(plan))
  BY <1>1, <1>4, AppendProperties DEF RunInv
<1>. HIDE DEF h
<1>9. DOMAIN seen' = Module /\ \A m \in Module : seen'[m] \subseteq subs'
  BY <1>1, <1>2 DEF RunInv
<1>10. subs' \subseteq Sub
  BY <1>2, <1>3 DEF RunInv
<1>. QED  BY <1>1, <1>4, <1>5, <1>6, <1>7, <1>8, <1>9, <1>10 DEF RunInv, Rounds

LEMMA RunInvEndRound ==
  ASSUME RunInv, EndRound
  PROVE  RunInv'
<1>1. /\ phase = "cycle" /\ todo = << >>
      /\ UNCHANGED <<vars, loop, results, subs, seen>>
      /\ \/ phase' = "finalize" /\ todo' = Finalize /\ rnd' = rnd
         \/ phase' = "cycle" /\ todo' = Cycle /\ rnd' = rnd + 1
  BY DEF EndRound
<1>2. Inv'
  BY <1>1 DEF RunInv, Inv, TypeOK, TopologicalOrder, Bookkeeping, vars
<1>3. /\ Listed(todo')
      /\ phase' = "cycle" => Elements(todo') \cap RunOnce = {}
      /\ phase' = "finalize" => Elements(todo') \subseteq RunOnce
  BY <1>1, PhaseLists DEF RunInv
<1>4. Listed(todo)' /\ plan' = plan /\ pc' = pc
  BY <1>1, <1>3 DEF Listed, Distinct, NoneAwaits, vars
<1>. QED  BY <1>1, <1>2, <1>3, <1>4 DEF RunInv, Rounds

LEMMA RunInvFinish ==
  ASSUME RunInv, Finish
  PROVE  RunInv'
<1>1. UNCHANGED <<vars, loop, rnd, prev, todo, results, subs, seen, miscounted>>
      /\ phase \in {"single", "finalize"} /\ todo = << >> /\ phase' = "done"
  BY DEF Finish
<1>2. Inv'
  BY <1>1 DEF RunInv, Inv, TypeOK, TopologicalOrder, Bookkeeping, vars
<1>3. Listed(todo)' /\ plan' = plan /\ pc' = pc
  BY <1>1 DEF RunInv, Listed, Distinct, NoneAwaits, vars
<1>. QED  BY <1>1, <1>2, <1>3 DEF RunInv

LEMMA RunInvStutter ==
  ASSUME RunInv, UNCHANGED allVars
  PROVE  RunInv'
<1>1. Inv'
  BY DEF RunInv, Inv, TypeOK, TopologicalOrder, Bookkeeping, vars, allVars
<1>. QED  BY <1>1 DEF RunInv, allVars, vars, runVars, Listed, Distinct, NoneAwaits, Rounds

LEMMA RunInvariant == RunSpec => []RunInv
<1>1. RunInit => RunInv
  <2>. SUFFICES ASSUME RunInit  PROVE RunInv
    OBVIOUS
  <2>1. Inv
    BY InitInv DEF RunInit
  <2>2. << >> \in Seq(Built(plan)) /\ Len(<< >>) = 0
    OBVIOUS
  <2>3. Listed(<< >>)
    BY <2>2 DEF Listed, Distinct, NoneAwaits
  <2>. QED  BY <2>1, <2>2, <2>3 DEF RunInit, RunInv
<1>2. RunInv /\ [RunNext]_allVars => RunInv'
  BY RunInvResolve, RunInvBegin, RunInvRunModule, RunInvEndRound, RunInvFinish, RunInvStutter
     DEF RunNext
<1>. QED  BY <1>1, <1>2, PTL DEF RunSpec

-----------------------------------------------------------------------------
\* The ledger and what is left of a round hold each module as often as it is due.
Waiting(m) == IF m \in Elements(todo) THEN 1 ELSE 0
Due(m) ==
  IF Rounds > 1 /\ m \notin RunOnce THEN rnd ELSE IF phase = "cycle" THEN 0 ELSE 1

CountInv ==
  /\ phase # "building" => \A m \in Built(plan) : Times(m) + Waiting(m) = Due(m)
  /\ \A m : Times(m) \in Nat
  /\ Rounds > 1 =>
       /\ phase = "cycle" => \A i \in 1 .. Len(results) : results[i] \notin RunOnce
       /\ \A i, j \in 1 .. Len(results) :
            i < j /\ results[i] \in RunOnce => results[j] \in RunOnce

Occurrences(s, m) == {i \in 1 .. Len(s) : s[i] = m}

LEMMA OccurrencesAppend ==
  ASSUME NEW T, NEW s \in Seq(T), NEW h \in T, NEW m
  PROVE  /\ IsFiniteSet(Occurrences(s, m)) /\ Cardinality(Occurrences(s, m)) \in Nat
         /\ Cardinality(Occurrences(Append(s, h), m)) =
              IF m = h THEN Cardinality(Occurrences(s, m)) + 1 ELSE Cardinality(Occurrences(s, m))
<1>. DEFINE n == Len(s)
            A == Occurrences(s, m)
            B == Occurrences(Append(s, h), m)
<1>1. /\ n \in Nat /\ Len(Append(s, h)) = n + 1
      /\ \A i \in 1 .. n : Append(s, h)[i] = s[i]
      /\ Append(s, h)[n + 1] = h
  BY AppendProperties
<1>2. IsFiniteSet(A) /\ Cardinality(A) \in Nat
  <2>1. IsFiniteSet(1 .. n) /\ A \subseteq 1 .. n
    BY <1>1, FS_Interval DEF Occurrences
  <2>. HIDE DEF A
  <2>2. IsFiniteSet(A)
    BY <2>1, FS_Subset
  <2>. QED  BY <2>2, FS_CardinalityType
<1>3. 1 .. n + 1 = (1 .. n) \cup {n + 1} /\ n + 1 \notin 1 .. n
  BY <1>1
<1>4. n + 1 \notin A /\ B = IF m = h THEN A \cup {n + 1} ELSE A
  BY <1>1, <1>3 DEF Occurrences
<1>. HIDE DEF A, B
<1>5. Cardinality(A \cup {n + 1}) = Cardinality(A) + 1
  BY <1>2, <1>4, FS_AddElement
<1>. QED  BY <1>2, <1>4, <1>5 DEF A, B

LEMMA CountSame ==
  ASSUME UNCHANGED results
  PROVE  \A m : Times(m)' = Times(m)
BY DEF Times

LEMMA CountBegin ==
  ASSUME RunInv, CountInv, Begin
  PROVE  CountInv'
<1>1. /\ pc = "resolved" /\ phase = "building" /\ rnd' = 1 /\ results = << >>
      /\ phase' = IF Rounds <= 1 THEN "single" ELSE "cycle"
      /\ todo' = IF Rounds <= 1 THEN order ELSE Cycle
      /\ plan' = plan /\ Rounds' = Rounds /\ results' = results
  BY DEF Begin, RunInv, vars, Rounds
<1>2. Elements(todo') = IF Rounds <= 1 THEN Built(plan) ELSE Built(plan) \ RunOnce
  BY <1>1, PhaseLists DEF RunInv
<1>3. \A m : Times(m)' = 0
  <2>1. \A m : {i \in 1 .. Len(results') : results'[i] = m} = {}
    BY <1>1
  <2>. QED  BY <2>1, FS_EmptySet DEF Times
<1>4. Rounds = 1 \/ (Rounds \in Int /\ Rounds > 1)
  BY RoundsFacts DEF RunInv
<1>5. ASSUME NEW m \in Built(plan)  PROVE Times(m)' + Waiting(m)' = Due(m)'
  <2>1. Waiting(m)' = IF Rounds > 1 /\ m \in RunOnce THEN 0 ELSE 1
    BY <1>2, <1>4 DEF Waiting
  <2>2. Due(m)' = IF Rounds > 1 /\ m \in RunOnce THEN 0 ELSE 1
    BY <1>1, <1>4 DEF Due
  <2>. QED  BY <1>3, <2>1, <2>2
<1>. QED  BY <1>1, <1>3, <1>5 DEF CountInv

LEMMA CountRunModule ==
  ASSUME RunInv, CountInv, RunModule
  PROVE  CountInv'
<1>. DEFINE h == Head(todo)
            n == Len(results)
<1>1. /\ todo # << >> /\ todo' = Tail(todo) /\ results' = Append(results, h)
      /\ plan' = plan /\ Rounds' = Rounds /\ rnd' = rnd /\ phase' = phase
  BY DEF RunModule, vars, Rounds
<1>2. /\ h \in Built(plan)
      /\ Elements(todo) = Elements(todo') \cup {h} /\ h \notin Elements(todo')
  BY <1>1, ListedTail DEF RunInv
<1>3. results \in Seq(Built(plan)) /\ phase \in {"single", "cycle", "finalize"}
  BY <1>1 DEF RunInv
<1>. HIDE DEF h
<1>4. \A m : /\ Times(m) \in Nat
             /\ Times(m)' = IF m = h THEN Times(m) + 1 ELSE Times(m)
  <2>. TAKE m
  <2>1. /\ Times(m) = Cardinality(Occurrences(results, m))
        /\ Times(m)' = Cardinality(Occurrences(Append(results, h), m))
    BY <1>1 DEF Times, Occurrences
  <2>. QED  BY <1>2, <1>3, <2>1, OccurrencesAppend
<1>5. ASSUME NEW m \in Built(plan)  PROVE Times(m)' + Waiting(m)' = Due(m)'
  <2>1. Times(m) + Waiting(m) = Due(m)
    BY <1>3 DEF CountInv
  <2>2. Due(m)' = Due(m)
    BY <1>1 DEF Due
  <2>3. Waiting(m) = IF m = h THEN 1 ELSE Waiting(m)'
    BY <1>2 DEF Waiting
  <2>4. m = h => Waiting(m)' = 0
    BY <1>2 DEF Waiting
  <2>5. Waiting(m)' \in Nat
    BY DEF Waiting
  <2>. QED  BY <1>4, <2>1, <2>2, <2>3, <2>4, <2>5
<1>6. /\ n \in Nat /\ Len(results') = n + 1 /\ results'[n + 1] = h
      /\ \A i \in 1 .. n : results'[i] = results[i]
      /\ \A i \in 1 .. n + 1 : i \in 1 .. n \/ i = n + 1
  BY <1>1, <1>2, <1>3, AppendProperties
<1>7. /\ phase = "cycle" => h \notin RunOnce
      /\ phase = "finalize" => h \in RunOnce
      /\ Rounds > 1 => phase # "single"
  BY <1>2 DEF RunInv
<1>8. ASSUME Rounds > 1
      PROVE  /\ phase = "cycle" => \A i \in 1 .. Len(results') : results'[i] \notin RunOnce
             /\ \A i, j \in 1 .. Len(results') :
                  i < j /\ results'[i] \in RunOnce => results'[j] \in RunOnce
  <2>1. phase = "cycle" => \A i \in 1 .. Len(results') : results'[i] \notin RunOnce
    BY <1>6, <1>7, <1>8 DEF CountInv
  <2>2. ASSUME NEW i \in 1 .. Len(results'), NEW j \in 1 .. Len(results'), i < j,
               results'[i] \in RunOnce
        PROVE  results'[j] \in RunOnce
    <3>1. phase = "finalize"
      BY <1>3, <1>7, <1>8, <2>1, <2>2
    <3>2. i \in 1 .. n
      BY <1>6, <2>2
    <3>3. CASE j \in 1 .. n
      BY <1>6, <1>8, <2>2, <3>2, <3>3 DEF CountInv
    <3>4. CASE j = n + 1
      BY <1>6, <1>7, <3>1, <3>4
    <3>. QED  BY <1>6, <3>3, <3>4
  <2>. QED  BY <2>1, <2>2
<1>. QED  BY <1>1, <1>4, <1>5, <1>8 DEF CountInv

LEMMA CountEndRound ==
  ASSUME RunInv, CountInv, EndRound
  PROVE  CountInv'
<1>1. /\ phase = "cycle" /\ todo = << >> /\ results' = results
      /\ plan' = plan /\ Rounds' = Rounds /\ Rounds > 1 /\ pc = "resolved" /\ rnd \in Nat
      /\ \/ phase' = "finalize" /\ todo' = Finalize /\ rnd' = rnd
         \/ phase' = "cycle" /\ todo' = Cycle /\ rnd' = rnd + 1
  BY DEF EndRound, RunInv, vars, Rounds
<1>2. /\ Elements(Cycle) = Built(plan) \ RunOnce
      /\ Elements(Finalize) = Built(plan) \cap RunOnce
  BY <1>1, PhaseLists DEF RunInv
<1>3. \A m : Times(m)' = Times(m)
  BY <1>1, CountSame
<1>4. ASSUME NEW m \in Built(plan)  PROVE Times(m)' + Waiting(m)' = Due(m)'
  <2>1. Times(m) + Waiting(m) = Due(m) /\ Waiting(m) = 0 /\ Times(m) \in Nat
    BY <1>1 DEF CountInv, Waiting, Elements
  <2>2. Times(m) = IF m \in RunOnce THEN 0 ELSE rnd
    BY <1>1, <2>1 DEF Due
  <2>3. CASE phase' = "finalize" /\ todo' = Finalize /\ rnd' = rnd
    <3>1. Waiting(m)' = IF m \in RunOnce THEN 1 ELSE 0
      BY <1>2, <2>3 DEF Waiting
    <3>2. Due(m)' = IF m \in RunOnce THEN 1 ELSE rnd
      BY <1>1, <2>3 DEF Due
    <3>. QED  BY <1>1, <1>3, <2>2, <3>1, <3>2
  <2>4. CASE phase' = "cycle" /\ todo' = Cycle /\ rnd' = rnd + 1
    <3>1. Waiting(m)' = IF m \in RunOnce THEN 0 ELSE 1
      BY <1>2, <2>4 DEF Waiting
    <3>2. Due(m)' = IF m \in RunOnce THEN 0 ELSE rnd + 1
      BY <1>1, <2>4 DEF Due
    <3>. QED  BY <1>1, <1>3, <2>2, <3>1, <3>2
  <2>. QED  BY <1>1, <2>3, <2>4
<1>. QED  BY <1>1, <1>3, <1>4 DEF CountInv

LEMMA CountOthers ==
  ASSUME CountInv, UNCHANGED <<plan, loop, rnd, todo, results>>,
         phase' = phase \/ (phase \in {"single", "finalize"} /\ phase' = "done")
  PROVE  CountInv'
<1>1. \A m : Times(m)' = Times(m)
  BY CountSame
<1>2. \A m : Waiting(m)' = Waiting(m) /\ Due(m)' = Due(m)
  BY DEF Waiting, Due, Rounds
<1>. QED  BY <1>1, <1>2 DEF CountInv, Rounds

\* Whatever is found and fails, each run_once module runs once, at the end, and every
\* other module once per round.
THEOREM EveryModuleIsRun == RunSpec => []LedgerIsComplete
<1>1. RunInit => CountInv
  <2>. SUFFICES ASSUME RunInit  PROVE CountInv
    OBVIOUS
  <2>1. \A m : {i \in 1 .. Len(results) : results[i] = m} = {}
    BY DEF RunInit
  <2>. QED  BY <2>1, FS_EmptySet DEF RunInit, CountInv, Times
<1>2. RunInv /\ CountInv /\ [RunNext]_allVars => CountInv'
  <2>. SUFFICES ASSUME RunInv, CountInv, [RunNext]_allVars  PROVE CountInv'
    OBVIOUS
  <2>1. CASE Resolve
    BY <2>1, RunInvResolve, CountOthers DEF Resolve, runVars
  <2>2. CASE Finish \/ UNCHANGED allVars
    BY <2>2, CountOthers DEF Finish, allVars, vars, runVars
  <2>. QED  BY <2>1, <2>2, CountBegin, CountRunModule, CountEndRound DEF RunNext
<1>3. RunInv /\ CountInv => LedgerIsComplete
  <2>. SUFFICES ASSUME RunInv, CountInv, phase = "done"
                PROVE  /\ \A m \in Built(plan) :
                            Times(m) = IF Rounds = 1 \/ m \in RunOnce THEN 1 ELSE rnd
                       /\ Rounds > 1 =>
                            \A i, j \in 1 .. Len(results) :
                              i < j /\ results[i] \in RunOnce => results[j] \in RunOnce
    BY DEF LedgerIsComplete
  <2>1. Rounds = 1 \/ (Rounds \in Int /\ Rounds > 1)
    BY RoundsFacts DEF RunInv
  <2>2. ASSUME NEW m \in Built(plan)
        PROVE  Times(m) = IF Rounds = 1 \/ m \in RunOnce THEN 1 ELSE rnd
    <3>1. Times(m) + Waiting(m) = Due(m) /\ Waiting(m) = 0 /\ Times(m) \in Nat
      BY DEF CountInv, RunInv, Waiting, Elements
    <3>2. Due(m) = IF Rounds = 1 \/ m \in RunOnce THEN 1 ELSE rnd
      BY <2>1 DEF Due
    <3>. QED  BY <3>1, <3>2
  <2>. QED  BY <2>2 DEF CountInv
<1>. QED  BY <1>1, <1>2, <1>3, RunInvariant, PTL DEF RunSpec

-----------------------------------------------------------------------------
\* The last position of a module in a list, 0 when it has none.
IsLast(s, m, i) ==
  /\ i = 0 \/ s[i] = m
  /\ \A k \in i + 1 .. Len(s) : s[k] # m

LEMMA LastFacts ==
  ASSUME NEW s, Len(s) \in Nat, NEW m
  PROVE  /\ \E i \in 0 .. Len(s) : IsLast(s, m, i)
         /\ \A i, j \in 0 .. Len(s) : IsLast(s, m, i) /\ IsLast(s, m, j) => i = j
<1>. DEFINE T == {i \in 0 .. Len(s) : \A k \in i + 1 .. Len(s) : s[k] # m}
<1>1. Len(s) \in T /\ T \subseteq Nat
  OBVIOUS
<1>2. PICK i \in T : \A k \in T : i <= k
  <2>. HIDE DEF T
  <2>. QED  BY <1>1, LeastNatural
<1>3. i = 0 \/ s[i] = m
  <2>1. SUFFICES ASSUME i # 0, s[i] # m  PROVE FALSE
    OBVIOUS
  <2>2. i - 1 \in 0 .. Len(s) /\ \A k \in i .. Len(s) : s[k] # m
    <3>1. \A k \in i .. Len(s) : k = i \/ k \in i + 1 .. Len(s)
      BY <1>2
    <3>. QED  BY <1>2, <2>1, <3>1
  <2>3. i - 1 \in T
    BY <1>2, <2>2
  <2>4. i \in Nat /\ i <= i - 1
    <3>. HIDE DEF T
    <3>. QED  BY <1>1, <1>2, <2>3
  <2>. HIDE DEF T
  <2>. QED  BY <2>4
<1>4. IsLast(s, m, i) /\ i \in 0 .. Len(s)
  BY <1>2, <1>3 DEF IsLast
<1>5. ASSUME NEW a \in 0 .. Len(s), NEW b \in 0 .. Len(s), IsLast(s, m, a), IsLast(s, m, b), a < b
      PROVE  FALSE
  <2>1. b \in a + 1 .. Len(s) /\ b # 0
    BY <1>5
  <2>. QED  BY <1>5, <2>1 DEF IsLast
<1>6. ASSUME NEW a \in 0 .. Len(s), NEW b \in 0 .. Len(s), IsLast(s, m, a), IsLast(s, m, b)
      PROVE  a = b
  <2>1. ~(a < b) /\ ~(b < a)
    BY <1>5, <1>6
  <2>. QED  BY <2>1
<1>. QED  BY <1>4, <1>6

LEMMA LastRunFacts ==
  ASSUME Len(results) \in Nat, NEW m
  PROVE  /\ LastRun(m) \in 0 .. Len(results)
         /\ \A i \in 0 .. Len(results) : IsLast(results, m, i) => LastRun(m) = i
         /\ IsLast(results, m, LastRun(m))
<1>1. LastRun(m) = CHOOSE i \in 0 .. Len(results) : IsLast(results, m, i)
  BY DEF LastRun, IsLast
<1>. QED  BY <1>1, LastFacts

LEMMA LastRunAppend ==
  ASSUME NEW T, results \in Seq(T), NEW h \in T, results' = Append(results, h), NEW m
  PROVE  /\ LastRun(m) \in 0 .. Len(results)
         /\ LastRun(m)' = IF m = h THEN Len(results) + 1 ELSE LastRun(m)
<1>. DEFINE n == Len(results)
            r == results'
<1>1. /\ n \in Nat /\ Len(r) = n + 1 /\ r[n + 1] = h
      /\ \A i \in 1 .. n : r[i] = results[i]
  BY AppendProperties
<1>2. LastRun(m) \in 0 .. n /\ IsLast(results, m, LastRun(m))
  BY <1>1, LastRunFacts
<1>3. LastRun(m)' = CHOOSE i \in 0 .. Len(r) : IsLast(r, m, i)
  BY DEF LastRun, IsLast
<1>. DEFINE i == IF m = h THEN n + 1 ELSE LastRun(m)
<1>4. i \in 0 .. Len(r) /\ IsLast(r, m, i)
  <2>. HIDE DEF n, r
  <2>1. CASE m = h
    BY <1>1, <2>1 DEF IsLast
  <2>2. CASE m # h
    <3>1. i = LastRun(m) /\ i \in 0 .. n + 1
      BY <1>1, <1>2, <2>2
    <3>2. i = 0 \/ r[i] = m
      BY <1>1, <1>2, <3>1 DEF IsLast
    <3>3. ASSUME NEW k \in i + 1 .. Len(r)  PROVE r[k] # m
      <4>1. CASE k = n + 1
        BY <1>1, <2>2, <4>1
      <4>2. CASE k # n + 1
        <5>1. k \in i + 1 .. n /\ k \in 1 .. n
          BY <1>1, <1>2, <3>1, <4>2
        <5>. QED  BY <1>1, <1>2, <3>1, <5>1 DEF IsLast, n
      <4>. QED  BY <4>1, <4>2
    <3>. QED  BY <1>1, <3>1, <3>2, <3>3 DEF IsLast
  <2>. QED  BY <2>1, <2>2
<1>5. \A k \in 0 .. Len(r) : IsLast(r, m, k) => k = i
  <2>. HIDE DEF n, r, i
  <2>1. Len(r) \in Nat
    BY <1>1
  <2>. QED  BY <1>4, <2>1, LastFacts
<1>6. LastRun(m)' = i
  <2>. HIDE DEF n, r, i
  <2>. QED  BY <1>3, <1>4, <1>5
<1>. QED  BY <1>2, <1>6

\* A module that has run in this pass ran after what it waits for, which is not left to run.
Kept(p, m) == Rounds = 1 \/ p \notin RunOnce \/ m \in RunOnce

AwaitInv ==
  phase # "building" =>
    \A m \in Built(plan) : \A p \in Prereqs(plan, m) :
      Kept(p, m) /\ (phase = "cycle" => m \notin RunOnce) /\ m \notin Elements(todo) =>
        p \notin Elements(todo) /\ LastRun(p) < LastRun(m)

LEMMA AwaitRunModule ==
  ASSUME RunInv, AwaitInv, RunModule
  PROVE  AwaitInv'
<1>. DEFINE h == Head(todo)
<1>1. /\ todo # << >> /\ todo' = Tail(todo) /\ results' = Append(results, h)
      /\ plan' = plan /\ loop' = loop /\ phase' = phase
  BY DEF RunModule, vars
<1>2. /\ h \in Built(plan)
      /\ Elements(todo) = Elements(todo') \cup {h}
      /\ Elements(todo') \cap Prereqs(plan, h) = {}
  BY <1>1, ListedTail DEF RunInv
<1>. HIDE DEF h
<1>3. results \in Seq(Built(plan)) /\ phase # "building" /\ plan \in Plans
  BY <1>1 DEF RunInv, Inv, TypeOK
<1>4. \A m : /\ LastRun(m) \in 0 .. Len(results)
             /\ LastRun(m)' = IF m = h THEN Len(results) + 1 ELSE LastRun(m)
  BY <1>1, <1>2, <1>3, LastRunAppend
<1>5. Len(results) \in Nat
  BY <1>3
<1>6. ASSUME NEW m \in Built(plan), NEW p \in Prereqs(plan, m), Kept(p, m),
             phase = "cycle" => m \notin RunOnce, m \notin Elements(todo')
      PROVE  p \notin Elements(todo') /\ LastRun(p)' < LastRun(m)'
  <2>1. CASE m = h
    <3>1. p \notin Elements(todo') /\ p # h
      BY <1>2, <1>3, <1>6, <2>1, GraphFacts
    <3>. QED  BY <1>4, <1>5, <2>1, <3>1
  <2>2. CASE m # h
    <3>1. p \notin Elements(todo) /\ LastRun(p) < LastRun(m)
      BY <1>2, <1>3, <1>6, <2>2 DEF AwaitInv
    <3>. QED  BY <1>2, <1>4, <2>2, <3>1
  <2>. QED  BY <2>1, <2>2
<1>7. \A p, m : Kept(p, m)' = Kept(p, m)
  BY <1>1 DEF Kept, Rounds
<1>. QED  BY <1>1, <1>6, <1>7 DEF AwaitInv

LEMMA AwaitBegin ==
  ASSUME RunInv, Begin
  PROVE  AwaitInv'
<1>1. /\ pc = "resolved" /\ plan' = plan
      /\ \/ phase' = "single" /\ todo' = order
         \/ phase' = "cycle" /\ todo' = Cycle
  BY DEF Begin, vars
<1>2. Elements(order) = Built(plan) /\ Elements(Cycle) = Built(plan) \ RunOnce
  BY <1>1, PhaseLists DEF RunInv
<1>. QED  BY <1>1, <1>2 DEF AwaitInv

LEMMA AwaitEndRound ==
  ASSUME RunInv, AwaitInv, EndRound
  PROVE  AwaitInv'
<1>1. /\ phase = "cycle" /\ todo = << >> /\ pc = "resolved" /\ plan' = plan /\ loop' = loop
      /\ results' = results /\ Rounds > 1
      /\ \/ phase' = "finalize" /\ todo' = Finalize
         \/ phase' = "cycle" /\ todo' = Cycle
  BY DEF EndRound, vars, RunInv
<1>2. /\ Elements(Cycle) = Built(plan) \ RunOnce
      /\ Elements(Finalize) = Built(plan) \cap RunOnce
  BY <1>1, PhaseLists DEF RunInv
<1>3. CASE phase' = "cycle" /\ todo' = Cycle
  BY <1>1, <1>2, <1>3 DEF AwaitInv
<1>4. CASE phase' = "finalize" /\ todo' = Finalize
  <2>1. ASSUME NEW m \in Built(plan), NEW p \in Prereqs(plan, m), Kept(p, m), m \notin Elements(todo')
        PROVE  p \notin Elements(todo') /\ LastRun(p) < LastRun(m)
    <3>1. m \notin RunOnce /\ p \notin RunOnce
      <4>1. Rounds # 1
        BY <1>1
      <4>. QED  BY <1>2, <1>4, <2>1, <4>1 DEF Kept
    <3>2. m \notin Elements(todo)
      BY <1>1 DEF Elements
    <3>. QED  BY <1>1, <1>2, <1>4, <2>1, <3>1, <3>2 DEF AwaitInv
  <2>2. \A m : LastRun(m)' = LastRun(m)
    BY <1>1 DEF LastRun
  <2>3. \A p, m : Kept(p, m)' = Kept(p, m)
    BY <1>1 DEF Kept, Rounds
  <2>. QED  BY <1>1, <1>4, <2>1, <2>2, <2>3 DEF AwaitInv
<1>. QED  BY <1>1, <1>3, <1>4

LEMMA AwaitOthers ==
  ASSUME AwaitInv, UNCHANGED <<plan, loop, todo, results>>,
         phase' = phase \/ (phase \in {"single", "finalize"} /\ phase' = "done")
  PROVE  AwaitInv'
<1>1. \A m : LastRun(m)' = LastRun(m)
  BY DEF LastRun
<1>2. \A p, m : Kept(p, m)' = Kept(p, m)
  BY DEF Kept, Rounds
<1>. QED  BY <1>1, <1>2 DEF AwaitInv

\* Splitting the order in two lists keeps the dependencies that the split can keep.
THEOREM SplitKeepsOrder == RunSpec => []LastRunsRespectOrder
<1>1. RunInit => AwaitInv
  BY DEF RunInit, AwaitInv
<1>2. RunInv /\ AwaitInv /\ [RunNext]_allVars => AwaitInv'
  <2>. SUFFICES ASSUME RunInv, AwaitInv, [RunNext]_allVars  PROVE AwaitInv'
    OBVIOUS
  <2>1. CASE Resolve
    BY <2>1, RunInvResolve, AwaitOthers DEF Resolve, runVars
  <2>2. CASE Finish \/ UNCHANGED allVars
    BY <2>2, AwaitOthers DEF Finish, allVars, vars, runVars
  <2>. QED  BY <2>1, <2>2, AwaitBegin, AwaitRunModule, AwaitEndRound DEF RunNext
<1>3. RunInv /\ AwaitInv => LastRunsRespectOrder
  BY DEF RunInv, AwaitInv, LastRunsRespectOrder, Kept, Elements
<1>. QED  BY <1>1, <1>2, <1>3, RunInvariant, PTL DEF RunSpec

-----------------------------------------------------------------------------
\* While counts can be trusted, the count of the last round is that of a set of
\* subdomains that every module run since has started from.
ConvergeInv ==
  phase = "cycle" /\ ~miscounted /\ prev # -1 =>
    \E B \in SUBSET subs :
      /\ Cardinality(B) = prev
      /\ \A m \in Built(plan) \ RunOnce : m \notin Elements(todo) => B \subseteq seen[m]

LEMMA ConvergeRunModule ==
  ASSUME RunInv, ConvergeInv, RunModule
  PROVE  ConvergeInv'
<1>. DEFINE h == Head(todo)
<1>1. /\ todo # << >> /\ todo' = Tail(todo) /\ seen' = [seen EXCEPT ![h] = subs]
      /\ subs \subseteq subs'
      /\ plan' = plan /\ UNCHANGED <<phase, prev, miscounted>>
  BY DEF RunModule, vars
<1>2. Elements(todo) = Elements(todo') \cup {h}
  BY <1>1, ListedTail DEF RunInv
<1>. HIDE DEF h
<1>3. \A m \in Module : seen'[m] = IF m = h THEN subs ELSE seen[m]
  BY <1>1 DEF RunInv
<1>4. Built(plan) \subseteq Module
  BY GraphFacts DEF RunInv, Inv, TypeOK
<1>5. SUFFICES ASSUME phase = "cycle", ~miscounted, prev # -1
               PROVE  \E B \in SUBSET subs' :
                        /\ Cardinality(B) = prev
                        /\ \A m \in Built(plan) \ RunOnce : m \notin Elements(todo') => B \subseteq seen'[m]
  BY <1>1 DEF ConvergeInv
<1>6. PICK B \in SUBSET subs :
        /\ Cardinality(B) = prev
        /\ \A m \in Built(plan) \ RunOnce : m \notin Elements(todo) => B \subseteq seen[m]
  BY <1>5 DEF ConvergeInv
<1>. QED  BY <1>1, <1>2, <1>3, <1>4, <1>6

LEMMA ConvergeEndRound ==
  ASSUME RunInv, ConvergeInv, EndRound
  PROVE  /\ ConvergeInv'
         /\ (phase' = "finalize" /\ rnd < Rounds /\ ~miscounted') =>
              \A m \in Built(plan) \ RunOnce : seen[m] = subs
<1>1. PICK count \in {Cardinality(subs), 0} :
        /\ miscounted' = (miscounted \/ count # Cardinality(subs))
        /\ IF rnd = Rounds \/ count = prev
           THEN phase' = "finalize" /\ todo' = Finalize /\ UNCHANGED <<rnd, prev>>
           ELSE rnd' = rnd + 1 /\ prev' = count /\ todo' = Cycle /\ UNCHANGED phase
  BY DEF EndRound
<1>2. phase = "cycle" /\ todo = << >> /\ pc = "resolved" /\ plan' = plan /\ subs' = subs /\ seen' = seen
  BY DEF EndRound, RunInv, vars
<1>3. IsFiniteSet(subs) /\ Cardinality(subs) \in Nat
  <2>1. IsFiniteSet(subs)
    BY RunAssumption, FS_Subset DEF RunInv
  <2>. QED  BY <2>1, FS_CardinalityType
<1>4. Elements(Cycle) = Built(plan) \ RunOnce /\ Built(plan) \subseteq Module
  BY <1>2, PhaseLists DEF RunInv
<1>5. CASE rnd = Rounds \/ count = prev
  <2>1. phase' = "finalize"
    BY <1>1, <1>5
  <2>2. ASSUME rnd < Rounds, ~miscounted', NEW m \in Built(plan) \ RunOnce  PROVE seen[m] = subs
    <3>1. ~miscounted /\ count = Cardinality(subs) /\ count = prev /\ prev # -1
      <4>1. Rounds \in Int /\ rnd \in Int /\ rnd # Rounds
        BY <2>2, RoundsFacts DEF RunInv
      <4>2. ~miscounted
        BY <1>1, <2>2
      <4>3. count = Cardinality(subs)
        BY <1>1, <2>2
      <4>4. count = prev
        BY <1>5, <4>1
      <4>5. prev # -1
        BY <1>3, <4>3, <4>4
      <4>. QED  BY <4>2, <4>3, <4>4, <4>5
    <3>2. PICK B \in SUBSET subs :
            /\ Cardinality(B) = prev
            /\ \A x \in Built(plan) \ RunOnce : x \notin Elements(todo) => B \subseteq seen[x]
      BY <1>2, <3>1 DEF ConvergeInv
    <3>3. B = subs
      BY <1>3, <3>1, <3>2, FS_Subset
    <3>4. m \notin Elements(todo) /\ seen[m] \subseteq subs
      BY <1>2, <1>4, <2>2 DEF Elements, RunInv
    <3>. QED  BY <2>2, <3>2, <3>3, <3>4
  <2>. QED  BY <2>1, <2>2 DEF ConvergeInv
<1>6. CASE ~(rnd = Rounds \/ count = prev)
  <2>1. phase' = "cycle" /\ prev' = count /\ todo' = Cycle
    BY <1>1, <1>2, <1>6
  <2>2. ASSUME ~miscounted'
        PROVE  Cardinality(subs) = prev' /\ \A m \in Built(plan) \ RunOnce : m \in Elements(todo')
    BY <1>1, <1>4, <2>1, <2>2
  <2>. QED  BY <1>2, <2>1, <2>2 DEF ConvergeInv
<1>. QED  BY <1>5, <1>6

\* The loop stops before its last round only when every discovery module has started
\* from every subdomain known, provided no count query failed.
THEOREM ConvergenceIsCoverage == RunSpec => ConvergedMeansCovered
<1>1. RunInit => ConvergeInv
  BY DEF RunInit, ConvergeInv
<1>2. RunInv /\ ConvergeInv /\ [RunNext]_allVars => ConvergeInv'
  <2>. SUFFICES ASSUME RunInv, ConvergeInv, [RunNext]_allVars  PROVE ConvergeInv'
    OBVIOUS
  <2>1. CASE Begin
    BY <2>1 DEF Begin, RunInv, ConvergeInv
  <2>2. CASE Finish
    BY <2>2 DEF Finish, ConvergeInv
  <2>3. CASE Resolve
    BY <2>3, RunInvResolve DEF Resolve, runVars, ConvergeInv
  <2>4. CASE UNCHANGED allVars
    BY <2>4 DEF allVars, vars, runVars, ConvergeInv
  <2>. QED  BY <2>1, <2>2, <2>3, <2>4, ConvergeRunModule, ConvergeEndRound DEF RunNext
<1>3. RunInv /\ ConvergeInv /\ [RunNext]_allVars =>
        [(phase = "cycle" /\ phase' = "finalize" /\ rnd < Rounds /\ ~miscounted') =>
           \A m \in Built(plan) \ RunOnce : seen[m] = subs]_allVars
  <2>. SUFFICES ASSUME RunInv, ConvergeInv, RunNext, phase = "cycle", phase' = "finalize",
                       rnd < Rounds, ~miscounted'
                PROVE  \A m \in Built(plan) \ RunOnce : seen[m] = subs
    OBVIOUS
  <2>1. EndRound
    BY DEF RunNext, Resolve, runVars, Begin, RunModule, Finish
  <2>. QED  BY <2>1, ConvergeEndRound
<1>. QED  BY <1>1, <1>2, <1>3, RunInvariant, PTL DEF RunSpec, ConvergedMeansCovered
-----------------------------------------------------------------------------
\* What is left of a resolution and of the run that follows: the stages of Pipeline,
\* the rounds of the loop, and the modules to order or to go through.
StagesLeft ==
  CASE phase = "building" /\ pc = "build"    -> 5
    [] phase = "building" /\ pc = "sort"     -> 4
    [] phase = "building" /\ pc = "resolved" -> 3
    [] phase = "cycle"                       -> 2
    [] phase \in {"single", "finalize"}      -> 1
    [] OTHER                                 -> 0
RoundsLeft == IF phase = "cycle" THEN Rounds - rnd ELSE 0
ModulesLeft == IF phase = "building" THEN Cardinality(Built(plan)) - Len(order) ELSE Len(todo)
Left == [i \in 1 .. 3 |-> CASE i = 1 -> StagesLeft [] i = 2 -> RoundsLeft [] i = 3 -> ModulesLeft]

RoundsInv == phase = "cycle" => rnd \in 1 .. Rounds

\* An order holds no module twice, so it is no longer than the plan.
LEMMA OrderFits ==
  ASSUME Inv
  PROVE  Len(order) \in Nat /\ Cardinality(Built(plan)) \in Nat /\ Len(order) <= Cardinality(Built(plan))
<1>1. order \in Seq(Built(plan)) /\ plan \in Plans /\ IsFiniteSet(Built(plan))
  BY GraphFacts, FS_Subset, OrderAssumption DEF Inv, TypeOK
<1>2. \A i, j \in 1 .. Len(order) : order[i] = order[j] => i = j
  BY DEF Inv, TopologicalOrder
<1>3. Len(order) \in Nat
  BY <1>1
<1>4. PICK n \in Nat : n = Len(order)
  BY <1>3
<1>. DEFINE f == [i \in 1 .. n |-> order[i]]
<1>5. \A i \in 1 .. n : order[i] \in Built(plan)
  BY <1>1, <1>4
<1>6. f \in [1 .. n -> Built(plan)] /\ \A i, j \in 1 .. n : f[i] = f[j] => i = j
  BY <1>2, <1>4, <1>5
<1>. HIDE DEF f
<1>7. f \in Injection(1 .. n, Built(plan))
  BY <1>6 DEF Injection, IsInjective
<1>8. IsFiniteSet(1 .. n) /\ Cardinality(1 .. n) = n
  <2>1. 1 \in Int /\ n \in Int /\ (n = 0 \/ n >= 1)
    OBVIOUS
  <2>2. IsFiniteSet(1 .. n) /\ Cardinality(1 .. n) = IF 1 > n THEN 0 ELSE n - 1 + 1
    BY ONLY <2>1, FS_Interval
  <2>. QED  BY <2>1, <2>2
<1>9. Cardinality(1 .. n) <= Cardinality(Built(plan))
  BY <1>1, <1>7, <1>8, FS_Injection
<1>. QED  BY <1>1, <1>4, <1>8, <1>9, FS_CardinalityType

LEMMA LeftType ==
  ASSUME RunInv, RoundsInv
  PROVE  Left \in [1 .. 3 -> Nat]
<1>1. StagesLeft \in Nat
  BY DEF StagesLeft
<1>2. RoundsLeft \in Nat
  BY RoundsFacts DEF RoundsLeft, RoundsInv, RunInv
<1>3. ModulesLeft \in Nat
  <2>1. Len(todo) \in Nat
    BY DEF RunInv, Listed
  <2>. QED  BY <2>1, OrderFits DEF ModulesLeft, RunInv
<1>. QED  BY <1>1, <1>2, <1>3 DEF Left

\* A step that lowers one of the numbers and leaves those before it.
LEMMA LeftFewer ==
  ASSUME RunInv, RoundsInv, RunInv', RoundsInv',
         \/ StagesLeft' < StagesLeft
         \/ StagesLeft' = StagesLeft /\ RoundsLeft' < RoundsLeft
         \/ StagesLeft' = StagesLeft /\ RoundsLeft' = RoundsLeft /\ ModulesLeft' < ModulesLeft
  PROVE  <<Left', Left>> \in Fewer(3)
<1>1. Left \in [1 .. 3 -> Nat] /\ Left' \in [1 .. 3 -> Nat]
  <2>1. Left \in [1 .. 3 -> Nat]
    BY LeftType
  <2>2. (RunInv /\ RoundsInv => Left \in [1 .. 3 -> Nat])'
    BY LeftType, PTL
  <2>. QED  BY <2>1, <2>2
<1>2. /\ Left[1] = StagesLeft /\ Left[2] = RoundsLeft /\ Left[3] = ModulesLeft
      /\ Left'[1] = StagesLeft' /\ Left'[2] = RoundsLeft' /\ Left'[3] = ModulesLeft'
  BY DEF Left
<1>. DEFINE s == Left'
            t == Left
<1>. HIDE DEF s, t
<1>3. \E j \in 1 .. 3 : s[j] < t[j] /\ \A i \in 1 .. j - 1 : s[i] = t[i]
  <2>1. CASE s[1] < t[1]
    BY <2>1
  <2>2. CASE s[1] = t[1] /\ s[2] < t[2]
    BY <2>2
  <2>3. CASE s[1] = t[1] /\ s[2] = t[2] /\ s[3] < t[3]
    BY <2>3
  <2>. QED  BY <1>2, <2>1, <2>2, <2>3 DEF s, t
<1>4. <<s, t>> \in Fewer(3)
  BY <1>1, <1>3, FewerFacts DEF s, t
<1>. QED  BY <1>4 DEF s, t

LEMMA RoundsInvStep ==
  ASSUME RunInv, RoundsInv, [RunNext]_allVars
  PROVE  RoundsInv'
<1>1. CASE Resolve
  BY <1>1 DEF Resolve, runVars, RoundsInv, Rounds
<1>2. CASE Begin
  <2>1. rnd' = 1 /\ loop' = loop /\ phase' = IF Rounds <= 1 THEN "single" ELSE "cycle"
    BY <1>2 DEF Begin
  <2>. QED  BY <2>1, RoundsFacts DEF RoundsInv, Rounds, RunInv
<1>3. CASE RunModule
  BY <1>3 DEF RunModule, RoundsInv, Rounds
<1>4. CASE EndRound
  <2>1. /\ phase = "cycle" /\ loop' = loop
        /\ \/ phase' = "finalize"
           \/ rnd # Rounds /\ rnd' = rnd + 1 /\ phase' = phase
    BY <1>4 DEF EndRound
  <2>. QED  BY <2>1, RoundsFacts DEF RoundsInv, Rounds, RunInv
<1>5. CASE Finish
  BY <1>5 DEF Finish, RoundsInv, Rounds
<1>6. CASE UNCHANGED allVars
  BY <1>6 DEF allVars, runVars, RoundsInv, Rounds
<1>. QED  BY <1>1, <1>2, <1>3, <1>4, <1>5, <1>6 DEF RunNext

LEMMA FewerLeft ==
  ASSUME RunInv, RoundsInv, RunInv', RoundsInv', RunNext
  PROVE  <<Left', Left>> \in Fewer(3)
<1>1. CASE Resolve
  <2>1. phase = "building" /\ phase' = "building"
    <3>1. pc \in {"build", "sort"} /\ phase' = phase
      BY <1>1 DEF Resolve, runVars, Next, Build, Visit, Conclude
    <3>. QED  BY <3>1 DEF RunInv
  <2>2. CASE Build \/ Conclude
    BY <2>1, <2>2, LeftFewer DEF Build, Conclude, StagesLeft
  <2>3. CASE Visit
    <3>1. pc' = pc /\ plan' = plan /\ order' = Append(order, Head(ready)) /\ order \in Seq(Built(plan))
      BY <2>3 DEF Visit, RunInv, Inv, TypeOK
    <3>2. Len(order') = Len(order) + 1 /\ Head(ready) \in Built(plan)
      BY <2>3, <3>1, VisitFacts, AppendProperties DEF RunInv
    <3>3. ModulesLeft' < ModulesLeft
      BY <2>1, <3>1, <3>2, OrderFits DEF ModulesLeft, RunInv
    <3>. QED  BY <2>1, <3>1, <3>3, LeftFewer DEF StagesLeft, RoundsLeft
  <2>. QED  BY <1>1, <2>2, <2>3 DEF Resolve, Next
<1>2. CASE Begin
  <2>1. phase = "building" /\ pc = "resolved" /\ phase' \in {"single", "cycle"}
    BY <1>2 DEF Begin
  <2>. QED  BY <2>1, LeftFewer DEF StagesLeft
<1>3. CASE RunModule
  <2>1. phase \in {"single", "cycle", "finalize"} /\ todo # << >> /\ todo' = Tail(todo)
        /\ phase' = phase /\ loop' = loop /\ rnd' = rnd
    BY <1>3 DEF RunModule, RunInv
  <2>2. Len(todo') = Len(todo) - 1 /\ Len(todo) \in Nat
    BY <2>1, HeadTailProperties, EmptySeq DEF RunInv, Listed
  <2>3. ModulesLeft' < ModulesLeft
    BY <2>1, <2>2 DEF ModulesLeft
  <2>. QED  BY <2>1, <2>3, LeftFewer DEF StagesLeft, RoundsLeft, Rounds
<1>4. CASE EndRound
  <2>1. /\ phase = "cycle" /\ loop' = loop
        /\ \/ phase' = "finalize"
           \/ rnd # Rounds /\ rnd' = rnd + 1 /\ phase' = phase
    BY <1>4 DEF EndRound
  <2>2. CASE phase' = "finalize"
    BY <2>1, <2>2, LeftFewer DEF StagesLeft
  <2>3. CASE rnd' = rnd + 1 /\ phase' = phase
    <3>1. RoundsLeft' < RoundsLeft
      BY <2>1, <2>3, RoundsFacts DEF RoundsLeft, RoundsInv, Rounds, RunInv
    <3>. QED  BY <2>1, <2>3, <3>1, LeftFewer DEF StagesLeft
  <2>. QED  BY <2>1, <2>2, <2>3
<1>5. CASE Finish
  <2>1. phase \in {"single", "finalize"} /\ phase' = "done"
    BY <1>5 DEF Finish
  <2>. QED  BY <2>1, LeftFewer DEF StagesLeft
<1>. QED  BY <1>1, <1>2, <1>3, <1>4, <1>5 DEF RunNext

\* The half of RunEnds that needs no fairness: whatever the plan, the rounds configured,
\* what is found and what fails, every step of Pipeline.build and Pipeline.run lowers
\* the number of stages, of rounds or of modules left, in an order in which nothing
\* goes down for ever: a run takes finitely many steps.
THEOREM RunIsFinite ==
  /\ IsWellFoundedOn(Fewer(3), [1 .. 3 -> Nat])
  /\ RunSpec => [][(<<Left', Left>> \in Fewer(3))]_allVars
<1>1. IsWellFoundedOn(Fewer(3), [1 .. 3 -> Nat])
  BY FewerIsWellFounded
<1>2. RunInit => RoundsInv
  BY DEF RunInit, RoundsInv
<1>3. RunInv /\ RoundsInv /\ [RunNext]_allVars => RoundsInv'
  BY RoundsInvStep
<1>4. RunInv /\ RoundsInv /\ RunInv' /\ RoundsInv' /\ [RunNext]_allVars
        => [(<<Left', Left>> \in Fewer(3))]_allVars
  BY FewerLeft
<1>. QED  BY <1>1, <1>2, <1>3, <1>4, RunInvariant, PTL DEF RunSpec
==============================================================================

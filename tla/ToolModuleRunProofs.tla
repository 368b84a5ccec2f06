------------------------- MODULE ToolModuleRunProofs -------------------------
(***************************************************************************)
(* Proofs about the shared flow, for every set of inputs, grouping, number   *)
(* of threads, depth of recursion and outcome of the tools.                  *)
(***************************************************************************)
EXTENDS ToolModuleRun, ListProofs

Index == 1 .. Len(pairs)
Pairs == [item : Item \cup {None}, fed : Seq(Item)]
ResultSet == [idx : Index, ok : BOOLEAN]
Rows == [level : Nat, idx : Nat, fed : Seq(Item)]

TypeInv ==
  /\ frontier \in Seq(Item) /\ seen \subseteq Item /\ level \in Nat
  /\ pairs \in Seq(Pairs)
  /\ queue \in Seq(Seq(Index) \ {<< >>})
  /\ DOMAIN finished = DOMAIN busy
  /\ \A g \in DOMAIN busy :
       /\ g \in Index
       /\ busy[g] \in Seq(Index) \ {<< >>}
       /\ finished[g] \in Seq(ResultSet)
  /\ pc # "pool" => DOMAIN busy = {}
  /\ executed \in Seq(ResultSet) /\ raised \in BOOLEAN
  /\ found \in Seq(InScope) /\ records \subseteq InScope
  /\ runs \in Seq(Rows) /\ begun \subseteq Rows

-----------------------------------------------------------------------------
\* The lists a level is made of.
LEMMA PassFacts ==
  ASSUME NEW L \in Nat, NEW P \in Nat \ {0}, NEW k \in 1 .. L * P
  PROVE  ((k - 1) \div P) + 1 \in 1 .. L
<1>. DEFINE q == (k - 1) \div P
<1>1. q \in Int /\ q * P <= k - 1 /\ k - 1 < (q + 1) * P
  OBVIOUS
<1>2. q >= 0
  OBVIOUS
<1>3. k - 1 < L * P
  OBVIOUS
<1>. HIDE DEF q
<1>4. q < L
  <2>. SUFFICES ASSUME L <= q  PROVE FALSE
    BY <1>1
  <2>1. L * P <= q * P
    BY <1>1
  <2>. QED  BY <1>1, <1>3, <2>1
<1>5. q + 1 \in 1 .. L
  BY <1>1, <1>2, <1>4
<1>. QED  BY <1>5 DEF q

\* What the invocations are fed; one invocation for a list, or one list for each.
Fed(p) == UNION {Elements(p[i].fed) : i \in 1 .. Len(p)}
Sparse(p) == Len(p) <= 1 \/ \A i \in 1 .. Len(p) : p[i].item \in Item /\ p[i].fed = <<p[i].item>>

LEMMA PairsOfFacts ==
  ASSUME NEW s \in Seq(Item)
  PROVE  PairsOf(s) \in Seq(Pairs) /\ Fed(PairsOf(s)) \subseteq Elements(s) /\ Sparse(PairsOf(s))
<1>1. CASE batch
  <2>. DEFINE all == [item |-> None, fed |-> s]
  <2>1. PairsOf(s) = <<all>> /\ all \in Pairs /\ all.fed = s
    BY <1>1 DEF PairsOf, Pairs
  <2>. HIDE DEF all
  <2>2. <<all>> \in Seq(Pairs) /\ Len(<<all>>) = 1 /\ <<all>>[1] = all
    BY <2>1
  <2>. QED  BY <2>1, <2>2 DEF Fed, Sparse
<1>2. CASE ~batch
  <2>. DEFINE n == Len(s) * Passes
              it(k) == s[((k - 1) \div Passes) + 1]
  <2>1. n \in Nat /\ Len(s) \in Nat /\ Passes \in Nat \ {0}
    BY FlowAssumption
  <2>2. ASSUME NEW k \in 1 .. n  PROVE it(k) \in Elements(s) /\ it(k) \in Item
    <3>1. ((k - 1) \div Passes) + 1 \in 1 .. Len(s)
      BY <2>1, PassFacts
    <3>. QED  BY <3>1, ElementOfSeq DEF Elements
  <2>3. PairsOf(s) = [k \in 1 .. n |-> Alone(it(k))]
    BY <1>2 DEF PairsOf
  <2>. HIDE DEF n, it
  <2>4. \A x \in Item : Alone(x) \in Pairs /\ Alone(x).item = x /\ Alone(x).fed = <<x>>
    BY DEF Alone, Pairs
  <2>5. \A x : Elements(<<x>>) = {x}
    BY DEF Elements
  <2>6. PairsOf(s) \in Seq(Pairs) /\ Len(PairsOf(s)) = n
        /\ \A k \in 1 .. n : PairsOf(s)[k] = Alone(it(k))
    <3>1. \A k \in 1 .. n : Alone(it(k)) \in Pairs
      BY <2>2, <2>4
    <3>2. [k \in 1 .. n |-> Alone(it(k))] \in Seq(Pairs)
      BY <2>1, <3>1, SeqDef
    <3>3. /\ Len([k \in 1 .. n |-> Alone(it(k))]) = n
          /\ \A k \in 1 .. n : [i \in 1 .. n |-> Alone(it(i))][k] = Alone(it(k))
      BY <2>1
    <3>. QED  BY <2>3, <3>2, <3>3
  <2>7. Fed(PairsOf(s)) \subseteq Elements(s)
    <3>1. ASSUME NEW k \in 1 .. n  PROVE Elements(PairsOf(s)[k].fed) \subseteq Elements(s)
      <4>1. PairsOf(s)[k].fed = <<it(k)>> /\ it(k) \in Elements(s)
        BY <2>2, <2>4, <2>6
      <4>. QED  BY <4>1, <2>5
    <3>. QED  BY <3>1, <2>6 DEF Fed
  <2>8. Sparse(PairsOf(s))
    BY <2>2, <2>4, <2>6 DEF Sparse
  <2>. QED  BY <2>6, <2>7, <2>8
<1>. QED  BY <1>1, <1>2

SameKey(p, g) == \A k \in Elements(g) : KeyOf(p, k) = KeyOf(p, g[1])

LEMMA GroupFacts ==
  ASSUME NEW p \in Seq(Pairs), NEW i \in 1 .. Len(p)
  PROVE  /\ Group(p, i) \in Seq(1 .. Len(p)) \ {<< >>}
         /\ \A k \in Elements(Group(p, i)) : KeyOf(p, k) = KeyOf(p, i)
         /\ SameKey(p, Group(p, i))
         /\ KeyOf(p, Group(p, i)[1]) = KeyOf(p, i)
<1>. DEFINE S == {k \in 1 .. Len(p) : KeyOf(p, k) = KeyOf(p, i)}
            g == Group(p, i)
<1>1. g \in Seq(S) /\ Elements(g) = S
  <2>1. Len(p) \in Nat /\ S \subseteq 1 .. Len(p)
    OBVIOUS
  <2>2. g = Ascending(S, Len(p))
    BY DEF Group
  <2>. HIDE DEF S, g
  <2>. QED  BY <2>1, <2>2, AscendingFacts
<1>2. i \in S /\ S \subseteq 1 .. Len(p)
  OBVIOUS
<1>3. \A k \in S : KeyOf(p, k) = KeyOf(p, i)
  OBVIOUS
<1>. HIDE DEF S, g
<1>4. g # << >> /\ Len(g) \in Nat \ {0}
  BY <1>1, <1>2 DEF Elements
<1>5. g[1] \in Elements(g)
  BY <1>4 DEF Elements
<1>6. g \in Seq(1 .. Len(p))
  BY <1>1, <1>2, SeqMonotonic
<1>. QED  BY <1>1, <1>3, <1>4, <1>5, <1>6 DEF g, SameKey

LEMMA GroupsFacts ==
  ASSUME NEW p \in Seq(Pairs)
  PROVE  /\ Groups(p) \in Seq(Seq(1 .. Len(p)) \ {<< >>})
         /\ \A n \in 1 .. Len(Groups(p)) : SameKey(p, Groups(p)[n])
         /\ \A n, m \in 1 .. Len(Groups(p)) :
              KeyOf(p, Groups(p)[n][1]) = KeyOf(p, Groups(p)[m][1]) => n = m
<1>. DEFINE F == {k \in 1 .. Len(p) : \A i \in 1 .. k - 1 : KeyOf(p, i) # KeyOf(p, k)}
            f == Ascending(F, Len(p))
            G == Groups(p)
<1>1. Len(p) \in Nat /\ F \subseteq 1 .. Len(p)
  OBVIOUS
<1>2. \A k \in F : \A i \in 1 .. k - 1 : KeyOf(p, i) # KeyOf(p, k)
  OBVIOUS
<1>3. G = [n \in 1 .. Len(f) |-> Group(p, f[n])]
  BY DEF Groups
<1>. HIDE DEF F, G
<1>4. f \in Seq(F) /\ Increasing(f)
  BY <1>1, AscendingFacts
<1>. HIDE DEF f
<1>5. Len(f) \in Nat /\ \A n \in 1 .. Len(f) : f[n] \in F /\ f[n] \in 1 .. Len(p)
  BY <1>1, <1>4, ElementOfSeq, LenProperties
<1>6. ASSUME NEW n \in 1 .. Len(f)
      PROVE  /\ G[n] \in Seq(1 .. Len(p)) \ {<< >>}
             /\ SameKey(p, G[n])
             /\ KeyOf(p, G[n][1]) = KeyOf(p, f[n])
  BY <1>3, <1>5, GroupFacts
<1>7. G \in Seq(Seq(1 .. Len(p)) \ {<< >>}) /\ Len(G) = Len(f)
  BY <1>3, <1>5, <1>6
<1>8. ASSUME NEW n \in 1 .. Len(f), NEW m \in 1 .. Len(f), n < m
      PROVE  KeyOf(p, G[n][1]) # KeyOf(p, G[m][1])
  <2>1. f[n] < f[m] /\ f[n] \in 1 .. f[m] - 1
    BY <1>4, <1>5, <1>8 DEF Increasing
  <2>2. KeyOf(p, f[n]) # KeyOf(p, f[m])
    BY <1>2, <1>5, <2>1
  <2>. QED  BY <1>6, <2>2
<1>9. ASSUME NEW n \in 1 .. Len(f), NEW m \in 1 .. Len(f),
             KeyOf(p, G[n][1]) = KeyOf(p, G[m][1])
      PROVE  n = m
  <2>1. ~(n < m) /\ ~(m < n)
    BY <1>8, <1>9
  <2>. QED  BY <2>1, <1>5
<1>. QED  BY <1>6, <1>7, <1>9 DEF G

IdxOf(results) == {r.idx : r \in Elements(results)}

\* Sorting keeps the positions and puts them in order.
LEMMA SortedFacts ==
  ASSUME TypeInv, NEW results \in Seq(ResultSet)
  PROVE  /\ Sorted(results) \in Seq(ResultSet)
         /\ IdxOf(Sorted(results)) = IdxOf(results)
         /\ Increasing([k \in 1 .. Len(Sorted(results)) |-> Sorted(results)[k].idx])
<1>. DEFINE S == IdxOf(results)
            a == Ascending(S, Len(pairs))
            e(k) == CHOOSE r \in Elements(results) : r.idx = a[k]
            t == Sorted(results)
<1>0. \A r \in Elements(results) : r \in ResultSet
  BY ElementOfSeq DEF Elements
<1>1. Len(pairs) \in Nat /\ S \subseteq 1 .. Len(pairs)
  <2>1. \A r \in Elements(results) : r.idx \in Index
    BY <1>0 DEF ResultSet
  <2>. QED  BY <2>1 DEF TypeInv, IdxOf, Index
<1>2. a \in Seq(S) /\ Elements(a) = S /\ Increasing(a)
  <2>. HIDE DEF S
  <2>. QED  BY <1>1, AscendingFacts
<1>3. t = [k \in 1 .. Len(a) |-> e(k)]
  BY DEF Sorted, IdxOf
<1>4. Len(a) \in Nat
  BY <1>2
<1>5. ASSUME NEW k \in 1 .. Len(a)
      PROVE  e(k) \in Elements(results) /\ e(k).idx = a[k] /\ e(k) \in ResultSet
  <2>1. a[k] \in S
    <3>. HIDE DEF a, S
    <3>. QED  BY <1>2, ElementOfSeq
  <2>2. \E r \in Elements(results) : r.idx = a[k]
    BY <2>1 DEF IdxOf
  <2>3. e(k) \in Elements(results) /\ e(k).idx = a[k]
    BY <2>2
  <2>. HIDE DEF e
  <2>. QED  BY <2>3, <1>0
<1>. HIDE DEF t, e, a, S
<1>6. t \in Seq(ResultSet) /\ Len(t) = Len(a) /\ \A k \in 1 .. Len(a) : t[k].idx = a[k]
  BY <1>3, <1>4, <1>5
<1>7. IdxOf(t) = Elements(a)
  BY <1>6 DEF IdxOf, Elements
<1>8. Increasing([k \in 1 .. Len(t) |-> t[k].idx])
  <2>. DEFINE u == [k \in 1 .. Len(t) |-> t[k].idx]
  <2>1. Len(u) = Len(a) /\ \A k \in 1 .. Len(a) : u[k] = a[k]
    BY <1>4, <1>6
  <2>. HIDE DEF u
  <2>2. Increasing(u)
    BY <1>2, <2>1 DEF Increasing
  <2>. QED  BY <2>2 DEF u
<1>. QED  BY <1>2, <1>6, <1>7, <1>8 DEF t, S

-----------------------------------------------------------------------------
\* The types are preserved, one step for each action.
LEMMA TypeInit == Init => TypeInv
<1>. SUFFICES ASSUME Init  PROVE TypeInv
  OBVIOUS
<1>1. \A S : << >> \in Seq(S)
  OBVIOUS
<1>2. DOMAIN Empty = {}
  BY DEF Empty
<1>. QED  BY <1>1, <1>2 DEF Init, TypeInv

LEMMA TypeGather ==
  ASSUME TypeInv, Gather
  PROVE  TypeInv'
<1>1. PICK s \in Inputs :
        /\ frontier' = IF Seeds THEN s ELSE Filtered(s, InScope)
        /\ records' = IF Seeds THEN Elements(s) \cap InScope ELSE {}
  BY DEF Gather
<1>2. s \in Seq(Item)
  BY FlowAssumption
<1>3. Filtered(s, InScope) \in Seq(Item)
  BY <1>2, FilteredType
<1>4. frontier' \in Seq(Item) /\ records' \subseteq InScope
  BY <1>1, <1>2, <1>3
<1>. QED  BY <1>4 DEF Gather, TypeInv, ResultSet, Rows, Index, scan

\* The inputs of the next level, and the facts about them the invariants need.
LEMMA CurrentFacts ==
  ASSUME TypeInv
  PROVE  LET current == Filtered(frontier, Item \ seen)
         IN /\ current \in Seq(Item)
            /\ Elements(current) = Elements(frontier) \ seen
            /\ PairsOf(current) \in Seq(Pairs)
            /\ Fed(PairsOf(current)) \subseteq Elements(current)
            /\ Sparse(PairsOf(current))
<1>. DEFINE current == Filtered(frontier, Item \ seen)
<1>1. frontier \in Seq(Item) /\ Elements(frontier) \subseteq Item
  BY ElementOfSeq DEF TypeInv, Elements
<1>2. current \in Seq(Item \cap (Item \ seen)) /\ Elements(current) = Elements(frontier) \cap (Item \ seen)
  BY <1>1, FilteredFacts
<1>. HIDE DEF current
<1>3. current \in Seq(Item) /\ Elements(current) = Elements(frontier) \ seen
  BY <1>1, <1>2, SeqMonotonic
<1>4. /\ PairsOf(current) \in Seq(Pairs) /\ Fed(PairsOf(current)) \subseteq Elements(current)
      /\ Sparse(PairsOf(current))
  BY <1>3, PairsOfFacts
<1>. QED  BY <1>3, <1>4 DEF current

LEMMA TypeBeginLevel ==
  ASSUME TypeInv, BeginLevel
  PROVE  TypeInv'
<1>. DEFINE current == Filtered(frontier, Item \ seen)
<1>1. /\ current \in Seq(Item) /\ Elements(current) \subseteq Item
      /\ PairsOf(current) \in Seq(Pairs)
  <2>1. Elements(frontier) \subseteq Item
    BY ElementOfSeq DEF TypeInv, Elements
  <2>. QED  BY <2>1, CurrentFacts
<1>2. CASE level >= Depth \/ current = << >>
  BY <1>2 DEF BeginLevel, TypeInv, ResultSet, Rows, Index
<1>3. CASE ~(level >= Depth \/ current = << >>)
  <2>1. /\ pc = "level" /\ pc' = "pool" /\ level' = level + 1
        /\ pairs' = PairsOf(current) /\ queue' = Groups(PairsOf(current))
        /\ seen' = seen \cup Elements(current)
        /\ executed' = << >> /\ found' = << >>
        /\ UNCHANGED <<frontier, busy, finished, raised, records, runs, store, begun>>
    BY <1>3 DEF BeginLevel
  <2>. HIDE DEF current
  <2>2. Groups(PairsOf(current)) \in Seq(Seq(1 .. Len(PairsOf(current))) \ {<< >>})
    BY <1>1, GroupsFacts
  <2>. QED  BY <1>1, <2>1, <2>2 DEF TypeInv, ResultSet, Rows, Index
<1>. QED  BY <1>2, <1>3

\* An invocation of the level is a row of the ledger.
LEMMA InvocationIsRow ==
  ASSUME TypeInv, NEW i \in Index
  PROVE  Invocation(i) \in Rows /\ pairs[i] \in Pairs
<1>1. pairs[i] \in Pairs
  BY ElementOfSeq DEF TypeInv, Index
<1>2. i \in Nat /\ level \in Nat /\ pairs[i].fed \in Seq(Item)
  BY <1>1 DEF TypeInv, Index, Pairs
<1>. QED  BY <1>1, <1>2 DEF Invocation, Rows

\* The group a free thread takes.
LEMMA TakenFacts ==
  ASSUME TypeInv, queue # << >>
  PROVE  /\ Head(queue) \in Seq(Index) \ {<< >>}
         /\ Head(queue)[1] \in Index
         /\ Head(queue) = queue[1] /\ 1 \in 1 .. Len(queue)
         /\ Tail(queue) \in Seq(Seq(Index) \ {<< >>})
         /\ Len(Tail(queue)) = Len(queue) - 1
         /\ \A n \in 1 .. Len(Tail(queue)) :
              n + 1 \in 1 .. Len(queue) /\ Tail(queue)[n] = queue[n + 1]
<1>1. queue \in Seq(Seq(Index) \ {<< >>}) /\ Len(queue) \in Nat \ {0}
  BY EmptySeq DEF TypeInv
<1>2. /\ Head(queue) \in Seq(Index) \ {<< >>} /\ Head(queue) = queue[1]
      /\ Tail(queue) \in Seq(Seq(Index) \ {<< >>})
      /\ Len(Tail(queue)) = Len(queue) - 1
      /\ \A n \in 1 .. Len(Tail(queue)) : Tail(queue)[n] = queue[n + 1]
  BY <1>1, HeadTailProperties
<1>3. Head(queue)[1] \in Index
  BY <1>2, EmptySeq, ElementOfSeq
<1>. QED  BY <1>1, <1>2, <1>3

LEMMA TypeTakeGroup ==
  ASSUME TypeInv, TakeGroup
  PROVE  TypeInv'
<1>. DEFINE g == Head(queue)[1]
<1>1. /\ pc = "pool" /\ queue # << >> /\ queue' = Tail(queue)
      /\ busy' = [h \in DOMAIN busy \cup {g} |-> IF h = g THEN Head(queue) ELSE busy[h]]
      /\ finished' = [h \in DOMAIN busy \cup {g} |-> IF h = g THEN << >> ELSE finished[h]]
      /\ begun' = begun \cup {Invocation(g)}
      /\ UNCHANGED <<pc, frontier, seen, level, pairs, executed, raised, found, records, runs, store>>
  BY DEF TakeGroup
<1>2. g \in Index /\ Head(queue) \in Seq(Index) \ {<< >>} /\ Tail(queue) \in Seq(Seq(Index) \ {<< >>})
  BY <1>1, TakenFacts
<1>3. Invocation(g) \in Rows
  BY <1>2, InvocationIsRow
<1>. HIDE DEF g
<1>4. << >> \in Seq(ResultSet)
  OBVIOUS
<1>. QED  BY <1>1, <1>2, <1>3, <1>4 DEF TypeInv, ResultSet, Rows, Index

\* What is left of a busy group once its first invocation ends.
LEMMA RestFacts ==
  ASSUME TypeInv, NEW g \in DOMAIN busy, NEW ok \in BOOLEAN
  PROVE  /\ Head(busy[g]) = busy[g][1] /\ busy[g][1] \in Index
         /\ busy[g] \in Seq(Index) /\ busy[g] # << >>
         /\ Tail(busy[g]) \in Seq(Index)
         /\ Tail(busy[g]) # << >> => Tail(busy[g])[1] \in Index /\ Tail(busy[g])[1] \in Elements(busy[g])
         /\ Elements(Tail(busy[g])) \subseteq Elements(busy[g])
         /\ Result(Head(busy[g]), ok) \in ResultSet
         /\ Append(finished[g], Result(Head(busy[g]), ok)) \in Seq(ResultSet)
         /\ IdxOf(Append(finished[g], Result(Head(busy[g]), ok))) = IdxOf(finished[g]) \cup {busy[g][1]}
<1>1. busy[g] \in Seq(Index) /\ busy[g] # << >> /\ finished[g] \in Seq(ResultSet)
  BY DEF TypeInv
<1>2. Head(busy[g]) = busy[g][1] /\ busy[g][1] \in Index /\ Tail(busy[g]) \in Seq(Index)
  BY <1>1, HeadTailProperties
<1>3. Elements(Tail(busy[g])) \subseteq Elements(busy[g])
  BY <1>1, ElementsOfTail
<1>4. ASSUME Tail(busy[g]) # << >>
      PROVE  Tail(busy[g])[1] \in Index /\ Tail(busy[g])[1] \in Elements(busy[g])
  <2>1. 1 \in 1 .. Len(Tail(busy[g]))
    BY <1>2, <1>4, EmptySeq
  <2>. QED  BY <1>2, <1>3, <2>1, ElementOfSeq DEF Elements
<1>5. Result(Head(busy[g]), ok) \in ResultSet /\ Result(Head(busy[g]), ok).idx = busy[g][1]
  BY <1>2, InvocationIsRow DEF Result, ResultSet
<1>6. /\ Append(finished[g], Result(Head(busy[g]), ok)) \in Seq(ResultSet)
      /\ Elements(Append(finished[g], Result(Head(busy[g]), ok)))
           = Elements(finished[g]) \cup {Result(Head(busy[g]), ok)}
  BY <1>1, <1>5, AppendProperties, ElementsOfAppend
<1>. QED  BY <1>1, <1>2, <1>3, <1>4, <1>5, <1>6 DEF IdxOf

LEMMA TypeEndInvocation ==
  ASSUME TypeInv, NEW g \in DOMAIN busy, EndInvocation(g)
  PROVE  TypeInv'
<1>1. PICK ok \in BOOLEAN :
        LET results == Append(finished[g], Result(Head(busy[g]), ok))
            rest == Tail(busy[g])
        IN IF rest = << >>
           THEN /\ executed' = executed \o results
                /\ busy' = Without(busy, g)
                /\ finished' = Without(finished, g)
                /\ UNCHANGED begun
           ELSE /\ busy' = [busy EXCEPT ![g] = rest]
                /\ finished' = [finished EXCEPT ![g] = results]
                /\ begun' = begun \cup {Invocation(rest[1])}
                /\ UNCHANGED executed
  BY DEF EndInvocation
<1>. DEFINE results == Append(finished[g], Result(Head(busy[g]), ok))
            rest == Tail(busy[g])
<1>2. /\ pc = "pool"
      /\ UNCHANGED <<pc, frontier, seen, level, pairs, queue, raised, found, records, runs, store>>
  BY DEF EndInvocation
<1>3. /\ results \in Seq(ResultSet) /\ rest \in Seq(Index)
      /\ rest # << >> => rest[1] \in Index
  BY RestFacts
<1>4. CASE rest = << >>
  <2>1. /\ executed' = executed \o results
        /\ busy' = Without(busy, g) /\ finished' = Without(finished, g)
        /\ UNCHANGED begun
    BY <1>1, <1>4
  <2>. HIDE DEF results, rest
  <2>2. executed' \in Seq(ResultSet)
    BY <2>1, <1>3, ConcatProperties DEF TypeInv
  <2>. QED  BY <2>1, <2>2, <1>2 DEF TypeInv, Without, ResultSet, Rows, Index
<1>5. CASE rest # << >>
  <2>1. /\ busy' = [busy EXCEPT ![g] = rest]
        /\ finished' = [finished EXCEPT ![g] = results]
        /\ begun' = begun \cup {Invocation(rest[1])}
        /\ UNCHANGED executed
    BY <1>1, <1>5
  <2>2. Invocation(rest[1]) \in Rows
    <3>. HIDE DEF rest
    <3>. QED  BY <1>3, <1>5, InvocationIsRow
  <2>. HIDE DEF results, rest
  <2>3. /\ DOMAIN busy' = DOMAIN busy /\ DOMAIN finished' = DOMAIN finished
        /\ \A h \in DOMAIN busy : busy'[h] = IF h = g THEN rest ELSE busy[h]
        /\ \A h \in DOMAIN finished : finished'[h] = IF h = g THEN results ELSE finished[h]
    BY <2>1
  <2>. QED  BY <2>1, <2>2, <2>3, <1>2, <1>3, <1>5 DEF TypeInv, ResultSet, Rows, Index
<1>. QED  BY <1>4, <1>5

LEMMA TypeRaise ==
  ASSUME TypeInv, NEW g \in DOMAIN busy, Raise(g)
  PROVE  TypeInv'
BY DEF Raise, TypeInv, Without, ResultSet, Rows, Index

LEMMA TypeEndPool ==
  ASSUME TypeInv, EndPool
  PROVE  TypeInv'
<1>1. Sorted(executed) \in Seq(ResultSet)
  BY SortedFacts DEF TypeInv
<1>2. DOMAIN busy = {}
  BY DEF EndPool, Empty
<1>. QED  BY <1>1, <1>2 DEF EndPool, TypeInv, ResultSet, Rows, Index

\* The first result that is not recorded yet.
LEMMA ResultFacts ==
  ASSUME TypeInv, executed # << >>
  PROVE  /\ Head(executed) \in ResultSet /\ Head(executed) = executed[1]
         /\ Head(executed).idx \in Index
         /\ Tail(executed) \in Seq(ResultSet)
         /\ Len(executed) \in Nat \ {0} /\ Len(Tail(executed)) = Len(executed) - 1
         /\ \A k \in 1 .. Len(Tail(executed)) : Tail(executed)[k] = executed[k + 1]
         /\ IdxOf(executed) = {Head(executed).idx} \cup IdxOf(Tail(executed))
         /\ Invocation(Head(executed).idx) \in Rows
<1>1. executed \in Seq(ResultSet)
  BY DEF TypeInv
<1>2. /\ Head(executed) \in ResultSet /\ Tail(executed) \in Seq(ResultSet)
      /\ Len(Tail(executed)) = Len(executed) - 1
      /\ \A k \in 1 .. Len(Tail(executed)) : Tail(executed)[k] = executed[k + 1]
      /\ Head(executed) = executed[1] /\ Len(executed) \in Nat \ {0}
  BY <1>1, HeadTailProperties, EmptySeq
<1>3. Head(executed).idx \in Index
  BY <1>2 DEF ResultSet
<1>4. Elements(executed) = {Head(executed)} \cup Elements(Tail(executed))
  BY <1>1, ElementsOfTail
<1>. QED  BY <1>2, <1>3, <1>4, InvocationIsRow DEF IdxOf

\* What is read in the output of an invocation is of the type of the inputs.
LEMMA OutputType ==
  ASSUME TypeInv, NEW i \in Index
  PROVE  Output(i) \in Seq(Item)
<1>. DEFINE fed == pairs[i].fed
            lists == [k \in 1 .. Len(fed) |-> Finds[fed[k]]]
<1>1. fed \in Seq(Item)
  BY InvocationIsRow DEF Pairs
<1>. HIDE DEF fed
<1>2. Len(fed) \in Nat /\ \A k \in 1 .. Len(fed) : Finds[fed[k]] \in Seq(Item)
  BY <1>1, ElementOfSeq, FlowAssumption
<1>3. lists \in Seq(Seq(Item))
  BY <1>2
<1>4. Joined(lists) \in Seq(Item)
  <2>. HIDE DEF lists
  <2>. QED  BY <1>3, JoinedFacts
<1>. QED  BY <1>4 DEF Output, fed

LEMMA TypeRecordResult ==
  ASSUME TypeInv, RecordResult
  PROVE  TypeInv'
<1>1. /\ Tail(executed) \in Seq(ResultSet) /\ Head(executed).idx \in Index
      /\ Invocation(Head(executed).idx) \in Rows
  BY ResultFacts DEF RecordResult
<1>2. runs' \in Seq(Rows)
  BY <1>1, AppendProperties DEF RecordResult, TypeInv
<1>3. Filtered(Output(Head(executed).idx), InScope) \in Seq(InScope)
  BY <1>1, FilteredType, OutputType
<1>4. found \o Filtered(Output(Head(executed).idx), InScope) \in Seq(InScope)
  BY <1>3, ConcatProperties DEF TypeInv
<1>5. found' \in Seq(InScope) /\ (pc' = "pool" => pc = "pool")
  BY <1>4 DEF RecordResult, TypeInv
<1>. QED  BY <1>1, <1>2, <1>5 DEF RecordResult, TypeInv, ResultSet, Rows, Index

LEMMA TypeEndLevel ==
  ASSUME TypeInv, EndLevel
  PROVE  TypeInv' /\ frontier' \in Seq(InScope)
<1>1. Filtered(found, Item \ seen) \in Seq(InScope)
  BY FilteredType DEF TypeInv
<1>2. Filtered(found, Item \ seen) \in Seq(Item)
  BY <1>1, SeqMonotonic, FlowAssumption
<1>3. Elements(found) \subseteq InScope
  BY ElementOfSeq DEF TypeInv, Elements
<1>. QED  BY <1>1, <1>2, <1>3 DEF EndLevel, TypeInv, ResultSet, Rows, Index, scan

LEMMA TypeOnlyPc ==
  ASSUME TypeInv, ToolMissing \/ Persist \/ AfterPersist
  PROVE  TypeInv'
BY DEF ToolMissing, Persist, AfterPersist, TypeInv, ResultSet, Rows, Index, scan

LEMMA TypeStutter ==
  ASSUME TypeInv, UNCHANGED vars
  PROVE  TypeInv'
BY DEF vars, scan, TypeInv, ResultSet, Rows, Index

\* The variables of a run of the flow keep their types.
THEOREM FlowTypes == Spec => []TypeInv
<1>1. TypeInv /\ [Next]_vars => TypeInv'
  <2>. SUFFICES ASSUME TypeInv, [Next]_vars  PROVE TypeInv'
    OBVIOUS
  <2>. QED  BY TypeGather, TypeBeginLevel, TypeTakeGroup, TypeEndInvocation, TypeRaise, TypeEndPool,
               TypeRecordResult, TypeEndLevel, TypeOnlyPc, TypeStutter DEF Next, FlowStep
<1>. QED  BY TypeInit, <1>1, PTL DEF Spec

-----------------------------------------------------------------------------
\* A key belongs to one group, which waits or runs; what is left of a busy group
\* keeps the group's key.
SerialInv ==
  /\ \A n \in 1 .. Len(queue) : SameKey(pairs, queue[n])
  /\ \A n, m \in 1 .. Len(queue) :
       KeyOf(pairs, queue[n][1]) = KeyOf(pairs, queue[m][1]) => n = m
  /\ \A g \in DOMAIN busy : \A k \in Elements(busy[g]) : KeyOf(pairs, k) = KeyOf(pairs, g)
  /\ \A g, h \in DOMAIN busy : KeyOf(pairs, g) = KeyOf(pairs, h) => g = h
  /\ \A n \in 1 .. Len(queue) : \A g \in DOMAIN busy :
       KeyOf(pairs, queue[n][1]) # KeyOf(pairs, g)

LEMMA SerialImplies ==
  ASSUME TypeInv, SerialInv
  PROVE  HostsAreSerial
<1>0. \A a, b : GroupOf[pairs[a].item] # None /\ GroupOf[pairs[a].item] = GroupOf[pairs[b].item]
                => KeyOf(pairs, a) = KeyOf(pairs, b)
  BY DEF KeyOf
<1>1. SUFFICES ASSUME NEW g \in DOMAIN busy, NEW h \in DOMAIN busy,
                      KeyOf(pairs, busy[g][1]) = KeyOf(pairs, busy[h][1])
               PROVE  g = h
  BY <1>0 DEF HostsAreSerial, Running
<1>2. \A f \in DOMAIN busy : busy[f][1] \in Elements(busy[f])
  <2>. TAKE f \in DOMAIN busy
  <2>1. Len(busy[f]) \in Nat \ {0}
    BY EmptySeq DEF TypeInv
  <2>. QED  BY <2>1 DEF Elements
<1>. QED  BY <1>1, <1>2 DEF SerialInv

LEMMA SerialBeginLevel ==
  ASSUME TypeInv, SerialInv, BeginLevel
  PROVE  SerialInv'
<1>. DEFINE p == PairsOf(Filtered(frontier, Item \ seen))
<1>1. p \in Seq(Pairs)
  BY CurrentFacts
<1>2. CASE pairs' = p /\ queue' = Groups(p)
  <2>1. UNCHANGED busy /\ DOMAIN busy = {}
    BY DEF BeginLevel, TypeInv
  <2>2. \A k : KeyOf(pairs, k)' = KeyOf(p, k)
    BY <1>2 DEF KeyOf
  <2>. HIDE DEF p
  <2>. QED  BY <1>1, <1>2, <2>1, <2>2, GroupsFacts DEF SerialInv, SameKey
<1>3. CASE UNCHANGED <<pairs, queue>>
  BY <1>3 DEF BeginLevel, SerialInv, SameKey, KeyOf
<1>. QED  BY <1>2, <1>3 DEF BeginLevel

LEMMA SerialTakeGroup ==
  ASSUME TypeInv, SerialInv, TakeGroup
  PROVE  SerialInv'
<1>. DEFINE g == Head(queue)[1]
<1>1. /\ queue # << >> /\ queue' = Tail(queue) /\ pairs' = pairs
      /\ busy' = [h \in DOMAIN busy \cup {g} |-> IF h = g THEN Head(queue) ELSE busy[h]]
  BY DEF TakeGroup
<1>2. /\ Head(queue) = queue[1] /\ 1 \in 1 .. Len(queue)
      /\ Len(queue') = Len(queue) - 1
      /\ \A n \in 1 .. Len(queue') : n + 1 \in 1 .. Len(queue) /\ queue'[n] = queue[n + 1]
  BY <1>1, TakenFacts
<1>3. \A h \in DOMAIN busy : KeyOf(pairs, g) # KeyOf(pairs, h)
  BY <1>2 DEF SerialInv
<1>4. \A n \in 1 .. Len(queue') : KeyOf(pairs, queue'[n][1]) # KeyOf(pairs, g)
  <2>. TAKE n \in 1 .. Len(queue')
  <2>1. n + 1 \in 1 .. Len(queue) /\ queue'[n] = queue[n + 1] /\ n + 1 # 1
    BY <1>2
  <2>. QED  BY <2>1, <1>2 DEF SerialInv
<1>5. \A k \in Elements(Head(queue)) : KeyOf(pairs, k) = KeyOf(pairs, g)
  BY <1>2 DEF SerialInv, SameKey
<1>. HIDE DEF g
<1>6. DOMAIN busy' = DOMAIN busy \cup {g} /\ busy'[g] = Head(queue)
      /\ \A h \in DOMAIN busy : h # g /\ busy'[h] = busy[h]
  BY <1>1, <1>3
<1>7. \A n \in 1 .. Len(queue') : SameKey(pairs, queue'[n])
  BY <1>2 DEF SerialInv
<1>8. ASSUME NEW n \in 1 .. Len(queue'), NEW m \in 1 .. Len(queue'),
             KeyOf(pairs, queue'[n][1]) = KeyOf(pairs, queue'[m][1])
      PROVE  n = m
  <2>1. n + 1 = m + 1
    BY <1>2, <1>8 DEF SerialInv
  <2>. QED  BY <2>1
<1>9. \A h \in DOMAIN busy' : \A k \in Elements(busy'[h]) : KeyOf(pairs, k) = KeyOf(pairs, h)
  BY <1>5, <1>6 DEF SerialInv
<1>10. \A h, f \in DOMAIN busy' : KeyOf(pairs, h) = KeyOf(pairs, f) => h = f
  BY <1>3, <1>6 DEF SerialInv
<1>11. \A n \in 1 .. Len(queue') : \A h \in DOMAIN busy' :
         KeyOf(pairs, queue'[n][1]) # KeyOf(pairs, h)
  BY <1>2, <1>4, <1>6 DEF SerialInv
<1>. QED  BY <1>1, <1>7, <1>8, <1>9, <1>10, <1>11 DEF SerialInv

LEMMA SerialEndInvocation ==
  ASSUME TypeInv, SerialInv, NEW g \in DOMAIN busy, EndInvocation(g)
  PROVE  SerialInv'
<1>1. Elements(Tail(busy[g])) \subseteq Elements(busy[g])
  BY RestFacts
<1>2. UNCHANGED <<pairs, queue>>
  BY DEF EndInvocation
<1>3. busy' = Without(busy, g) \/ busy' = [busy EXCEPT ![g] = Tail(busy[g])]
  BY DEF EndInvocation
<1>4. DOMAIN busy' \subseteq DOMAIN busy
      /\ \A h \in DOMAIN busy' : Elements(busy'[h]) \subseteq Elements(busy[h])
  <2>1. CASE busy' = Without(busy, g)
    BY <2>1 DEF Without
  <2>2. CASE busy' = [busy EXCEPT ![g] = Tail(busy[g])]
    BY <2>2, <1>1
  <2>. QED  BY <1>3, <2>1, <2>2
<1>. QED  BY <1>2, <1>4 DEF SerialInv, SameKey, KeyOf

LEMMA SerialRaise ==
  ASSUME SerialInv, NEW g \in DOMAIN busy, Raise(g)
  PROVE  SerialInv'
BY DEF Raise, Without, SerialInv, SameKey, KeyOf

LEMMA SerialOthers ==
  ASSUME SerialInv, UNCHANGED <<pairs, queue, busy>>
  PROVE  SerialInv'
BY DEF SerialInv, SameKey, KeyOf

LEMMA SerialIsInvariant == Spec => []SerialInv
<1>1. Init => SerialInv
  BY DEF Init, SerialInv, Empty
<1>2. TypeInv /\ SerialInv /\ [Next]_vars => SerialInv'
  <2>. SUFFICES ASSUME TypeInv, SerialInv, [Next]_vars  PROVE SerialInv'
    OBVIOUS
  <2>1. CASE \/ ToolMissing \/ Gather \/ EndPool \/ RecordResult \/ EndLevel \/ Persist \/ AfterPersist
             \/ UNCHANGED vars
    <3>1. UNCHANGED <<pairs, queue, busy>>
      BY <2>1 DEF ToolMissing, Gather, EndPool, RecordResult, EndLevel, Persist, AfterPersist, vars, scan
    <3>. QED  BY <3>1, SerialOthers
  <2>. QED  BY <2>1, SerialBeginLevel, SerialTakeGroup, SerialEndInvocation, SerialRaise DEF Next, FlowStep
<1>. QED  BY <1>1, <1>2, FlowTypes, PTL DEF Spec

\* Two running invocations never have the same host key, whatever the threads do.
THEOREM InvocationsOfAHostAreSerial == Spec => []HostsAreSerial
BY SerialIsInvariant, FlowTypes, SerialImplies, PTL

-----------------------------------------------------------------------------
\* Rows come before what is still to be recorded: those of earlier levels while a pool
\* runs, and while it is recorded those of the level that precede what is left.
Positions(results) == [k \in 1 .. Len(results) |-> results[k].idx]

OrderInv ==
  /\ LedgerIsOrdered
  /\ \A i \in 1 .. Len(runs) : runs[i].level <= level
  /\ pc = "pool" => \A i \in 1 .. Len(runs) : runs[i].level < level
  /\ pc = "record" =>
       /\ Increasing(Positions(executed))
       /\ \A i \in 1 .. Len(runs) : runs[i].level = level =>
            \A k \in 1 .. Len(executed) : runs[i].idx < executed[k].idx

LEMMA RowTypes ==
  ASSUME TypeInv
  PROVE  /\ level \in Nat /\ Len(runs) \in Nat
         /\ \A i \in 1 .. Len(runs) : runs[i].level \in Nat /\ runs[i].idx \in Nat
<1>1. runs \in Seq(Rows) /\ level \in Nat
  BY DEF TypeInv
<1>2. \A i \in 1 .. Len(runs) : runs[i] \in Rows
  BY <1>1, ElementOfSeq
<1>. QED  BY <1>1, <1>2 DEF Rows

LEMMA OrderBeginLevel ==
  ASSUME TypeInv, OrderInv, BeginLevel
  PROVE  OrderInv'
<1>1. runs' = runs /\ ((pc' = "pool" /\ level' = level + 1) \/ (pc' = "persist" /\ level' = level))
  BY DEF BeginLevel
<1>. QED  BY <1>1, RowTypes DEF OrderInv, LedgerIsOrdered

LEMMA OrderEndPool ==
  ASSUME TypeInv, OrderInv, EndPool
  PROVE  OrderInv'
<1>1. pc = "pool" /\ pc' # "pool" /\ executed' = Sorted(executed) /\ UNCHANGED <<level, runs>>
  BY DEF EndPool
<1>2. Increasing(Positions(executed'))
  BY <1>1, SortedFacts DEF Positions, TypeInv
<1>3. \A i \in 1 .. Len(runs) : runs[i].level # level
  BY <1>1, RowTypes DEF OrderInv
<1>. QED  BY <1>1, <1>2, <1>3 DEF OrderInv, LedgerIsOrdered

LEMMA OrderRecordResult ==
  ASSUME TypeInv, OrderInv, RecordResult
  PROVE  OrderInv'
<1>. DEFINE row == Invocation(Head(executed).idx)
            n == Len(runs)
<1>1. /\ pc = "record" /\ pc' # "pool" /\ executed # << >> /\ executed' = Tail(executed)
      /\ runs' = Append(runs, row) /\ level' = level
  BY DEF RecordResult
<1>2. /\ Len(executed) \in Nat \ {0} /\ Len(executed') = Len(executed) - 1
      /\ \A k \in 1 .. Len(executed') : executed'[k] = executed[k + 1]
      /\ \A k \in 1 .. Len(executed) : executed[k].idx \in Nat
      /\ row \in Rows /\ row.level = level /\ row.idx = executed[1].idx
  <2>1. \A k \in 1 .. Len(executed) : executed[k] \in ResultSet
    BY ElementOfSeq DEF TypeInv
  <2>2. \A k \in 1 .. Len(executed) : executed[k].idx \in Nat
    BY <2>1 DEF ResultSet, Index
  <2>. QED  BY <1>1, <2>2, ResultFacts DEF Invocation
<1>3. /\ n \in Nat /\ Len(runs') = n + 1 /\ runs'[n + 1] = row
      /\ \A i \in 1 .. n : runs'[i] = runs[i]
  <2>1. runs \in Seq(Rows)
    BY DEF TypeInv
  <2>. QED  BY <1>1, <1>2, <2>1, AppendProperties
<1>. HIDE DEF row, n
<1>4. \A k \in 1 .. Len(executed') : executed[1].idx < executed'[k].idx /\ executed'[k].idx \in Nat
  <2>. TAKE k \in 1 .. Len(executed')
  <2>1. k + 1 \in 1 .. Len(executed) /\ 1 \in 1 .. Len(executed) /\ executed'[k] = executed[k + 1] /\ 1 < k + 1
    BY <1>2
  <2>2. \A i, j \in 1 .. Len(executed) : i < j => executed[i].idx < executed[j].idx
    BY <1>1, <1>2 DEF OrderInv, Increasing, Positions
  <2>. QED  BY <1>2, <2>1, <2>2
<1>5. ASSUME NEW i \in 1 .. n
      PROVE  /\ runs[i].level < level \/ (runs[i].level = level /\ runs[i].idx < row.idx)
             /\ runs[i].level \in Nat /\ runs[i].idx \in Nat
  <2>1. 1 \in 1 .. Len(executed)
    BY <1>2
  <2>2. runs[i].level \in Nat /\ runs[i].idx \in Nat /\ level \in Nat /\ runs[i].level <= level
    BY RowTypes DEF OrderInv, n
  <2>. QED  BY <1>1, <1>2, <2>1, <2>2 DEF OrderInv, n
<1>6. \A i \in 1 .. Len(runs') : i \in 1 .. n \/ i = n + 1
  BY <1>3
<1>7. LedgerIsOrdered'
  <2>1. SUFFICES ASSUME NEW i \in 1 .. Len(runs'), NEW j \in 1 .. Len(runs'), i < j
                 PROVE  \/ runs'[i].level < runs'[j].level
                        \/ runs'[i].level = runs'[j].level /\ runs'[i].idx < runs'[j].idx
    BY DEF LedgerIsOrdered
  <2>2. i \in 1 .. n /\ runs'[i] = runs[i]
    BY <1>3, <2>1
  <2>3. CASE j \in 1 .. n
    BY <1>3, <2>1, <2>2, <2>3 DEF OrderInv, LedgerIsOrdered, n
  <2>4. CASE j = n + 1
    BY <1>2, <1>3, <1>5, <2>2, <2>4
  <2>. QED  BY <1>6, <2>3, <2>4
<1>8. \A i \in 1 .. Len(runs') : runs'[i].level <= level'
  <2>. TAKE i \in 1 .. Len(runs')
  <2>1. level' = level /\ level \in Nat
    BY <1>1, RowTypes
  <2>2. CASE i \in 1 .. n
    BY <1>3, <1>5, <2>1, <2>2
  <2>3. CASE i = n + 1
    BY <1>2, <1>3, <2>1, <2>3
  <2>. QED  BY <1>6, <2>2, <2>3
<1>9. Increasing(Positions(executed'))
  <2>. DEFINE p == Positions(executed')
  <2>1. Len(p) = Len(executed') /\ \A k \in 1 .. Len(executed') : p[k] = executed[k + 1].idx
    BY <1>2 DEF Positions
  <2>. HIDE DEF p
  <2>2. SUFFICES ASSUME NEW i \in 1 .. Len(executed'), NEW j \in 1 .. Len(executed'), i < j
                 PROVE  executed[i + 1].idx < executed[j + 1].idx
    BY <2>1 DEF Increasing, p
  <2>3. i + 1 \in 1 .. Len(executed) /\ j + 1 \in 1 .. Len(executed) /\ i + 1 < j + 1
    BY <1>2, <2>2
  <2>4. \A k, l \in 1 .. Len(executed) : k < l => executed[k].idx < executed[l].idx
    BY <1>1, <1>2 DEF OrderInv, Increasing, Positions
  <2>. QED  BY <2>3, <2>4
<1>10. ASSUME NEW i \in 1 .. Len(runs'), runs'[i].level = level', NEW k \in 1 .. Len(executed')
       PROVE  runs'[i].idx < executed'[k].idx
  <2>1. CASE i = n + 1
    BY <1>2, <1>3, <1>4, <2>1
  <2>2. CASE i \in 1 .. n
    <3>1. runs'[i] = runs[i] /\ runs[i].level = level
      BY <1>1, <1>3, <1>10, <2>2
    <3>2. runs[i].idx < row.idx
      BY <1>5, <2>2, <3>1, RowTypes
    <3>. QED  BY <1>2, <1>4, <1>5, <2>2, <3>1, <3>2
  <2>. QED  BY <1>6, <2>1, <2>2
<1>. QED  BY <1>1, <1>7, <1>8, <1>9, <1>10 DEF OrderInv

\* The tool_run rows come in the order of levels and invocations, whichever thread
\* finished first.
THEOREM LedgerFollowsTheInputs == Spec => []LedgerIsOrdered
<1>1. Init => OrderInv
  BY DEF Init, OrderInv, LedgerIsOrdered
<1>2. TypeInv /\ OrderInv /\ [Next]_vars => OrderInv'
  <2>. SUFFICES ASSUME TypeInv, OrderInv, [Next]_vars  PROVE OrderInv'
    OBVIOUS
  <2>1. ASSUME UNCHANGED <<runs, level>>, pc' # "record", pc' = "pool" => pc = "pool"
        PROVE  OrderInv'
    BY <2>1 DEF OrderInv, LedgerIsOrdered
  <2>2. CASE ToolMissing \/ Gather \/ EndLevel \/ Persist \/ AfterPersist
    BY <2>1, <2>2 DEF ToolMissing, Gather, EndLevel, Persist, AfterPersist
  <2>3. CASE TakeGroup \/ \E g \in DOMAIN busy : EndInvocation(g) \/ Raise(g)
    BY <2>1, <2>3 DEF TakeGroup, EndInvocation, Raise
  <2>4. CASE UNCHANGED vars
    BY <2>4 DEF OrderInv, LedgerIsOrdered, Positions, vars, scan
  <2>. QED  BY <2>2, <2>3, <2>4, OrderBeginLevel, OrderEndPool, OrderRecordResult DEF Next, FlowStep
<1>3. OrderInv => LedgerIsOrdered
  BY DEF OrderInv
<1>. QED  BY <1>1, <1>2, <1>3, FlowTypes, PTL DEF Spec

-----------------------------------------------------------------------------
\* Until a thread raises, what was begun is in the ledger or on the way to it: among the
\* results of the completed groups, among those of a busy one, or running.
Open == IdxOf(executed) \cup (UNION {IdxOf(finished[g]) : g \in DOMAIN busy}) \cup Running

AccountInv ==
  /\ pc \notin {"pool", "failed"} => ~raised
  /\ pc \notin {"pool", "record", "failed"} => executed = << >>
  /\ ~raised => begun = Elements(runs) \cup {Invocation(i) : i \in Open}

\* Strictly ordered rows are as many as there are different ones.
LEMMA RowsAreDistinct ==
  ASSUME TypeInv, LedgerIsOrdered
  PROVE  Len(runs) = Cardinality(Elements(runs))
<1>. DEFINE n == Len(runs)
            S == Elements(runs)
            f == [i \in 1 .. n |-> runs[i]]
<1>1. n \in Nat
  BY RowTypes
<1>2. ASSUME NEW i \in 1 .. n, NEW j \in 1 .. n, runs[i] = runs[j]  PROVE i = j
  <2>1. ~(i < j) /\ ~(j < i)
    BY <1>2, RowTypes DEF LedgerIsOrdered
  <2>. QED  BY <2>1, <1>1
<1>3. f \in Bijection(1 .. n, S)
  BY <1>2 DEF Bijection, Injection, Surjection, IsInjective, Elements
<1>4. ExistsBijection(1 .. n, S)
  BY <1>3 DEF ExistsBijection
<1>5. IsFiniteSet(1 .. n) /\ Cardinality(1 .. n) = n
  <2>1. Cardinality(1 .. n) = IF 1 > n THEN 0 ELSE n - 1 + 1
    BY <1>1, FS_Interval
  <2>2. IsFiniteSet(1 .. n)
    BY <1>1, FS_Interval
  <2>. QED  BY <1>1, <2>1, <2>2
<1>. HIDE DEF n, S, f
<1>6. Cardinality(S) = n
  BY <1>4, <1>5, FS_Bijection
<1>. QED  BY <1>6 DEF n, S

LEMMA AccountBeginLevel ==
  ASSUME TypeInv, AccountInv, BeginLevel
  PROVE  AccountInv'
<1>1. /\ pc = "level" /\ executed = << >> /\ executed' = << >> /\ ~raised /\ raised' = raised
      /\ DOMAIN busy = {}
      /\ UNCHANGED <<busy, finished, begun, runs>>
  BY DEF BeginLevel, TypeInv, AccountInv
<1>2. IdxOf(<< >>) = {}
  BY DEF IdxOf, Elements
<1>3. Open = {} /\ Open' = {}
  BY <1>1, <1>2 DEF Open, Running
<1>4. begun = Elements(runs)
  BY <1>1, <1>3 DEF AccountInv
<1>. QED  BY <1>1, <1>3, <1>4 DEF AccountInv

LEMMA AccountTakeGroup ==
  ASSUME TypeInv, SerialInv, AccountInv, TakeGroup
  PROVE  AccountInv'
<1>. DEFINE g == Head(queue)[1]
<1>1. /\ queue # << >>
      /\ busy' = [h \in DOMAIN busy \cup {g} |-> IF h = g THEN Head(queue) ELSE busy[h]]
      /\ finished' = [h \in DOMAIN busy \cup {g} |-> IF h = g THEN << >> ELSE finished[h]]
      /\ begun' = begun \cup {Invocation(g)}
      /\ UNCHANGED <<pc, level, pairs, executed, raised, runs>>
  BY DEF TakeGroup
<1>2. g \notin DOMAIN busy
  BY <1>1, TakenFacts DEF SerialInv
<1>3. IdxOf(<< >>) = {}
  BY DEF IdxOf, Elements
<1>4. Running' = Running \cup {g}
  BY <1>1, <1>2 DEF Running
<1>. HIDE DEF g
<1>5. UNION {IdxOf(finished'[h]) : h \in DOMAIN busy'} = UNION {IdxOf(finished[h]) : h \in DOMAIN busy}
  BY <1>1, <1>2, <1>3
<1>6. Open' = Open \cup {g}
  BY <1>1, <1>4, <1>5 DEF Open
<1>. QED  BY <1>1, <1>6 DEF AccountInv, Invocation

LEMMA AccountEndInvocation ==
  ASSUME TypeInv, AccountInv, NEW g \in DOMAIN busy, EndInvocation(g)
  PROVE  AccountInv'
<1>1. PICK ok \in BOOLEAN :
        LET results == Append(finished[g], Result(Head(busy[g]), ok))
            rest == Tail(busy[g])
        IN IF rest = << >>
           THEN /\ executed' = executed \o results
                /\ busy' = Without(busy, g)
                /\ finished' = Without(finished, g)
                /\ UNCHANGED begun
           ELSE /\ busy' = [busy EXCEPT ![g] = rest]
                /\ finished' = [finished EXCEPT ![g] = results]
                /\ begun' = begun \cup {Invocation(rest[1])}
                /\ UNCHANGED executed
  BY DEF EndInvocation
<1>. DEFINE results == Append(finished[g], Result(Head(busy[g]), ok))
            rest == Tail(busy[g])
            waiting(f, S) == (UNION {IdxOf(f[h]) : h \in S})
<1>2. pc = "pool" /\ UNCHANGED <<pc, level, pairs, raised, runs>>
  BY DEF EndInvocation
<1>3. /\ results \in Seq(ResultSet)
      /\ IdxOf(results) = IdxOf(finished[g]) \cup {busy[g][1]}
  BY RestFacts
<1>4. DOMAIN finished = DOMAIN busy
  BY DEF TypeInv
<1>5. CASE rest = << >>
  <2>1. /\ executed' = executed \o results
        /\ busy' = Without(busy, g) /\ finished' = Without(finished, g)
        /\ UNCHANGED begun
    BY <1>1, <1>5
  <2>. HIDE DEF results, rest
  <2>2. IdxOf(executed') = IdxOf(executed) \cup IdxOf(results)
    <3>1. Elements(executed') = Elements(executed) \cup Elements(results)
      BY <2>1, <1>3, ElementsOfConcat DEF TypeInv
    <3>. QED  BY <3>1 DEF IdxOf
  <2>3. /\ DOMAIN busy' = DOMAIN busy \ {g}
        /\ \A h \in DOMAIN busy \ {g} : busy'[h] = busy[h] /\ finished'[h] = finished[h]
    BY <2>1, <1>4 DEF Without
  <2>4. Running = Running' \cup {busy[g][1]}
    BY <2>3 DEF Running
  <2>5. waiting(finished, DOMAIN busy) = waiting(finished', DOMAIN busy') \cup IdxOf(finished[g])
    BY <2>3
  <2>6. Open' = Open
    BY <1>3, <2>2, <2>4, <2>5 DEF Open
  <2>. QED  BY <1>2, <2>1, <2>6 DEF AccountInv, Invocation
<1>6. CASE rest # << >>
  <2>1. /\ busy' = [busy EXCEPT ![g] = rest]
        /\ finished' = [finished EXCEPT ![g] = results]
        /\ begun' = begun \cup {Invocation(rest[1])}
        /\ UNCHANGED executed
    BY <1>1, <1>6
  <2>. HIDE DEF results, rest
  <2>2. /\ DOMAIN busy' = DOMAIN busy
        /\ busy'[g] = rest /\ finished'[g] = results
        /\ \A h \in DOMAIN busy \ {g} : busy'[h] = busy[h] /\ finished'[h] = finished[h]
    BY <2>1, <1>4
  <2>3. Running' \cup {busy[g][1]} = Running \cup {rest[1]}
    BY <2>2 DEF Running
  <2>4. waiting(finished', DOMAIN busy') = waiting(finished, DOMAIN busy) \cup {busy[g][1]}
    <3>1. waiting(finished', DOMAIN busy')
            = waiting(finished, DOMAIN busy \ {g}) \cup IdxOf(results)
      BY <2>2
    <3>2. waiting(finished, DOMAIN busy)
            = waiting(finished, DOMAIN busy \ {g}) \cup IdxOf(finished[g])
      OBVIOUS
    <3>. QED  BY <3>1, <3>2, <1>3
  <2>5. Open' = Open \cup {rest[1]}
    <3>1. busy[g][1] \in Running
      BY DEF Running
    <3>. QED  BY <2>1, <2>3, <2>4, <3>1 DEF Open
  <2>. QED  BY <1>2, <2>1, <2>5 DEF AccountInv, Invocation
<1>. QED  BY <1>5, <1>6

LEMMA AccountEndPool ==
  ASSUME TypeInv, AccountInv, EndPool
  PROVE  AccountInv'
<1>1. /\ pc' = (IF raised THEN "failed" ELSE "record") /\ executed' = Sorted(executed)
      /\ UNCHANGED <<level, pairs, busy, finished, raised, runs, begun>>
  BY DEF EndPool
<1>2. IdxOf(executed') = IdxOf(executed)
  BY <1>1, SortedFacts DEF TypeInv
<1>3. Open' = Open
  BY <1>1, <1>2 DEF Open, Running
<1>. QED  BY <1>1, <1>3 DEF AccountInv, Invocation

LEMMA AccountRecordResult ==
  ASSUME TypeInv, AccountInv, RecordResult
  PROVE  AccountInv'
<1>. DEFINE i == Head(executed).idx
<1>1. /\ pc = "record" /\ pc' \in {"record", "failed"} /\ executed # << >> /\ executed' = Tail(executed)
      /\ runs' = Append(runs, Invocation(i))
      /\ UNCHANGED <<level, pairs, busy, finished, raised, begun>>
  BY DEF RecordResult
<1>2. IdxOf(executed) = {i} \cup IdxOf(executed') /\ Invocation(i) \in Rows
  BY <1>1, ResultFacts
<1>3. Elements(runs') = Elements(runs) \cup {Invocation(i)}
  BY <1>1, <1>2, ElementsOfAppend DEF TypeInv
<1>. HIDE DEF i
<1>4. Open = Open' \cup {i}
  BY <1>1, <1>2 DEF Open, Running
<1>. QED  BY <1>1, <1>3, <1>4 DEF AccountInv, Invocation

LEMMA AccountOthers ==
  ASSUME AccountInv, UNCHANGED <<level, pairs, busy, finished, executed, raised, runs, begun>>,
         pc' = pc \/ (pc \notin {"pool", "failed"} /\ executed = << >>)
  PROVE  AccountInv'
<1>1. Open' = Open
  BY DEF Open, Running
<1>. QED  BY <1>1 DEF AccountInv, Invocation

LEMMA AccountIsInvariant == Spec => []AccountInv
<1>1. Init => AccountInv
  BY DEF Init, AccountInv, Open, Running, IdxOf, Elements, Empty
<1>2. TypeInv /\ SerialInv /\ AccountInv /\ [Next]_vars => AccountInv'
  <2>. SUFFICES ASSUME TypeInv, SerialInv, AccountInv, [Next]_vars  PROVE AccountInv'
    OBVIOUS
  <2>1. CASE \/ ToolMissing \/ Gather \/ EndLevel \/ Persist \/ AfterPersist
             \/ UNCHANGED vars
    <3>1. UNCHANGED <<level, pairs, busy, finished, executed, raised, runs, begun>>
      BY <2>1 DEF ToolMissing, Gather, EndLevel, Persist, AfterPersist, vars, scan
    <3>2. pc' = pc \/ (pc \notin {"pool", "failed"} /\ executed = << >>)
      BY <2>1 DEF ToolMissing, Gather, EndLevel, Persist, AfterPersist, vars, AccountInv
    <3>. QED  BY <3>1, <3>2, AccountOthers
  <2>2. CASE \E g \in DOMAIN busy : Raise(g)
    BY <2>2 DEF Raise, AccountInv
  <2>. QED  BY <2>1, <2>2, AccountBeginLevel, AccountTakeGroup, AccountEndInvocation, AccountEndPool,
               AccountRecordResult DEF Next, FlowStep
<1>. QED  BY <1>1, <1>2, SerialIsInvariant, FlowTypes, PTL DEF Spec

\* With nothing running and nothing left to record, the ledger is complete.
LEMMA LedgerIsComplete ==
  ASSUME TypeInv, AccountInv, pc \notin {"pool", "record", "failed"}
  PROVE  begun = Elements(runs)
<1>1. ~raised /\ executed = << >> /\ DOMAIN busy = {}
  BY DEF AccountInv, TypeInv
<1>2. Open = {}
  BY <1>1 DEF Open, Running, IdxOf, Elements
<1>. QED  BY <1>1, <1>2 DEF AccountInv

\* A stage that succeeds has a row for every invocation it began, and for no other.
THEOREM EveryInvocationIsRecorded == Spec => []SuccessIsAccounted
<1>1. TypeInv /\ LedgerIsOrdered /\ AccountInv => SuccessIsAccounted
  BY LedgerIsComplete, RowsAreDistinct DEF SuccessIsAccounted
<1>. QED  BY <1>1, AccountIsInvariant, FlowTypes, LedgerFollowsTheInputs, PTL

-----------------------------------------------------------------------------
\* What was begun was seen, and is of the current level if the level scans any of it.
ScanInv ==
  /\ NoRescan
  /\ \A b \in begun :
       /\ b.level <= level /\ Elements(b.fed) \subseteq seen
       /\ Elements(b.fed) \cap Fed(pairs) # {} => b.level = level
  /\ Fed(pairs) \subseteq seen
  /\ Fed(pairs) \subseteq InScope \/ (Seeds /\ level = 1)
  /\ pc \in {"gather", "level"} => Elements(frontier) \subseteq InScope \/ (Seeds /\ level = 0)
  /\ pc = "gather" => level = 0

\* Beginning an invocation of the level.
LEMMA ScanBegins ==
  ASSUME TypeInv, ScanInv, NEW i \in Index, begun' = begun \cup {Invocation(i)},
         UNCHANGED <<pc, level, pairs, seen, frontier>>
  PROVE  ScanInv'
<1>. DEFINE row == Invocation(i)
<1>1. row.level = level /\ Elements(row.fed) \subseteq Fed(pairs) /\ level \in Nat
  BY DEF Invocation, Fed, Index, TypeInv
<1>. HIDE DEF row
<1>2. \A b \in begun : Elements(b.fed) \cap Elements(row.fed) # {} => b.level = row.level
  BY <1>1 DEF ScanInv
<1>3. Elements(row.fed) \subseteq InScope \/ (Seeds /\ row.level = 1)
  BY <1>1 DEF ScanInv
<1>4. begun' = begun \cup {row}
  BY DEF row
<1>5. NoRescan'
  BY <1>2, <1>3, <1>4 DEF ScanInv, NoRescan
<1>6. \A b \in begun' : /\ b.level <= level /\ Elements(b.fed) \subseteq seen
                        /\ Elements(b.fed) \cap Fed(pairs) # {} => b.level = level
  BY <1>1, <1>4 DEF ScanInv
<1>. QED  BY <1>5, <1>6 DEF ScanInv

LEMMA ScanGather ==
  ASSUME TypeInv, ScanInv, Gather
  PROVE  ScanInv'
<1>1. PICK s \in Inputs : frontier' = IF Seeds THEN s ELSE Filtered(s, InScope)
  BY DEF Gather
<1>2. Elements(Filtered(s, InScope)) \subseteq InScope
  <2>1. s \in Seq(Item)
    BY FlowAssumption
  <2>2. Elements(Filtered(s, InScope)) = Elements(s) \cap InScope
    BY <2>1, FilteredFacts
  <2>. QED  BY <2>2
<1>3. Elements(frontier') \subseteq InScope \/ (Seeds /\ level = 0)
  BY <1>1, <1>2, FlowAssumption DEF ScanInv, Gather
<1>. QED  BY <1>3 DEF Gather, ScanInv, NoRescan, scan

LEMMA ScanBeginLevel ==
  ASSUME TypeInv, ScanInv, BeginLevel
  PROVE  ScanInv'
<1>. DEFINE current == Filtered(frontier, Item \ seen)
            p == PairsOf(current)
<1>1. /\ Elements(current) = Elements(frontier) \ seen
      /\ Fed(p) \subseteq Elements(current)
  BY CurrentFacts
<1>2. level \in Nat /\ \A b \in begun : b.level \in Nat
  BY DEF TypeInv, Rows
<1>3. CASE /\ pc = "level" /\ pc' = "pool" /\ level' = level + 1 /\ pairs' = p
           /\ seen' = seen \cup Elements(current) /\ begun' = begun
  <2>. HIDE DEF p, current
  <2>1. \A b \in begun : /\ b.level <= level'
                      /\ Elements(b.fed) \subseteq seen' /\ Elements(b.fed) \cap Fed(p) = {}
    BY <1>1, <1>2, <1>3 DEF ScanInv
  <2>2. Fed(pairs') \subseteq InScope \/ (Seeds /\ level' = 1)
    BY <1>1, <1>2, <1>3 DEF ScanInv
  <2>3. Fed(pairs') \subseteq seen'
    BY <1>1, <1>3
  <2>. QED  BY <1>3, <2>1, <2>2, <2>3 DEF ScanInv, NoRescan
<1>4. CASE pc' = "persist" /\ UNCHANGED <<level, pairs, seen, begun>>
  BY <1>4 DEF ScanInv, NoRescan
<1>. QED  BY <1>3, <1>4 DEF BeginLevel

LEMMA ScanTakeGroup ==
  ASSUME TypeInv, ScanInv, TakeGroup
  PROVE  ScanInv'
<1>1. Head(queue)[1] \in Index
  BY TakenFacts DEF TakeGroup
<1>2. begun' = begun \cup {Invocation(Head(queue)[1])} /\ UNCHANGED <<pc, level, pairs, seen, frontier>>
  BY DEF TakeGroup
<1>. QED  BY <1>1, <1>2, ScanBegins

LEMMA ScanEndInvocation ==
  ASSUME TypeInv, ScanInv, NEW g \in DOMAIN busy, EndInvocation(g)
  PROVE  ScanInv'
<1>1. UNCHANGED <<pc, level, pairs, seen, frontier>>
  BY DEF EndInvocation
<1>2. CASE begun' = begun
  BY <1>1, <1>2 DEF ScanInv, NoRescan
<1>3. CASE Tail(busy[g]) # << >> /\ begun' = begun \cup {Invocation(Tail(busy[g])[1])}
  <2>1. Tail(busy[g])[1] \in Index
    BY <1>3, RestFacts
  <2>. QED  BY <1>1, <1>3, <2>1, ScanBegins
<1>. QED  BY <1>2, <1>3 DEF EndInvocation

LEMMA ScanEndLevel ==
  ASSUME TypeInv, ScanInv, EndLevel
  PROVE  ScanInv'
<1>1. Elements(frontier') \subseteq InScope
  BY TypeEndLevel, ElementOfSeq DEF Elements
<1>. QED  BY <1>1 DEF EndLevel, ScanInv, NoRescan, scan

\* Recursion goes down by in-scope subdomains only and scans nothing in two levels.
THEOREM NothingIsRescanned == Spec => []NoRescan
<1>1. Init => ScanInv
  BY DEF Init, ScanInv, NoRescan, Elements, Fed
<1>2. TypeInv /\ ScanInv /\ [Next]_vars => ScanInv'
  <2>. SUFFICES ASSUME TypeInv, ScanInv, [Next]_vars  PROVE ScanInv'
    OBVIOUS
  <2>1. ASSUME UNCHANGED <<begun, level, pairs, seen>>, pc' \notin {"gather", "level"}  PROVE ScanInv'
    BY <2>1 DEF ScanInv, NoRescan
  <2>2. CASE EndPool \/ ToolMissing \/ Persist \/ AfterPersist
    BY <2>1, <2>2 DEF EndPool, ToolMissing, Persist, AfterPersist, scan
  <2>3. CASE RecordResult \/ \E g \in DOMAIN busy : Raise(g)
    BY <2>1, <2>3 DEF RecordResult, Raise
  <2>4. CASE UNCHANGED vars
    BY <2>4 DEF ScanInv, NoRescan, vars, scan
  <2>. QED  BY <2>2, <2>3, <2>4, ScanGather, ScanBeginLevel, ScanTakeGroup, ScanEndInvocation,
               ScanEndLevel DEF Next, FlowStep
<1>3. ScanInv => NoRescan
  BY DEF ScanInv
<1>. QED  BY <1>1, <1>2, <1>3, FlowTypes, PTL DEF Spec

\* What is stored is nothing before the commit and all that was collected after it,
\* whether or not after_persist raises, with the ledger complete.
THEOREM StageIsAllOrNothing == Spec => []AllOrNothing
<1>1. Init => AllOrNothing
  BY DEF Init, AllOrNothing
<1>2. TypeInv /\ AccountInv /\ AllOrNothing /\ [Next]_vars => AllOrNothing'
  <2>. SUFFICES ASSUME TypeInv, AccountInv, AllOrNothing, [Next]_vars  PROVE AllOrNothing'
    OBVIOUS
  <2>1. CASE Persist
    <3>1. store = {} /\ begun = Elements(runs) /\ records \subseteq InScope
      BY <2>1, LedgerIsComplete DEF Persist, AllOrNothing, TypeInv
    <3>. QED  BY <2>1, <3>1 DEF Persist, AllOrNothing
  <2>2. CASE AfterPersist
    BY <2>2 DEF AfterPersist, AllOrNothing
  <2>3. CASE Gather
    BY <2>3 DEF Gather, AllOrNothing
  <2>4. ASSUME store' = store, pc \notin {"after", "done", "failed"}, pc' \notin {"after", "done"}
        PROVE  AllOrNothing'
    BY <2>4 DEF AllOrNothing
  <2>5. CASE ToolMissing \/ BeginLevel \/ TakeGroup \/ EndPool \/ RecordResult \/ EndLevel
    BY <2>4, <2>5 DEF ToolMissing, BeginLevel, TakeGroup, EndPool, RecordResult, EndLevel, scan
  <2>6. CASE \E g \in DOMAIN busy : EndInvocation(g) \/ Raise(g)
    BY <2>4, <2>6 DEF EndInvocation, Raise
  <2>7. CASE UNCHANGED vars
    BY <2>7 DEF vars, AllOrNothing
  <2>. QED  BY <2>1, <2>2, <2>3, <2>5, <2>6, <2>7 DEF Next, FlowStep
<1>. QED  BY <1>1, <1>2, AccountIsInvariant, FlowTypes, PTL DEF Spec
-----------------------------------------------------------------------------
\* What is left of a stage: its parts, the levels, the parts of a level, the groups no
\* thread has taken, the invocations the threads hold, and the results to record.
PartsLeft ==
  CASE pc = "gather"                       -> 4
    [] pc \in {"level", "pool", "record"}  -> 3
    [] pc = "persist"                      -> 2
    [] pc = "after"                        -> 1
    [] OTHER                               -> 0
StepsLeft == CASE pc = "pool" -> 2 [] pc = "record" -> 1 [] OTHER -> 0
ToRun == {k \in Index : \E g \in DOMAIN busy : k \in Elements(busy[g])}
Left ==
  [i \in 1 .. 6 |-> CASE i = 1 -> PartsLeft     [] i = 2 -> Depth - level
                      [] i = 3 -> StepsLeft     [] i = 4 -> Len(queue)
                      [] i = 5 -> Cardinality(ToRun) [] i = 6 -> Len(executed)]

\* The depth bounds the levels, and a group's invocations are in the order of the inputs.
GroupsInOrder ==
  /\ level <= Depth
  /\ \A n \in 1 .. Len(queue) : Increasing(queue[n])
  /\ \A g \in DOMAIN busy : Increasing(busy[g])

LEMMA GroupsAreIncreasing ==
  ASSUME NEW p \in Seq(Pairs), NEW n \in 1 .. Len(Groups(p))
  PROVE  Increasing(Groups(p)[n])
<1>1. \A i : Increasing(Group(p, i))
  <2>. TAKE i
  <2>. DEFINE S == {k \in 1 .. Len(p) : KeyOf(p, k) = KeyOf(p, i)}
  <2>1. Len(p) \in Nat /\ S \subseteq 1 .. Len(p) /\ Group(p, i) = Ascending(S, Len(p))
    BY DEF Group
  <2>. HIDE DEF S
  <2>. QED  BY <2>1, AscendingFacts
<1>. DEFINE f == Ascending({k \in 1 .. Len(p) : \A i \in 1 .. k - 1 : KeyOf(p, i) # KeyOf(p, k)}, Len(p))
<1>2. Groups(p) = [m \in 1 .. Len(f) |-> Group(p, f[m])]
  BY DEF Groups
<1>. HIDE DEF f
<1>3. \E T : Groups(p) \in Seq(T)
  BY GroupsFacts
<1>4. n \in DOMAIN Groups(p)
  BY <1>3, LenProperties
<1>5. Groups(p)[n] = Group(p, f[n])
  BY <1>2, <1>4
<1>. QED  BY <1>1, <1>5

LEMMA IndexIsNatural == \A s \in Seq(Index) : s \in Seq(Nat)
BY SeqMonotonic DEF Index

LEMMA InOrderBeginLevel ==
  ASSUME TypeInv, GroupsInOrder, BeginLevel
  PROVE  GroupsInOrder'
<1>. DEFINE p == PairsOf(Filtered(frontier, Item \ seen))
<1>1. p \in Seq(Pairs)
  BY CurrentFacts
<1>2. CASE level < Depth /\ queue' = Groups(p) /\ level' = level + 1
  <2>1. busy' = busy /\ level' <= Depth
    BY <1>2, FlowAssumption DEF BeginLevel, TypeInv
  <2>. HIDE DEF p
  <2>. QED  BY <1>1, <1>2, <2>1, GroupsAreIncreasing DEF GroupsInOrder
<1>3. CASE UNCHANGED <<level, queue>>
  BY <1>3 DEF BeginLevel, GroupsInOrder
<1>4. level \in Nat /\ Depth \in Nat
  BY FlowAssumption DEF TypeInv
<1>5. level < Depth \/ level >= Depth
  BY <1>4
<1>6. \/ UNCHANGED <<level, queue>>
      \/ level < Depth /\ queue' = Groups(p) /\ level' = level + 1
  BY <1>5 DEF BeginLevel
<1>. QED  BY <1>2, <1>3, <1>6

LEMMA InOrderTakeGroup ==
  ASSUME TypeInv, GroupsInOrder, TakeGroup
  PROVE  GroupsInOrder'
<1>. DEFINE g == Head(queue)[1]
<1>1. /\ queue # << >> /\ queue' = Tail(queue) /\ level' = level
      /\ busy' = [h \in DOMAIN busy \cup {g} |-> IF h = g THEN Head(queue) ELSE busy[h]]
  BY DEF TakeGroup
<1>2. /\ Head(queue) = queue[1] /\ 1 \in 1 .. Len(queue)
      /\ \A n \in 1 .. Len(queue') : n + 1 \in 1 .. Len(queue) /\ queue'[n] = queue[n + 1]
  BY <1>1, TakenFacts
<1>. HIDE DEF g
<1>3. \A h \in DOMAIN busy' : busy'[h] = Head(queue) \/ (h \in DOMAIN busy /\ busy'[h] = busy[h])
  BY <1>1
<1>4. \A h \in DOMAIN busy' : Increasing(busy'[h])
  BY <1>2, <1>3 DEF GroupsInOrder
<1>. QED  BY <1>1, <1>2, <1>4 DEF GroupsInOrder

LEMMA ToRunIsFinite ==
  ASSUME TypeInv
  PROVE  IsFiniteSet(ToRun) /\ Cardinality(ToRun) \in Nat
<1>1. Len(pairs) \in Int /\ 1 \in Int
  BY DEF TypeInv
<1>2. IsFiniteSet(Index)
  BY <1>1, FS_Interval DEF Index
<1>3. ToRun \in SUBSET Index
  BY DEF ToRun
<1>. QED  BY <1>2, <1>3, FS_Subset, FS_CardinalityType

\* A thread that ends an invocation holds one invocation less; one that raises, fewer.
LEMMA EndedFacts ==
  ASSUME TypeInv, SerialInv, GroupsInOrder, NEW g \in DOMAIN busy,
         UNCHANGED <<level, pairs, queue>>,
         busy' = Without(busy, g) \/ busy' = [busy EXCEPT ![g] = Tail(busy[g])]
  PROVE  GroupsInOrder' /\ Cardinality(ToRun') < Cardinality(ToRun)
<1>. DEFINE x == busy[g][1]
<1>1. busy[g] \in Seq(Nat) /\ busy[g] # << >> /\ Increasing(busy[g]) /\ Head(busy[g]) = x /\ x \in Index
  BY IndexIsNatural, RestFacts DEF TypeInv, GroupsInOrder
<1>2. Increasing(Tail(busy[g])) /\ x \notin Elements(Tail(busy[g]))
  BY <1>1, IncreasingTail
<1>3. Elements(Tail(busy[g])) \subseteq Elements(busy[g])
  BY RestFacts
<1>4. x \in Elements(busy[g])
  BY <1>1, EmptySeq DEF Elements
<1>. HIDE DEF x
<1>5. \A h \in DOMAIN busy \ {g} : x \notin Elements(busy[h])
  BY <1>4 DEF SerialInv
<1>6. /\ DOMAIN busy' \subseteq DOMAIN busy
      /\ \A h \in DOMAIN busy' : (h # g /\ busy'[h] = busy[h]) \/ (h = g /\ busy'[h] = Tail(busy[g]))
  <2>1. CASE busy' = Without(busy, g)
    BY <2>1 DEF Without
  <2>2. CASE busy' = [busy EXCEPT ![g] = Tail(busy[g])]
    BY <2>2
  <2>. QED  BY <2>1, <2>2
<1>7. GroupsInOrder'
  BY <1>2, <1>6 DEF GroupsInOrder
<1>8. Index' = Index
  BY DEF Index
<1>9. ToRun' \subseteq ToRun
  BY <1>3, <1>6, <1>8 DEF ToRun
<1>10. x \in ToRun
  BY <1>1, <1>4 DEF ToRun
<1>11. x \notin ToRun'
  BY <1>2, <1>5, <1>6 DEF ToRun
<1>12. IsFiniteSet(ToRun)
  BY ToRunIsFinite
<1>13. Cardinality(ToRun') < Cardinality(ToRun)
  <2>. DEFINE S == ToRun
              T == ToRun'
  <2>. HIDE DEF S, T
  <2>1. IsFiniteSet(S) /\ T \in SUBSET S /\ S # T
    BY <1>9, <1>10, <1>11, <1>12 DEF S, T
  <2>2. /\ IsFiniteSet(T) /\ Cardinality(T) <= Cardinality(S)
        /\ Cardinality(S) # Cardinality(T)
    BY <2>1, FS_Subset
  <2>3. Cardinality(S) \in Nat /\ Cardinality(T) \in Nat
    BY <2>1, <2>2, FS_CardinalityType
  <2>4. Cardinality(T) < Cardinality(S)
    BY <2>2, <2>3
  <2>. QED  BY <2>4 DEF S, T
<1>. QED  BY <1>7, <1>13

LEMMA InOrderOthers ==
  ASSUME GroupsInOrder, UNCHANGED <<level, queue, busy>>
  PROVE  GroupsInOrder'
BY DEF GroupsInOrder

LEMMA InOrderStep ==
  ASSUME TypeInv, SerialInv, GroupsInOrder, [Next]_vars
  PROVE  GroupsInOrder'
<1>1. CASE \/ ToolMissing \/ Gather \/ EndPool \/ RecordResult \/ EndLevel \/ Persist \/ AfterPersist
             \/ UNCHANGED vars
  <2>1. UNCHANGED <<level, queue, busy>>
    BY <1>1 DEF ToolMissing, Gather, EndPool, RecordResult, EndLevel, Persist, AfterPersist, vars, scan
  <2>. QED  BY <2>1, InOrderOthers
<1>2. ASSUME NEW g \in DOMAIN busy, EndInvocation(g) \/ Raise(g)  PROVE GroupsInOrder'
  BY <1>2, EndedFacts DEF EndInvocation, Raise
<1>. QED  BY <1>1, <1>2, InOrderBeginLevel, InOrderTakeGroup DEF Next, FlowStep

LEMMA LeftType ==
  ASSUME TypeInv, GroupsInOrder
  PROVE  Left \in [1 .. 6 -> Nat]
<1>1. PartsLeft \in Nat /\ StepsLeft \in Nat
  BY DEF PartsLeft, StepsLeft
<1>2. Depth - level \in Nat
  BY FlowAssumption DEF TypeInv, GroupsInOrder
<1>3. Len(queue) \in Nat /\ Len(executed) \in Nat
  BY DEF TypeInv
<1>4. Cardinality(ToRun) \in Nat
  BY ToRunIsFinite
<1>. QED  BY <1>1, <1>2, <1>3, <1>4 DEF Left

\* A step that lowers one of the numbers and leaves those before it.
LEMMA LeftFewer ==
  ASSUME TypeInv, GroupsInOrder, TypeInv', GroupsInOrder', NEW j \in 1 .. 6,
         Left'[j] < Left[j], \A i \in 1 .. j - 1 : Left'[i] = Left[i]
  PROVE  <<Left', Left>> \in Fewer(6)
<1>1. Left \in [1 .. 6 -> Nat]
  BY LeftType
<1>2. (TypeInv /\ GroupsInOrder => Left \in [1 .. 6 -> Nat])'
  BY LeftType, PTL
<1>. DEFINE s == Left'
            t == Left
<1>3. s \in [1 .. 6 -> Nat] /\ t \in [1 .. 6 -> Nat] /\ s[j] < t[j] /\ \A i \in 1 .. j - 1 : s[i] = t[i]
  BY <1>1, <1>2
<1>. HIDE DEF s, t
<1>4. <<s, t>> \in Fewer(6)
  BY <1>3, FewerFacts
<1>. QED  BY <1>4 DEF s, t

LEMMA LeftAt ==
  /\ Left[1] = PartsLeft /\ Left[2] = Depth - level /\ Left[3] = StepsLeft
  /\ Left[4] = Len(queue) /\ Left[5] = Cardinality(ToRun) /\ Left[6] = Len(executed)
  /\ Left'[1] = PartsLeft' /\ Left'[2] = Depth - level' /\ Left'[3] = StepsLeft'
  /\ Left'[4] = Len(queue') /\ Left'[5] = Cardinality(ToRun') /\ Left'[6] = Len(executed')
BY DEF Left

LEMMA FewerLeft ==
  ASSUME TypeInv, SerialInv, GroupsInOrder, TypeInv', GroupsInOrder', Next
  PROVE  <<Left', Left>> \in Fewer(6)
<1>0. Depth \in Nat /\ level \in Nat /\ Len(queue) \in Nat /\ Len(executed) \in Nat
  BY FlowAssumption DEF TypeInv
<1>1. ASSUME PartsLeft' < PartsLeft  PROVE <<Left', Left>> \in Fewer(6)
  <2>1. 1 \in 1 .. 6 /\ Left'[1] < Left[1] /\ \A i \in 1 .. 1 - 1 : Left'[i] = Left[i]
    BY <1>1, LeftAt
  <2>. QED  BY <2>1, LeftFewer
<1>2. CASE ToolMissing \/ Gather \/ Persist \/ AfterPersist
  BY <1>1, <1>2 DEF ToolMissing, Gather, Persist, AfterPersist, PartsLeft
<1>3. CASE BeginLevel
  <2>1. CASE pc' = "persist"
    BY <1>1, <1>3, <2>1 DEF BeginLevel, PartsLeft
  <2>2. CASE pc' = "pool" /\ level' = level + 1
    <3>1. PartsLeft' = PartsLeft
      BY <1>3, <2>2 DEF BeginLevel, PartsLeft
    <3>2. 2 \in 1 .. 6 /\ Left'[2] < Left[2] /\ \A i \in 1 .. 2 - 1 : Left'[i] = Left[i]
      BY <1>0, <2>2, <3>1, LeftAt
    <3>. QED  BY <3>2, LeftFewer
  <2>. QED  BY <1>3, <2>1, <2>2 DEF BeginLevel
<1>4. ASSUME level' = level, PartsLeft' = PartsLeft, StepsLeft' < StepsLeft
      PROVE  <<Left', Left>> \in Fewer(6)
  <2>1. 3 \in 1 .. 6 /\ Left'[3] < Left[3] /\ \A i \in 1 .. 3 - 1 : Left'[i] = Left[i]
    BY <1>4, LeftAt
  <2>. QED  BY <2>1, LeftFewer
<1>5. CASE EndPool
  BY <1>1, <1>4, <1>5 DEF EndPool, PartsLeft, StepsLeft
<1>6. CASE EndLevel
  BY <1>4, <1>6 DEF EndLevel, PartsLeft, StepsLeft
<1>7. CASE TakeGroup
  <2>1. PartsLeft' = PartsLeft /\ level' = level /\ StepsLeft' = StepsLeft
    BY <1>7 DEF TakeGroup, PartsLeft, StepsLeft
  <2>2. Len(queue') = Len(queue) - 1
    BY <1>7, TakenFacts DEF TakeGroup
  <2>3. 4 \in 1 .. 6 /\ Left'[4] < Left[4] /\ \A i \in 1 .. 4 - 1 : Left'[i] = Left[i]
    BY <1>0, <2>1, <2>2, LeftAt
  <2>. QED  BY <2>3, LeftFewer
<1>8. ASSUME NEW g \in DOMAIN busy, EndInvocation(g) \/ Raise(g)
      PROVE  <<Left', Left>> \in Fewer(6)
  <2>1. /\ UNCHANGED <<pc, level, pairs, queue>>
        /\ busy' = Without(busy, g) \/ busy' = [busy EXCEPT ![g] = Tail(busy[g])]
    BY <1>8 DEF EndInvocation, Raise
  <2>2. Cardinality(ToRun') < Cardinality(ToRun)
    BY <2>1, EndedFacts
  <2>3. PartsLeft' = PartsLeft /\ StepsLeft' = StepsLeft
    BY <2>1 DEF PartsLeft, StepsLeft
  <2>4. 5 \in 1 .. 6 /\ Left'[5] < Left[5] /\ \A i \in 1 .. 5 - 1 : Left'[i] = Left[i]
    BY <2>1, <2>2, <2>3, LeftAt
  <2>. QED  BY <2>4, LeftFewer
<1>9. CASE RecordResult
  <2>1. CASE pc' = "failed"
    BY <1>1, <1>9, <2>1 DEF RecordResult, PartsLeft
  <2>2. CASE pc' = pc
    <3>1. UNCHANGED <<level, pairs, queue, busy>> /\ executed # << >> /\ executed' = Tail(executed)
      BY <1>9 DEF RecordResult
    <3>2. PartsLeft' = PartsLeft /\ StepsLeft' = StepsLeft /\ ToRun' = ToRun
      BY <2>2, <3>1 DEF PartsLeft, StepsLeft, ToRun, Index
    <3>3. Len(executed') = Len(executed) - 1
      BY <3>1, HeadTailProperties DEF TypeInv
    <3>4. /\ Left'[1] = Left[1] /\ Left'[2] = Left[2] /\ Left'[3] = Left[3]
          /\ Left'[4] = Left[4] /\ Left'[5] = Left[5]
      BY <3>1, <3>2, LeftAt
    <3>5. 6 \in 1 .. 6 /\ Left'[6] < Left[6]
      BY <1>0, <3>3, LeftAt
    <3>6. \A i \in 1 .. 6 - 1 : Left'[i] = Left[i]
      BY <3>4
    <3>. QED  BY <3>5, <3>6, LeftFewer
  <2>. QED  BY <1>9, <2>1, <2>2 DEF RecordResult
<1>. QED  BY <1>2, <1>3, <1>5, <1>6, <1>7, <1>8, <1>9 DEF Next, FlowStep

\* The half of StageReturns that needs no fairness: however deep the recursion is
\* configured, whatever the tools report and however the threads interleave, every step
\* of ToolModule.run lowers what is left of the stage, in an order in which nothing goes
\* down for ever: a stage takes finitely many steps.
THEOREM StageIsFinite ==
  /\ IsWellFoundedOn(Fewer(6), [1 .. 6 -> Nat])
  /\ Spec => [][(<<Left', Left>> \in Fewer(6))]_vars
<1>1. IsWellFoundedOn(Fewer(6), [1 .. 6 -> Nat])
  BY FewerIsWellFounded
<1>2. Init => GroupsInOrder
  BY FlowAssumption DEF Init, GroupsInOrder, Empty
<1>3. TypeInv /\ SerialInv /\ GroupsInOrder /\ [Next]_vars => GroupsInOrder'
  BY InOrderStep
<1>4. TypeInv /\ SerialInv /\ GroupsInOrder /\ TypeInv' /\ GroupsInOrder' /\ [Next]_vars
        => [(<<Left', Left>> \in Fewer(6))]_vars
  BY FewerLeft
<1>. QED  BY <1>1, <1>2, <1>3, <1>4, FlowTypes, SerialIsInvariant, PTL DEF Spec

-----------------------------------------------------------------------------
LEMMA PairsAreSparse == Spec => []Sparse(pairs)
<1>1. Init => Sparse(pairs)
  BY DEF Init, Sparse
<1>2. TypeInv /\ Sparse(pairs) /\ [Next]_vars => Sparse(pairs)'
  <2>. SUFFICES ASSUME TypeInv, Sparse(pairs), [Next]_vars  PROVE Sparse(pairs)'
    OBVIOUS
  <2>1. CASE BeginLevel
    BY <2>1, CurrentFacts DEF BeginLevel
  <2>2. CASE UNCHANGED pairs
    BY <2>2 DEF Sparse
  <2>3. ASSUME NEW g \in DOMAIN busy, EndInvocation(g) \/ Raise(g)  PROVE UNCHANGED pairs
    BY <2>3 DEF EndInvocation, Raise
  <2>. QED  BY <2>1, <2>2, <2>3 DEF Next, FlowStep, vars, scan, ToolMissing, Gather, TakeGroup, EndPool,
                                   RecordResult, EndLevel, Persist, AfterPersist
<1>. QED  BY <1>1, <1>2, FlowTypes, PTL DEF Spec

\* The part of "we never exceed that host's rate" (_execute) that holds: where all the
\* inputs of one machine have one host, as host_of finds it, two running invocations never
\* send requests to the same machine.  It takes several keys for a machine to break it.
THEOREM ServersOfOneGroup ==
  ASSUME \A a, b \in Item : Server[a] = Server[b] => GroupOf[a] = GroupOf[b] /\ GroupOf[a] # None
  PROVE  Spec => []ServersAreSerial
<1>1. TypeInv /\ Sparse(pairs) /\ HostsAreSerial => ServersAreSerial
  <2>. SUFFICES ASSUME TypeInv, Sparse(pairs), HostsAreSerial, NEW a \in Running, NEW b \in Running,
                       NEW x \in Elements(pairs[a].fed), NEW y \in Elements(pairs[b].fed),
                       Server[x] = Server[y]
                PROVE  a = b
    BY DEF ServersAreSerial
  <2>1. a \in Index /\ b \in Index
    BY RestFacts DEF Running
  <2>2. CASE Len(pairs) <= 1
    BY <2>1, <2>2 DEF Index, TypeInv
  <2>3. CASE \A i \in 1 .. Len(pairs) : pairs[i].item \in Item /\ pairs[i].fed = <<pairs[i].item>>
    <3>1. ASSUME NEW i \in Index, NEW z \in Elements(pairs[i].fed)
          PROVE  z = pairs[i].item /\ z \in Item
      <4>1. \A q : Elements(<<q>>) = {q}
        BY DEF Elements
      <4>2. pairs[i].item \in Item /\ pairs[i].fed = <<pairs[i].item>>
        BY <2>3 DEF Index
      <4>. QED  BY <4>1, <4>2
    <3>2. x = pairs[a].item /\ y = pairs[b].item /\ x \in Item /\ y \in Item
      BY <2>1, <3>1
    <3>. QED  BY <3>2 DEF HostsAreSerial
  <2>. QED  BY <2>2, <2>3 DEF Sparse
<1>. QED  BY <1>1, FlowTypes, PairsAreSparse, InvocationsOfAHostAreSerial, PTL
==============================================================================

------------------------------ MODULE ListProofs ------------------------------
(***************************************************************************)
(* What the list operators return, for every list.  Recursion is followed    *)
(* with sets of numbers that hold 0 and, with a number, its successor.       *)
(***************************************************************************)
EXTENDS Lists, WellFoundedInduction, FiniteSetTheorems, SequenceTheorems, TLAPS

\* A non-empty set of naturals has a least element.
LEMMA LeastNatural ==
  ASSUME NEW T, T \subseteq Nat, T # {}
  PROVE  \E m \in T : \A k \in T : m <= k
<1>1. IsWellFoundedOn(OpToRel(<, Nat), Nat)
  BY NatLessThanWellFounded
<1>2. PICK m \in T : \A k \in T : ~(<<k, m>> \in OpToRel(<, Nat))
  BY <1>1, WFMin
<1>3. \A k \in T : ~(k < m)
  BY <1>2 DEF OpToRel
<1>. QED  BY <1>3

\* A set of numbers with an upper bound has a greatest element.
LEMMA GreatestNatural ==
  ASSUME NEW n \in Nat, NEW T, T \subseteq 1 .. n, T # {}
  PROVE  \E m \in T : \A k \in T : k <= m
<1>. DEFINE S == {n - k : k \in T}
<1>1. S \subseteq Nat /\ S # {}
  <2>1. \A k \in T : n - k \in Nat
    OBVIOUS
  <2>2. \E k \in T : n - k \in S
    OBVIOUS
  <2>. QED  BY <2>1, <2>2
<1>2. PICK d \in S : \A k \in S : d <= k
  <2>. HIDE DEF S
  <2>. QED  BY <1>1, LeastNatural
<1>3. PICK m \in T : d = n - m
  BY <1>2
<1>4. \A k \in T : n - m <= n - k
  BY <1>2, <1>3
<1>. QED  BY <1>4

\* Induction over a set of naturals.
LEMMA SetInduction ==
  ASSUME NEW T, 0 \in T, \A n \in Nat : n \in T => n + 1 \in T
  PROVE  Nat \subseteq T
<1>1. SUFFICES ASSUME Nat \ T # {}  PROVE FALSE
  OBVIOUS
<1>2. PICK m \in Nat \ T : \A k \in Nat \ T : m <= k
  BY <1>1, LeastNatural
<1>3. m # 0 /\ m - 1 \in Nat /\ m - 1 \notin Nat \ T
  BY <1>2
<1>. QED  BY <1>2, <1>3

\* The filters of the first n elements of a list, for every n up to m.
IsFilter(f, s, S, m) ==
  f = [n \in 0 .. m |-> IF n = 0 THEN << >>
                        ELSE IF s[n] \in S THEN Append(f[n - 1], s[n]) ELSE f[n - 1]]

LEMMA FilterExists ==
  ASSUME NEW s, NEW S, NEW m \in Nat
  PROVE  \E f : IsFilter(f, s, S, m)
<1>. DEFINE T == {n \in Nat : \E f : IsFilter(f, s, S, n)}
<1>1. 0 \in T
  <2>1. IsFilter([n \in 0 .. 0 |-> << >>], s, S, 0)
    BY DEF IsFilter
  <2>. QED  BY <2>1
<1>2. ASSUME NEW n \in Nat, n \in T  PROVE n + 1 \in T
  <2>1. PICK f : IsFilter(f, s, S, n)
    BY <1>2
  <2>. DEFINE last == IF s[n + 1] \in S THEN Append(f[n], s[n + 1]) ELSE f[n]
              g == [k \in 0 .. n + 1 |-> IF k = n + 1 THEN last ELSE f[k]]
  <2>2. ASSUME NEW k \in 0 .. n + 1
        PROVE  g[k] = IF k = 0 THEN << >>
                      ELSE IF s[k] \in S THEN Append(g[k - 1], s[k]) ELSE g[k - 1]
    <3>1. CASE k = n + 1
      <4>1. g[k - 1] = f[n] /\ k # 0 /\ g[k] = last
        BY <3>1
      <4>. QED  BY <4>1, <3>1
    <3>2. CASE k # n + 1
      <4>1. k \in 0 .. n /\ g[k] = f[k] /\ (k # 0 => g[k - 1] = f[k - 1])
        BY <3>2
      <4>2. f[k] = IF k = 0 THEN << >>
                   ELSE IF s[k] \in S THEN Append(f[k - 1], s[k]) ELSE f[k - 1]
        BY <4>1, <2>1 DEF IsFilter
      <4>. QED  BY <4>1, <4>2
    <3>. QED  BY <3>1, <3>2
  <2>3. IsFilter(g, s, S, n + 1)
    BY <2>2 DEF IsFilter
  <2>. QED  BY <2>3
<1>. QED  BY <1>1, <1>2, SetInduction

LEMMA FilteredIsFilter ==
  ASSUME NEW s, NEW S, Len(s) \in Nat
  PROVE  \E f : IsFilter(f, s, S, Len(s)) /\ Filtered(s, S) = f[Len(s)]
<1>. DEFINE upto[n \in 0 .. Len(s)] ==
       IF n = 0 THEN << >>
       ELSE IF s[n] \in S THEN Append(upto[n - 1], s[n]) ELSE upto[n - 1]
<1>1. upto = CHOOSE f : IsFilter(f, s, S, Len(s))
  BY DEF IsFilter
<1>2. Filtered(s, S) = upto[Len(s)]
  BY DEF Filtered
<1>. HIDE DEF upto
<1>3. \E f : IsFilter(f, s, S, Len(s))
  BY FilterExists
<1>. QED  BY <1>1, <1>2, <1>3

\* A property of the filter of the empty list that an element more preserves is one of
\* every filter: the elements are those of the list that are in the set.
LEMMA FilteredFacts ==
  ASSUME NEW T, NEW s \in Seq(T), NEW S
  PROVE  /\ Filtered(s, S) \in Seq(T \cap S)
         /\ Elements(Filtered(s, S)) = Elements(s) \cap S
<1>1. PICK f : IsFilter(f, s, S, Len(s)) /\ Filtered(s, S) = f[Len(s)]
  BY FilteredIsFilter
<1>. DEFINE Good(n) == f[n] \in Seq(T \cap S) /\ Elements(f[n]) = {s[i] : i \in 1 .. n} \cap S
            P == {n \in Nat : n <= Len(s) => Good(n)}
<1>2. 0 \in P
  <2>1. f[0] = << >>
    BY <1>1 DEF IsFilter
  <2>2. Elements(<< >>) = {} /\ {s[i] : i \in 1 .. 0} = {}
    BY DEF Elements
  <2>3. << >> \in Seq(T \cap S)
    OBVIOUS
  <2>4. Good(0)
    BY <2>1, <2>2, <2>3
  <2>. QED  BY <2>4
<1>3. ASSUME NEW n \in Nat, n \in P  PROVE n + 1 \in P
  <2>1. SUFFICES ASSUME n + 1 <= Len(s)  PROVE Good(n + 1)
    OBVIOUS
  <2>2. Good(n) /\ s[n + 1] \in T
    BY <1>3, <2>1
  <2>3. f[n + 1] = IF s[n + 1] \in S THEN Append(f[n], s[n + 1]) ELSE f[n]
    <3>1. n + 1 \in 0 .. Len(s) /\ n + 1 # 0 /\ (n + 1) - 1 = n
      BY <2>1
    <3>. QED  BY <1>1, <3>1 DEF IsFilter
  <2>4. {s[i] : i \in 1 .. n + 1} = {s[i] : i \in 1 .. n} \cup {s[n + 1]}
    <3>1. 1 .. n + 1 = (1 .. n) \cup {n + 1}
      OBVIOUS
    <3>. QED  BY <3>1
  <2>5. CASE s[n + 1] \in S
    <3>1. f[n + 1] = Append(f[n], s[n + 1]) /\ s[n + 1] \in T \cap S
      BY <2>2, <2>3, <2>5
    <3>2. /\ f[n + 1] \in Seq(T \cap S)
          /\ Len(f[n + 1]) = Len(f[n]) + 1
          /\ \A i \in 1 .. Len(f[n]) : f[n + 1][i] = f[n][i]
          /\ f[n + 1][Len(f[n]) + 1] = s[n + 1]
      BY <3>1, <2>2, AppendProperties
    <3>3. Elements(f[n + 1]) = Elements(f[n]) \cup {s[n + 1]}
      <4>1. 1 .. Len(f[n + 1]) = (1 .. Len(f[n])) \cup {Len(f[n]) + 1}
        BY <3>2, <2>2
      <4>. QED  BY <4>1, <3>2 DEF Elements
    <3>. QED  BY <3>2, <3>3, <2>2, <2>4, <2>5
  <2>6. CASE s[n + 1] \notin S
    BY <2>2, <2>3, <2>4, <2>6
  <2>. QED  BY <2>5, <2>6
<1>4. Len(s) \in P
  <2>. HIDE DEF P
  <2>. QED  BY <1>2, <1>3, SetInduction
<1>. QED  BY <1>1, <1>4 DEF Elements

LEMMA FilteredType ==
  ASSUME NEW T, NEW s \in Seq(T), NEW S
  PROVE  Filtered(s, S) \in Seq(T) /\ Filtered(s, S) \in Seq(S)
<1>1. Filtered(s, S) \in Seq(T \cap S) /\ T \cap S \subseteq T /\ T \cap S \subseteq S
  BY FilteredFacts
<1>. QED  BY <1>1, SeqMonotonic

Increasing(a) == \A i, j \in 1 .. Len(a) : i < j => a[i] < a[j]

LEMMA IncreasingAppend ==
  ASSUME NEW s \in Seq(Nat), NEW x \in Nat, Increasing(s), \A i \in 1 .. Len(s) : s[i] < x
  PROVE  Increasing(Append(s, x))
<1>. DEFINE t == Append(s, x)
<1>1. /\ Len(s) \in Nat /\ Len(t) = Len(s) + 1 /\ t[Len(s) + 1] = x
      /\ \A i \in 1 .. Len(s) : t[i] = s[i]
  BY AppendProperties
<1>2. ASSUME NEW i \in 1 .. Len(t), NEW j \in 1 .. Len(t), i < j  PROVE t[i] < t[j]
  <2>. HIDE DEF t
  <2>1. i \in 1 .. Len(s) /\ t[i] = s[i]
    BY <1>1, <1>2
  <2>2. CASE j \in 1 .. Len(s)
    BY <1>1, <1>2, <2>1, <2>2 DEF Increasing
  <2>3. CASE j = Len(s) + 1
    BY <1>1, <2>1, <2>3
  <2>. QED  BY <1>1, <2>2, <2>3
<1>. QED  BY <1>2 DEF Increasing

LEMMA IncreasingTail ==
  ASSUME NEW s \in Seq(Nat), s # << >>, Increasing(s)
  PROVE  Increasing(Tail(s)) /\ Head(s) \notin Elements(Tail(s))
<1>1. /\ Head(s) = s[1] /\ Len(s) \in Nat \ {0} /\ Len(Tail(s)) = Len(s) - 1
      /\ \A i \in 1 .. Len(Tail(s)) : Tail(s)[i] = s[i + 1]
  BY HeadTailProperties, EmptySeq
<1>. DEFINE t == Tail(s)
<1>. HIDE DEF t
<1>2. \A i \in 1 .. Len(t) : i + 1 \in 1 .. Len(s) /\ 1 \in 1 .. Len(s) /\ 1 < i + 1 /\ t[i] = s[i + 1]
  BY <1>1 DEF t
<1>3. ASSUME NEW i \in 1 .. Len(t), NEW j \in 1 .. Len(t), i < j  PROVE t[i] < t[j]
  <2>1. i + 1 < j + 1 /\ i + 1 \in 1 .. Len(s) /\ j + 1 \in 1 .. Len(s)
    BY <1>2, <1>3
  <2>. QED  BY <1>2, <2>1 DEF Increasing
<1>4. ASSUME NEW i \in 1 .. Len(t)  PROVE t[i] # s[1]
  <2>1. s[1] < s[i + 1] /\ s[1] \in Nat /\ s[i + 1] \in Nat
    BY <1>2, ElementOfSeq DEF Increasing
  <2>. QED  BY <1>2, <2>1
<1>. QED  BY <1>1, <1>3, <1>4 DEF Increasing, Elements, t

\* A set of positions, as an increasing list.
LEMMA AscendingFacts ==
  ASSUME NEW n \in Nat, NEW S, S \subseteq 1 .. n
  PROVE  /\ Ascending(S, n) \in Seq(S)
         /\ Elements(Ascending(S, n)) = S
         /\ Increasing(Ascending(S, n))
<1>. DEFINE s == [k \in 1 .. n |-> k]
<1>1. s \in Seq(1 .. n) /\ Len(s) = n /\ Elements(s) = 1 .. n
  BY DEF Elements
<1>2. /\ Ascending(S, n) \in Seq((1 .. n) \cap S)
      /\ Elements(Ascending(S, n)) = (1 .. n) \cap S
  <2>. HIDE DEF s
  <2>1. /\ Filtered(s, S) \in Seq((1 .. n) \cap S)
        /\ Elements(Filtered(s, S)) = (1 .. n) \cap S
    BY <1>1, FilteredFacts
  <2>. QED  BY <2>1 DEF Ascending, s
<1>3. (1 .. n) \cap S = S
  OBVIOUS
<1>4. PICK f : IsFilter(f, s, S, n) /\ Ascending(S, n) = f[n]
  BY <1>1, FilteredIsFilter DEF Ascending
<1>. DEFINE Good(m) == /\ f[m] \in Seq(Nat)
                       /\ \A i \in 1 .. Len(f[m]) : f[m][i] <= m
                       /\ Increasing(f[m])
            P == {m \in Nat : m <= n => Good(m)}
<1>5. 0 \in P
  <2>1. f[0] = << >>
    BY <1>4 DEF IsFilter
  <2>2. << >> \in Seq(Nat) /\ Len(<< >>) = 0
    OBVIOUS
  <2>3. Good(0)
    BY <2>1, <2>2 DEF Increasing
  <2>. QED  BY <2>3
<1>6. ASSUME NEW m \in Nat, m \in P  PROVE m + 1 \in P
  <2>1. SUFFICES ASSUME m + 1 <= n  PROVE Good(m + 1)
    OBVIOUS
  <2>2. Good(m)
    BY <1>6, <2>1
  <2>3. f[m + 1] = IF m + 1 \in S THEN Append(f[m], m + 1) ELSE f[m]
    <3>1. m + 1 \in 0 .. n /\ m + 1 # 0 /\ (m + 1) - 1 = m /\ s[m + 1] = m + 1
      BY <2>1
    <3>. HIDE DEF s
    <3>. QED  BY <1>4, <3>1 DEF IsFilter
  <2>4. CASE m + 1 \in S
    <3>1. f[m + 1] = Append(f[m], m + 1)
      BY <2>3, <2>4
    <3>2. /\ f[m + 1] \in Seq(Nat)
          /\ Len(f[m + 1]) = Len(f[m]) + 1
          /\ \A i \in 1 .. Len(f[m]) : f[m + 1][i] = f[m][i]
          /\ f[m + 1][Len(f[m]) + 1] = m + 1
      BY <3>1, <2>2, AppendProperties
    <3>3. \A i \in 1 .. Len(f[m + 1]) : i \in 1 .. Len(f[m]) \/ i = Len(f[m]) + 1
      BY <3>2, <2>2
    <3>4. \A i \in 1 .. Len(f[m]) : f[m][i] \in Nat
      BY <2>2
    <3>5. ASSUME NEW i \in 1 .. Len(f[m + 1])  PROVE f[m + 1][i] <= m + 1
      <4>1. CASE i \in 1 .. Len(f[m])
        <5>1. f[m + 1][i] = f[m][i] /\ f[m][i] <= m /\ f[m][i] \in Nat
          BY <3>2, <3>4, <2>2, <4>1
        <5>. QED  BY <5>1
      <4>2. CASE i = Len(f[m]) + 1
        <5>1. f[m + 1][i] = m + 1
          BY <3>2, <4>2
        <5>. QED  BY <5>1
      <4>. QED  BY <3>3, <4>1, <4>2
    <3>6. Increasing(f[m + 1])
      <4>1. \A i \in 1 .. Len(f[m]) : f[m][i] < m + 1
        <5>. TAKE i \in 1 .. Len(f[m])
        <5>1. f[m][i] \in Nat /\ f[m][i] <= m
          BY <3>4, <2>2
        <5>. QED  BY <5>1
      <4>2. f[m] \in Seq(Nat) /\ Increasing(f[m]) /\ m + 1 \in Nat
        BY <2>2
      <4>. HIDE DEF Good
      <4>. QED  BY <4>1, <4>2, <3>1, IncreasingAppend
    <3>. QED  BY <3>2, <3>5, <3>6
  <2>5. CASE m + 1 \notin S
    <3>1. f[m + 1] = f[m]
      BY <2>3, <2>5
    <3>. QED  BY <3>1, <2>2
  <2>. QED  BY <2>4, <2>5
<1>7. n \in P
  <2>. HIDE DEF P
  <2>. QED  BY <1>5, <1>6, SetInduction
<1>. QED  BY <1>2, <1>3, <1>4, <1>7

\* What a filter keeps stays in the order of the list.
LEMMA FilteredOrder ==
  ASSUME NEW T, NEW s \in Seq(T), NEW S
  PROVE  \A i, j \in 1 .. Len(Filtered(s, S)) : i < j =>
           \E k, l \in 1 .. Len(s) : k < l /\ s[k] = Filtered(s, S)[i] /\ s[l] = Filtered(s, S)[j]
<1>1. PICK f : IsFilter(f, s, S, Len(s)) /\ Filtered(s, S) = f[Len(s)]
  BY FilteredIsFilter
<1>. DEFINE Ordered(n) == \A i, j \in 1 .. Len(f[n]) : i < j =>
                            \E k, l \in 1 .. n : k < l /\ s[k] = f[n][i] /\ s[l] = f[n][j]
            From(n) == \A i \in 1 .. Len(f[n]) : \E k \in 1 .. n : s[k] = f[n][i]
            Good(n) == f[n] \in Seq(T) /\ From(n) /\ Ordered(n)
            P == {n \in Nat : n <= Len(s) => Good(n)}
<1>2. 0 \in P
  <2>1. f[0] = << >>
    BY <1>1 DEF IsFilter
  <2>2. << >> \in Seq(T) /\ Len(<< >>) = 0
    OBVIOUS
  <2>3. Good(0)
    BY <2>1, <2>2
  <2>. QED  BY <2>3
<1>3. ASSUME NEW n \in Nat, n \in P  PROVE n + 1 \in P
  <2>1. SUFFICES ASSUME n + 1 <= Len(s)  PROVE Good(n + 1)
    OBVIOUS
  <2>2. Good(n) /\ s[n + 1] \in T
    BY <1>3, <2>1
  <2>3. f[n + 1] = IF s[n + 1] \in S THEN Append(f[n], s[n + 1]) ELSE f[n]
    <3>1. n + 1 \in 0 .. Len(s) /\ n + 1 # 0 /\ (n + 1) - 1 = n
      BY <2>1
    <3>. QED  BY <1>1, <3>1 DEF IsFilter
  <2>4. \A k \in 1 .. n : k \in 1 .. n + 1 /\ k < n + 1
    OBVIOUS
  <2>5. CASE s[n + 1] \in S
    <3>1. /\ f[n + 1] \in Seq(T)
          /\ Len(f[n]) \in Nat /\ Len(f[n + 1]) = Len(f[n]) + 1
          /\ \A i \in 1 .. Len(f[n]) : f[n + 1][i] = f[n][i]
          /\ f[n + 1][Len(f[n]) + 1] = s[n + 1]
      BY <2>2, <2>3, <2>5, AppendProperties
    <3>2. \A i \in 1 .. Len(f[n + 1]) : i \in 1 .. Len(f[n]) \/ i = Len(f[n]) + 1
      BY <3>1
    <3>3. From(n + 1)
      <4>. TAKE i \in 1 .. Len(f[n + 1])
      <4>1. CASE i \in 1 .. Len(f[n])
        BY <2>2, <2>4, <3>1, <4>1
      <4>2. CASE i = Len(f[n]) + 1
        <5>1. n + 1 \in 1 .. n + 1
          OBVIOUS
        <5>. QED  BY <3>1, <4>2, <5>1
      <4>. QED  BY <3>2, <4>1, <4>2
    <3>4. ASSUME NEW i \in 1 .. Len(f[n + 1]), NEW j \in 1 .. Len(f[n + 1]), i < j
          PROVE  \E k, l \in 1 .. n + 1 : k < l /\ s[k] = f[n + 1][i] /\ s[l] = f[n + 1][j]
      <4>1. i \in 1 .. Len(f[n]) /\ f[n + 1][i] = f[n][i]
        BY <3>1, <3>4
      <4>2. CASE j \in 1 .. Len(f[n])
        <5>1. PICK k \in 1 .. n, l \in 1 .. n : k < l /\ s[k] = f[n][i] /\ s[l] = f[n][j]
          BY <2>2, <3>4, <4>1, <4>2
        <5>2. f[n + 1][j] = f[n][j]
          BY <3>1, <4>2
        <5>. QED  BY <2>4, <4>1, <5>1, <5>2
      <4>3. CASE j = Len(f[n]) + 1
        <5>1. PICK k \in 1 .. n : s[k] = f[n][i]
          BY <2>2, <4>1
        <5>2. n + 1 \in 1 .. n + 1 /\ f[n + 1][j] = s[n + 1]
          BY <3>1, <4>3
        <5>. QED  BY <2>4, <4>1, <5>1, <5>2
      <4>. QED  BY <3>2, <4>2, <4>3
    <3>. QED  BY <3>1, <3>3, <3>4
  <2>6. CASE s[n + 1] \notin S
    BY <2>2, <2>3, <2>4, <2>6
  <2>. QED  BY <2>5, <2>6
<1>4. Len(s) \in P
  <2>. HIDE DEF P
  <2>. QED  BY <1>2, <1>3, SetInduction
<1>. QED  BY <1>1, <1>4

-----------------------------------------------------------------------------
\* The elements of a list after an append, a concatenation, and without its head.
LEMMA ElementsType ==
  ASSUME NEW T, NEW s \in Seq(T)
  PROVE  s \in Seq(Elements(s)) /\ Elements(s) \subseteq T
<1>1. Len(s) \in Nat /\ s \in [1 .. Len(s) -> Elements(s)] /\ Elements(s) \subseteq T
  BY DEF Elements
<1>. HIDE DEF Elements
<1>. QED  BY <1>1, SeqDef

LEMMA ElementsOfAppend ==
  ASSUME NEW T, NEW s \in Seq(T), NEW x \in T
  PROVE  Elements(Append(s, x)) = Elements(s) \cup {x}
<1>1. 1 .. Len(Append(s, x)) = (1 .. Len(s)) \cup {Len(s) + 1}
  BY AppendProperties
<1>. QED  BY <1>1, AppendProperties DEF Elements

LEMMA ElementsOfConcat ==
  ASSUME NEW T, NEW s \in Seq(T), NEW t \in Seq(T)
  PROVE  Elements(s \o t) = Elements(s) \cup Elements(t)
<1>1. /\ Len(s) \in Nat /\ Len(t) \in Nat /\ Len(s \o t) = Len(s) + Len(t)
      /\ \A i \in 1 .. Len(s) + Len(t) :
           (s \o t)[i] = IF i <= Len(s) THEN s[i] ELSE t[i - Len(s)]
  BY ConcatProperties
<1>2. ASSUME NEW x \in Elements(s \o t)  PROVE x \in Elements(s) \cup Elements(t)
  <2>1. PICK i \in 1 .. Len(s) + Len(t) : x = (s \o t)[i]
    BY <1>1 DEF Elements
  <2>2. CASE i <= Len(s)
    BY <1>1, <2>1, <2>2 DEF Elements
  <2>3. CASE ~(i <= Len(s))
    <3>1. i - Len(s) \in 1 .. Len(t) /\ x = t[i - Len(s)]
      BY <1>1, <2>1, <2>3
    <3>. QED  BY <3>1 DEF Elements
  <2>. QED  BY <2>2, <2>3
<1>3. ASSUME NEW x \in Elements(s)  PROVE x \in Elements(s \o t)
  <2>1. PICK i \in 1 .. Len(s) : x = s[i]
    BY DEF Elements
  <2>2. i \in 1 .. Len(s) + Len(t) /\ (s \o t)[i] = x
    BY <1>1, <2>1
  <2>. QED  BY <1>1, <2>2 DEF Elements
<1>4. ASSUME NEW x \in Elements(t)  PROVE x \in Elements(s \o t)
  <2>1. PICK i \in 1 .. Len(t) : x = t[i]
    BY DEF Elements
  <2>2. Len(s) + i \in 1 .. Len(s) + Len(t) /\ (s \o t)[Len(s) + i] = x
    BY <1>1, <2>1
  <2>. QED  BY <1>1, <2>2 DEF Elements
<1>. QED  BY <1>2, <1>3, <1>4

LEMMA ElementsOfTail ==
  ASSUME NEW T, NEW s \in Seq(T), s # << >>
  PROVE  Elements(s) = {Head(s)} \cup Elements(Tail(s))
<1>1. /\ Len(s) \in Nat \ {0} /\ Len(Tail(s)) = Len(s) - 1 /\ Head(s) = s[1]
      /\ \A i \in 1 .. Len(s) - 1 : Tail(s)[i] = s[i + 1]
  BY HeadTailProperties
<1>2. ASSUME NEW x \in Elements(s)  PROVE x = Head(s) \/ x \in Elements(Tail(s))
  <2>1. PICK i \in 1 .. Len(s) : x = s[i]
    BY DEF Elements
  <2>2. CASE i # 1
    <3>1. i - 1 \in 1 .. Len(s) - 1 /\ Tail(s)[i - 1] = x
      BY <1>1, <2>1, <2>2
    <3>. QED  BY <1>1, <3>1 DEF Elements
  <2>. QED  BY <1>1, <2>1, <2>2
<1>3. ASSUME NEW x \in Elements(Tail(s))  PROVE x \in Elements(s)
  <2>1. PICK i \in 1 .. Len(s) - 1 : x = Tail(s)[i]
    BY <1>1 DEF Elements
  <2>2. i + 1 \in 1 .. Len(s) /\ s[i + 1] = x
    BY <1>1, <2>1
  <2>. QED  BY <2>2 DEF Elements
<1>4. Head(s) \in Elements(s)
  BY <1>1 DEF Elements
<1>. QED  BY <1>2, <1>3, <1>4

\* No element comes twice; and those in A come before all others.
Repeats(s) == \E i, j \in 1 .. Len(s) : i # j /\ s[i] = s[j]
Ahead(s, A) == \A i, j \in 1 .. Len(s) : i < j /\ s[j] \in A => s[i] \in A

\* A list without its repetitions: each element is there once, in the order of the first
\* occurrences.
LEMMA UniqueFacts ==
  ASSUME NEW T, NEW s \in Seq(T)
  PROVE  /\ Unique(s) \in Seq(T)
         /\ Elements(Unique(s)) = Elements(s)
         /\ ~Repeats(Unique(s))
         /\ \A i, j \in 1 .. Len(Unique(s)) : i < j =>
              \E k, l \in 1 .. Len(s) :
                /\ k < l /\ s[k] = Unique(s)[i] /\ s[l] = Unique(s)[j]
                /\ \A m \in 1 .. l - 1 : s[m] # s[l]
<1>. DEFINE first == {i \in 1 .. Len(s) : \A j \in 1 .. i - 1 : s[j] # s[i]}
            at == Ascending(first, Len(s))
            u == Unique(s)
<1>1. /\ Len(s) \in Nat /\ first \subseteq 1 .. Len(s)
      /\ \A i \in 1 .. Len(s) : s[i] \in T
  OBVIOUS
<1>2. at \in Seq(first) /\ Elements(at) = first /\ Increasing(at)
  <2>. HIDE DEF first
  <2>. QED  BY <1>1, AscendingFacts
<1>3. u = [i \in 1 .. Len(at) |-> s[at[i]]]
  BY DEF Unique
<1>4. /\ \A i \in first : i \in 1 .. Len(s) /\ \A j \in 1 .. i - 1 : s[j] # s[i]
      /\ \A i \in 1 .. Len(s) : (\A j \in 1 .. i - 1 : s[j] # s[i]) => i \in first
  OBVIOUS
<1>. HIDE DEF first, at, u
<1>5. Len(at) \in Nat /\ \A i \in 1 .. Len(at) : at[i] \in first
  BY <1>2
<1>6. u \in Seq(T) /\ Len(u) = Len(at) /\ \A i \in 1 .. Len(at) : u[i] = s[at[i]]
  <2>1. u \in [1 .. Len(at) -> T]
    BY <1>1, <1>3, <1>4, <1>5
  <2>. QED  BY <1>3, <1>5, <2>1, SeqDef
<1>7. ASSUME NEW x \in Elements(s)  PROVE x \in Elements(u)
  <2>. DEFINE all == {i \in 1 .. Len(s) : s[i] = x}
  <2>1. PICK m \in all : \A k \in all : m <= k
    <3>1. all \subseteq Nat /\ all # {}
      BY <1>1, <1>7 DEF Elements
    <3>. HIDE DEF all
    <3>. QED  BY <3>1, LeastNatural
  <2>2. m \in first
    <3>1. \A j \in 1 .. m - 1 : j \notin all /\ j \in 1 .. Len(s)
      BY <1>1, <2>1
    <3>. QED  BY <1>4, <2>1, <3>1
  <2>3. PICK i \in 1 .. Len(at) : at[i] = m
    BY <1>2, <2>2 DEF Elements
  <2>. QED  BY <1>6, <2>1, <2>3 DEF Elements
<1>8. Elements(u) \subseteq Elements(s)
  BY <1>4, <1>5, <1>6 DEF Elements
<1>9. ASSUME NEW i \in 1 .. Len(u), NEW j \in 1 .. Len(u), i < j
      PROVE  /\ at[i] \in 1 .. Len(s) /\ at[j] \in 1 .. Len(s) /\ at[i] < at[j]
             /\ s[at[i]] = u[i] /\ s[at[j]] = u[j]
             /\ \A m \in 1 .. at[j] - 1 : s[m] # s[at[j]]
  BY <1>2, <1>4, <1>5, <1>6, <1>9 DEF Increasing
<1>10. ASSUME NEW i \in 1 .. Len(u), NEW j \in 1 .. Len(u), i < j  PROVE u[i] # u[j]
  <2>1. at[i] \in 1 .. at[j] - 1
    BY <1>1, <1>9, <1>10
  <2>. QED  BY <1>9, <1>10, <2>1
<1>11. ~Repeats(u)
  <2>1. Len(u) \in Nat
    BY <1>5, <1>6
  <2>2. ASSUME NEW i \in 1 .. Len(u), NEW j \in 1 .. Len(u), i # j  PROVE u[i] # u[j]
    <3>1. i < j \/ j < i
      BY <2>1, <2>2
    <3>. QED  BY <1>10, <3>1
  <2>. QED  BY <2>2 DEF Repeats
<1>12. \A i, j \in 1 .. Len(u) : i < j =>
         \E k, l \in 1 .. Len(s) :
           /\ k < l /\ s[k] = u[i] /\ s[l] = u[j]
           /\ \A m \in 1 .. l - 1 : s[m] # s[l]
  BY <1>9
<1>. QED  BY <1>6, <1>7, <1>8, <1>11, <1>12 DEF u

\* What is ahead in the first of two lists, which holds all of it that is in the second,
\* is ahead in both together.
LEMMA UniqueAhead ==
  ASSUME NEW T, NEW s \in Seq(T), NEW t \in Seq(T), NEW A,
         Ahead(s, A), Elements(t) \cap A \subseteq Elements(s)
  PROVE  Ahead(Unique(s \o t), A)
<1>. DEFINE c == s \o t
            u == Unique(c)
<1>1. /\ Len(s) \in Nat /\ Len(t) \in Nat /\ c \in Seq(T) /\ Len(c) = Len(s) + Len(t)
      /\ \A i \in 1 .. Len(c) : c[i] = IF i <= Len(s) THEN s[i] ELSE t[i - Len(s)]
  BY ConcatProperties
<1>. HIDE DEF c
<1>2. \A i, j \in 1 .. Len(u) : i < j =>
        \E k, l \in 1 .. Len(c) :
          /\ k < l /\ c[k] = u[i] /\ c[l] = u[j]
          /\ \A m \in 1 .. l - 1 : c[m] # c[l]
  BY <1>1, UniqueFacts
<1>. HIDE DEF u
<1>3. SUFFICES ASSUME NEW i \in 1 .. Len(u), NEW j \in 1 .. Len(u), i < j, u[j] \in A
               PROVE  u[i] \in A
  BY DEF Ahead, u, c
<1>4. PICK k \in 1 .. Len(c), l \in 1 .. Len(c) :
        /\ k < l /\ c[k] = u[i] /\ c[l] = u[j]
        /\ \A m \in 1 .. l - 1 : c[m] # c[l]
  BY <1>2, <1>3
<1>5. l <= Len(s)
  <2>1. SUFFICES ASSUME Len(s) < l  PROVE FALSE
    BY <1>1
  <2>2. c[l] = t[l - Len(s)] /\ l - Len(s) \in 1 .. Len(t)
    BY <1>1, <2>1
  <2>3. c[l] \in Elements(s)
    BY <1>3, <1>4, <2>2 DEF Elements
  <2>4. PICK m \in 1 .. Len(s) : s[m] = c[l]
    BY <2>3 DEF Elements
  <2>5. m \in 1 .. l - 1 /\ c[m] = s[m]
    BY <1>1, <2>1
  <2>. QED  BY <1>4, <2>4, <2>5
<1>6. c[k] = s[k] /\ c[l] = s[l] /\ k \in 1 .. Len(s) /\ l \in 1 .. Len(s)
  BY <1>1, <1>4, <1>5
<1>. QED  BY <1>3, <1>4, <1>6 DEF Ahead

LEMMA FilteredAhead ==
  ASSUME NEW T, NEW s \in Seq(T), NEW S, NEW A, Ahead(s, A)
  PROVE  Ahead(Filtered(s, S), A)
<1>1. \A i, j \in 1 .. Len(Filtered(s, S)) : i < j =>
        \E k, l \in 1 .. Len(s) : k < l /\ s[k] = Filtered(s, S)[i] /\ s[l] = Filtered(s, S)[j]
  BY FilteredOrder
<1>. QED  BY <1>1 DEF Ahead

\* The first part of a list.
LEMMA CutFacts ==
  ASSUME NEW T, NEW s \in Seq(T), NEW n \in Nat
  PROVE  /\ Cut(s, n) \in Seq(T)
         /\ Len(Cut(s, n)) <= n /\ Len(Cut(s, n)) <= Len(s)
         /\ Len(Cut(s, n)) = n \/ Cut(s, n) = s
         /\ \A i \in 1 .. Len(Cut(s, n)) : Cut(s, n)[i] = s[i]
         /\ ~Repeats(s) => ~Repeats(Cut(s, n))
<1>. DEFINE m == IF n < Len(s) THEN n ELSE Len(s)
            c == SubSeq(s, 1, m)
<1>1. Len(s) \in Nat /\ m \in 0 .. Len(s) /\ m <= n
  OBVIOUS
<1>2. c = Cut(s, n)
  BY DEF Cut
<1>3. c \in Seq(T) /\ Len(c) = m /\ \A i \in 1 .. m : c[i] = s[i]
  OBVIOUS
<1>4. m = n \/ (m = Len(s) /\ c = s)
  <2>1. CASE n < Len(s)
    BY <2>1
  <2>2. CASE ~(n < Len(s))
    <3>1. m = Len(s)
      BY <2>2
    <3>. QED  BY <1>3, <3>1
  <2>. QED  BY <2>1, <2>2
<1>. HIDE DEF c, m
<1>5. ~Repeats(s) => ~Repeats(c)
  <2>1. \A i \in 1 .. m : i \in 1 .. Len(s)
    BY <1>1
  <2>. QED  BY <1>3, <2>1 DEF Repeats
<1>. QED  BY <1>1, <1>2, <1>3, <1>4, <1>5

\* A cut leaves out nothing of what is ahead, or nothing else is left.
LEMMA CutAhead ==
  ASSUME NEW T, NEW s \in Seq(T), NEW n \in Nat, NEW A, Ahead(s, A)
  PROVE  \/ Elements(s) \cap A \subseteq Elements(Cut(s, n))
         \/ Elements(Cut(s, n)) \subseteq A
<1>. DEFINE c == Cut(s, n)
<1>0. /\ c \in Seq(T) /\ Len(c) <= Len(s)
      /\ \A i \in 1 .. Len(c) : c[i] = s[i]
  BY CutFacts, Zenon
<1>. HIDE DEF c
<1>1. /\ Len(c) <= Len(s) /\ Len(c) \in Nat /\ Len(s) \in Nat
      /\ \A i \in 1 .. Len(c) : c[i] = s[i]
  BY <1>0
<1>2. SUFFICES ASSUME NEW x \in Elements(s) \cap A, x \notin Elements(c)
               PROVE  Elements(c) \subseteq A
  BY DEF c
<1>3. PICK j \in 1 .. Len(s) : s[j] = x
  BY DEF Elements
<1>4. ~(j <= Len(c))
  BY <1>1, <1>2, <1>3 DEF Elements
<1>5. ASSUME NEW i \in 1 .. Len(c)  PROVE c[i] \in A
  <2>1. i \in 1 .. Len(s) /\ i < j /\ c[i] = s[i]
    BY <1>1, <1>3, <1>4
  <2>. QED  BY <1>2, <1>3, <2>1 DEF Ahead
<1>. QED  BY <1>5 DEF Elements

-----------------------------------------------------------------------------
\* The first n lists of a list of lists, put together, for every n up to m.
IsJoin(f, ss, m) ==
  f = [n \in 0 .. m |-> IF n = 0 THEN << >> ELSE f[n - 1] \o ss[n]]

LEMMA JoinExists ==
  ASSUME NEW ss, NEW m \in Nat
  PROVE  \E f : IsJoin(f, ss, m)
<1>. DEFINE T == {n \in Nat : \E f : IsJoin(f, ss, n)}
<1>1. 0 \in T
  <2>1. IsJoin([n \in 0 .. 0 |-> << >>], ss, 0)
    BY DEF IsJoin
  <2>. QED  BY <2>1
<1>2. ASSUME NEW n \in Nat, n \in T  PROVE n + 1 \in T
  <2>1. PICK f : IsJoin(f, ss, n)
    BY <1>2
  <2>. DEFINE g == [k \in 0 .. n + 1 |-> IF k = n + 1 THEN f[n] \o ss[n + 1] ELSE f[k]]
  <2>2. ASSUME NEW k \in 0 .. n + 1
        PROVE  g[k] = IF k = 0 THEN << >> ELSE g[k - 1] \o ss[k]
    <3>1. CASE k = n + 1
      <4>1. g[k - 1] = f[n] /\ k # 0 /\ g[k] = f[n] \o ss[n + 1]
        BY <3>1
      <4>. QED  BY <4>1, <3>1
    <3>2. CASE k # n + 1
      <4>1. k \in 0 .. n /\ g[k] = f[k] /\ (k # 0 => g[k - 1] = f[k - 1])
        BY <3>2
      <4>2. f[k] = IF k = 0 THEN << >> ELSE f[k - 1] \o ss[k]
        BY <4>1, <2>1 DEF IsJoin
      <4>. QED  BY <4>1, <4>2
    <3>. QED  BY <3>1, <3>2
  <2>3. IsJoin(g, ss, n + 1)
    BY <2>2 DEF IsJoin
  <2>. QED  BY <2>3
<1>. QED  BY <1>1, <1>2, SetInduction

LEMMA JoinedIsJoin ==
  ASSUME NEW ss, Len(ss) \in Nat
  PROVE  \E f : IsJoin(f, ss, Len(ss)) /\ Joined(ss) = f[Len(ss)]
<1>. DEFINE upto[n \in 0 .. Len(ss)] == IF n = 0 THEN << >> ELSE upto[n - 1] \o ss[n]
<1>1. upto = CHOOSE f : IsJoin(f, ss, Len(ss))
  BY DEF IsJoin
<1>2. Joined(ss) = upto[Len(ss)]
  BY DEF Joined
<1>. HIDE DEF upto
<1>3. \E f : IsJoin(f, ss, Len(ss))
  BY JoinExists
<1>. QED  BY <1>1, <1>2, <1>3

\* The elements are those of all the lists, and the first list comes first.
Begins(c, s, T) == \E rest \in Seq(T) : c = s \o rest

LEMMA BeginsConcat ==
  ASSUME NEW T, NEW c, NEW s \in Seq(T), NEW t \in Seq(T), Begins(c, s, T)
  PROVE  Begins(c \o t, s, T)
<1>1. PICK rest \in Seq(T) : c = s \o rest
  BY DEF Begins
<1>2. (s \o rest) \o t = s \o (rest \o t)
  BY ConcatAssociative
<1>3. rest \o t \in Seq(T)
  BY ConcatProperties
<1>. QED  BY <1>1, <1>2, <1>3 DEF Begins

LEMMA JoinedFacts ==
  ASSUME NEW T, NEW ss \in Seq(Seq(T))
  PROVE  /\ Joined(ss) \in Seq(T)
         /\ Elements(Joined(ss)) = UNION {Elements(ss[i]) : i \in 1 .. Len(ss)}
         /\ Len(ss) > 0 => Begins(Joined(ss), ss[1], T)
<1>0. Len(ss) \in Nat /\ \A i \in 1 .. Len(ss) : ss[i] \in Seq(T)
  OBVIOUS
<1>1. PICK f : IsJoin(f, ss, Len(ss)) /\ Joined(ss) = f[Len(ss)]
  BY <1>0, JoinedIsJoin
<1>. DEFINE Good(n) ==
       /\ f[n] \in Seq(T)
       /\ Elements(f[n]) = UNION {Elements(ss[i]) : i \in 1 .. n}
       /\ n > 0 => Begins(f[n], ss[1], T)
            P == {n \in Nat : n <= Len(ss) => Good(n)}
<1>2. 0 \in P
  <2>1. f[0] = << >>
    BY <1>0, <1>1 DEF IsJoin
  <2>2. Elements(<< >>) = {} /\ UNION {Elements(ss[i]) : i \in 1 .. 0} = {}
    BY DEF Elements
  <2>3. << >> \in Seq(T)
    OBVIOUS
  <2>4. Good(0)
    BY <2>1, <2>2, <2>3
  <2>. QED  BY <2>4
<1>3. ASSUME NEW n \in Nat, n \in P  PROVE n + 1 \in P
  <2>1. SUFFICES ASSUME n + 1 <= Len(ss)  PROVE Good(n + 1)
    OBVIOUS
  <2>2. Good(n) /\ ss[n + 1] \in Seq(T) /\ ss[1] \in Seq(T)
    BY <1>0, <1>3, <2>1
  <2>3. f[n + 1] = f[n] \o ss[n + 1]
    <3>1. n + 1 \in 0 .. Len(ss) /\ n + 1 # 0 /\ (n + 1) - 1 = n
      BY <1>0, <2>1
    <3>. QED  BY <1>1, <3>1 DEF IsJoin
  <2>4. f[n + 1] \in Seq(T)
    BY <2>2, <2>3, ConcatProperties
  <2>5. Elements(f[n + 1]) = UNION {Elements(ss[i]) : i \in 1 .. n + 1}
    <3>1. Elements(f[n + 1]) = Elements(f[n]) \cup Elements(ss[n + 1])
      BY <2>2, <2>3, ElementsOfConcat
    <3>2. 1 .. n + 1 = (1 .. n) \cup {n + 1}
      OBVIOUS
    <3>. QED  BY <2>2, <3>1, <3>2
  <2>6. Begins(f[n + 1], ss[1], T)
    <3>1. CASE n = 0
      <4>1. f[0] = << >>
        BY <1>0, <1>1 DEF IsJoin
      <4>2. f[n + 1] = ss[1] /\ ss[1] = ss[1] \o << >> /\ << >> \in Seq(T)
        BY <2>2, <2>3, <3>1, <4>1, ConcatEmptySeq
      <4>. QED  BY <4>2 DEF Begins
    <3>2. CASE n # 0
      <4>1. Begins(f[n], ss[1], T) /\ f[n] \in Seq(T)
        BY <2>2, <3>2
      <4>. QED  BY <2>2, <2>3, <4>1, BeginsConcat
    <3>. QED  BY <3>1, <3>2
  <2>. QED  BY <2>4, <2>5, <2>6
<1>4. Len(ss) \in P
  <2>. HIDE DEF P
  <2>. QED  BY <1>0, <1>2, <1>3, SetInduction
<1>. QED  BY <1>0, <1>1, <1>4

-----------------------------------------------------------------------------
\* The members of a finite set in a strict total order: below[x] are those before x.
IsOrder(below, S) ==
  /\ below \in [S -> SUBSET S]
  /\ \A x \in S : x \notin below[x]
  /\ \A x, y \in S : x \in below[y] => below[x] \subseteq below[y]
  /\ \A x, y \in S : x # y => x \in below[y] \/ y \in below[x]

IsRanking(r, below, S) ==
  /\ \E T : r \in [1 .. Cardinality(S) -> T]
  /\ \A k \in 1 .. Cardinality(S) :
       (\E x \in S : Cardinality(below[x]) = k - 1) => r[k] \in S /\ Cardinality(below[r[k]]) = k - 1

LEMMA FirstNumbers ==
  ASSUME NEW n \in Nat
  PROVE  IsFiniteSet(0 .. n - 1) /\ Cardinality(0 .. n - 1) = n
<1>1. 0 \in Int /\ n - 1 \in Int /\ (0 > n - 1 <=> n = 0) /\ (n - 1) - 0 + 1 = n
  OBVIOUS
<1>. QED  BY <1>1, FS_Interval

LEMMA IsList ==
  ASSUME NEW n \in Nat, NEW S, NEW r \in [1 .. n -> S]
  PROVE  r \in Seq(S) /\ Len(r) = n
OBVIOUS

\* The list of a set whose k-th member has k - 1 before it has each member once, in order.
LEMMA RankFacts ==
  ASSUME NEW S, IsFiniteSet(S), NEW below, IsOrder(below, S), NEW r, IsRanking(r, below, S)
  PROVE  /\ r \in Seq(S) /\ Len(r) = Cardinality(S)
         /\ Elements(r) = S
         /\ ~Repeats(r)
         /\ \A i, j \in 1 .. Len(r) : i < j => r[i] \in below[r[j]]
<1>. DEFINE n == Cardinality(S)
            rank == [x \in S |-> Cardinality(below[x])]
<1>1. n \in Nat
  BY FS_CardinalityType
<1>2. \A x \in S : /\ below[x] \subseteq S /\ IsFiniteSet(below[x])
                   /\ Cardinality(below[x]) \in Nat /\ x \notin below[x]
  BY FS_Subset, FS_CardinalityType DEF IsOrder
<1>3. ASSUME NEW x \in S, NEW y \in S, x \in below[y]
      PROVE  Cardinality(below[x]) < Cardinality(below[y])
  <2>1. below[x] \cup {x} \subseteq below[y]
    BY <1>3 DEF IsOrder
  <2>2. Cardinality(below[x] \cup {x}) = Cardinality(below[x]) + 1
    BY <1>2, FS_AddElement
  <2>3. Cardinality(below[x] \cup {x}) <= Cardinality(below[y])
    BY <1>2, <2>1, FS_Subset
  <2>. QED  BY <1>2, <2>2, <2>3
<1>4. ASSUME NEW x \in S  PROVE Cardinality(below[x]) \in 0 .. n - 1
  <2>1. below[x] \cup {x} \subseteq S
    BY <1>2
  <2>2. Cardinality(below[x] \cup {x}) = Cardinality(below[x]) + 1
    BY <1>2, FS_AddElement
  <2>3. Cardinality(below[x] \cup {x}) <= n
    BY <2>1, FS_Subset
  <2>. QED  BY <1>1, <1>2, <2>2, <2>3
<1>5. \A x, y \in S : Cardinality(below[x]) = Cardinality(below[y]) => x = y
  <2>1. SUFFICES ASSUME NEW x \in S, NEW y \in S, x # y
                 PROVE  Cardinality(below[x]) # Cardinality(below[y])
    OBVIOUS
  <2>2. x \in below[y] \/ y \in below[x]
    BY <2>1 DEF IsOrder
  <2>. QED  BY <1>2, <1>3, <2>2
<1>6. rank \in Injection(S, 0 .. n - 1)
  BY <1>4, <1>5 DEF Injection, IsInjective
<1>7. rank \in Surjection(S, 0 .. n - 1)
  <2>1. IsFiniteSet(0 .. n - 1) /\ Cardinality(0 .. n - 1) = n
    BY <1>1, FirstNumbers
  <2>. QED  BY <1>1, <1>6, <2>1, FS_Injection
<1>8. ASSUME NEW i \in 1 .. n  PROVE \E x \in S : Cardinality(below[x]) = i - 1
  <2>. HIDE DEF rank, n
  <2>1. i - 1 \in 0 .. n - 1
    BY <1>1
  <2>2. PICK x \in S : rank[x] = i - 1
    BY <1>7, <2>1 DEF Surjection
  <2>. QED  BY <2>2 DEF rank
<1>9. \A i \in 1 .. n : r[i] \in S /\ Cardinality(below[r[i]]) = i - 1
  BY <1>8 DEF IsRanking
<1>10. r \in Seq(S) /\ Len(r) = n
  <2>1. r \in [1 .. n -> S]
    BY <1>9 DEF IsRanking
  <2>. QED  BY <1>1, <2>1, IsList
<1>. HIDE DEF rank, n
<1>11. ASSUME NEW x \in S  PROVE x \in Elements(r)
  <2>. DEFINE k == Cardinality(below[x]) + 1
  <2>1. k \in 1 .. n /\ k - 1 = Cardinality(below[x])
    BY <1>1, <1>4
  <2>2. r[k] = x
    BY <1>5, <1>9, <2>1
  <2>. QED  BY <1>10, <2>1, <2>2 DEF Elements
<1>12. Elements(r) \subseteq S
  BY <1>9, <1>10 DEF Elements
<1>13. ~Repeats(r)
  <2>1. ASSUME NEW i \in 1 .. n, NEW j \in 1 .. n, r[i] = r[j]  PROVE i = j
    <3>1. i - 1 = j - 1
      BY <1>9, <2>1
    <3>. QED  BY <1>1, <3>1
  <2>. QED  BY <1>10, <2>1 DEF Repeats
<1>14. ASSUME NEW i \in 1 .. n, NEW j \in 1 .. n, i < j  PROVE r[i] \in below[r[j]]
  <2>1. /\ r[i] \in S /\ Cardinality(below[r[i]]) = i - 1
        /\ r[j] \in S /\ Cardinality(below[r[j]]) = j - 1
    BY <1>9
  <2>2. r[i] # r[j] /\ ~(j - 1 < i - 1)
    BY <1>1, <1>14, <2>1
  <2>3. r[j] \notin below[r[i]]
    BY <1>3, <2>1, <2>2
  <2>. QED  BY <2>1, <2>2, <2>3 DEF IsOrder
<1>. QED  BY <1>10, <1>11, <1>12, <1>13, <1>14 DEF n
-----------------------------------------------------------------------------
\* Lists of n numbers, the first ones weighing most: what a computation that always
\* has fewer steps left counts down.
Fewer(n) == LexProductOrdering(OpToRel(<, Nat), Nat, n)

LEMMA FewerIsWellFounded ==
  ASSUME NEW n \in Nat
  PROVE  IsWellFoundedOn(Fewer(n), [1 .. n -> Nat])
<1>. DEFINE R == OpToRel(<, Nat)
<1>1. IsWellFoundedOn(R, Nat)
  BY NatLessThanWellFounded
<1>. HIDE DEF R
<1>2. IsWellFoundedOn(LexProductOrdering(R, Nat, n), [1 .. n -> Nat])
  BY <1>1, WFLexProductOrdering
<1>. QED  BY <1>2 DEF R, Fewer

LEMMA FewerFacts ==
  ASSUME NEW n \in Nat, NEW s \in [1 .. n -> Nat], NEW t \in [1 .. n -> Nat],
         NEW j \in 1 .. n, s[j] < t[j], \A i \in 1 .. j - 1 : s[i] = t[i]
  PROVE  <<s, t>> \in Fewer(n)
<1>. DEFINE R == OpToRel(<, Nat)
<1>1. <<s[j], t[j]>> \in R
  BY DEF OpToRel
<1>. HIDE DEF R
<1>2. <<s, t>> \in LexProductOrdering(R, Nat, n)
  BY <1>1 DEF LexProductOrdering
<1>. QED  BY <1>2 DEF R, Fewer
==============================================================================

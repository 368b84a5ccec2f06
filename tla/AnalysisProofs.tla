---------------------------- MODULE AnalysisProofs ----------------------------
(***************************************************************************)
(* Theorems of Analysis: no signal is demoted, leads come first and hosts    *)
(* share the context, for every store and every limit.  Theorems of the      *)
(* graph's queries: they find what their interface says, of every graph.     *)
(***************************************************************************)
EXTENDS GraphQueries, ListProofs

\* The sums of the parts of S, for every part of at most n elements.
Parts(S, n) == {s \in SUBSET S : Cardinality(s) <= n}
IsSum(g, f, P) ==
  g = [s \in P |-> IF s = {} THEN 0 ELSE f[CHOOSE x \in s : TRUE] + g[s \ {CHOOSE x \in s : TRUE}]]

\* Without the element chosen first, a part is a smaller part.
LEMMA SmallerPart ==
  ASSUME NEW S, IsFiniteSet(S), NEW s \in SUBSET S, s # {}
  PROVE  LET x == CHOOSE x \in s : TRUE
         IN  x \in S /\ s \ {x} \in SUBSET S /\ Cardinality(s \ {x}) = Cardinality(s) - 1
             /\ Cardinality(s) \in Nat /\ Cardinality(s \ {x}) \in Nat
<1>. DEFINE x == CHOOSE x \in s : TRUE
<1>1. x \in s
  OBVIOUS
<1>2. IsFiniteSet(s) /\ Cardinality(s) \in Nat
  BY FS_Subset, FS_CardinalityType
<1>. HIDE DEF x
<1>3. Cardinality(s \ {x}) = Cardinality(s) - 1 /\ IsFiniteSet(s \ {x})
  BY <1>1, <1>2, FS_RemoveElement
<1>4. Cardinality(s \ {x}) \in Nat
  BY <1>3, FS_CardinalityType
<1>5. x \in S /\ s \ {x} \in SUBSET S
  BY <1>1
<1>. QED  BY <1>2, <1>3, <1>4, <1>5 DEF x

LEMMA SmallestPart ==
  ASSUME NEW S, IsFiniteSet(S), NEW s \in Parts(S, 0)
  PROVE  s = {}
<1>1. s \subseteq S /\ Cardinality(s) <= 0
  BY DEF Parts
<1>2. IsFiniteSet(s) /\ Cardinality(s) \in Nat
  BY <1>1, FS_Subset, FS_CardinalityType
<1>. QED  BY <1>1, <1>2, FS_EmptySet

LEMMA SmallerParts ==
  ASSUME NEW S, IsFiniteSet(S), NEW n \in Nat, NEW s \in Parts(S, n + 1), s # {}
  PROVE  LET x == CHOOSE x \in s : TRUE
         IN  x \in S /\ s \ {x} \in Parts(S, n) /\ s \ {x} \in Parts(S, n + 1)
<1>. DEFINE x == CHOOSE x \in s : TRUE
<1>1. s \in SUBSET S /\ Cardinality(s) <= n + 1
  BY DEF Parts
<1>2. /\ x \in S /\ s \ {x} \in SUBSET S
      /\ Cardinality(s \ {x}) = Cardinality(s) - 1
      /\ Cardinality(s) \in Nat
  BY <1>1, SmallerPart
<1>3. Cardinality(s \ {x}) <= n /\ Cardinality(s \ {x}) <= n + 1
  BY <1>1, <1>2
<1>. QED  BY <1>2, <1>3 DEF Parts

\* A sum is defined by recursion on the parts of a set: there is such a function.
LEMMA SumExists ==
  ASSUME NEW S, IsFiniteSet(S), NEW f, \A x \in S : f[x] \in Int
  PROVE  \E g \in [SUBSET S -> Int] : IsSum(g, f, SUBSET S)
<1>. DEFINE first(s) == CHOOSE x \in s : TRUE
            T == {n \in Nat : \E g \in [Parts(S, n) -> Int] : IsSum(g, f, Parts(S, n))}
<1>1. 0 \in T
  <2>. DEFINE g == [s \in Parts(S, 0) |-> 0]
  <2>1. \A s \in Parts(S, 0) : s = {}
    BY SmallestPart
  <2>2. IsSum(g, f, Parts(S, 0))
    BY <2>1 DEF IsSum
  <2>3. g \in [Parts(S, 0) -> Int]
    OBVIOUS
  <2>. QED  BY <2>2, <2>3
<1>2. ASSUME NEW n \in Nat, n \in T  PROVE n + 1 \in T
  <2>1. PICK g \in [Parts(S, n) -> Int] : IsSum(g, f, Parts(S, n))
    BY <1>2
  <2>. DEFINE h == [s \in Parts(S, n + 1) |->
                      IF s = {} THEN 0 ELSE f[first(s)] + g[s \ {first(s)}]]
  <2>2. \A s \in Parts(S, n + 1) :
          s # {} => first(s) \in S /\ s \ {first(s)} \in Parts(S, n)
                    /\ s \ {first(s)} \in Parts(S, n + 1)
    BY SmallerParts
  <2>. HIDE DEF first
  <2>3. h \in [Parts(S, n + 1) -> Int]
    <3>1. \A s \in Parts(S, n + 1) : s # {} => f[first(s)] \in Int /\ g[s \ {first(s)}] \in Int
      BY <2>2
    <3>2. ASSUME NEW s \in Parts(S, n + 1)
          PROVE  (IF s = {} THEN 0 ELSE f[first(s)] + g[s \ {first(s)}]) \in Int
      <4>1. s # {} => f[first(s)] + g[s \ {first(s)}] \in Int
        BY <3>1
      <4>. QED  BY <4>1
    <3>. QED  BY <3>2
  <2>4. \A s \in Parts(S, n) : s \in Parts(S, n + 1) /\ h[s] = g[s]
    <3>. TAKE s \in Parts(S, n)
    <3>1. s \in Parts(S, n + 1)
      <4>1. s \in SUBSET S /\ Cardinality(s) <= n
        BY DEF Parts
      <4>2. Cardinality(s) \in Nat
        BY <4>1, FS_Subset, FS_CardinalityType
      <4>. QED  BY <4>1, <4>2 DEF Parts
    <3>2. g[s] = IF s = {} THEN 0 ELSE f[first(s)] + g[s \ {first(s)}]
      BY <2>1 DEF IsSum, first
    <3>. QED  BY <3>1, <3>2
  <2>5. \A s \in Parts(S, n + 1) :
          h[s] = IF s = {} THEN 0 ELSE f[first(s)] + h[s \ {first(s)}]
    <3>. TAKE s \in Parts(S, n + 1)
    <3>1. h[s] = IF s = {} THEN 0 ELSE f[first(s)] + g[s \ {first(s)}]
      OBVIOUS
    <3>2. s # {} => h[s \ {first(s)}] = g[s \ {first(s)}]
      BY <2>2, <2>4
    <3>. QED  BY <3>1, <3>2
  <2>6. IsSum(h, f, Parts(S, n + 1))
    <3>1. h = [s \in Parts(S, n + 1) |-> h[s]]
      OBVIOUS
    <3>. HIDE DEF h
    <3>. QED  BY <2>5, <3>1 DEF IsSum, first
  <2>. HIDE DEF h
  <2>. QED  BY <2>3, <2>6
<1>3. Cardinality(S) \in T
  <2>. HIDE DEF T
  <2>1. Cardinality(S) \in Nat
    BY FS_CardinalityType
  <2>. QED  BY <1>1, <1>2, <2>1, SetInduction
<1>4. Parts(S, Cardinality(S)) = SUBSET S
  <2>1. \A s \in SUBSET S : Cardinality(s) <= Cardinality(S)
    BY FS_Subset
  <2>. QED  BY <2>1 DEF Parts
<1>. QED  BY <1>3, <1>4

\* A sum of integers is one.
LEMMA SumOfIntegers ==
  ASSUME NEW S, IsFiniteSet(S), NEW f, \A x \in S : f[x] \in Int, NEW iter, IsSum(iter, f, SUBSET S)
  PROVE  iter[S] \in Int
<1>. DEFINE first(s) == CHOOSE x \in s : TRUE
            T == {n \in Nat : \A s \in Parts(S, n) : iter[s] \in Int}
<1>1. iter[{}] = 0 /\ \A s \in SUBSET S : s # {} => iter[s] = f[first(s)] + iter[s \ {first(s)}]
  BY DEF IsSum
<1>2. 0 \in T
  <2>1. \A s \in Parts(S, 0) : s = {}
    BY SmallestPart
  <2>2. iter[{}] \in Int
    BY <1>1
  <2>. QED  BY <2>1, <2>2
<1>3. ASSUME NEW n \in Nat, n \in T  PROVE n + 1 \in T
  <2>1. SUFFICES \A s \in Parts(S, n + 1) : iter[s] \in Int
    OBVIOUS
  <2>2. SUFFICES ASSUME NEW s \in Parts(S, n + 1), s # {}  PROVE iter[s] \in Int
    <3>1. iter[{}] \in Int
      BY <1>1
    <3>. QED  BY <3>1
  <2>3. s \in SUBSET S /\ first(s) \in S /\ s \ {first(s)} \in Parts(S, n)
    BY <2>2, SmallerParts DEF Parts
  <2>. HIDE DEF first
  <2>4. f[first(s)] \in Int /\ iter[s \ {first(s)}] \in Int
    BY <1>3, <2>3
  <2>. QED  BY <1>1, <2>2, <2>3, <2>4
<1>4. Cardinality(S) \in Nat
  BY FS_CardinalityType
<1>5. Cardinality(S) \in T
  <2>. HIDE DEF T
  <2>. QED  BY <1>2, <1>3, <1>4, SetInduction
<1>6. S \in Parts(S, Cardinality(S))
  BY <1>4 DEF Parts
<1>. QED  BY <1>5, <1>6

\* The two sums of the model.
LEMMA PointsAreIntegers ==
  ASSUME NEW signals, signals \subseteq DOMAIN Weight
  PROVE  Points(signals) \in Int
<1>1. IsFiniteSet(signals) /\ \A s \in signals : Weight[s] \in Int
  BY WeightAssumption, FS_Subset
<1>. DEFINE iter[s \in SUBSET signals] ==
       IF s = {} THEN 0 ELSE Weight[CHOOSE x \in s : TRUE] + iter[s \ {CHOOSE x \in s : TRUE}]
<1>2. Points(signals) = iter[signals]
  BY DEF Points, MapThenSumSet, MapThenFoldSet
<1>3. iter = CHOOSE g : IsSum(g, Weight, SUBSET signals)
  BY DEF IsSum
<1>. HIDE DEF iter
<1>4. IsSum(iter, Weight, SUBSET signals)
  BY <1>1, <1>3, SumExists
<1>. QED  BY <1>1, <1>2, <1>4, SumOfIntegers

LEMMA SeverityIsInteger ==
  ASSUME NEW reports, IsFiniteSet(reports), \A r \in reports : r.severity \in DOMAIN Weight, NEW key
  PROVE  Severity(reports, key) \in Int
<1>. DEFINE S == Reported(reports, key)
            f == [r \in S |-> Weight[r.severity]]
            IsIter(g) == g = [s \in SUBSET S |->
                               IF s = {} THEN 0
                               ELSE Weight[(CHOOSE x \in s : TRUE).severity] + g[s \ {CHOOSE x \in s : TRUE}]]
            iter == CHOOSE g : IsIter(g)
<1>1. S \subseteq reports
  BY DEF Reported
<1>2. IsFiniteSet(S) /\ \A x \in S : f[x] \in Int
  BY <1>1, WeightAssumption, FS_Subset
<1>3. Severity(reports, key) = iter[S]
  BY DEF Severity, MapThenSumSet, MapThenFoldSet
<1>4. ASSUME NEW g  PROVE IsSum(g, f, SUBSET S) <=> IsIter(g)
  <2>1. \A s \in SUBSET S : s # {} => (CHOOSE x \in s : TRUE) \in S
    OBVIOUS
  <2>2. \A s \in SUBSET S : s # {} => f[CHOOSE x \in s : TRUE] = Weight[(CHOOSE x \in s : TRUE).severity]
    BY <2>1
  <2>. HIDE DEF f, S
  <2>. QED  BY <2>2 DEF IsSum
<1>. HIDE DEF S, f, IsIter
<1>5. \E g : IsIter(g)
  BY <1>2, <1>4, SumExists
<1>6. IsSum(iter, f, SUBSET S)
  BY <1>4, <1>5
<1>. HIDE DEF iter
<1>. QED  BY <1>2, <1>3, <1>6, SumOfIntegers

-----------------------------------------------------------------------------
\* Urls have the keys from FirstKey on, in the order in which they are stored.
StoreInvariant ==
  /\ urls \in Seq(Elements(urls))
  /\ \A i \in 1 .. Len(urls) : urls[i].key = FirstKey + i - 1
  /\ IsFiniteSet(findings)
  /\ \A f \in findings : f.severity = "nuclei_info"

\* Whatever is stored, in whatever order: urls are numbered and findings are few.
THEOREM SpecKeepsStore == Spec => []StoreInvariant
<1>1. Init => StoreInvariant
  <2>1. << >> \in Seq(Elements(<< >>)) /\ Len(<< >>) = 0
    OBVIOUS
  <2>. QED  BY <2>1, FS_EmptySet DEF Init, StoreInvariant
<1>2. StoreInvariant /\ [Next]_storeVars => StoreInvariant'
  <2>. SUFFICES ASSUME StoreInvariant, [Next]_storeVars  PROVE StoreInvariant'
    OBVIOUS
  <2>. USE DEF StoreInvariant
  <2>1. CASE AddUrl
    <3>1. PICK u \in Shapes :
            urls' = Append(urls, [key |-> FirstKey + Len(urls), host |-> u.host, scheme |-> u.scheme, netloc |-> u.netloc,
                                  path |-> u.path, params |-> u.params,
                                  static |-> u.static, keyword |-> u.keyword, methods |-> u.methods])
      BY <2>1 DEF AddUrl
    <3>. DEFINE v == [key |-> FirstKey + Len(urls), host |-> u.host, scheme |-> u.scheme, netloc |-> u.netloc,
                      path |-> u.path, params |-> u.params,
                      static |-> u.static, keyword |-> u.keyword, methods |-> u.methods]
                T == Elements(urls) \cup {v}
    <3>2. v.key = FirstKey + Len(urls)
      OBVIOUS
    <3>3. urls' = Append(urls, v)
      BY <3>1
    <3>. HIDE DEF v
    <3>4. urls \in Seq(T) /\ v \in T
      <4>1. Elements(urls) \subseteq T
        OBVIOUS
      <4>. QED  BY <4>1, SeqMonotonic
    <3>. HIDE DEF T
    <3>5. /\ urls' \in Seq(T) /\ Len(urls') = Len(urls) + 1
          /\ \A i \in 1 .. Len(urls) : urls'[i] = urls[i]
          /\ urls'[Len(urls) + 1] = v
      BY <3>3, <3>4, AppendProperties
    <3>6. Elements(urls)' = T
      <4>1. Elements(urls') = Elements(urls) \cup {v}
        BY <3>3, <3>4, ElementsOfAppend
      <4>. QED  BY <4>1 DEF T
    <3>7. \A i \in 1 .. Len(urls') : urls'[i].key = FirstKey + i - 1
      <4>1. Len(urls) \in Nat /\ FirstKey \in Nat
        BY AnalysisAssumption
      <4>2. ASSUME NEW i \in 1 .. Len(urls')  PROVE urls'[i].key = FirstKey + i - 1
        <5>1. CASE i \in 1 .. Len(urls)
          BY <3>5, <5>1
        <5>2. CASE i = Len(urls) + 1
          BY <3>2, <3>5, <4>1, <5>2
        <5>. QED  BY <3>5, <4>1, <5>1, <5>2
      <4>. QED  BY <4>2
    <3>. QED  BY <2>1, <3>5, <3>6, <3>7 DEF AddUrl
  <2>2. CASE AddFinding
    <3>1. PICK i \in DOMAIN urls :
            \/ findings' = findings \cup {[id |-> Cardinality(findings), severity |-> "nuclei_info",
                                           host |-> urls[i].host, at |-> urls[i].key]}
            \/ findings' = findings
      BY <2>2 DEF AddFinding
    <3>2. IsFiniteSet(findings')
      BY <3>1, FS_AddElement
    <3>3. \A f \in findings' : f.severity = "nuclei_info"
      BY <3>1
    <3>. QED  BY <2>2, <3>2, <3>3 DEF AddFinding, Elements
  <2>3. CASE UNCHANGED storeVars
    BY <2>3 DEF storeVars, Elements
  <2>. QED  BY <2>1, <2>2, <2>3 DEF Next
<1>. QED  BY <1>1, <1>2, PTL DEF Spec

\* A protected url has no noise, and its other points are its own; the first unprotected
\* url of a template is no duplicate.
LEMMA SignalFacts ==
  ASSUME StoreInvariant
  PROVE  SignalIsNeverDemoted
<1>1. Len(urls) \in Nat /\ DOMAIN urls = 1 .. Len(urls)
  BY DEF StoreInvariant
<1>2. ASSUME NEW i \in DOMAIN urls, Protected(urls[i], findings, secrets)
      PROVE  UrlScore(urls, findings, secrets, i) = UrlScore(<<urls[i]>>, findings, secrets, 1)
  <2>1. Noise(urls, findings, secrets, i) = {}
    BY <1>2 DEF Noise
  <2>2. <<urls[i]>>[1] = urls[i]
    OBVIOUS
  <2>3. Noise(<<urls[i]>>, findings, secrets, 1) = {}
    BY <1>2, <2>2 DEF Noise
  <2>. QED  BY <2>1, <2>2, <2>3 DEF UrlScore
<1>3. ASSUME NEW i \in DOMAIN urls, ~Protected(urls[i], findings, secrets)
      PROVE  \E j \in DOMAIN urls : /\ Template(urls[j]) = Template(urls[i])
                                    /\ "duplicate" \notin Noise(urls, findings, secrets, j)
  <2>. DEFINE same == {j \in 1 .. Len(urls) : /\ Template(urls[j]) = Template(urls[i])
                                              /\ ~Protected(urls[j], findings, secrets)}
  <2>1. same \subseteq Nat /\ same # {}
    BY <1>1, <1>3
  <2>2. PICK j \in same : \A k \in same : j <= k
    <3>. HIDE DEF same
    <3>. QED  BY <2>1, LeastNatural
  <2>3. {k \in 1 .. j - 1 : Template(urls[k]) = Template(urls[j]) /\ ~Protected(urls[k], findings, secrets)} = {}
    <3>1. ASSUME NEW k \in 1 .. j - 1, Template(urls[k]) = Template(urls[j]),
                 ~Protected(urls[k], findings, secrets)
          PROVE  FALSE
      <4>1. k \in same
        BY <1>1, <2>2, <3>1
      <4>2. j <= k /\ j \in Nat
        BY <1>1, <2>2, <4>1
      <4>. QED  BY <3>1, <4>2
    <3>. QED  BY <3>1
  <2>4. "duplicate" \notin Noise(urls, findings, secrets, j)
    BY <2>3 DEF Noise
  <2>. QED  BY <1>1, <2>2, <2>4
<1>. QED  BY <1>2, <1>3 DEF SignalIsNeverDemoted

\* Whatever else is stored, a url with a finding, a non-GET method, a parameter of a class or a
\* keyword keeps the score it has alone, and of the urls of a template one is not demoted as a
\* duplicate.
THEOREM SignalsAreKept == Spec => []SignalIsNeverDemoted
BY SpecKeepsStore, SignalFacts, PTL

-----------------------------------------------------------------------------
\* The scored assets, as Ranking has them.
HostItem(h) == [kind |-> "host", key |-> h.key, host |-> h.key, lead |-> FALSE, score |-> HostScore(h, findings)]
UrlItem(i) == [kind |-> "url", key |-> urls[i].key, host |-> urls[i].host,
               lead |-> Guaranteed(urls[i], secrets), score |-> UrlScore(urls, findings, secrets, i)]
Items == {HostItem(Hosts[i]) : i \in DOMAIN Hosts} \cup {UrlItem(i) : i \in DOMAIN urls}

\* Scores can be compared.
LEMMA ScoresAreIntegers ==
  ASSUME StoreInvariant
  PROVE  /\ \A h : HostScore(h, findings) \in Int
         /\ \A i : UrlScore(urls, findings, secrets, i) \in Int
<1>1. \A r \in findings : r.severity \in DOMAIN Weight
  BY WeightAssumption DEF StoreInvariant
<1>2. \A key : Severity(findings, key) \in Int
  BY <1>1, SeverityIsInteger DEF StoreInvariant
<1>3. ASSUME NEW h  PROVE HostScore(h, findings) \in Int
  <2>1. Severity(findings, h.key) \in Int /\ Weight["tech"] \in Int
    BY <1>2, WeightAssumption
  <2>. QED  BY <2>1 DEF HostScore
<1>4. ASSUME NEW i  PROVE UrlScore(urls, findings, secrets, i) \in Int
  <2>. DEFINE signals == Signals(urls[i], secrets) \cup Noise(urls, findings, secrets, i)
  <2>1. signals \subseteq DOMAIN Weight
    <3>1. Signals(urls[i], secrets) \subseteq DOMAIN Weight
      BY DEF Signals
    <3>2. Noise(urls, findings, secrets, i) \subseteq {"catch_all", "static", "duplicate"}
      BY DEF Noise
    <3>. QED  BY <3>1, <3>2, WeightAssumption
  <2>2. Points(signals) \in Int
    BY <2>1, PointsAreIntegers
  <2>3. Severity(findings, urls[i].key) \in Int
    BY <1>2
  <2>. QED  BY <2>2, <2>3 DEF UrlScore
<1>. QED  BY <1>3, <1>4

\* The keys of what is stored.
LEMMA HostKeys ==
  /\ Len(Hosts) \in Nat /\ DOMAIN Hosts = 1 .. Len(Hosts)
  /\ \A i \in 1 .. Len(Hosts) : Hosts[i].key \in 0 .. FirstKey - 1
  /\ \A i, j \in 1 .. Len(Hosts) : Hosts[i].key = Hosts[j].key => i = j
<1>1. /\ Len(Hosts) \in Nat /\ DOMAIN Hosts = 1 .. Len(Hosts)
      /\ \A i \in 1 .. Len(Hosts) : Hosts[i] \in [key : 0 .. FirstKey - 1, tech : BOOLEAN]
  <2>. DEFINE Host == [key : 0 .. FirstKey - 1, tech : BOOLEAN]
  <2>1. Hosts \in Seq(Host)
    BY AnalysisAssumption
  <2>. HIDE DEF Host
  <2>2. /\ Len(Hosts) \in Nat /\ DOMAIN Hosts = 1 .. Len(Hosts)
        /\ \A i \in 1 .. Len(Hosts) : Hosts[i] \in Host
    BY <2>1
  <2>. QED  BY <2>2 DEF Host
<1>2. \A i, j \in 1 .. Len(Hosts) : Hosts[i].key = Hosts[j].key => i = j
  BY AnalysisAssumption
<1>. QED  BY <1>1, <1>2

\* No two scored assets have the same key.
LEMMA ItemFacts ==
  ASSUME StoreInvariant
  PROVE  /\ IsFiniteSet(Items)
         /\ \A t \in Items : t.key \in Nat /\ t.score \in Int
         /\ \A s, t \in Items : s.key = t.key => s = t
         /\ \A t \in Items : t.kind = "url" => \E i \in 1 .. Len(urls) : t.key = urls[i].key
<1>1. /\ Len(urls) \in Nat /\ DOMAIN urls = 1 .. Len(urls) /\ FirstKey \in Nat
      /\ \A i \in 1 .. Len(urls) : urls[i].key = FirstKey + i - 1
  BY AnalysisAssumption DEF StoreInvariant
<1>2. \A i \in 1 .. Len(Hosts) : /\ HostItem(Hosts[i]).key = Hosts[i].key /\ HostItem(Hosts[i]).score \in Int
                                 /\ HostItem(Hosts[i]).kind = "host"
  BY ScoresAreIntegers DEF HostItem
<1>3. \A i \in 1 .. Len(urls) : /\ UrlItem(i).key = urls[i].key /\ UrlItem(i).score \in Int
                                /\ UrlItem(i).kind = "url"
  BY ScoresAreIntegers DEF UrlItem
<1>4. IsFiniteSet({HostItem(Hosts[i]) : i \in 1 .. Len(Hosts)}) /\ IsFiniteSet({UrlItem(i) : i \in 1 .. Len(urls)})
  <2>1. IsFiniteSet(1 .. Len(Hosts)) /\ IsFiniteSet(1 .. Len(urls))
    BY <1>1, HostKeys, FS_Interval
  <2>2. [i \in 1 .. Len(Hosts) |-> HostItem(Hosts[i])]
          \in Surjection(1 .. Len(Hosts), {HostItem(Hosts[i]) : i \in 1 .. Len(Hosts)})
    BY DEF Surjection
  <2>3. [i \in 1 .. Len(urls) |-> UrlItem(i)] \in Surjection(1 .. Len(urls), {UrlItem(i) : i \in 1 .. Len(urls)})
    BY DEF Surjection
  <2>. QED  BY <2>1, <2>2, <2>3, FS_Surjection
<1>5. IsFiniteSet(Items)
  BY <1>1, <1>4, HostKeys, FS_Union DEF Items
<1>6. ASSUME NEW t \in Items
      PROVE  \/ \E i \in 1 .. Len(Hosts) : t = HostItem(Hosts[i])
             \/ \E i \in 1 .. Len(urls) : t = UrlItem(i)
  BY <1>1, HostKeys DEF Items
<1>7. \A t \in Items : t.key \in Nat /\ t.score \in Int
  BY <1>1, <1>2, <1>3, <1>6, HostKeys
<1>8. ASSUME NEW s \in Items, NEW t \in Items, s.key = t.key  PROVE s = t
  <2>1. CASE \E i, j \in 1 .. Len(Hosts) : s = HostItem(Hosts[i]) /\ t = HostItem(Hosts[j])
    BY <1>2, <1>8, <2>1, HostKeys
  <2>2. CASE \E i, j \in 1 .. Len(urls) : s = UrlItem(i) /\ t = UrlItem(j)
    <3>1. PICK i, j \in 1 .. Len(urls) : s = UrlItem(i) /\ t = UrlItem(j)
      BY <2>2
    <3>2. FirstKey + i - 1 = FirstKey + j - 1
      BY <1>1, <1>3, <1>8, <3>1
    <3>3. i = j
      BY <1>1, <3>2
    <3>. QED  BY <3>1, <3>3
  <2>3. ASSUME NEW i \in 1 .. Len(Hosts), NEW j \in 1 .. Len(urls)
        PROVE  HostItem(Hosts[i]).key # UrlItem(j).key
    BY <1>1, <1>2, <1>3, HostKeys
  <2>. QED  BY <1>6, <1>8, <2>1, <2>2, <2>3
<1>9. \A t \in Items : t.kind = "url" => \E i \in 1 .. Len(urls) : t.key = urls[i].key
  BY <1>2, <1>3, <1>6
<1>. QED  BY <1>5, <1>7, <1>8, <1>9

\* The ranking lists the scored assets, each once.
LEMMA RankingFacts ==
  ASSUME StoreInvariant
  PROVE  LET r == Ranking(Hosts, urls, findings, secrets)
         IN  r \in Seq(Items) /\ ~Repeats(r)
<1>. DEFINE r == Ranked(Items)
            below == [t \in Items |-> {s \in Items : Better(s, t)}]
<1>1. Ranking(Hosts, urls, findings, secrets) = r
  BY DEF Ranking, Items, HostItem, UrlItem
<1>2. IsOrder(below, Items)
  <2>1. \A t \in Items : ~Better(t, t)
    BY ItemFacts DEF Better
  <2>2. \A s, t, u \in Items : Better(s, t) /\ Better(t, u) => Better(s, u)
    BY ItemFacts DEF Better
  <2>3. \A s, t \in Items : s # t => Better(s, t) \/ Better(t, s)
    BY ItemFacts DEF Better
  <2>. QED  BY <2>1, <2>2, <2>3 DEF IsOrder
<1>3. IsRanking(r, below, Items)
  <2>1. \E T : r \in [1 .. Cardinality(Items) -> T]
    <3>. DEFINE at(k) == CHOOSE t \in Items : Cardinality({s \in Items : Better(s, t)}) = k - 1
                T == {at(k) : k \in 1 .. Cardinality(Items)}
    <3>1. \A k \in 1 .. Cardinality(Items) : at(k) \in T
      OBVIOUS
    <3>. HIDE DEF T
    <3>2. r \in [1 .. Cardinality(Items) -> T]
      BY <3>1 DEF Ranked
    <3>. QED  BY <3>2
  <2>2. ASSUME NEW k \in 1 .. Cardinality(Items), \E x \in Items : Cardinality(below[x]) = k - 1
        PROVE  r[k] \in Items /\ Cardinality(below[r[k]]) = k - 1
    <3>1. r[k] = CHOOSE t \in Items : Cardinality({s \in Items : Better(s, t)}) = k - 1
      BY DEF Ranked
    <3>2. \A t \in Items : below[t] = {s \in Items : Better(s, t)}
      OBVIOUS
    <3>3. \E t \in Items : Cardinality({s \in Items : Better(s, t)}) = k - 1
      BY <2>2, <3>2
    <3>4. r[k] \in Items /\ Cardinality({s \in Items : Better(s, r[k])}) = k - 1
      BY <3>1, <3>3
    <3>. QED  BY <3>2, <3>4
  <2>. QED  BY <2>1, <2>2 DEF IsRanking
<1>. HIDE DEF r, below
<1>4. r \in Seq(Items) /\ ~Repeats(r)
  BY <1>2, <1>3, ItemFacts, RankFacts
<1>. QED  BY <1>1, <1>4

-----------------------------------------------------------------------------
\* The keys of a list.
LEMMA KeysFacts ==
  ASSUME NEW T, NEW s \in Seq(T), NEW K, \A x \in T : x.key \in K
  PROVE  /\ Keys(s) \in Seq(K) /\ Len(Keys(s)) = Len(s)
         /\ \A i \in 1 .. Len(s) : Keys(s)[i] = s[i].key
         /\ Elements(Keys(s)) = {x.key : x \in Elements(s)}
<1>1. Len(s) \in Nat /\ \A i \in 1 .. Len(s) : s[i] \in T
  OBVIOUS
<1>2. Keys(s) \in [1 .. Len(s) -> K] /\ \A i \in 1 .. Len(s) : Keys(s)[i] = s[i].key
  BY <1>1 DEF Keys
<1>3. Keys(s) \in Seq(K) /\ Len(Keys(s)) = Len(s)
  BY <1>1, <1>2, IsList
<1>4. Elements(Keys(s)) = {x.key : x \in Elements(s)}
  BY <1>2, <1>3 DEF Elements
<1>. QED  BY <1>2, <1>3, <1>4

\* A filter repeats nothing that its list does not.
LEMMA FilteredRepeats ==
  ASSUME NEW T, NEW s \in Seq(T), NEW S, ~Repeats(s)
  PROVE  ~Repeats(Filtered(s, S))
<1>. DEFINE f == Filtered(s, S)
<1>1. \A i, j \in 1 .. Len(f) : i < j => \E k, l \in 1 .. Len(s) : k < l /\ s[k] = f[i] /\ s[l] = f[j]
  BY FilteredOrder
<1>2. Len(f) \in Nat /\ Len(s) \in Nat
  BY FilteredType
<1>. HIDE DEF f
<1>3. ASSUME NEW i \in 1 .. Len(f), NEW j \in 1 .. Len(f), i < j  PROVE f[i] # f[j]
  <2>1. PICK k \in 1 .. Len(s), l \in 1 .. Len(s) : k < l /\ s[k] = f[i] /\ s[l] = f[j]
    BY <1>1, <1>3
  <2>2. k # l
    BY <1>2, <2>1
  <2>. QED  BY <2>1, <2>2 DEF Repeats
<1>4. \A i, j \in 1 .. Len(f) : i # j => f[i] # f[j]
  <2>1. \A i, j \in 1 .. Len(f) : i # j => i < j \/ j < i
    BY <1>2
  <2>. QED  BY <1>3, <2>1
<1>. QED  BY <1>4 DEF Repeats, f

\* A list without repetitions is as long as it has elements.
LEMMA CountOfElements ==
  ASSUME NEW T, NEW s \in Seq(T), ~Repeats(s)
  PROVE  Cardinality(Elements(s)) = Len(s)
<1>1. Len(s) \in Nat
  OBVIOUS
<1>. DEFINE f == [i \in 1 .. Len(s) |-> s[i]]
<1>2. f \in Injection(1 .. Len(s), Elements(s))
  BY DEF Injection, IsInjective, Elements, Repeats
<1>3. f \in Surjection(1 .. Len(s), Elements(s))
  BY DEF Surjection, Elements
<1>. HIDE DEF f
<1>4. IsFiniteSet(1 .. Len(s)) /\ Cardinality(1 .. Len(s)) = Len(s)
  <2>1. 1 \in Int /\ Len(s) \in Int /\ (1 > Len(s) <=> Len(s) = 0) /\ Len(s) - 1 + 1 = Len(s)
    BY <1>1
  <2>. QED  BY <2>1, FS_Interval
<1>. QED  BY <1>2, <1>3, <1>4, FS_Surjection

-----------------------------------------------------------------------------
\* The first of the nodes with a key.
FirstNode(nodes, k) ==
  nodes[CHOOSE i \in 1 .. Len(Keys(nodes)) : Keys(nodes)[i] = k /\ \A j \in 1 .. i - 1 : Keys(nodes)[j] # k]

LEMMA FirstNodeFacts ==
  ASSUME NEW E, NEW nodes \in Seq(E), NEW K, \A n \in E : n.key \in K, NEW k \in Elements(Keys(nodes))
  PROVE  FirstNode(nodes, k) \in E /\ FirstNode(nodes, k).key = k
<1>. DEFINE keys == Keys(nodes)
            at == {i \in 1 .. Len(keys) : keys[i] = k}
            IsFirst(i) == keys[i] = k /\ \A j \in 1 .. i - 1 : keys[j] # k
<1>1. keys \in Seq(K) /\ Len(keys) = Len(nodes) /\ \A i \in 1 .. Len(nodes) : keys[i] = nodes[i].key /\ nodes[i] \in E
  BY KeysFacts
<1>. HIDE DEF keys
<1>2. Len(keys) \in Nat /\ at \subseteq Nat /\ at # {}
  BY <1>1 DEF Elements, keys
<1>3. PICK m \in at : \A i \in at : m <= i
  <2>. HIDE DEF at
  <2>. QED  BY <1>2, LeastNatural
<1>4. IsFirst(m) /\ m \in 1 .. Len(keys)
  BY <1>2, <1>3
<1>. DEFINE first == CHOOSE i \in 1 .. Len(keys) : IsFirst(i)
<1>5. first \in 1 .. Len(keys) /\ keys[first] = k
  BY <1>4
<1>. HIDE DEF first
<1>6. nodes[first] \in E /\ nodes[first].key = k
  BY <1>1, <1>5
<1>. QED  BY <1>6 DEF FirstNode, first, keys

\* Context adds nothing of what is ahead among the keys wanted, so the cut leaves out
\* nothing of it, or leaves nothing else.
LEMMA ChosenFacts ==
  ASSUME NEW E, NEW nodes \in Seq(E), Elements(nodes) = E, NEW edges \in Seq(E \X E),
         NEW K, \A n \in E : n.key \in K,
         NEW wanted \in Seq(K), NEW A, Ahead(wanted, A),
         A \cap Elements(Keys(nodes)) \subseteq Elements(wanted)
  PROVE  LET chosen == Chosen(nodes, edges, wanted)
             keys == Elements(Keys(chosen))
             stored == Elements(Keys(nodes))
         IN  /\ Len(chosen) <= MaxNodes /\ Cardinality(Elements(chosen)) = Len(chosen)
             /\ A \cap stored \subseteq keys \/ keys \subseteq A
<1>. DEFINE stored == Elements(Keys(nodes))
            list == Filtered(wanted, stored)
            seeds == Seeds(nodes, wanted)
            B == {FirstNode(nodes, k) : k \in A \cap stored}
            context == Context(edges, seeds)
            all == Unique(seeds \o context)
            chosen == Chosen(nodes, edges, wanted)
<1>1. \A k \in stored : FirstNode(nodes, k) \in E /\ FirstNode(nodes, k).key = k
  BY FirstNodeFacts
<1>2. /\ list \in Seq(K) /\ list \in Seq(stored) /\ Elements(list) = Elements(wanted) \cap stored
      /\ Ahead(list, A)
  BY FilteredType, FilteredFacts, FilteredAhead
<1>3. /\ seeds \in Seq(E) /\ Len(seeds) = Len(list)
      /\ \A i \in 1 .. Len(list) : list[i] \in stored /\ seeds[i] = FirstNode(nodes, list[i])
  <2>1. seeds = [i \in 1 .. Len(list) |-> FirstNode(nodes, list[i])]
    BY DEF Seeds, FirstNode
  <2>. HIDE DEF seeds, list, stored
  <2>2. Len(list) \in Nat /\ \A i \in 1 .. Len(list) : list[i] \in stored
    BY <1>2
  <2>3. seeds \in [1 .. Len(list) -> E]
    BY <1>1, <2>1, <2>2
  <2>. QED  BY <2>1, <2>2, <2>3, IsList
<1>4. Ahead(seeds, B)
  <2>. HIDE DEF list, seeds, stored
  <2>1. \A i \in 1 .. Len(list) : seeds[i] \in B <=> list[i] \in A
    BY <1>1, <1>3
  <2>. HIDE DEF B
  <2>. QED  BY <1>2, <1>3, <2>1 DEF Ahead
<1>5. context \in Seq(E)
  <2>. HIDE DEF seeds, stored, list
  <2>1. \A n : Neighbours(edges, n) \in Seq(E)
    <3>. TAKE n
    <3>. DEFINE ends(i) == (IF edges[i][1] = n THEN <<edges[i][2]>> ELSE << >>)
                             \o IF edges[i][2] = n THEN <<edges[i][1]>> ELSE << >>
                lists == [i \in 1 .. Len(edges) |-> ends(i)]
    <3>1. \A i \in 1 .. Len(edges) : edges[i][1] \in E /\ edges[i][2] \in E
      OBVIOUS
    <3>2. \A i \in 1 .. Len(edges) : ends(i) \in Seq(E)
      BY <3>1
    <3>. HIDE DEF ends
    <3>3. lists \in Seq(Seq(E))
      <4>1. Len(edges) \in Nat
        OBVIOUS
      <4>. QED  BY <3>2, <4>1, IsList
    <3>. HIDE DEF lists
    <3>4. Joined(lists) \in Seq(E)
      BY <3>3, JoinedFacts
    <3>. QED  BY <3>4 DEF Neighbours, lists, ends
  <2>. DEFINE lists == [i \in 1 .. Len(seeds) |-> Neighbours(edges, seeds[i])]
              around == Joined(lists)
  <2>2. lists \in Seq(Seq(E))
    <3>1. Len(seeds) \in Nat
      BY <1>3
    <3>2. \A i \in 1 .. Len(seeds) : Neighbours(edges, seeds[i]) \in Seq(E)
      BY <2>1
    <3>. QED  BY <3>1, <3>2, IsList
  <2>3. around \in Seq(E)
    <3>. HIDE DEF lists
    <3>. QED  BY <2>2, JoinedFacts
  <2>4. Filtered(around, {n \in Elements(around) : n.type \in {"host", "technology", "subdomain"}}) \in Seq(E)
    <3>. HIDE DEF around
    <3>. QED  BY <2>3, FilteredType
  <2>. QED  BY <2>4 DEF Context
<1>6. B \subseteq Elements(seeds)
  <2>. HIDE DEF list, seeds, context, stored
  <2>1. ASSUME NEW k \in A \cap stored  PROVE FirstNode(nodes, k) \in Elements(seeds)
    <3>1. k \in Elements(list)
      BY <1>2, <2>1 DEF stored
    <3>2. PICK i \in 1 .. Len(list) : list[i] = k
      BY <3>1 DEF Elements
    <3>. QED  BY <1>3, <3>2 DEF Elements
  <2>. QED  BY <2>1
<1>7. Ahead(all, B) /\ all \in Seq(E) /\ ~Repeats(all) /\ Elements(all) = Elements(seeds \o context)
  <2>. HIDE DEF seeds, context, B
  <2>1. seeds \o context \in Seq(E)
    BY <1>3, <1>5, ConcatProperties
  <2>. QED  BY <1>3, <1>4, <1>5, <1>6, <2>1, UniqueAhead, UniqueFacts
<1>8. MaxNodes \in Nat
  BY AnalysisAssumption
<1>9. chosen = Cut(all, MaxNodes)
  BY DEF Chosen
<1>. HIDE DEF all, chosen
<1>10. chosen \in Seq(E) /\ Len(chosen) <= MaxNodes /\ ~Repeats(chosen)
  <2>. QED  BY <1>7, <1>8, <1>9, CutFacts
<1>11. Elements(all) \cap B \subseteq Elements(chosen) \/ Elements(chosen) \subseteq B
  <2>. HIDE DEF B
  <2>. QED  BY <1>7, <1>8, <1>9, CutAhead
<1>. DEFINE keys == Elements(Keys(chosen))
<1>12. keys = {n.key : n \in Elements(chosen)}
  BY <1>10, KeysFacts
<1>13. Cardinality(Elements(chosen)) = Len(chosen)
  BY <1>10, CountOfElements
<1>14. CASE Elements(chosen) \subseteq B
  <2>1. keys \subseteq A
    BY <1>1, <1>12, <1>14
  <2>. QED  BY <1>10, <1>13, <2>1 DEF chosen
<1>15. CASE Elements(all) \cap B \subseteq Elements(chosen)
  <2>1. B \subseteq Elements(all)
    <3>. HIDE DEF seeds, context, B
    <3>1. Elements(seeds \o context) = Elements(seeds) \cup Elements(context)
      BY <1>3, <1>5, ElementsOfConcat
    <3>. QED  BY <1>6, <1>7, <3>1
  <2>2. ASSUME NEW k \in A \cap stored  PROVE k \in keys
    <3>1. FirstNode(nodes, k) \in Elements(chosen) /\ FirstNode(nodes, k).key = k
      BY <1>1, <1>15, <2>1, <2>2
    <3>. QED  BY <1>12, <3>1
  <2>3. A \cap stored \subseteq keys
    BY <2>2
  <2>. QED  BY <1>10, <1>13, <2>3 DEF chosen
<1>. QED  BY <1>11, <1>14, <1>15

-----------------------------------------------------------------------------
\* The graph that the store holds.
LEMMA NodeFacts ==
  ASSUME StoreInvariant
  PROVE  LET E == Elements(Nodes)
             stored == Elements(Keys(Nodes))
         IN  /\ Nodes \in Seq(E) /\ \A n \in E : n.key \in Nat
             /\ \A i \in 1 .. Len(urls) : urls[i].key \in stored /\ urls[i].key \in Nat /\ urls[i].key >= FirstKey
             /\ NodeEdges \in Seq(E \X E)
             /\ {n.key : n \in {m \in E : m.type = "host"}} = {Hosts[i].key : i \in 1 .. Len(Hosts)}
<1>. DEFINE hosts == [i \in 1 .. Len(Hosts) |-> HostNode(Hosts[i].key)]
            pages == [i \in 1 .. Len(urls) |-> UrlNode(urls[i].key)]
            Other == [type : {"subdomain", "technology", "ip", "endpoint", "artifact"}, key : Nat]
            F == Elements(Fixed)
            P == Elements(pages)
            E == Elements(Nodes)
<1>1. /\ FirstKey \in Nat /\ Len(urls) \in Nat /\ urls \in Seq(Elements(urls))
      /\ \A i \in 1 .. Len(urls) : urls[i].key = FirstKey + i - 1
  BY AnalysisAssumption DEF StoreInvariant
<1>2. hosts \in Seq(Elements(hosts)) /\ Len(hosts) = Len(Hosts) /\ pages \in Seq(P) /\ Len(pages) = Len(urls)
  <2>. DEFINE H == {HostNode(Hosts[i].key) : i \in 1 .. Len(Hosts)}
              U == {UrlNode(urls[i].key) : i \in 1 .. Len(urls)}
  <2>1. hosts \in [1 .. Len(Hosts) -> H] /\ pages \in [1 .. Len(urls) -> U]
    OBVIOUS
  <2>. HIDE DEF hosts, pages, H, U
  <2>2. hosts \in Seq(H) /\ Len(hosts) = Len(Hosts) /\ pages \in Seq(U) /\ Len(pages) = Len(urls)
    BY <1>1, <2>1, HostKeys, IsList
  <2>. QED  BY <2>2, ElementsType
<1>3. Around \in Seq(Other)
  BY AnalysisAssumption
<1>4. F = Elements(hosts) \cup Elements(Around) /\ Fixed \in Seq(F) /\ Elements(Around) \subseteq Other
  <2>. DEFINE T == Elements(hosts) \cup Elements(Around)
  <2>1. Elements(Around) \subseteq Other /\ Around \in Seq(Elements(Around))
    <3>. HIDE DEF Other
    <3>. QED  BY <1>3, ElementsType
  <2>2. Elements(hosts) \subseteq T /\ Elements(Around) \subseteq T
    OBVIOUS
  <2>. HIDE DEF T, hosts
  <2>3. hosts \in Seq(T) /\ Around \in Seq(T)
    BY <1>2, <2>1, <2>2, SeqMonotonic
  <2>4. hosts \o Around \in Seq(T) /\ Elements(hosts \o Around) = Elements(hosts) \cup Elements(Around)
    BY <2>3, ConcatProperties, ElementsOfConcat
  <2>5. Fixed = hosts \o Around
    BY DEF Fixed, hosts
  <2>. QED  BY <2>1, <2>4, <2>5 DEF T
<1>5. E = F \cup P /\ Nodes \in Seq(E)
  <2>. DEFINE T == F \cup P
  <2>1. F \subseteq T /\ P \subseteq T
    OBVIOUS
  <2>. HIDE DEF T, F, P, pages
  <2>2. Fixed \in Seq(T) /\ pages \in Seq(T)
    BY <1>2, <1>4, <2>1, SeqMonotonic
  <2>3. Fixed \o pages \in Seq(T) /\ Elements(Fixed \o pages) = Elements(Fixed) \cup Elements(pages)
    BY <2>2, ConcatProperties, ElementsOfConcat
  <2>4. Nodes = Fixed \o pages
    BY DEF Nodes, pages
  <2>. QED  BY <2>3, <2>4 DEF T, F, P
<1>6. /\ \A n \in Elements(hosts) : n.type = "host" /\ \E i \in 1 .. Len(Hosts) : n.key = Hosts[i].key
      /\ \A i \in 1 .. Len(Hosts) : HostNode(Hosts[i].key) \in Elements(hosts)
  <2>1. \A i \in 1 .. Len(Hosts) : /\ hosts[i] = HostNode(Hosts[i].key)
                                   /\ hosts[i].type = "host" /\ hosts[i].key = Hosts[i].key
    BY DEF HostNode
  <2>. HIDE DEF hosts
  <2>. QED  BY <1>2, <2>1 DEF Elements
<1>7. /\ \A n \in P : n.type = "url" /\ \E i \in 1 .. Len(urls) : n.key = urls[i].key /\ n = UrlNode(urls[i].key)
      /\ \A i \in 1 .. Len(urls) : UrlNode(urls[i].key) \in P
  <2>1. \A i \in 1 .. Len(urls) : /\ pages[i] = UrlNode(urls[i].key)
                                  /\ pages[i].type = "url" /\ pages[i].key = urls[i].key
    BY DEF UrlNode
  <2>. HIDE DEF pages
  <2>. QED  BY <1>2, <2>1 DEF Elements
<1>8. \A n \in Elements(Around) : n.type # "host" /\ n.key \in Nat
  BY <1>4
<1>9. \A n \in F : n.key \in Nat
  <2>. HIDE DEF F, hosts
  <2>. QED  BY <1>4, <1>6, <1>8, HostKeys
<1>10. \A n \in E : n.key \in Nat
  <2>. HIDE DEF F, P, E
  <2>. QED  BY <1>1, <1>5, <1>7, <1>9
<1>11. Elements(Keys(Nodes)) = {n.key : n \in E}
  <2>. HIDE DEF E
  <2>. QED  BY <1>5, <1>10, KeysFacts DEF E
<1>12. ASSUME NEW i \in 1 .. Len(urls)
       PROVE  /\ urls[i].key \in Elements(Keys(Nodes)) /\ urls[i].key \in Nat /\ urls[i].key >= FirstKey
              /\ UrlNode(urls[i].key) \in E
  <2>1. UrlNode(urls[i].key) \in E /\ UrlNode(urls[i].key).key = urls[i].key
    BY <1>5, <1>7 DEF UrlNode
  <2>. HIDE DEF E
  <2>. QED  BY <1>1, <1>11, <2>1
<1>13. {n.key : n \in {m \in E : m.type = "host"}} = {Hosts[i].key : i \in 1 .. Len(Hosts)}
  <2>1. ASSUME NEW n \in E, n.type = "host"  PROVE n \in Elements(hosts)
    <3>. HIDE DEF E, F, P, hosts
    <3>. QED  BY <1>4, <1>5, <1>7, <1>8, <2>1
  <2>2. \A i \in 1 .. Len(Hosts) : /\ HostNode(Hosts[i].key) \in E /\ HostNode(Hosts[i].key).type = "host"
                                   /\ HostNode(Hosts[i].key).key = Hosts[i].key
    <3>1. \A i \in 1 .. Len(Hosts) : HostNode(Hosts[i].key) \in E
      <4>. HIDE DEF E, F, P, hosts
      <4>. QED  BY <1>4, <1>5, <1>6
    <3>. QED  BY <3>1 DEF HostNode
  <2>. HIDE DEF E, hosts
  <2>. QED  BY <1>6, <2>1, <2>2
<1>14. NodeEdges \in Seq(E \X E)
  <2>. DEFINE known == {u \in Elements(urls) : u.host \in Elements(Keys(Hosts))}
              owns == [i \in 1 .. Len(Held) |-> <<UrlNode(Held[i].key), HostNode(Held[i].host)>>]
  <2>1. HostEdges \in Seq(E \X E)
    <3>1. HostEdges \in Seq(F \X F)
      BY AnalysisAssumption
    <3>2. F \X F \subseteq E \X E
      <4>. HIDE DEF F, E, P
      <4>. QED  BY <1>5
    <3>. HIDE DEF F, E
    <3>. QED  BY <3>1, <3>2, SeqMonotonic
  <2>2. Held \in Seq(Elements(urls) \cap known)
    <3>. HIDE DEF known
    <3>1. Filtered(urls, known) \in Seq(Elements(urls) \cap known)
      BY <1>1, FilteredFacts
    <3>. QED  BY <3>1 DEF Held, known
  <2>3. Elements(Keys(Hosts)) = {Hosts[i].key : i \in 1 .. Len(Hosts)}
    <3>1. Hosts \in Seq(Elements(Hosts)) /\ \A h \in Elements(Hosts) : h.key \in 0 .. FirstKey - 1
      <4>1. Hosts \in Seq([key : 0 .. FirstKey - 1, tech : BOOLEAN])
        BY AnalysisAssumption
      <4>2. \A h \in Elements(Hosts) : h.key \in 0 .. FirstKey - 1
        BY HostKeys DEF Elements
      <4>. QED  BY <4>1, <4>2, ElementsType
    <3>2. Elements(Keys(Hosts)) = {h.key : h \in Elements(Hosts)}
      BY <3>1, KeysFacts
    <3>. QED  BY <3>2 DEF Elements
  <2>4. ASSUME NEW u \in known
        PROVE  <<UrlNode(u.key), HostNode(u.host)>> \in E \X E
    <3>1. PICK i \in 1 .. Len(urls) : u = urls[i]
      BY DEF Elements
    <3>2. PICK j \in 1 .. Len(Hosts) : u.host = Hosts[j].key
      BY <2>3
    <3>3. HostNode(u.host) \in E
      <4>. HIDE DEF E, F, P, hosts
      <4>. QED  BY <1>4, <1>5, <1>6, <3>2
    <3>. HIDE DEF E
    <3>. QED  BY <1>12, <3>1, <3>3
  <2>5. owns \in Seq(E \X E)
    <3>1. Len(Held) \in Nat /\ \A i \in 1 .. Len(Held) : Held[i] \in known
      <4>. HIDE DEF known
      <4>. QED  BY <2>2
    <3>. HIDE DEF E, known
    <3>2. owns \in [1 .. Len(Held) -> E \X E]
      BY <2>4, <3>1
    <3>. QED  BY <3>1, <3>2, IsList
  <2>6. NodeEdges = HostEdges \o owns
    BY DEF NodeEdges
  <2>. HIDE DEF owns, E
  <2>. QED  BY <2>1, <2>5, <2>6, ConcatProperties
<1>. QED  BY <1>5, <1>10, <1>12, <1>13, <1>14

-----------------------------------------------------------------------------
\* What the triage keeps of the ranking.
LEMMA TriageFacts ==
  ASSUME StoreInvariant
  PROVE  /\ Stored.top \in Seq(Items) /\ ~Repeats(Stored.top)
         /\ Stored.must_include \in Seq(Items)
<1>. DEFINE r == Ranking(Hosts, urls, findings, secrets)
            some == Filtered(r, {t \in Elements(r) : t.score > 0})
            leads == Filtered(r, {t \in Elements(r) : t.lead})
<1>1. r \in Seq(Items) /\ ~Repeats(r)
  BY RankingFacts
<1>2. Stored.top = Cut(some, TopN) /\ Stored.must_include = leads
  BY DEF Stored, Triage
<1>. HIDE DEF r
<1>3. some \in Seq(Items) /\ ~Repeats(some) /\ leads \in Seq(Items)
  BY <1>1, FilteredType, FilteredRepeats
<1>4. TopN \in Nat
  BY AnalysisAssumption
<1>. HIDE DEF some, leads
<1>5. Cut(some, TopN) \in Seq(Items) /\ ~Repeats(Cut(some, TopN))
  BY <1>3, <1>4, CutFacts
<1>. QED  BY <1>2, <1>3, <1>5

\* The urls of a host in the ranking, each once.
LEMMA HostUrls ==
  ASSUME StoreInvariant, NEW top \in Seq(Items), ~Repeats(top), NEW h
  PROVE  LET mine == UrlsOfHost(top, h)
             its == {t \in Elements(top) : t.kind = "url" /\ t.host = h}
         IN  /\ mine \in Seq(Nat) /\ ~Repeats(mine)
             /\ \A i \in 1 .. Len(mine) : \E t \in its : t.key = mine[i]
             /\ its # {} => Len(mine) >= 1
<1>. DEFINE its == {t \in Elements(top) : t.kind = "url" /\ t.host = h}
            own == Filtered(top, its)
            mine == UrlsOfHost(top, h)
<1>1. mine = Keys(own)
  BY DEF UrlsOfHost
<1>2. its \subseteq Elements(top)
  OBVIOUS
<1>. HIDE DEF its
<1>3. own \in Seq(Items) /\ Elements(own) = its /\ ~Repeats(own)
  <2>1. own \in Seq(Items) /\ Elements(own) = Elements(top) \cap its
    BY FilteredType, FilteredFacts
  <2>2. ~Repeats(own)
    BY FilteredRepeats
  <2>. QED  BY <1>2, <2>1, <2>2
<1>. HIDE DEF own, mine
<1>4. /\ mine \in Seq(Nat) /\ Len(mine) = Len(own)
      /\ \A i \in 1 .. Len(own) : mine[i] = own[i].key
  BY <1>1, <1>3, ItemFacts, KeysFacts
<1>5. Len(own) \in Nat /\ \A i \in 1 .. Len(own) : own[i] \in Items /\ own[i] \in its
  BY <1>3 DEF Elements
<1>6. ~Repeats(mine)
  BY <1>3, <1>4, <1>5, ItemFacts DEF Repeats
<1>7. its # {} => Len(mine) >= 1
  <2>1. its # {} => Len(own) # 0
    BY <1>3 DEF Elements
  <2>. QED  BY <1>4, <1>5, <2>1
<1>8. \A i \in 1 .. Len(mine) : \E t \in its : t.key = mine[i]
  BY <1>4, <1>5
<1>. QED  BY <1>4, <1>6, <1>7, <1>8 DEF mine, its

\* The hosts that have urls in the ranking, and the urls of a round.
LEMMA RoundFacts ==
  ASSUME StoreInvariant, NEW top \in Seq(Items), ~Repeats(top), NEW i \in Nat \ {0}
  PROVE  /\ Elements(HostsOf(top)) = {t.host : t \in {u \in Elements(top) : u.kind = "url"}}
         /\ Round(top, i) \in Seq(Nat)
         /\ Elements(Round(top, i)) =
              {UrlsOfHost(top, h)[i] : h \in {g \in Elements(HostsOf(top)) : i <= Len(UrlsOfHost(top, g))}}
<1>. DEFINE pages == {u \in Elements(top) : u.kind = "url"}
            items == UrlItems(top)
            names == [j \in 1 .. Len(items) |-> items[j].host]
            H == {t.host : t \in pages}
            hosts == HostsOf(top)
            long == {h \in Elements(hosts) : i <= Len(UrlsOfHost(top, h))}
            with == Filtered(hosts, long)
<1>1. items \in Seq(pages) /\ Elements(items) = pages
  <2>1. Filtered(top, pages) \in Seq(pages) /\ Elements(Filtered(top, pages)) = Elements(top) \cap pages
    <3>. HIDE DEF pages
    <3>. QED  BY FilteredType, FilteredFacts
  <2>2. items = Filtered(top, pages)
    BY DEF UrlItems
  <2>3. Elements(top) \cap pages = pages
    OBVIOUS
  <2>. QED  BY <2>1, <2>2, <2>3
<1>2. names \in Seq(H) /\ Elements(names) = H
  <2>. HIDE DEF pages, items
  <2>1. Len(items) \in Nat /\ \A j \in 1 .. Len(items) : items[j] \in pages
    BY <1>1
  <2>2. names \in [1 .. Len(items) -> H] /\ \A j \in 1 .. Len(items) : names[j] = items[j].host
    BY <2>1
  <2>. HIDE DEF names
  <2>3. names \in Seq(H) /\ Len(names) = Len(items)
    <3>. HIDE DEF H
    <3>. QED  BY <2>1, <2>2, IsList
  <2>4. Elements(names) = H
    BY <1>1, <2>2, <2>3 DEF Elements
  <2>. QED  BY <2>3, <2>4
<1>3. hosts \in Seq(H) /\ Elements(hosts) = H
  <2>1. hosts = Unique(names)
    BY DEF HostsOf
  <2>. HIDE DEF names, H, hosts
  <2>. QED  BY <1>2, <2>1, UniqueFacts
<1>. HIDE DEF H, hosts, items, pages, names
<1>4. with \in Seq(H) /\ Elements(with) = long
  <2>1. long \subseteq Elements(hosts)
    OBVIOUS
  <2>. HIDE DEF long
  <2>2. with \in Seq(H) /\ Elements(with) = Elements(hosts) \cap long
    BY <1>3, FilteredType, FilteredFacts
  <2>. QED  BY <2>1, <2>2
<1>5. \A h \in long : UrlsOfHost(top, h)[i] \in Nat
  <2>. TAKE h \in long
  <2>1. UrlsOfHost(top, h) \in Seq(Nat)
    BY HostUrls
  <2>2. i \in 1 .. Len(UrlsOfHost(top, h))
    BY <2>1
  <2>. QED  BY <2>1, <2>2
<1>6. Round(top, i) = [j \in 1 .. Len(with) |-> UrlsOfHost(top, with[j])[i]]
  BY DEF Round, hosts
<1>7. Len(with) \in Nat /\ \A j \in 1 .. Len(with) : with[j] \in long
  <2>. HIDE DEF with, long
  <2>. QED  BY <1>4 DEF Elements
<1>. HIDE DEF with, long
<1>8. Round(top, i) \in Seq(Nat) /\ Len(Round(top, i)) = Len(with)
  <2>1. Round(top, i) \in [1 .. Len(with) -> Nat]
    BY <1>5, <1>6, <1>7
  <2>. QED  BY <1>7, <2>1, IsList
<1>9. Elements(Round(top, i)) = {UrlsOfHost(top, h)[i] : h \in long}
  <2>1. Elements(Round(top, i)) = {UrlsOfHost(top, with[j])[i] : j \in 1 .. Len(with)}
    BY <1>6, <1>8 DEF Elements
  <2>2. {with[j] : j \in 1 .. Len(with)} = long
    BY <1>4 DEF Elements
  <2>. QED  BY <2>1, <2>2
<1>. QED  BY <1>3, <1>8, <1>9 DEF H, pages, long, hosts

-----------------------------------------------------------------------------
\* The keys wanted begin with the leads, then have the host roots, if included, and the
\* first round.
Front(triage, hosts) ==
  IF ContextScope = "per_host"
  THEN (IF HostRoots THEN hosts ELSE << >>) \o Round(triage.top, 1)
  ELSE << >>

LEMMA SelectedFacts ==
  ASSUME StoreInvariant, NEW hosts \in Seq(Nat)
  PROVE  LET leads == Keys(Stored.must_include)
             front == leads \o Front(Stored, hosts)
             wanted == Selected(Stored, hosts)
         IN  /\ leads \in Seq(Nat) /\ wanted \in Seq(Nat)
             /\ Elements(leads) \subseteq Elements(wanted) /\ Elements(front) \subseteq Elements(wanted)
             /\ Ahead(wanted, Elements(leads)) /\ Ahead(wanted, Elements(front))
             /\ Elements(front) = Elements(leads) \cup Elements(Front(Stored, hosts))
<1>. DEFINE triage == Stored
            leads == Keys(triage.must_include)
            roots == IF HostRoots THEN hosts ELSE << >>
            rounds == [i \in 1 .. PerHost |-> Round(triage.top, i)]
            first == Front(triage, hosts)
            wanted == Selected(triage, hosts)
<1>1. leads \in Seq(Nat)
  BY TriageFacts, ItemFacts, KeysFacts
<1>2. roots \in Seq(Nat) /\ PerHost \in Nat \ {0} /\ ContextTopN \in Nat
  BY AnalysisAssumption
<1>3. \A i \in Nat \ {0} : Round(triage.top, i) \in Seq(Nat)
  BY TriageFacts, RoundFacts
<1>4. rounds \in Seq(Seq(Nat)) /\ Len(rounds) = PerHost /\ rounds[1] = Round(triage.top, 1)
  <2>. HIDE DEF triage
  <2>1. rounds \in [1 .. PerHost -> Seq(Nat)]
    BY <1>2, <1>3
  <2>. QED  BY <1>2, <2>1, IsList
<1>5. \E last \in Seq(Nat) : wanted = Unique(leads \o (first \o last)) /\ first \in Seq(Nat)
  <2>1. CASE ContextScope = "per_host"
    <3>1. Begins(Joined(rounds), rounds[1], Nat)
      <4>1. Len(rounds) > 0
        BY <1>2, <1>4
      <4>. HIDE DEF rounds
      <4>. QED  BY <1>4, <4>1, JoinedFacts
    <3>2. PICK last \in Seq(Nat) : Joined(rounds) = rounds[1] \o last
      BY <3>1 DEF Begins
    <3>3. (roots \o rounds[1]) \o last = roots \o (rounds[1] \o last)
      <4>1. rounds[1] \in Seq(Nat)
        BY <1>3, <1>4
      <4>2. roots \in Seq(Nat) /\ last \in Seq(Nat)
        BY <1>2
      <4>. DEFINE one == rounds[1]
      <4>3. one \in Seq(Nat)
        BY <4>1
      <4>. HIDE DEF roots, one
      <4>4. (roots \o one) \o last = roots \o (one \o last)
        BY <4>2, <4>3, ConcatAssociative
      <4>. QED  BY <4>4 DEF one
    <3>4. first = roots \o rounds[1]
      BY <1>4, <2>1 DEF Front
    <3>5. wanted = Unique(leads \o (roots \o Joined(rounds)))
      BY <2>1 DEF Selected
    <3>6. first \in Seq(Nat)
      <4>1. rounds[1] \in Seq(Nat)
        BY <1>3, <1>4
      <4>. HIDE DEF rounds, roots, first
      <4>. QED  BY <1>2, <3>4, <4>1, ConcatProperties
    <3>. HIDE DEF wanted, leads, roots, rounds, first
    <3>. QED  BY <3>2, <3>3, <3>4, <3>5, <3>6
  <2>2. CASE ContextScope # "per_host"
    <3>. DEFINE last == Cut(Keys(triage.top), ContextTopN)
    <3>1. first = << >> /\ wanted = Unique(leads \o last)
      BY <2>2 DEF Front, Selected
    <3>2. Keys(triage.top) \in Seq(Nat)
      BY TriageFacts, ItemFacts, KeysFacts
    <3>3. last \in Seq(Nat)
      <4>. HIDE DEF triage
      <4>. QED  BY <1>2, <3>2, CutFacts
    <3>. HIDE DEF last, first, wanted, leads
    <3>4. first \o last = last /\ first \in Seq(Nat)
      BY <3>1, <3>3, ConcatEmptySeq
    <3>. QED  BY <3>1, <3>3, <3>4
  <2>. QED  BY <2>1, <2>2
<1>. HIDE DEF wanted, leads, first, roots, rounds
<1>6. PICK last \in Seq(Nat) : wanted = Unique(leads \o (first \o last)) /\ first \in Seq(Nat)
  BY <1>5
<1>. DEFINE rest == first \o last
            front == leads \o first
<1>7. /\ rest \in Seq(Nat) /\ front \in Seq(Nat) /\ leads \o rest \in Seq(Nat)
      /\ leads \o rest = front \o last
      /\ Elements(rest) = Elements(first) \cup Elements(last)
      /\ Elements(front) = Elements(leads) \cup Elements(first)
      /\ Elements(leads \o rest) = Elements(leads) \cup Elements(rest)
  <2>1. leads \in Seq(Nat) /\ first \in Seq(Nat) /\ last \in Seq(Nat)
    BY <1>1, <1>6
  <2>2. rest \in Seq(Nat) /\ front \in Seq(Nat)
    BY <2>1, ConcatProperties
  <2>3. (leads \o first) \o last = leads \o (first \o last)
    BY <2>1, ConcatAssociative
  <2>4. Elements(first \o last) = Elements(first) \cup Elements(last)
    BY <2>1, ElementsOfConcat
  <2>5. Elements(leads \o first) = Elements(leads) \cup Elements(first)
    BY <2>1, ElementsOfConcat
  <2>. HIDE DEF rest, front
  <2>6. leads \o rest \in Seq(Nat) /\ Elements(leads \o rest) = Elements(leads) \cup Elements(rest)
    BY <2>1, <2>2, ConcatProperties, ElementsOfConcat
  <2>. QED  BY <2>2, <2>3, <2>4, <2>5, <2>6 DEF rest, front
<1>8. Ahead(leads, Elements(leads)) /\ Ahead(front, Elements(front))
  BY DEF Ahead, Elements
<1>. HIDE DEF rest, front
<1>9. wanted = Unique(leads \o rest) /\ wanted = Unique(front \o last)
  BY <1>6, <1>7 DEF rest
<1>10. Ahead(wanted, Elements(leads)) /\ Ahead(wanted, Elements(front))
  <2>1. Ahead(Unique(leads \o rest), Elements(leads))
    BY <1>1, <1>7, <1>8, UniqueAhead
  <2>2. Ahead(Unique(front \o last), Elements(front))
    BY <1>7, <1>8, UniqueAhead
  <2>. QED  BY <1>9, <2>1, <2>2
<1>11. wanted \in Seq(Nat) /\ Elements(wanted) = Elements(leads \o rest)
  <2>. DEFINE all == leads \o rest
  <2>1. all \in Seq(Nat) /\ wanted = Unique(all)
    BY <1>7, <1>9
  <2>. HIDE DEF all
  <2>2. wanted \in Seq(Nat) /\ Elements(wanted) = Elements(all)
    BY <2>1, UniqueFacts
  <2>. QED  BY <2>2 DEF all
<1>. QED  BY <1>1, <1>7, <1>10, <1>11 DEF wanted, leads, front, first

-----------------------------------------------------------------------------
\* The context that is given: the hosts among the nodes are those stored.
Roots == Keys(Filtered(Nodes, {n \in Elements(Nodes) : n.type = "host"}))
Wanted == Selected(Stored, Roots)

LEMMA RootsFacts ==
  ASSUME StoreInvariant
  PROVE  /\ Roots \in Seq(Nat) /\ Keys(Hosts) \in Seq(Nat)
         /\ Elements(Roots) = {Hosts[i].key : i \in 1 .. Len(Hosts)}
         /\ Elements(Keys(Hosts)) = Elements(Roots)
<1>. DEFINE E == Elements(Nodes)
            some == {n \in E : n.type = "host"}
            list == Filtered(Nodes, some)
<1>1. Nodes \in Seq(E) /\ \A n \in E : n.key \in Nat
  BY NodeFacts
<1>2. list \in Seq(E) /\ Elements(list) = some
  <2>1. some \subseteq E
    OBVIOUS
  <2>. HIDE DEF some
  <2>2. list \in Seq(E) /\ Elements(list) = E \cap some
    BY <1>1, FilteredType, FilteredFacts
  <2>. QED  BY <2>1, <2>2
<1>3. Roots = Keys(list)
  BY DEF Roots
<1>4. Keys(list) \in Seq(Nat) /\ Elements(Keys(list)) = {n.key : n \in some}
  <2>. HIDE DEF list, some, E
  <2>1. Keys(list) \in Seq(Nat) /\ Elements(Keys(list)) = {n.key : n \in Elements(list)}
    BY <1>1, <1>2, KeysFacts
  <2>. QED  BY <1>2, <2>1
<1>5. {n.key : n \in some} = {Hosts[i].key : i \in 1 .. Len(Hosts)}
  BY NodeFacts
<1>6. Hosts \in Seq(Elements(Hosts)) /\ \A h \in Elements(Hosts) : h.key \in Nat
  <2>1. Hosts \in Seq([key : 0 .. FirstKey - 1, tech : BOOLEAN])
    BY AnalysisAssumption
  <2>2. \A h \in Elements(Hosts) : h.key \in Nat
    BY HostKeys DEF Elements
  <2>. QED  BY <2>1, <2>2, ElementsType
<1>7. Keys(Hosts) \in Seq(Nat) /\ Elements(Keys(Hosts)) = {h.key : h \in Elements(Hosts)}
  BY <1>6, KeysFacts
<1>8. {h.key : h \in Elements(Hosts)} = {Hosts[i].key : i \in 1 .. Len(Hosts)}
  BY DEF Elements
<1>. HIDE DEF list, some
<1>. QED  BY <1>3, <1>4, <1>5, <1>7, <1>8

\* What is ahead among the keys wanted is left out by the context only if nothing else is in.
LEMMA GivenFacts ==
  ASSUME StoreInvariant, NEW A, Ahead(Wanted, A), A \subseteq Elements(Wanted)
  PROVE  LET nodes == Given(Stored).nodes
             chosen == Elements(Keys(nodes))
         IN  /\ Cardinality(Elements(nodes)) = Len(nodes) /\ Len(nodes) <= MaxNodes
             /\ A \cap Elements(Keys(Nodes)) \subseteq chosen \/ chosen \subseteq A
<1>. DEFINE E == Elements(Nodes)
<1>1. /\ Nodes \in Seq(E) /\ NodeEdges \in Seq(E \X E)
      /\ \A n \in E : n.key \in Nat
  BY NodeFacts
<1>2. Wanted \in Seq(Nat)
  BY RootsFacts, SelectedFacts DEF Wanted
<1>3. Given(Stored).nodes = Chosen(Nodes, NodeEdges, Wanted)
  BY DEF Given, Payload, Wanted, Roots
<1>4. A \cap Elements(Keys(Nodes)) \subseteq Elements(Wanted)
  OBVIOUS
<1>. DEFINE given == Chosen(Nodes, NodeEdges, Wanted)
<1>5. /\ Cardinality(Elements(given)) = Len(given) /\ Len(given) <= MaxNodes
      /\ A \cap Elements(Keys(Nodes)) \subseteq Elements(Keys(given)) \/ Elements(Keys(given)) \subseteq A
  BY <1>1, <1>2, <1>4, ChosenFacts
<1>. QED  BY <1>3, <1>5

\* Which keys are wanted does not depend on the order of the hosts.
LEMMA ElementsOfSelected ==
  ASSUME StoreInvariant, NEW hosts \in Seq(Nat)
  PROVE  LET leads == Elements(Keys(Stored.must_include))
             rounds == Elements(Joined([i \in 1 .. PerHost |-> Round(Stored.top, i)]))
         IN  Elements(Selected(Stored, hosts)) =
               leads \cup IF ContextScope = "per_host"
                          THEN (IF HostRoots THEN Elements(hosts) ELSE {}) \cup rounds
                          ELSE Elements(Cut(Keys(Stored.top), ContextTopN))
<1>. DEFINE leads == Keys(Stored.must_include)
            roots == IF HostRoots THEN hosts ELSE << >>
            lists == [i \in 1 .. PerHost |-> Round(Stored.top, i)]
            rounds == Joined(lists)
            last == Cut(Keys(Stored.top), ContextTopN)
<1>1. leads \in Seq(Nat) /\ Keys(Stored.top) \in Seq(Nat)
  BY TriageFacts, ItemFacts, KeysFacts
<1>2. PerHost \in Nat \ {0} /\ ContextTopN \in Nat
  BY AnalysisAssumption
<1>3. rounds \in Seq(Nat)
  <2>1. \A i \in 1 .. PerHost : Round(Stored.top, i) \in Seq(Nat)
    BY <1>2, TriageFacts, RoundFacts
  <2>2. lists \in [1 .. PerHost -> Seq(Nat)]
    BY <2>1
  <2>. HIDE DEF lists
  <2>3. lists \in Seq(Seq(Nat))
    BY <1>2, <2>2, IsList
  <2>. QED  BY <2>3, JoinedFacts
<1>4. roots \in Seq(Nat) /\ Elements(roots) = IF HostRoots THEN Elements(hosts) ELSE {}
  BY DEF Elements
<1>5. last \in Seq(Nat)
  BY <1>1, <1>2, CutFacts
<1>6. Selected(Stored, hosts) = Unique(leads \o IF ContextScope = "per_host" THEN roots \o rounds ELSE last)
  BY DEF Selected
<1>. HIDE DEF leads, roots, lists, rounds, last
<1>7. roots \o rounds \in Seq(Nat) /\ Elements(roots \o rounds) = Elements(roots) \cup Elements(rounds)
  BY <1>3, <1>4, ConcatProperties, ElementsOfConcat
<1>8. ASSUME NEW rest \in Seq(Nat)
      PROVE  Elements(Unique(leads \o rest)) = Elements(leads) \cup Elements(rest)
  <2>1. leads \o rest \in Seq(Nat) /\ Elements(leads \o rest) = Elements(leads) \cup Elements(rest)
    BY <1>1, ConcatProperties, ElementsOfConcat
  <2>. QED  BY <2>1, UniqueFacts
<1>9. CASE ContextScope = "per_host"
  <2>1. Elements(Unique(leads \o (roots \o rounds))) = Elements(leads) \cup (Elements(roots) \cup Elements(rounds))
    BY <1>7, <1>8
  <2>. QED  BY <1>4, <1>6, <1>9, <2>1 DEF leads, rounds, lists
<1>10. CASE ContextScope # "per_host"
  <2>1. Elements(Unique(leads \o last)) = Elements(leads) \cup Elements(last)
    BY <1>5, <1>8
  <2>. QED  BY <1>6, <1>10, <2>1 DEF leads, last
<1>. QED  BY <1>9, <1>10

\* The hosts that Selected is given are those of the store.
LEMMA SameWanted ==
  ASSUME StoreInvariant
  PROVE  Elements(Selected(Stored, Keys(Hosts))) = Elements(Wanted)
BY RootsFacts, ElementsOfSelected DEF Wanted

\* The two cases of GivenFacts: what is ahead are the leads, or all keys wanted.
LEMMA LeadFacts ==
  ASSUME StoreInvariant
  PROVE  LeadsComeFirst
<1>. DEFINE leads == Elements(Keys(Stored.must_include))
            chosen == Elements(Keys(Given(Stored).nodes))
            stored == Elements(Keys(Nodes))
            wanted == Elements(Wanted)
<1>1. leads \subseteq wanted /\ Ahead(Wanted, leads)
  BY RootsFacts, SelectedFacts DEF Wanted
<1>2. Ahead(Wanted, wanted)
  BY DEF Ahead, Elements
<1>. HIDE DEF leads, wanted
<1>3. /\ Cardinality(Elements(Given(Stored).nodes)) = Len(Given(Stored).nodes) /\ Len(Given(Stored).nodes) <= MaxNodes
      /\ leads \cap stored \subseteq chosen \/ chosen \subseteq leads
  BY <1>1, GivenFacts DEF wanted
<1>4. wanted \cap stored \subseteq chosen \/ chosen \subseteq wanted
  BY <1>2, GivenFacts DEF wanted
<1>. HIDE DEF chosen, stored
<1>. QED  BY <1>3, <1>4, SameWanted DEF LeadsComeFirst, leads, wanted, chosen, stored

\* As long as a stored lead is left out, the context has nothing but leads, and it never takes
\* the place of what was selected.
THEOREM LeadsAreFirst == Spec => []LeadsComeFirst
BY SpecKeepsStore, LeadFacts, PTL

\* What is ahead are the leads, the host roots and the first round: the second url of a host is
\* none of them, as no two urls of the ranking have the same key.
LEMMA ShareFacts ==
  ASSUME StoreInvariant
  PROVE  HostsShareContext
<1>. DEFINE top == Stored.top
            mine(h) == UrlsOfHost(top, h)
            pages == {t \in Elements(top) : t.kind = "url"}
            leads == Elements(Keys(Stored.must_include))
            chosen == Elements(Keys(Given(Stored).nodes))
            stored == Elements(Keys(Nodes))
            front == Elements(Keys(Stored.must_include) \o Front(Stored, Roots))
            round == Elements(Round(top, 1))
<1>1. top \in Seq(Items) /\ ~Repeats(top)
  BY TriageFacts
<1>2. SUFFICES ASSUME ContextScope = "per_host",
                      NEW g \in Elements(HostsOf(top)), NEW h \in Elements(HostsOf(top)),
                      NEW i \in 2 .. Len(mine(g)), mine(g)[i] \in chosen, mine(g)[i] \notin leads
               PROVE  mine(h)[1] \in chosen
  BY DEF HostsShareContext
<1>3. Ahead(Wanted, front) /\ front \subseteq Elements(Wanted) /\ front = leads \cup Elements(Front(Stored, Roots))
  BY RootsFacts, SelectedFacts DEF Wanted
<1>4. front \cap stored \subseteq chosen \/ chosen \subseteq front
  <2>. HIDE DEF front
  <2>. QED  BY <1>3, GivenFacts
<1>. HIDE DEF top, front, chosen, leads, stored
<1>5. ASSUME NEW f \in Elements(HostsOf(top))  PROVE Len(mine(f)) >= 1
  <2>1. {t \in Elements(top) : t.kind = "url" /\ t.host = f} # {}
    BY <1>1, <1>5, RoundFacts
  <2>. QED  BY <1>1, <2>1, HostUrls
<1>6. round = {mine(f)[1] : f \in Elements(HostsOf(top))}
  <2>1. round = {mine(f)[1] : f \in {e \in Elements(HostsOf(top)) : 1 <= Len(mine(e))}}
    BY <1>1, RoundFacts
  <2>2. \A f \in Elements(HostsOf(top)) : 1 <= Len(mine(f))
    <3>1. \A f : Len(mine(f)) \in Nat
      BY <1>1, HostUrls
    <3>. QED  BY <1>5, <3>1
  <2>. HIDE DEF mine
  <2>. QED  BY <2>1, <2>2
<1>7. /\ \A f : mine(f) \in Seq(Nat) /\ ~Repeats(mine(f))
      /\ \A f : \A k \in 1 .. Len(mine(f)) : \E t \in pages : t.host = f /\ t.key = mine(f)[k]
  BY <1>1, HostUrls
<1>8. \A t \in pages : t \in Items /\ t.key \in stored /\ t.key >= FirstKey /\ t.key \in Nat
  <2>1. \A t \in pages : t \in Items
    BY <1>1 DEF Elements
  <2>. QED  BY <2>1, ItemFacts, NodeFacts DEF stored
<1>. HIDE DEF pages
<1>9. Elements(Front(Stored, Roots)) \subseteq Elements(Roots) \cup round
  <2>. DEFINE roots == IF HostRoots THEN Roots ELSE << >>
  <2>1. Front(Stored, Roots) = roots \o Round(top, 1)
    BY <1>2 DEF Front, top
  <2>2. roots \in Seq(Nat) /\ Elements(roots) \subseteq Elements(Roots)
    <3>1. Roots \in Seq(Nat)
      BY RootsFacts
    <3>2. << >> \in Seq(Nat) /\ Elements(<< >>) = {}
      BY DEF Elements
    <3>. QED  BY <3>1, <3>2
  <2>3. Round(top, 1) \in Seq(Nat)
    BY <1>1, RoundFacts
  <2>. HIDE DEF roots
  <2>4. Elements(roots \o Round(top, 1)) = Elements(roots) \cup Elements(Round(top, 1))
    BY <2>2, <2>3, ElementsOfConcat
  <2>. QED  BY <2>1, <2>2, <2>4
<1>10. round \subseteq Elements(Front(Stored, Roots))
  <2>. DEFINE roots == IF HostRoots THEN Roots ELSE << >>
  <2>1. Front(Stored, Roots) = roots \o Round(top, 1)
    BY <1>2 DEF Front, top
  <2>2. roots \in Seq(Nat)
    BY RootsFacts
  <2>3. Round(top, 1) \in Seq(Nat)
    BY <1>1, RoundFacts
  <2>. HIDE DEF roots
  <2>4. Elements(roots \o Round(top, 1)) = Elements(roots) \cup Elements(Round(top, 1))
    BY <2>2, <2>3, ElementsOfConcat
  <2>. QED  BY <2>1, <2>4
<1>. HIDE DEF round
<1>11. i \in 1 .. Len(mine(g)) /\ i # 1 /\ 1 \in 1 .. Len(mine(g)) /\ 1 \in 1 .. Len(mine(h))
  <2>. HIDE DEF mine
  <2>1. Len(mine(g)) \in Nat /\ Len(mine(h)) \in Nat /\ Len(mine(h)) >= 1
    BY <1>5, <1>7
  <2>. QED  BY <2>1
<1>. HIDE DEF mine
<1>12. mine(h)[1] \in front \cap stored
  <2>1. mine(h)[1] \in round
    BY <1>6
  <2>2. PICK t \in pages : t.key = mine(h)[1]
    BY <1>7, <1>11
  <2>. QED  BY <1>3, <1>8, <1>10, <2>1, <2>2
<1>13. mine(g)[i] \notin front
  <2>1. PICK t \in pages : t.host = g /\ t.key = mine(g)[i]
    BY <1>7, <1>11
  <2>2. mine(g)[i] \notin Elements(Roots)
    <3>1. FirstKey \in Nat
      BY AnalysisAssumption
    <3>2. \A k \in Elements(Roots) : k \in 0 .. FirstKey - 1
      BY RootsFacts, HostKeys
    <3>3. mine(g)[i] \in Nat /\ mine(g)[i] >= FirstKey
      BY <1>8, <2>1
    <3>. QED  BY <3>1, <3>2, <3>3
  <2>3. SUFFICES ASSUME mine(g)[i] \in round  PROVE FALSE
    BY <1>2, <1>3, <1>9, <2>2
  <2>4. PICK f \in Elements(HostsOf(top)) : mine(g)[i] = mine(f)[1]
    BY <1>6, <2>3
  <2>5. 1 \in 1 .. Len(mine(f))
    BY <1>5, <1>7
  <2>6. PICK u \in pages : u.host = f /\ u.key = mine(f)[1]
    BY <1>7, <2>5
  <2>7. t = u
    BY <1>8, <2>1, <2>4, <2>6, ItemFacts
  <2>8. mine(g)[i] = mine(g)[1]
    BY <2>1, <2>4, <2>6, <2>7
  <2>9. ~Repeats(mine(g))
    BY <1>7
  <2>. QED  BY <1>11, <2>8, <2>9 DEF Repeats
<1>. QED  BY <1>2, <1>4, <1>12, <1>13

\* No host has a second url in the context, beyond leads, while another of the hosts in the
\* ranking has none.
THEOREM HostsShare == Spec => []HostsShareContext
BY SpecKeepsStore, ShareFacts, PTL

-----------------------------------------------------------------------------
\* The rows of the table expression, after each number of steps up to m.
IsWithin(f, edges, start, m) ==
  f = [k \in 0 .. m |-> IF k = 0 THEN {start} ELSE Nearby(edges, f[k - 1])]

LEMMA WithinExists ==
  ASSUME NEW edges, NEW start, NEW m \in Nat
  PROVE  \E f : IsWithin(f, edges, start, m)
<1>. DEFINE T == {n \in Nat : \E f : IsWithin(f, edges, start, n)}
<1>1. 0 \in T
  <2>1. IsWithin([k \in 0 .. 0 |-> {start}], edges, start, 0)
    BY DEF IsWithin
  <2>. QED  BY <2>1
<1>2. ASSUME NEW n \in Nat, n \in T  PROVE n + 1 \in T
  <2>1. PICK f : IsWithin(f, edges, start, n)
    BY <1>2
  <2>. DEFINE g == [k \in 0 .. n + 1 |-> IF k = n + 1 THEN Nearby(edges, f[n]) ELSE f[k]]
  <2>2. ASSUME NEW k \in 0 .. n + 1
        PROVE  g[k] = IF k = 0 THEN {start} ELSE Nearby(edges, g[k - 1])
    <3>1. CASE k = n + 1
      <4>1. g[k - 1] = f[n] /\ k # 0 /\ g[k] = Nearby(edges, f[n])
        BY <3>1
      <4>. QED  BY <4>1, <3>1
    <3>2. CASE k # n + 1
      <4>1. k \in 0 .. n /\ g[k] = f[k] /\ (k # 0 => g[k - 1] = f[k - 1])
        BY <3>2
      <4>2. f[k] = IF k = 0 THEN {start} ELSE Nearby(edges, f[k - 1])
        BY <4>1, <2>1 DEF IsWithin
      <4>. QED  BY <4>1, <4>2
    <3>. QED  BY <3>1, <3>2
  <2>3. IsWithin(g, edges, start, n + 1)
    BY <2>2 DEF IsWithin
  <2>. QED  BY <2>3
<1>. QED  BY <1>1, <1>2, SetInduction

LEMMA ReachableIsWithin ==
  ASSUME NEW edges, NEW start, NEW hops \in Nat
  PROVE  \E f : IsWithin(f, edges, start, hops) /\ Reachable(edges, start, hops) = f[hops]
<1>. DEFINE within[k \in 0 .. hops] == IF k = 0 THEN {start} ELSE Nearby(edges, within[k - 1])
<1>1. within = CHOOSE f : IsWithin(f, edges, start, hops)
  BY DEF IsWithin
<1>2. Reachable(edges, start, hops) = within[hops]
  BY DEF Reachable
<1>. HIDE DEF within
<1>3. \E f : IsWithin(f, edges, start, hops)
  BY WithinExists
<1>. QED  BY <1>1, <1>2, <1>3

\* The calls of the search for paths, at each depth up to m.
IsSearch(f, edges, src, dst, directed, m) ==
  f = [k \in 0 .. m |-> IF k = 0 THEN {[node |-> src, trail |-> << >>, visited |-> {src}]} ELSE Deeper(edges, directed, dst, f[k - 1])]

LEMMA SearchExists ==
  ASSUME NEW edges, NEW src, NEW dst, NEW directed, NEW m \in Nat
  PROVE  \E f : IsSearch(f, edges, src, dst, directed, m)
<1>. DEFINE T == {n \in Nat : \E f : IsSearch(f, edges, src, dst, directed, n)}
<1>1. 0 \in T
  <2>1. IsSearch([k \in 0 .. 0 |-> {[node |-> src, trail |-> << >>, visited |-> {src}]}], edges, src, dst, directed, 0)
    BY DEF IsSearch
  <2>. QED  BY <2>1
<1>2. ASSUME NEW n \in Nat, n \in T  PROVE n + 1 \in T
  <2>1. PICK f : IsSearch(f, edges, src, dst, directed, n)
    BY <1>2
  <2>. DEFINE g == [k \in 0 .. n + 1 |-> IF k = n + 1 THEN Deeper(edges, directed, dst, f[n]) ELSE f[k]]
  <2>2. ASSUME NEW k \in 0 .. n + 1
        PROVE  g[k] = IF k = 0 THEN {[node |-> src, trail |-> << >>, visited |-> {src}]} ELSE Deeper(edges, directed, dst, g[k - 1])
    <3>1. CASE k = n + 1
      <4>1. g[k - 1] = f[n] /\ k # 0 /\ g[k] = Deeper(edges, directed, dst, f[n])
        BY <3>1
      <4>. QED  BY <4>1, <3>1
    <3>2. CASE k # n + 1
      <4>1. k \in 0 .. n /\ g[k] = f[k] /\ (k # 0 => g[k - 1] = f[k - 1])
        BY <3>2
      <4>2. f[k] = IF k = 0 THEN {[node |-> src, trail |-> << >>, visited |-> {src}]} ELSE Deeper(edges, directed, dst, f[k - 1])
        BY <4>1, <2>1 DEF IsSearch
      <4>. QED  BY <4>1, <4>2
    <3>. QED  BY <3>1, <3>2
  <2>3. IsSearch(g, edges, src, dst, directed, n + 1)
    BY <2>2 DEF IsSearch
  <2>. QED  BY <2>3
<1>. QED  BY <1>1, <1>2, SetInduction

LEMMA PathsAreSearched ==
  ASSUME NEW edges, NEW src, NEW dst, NEW directed, NEW depth \in Nat
  PROVE  \E f : /\ IsSearch(f, edges, src, dst, directed, depth)
                /\ Paths(edges, src, dst, depth, directed) =
                     Arrived(UNION {f[k] : k \in 0 .. depth}, dst)
<1>. DEFINE calls[k \in 0 .. depth] ==
       IF k = 0 THEN {[node |-> src, trail |-> << >>, visited |-> {src}]}
       ELSE Deeper(edges, directed, dst, calls[k - 1])
<1>1. calls = CHOOSE f : IsSearch(f, edges, src, dst, directed, depth)
  BY DEF IsSearch
<1>2. Paths(edges, src, dst, depth, directed) =
        Arrived(UNION {calls[k] : k \in 0 .. depth}, dst)
  BY DEF Paths
<1>. HIDE DEF calls
<1>3. \E f : IsSearch(f, edges, src, dst, directed, depth)
  BY SearchExists
<1>. QED  BY <1>1, <1>2, <1>3

\* The calls of the search for chains, at each place up to m.
Starts(nodes) == {[node |-> n, trail |-> << >>] : n \in nodes}
IsExtension(f, edges, nodes, rels, m) ==
  f = [k \in 0 .. m |-> IF k = 0 THEN Starts(nodes) ELSE Extended(edges, rels[k], f[k - 1])]

LEMMA ExtensionExists ==
  ASSUME NEW edges, NEW nodes, NEW rels, NEW m \in Nat
  PROVE  \E f : IsExtension(f, edges, nodes, rels, m)
<1>. DEFINE T == {n \in Nat : \E f : IsExtension(f, edges, nodes, rels, n)}
<1>1. 0 \in T
  <2>1. IsExtension([k \in 0 .. 0 |-> Starts(nodes)], edges, nodes, rels, 0)
    BY DEF IsExtension
  <2>. QED  BY <2>1
<1>2. ASSUME NEW n \in Nat, n \in T  PROVE n + 1 \in T
  <2>1. PICK f : IsExtension(f, edges, nodes, rels, n)
    BY <1>2
  <2>. DEFINE g == [k \in 0 .. n + 1 |-> IF k = n + 1 THEN Extended(edges, rels[n + 1], f[n]) ELSE f[k]]
  <2>2. ASSUME NEW k \in 0 .. n + 1
        PROVE  g[k] = IF k = 0 THEN Starts(nodes) ELSE Extended(edges, rels[k], g[k - 1])
    <3>1. CASE k = n + 1
      <4>1. g[k - 1] = f[n] /\ k # 0 /\ g[k] = Extended(edges, rels[n + 1], f[n])
        BY <3>1
      <4>. QED  BY <4>1, <3>1
    <3>2. CASE k # n + 1
      <4>1. k \in 0 .. n /\ g[k] = f[k] /\ (k # 0 => g[k - 1] = f[k - 1])
        BY <3>2
      <4>2. f[k] = IF k = 0 THEN Starts(nodes) ELSE Extended(edges, rels[k], f[k - 1])
        BY <4>1, <2>1 DEF IsExtension
      <4>. QED  BY <4>1, <4>2
    <3>. QED  BY <3>1, <3>2
  <2>3. IsExtension(g, edges, nodes, rels, n + 1)
    BY <2>2 DEF IsExtension
  <2>. QED  BY <2>3
<1>. QED  BY <1>1, <1>2, SetInduction

LEMMA ChainsAreExtended ==
  ASSUME NEW edges, NEW nodes, NEW rels, Len(rels) \in Nat, rels # << >>
  PROVE  \E f : /\ IsExtension(f, edges, nodes, rels, Len(rels))
                /\ Chains(edges, nodes, rels) = {c.trail : c \in f[Len(rels)]}
<1>. DEFINE calls[k \in 0 .. Len(rels)] ==
       IF k = 0 THEN Starts(nodes)
       ELSE Extended(edges, rels[k], calls[k - 1])
<1>1. calls = CHOOSE f : IsExtension(f, edges, nodes, rels, Len(rels))
  BY DEF IsExtension
<1>2. Chains(edges, nodes, rels) = {c.trail : c \in calls[Len(rels)]}
  BY DEF Chains, Starts
<1>. HIDE DEF calls
<1>3. \E f : IsExtension(f, edges, nodes, rels, Len(rels))
  BY ExtensionExists
<1>. QED  BY <1>1, <1>2, <1>3

\* An edge that leads from n to m, backwards too if edges have no direction.
StepTo(e, n, m, directed) ==
  \/ e.src = n /\ e.dst = m
  \/ ~directed /\ e.dst = n /\ e.src = m

\* A walk of k edges, with the k + 1 nodes that it passes.
Passes(edges, all, directed, w, ns, k) ==
  /\ w \in [1 .. k -> edges] /\ ns \in [1 .. k + 1 -> all]
  /\ \A i \in 1 .. k : StepTo(w[i], ns[i], ns[i + 1], directed)

LEMMA ListDomain ==
  ASSUME NEW S, NEW s \in Seq(S), NEW n, Len(s) = n
  PROVE  s \in [1 .. n -> S]
OBVIOUS

\* The list v has one element more than the first k of w.
Grown(v, w, e, k) ==
  /\ \A i \in 1 .. k : v[i] = w[i]
  /\ v[k + 1] = e

LEMMA ListGrows ==
  ASSUME NEW S, NEW k \in Nat, NEW w \in [1 .. k -> S], NEW e \in S
  PROVE  /\ Append(w, e) \in [1 .. k + 1 -> S]
         /\ Grown(Append(w, e), w, e, k)
<1>1. w \in Seq(S) /\ Len(w) = k
  BY IsList
<1>. DEFINE v == Append(w, e)
<1>2. /\ v \in Seq(S) /\ Len(v) = k + 1
      /\ \A i \in 1 .. k : v[i] = w[i]
      /\ v[k + 1] = e
  BY <1>1, AppendProperties
<1>. HIDE DEF v
<1>3. v \in [1 .. k + 1 -> S]
  BY <1>2, ListDomain
<1>. QED  BY <1>2, <1>3 DEF v, Grown

LEMMA SameList ==
  ASSUME NEW S, NEW n \in Nat, NEW v \in [1 .. n -> S], NEW w \in [1 .. n -> S],
         \A i \in 1 .. n : v[i] = w[i]
  PROVE  v = w
OBVIOUS

LEMMA ListShrinks ==
  ASSUME NEW S, NEW k \in Nat, NEW w \in [1 .. k + 1 -> S]
  PROVE  \E v \in [1 .. k -> S] : w = Append(v, w[k + 1]) /\ Grown(w, v, w[k + 1], k)
<1>. DEFINE v == [i \in 1 .. k |-> w[i]]
<1>1. v \in [1 .. k -> S] /\ w[k + 1] \in S /\ \A i \in 1 .. k : v[i] = w[i]
  OBVIOUS
<1>. HIDE DEF v
<1>0. PICK u : u = Append(v, w[k + 1])
  OBVIOUS
<1>2. u \in [1 .. k + 1 -> S] /\ Grown(u, v, w[k + 1], k)
  BY <1>0, <1>1, ListGrows
<1>3. \A i \in 1 .. k + 1 : u[i] = w[i]
  BY <1>1, <1>2 DEF Grown
<1>4. u = w
  BY <1>2, <1>3
<1>. QED  BY <1>0, <1>1, <1>2, <1>4

LEMMA WalkGrows ==
  ASSUME NEW edges, NEW all, NEW directed, NEW k \in Nat, NEW w, NEW ns, Passes(edges, all, directed, w, ns, k),
         NEW e \in edges, NEW m \in all, StepTo(e, ns[k + 1], m, directed),
         NEW v, v = Append(w, e), NEW ms, ms = Append(ns, m)
  PROVE  Passes(edges, all, directed, v, ms, k + 1) /\ Grown(ms, ns, m, k + 1)
<1>. DEFINE n == k + 1
<1>1. w \in [1 .. k -> edges] /\ ns \in [1 .. n -> all] /\ n \in Nat
  BY DEF Passes
<1>2. v \in [1 .. k + 1 -> edges] /\ Grown(v, w, e, k)
  BY <1>1, ListGrows
<1>3. ms \in [1 .. n + 1 -> all] /\ Grown(ms, ns, m, n)
  <2>. HIDE DEF n
  <2>. QED  BY <1>1, ListGrows
<1>4. \A i \in 1 .. k : StepTo(w[i], ns[i], ns[i + 1], directed)
  BY DEF Passes
<1>5. ASSUME NEW i \in 1 .. k + 1  PROVE StepTo(v[i], ms[i], ms[i + 1], directed)
  <2>1. CASE i = k + 1
    <3>1. v[i] = e /\ ms[i] = ns[k + 1] /\ ms[i + 1] = m
      BY <1>2, <1>3, <2>1 DEF Grown
    <3>. QED  BY <3>1
  <2>2. CASE i # k + 1
    <3>1. i \in 1 .. k /\ i \in 1 .. n /\ i + 1 \in 1 .. n
      BY <2>2
    <3>2. v[i] = w[i] /\ ms[i] = ns[i] /\ ms[i + 1] = ns[i + 1]
      BY <1>2, <1>3, <3>1 DEF Grown
    <3>. QED  BY <1>4, <3>1, <3>2
  <2>. QED  BY <2>1, <2>2
<1>7. Passes(edges, all, directed, v, ms, k + 1)
  BY <1>2, <1>3, <1>5 DEF Passes
<1>. QED  BY <1>3, <1>7

LEMMA WalkShrinks ==
  ASSUME NEW edges, NEW all, NEW directed, NEW k \in Nat, NEW w, NEW ns, Passes(edges, all, directed, w, ns, k + 1)
  PROVE  /\ w[k + 1] \in edges /\ ns[k + 1] \in all /\ ns[k + 2] \in all
         /\ StepTo(w[k + 1], ns[k + 1], ns[k + 2], directed)
         /\ \E v, ms : /\ Passes(edges, all, directed, v, ms, k)
                       /\ w = Append(v, w[k + 1]) /\ ns = Append(ms, ns[k + 2])
                       /\ Grown(ns, ms, ns[k + 2], k + 1)
<1>. DEFINE n == k + 1
<1>0. n \in Nat /\ n + 1 = k + 2
  OBVIOUS
<1>1. w \in [1 .. n -> edges] /\ ns \in [1 .. n + 1 -> all]
  BY DEF Passes
<1>2. PICK v \in [1 .. k -> edges] : w = Append(v, w[k + 1]) /\ Grown(w, v, w[k + 1], k)
  BY <1>1, ListShrinks
<1>3. PICK ms \in [1 .. n -> all] : ns = Append(ms, ns[n + 1]) /\ Grown(ns, ms, ns[n + 1], n)
  <2>. HIDE DEF n
  <2>. QED  BY <1>0, <1>1, ListShrinks
<1>4. \A i \in 1 .. n : StepTo(w[i], ns[i], ns[i + 1], directed)
  BY DEF Passes
<1>5. ASSUME NEW i \in 1 .. k  PROVE StepTo(v[i], ms[i], ms[i + 1], directed)
  <2>1. i \in 1 .. n /\ i + 1 \in 1 .. n
    OBVIOUS
  <2>2. v[i] = w[i] /\ ms[i] = ns[i] /\ ms[i + 1] = ns[i + 1]
    BY <1>2, <1>3, <2>1 DEF Grown
  <2>. QED  BY <1>4, <2>1, <2>2
<1>6. Passes(edges, all, directed, v, ms, k)
  BY <1>5 DEF Passes
<1>7. /\ w[k + 1] \in edges /\ ns[k + 1] \in all /\ ns[k + 2] \in all
      /\ StepTo(w[k + 1], ns[k + 1], ns[k + 2], directed)
  <2>1. n \in 1 .. n /\ n \in 1 .. n + 1 /\ n + 1 \in 1 .. n + 1
    OBVIOUS
  <2>. QED  BY <1>0, <1>1, <1>4, <2>1
<1>. QED  BY <1>0, <1>2, <1>3, <1>6, <1>7

\* In a walk of the references' terms.
LEMMA PassesFacts ==
  ASSUME NEW edges, NEW all, NEW directed, NEW k \in Nat, NEW w \in [1 .. k -> edges], NEW ns \in [1 .. k + 1 -> all]
  PROVE  /\ Passes(edges, all, directed, w, ns, k) => IsWalk(w, ns, directed)
         /\ IsWalk(w, ns, directed) => Passes(edges, all, directed, w, ns, k)
<1>1. Len(w) = k /\ Len(ns) = k + 1
  OBVIOUS
<1>2. IsWalk(w, ns, directed) <=> \A i \in 1 .. k : StepTo(w[i], ns[i], ns[i + 1], directed)
  BY <1>1 DEF IsWalk, StepTo
<1>. QED  BY <1>1, <1>2 DEF Passes
LEMMA ListLength ==
  ASSUME NEW S, NEW k \in Nat, NEW w \in [1 .. k -> S]
  PROVE  Len(w) = k
OBVIOUS

\* The nodes that an undirected walk of k edges leads to.
LeadsTo(edges, all, start, n, k) ==
  \E w, ns : Passes(edges, all, FALSE, w, ns, k) /\ ns[1] = start /\ ns[k + 1] = n

LEMMA LeadsOn ==
  ASSUME NEW edges, NEW all, NEW start, NEW k \in Nat, NEW n \in all
  PROVE  LeadsTo(edges, all, start, n, k + 1) <=>
           \E m \in all : LeadsTo(edges, all, start, m, k) /\ \E e \in edges : StepTo(e, m, n, FALSE)
<1>1. ASSUME LeadsTo(edges, all, start, n, k + 1)
      PROVE  \E m \in all : LeadsTo(edges, all, start, m, k) /\ \E e \in edges : StepTo(e, m, n, FALSE)
  <2>0. (k + 1) + 1 = k + 2
    OBVIOUS
  <2>1. PICK w, ns : Passes(edges, all, FALSE, w, ns, k + 1) /\ ns[1] = start /\ ns[k + 2] = n
    BY <1>1, <2>0 DEF LeadsTo
  <2>2. /\ w[k + 1] \in edges /\ ns[k + 1] \in all
        /\ StepTo(w[k + 1], ns[k + 1], ns[k + 2], FALSE)
    BY <2>1, WalkShrinks
  <2>3. PICK v, ms : Passes(edges, all, FALSE, v, ms, k) /\ Grown(ns, ms, ns[k + 2], k + 1)
    BY <2>1, WalkShrinks
  <2>4. LeadsTo(edges, all, start, ns[k + 1], k)
    <3>1. ms[1] = ns[1] /\ ms[k + 1] = ns[k + 1]
      BY <2>3 DEF Grown
    <3>. QED  BY <2>1, <2>3, <3>1 DEF LeadsTo
  <2>. QED  BY <2>1, <2>2, <2>4
<1>2. ASSUME NEW m \in all, LeadsTo(edges, all, start, m, k), NEW e \in edges, StepTo(e, m, n, FALSE)
      PROVE  LeadsTo(edges, all, start, n, k + 1)
  <2>1. PICK w, ns : Passes(edges, all, FALSE, w, ns, k) /\ ns[1] = start /\ ns[k + 1] = m
    BY <1>2 DEF LeadsTo
  <2>2. PICK v, ms : v = Append(w, e) /\ ms = Append(ns, n)
    OBVIOUS
  <2>3. Passes(edges, all, FALSE, v, ms, k + 1) /\ Grown(ms, ns, n, k + 1)
    BY <1>2, <2>1, <2>2, WalkGrows
  <2>4. ms[1] = start /\ ms[(k + 1) + 1] = n
    BY <2>1, <2>3 DEF Grown
  <2>. QED  BY <2>3, <2>4 DEF LeadsTo
<1>. QED  BY <1>1, <1>2

\* The nodes that an undirected walk of at most k edges leads to.
Led(edges, all, start, k) == {n \in all : \E j \in 0 .. k : LeadsTo(edges, all, start, n, j)}

LEMMA WithinIsLed ==
  ASSUME NEW edges, NEW all, NEW start \in all, NEW hops \in Nat
  PROVE  NodesWithin(edges, all, start, hops) = Led(edges, all, start, hops)
<1>1. ASSUME NEW n \in all, n \in NodesWithin(edges, all, start, hops)
      PROVE  \E k \in 0 .. hops : LeadsTo(edges, all, start, n, k)
  <2>1. PICK w \in EdgeSequences(edges, hops) :
          \E ns \in [1 .. Len(w) + 1 -> all] : IsWalk(w, ns, FALSE) /\ ns[1] = start /\ ns[Len(ns)] = n
    BY <1>1 DEF NodesWithin
  <2>2. PICK k \in 0 .. hops : w \in [1 .. k -> edges]
    BY DEF EdgeSequences
  <2>3. Len(w) = k
    BY <2>2, ListLength
  <2>4. PICK ns \in [1 .. k + 1 -> all] : IsWalk(w, ns, FALSE) /\ ns[1] = start /\ ns[Len(ns)] = n
    BY <2>1, <2>3
  <2>5. k + 1 \in Nat /\ Len(ns) = k + 1
    BY <2>2, <2>4, ListLength
  <2>6. Passes(edges, all, FALSE, w, ns, k)
    BY <2>2, <2>3, <2>4, <2>5 DEF Passes, IsWalk, StepTo
  <2>. QED  BY <2>2, <2>4, <2>5, <2>6 DEF LeadsTo
<1>2. ASSUME NEW n \in all, NEW k \in 0 .. hops, LeadsTo(edges, all, start, n, k)
      PROVE  n \in NodesWithin(edges, all, start, hops)
  <2>1. PICK w, ns : Passes(edges, all, FALSE, w, ns, k) /\ ns[1] = start /\ ns[k + 1] = n
    BY <1>2 DEF LeadsTo
  <2>2. w \in [1 .. k -> edges] /\ ns \in [1 .. k + 1 -> all]
    BY <2>1 DEF Passes
  <2>5. Len(w) = k /\ k + 1 \in Nat
    BY <2>2, ListLength
  <2>6. Len(ns) = k + 1
    BY <2>2, <2>5, ListLength
  <2>3. IsWalk(w, ns, FALSE)
    BY <2>1, <2>5, <2>6 DEF Passes, IsWalk, StepTo
  <2>4. w \in EdgeSequences(edges, hops)
    BY <2>2 DEF EdgeSequences
  <2>. QED  BY <2>1, <2>2, <2>3, <2>4, <2>5, <2>6 DEF NodesWithin
<1>3. NodesWithin(edges, all, start, hops) \subseteq all
  BY DEF NodesWithin
<1>. QED  BY <1>1, <1>2, <1>3 DEF Led

\* The rows that a step adds are those one edge away.
LEMMA NearbyFacts ==
  ASSUME NEW edges, NEW rows
  PROVE  /\ rows \subseteq Nearby(edges, rows)
         /\ \A n : \A e \in edges, m \in rows : StepTo(e, m, n, FALSE) => n \in Nearby(edges, rows)
         /\ \A n \in Nearby(edges, rows) : n \in rows \/ \E m \in rows : \E e \in edges : StepTo(e, m, n, FALSE)
<1>. SUFFICES ASSUME NEW n
     PROVE  n \in Nearby(edges, rows) <=> (n \in rows \/ \E m \in rows : \E e \in edges : StepTo(e, m, n, FALSE))
  OBVIOUS
<1>1. n \in Nearby(edges, rows) <=>
        \/ n \in rows
        \/ \E m \in rows : \E e \in edges : m \in {e.src, e.dst} /\ n = (IF e.src = m THEN e.dst ELSE e.src)
  BY DEF Nearby
<1>2. ASSUME NEW m, NEW e
      PROVE  StepTo(e, m, n, FALSE) <=> m \in {e.src, e.dst} /\ n = (IF e.src = m THEN e.dst ELSE e.src)
  <2>1. CASE e.src = m
    BY <2>1 DEF StepTo
  <2>2. CASE e.src # m
    BY <2>2 DEF StepTo
  <2>. QED  BY <2>1, <2>2
<1>. QED  BY <1>1, <1>2

\* For every graph, node and number of hops, the table expression finds the nodes that an
\* undirected walk of so many edges at most leads to.
THEOREM NeighbourhoodsAreExact ==
  ASSUME NEW edges, NEW all, \A e \in edges : e.src \in all /\ e.dst \in all,
         NEW start \in all, NEW hops \in Nat
  PROVE  Reachable(edges, start, hops) = NodesWithin(edges, all, start, hops)
<1>. DEFINE led(k) == Led(edges, all, start, k)
<1>1. PICK f : IsWithin(f, edges, start, hops) /\ Reachable(edges, start, hops) = f[hops]
  BY ReachableIsWithin
<1>2. \A k \in 0 .. hops : f[k] = IF k = 0 THEN {start} ELSE Nearby(edges, f[k - 1])
  BY <1>1 DEF IsWithin
<1>. DEFINE T == {k \in Nat : k <= hops => f[k] = led(k)}
<1>3. 0 \in T
  <2>1. ASSUME NEW n \in all  PROVE LeadsTo(edges, all, start, n, 0) <=> n = start
    <3>1. ASSUME n = start  PROVE LeadsTo(edges, all, start, n, 0)
      <4>. DEFINE ns == [i \in 1 .. 1 |-> start]
                  w == [i \in 1 .. 0 |-> CHOOSE e \in edges : TRUE]
      <4>1. w \in [1 .. 0 -> edges] /\ ns \in [1 .. 0 + 1 -> all] /\ ns[1] = start
        OBVIOUS
      <4>. HIDE DEF ns, w
      <4>2. Passes(edges, all, FALSE, w, ns, 0)
        BY <4>1 DEF Passes
      <4>3. ns[0 + 1] = n
        BY <3>1, <4>1
      <4>. QED  BY <4>1, <4>2, <4>3 DEF LeadsTo
    <3>2. ASSUME LeadsTo(edges, all, start, n, 0)  PROVE n = start
      <4>1. PICK w, ns : Passes(edges, all, FALSE, w, ns, 0) /\ ns[1] = start /\ ns[0 + 1] = n
        BY <3>2 DEF LeadsTo
      <4>. QED  BY <4>1
    <3>. QED  BY <3>1, <3>2
  <2>2. led(0) = {start}
    BY <2>1 DEF Led
  <2>3. f[0] = {start}
    BY <1>2
  <2>. QED  BY <2>2, <2>3
<1>4. ASSUME NEW k \in Nat, k \in T  PROVE k + 1 \in T
  <2>. SUFFICES ASSUME k + 1 <= hops  PROVE f[k + 1] = led(k + 1)
    OBVIOUS
  <2>1. f[k] = led(k) /\ f[k + 1] = Nearby(edges, f[k])
    BY <1>2, <1>4
  <2>. HIDE DEF T
  <2>2. ASSUME NEW n, n \in f[k + 1]  PROVE n \in led(k + 1)
    <3>1. CASE n \in f[k]
      BY <2>1, <3>1 DEF Led
    <3>2. CASE \E m \in f[k] : \E e \in edges : StepTo(e, m, n, FALSE)
      <4>1. PICK m \in f[k], e \in edges : StepTo(e, m, n, FALSE)
        BY <3>2
      <4>2. n \in all
        BY <4>1 DEF StepTo
      <4>3. PICK j \in 0 .. k : m \in all /\ LeadsTo(edges, all, start, m, j)
        BY <2>1 DEF Led
      <4>5. j \in Nat /\ j + 1 \in 0 .. k + 1
        OBVIOUS
      <4>4. LeadsTo(edges, all, start, n, j + 1)
        BY <4>1, <4>2, <4>3, <4>5, LeadsOn
      <4>. QED  BY <4>2, <4>4, <4>5 DEF Led
    <3>. QED  BY <2>1, <2>2, <3>1, <3>2, NearbyFacts
  <2>4. f[k] \subseteq f[k + 1]
    BY <2>1, NearbyFacts
  <2>5. ASSUME NEW e \in edges, NEW m \in f[k], NEW n, StepTo(e, m, n, FALSE)
        PROVE  n \in f[k + 1]
    <3>1. n \in Nearby(edges, f[k])
      BY <2>5, NearbyFacts
    <3>. QED  BY <2>1, <3>1
  <2>3. ASSUME NEW n \in all, NEW j \in 0 .. k + 1, LeadsTo(edges, all, start, n, j)  PROVE n \in f[k + 1]
    <3>1. CASE j <= k
      <4>1. n \in f[k]
        BY <2>1, <2>3, <3>1 DEF Led
      <4>. QED  BY <2>4, <4>1
    <3>2. CASE j = k + 1
      <4>1. PICK m \in all : LeadsTo(edges, all, start, m, k) /\ \E e \in edges : StepTo(e, m, n, FALSE)
        BY <2>3, <3>2, LeadsOn
      <4>2. m \in f[k]
        BY <2>1, <4>1 DEF Led
      <4>. QED  BY <2>5, <4>1, <4>2
    <3>. QED  BY <3>1, <3>2
  <2>. QED  BY <2>2, <2>3 DEF Led
<1>5. f[hops] = led(hops)
  <2>1. hops \in T
    <3>. HIDE DEF T
    <3>. QED  BY <1>3, <1>4, SetInduction
  <2>. QED  BY <2>1
<1>6. NodesWithin(edges, all, start, hops) = led(hops)
  BY WithinIsLed
<1>. HIDE DEF led
<1>. QED  BY <1>1, <1>5, <1>6

\* A call of the search for chains at depth k: a chain of k edges, and the node it ends at.
Along(nodes, rels, w, n, k) ==
  /\ \A i \in 1 .. k : w[i].rel = rels[i]
  /\ \A i \in 1 .. k - 1 : w[i + 1].src = w[i].dst
  /\ k = 0 => n \in nodes
  /\ k # 0 => w[1].src \in nodes /\ n = w[k].dst

IsChain(edges, nodes, rels, c, k) ==
  \E w, n : w \in [1 .. k -> edges] /\ c = [node |-> n, trail |-> w] /\ Along(nodes, rels, w, n, k)

LEMMA AlongGrows ==
  ASSUME NEW edges, NEW nodes, NEW rels, NEW k \in Nat, NEW w \in [1 .. k -> edges], NEW n,
         Along(nodes, rels, w, n, k),
         NEW e \in edges, e.src = n, e.rel = rels[k + 1], NEW v, Grown(v, w, e, k)
  PROVE  Along(nodes, rels, v, e.dst, k + 1)
<1>1. ASSUME NEW i \in 1 .. k + 1  PROVE v[i].rel = rels[i]
  <2>1. CASE i = k + 1
    BY <2>1 DEF Grown
  <2>2. CASE i # k + 1
    <3>1. i \in 1 .. k
      BY <2>2
    <3>. QED  BY <3>1 DEF Grown, Along
  <2>. QED  BY <2>1, <2>2
<1>2. ASSUME NEW i \in 1 .. k  PROVE v[i + 1].src = v[i].dst
  <2>0. v[i] = w[i]
    BY DEF Grown
  <2>1. CASE i = k
    <3>1. n = w[k].dst /\ v[i + 1] = e
      BY <2>1 DEF Grown, Along
    <3>. QED  BY <2>0, <2>1, <3>1
  <2>2. CASE i # k
    <3>1. i \in 1 .. k - 1 /\ i + 1 \in 1 .. k
      BY <2>2
    <3>. QED  BY <2>0, <3>1 DEF Grown, Along
  <2>. QED  BY <2>1, <2>2
<1>3. v[1].src \in nodes
  <2>1. CASE k = 0
    <3>1. v[1] = e /\ n \in nodes
      BY <2>1 DEF Grown, Along
    <3>. QED  BY <3>1
  <2>2. CASE k # 0
    <3>1. v[1] = w[1] /\ w[1].src \in nodes
      BY <2>2 DEF Grown, Along
    <3>. QED  BY <3>1
  <2>. QED  BY <2>1, <2>2
<1>4. v[k + 1] = e /\ k + 1 # 0 /\ (k + 1) - 1 = k
  BY DEF Grown
<1>. QED  BY <1>1, <1>2, <1>3, <1>4 DEF Along

LEMMA AlongShrinks ==
  ASSUME NEW edges, NEW nodes, NEW rels, NEW k \in Nat, NEW w \in [1 .. k + 1 -> edges], NEW n,
         Along(nodes, rels, w, n, k + 1), NEW v \in [1 .. k -> edges], Grown(w, v, w[k + 1], k)
  PROVE  /\ Along(nodes, rels, v, w[k + 1].src, k)
         /\ w[k + 1] \in edges /\ w[k + 1].rel = rels[k + 1] /\ n = w[k + 1].dst
<1>0. k + 1 # 0 /\ (k + 1) - 1 = k /\ k + 1 \in 1 .. k + 1
  OBVIOUS
<1>1. ASSUME NEW i \in 1 .. k  PROVE v[i].rel = rels[i] /\ w[i + 1].src = w[i].dst /\ w[i] = v[i]
  <2>1. i \in 1 .. k + 1 /\ w[i] = v[i]
    BY DEF Grown
  <2>2. w[i].rel = rels[i] /\ w[i + 1].src = w[i].dst
    BY <1>0, <2>1 DEF Along
  <2>. QED  BY <2>1, <2>2
<1>2. ASSUME NEW i \in 1 .. k - 1  PROVE v[i + 1].src = v[i].dst
  <2>1. i \in 1 .. k /\ i + 1 \in 1 .. k
    OBVIOUS
  <2>. QED  BY <1>1, <2>1
<1>3. k = 0 => w[k + 1].src \in nodes
  BY <1>0 DEF Along
<1>4. ASSUME k # 0  PROVE v[1].src \in nodes /\ w[k + 1].src = v[k].dst
  <2>1. 1 \in 1 .. k /\ k \in 1 .. k
    BY <1>4
  <2>2. w[1].src \in nodes
    BY <1>0 DEF Along
  <2>. QED  BY <1>1, <2>1, <2>2
<1>5. w[k + 1] \in edges /\ w[k + 1].rel = rels[k + 1] /\ n = w[k + 1].dst
  BY <1>0 DEF Along
<1>. QED  BY <1>1, <1>2, <1>3, <1>4, <1>5 DEF Along

\* The chain c is the chain b and an edge of the relation.
Extends(edges, rel, b, c) ==
  \E e \in edges : e.src = b.node /\ e.rel = rel /\ c = [node |-> e.dst, trail |-> Append(b.trail, e)]

LEMMA ExtendedFacts ==
  ASSUME NEW edges, NEW rel, NEW calls, NEW c
  PROVE  c \in Extended(edges, rel, calls) <=> \E b \in calls : Extends(edges, rel, b, c)
BY DEF Extended, Extends

LEMMA EmptyList ==
  ASSUME NEW S
  PROVE  << >> \in [1 .. 0 -> S] /\ \A w \in [1 .. 0 -> S] : w = << >>
OBVIOUS

LEMMA ChainGrows ==
  ASSUME NEW edges, NEW nodes, NEW rels, NEW k \in Nat, NEW b, IsChain(edges, nodes, rels, b, k),
         NEW c, Extends(edges, rels[k + 1], b, c)
  PROVE  IsChain(edges, nodes, rels, c, k + 1)
<1>0. PICK e \in edges : /\ e.src = b.node /\ e.rel = rels[k + 1]
                         /\ c = [node |-> e.dst, trail |-> Append(b.trail, e)]
  BY DEF Extends
<1>1. PICK w, n : w \in [1 .. k -> edges] /\ b = [node |-> n, trail |-> w] /\ Along(nodes, rels, w, n, k)
  BY DEF IsChain
<1>2. b.node = n /\ b.trail = w
  BY <1>1
<1>3. PICK v : v = Append(w, e)
  OBVIOUS
<1>4. v \in [1 .. k + 1 -> edges] /\ Grown(v, w, e, k)
  BY <1>0, <1>1, <1>3, ListGrows
<1>5. Along(nodes, rels, v, e.dst, k + 1)
  BY <1>0, <1>1, <1>2, <1>4, AlongGrows
<1>. QED  BY <1>0, <1>2, <1>3, <1>4, <1>5 DEF IsChain

LEMMA ChainShrinks ==
  ASSUME NEW edges, NEW nodes, NEW rels, NEW k \in Nat, NEW c, IsChain(edges, nodes, rels, c, k + 1)
  PROVE  \E b : IsChain(edges, nodes, rels, b, k) /\ Extends(edges, rels[k + 1], b, c)
<1>1. PICK w, n : w \in [1 .. k + 1 -> edges] /\ c = [node |-> n, trail |-> w] /\ Along(nodes, rels, w, n, k + 1)
  BY DEF IsChain
<1>2. PICK v \in [1 .. k -> edges] : w = Append(v, w[k + 1]) /\ Grown(w, v, w[k + 1], k)
  BY <1>1, ListShrinks
<1>7. Along(nodes, rels, v, w[k + 1].src, k)
  BY <1>1, <1>2, AlongShrinks
<1>3. w[k + 1] \in edges /\ w[k + 1].rel = rels[k + 1] /\ n = w[k + 1].dst
  BY <1>1, <1>2, AlongShrinks
<1>. DEFINE b == [node |-> w[k + 1].src, trail |-> v]
<1>4. IsChain(edges, nodes, rels, b, k)
  BY <1>7 DEF IsChain
<1>5. b.node = w[k + 1].src /\ b.trail = v
  OBVIOUS
<1>. HIDE DEF b
<1>6. c = [node |-> w[k + 1].dst, trail |-> Append(b.trail, w[k + 1])]
  BY <1>1, <1>2, <1>3, <1>5
<1>. QED  BY <1>3, <1>4, <1>5, <1>6 DEF Extends

\* For every graph, set of nodes and list of relations, the search for chains finds the walks
\* that follow the relations, and no others.
THEOREM ChainsAreExact ==
  ASSUME NEW edges, NEW nodes, NEW S, NEW rels \in Seq(S), rels # << >>
  PROVE  Chains(edges, nodes, rels) = WalksAlong(edges, nodes, rels)
<1>. DEFINE m == Len(rels)
<1>0. m \in Nat \ {0}
  OBVIOUS
<1>1. PICK f : IsExtension(f, edges, nodes, rels, m) /\ Chains(edges, nodes, rels) = {c.trail : c \in f[m]}
  BY ChainsAreExtended
<1>2. /\ f[0] = Starts(nodes)
      /\ \A k \in 1 .. m : f[k] = Extended(edges, rels[k], f[k - 1])
  BY <1>0, <1>1 DEF IsExtension
<1>. HIDE DEF m
<1>. DEFINE Good(k) == \A c : c \in f[k] <=> IsChain(edges, nodes, rels, c, k)
            T == {k \in Nat : k <= m => Good(k)}
<1>3. 0 \in T
  <2>1. f[0] = {[node |-> n, trail |-> << >>] : n \in nodes}
    BY <1>2 DEF Starts
  <2>2. ASSUME NEW c, c \in f[0]  PROVE IsChain(edges, nodes, rels, c, 0)
    <3>1. PICK n \in nodes : c = [node |-> n, trail |-> << >>]
      BY <2>1, <2>2
    <3>2. << >> \in [1 .. 0 -> edges] /\ Along(nodes, rels, << >>, n, 0)
      BY EmptyList DEF Along
    <3>. QED  BY <3>1, <3>2 DEF IsChain
  <2>3. ASSUME NEW c, IsChain(edges, nodes, rels, c, 0)  PROVE c \in f[0]
    <3>1. PICK w, n : w \in [1 .. 0 -> edges] /\ c = [node |-> n, trail |-> w] /\ Along(nodes, rels, w, n, 0)
      BY <2>3 DEF IsChain
    <3>2. w = << >> /\ n \in nodes
      BY <3>1, EmptyList DEF Along
    <3>. QED  BY <2>1, <3>1, <3>2
  <2>4. Good(0)
    BY <2>2, <2>3
  <2>. QED  BY <2>4
<1>4. ASSUME NEW k \in Nat, k \in T  PROVE k + 1 \in T
  <2>. SUFFICES ASSUME k + 1 <= m  PROVE Good(k + 1)
    OBVIOUS
  <2>1. f[k + 1] = Extended(edges, rels[k + 1], f[k])
    <3>1. k + 1 \in 1 .. m /\ (k + 1) - 1 = k
      BY <1>0
    <3>. QED  BY <1>2, <3>1
  <2>2. Good(k)
    BY <1>0, <1>4
  <2>3. ASSUME NEW c, c \in f[k + 1]  PROVE IsChain(edges, nodes, rels, c, k + 1)
    <3>1. PICK b \in f[k] : Extends(edges, rels[k + 1], b, c)
      BY <2>1, <2>3, ExtendedFacts
    <3>. QED  BY <2>2, <3>1, ChainGrows
  <2>4. ASSUME NEW c, IsChain(edges, nodes, rels, c, k + 1)  PROVE c \in f[k + 1]
    <3>1. PICK b : IsChain(edges, nodes, rels, b, k) /\ Extends(edges, rels[k + 1], b, c)
      BY <2>4, ChainShrinks
    <3>2. b \in f[k]
      BY <2>2, <3>1
    <3>. QED  BY <2>1, <3>1, <3>2, ExtendedFacts
  <2>. QED  BY <2>3, <2>4
<1>5. Good(m)
  <2>1. m \in T
    <3>. HIDE DEF T
    <3>. QED  BY <1>0, <1>3, <1>4, SetInduction
  <2>. QED  BY <2>1
<1>6. Chains(edges, nodes, rels) = {c.trail : c \in f[m]}
  BY <1>1 DEF m
<1>7. ASSUME NEW w, w \in Chains(edges, nodes, rels)  PROVE w \in WalksAlong(edges, nodes, rels)
  <2>1. PICK c \in f[m] : w = c.trail
    BY <1>6, <1>7
  <2>2. PICK v, n : v \in [1 .. m -> edges] /\ c = [node |-> n, trail |-> v] /\ Along(nodes, rels, v, n, m)
    BY <1>5, <2>1 DEF IsChain
  <2>3. w = v
    BY <2>1, <2>2
  <2>. QED  BY <1>0, <2>2, <2>3 DEF WalksAlong, Along, m
<1>8. ASSUME NEW w \in WalksAlong(edges, nodes, rels)  PROVE w \in Chains(edges, nodes, rels)
  <2>1. w \in [1 .. m -> edges] /\ Along(nodes, rels, w, w[m].dst, m)
    BY <1>0 DEF WalksAlong, Along, m
  <2>2. IsChain(edges, nodes, rels, [node |-> w[m].dst, trail |-> w], m)
    BY <2>1 DEF IsChain
  <2>3. [node |-> w[m].dst, trail |-> w] \in f[m]
    BY <1>5, <2>2
  <2>. QED  BY <1>6, <2>3
<1>. QED  BY <1>7, <1>8

\* The first nodes of a walk, and that no two of them are the same.
Seen(ns, k) == {ns[i] : i \in 1 .. k + 1}
AllDiffer(ns, k) == \A i, j \in 1 .. k + 1 : ns[i] = ns[j] => i = j

LEMMA DifferentNodes ==
  ASSUME NEW all, NEW k \in Nat, NEW ns \in [1 .. k + 1 -> all]
  PROVE  /\ Cardinality(Seen(ns, k)) = k + 1 => \A i, j \in 1 .. k + 1 : ns[i] = ns[j] => i = j
         /\ (\A i, j \in 1 .. k + 1 : ns[i] = ns[j] => i = j) => Cardinality(Seen(ns, k)) = k + 1
<1>. DEFINE n == k + 1
            T == Seen(ns, k)
<1>1. IsFiniteSet(1 .. n) /\ Cardinality(1 .. n) = n
  <2>1. 1 \in Int /\ n \in Int /\ ~(1 > n) /\ n - 1 + 1 = n
    OBVIOUS
  <2>. QED  BY <2>1, FS_Interval
<1>2. ns \in Surjection(1 .. n, T)
  BY DEF Surjection, Seen
<1>3. Cardinality(T) = n <=> ns \in Injection(1 .. n, T)
  BY <1>1, <1>2, FS_Surjection
<1>4. ns \in Injection(1 .. n, T) <=> AllDiffer(ns, k)
  BY DEF Injection, IsInjective, AllDiffer, Seen
<1>. QED  BY <1>3, <1>4 DEF AllDiffer

\* A walk of k edges that passes no node twice, and the target at its end at most: a call of
\* the search at depth k has its last node, its edges and its nodes.
Simple(edges, all, directed, src, dst, w, ns, k) ==
  /\ Passes(edges, all, directed, w, ns, k)
  /\ ns[1] = src
  /\ AllDiffer(ns, k)
  /\ \A i \in 2 .. k : ns[i] # dst

IsCall(edges, all, directed, src, dst, c, k) ==
  \E w, ns : /\ Simple(edges, all, directed, src, dst, w, ns, k)
             /\ c = [node |-> ns[k + 1], trail |-> w, visited |-> Seen(ns, k)]

\* The call b, that has not arrived, makes the call c.
Calls(edges, directed, dst, b, c) ==
  /\ b.node # dst \/ b.trail = << >>
  /\ \E e \in edges : \E m : /\ StepTo(e, b.node, m, directed) /\ m \notin b.visited
                             /\ c = [node |-> m, trail |-> Append(b.trail, e), visited |-> b.visited \cup {m}]

LEMMA DeeperFacts ==
  ASSUME NEW edges, NEW directed, NEW dst, NEW calls, NEW c
  PROVE  c \in Deeper(edges, directed, dst, calls) <=> \E b \in calls : Calls(edges, directed, dst, b, c)
<1>1. ASSUME c \in Deeper(edges, directed, dst, calls)
      PROVE  \E b \in calls : Calls(edges, directed, dst, b, c)
  <2>1. PICK b \in calls : /\ b.node # dst \/ b.trail = << >>
                           /\ \E s \in Steps(edges, directed, b.node) : s[2] \notin b.visited /\ c = Entered(b, s)
    BY <1>1 DEF Deeper
  <2>2. PICK s \in Steps(edges, directed, b.node) : s[2] \notin b.visited /\ c = Entered(b, s)
    BY <2>1
  <2>3. s[1] \in edges /\ StepTo(s[1], b.node, s[2], directed)
    BY <2>2 DEF Steps, StepTo
  <2>4. c = [node |-> s[2], trail |-> Append(b.trail, s[1]), visited |-> b.visited \cup {s[2]}]
    BY <2>2 DEF Entered
  <2>. QED  BY <2>1, <2>2, <2>3, <2>4 DEF Calls
<1>2. ASSUME NEW b \in calls, Calls(edges, directed, dst, b, c)
      PROVE  c \in Deeper(edges, directed, dst, calls)
  <2>1. PICK e, m : /\ e \in edges /\ StepTo(e, b.node, m, directed) /\ m \notin b.visited
                   /\ c = [node |-> m, trail |-> Append(b.trail, e), visited |-> b.visited \cup {m}]
    BY <1>2 DEF Calls
  <2>2. <<e, m>> \in Steps(edges, directed, b.node)
    BY <2>1 DEF Steps, StepTo
  <2>3. c = Entered(b, <<e, m>>)
    BY <2>1 DEF Entered
  <2>4. \E s \in Steps(edges, directed, b.node) : s[2] \notin b.visited /\ c = Entered(b, s)
    BY <2>1, <2>2, <2>3
  <2>5. b.node # dst \/ b.trail = << >>
    BY <1>2 DEF Calls
  <2>. QED  BY <2>4, <2>5 DEF Deeper
<1>. QED  BY <1>1, <1>2

LEMMA SeenGrows ==
  ASSUME NEW k \in Nat, NEW ns, NEW m, NEW ms, Grown(ms, ns, m, k + 1)
  PROVE  Seen(ms, k + 1) = Seen(ns, k) \cup {m}
<1>1. 1 .. (k + 1) + 1 = (1 .. k + 1) \cup {(k + 1) + 1}
  OBVIOUS
<1>2. ms[(k + 1) + 1] = m /\ \A i \in 1 .. k + 1 : ms[i] = ns[i]
  BY DEF Grown
<1>. QED  BY <1>1, <1>2 DEF Seen

LEMMA SimpleGrows ==
  ASSUME NEW edges, NEW all, NEW directed, NEW src, NEW dst, NEW k \in Nat, NEW w, NEW ns,
         Simple(edges, all, directed, src, dst, w, ns, k), k # 0 => ns[k + 1] # dst,
         NEW v, NEW m, NEW ms, Passes(edges, all, directed, v, ms, k + 1), Grown(ms, ns, m, k + 1),
         m \notin Seen(ns, k)
  PROVE  Simple(edges, all, directed, src, dst, v, ms, k + 1)
<1>1. /\ \A i \in 1 .. k + 1 : ms[i] = ns[i] /\ ns[i] # m
      /\ ms[k + 2] = m
  <2>1. (k + 1) + 1 = k + 2
    OBVIOUS
  <2>. QED  BY <2>1 DEF Grown, Seen
<1>2. ms[1] = src
  BY <1>1 DEF Simple
<1>3. ASSUME NEW i \in 1 .. (k + 1) + 1, NEW j \in 1 .. (k + 1) + 1, ms[i] = ms[j]  PROVE i = j
  <2>1. CASE i \in 1 .. k + 1 /\ j \in 1 .. k + 1
    BY <1>1, <1>3, <2>1 DEF Simple, AllDiffer
  <2>2. CASE i = k + 2 /\ j \in 1 .. k + 1
    BY <1>1, <1>3, <2>2
  <2>3. CASE i \in 1 .. k + 1 /\ j = k + 2
    BY <1>1, <1>3, <2>3
  <2>4. CASE i = k + 2 /\ j = k + 2
    BY <2>4
  <2>. QED  BY <2>1, <2>2, <2>3, <2>4
<1>4. ASSUME NEW i \in 2 .. k + 1  PROVE ms[i] # dst
  <2>1. ms[i] = ns[i]
    BY <1>1
  <2>2. CASE i = k + 1
    BY <2>1, <2>2
  <2>3. CASE i # k + 1
    <3>1. i \in 2 .. k
      BY <2>3
    <3>. QED  BY <2>1, <3>1 DEF Simple
  <2>. QED  BY <2>2, <2>3
<1>. QED  BY <1>2, <1>3, <1>4 DEF Simple, AllDiffer

LEMMA SimpleShrinks ==
  ASSUME NEW edges, NEW all, NEW directed, NEW src, NEW dst, NEW k \in Nat, NEW v, NEW ms,
         Simple(edges, all, directed, src, dst, v, ms, k + 1),
         NEW w, NEW ns, Passes(edges, all, directed, w, ns, k), Grown(ms, ns, ms[k + 2], k + 1)
  PROVE  /\ Simple(edges, all, directed, src, dst, w, ns, k)
         /\ k # 0 => ns[k + 1] # dst
         /\ ms[k + 2] \notin Seen(ns, k)
<1>1. \A i \in 1 .. k + 1 : ns[i] = ms[i] /\ i # k + 2 /\ i \in 1 .. (k + 1) + 1
  BY DEF Grown
<1>2. k + 2 \in 1 .. (k + 1) + 1
  OBVIOUS
<1>3. \A i, j \in 1 .. (k + 1) + 1 : ms[i] = ms[j] => i = j
  BY DEF Simple, AllDiffer
<1>4. \A i \in 2 .. k + 1 : ms[i] # dst
  BY DEF Simple
<1>5. ns[1] = src
  BY <1>1 DEF Simple
<1>6. \A i \in 2 .. k : ns[i] # dst
  BY <1>1, <1>4
<1>7. k # 0 => ns[k + 1] # dst
  BY <1>1, <1>4
<1>8. ms[k + 2] \notin Seen(ns, k)
  BY <1>1, <1>2, <1>3 DEF Seen
<1>9. \A i, j \in 1 .. k + 1 : ns[i] = ns[j] => i = j
  BY <1>1, <1>3
<1>. QED  BY <1>5, <1>6, <1>7, <1>8, <1>9 DEF Simple, AllDiffer

LEMMA TrailIsEmpty ==
  ASSUME NEW S, NEW k \in Nat, NEW w \in [1 .. k -> S]
  PROVE  w = << >> <=> k = 0
OBVIOUS

LEMMA CallGrows ==
  ASSUME NEW edges, NEW all, \A e \in edges : e.src \in all /\ e.dst \in all,
         NEW directed, NEW src, NEW dst, NEW k \in Nat,
         NEW b, IsCall(edges, all, directed, src, dst, b, k), NEW c, Calls(edges, directed, dst, b, c)
  PROVE  IsCall(edges, all, directed, src, dst, c, k + 1)
<1>1. PICK w, ns : /\ Simple(edges, all, directed, src, dst, w, ns, k)
                   /\ b = [node |-> ns[k + 1], trail |-> w, visited |-> Seen(ns, k)]
  BY DEF IsCall
<1>2. b.node = ns[k + 1] /\ b.trail = w /\ b.visited = Seen(ns, k)
  BY <1>1
<1>3. PICK e, m : /\ e \in edges /\ StepTo(e, b.node, m, directed) /\ m \notin b.visited
                 /\ c = [node |-> m, trail |-> Append(b.trail, e), visited |-> b.visited \cup {m}]
  BY DEF Calls
<1>4. Passes(edges, all, directed, w, ns, k) /\ w \in [1 .. k -> edges]
  BY <1>1 DEF Simple, Passes
<1>5. k # 0 => ns[k + 1] # dst
  BY <1>2, <1>4, TrailIsEmpty DEF Calls
<1>6. m \in all
  BY <1>3 DEF StepTo
<1>7. PICK v, ms : v = Append(w, e) /\ ms = Append(ns, m)
  OBVIOUS
<1>8. Passes(edges, all, directed, v, ms, k + 1) /\ Grown(ms, ns, m, k + 1)
  BY <1>2, <1>3, <1>4, <1>6, <1>7, WalkGrows
<1>9. Simple(edges, all, directed, src, dst, v, ms, k + 1)
  BY <1>1, <1>2, <1>3, <1>5, <1>8, SimpleGrows
<1>10. Seen(ms, k + 1) = Seen(ns, k) \cup {m} /\ ms[(k + 1) + 1] = m
  BY <1>8, SeenGrows DEF Grown
<1>11. c = [node |-> ms[(k + 1) + 1], trail |-> v, visited |-> Seen(ms, k + 1)]
  BY <1>2, <1>3, <1>7, <1>10
<1>. QED  BY <1>9, <1>11 DEF IsCall

LEMMA CallShrinks ==
  ASSUME NEW edges, NEW all, NEW directed, NEW src, NEW dst, NEW k \in Nat,
         NEW c, IsCall(edges, all, directed, src, dst, c, k + 1)
  PROVE  \E b : IsCall(edges, all, directed, src, dst, b, k) /\ Calls(edges, directed, dst, b, c)
<1>1. PICK v, ms : /\ Simple(edges, all, directed, src, dst, v, ms, k + 1)
                   /\ c = [node |-> ms[(k + 1) + 1], trail |-> v, visited |-> Seen(ms, k + 1)]
  BY DEF IsCall
<1>2. Passes(edges, all, directed, v, ms, k + 1) /\ (k + 1) + 1 = k + 2
  BY <1>1 DEF Simple
<1>3. PICK w, ns : /\ Passes(edges, all, directed, w, ns, k)
                   /\ v = Append(w, v[k + 1]) /\ ms = Append(ns, ms[k + 2])
                   /\ Grown(ms, ns, ms[k + 2], k + 1)
  BY <1>2, WalkShrinks
<1>4. v[k + 1] \in edges /\ StepTo(v[k + 1], ms[k + 1], ms[k + 2], directed)
  BY <1>2, WalkShrinks
<1>5. Simple(edges, all, directed, src, dst, w, ns, k)
  BY <1>1, <1>3, SimpleShrinks
<1>6. k # 0 => ns[k + 1] # dst
  BY <1>1, <1>3, SimpleShrinks
<1>7. ms[k + 2] \notin Seen(ns, k)
  BY <1>1, <1>3, SimpleShrinks
<1>8. Seen(ms, k + 1) = Seen(ns, k) \cup {ms[k + 2]}
  BY <1>3, SeenGrows
<1>9. ns[k + 1] = ms[k + 1]
  BY <1>3 DEF Grown
<1>. DEFINE b == [node |-> ns[k + 1], trail |-> w, visited |-> Seen(ns, k)]
<1>10. b.node = ns[k + 1] /\ b.trail = w /\ b.visited = Seen(ns, k)
  OBVIOUS
<1>11. IsCall(edges, all, directed, src, dst, b, k)
  BY <1>5 DEF IsCall
<1>. HIDE DEF b
<1>12. w \in [1 .. k -> edges]
  BY <1>3 DEF Passes
<1>13. b.node # dst \/ b.trail = << >>
  BY <1>6, <1>10, <1>12, TrailIsEmpty
<1>14. c = [node |-> ms[k + 2], trail |-> Append(b.trail, v[k + 1]), visited |-> b.visited \cup {ms[k + 2]}]
  BY <1>1, <1>2, <1>3, <1>8, <1>10
<1>15. StepTo(v[k + 1], b.node, ms[k + 2], directed) /\ ms[k + 2] \notin b.visited
  BY <1>4, <1>7, <1>9, <1>10
<1>16. Calls(edges, directed, dst, b, c)
  BY <1>4, <1>13, <1>14, <1>15 DEF Calls
<1>. QED  BY <1>11, <1>16

\* The depth at which a call is made, and the walks that the calls stand for.
LEMMA CallsFacts ==
  ASSUME NEW edges, NEW all, \A e \in edges : e.src \in all /\ e.dst \in all,
         NEW directed, NEW src \in all, NEW dst, NEW depth \in Nat,
         NEW f, IsSearch(f, edges, src, dst, directed, depth)
  PROVE  \A k \in 0 .. depth : \A c : c \in f[k] <=> IsCall(edges, all, directed, src, dst, c, k)
<1>5. 0 \in 0 .. depth /\ \A k \in 1 .. depth : k # 0 /\ k \in 0 .. depth
  OBVIOUS
<1>1. /\ f[0] = {[node |-> src, trail |-> << >>, visited |-> {src}]}
      /\ \A k \in 1 .. depth : f[k] = Deeper(edges, directed, dst, f[k - 1])
  BY <1>5 DEF IsSearch
<1>. DEFINE Good(k) == \A c : c \in f[k] <=> IsCall(edges, all, directed, src, dst, c, k)
            T == {k \in Nat : k <= depth => Good(k)}
<1>2. 0 \in T
  <2>. DEFINE ns == [i \in 1 .. 1 |-> src]
  <2>1. ns \in [1 .. 0 + 1 -> all] /\ ns[1] = src /\ ns[0 + 1] = src
    OBVIOUS
  <2>. HIDE DEF ns
  <2>2. \A ms : ms[1] = src => Seen(ms, 0) = {src}
    BY DEF Seen
  <2>3. Passes(edges, all, directed, << >>, ns, 0)
    <3>1. << >> \in [1 .. 0 -> edges]
      BY EmptyList
    <3>. QED  BY <2>1, <3>1 DEF Passes
  <2>4. Simple(edges, all, directed, src, dst, << >>, ns, 0)
    BY <2>1, <2>3 DEF Simple, AllDiffer
  <2>5. ASSUME NEW c, c \in f[0]  PROVE IsCall(edges, all, directed, src, dst, c, 0)
    <3>1. c = [node |-> ns[0 + 1], trail |-> << >>, visited |-> Seen(ns, 0)]
      BY <1>1, <2>1, <2>2, <2>5
    <3>. QED  BY <2>4, <3>1 DEF IsCall
  <2>6. ASSUME NEW c, IsCall(edges, all, directed, src, dst, c, 0)  PROVE c \in f[0]
    <3>1. PICK w, ms : /\ Simple(edges, all, directed, src, dst, w, ms, 0)
                       /\ c = [node |-> ms[0 + 1], trail |-> w, visited |-> Seen(ms, 0)]
      BY <2>6 DEF IsCall
    <3>2. w \in [1 .. 0 -> edges] /\ ms[1] = src /\ 0 + 1 = 1
      BY <3>1 DEF Simple, Passes
    <3>3. w = << >>
      BY <3>2, EmptyList
    <3>. QED  BY <1>1, <2>2, <3>1, <3>2, <3>3
  <2>7. Good(0)
    BY <2>5, <2>6
  <2>. QED  BY <2>7
<1>3. ASSUME NEW k \in Nat, k \in T  PROVE k + 1 \in T
  <2>. SUFFICES ASSUME k + 1 <= depth  PROVE Good(k + 1)
    OBVIOUS
  <2>1. f[k + 1] = Deeper(edges, directed, dst, f[k])
    <3>1. k + 1 \in 1 .. depth /\ (k + 1) - 1 = k
      OBVIOUS
    <3>. QED  BY <1>1, <3>1
  <2>2. Good(k)
    BY <1>3
  <2>3. ASSUME NEW c, c \in f[k + 1]  PROVE IsCall(edges, all, directed, src, dst, c, k + 1)
    <3>1. PICK b \in f[k] : Calls(edges, directed, dst, b, c)
      BY <2>1, <2>3, DeeperFacts
    <3>2. IsCall(edges, all, directed, src, dst, b, k)
      BY <2>2
    <3>. QED  BY <3>1, <3>2, CallGrows
  <2>4. ASSUME NEW c, IsCall(edges, all, directed, src, dst, c, k + 1)  PROVE c \in f[k + 1]
    <3>1. PICK b : IsCall(edges, all, directed, src, dst, b, k) /\ Calls(edges, directed, dst, b, c)
      BY <2>4, CallShrinks
    <3>2. b \in f[k]
      BY <2>2, <3>1
    <3>. QED  BY <2>1, <3>1, <3>2, DeeperFacts
  <2>. QED  BY <2>3, <2>4
<1>. HIDE DEF T
<1>4. Nat \subseteq T
  BY <1>2, <1>3, SetInduction
<1>. QED  BY <1>4 DEF T

\* A simple path of k edges.
IsPath(edges, all, directed, src, dst, w, k) ==
  \E ns : Simple(edges, all, directed, src, dst, w, ns, k) /\ ns[k + 1] = dst /\ w # << >>

LEMMA SimplePathsFacts ==
  ASSUME NEW edges, NEW all, NEW src, NEW dst, NEW depth \in Nat, NEW directed, NEW w
  PROVE  w \in SimplePaths(edges, all, src, dst, depth, directed) <=> \E k \in 0 .. depth : IsPath(edges, all, directed, src, dst, w, k)
<1>1. ASSUME w \in SimplePaths(edges, all, src, dst, depth, directed)
      PROVE  \E k \in 0 .. depth : IsPath(edges, all, directed, src, dst, w, k)
  <2>1. PICK k \in 0 .. depth : w \in [1 .. k -> edges]
    BY <1>1 DEF SimplePaths, EdgeSequences
  <2>2. Len(w) = k /\ k + 1 \in Nat
    BY <2>1, ListLength
  <2>3. PICK ns \in [1 .. k + 1 -> all] :
          /\ IsWalk(w, ns, directed) /\ w # << >>
          /\ ns[1] = src /\ ns[Len(ns)] = dst
          /\ Cardinality({ns[i] : i \in DOMAIN ns}) = Len(ns)
    BY <1>1, <2>2 DEF SimplePaths
  <2>4. Len(ns) = k + 1 /\ DOMAIN ns = 1 .. k + 1
    BY <2>2, ListLength
  <2>5. Passes(edges, all, directed, w, ns, k)
    BY <2>1, <2>3, PassesFacts
  <2>6. Cardinality(Seen(ns, k)) = k + 1
    BY <2>3, <2>4 DEF Seen
  <2>7. AllDiffer(ns, k)
    <3>1. k \in Nat
      OBVIOUS
    <3>. QED  BY <2>6, <3>1, DifferentNodes DEF AllDiffer
  <2>8. ns[k + 1] = dst
    BY <2>3, <2>4
  <2>9. \A i \in 2 .. k : ns[i] # dst
    BY <2>7, <2>8 DEF AllDiffer
  <2>10. Simple(edges, all, directed, src, dst, w, ns, k)
    BY <2>3, <2>5, <2>7, <2>9 DEF Simple
  <2>. QED  BY <2>3, <2>8, <2>10 DEF IsPath
<1>2. ASSUME NEW k \in 0 .. depth, NEW ns, Simple(edges, all, directed, src, dst, w, ns, k),
             ns[k + 1] = dst, w # << >>
      PROVE  w \in SimplePaths(edges, all, src, dst, depth, directed)
  <2>1. w \in [1 .. k -> edges] /\ ns \in [1 .. k + 1 -> all] /\ k + 1 \in Nat
    BY <1>2 DEF Simple, Passes
  <2>2. Len(w) = k
    BY <2>1, ListLength
  <2>3. Len(ns) = k + 1 /\ DOMAIN ns = 1 .. k + 1
    BY <2>1, ListLength
  <2>4. IsWalk(w, ns, directed)
    BY <1>2, <2>1, PassesFacts DEF Simple
  <2>6. Cardinality(Seen(ns, k)) = k + 1
    <3>1. k \in Nat /\ \A i, j \in 1 .. k + 1 : ns[i] = ns[j] => i = j
      BY <1>2 DEF Simple, AllDiffer
    <3>. QED  BY <2>1, <3>1, DifferentNodes
  <2>7. Cardinality({ns[i] : i \in DOMAIN ns}) = Len(ns)
    BY <2>3, <2>6 DEF Seen
  <2>8. w \in EdgeSequences(edges, depth)
    BY <2>1 DEF EdgeSequences
  <2>9. ns[1] = src
    BY <1>2 DEF Simple
  <2>. QED  BY <1>2, <2>1, <2>2, <2>3, <2>4, <2>7, <2>8, <2>9 DEF SimplePaths
<1>. QED  BY <1>1, <1>2 DEF IsPath

\* For every graph, pair of nodes and depth, the search finds the simple paths of so many edges
\* at most between them, along the edges or in both directions, and no others.
THEOREM PathsAreExact ==
  ASSUME NEW edges, NEW all, \A e \in edges : e.src \in all /\ e.dst \in all,
         NEW src \in all, NEW dst, NEW depth \in Nat, NEW directed
  PROVE  Paths(edges, src, dst, depth, directed) = SimplePaths(edges, all, src, dst, depth, directed)
<1>1. PICK f : /\ IsSearch(f, edges, src, dst, directed, depth)
               /\ Paths(edges, src, dst, depth, directed) = Arrived(UNION {f[k] : k \in 0 .. depth}, dst)
  BY PathsAreSearched
<1>2. \A k \in 0 .. depth : \A c : c \in f[k] <=> IsCall(edges, all, directed, src, dst, c, k)
  BY <1>1, CallsFacts
<1>3. ASSUME NEW w \in Paths(edges, src, dst, depth, directed)
      PROVE  w \in SimplePaths(edges, all, src, dst, depth, directed)
  <2>1. PICK c \in UNION {f[k] : k \in 0 .. depth} : c.node = dst /\ c.trail # << >> /\ w = c.trail
    BY <1>1, <1>3 DEF Arrived
  <2>2. PICK k \in 0 .. depth : c \in f[k]
    BY <2>1
  <2>3. IsCall(edges, all, directed, src, dst, c, k)
    BY <1>2, <2>2
  <2>4. PICK v, ns : /\ Simple(edges, all, directed, src, dst, v, ns, k)
                     /\ c = [node |-> ns[k + 1], trail |-> v, visited |-> Seen(ns, k)]
    BY <2>3 DEF IsCall
  <2>5. c.node = ns[k + 1] /\ c.trail = v
    BY <2>4
  <2>6. Simple(edges, all, directed, src, dst, w, ns, k) /\ ns[k + 1] = dst /\ w # << >>
    BY <2>1, <2>4, <2>5
  <2>7. IsPath(edges, all, directed, src, dst, w, k)
    BY <2>6 DEF IsPath
  <2>. QED  BY <2>7, SimplePathsFacts
<1>4. ASSUME NEW w \in SimplePaths(edges, all, src, dst, depth, directed)
      PROVE  w \in Paths(edges, src, dst, depth, directed)
  <2>1. PICK k \in 0 .. depth : IsPath(edges, all, directed, src, dst, w, k)
    BY SimplePathsFacts
  <2>2. PICK ns : Simple(edges, all, directed, src, dst, w, ns, k) /\ ns[k + 1] = dst /\ w # << >>
    BY <2>1 DEF IsPath
  <2>. DEFINE c == [node |-> ns[k + 1], trail |-> w, visited |-> Seen(ns, k)]
  <2>3. IsCall(edges, all, directed, src, dst, c, k)
    BY <2>2 DEF IsCall
  <2>4. c.node = dst /\ c.trail = w
    BY <2>2
  <2>. HIDE DEF c
  <2>5. c \in UNION {f[j] : j \in 0 .. depth}
    BY <1>2, <2>3
  <2>. QED  BY <1>1, <2>2, <2>4, <2>5 DEF Arrived
<1>. QED  BY <1>3, <1>4

-----------------------------------------------------------------------------
\* Of any relations between stored assets, the queries find what their interface says.
LEMMA QueriesOfRelations ==
  ASSUME relations \subseteq Edges
  PROVE  QueriesAreExact
<1>1. Depth \in Nat /\ \A e \in relations : e.src \in Ids /\ e.dst \in Ids
  BY QueriesAssumption
<1>2. ASSUME NEW a \in Ids, NEW b \in Ids, NEW directed \in BOOLEAN
      PROVE  Paths(relations, a, b, Depth, directed) = SimplePaths(relations, Ids, a, b, Depth, directed)
  BY <1>1, PathsAreExact
<1>3. ASSUME NEW a \in Ids, NEW hops \in 0 .. Depth
      PROVE  Subgraph(relations, {a}, hops).nodes = NodesWithin(relations, Ids, a, hops)
  <2>1. hops \in Nat
    BY <1>1
  <2>2. Reachable(relations, a, hops) = NodesWithin(relations, Ids, a, hops)
    BY <1>1, <2>1, NeighbourhoodsAreExact
  <2>3. Subgraph(relations, {a}, hops).nodes = UNION {Reachable(relations, s, hops) : s \in {a}}
    BY DEF Subgraph
  <2>. QED  BY <2>2, <2>3
<1>4. ASSUME NEW nodes \in SUBSET Ids, NEW n \in 1 .. Depth, NEW rels \in [1 .. n -> {e.rel : e \in Edges}]
      PROVE  Chains(relations, nodes, rels) = WalksAlong(relations, nodes, rels)
  <2>1. n \in Nat /\ n # 0
    BY <1>1
  <2>2. PICK S : S = {e.rel : e \in Edges}
    OBVIOUS
  <2>3. rels \in [1 .. n -> S]
    BY <2>2
  <2>4. rels \in Seq(S) /\ Len(rels) = n
    BY <2>1, <2>3, IsList
  <2>5. rels # << >>
    BY <2>1, <2>4
  <2>. QED  BY <2>4, <2>5, ChainsAreExact
<1>. QED  BY <1>2, <1>3, <1>4 DEF QueriesAreExact

\* Whatever relations are stored, and to whatever depth, a query for paths finds all simple
\* paths, a query for chains all directed walks along its relations, a query for a
\* neighbourhood all nodes within its hops, and nothing else.
THEOREM QueriesHold == QueriesSpec => []QueriesAreExact
<1>1. QueriesInit => relations \subseteq Edges
  BY DEF QueriesInit
<1>2. relations \subseteq Edges /\ [QueriesNext]_queryVars => (relations \subseteq Edges)'
  BY DEF QueriesNext, AddRelation, queryVars
<1>3. relations \subseteq Edges => QueriesAreExact
  BY QueriesOfRelations
<1>. QED  BY <1>1, <1>2, <1>3, PTL DEF QueriesSpec
==============================================================================

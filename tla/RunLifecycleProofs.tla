-------------------------- MODULE RunLifecycleProofs --------------------------
(***************************************************************************)
(* Proofs about the life of a run id and its store, for every set of stages, *)
(* batches, targets and attributes, and any number of processes.             *)
(***************************************************************************)
EXTENDS RunLifecycle, ListProofs

-----------------------------------------------------------------------------
\* What a list of records says of an attribute.
Knows(r, k, a) == CanonicalKey[r.key] = k /\ r.attributes[a] # Null

\* The record i of a list of n is the last one that knows an attribute.
Latest(n, s, k, a, i) ==
  /\ n \in Nat /\ DOMAIN s = 1 .. n /\ i \in 1 .. n
  /\ Knows(s[i], k, a)
  /\ \A j \in 1 .. n : Knows(s[j], k, a) => j <= i

LEMMA LastIs ==
  ASSUME NEW n, NEW s, NEW k, NEW a, NEW b, NEW i, Latest(n, s, k, a, i)
  PROVE  Atomic!Last(s, k, a, b) = s[i].attributes[a]
<1>. DEFINE R == Atomic!Reports(s, k, a)
            last == CHOOSE x \in R : \A j \in R : j <= x
<1>1. R = {j \in 1 .. n : Knows(s[j], k, a)}
  BY DEF Atomic!Reports, Knows, Latest
<1>2. i \in R /\ \A j \in R : j <= i
  BY <1>1 DEF Latest
<1>3. last \in R /\ \A j \in R : j <= last
  BY <1>2
<1>4. last = i
  BY <1>1, <1>2, <1>3
<1>5. Atomic!Last(s, k, a, b) = s[last].attributes[a]
  BY <1>2 DEF Atomic!Last
<1>. QED  BY <1>4, <1>5

LEMMA LastIsNot ==
  ASSUME NEW n, NEW s, DOMAIN s = 1 .. n, NEW k, NEW a, NEW b,
         \A j \in 1 .. n : ~Knows(s[j], k, a)
  PROVE  Atomic!Last(s, k, a, b) = b
<1>1. Atomic!Reports(s, k, a) = {}
  BY DEF Atomic!Reports, Knows
<1>. QED  BY <1>1 DEF Atomic!Last

LEMMA SomeLatest ==
  ASSUME NEW n \in Nat, NEW s, DOMAIN s = 1 .. n, NEW k, NEW a,
         \E j \in 1 .. n : Knows(s[j], k, a)
  PROVE  \E i : Latest(n, s, k, a, i)
<1>. DEFINE T == {l \in 1 .. n : Knows(s[l], k, a)}
<1>1. T \subseteq 1 .. n /\ T # {}
  OBVIOUS
<1>2. \E m \in T : \A l \in T : l <= m
  <2>. HIDE DEF T
  <2>. QED  BY <1>1, GreatestNatural
<1>. QED  BY <1>2 DEF Latest

\* Without a report the value known before, with one a value.
LEMMA LastValue ==
  ASSUME NEW n \in Nat, NEW s, DOMAIN s = 1 .. n, NEW k, NEW a, NEW b
  PROVE  Atomic!Last(s, k, a, b) =
           IF Atomic!Last(s, k, a, Null) # Null THEN Atomic!Last(s, k, a, Null) ELSE b
<1>1. CASE \A j \in 1 .. n : ~Knows(s[j], k, a)
  BY <1>1, LastIsNot
<1>2. CASE \E j \in 1 .. n : Knows(s[j], k, a)
  <2>1. PICK i : Latest(n, s, k, a, i)
    BY <1>2, SomeLatest
  <2>2. /\ Atomic!Last(s, k, a, b) = s[i].attributes[a]
        /\ Atomic!Last(s, k, a, Null) = s[i].attributes[a]
    BY <2>1, LastIs
  <2>. QED  BY <2>1, <2>2 DEF Knows, Latest
<1>. QED  BY <1>1, <1>2

\* One record more.
LEMMA LastNext ==
  ASSUME NEW n \in Nat, NEW s, DOMAIN s = 1 .. n, NEW t, DOMAIN t = 1 .. n + 1,
         \A i \in 1 .. n : t[i] = s[i], NEW k, NEW a, NEW b
  PROVE  Atomic!Last(t, k, a, b) =
           IF Knows(t[n + 1], k, a) THEN t[n + 1].attributes[a] ELSE Atomic!Last(s, k, a, b)
<1>1. n + 1 \in Nat /\ 1 .. n + 1 = (1 .. n) \cup {n + 1}
  OBVIOUS
<1>2. CASE Knows(t[n + 1], k, a)
  <2>1. Latest(n + 1, t, k, a, n + 1)
    BY <1>1, <1>2 DEF Latest
  <2>. QED  BY <1>2, <2>1, LastIs
<1>3. CASE ~Knows(t[n + 1], k, a) /\ \A j \in 1 .. n : ~Knows(s[j], k, a)
  <2>1. \A j \in 1 .. n + 1 : ~Knows(t[j], k, a)
    BY <1>1, <1>3
  <2>. QED  BY <1>1, <1>3, <2>1, LastIsNot
<1>4. CASE ~Knows(t[n + 1], k, a) /\ \E j \in 1 .. n : Knows(s[j], k, a)
  <2>1. PICK i : Latest(n, s, k, a, i)
    BY <1>4, SomeLatest
  <2>2. Latest(n + 1, t, k, a, i) /\ t[i] = s[i]
    BY <1>1, <1>4, <2>1 DEF Latest
  <2>3. Atomic!Last(t, k, a, b) = t[i].attributes[a]
    BY <2>2, LastIs
  <2>4. Atomic!Last(s, k, a, b) = s[i].attributes[a]
    BY <2>1, LastIs
  <2>. QED  BY <1>4, <2>2, <2>3, <2>4
<1>. QED  BY <1>2, <1>3, <1>4

\* One list of records after another.
LEMMA LastConcat ==
  ASSUME NEW R, NEW s \in Seq(R), NEW t \in Seq(R), NEW k, NEW a, NEW b
  PROVE  Atomic!Last(s \o t, k, a, b) = Atomic!Last(t, k, a, Atomic!Last(s, k, a, b))
<1>. DEFINE n == Len(s)
            m == Len(t)
            u == s \o t
            c == Atomic!Last(s, k, a, b)
<1>1. /\ n \in Nat /\ m \in Nat /\ n + m \in Nat
      /\ DOMAIN s = 1 .. n /\ DOMAIN t = 1 .. m /\ DOMAIN u = 1 .. n + m
  OBVIOUS
<1>2. \A i \in 1 .. n : i \in 1 .. n + m /\ u[i] = s[i]
  OBVIOUS
<1>3. \A i \in 1 .. m : n + i \in 1 .. n + m /\ u[n + i] = t[i]
  OBVIOUS
<1>4. \A j \in 1 .. n + m : j \in 1 .. n \/ \E i \in 1 .. m : j = n + i
  <2>1. ASSUME NEW j \in 1 .. n + m, j \notin 1 .. n  PROVE j - n \in 1 .. m /\ j = n + (j - n)
    BY <1>1, <2>1
  <2>. QED  BY <2>1
<1>. HIDE DEF n, m, u, c
<1>5. CASE \E j \in 1 .. m : Knows(t[j], k, a)
  <2>1. PICK i : Latest(m, t, k, a, i)
    BY <1>1, <1>5, SomeLatest
  <2>2. Atomic!Last(t, k, a, c) = t[i].attributes[a]
    BY <2>1, LastIs
  <2>3. i \in 1 .. m /\ i \in Int /\ Knows(t[i], k, a) /\ \A l \in 1 .. m : Knows(t[l], k, a) => l <= i
    BY <2>1 DEF Latest
  <2>4. ASSUME NEW l \in 1 .. n + m, Knows(u[l], k, a)  PROVE l <= n + i
    <3>1. CASE l \in 1 .. n
      BY <1>1, <2>3, <3>1
    <3>2. CASE \E x \in 1 .. m : l = n + x
      <4>1. PICK x \in 1 .. m : l = n + x
        BY <3>2
      <4>2. x <= i
        BY <1>3, <2>3, <2>4, <4>1
      <4>. QED  BY <1>1, <2>3, <4>1, <4>2
    <3>. QED  BY <1>4, <3>1, <3>2
  <2>5. Latest(n + m, u, k, a, n + i)
    BY <1>1, <1>3, <2>3, <2>4 DEF Latest
  <2>6. Atomic!Last(u, k, a, b) = u[n + i].attributes[a]
    BY <2>5, LastIs
  <2>. QED  BY <1>3, <2>2, <2>3, <2>6 DEF u, c
<1>6. CASE (\A j \in 1 .. m : ~Knows(t[j], k, a)) /\ \E j \in 1 .. n : Knows(s[j], k, a)
  <2>1. PICK i : Latest(n, s, k, a, i)
    BY <1>1, <1>6, SomeLatest
  <2>2. c = s[i].attributes[a]
    BY <2>1, LastIs DEF c
  <2>3. Atomic!Last(t, k, a, c) = c
    BY <1>1, <1>6, LastIsNot
  <2>4. ASSUME NEW l \in 1 .. n + m, Knows(u[l], k, a)  PROVE l <= i
    <3>1. l \in 1 .. n
      BY <1>3, <1>4, <1>6, <2>4
    <3>. QED  BY <1>2, <2>1, <2>4, <3>1 DEF Latest
  <2>5. Latest(n + m, u, k, a, i) /\ u[i] = s[i]
    BY <1>1, <1>2, <2>1, <2>4 DEF Latest
  <2>6. Atomic!Last(u, k, a, b) = u[i].attributes[a]
    BY <2>5, LastIs
  <2>. QED  BY <2>2, <2>3, <2>5, <2>6 DEF u, c
<1>7. CASE (\A j \in 1 .. m : ~Knows(t[j], k, a)) /\ (\A j \in 1 .. n : ~Knows(s[j], k, a))
  <2>1. c = b /\ Atomic!Last(t, k, a, c) = c
    BY <1>1, <1>7, LastIsNot DEF c
  <2>2. \A j \in 1 .. n + m : ~Knows(u[j], k, a)
    BY <1>2, <1>3, <1>4, <1>7
  <2>3. Atomic!Last(u, k, a, b) = b
    BY <1>1, <2>2, LastIsNot
  <2>. QED  BY <2>1, <2>3 DEF u, c
<1>. QED  BY <1>5, <1>6, <1>7

-----------------------------------------------------------------------------
\* What lists of records make of the assets.
IsAssets(x) == x = [k \in DOMAIN x |-> [a \in Attr |-> x[k][a]]]
Before(x, k, a) == IF k \in DOMAIN x THEN x[k][a] ELSE Null

IsLearned(l, x, s) ==
  /\ DOMAIN l = DOMAIN x \cup Atomic!Entities(s)
  /\ \A k \in DOMAIN l :
       /\ l[k] = [a \in Attr |-> Atomic!Last(s, k, a, Before(x, k, a))]
       /\ \A a \in Attr : l[k][a] = Atomic!Last(s, k, a, Before(x, k, a))
  /\ IsAssets(l)

LEMMA LearnedFacts ==
  ASSUME NEW x, NEW s
  PROVE  IsLearned(Atomic!Learned(x, s), x, s)
<1>1. Atomic!Learned(x, s) = [k \in DOMAIN x \cup Atomic!Entities(s) |->
        [a \in Attr |-> Atomic!Last(s, k, a, Before(x, k, a))]]
  BY DEF Atomic!Learned, Before
<1>. QED  BY <1>1 DEF IsAssets, IsLearned

LEMMA AssetsEqual ==
  ASSUME NEW x, NEW y, IsAssets(x), IsAssets(y), DOMAIN x = DOMAIN y,
         \A k \in DOMAIN x : \A a \in Attr : x[k][a] = y[k][a]
  PROVE  x = y
<1>1. x = [k \in DOMAIN x |-> [a \in Attr |-> x[k][a]]]
  BY DEF IsAssets
<1>2. y = [k \in DOMAIN x |-> [a \in Attr |-> y[k][a]]]
  BY DEF IsAssets
<1>3. \A k \in DOMAIN x : [a \in Attr |-> x[k][a]] = [a \in Attr |-> y[k][a]]
  OBVIOUS
<1>. QED  BY <1>1, <1>2, <1>3

LEMMA UnknownEntity ==
  ASSUME NEW R, NEW s \in Seq(R), NEW k, k \notin Atomic!Entities(s), NEW a, NEW b
  PROVE  Atomic!Last(s, k, a, b) = b
<1>1. DOMAIN s = 1 .. Len(s)
  OBVIOUS
<1>2. \A j \in 1 .. Len(s) : ~Knows(s[j], k, a)
  BY <1>1 DEF Knows, Atomic!Entities
<1>. QED  BY <1>1, <1>2, LastIsNot

LEMMA EntitiesConcat ==
  ASSUME NEW R, NEW s \in Seq(R), NEW t \in Seq(R)
  PROVE  /\ Atomic!Entities(s \o t) = Atomic!Entities(s) \cup Atomic!Entities(t)
         /\ Atomic!Sources(s \o t) = Atomic!Sources(s) \cup Atomic!Sources(t)
<1>. DEFINE u == s \o t
<1>1. DOMAIN s = 1 .. Len(s) /\ DOMAIN t = 1 .. Len(t) /\ DOMAIN u = 1 .. Len(s) + Len(t)
  OBVIOUS
<1>2. \A i \in DOMAIN s : i \in DOMAIN u /\ u[i] = s[i]
  OBVIOUS
<1>3. \A i \in DOMAIN t : Len(s) + i \in DOMAIN u /\ u[Len(s) + i] = t[i]
  OBVIOUS
<1>4. ASSUME NEW j \in DOMAIN u, j \notin DOMAIN s
      PROVE  \E i \in DOMAIN t : u[j] = t[i]
  <2>1. j - Len(s) \in DOMAIN t /\ j = Len(s) + (j - Len(s))
    BY <1>1, <1>4
  <2>2. u[Len(s) + (j - Len(s))] = t[j - Len(s)]
    BY <1>3, <2>1
  <2>. QED  BY <2>1, <2>2
<1>. HIDE DEF u
<1>5. Atomic!Entities(u) = Atomic!Entities(s) \cup Atomic!Entities(t)
  BY <1>2, <1>3, <1>4 DEF Atomic!Entities
<1>6. Atomic!Sources(u) = Atomic!Sources(s) \cup Atomic!Sources(t)
  BY <1>2, <1>3, <1>4 DEF Atomic!Sources
<1>. QED  BY <1>5, <1>6 DEF u

LEMMA LearnedConcat ==
  ASSUME NEW R, NEW s \in Seq(R), NEW t \in Seq(R), NEW x
  PROVE  Atomic!Learned(Atomic!Learned(x, s), t) = Atomic!Learned(x, s \o t)
<1>. DEFINE y == Atomic!Learned(x, s)
            l == Atomic!Learned(y, t)
            r == Atomic!Learned(x, s \o t)
<1>0. IsLearned(y, x, s) /\ IsLearned(l, y, t) /\ IsLearned(r, x, s \o t)
  BY LearnedFacts
<1>. HIDE DEF y, l, r
<1>1. /\ DOMAIN y = DOMAIN x \cup Atomic!Entities(s)
      /\ \A k \in DOMAIN y : \A a \in Attr : y[k][a] = Atomic!Last(s, k, a, Before(x, k, a))
  BY <1>0 DEF IsLearned
<1>2. /\ DOMAIN l = DOMAIN y \cup Atomic!Entities(t)
      /\ \A k \in DOMAIN l : \A a \in Attr : l[k][a] = Atomic!Last(t, k, a, Before(y, k, a))
      /\ IsAssets(l)
  BY <1>0 DEF IsLearned
<1>3. /\ DOMAIN r = DOMAIN x \cup Atomic!Entities(s \o t)
      /\ \A k \in DOMAIN r : \A a \in Attr : r[k][a] = Atomic!Last(s \o t, k, a, Before(x, k, a))
      /\ IsAssets(r)
  BY <1>0 DEF IsLearned
<1>4. DOMAIN l = DOMAIN r
  BY <1>1, <1>2, <1>3, EntitiesConcat
<1>5. ASSUME NEW k \in DOMAIN l, NEW a \in Attr  PROVE l[k][a] = r[k][a]
  <2>1. r[k][a] = Atomic!Last(t, k, a, Atomic!Last(s, k, a, Before(x, k, a)))
    BY <1>3, <1>4, <1>5, LastConcat
  <2>2. Before(y, k, a) = Atomic!Last(s, k, a, Before(x, k, a))
    <3>1. CASE k \in DOMAIN y
      BY <1>1, <1>5, <3>1 DEF Before
    <3>2. CASE k \notin DOMAIN y
      <4>1. k \notin Atomic!Entities(s) /\ k \notin DOMAIN x
        BY <1>1, <3>2
      <4>2. Atomic!Last(s, k, a, Null) = Null
        BY <4>1, UnknownEntity
      <4>. QED  BY <3>2, <4>1, <4>2 DEF Before
    <3>. QED  BY <3>1, <3>2
  <2>. QED  BY <1>2, <1>5, <2>1, <2>2
<1>. QED  BY <1>2, <1>3, <1>4, <1>5, AssetsEqual DEF l, r, y

\* Merging a row per entity into the assets is learning the records.
LEMMA MergedIsLearned ==
  ASSUME NEW R, NEW s \in Seq(R), NEW x, IsAssets(x), NEW e, e = Atomic!Learned(<< >>, s)
  PROVE  /\ DOMAIN e = Atomic!Entities(s)
         /\ \A k \in DOMAIN x \cup DOMAIN e :
              Atomic!Learned(x, s)[k] =
                IF k \notin DOMAIN e THEN x[k]
                ELSE IF k \in DOMAIN x THEN Merged(x[k], e[k]) ELSE e[k]
<1>. DEFINE l == Atomic!Learned(x, s)
<1>0. IsLearned(e, << >>, s) /\ IsLearned(l, x, s)
  BY LearnedFacts
<1>. HIDE DEF l
<1>1. /\ DOMAIN e = Atomic!Entities(s)
      /\ \A k \in DOMAIN e : /\ e[k] = [a \in Attr |-> Atomic!Last(s, k, a, Null)]
                             /\ \A a \in Attr : e[k][a] = Atomic!Last(s, k, a, Null)
  <2>1. DOMAIN << >> = {} /\ \A k, a : Before(<< >>, k, a) = Null
    BY DEF Before
  <2>. QED  BY <1>0, <2>1 DEF IsLearned
<1>2. /\ DOMAIN l = DOMAIN x \cup DOMAIN e
      /\ \A k \in DOMAIN l : l[k] = [a \in Attr |-> Atomic!Last(s, k, a, Before(x, k, a))]
  BY <1>0, <1>1 DEF IsLearned
<1>3. ASSUME NEW k \in DOMAIN x, k \notin DOMAIN e  PROVE l[k] = x[k]
  <2>1. \A a \in Attr : Atomic!Last(s, k, a, Before(x, k, a)) = x[k][a]
    BY <1>1, <1>3, UnknownEntity DEF Before
  <2>2. x[k] = [a \in Attr |-> x[k][a]]
    BY DEF IsAssets
  <2>. QED  BY <1>2, <2>1, <2>2
<1>4. ASSUME NEW k \in DOMAIN x, k \in DOMAIN e  PROVE l[k] = Merged(x[k], e[k])
  <2>1. \A a \in Attr : Atomic!Last(s, k, a, Before(x, k, a)) =
                          IF e[k][a] # Null THEN e[k][a] ELSE x[k][a]
    <3>. TAKE a \in Attr
    <3>1. DOMAIN s = 1 .. Len(s) /\ Len(s) \in Nat
      OBVIOUS
    <3>. QED  BY <1>1, <1>4, <3>1, LastValue DEF Before
  <2>. QED  BY <1>2, <2>1 DEF Merged
<1>5. ASSUME NEW k \in DOMAIN e, k \notin DOMAIN x  PROVE l[k] = e[k]
  BY <1>1, <1>2, <1>5 DEF Before
<1>. QED  BY <1>1, <1>3, <1>4, <1>5 DEF l

\* One step of the normalizer's fold, and the fold over the first n records.
Absorbed(before, r) ==
  LET key == CanonicalKey[r.key]
  IN [k \in DOMAIN before \cup {key} |->
        IF k # key THEN before[k]
        ELSE Merged(IF k \in DOMAIN before THEN before[k] ELSE Unknown, r.attributes)]

IsFold(f, rs) ==
  f = [n \in 0 .. Len(rs) |-> IF n = 0 THEN << >> ELSE Absorbed(f[n - 1], rs[n])]

Prefix(rs, n) == [i \in 1 .. n |-> rs[i]]

LEMMA PrefixFacts ==
  ASSUME NEW rs, NEW n \in Nat
  PROVE  /\ DOMAIN Prefix(rs, n) = 1 .. n
         /\ \A i \in 1 .. n : Prefix(rs, n)[i] = rs[i]
         /\ Atomic!Entities(Prefix(rs, n + 1)) =
              Atomic!Entities(Prefix(rs, n)) \cup {CanonicalKey[rs[n + 1].key]}
<1>1. 1 .. n + 1 = (1 .. n) \cup {n + 1}
  OBVIOUS
<1>2. ASSUME NEW m \in Nat  PROVE Atomic!Entities(Prefix(rs, m)) = {CanonicalKey[rs[i].key] : i \in 1 .. m}
  BY DEF Atomic!Entities, Prefix
<1>3. Atomic!Entities(Prefix(rs, n + 1)) = {CanonicalKey[rs[i].key] : i \in (1 .. n) \cup {n + 1}}
  BY <1>1, <1>2
<1>4. {CanonicalKey[rs[i].key] : i \in (1 .. n) \cup {n + 1}} =
        {CanonicalKey[rs[i].key] : i \in 1 .. n} \cup {CanonicalKey[rs[n + 1].key]}
  OBVIOUS
<1>. QED  BY <1>2, <1>3, <1>4 DEF Prefix

LEMMA EmptyLearned ==
  ASSUME NEW rs
  PROVE  Atomic!Learned(<< >>, Prefix(rs, 0)) = << >>
<1>1. Atomic!Entities(Prefix(rs, 0)) = {}
  BY DEF Atomic!Entities, Prefix
<1>2. DOMAIN << >> = {}
  OBVIOUS
<1>3. Atomic!Learned(<< >>, Prefix(rs, 0)) = [k \in {} |->
        [a \in Attr |-> Atomic!Last(Prefix(rs, 0), k, a, IF k \in DOMAIN << >> THEN << >>[k][a] ELSE Null)]]
  BY <1>1, <1>2 DEF Atomic!Learned
<1>. QED  BY <1>3

\* To absorb a record is to learn it.
LEMMA AbsorbedIsLearned ==
  ASSUME NEW rs, NEW n \in Nat
  PROVE  Absorbed(Atomic!Learned(<< >>, Prefix(rs, n)), rs[n + 1]) =
           Atomic!Learned(<< >>, Prefix(rs, n + 1))
<1>. DEFINE s == Prefix(rs, n)
            t == Prefix(rs, n + 1)
            x == Atomic!Learned(<< >>, s)
            y == Atomic!Learned(<< >>, t)
            r == rs[n + 1]
            key == CanonicalKey[r.key]
            z == Absorbed(x, r)
<1>0. IsLearned(x, << >>, s) /\ IsLearned(y, << >>, t)
  BY LearnedFacts
<1>1. n + 1 \in Nat /\ n + 1 \in 1 .. n + 1 /\ \A i \in 1 .. n : i \in 1 .. n + 1
  OBVIOUS
<1>2. /\ DOMAIN s = 1 .. n /\ DOMAIN t = 1 .. n + 1 /\ t[n + 1] = r
      /\ \A i \in 1 .. n : t[i] = s[i]
  BY <1>1, PrefixFacts
<1>3. Atomic!Entities(t) = Atomic!Entities(s) \cup {key}
  BY PrefixFacts
<1>4. DOMAIN z = DOMAIN x \cup {key} /\ IsAssets(x)
  BY <1>0 DEF Absorbed, IsLearned
<1>5. \A k \in DOMAIN z :
        z[k] = IF k # key THEN x[k]
               ELSE Merged(IF k \in DOMAIN x THEN x[k] ELSE Unknown, r.attributes)
  BY DEF Absorbed
<1>. HIDE DEF s, t, x, y, z, r
<1>6. DOMAIN << >> = {} /\ \A k, a : Before(<< >>, k, a) = Null
  BY DEF Before
<1>7. /\ DOMAIN x = Atomic!Entities(s)
      /\ \A k \in DOMAIN x : \A a \in Attr : x[k][a] = Atomic!Last(s, k, a, Null)
  BY <1>0, <1>6 DEF IsLearned
<1>8. /\ DOMAIN y = Atomic!Entities(t)
      /\ \A k \in DOMAIN y : \A a \in Attr : y[k][a] = Atomic!Last(t, k, a, Null)
      /\ IsAssets(y)
  BY <1>0, <1>6 DEF IsLearned
<1>9. DOMAIN z = DOMAIN y
  BY <1>3, <1>4, <1>7, <1>8
<1>10. IsAssets(z)
  <2>1. \A k \in DOMAIN z : z[k] = [a \in Attr |-> z[k][a]]
    BY <1>4, <1>5 DEF IsAssets, Merged
  <2>2. z = [k \in DOMAIN z |-> z[k]]
    BY DEF z, Absorbed
  <2>. QED  BY <2>1, <2>2 DEF IsAssets
<1>11. ASSUME NEW k \in DOMAIN z, NEW a \in Attr  PROVE z[k][a] = y[k][a]
  <2>1. y[k][a] = IF Knows(r, k, a) THEN r.attributes[a] ELSE Atomic!Last(s, k, a, Null)
    BY <1>2, <1>8, <1>9, <1>11, LastNext
  <2>2. CASE k # key
    BY <1>4, <1>5, <1>7, <1>11, <2>1, <2>2 DEF Knows
  <2>3. CASE k = key /\ k \in DOMAIN x
    <3>1. z[k][a] = IF r.attributes[a] # Null THEN r.attributes[a] ELSE x[k][a]
      BY <1>5, <1>11, <2>3 DEF Merged
    <3>. QED  BY <1>7, <1>11, <2>1, <2>3, <3>1 DEF Knows
  <2>4. CASE k = key /\ k \notin DOMAIN x
    <3>1. z[k][a] = IF r.attributes[a] # Null THEN r.attributes[a] ELSE Null
      BY <1>5, <1>11, <2>4 DEF Merged, Unknown
    <3>2. Atomic!Last(s, k, a, Null) = Null
      <4>1. \A j \in 1 .. n : ~Knows(s[j], k, a)
        BY <1>2, <1>7, <2>4 DEF Knows, Atomic!Entities
      <4>. QED  BY <1>2, <4>1, LastIsNot
    <3>. QED  BY <2>1, <2>4, <3>1, <3>2 DEF Knows
  <2>. QED  BY <2>2, <2>3, <2>4
<1>12. z = y
  BY <1>8, <1>9, <1>10, <1>11, AssetsEqual
<1>. QED  BY <1>12 DEF z, y, x, s, t, r

LEMMA FoldIsLearned ==
  ASSUME NEW rs, Len(rs) \in Nat, NEW f, IsFold(f, rs), NEW n \in 0 .. Len(rs)
  PROVE  f[n] = Atomic!Learned(<< >>, Prefix(rs, n))
<1>. DEFINE P == {m \in Nat : m <= Len(rs) => f[m] = Atomic!Learned(<< >>, Prefix(rs, m))}
<1>1. 0 \in P
  <2>1. f[0] = << >>
    BY DEF IsFold
  <2>. QED  BY <2>1, EmptyLearned
<1>2. ASSUME NEW m \in Nat, m \in P  PROVE m + 1 \in P
  <2>1. SUFFICES ASSUME m + 1 <= Len(rs)
                 PROVE  f[m + 1] = Atomic!Learned(<< >>, Prefix(rs, m + 1))
    OBVIOUS
  <2>2. f[m] = Atomic!Learned(<< >>, Prefix(rs, m))
    BY <1>2, <2>1
  <2>3. f[m + 1] = Absorbed(f[m], rs[m + 1])
    <3>1. m + 1 \in 0 .. Len(rs) /\ m + 1 # 0 /\ (m + 1) - 1 = m
      BY <2>1
    <3>. QED  BY <3>1 DEF IsFold
  <2>. QED  BY <2>2, <2>3, AbsorbedIsLearned
<1>3. Nat \subseteq P
  <2>. HIDE DEF P
  <2>. QED  BY <1>1, <1>2, SetInduction
<1>. QED  BY <1>3

LEMMA FoldExists ==
  ASSUME NEW rs, Len(rs) \in Nat
  PROVE  \E f : IsFold(f, rs)
<1>. DEFINE f == [n \in 0 .. Len(rs) |-> Atomic!Learned(<< >>, Prefix(rs, n))]
<1>1. ASSUME NEW n \in 0 .. Len(rs)
      PROVE  f[n] = IF n = 0 THEN << >> ELSE Absorbed(f[n - 1], rs[n])
  <2>1. CASE n = 0
    BY <2>1, EmptyLearned
  <2>2. CASE n # 0
    <3>1. n - 1 \in Nat /\ n - 1 \in 0 .. Len(rs) /\ (n - 1) + 1 = n
      BY <2>2
    <3>2. Absorbed(Atomic!Learned(<< >>, Prefix(rs, n - 1)), rs[(n - 1) + 1]) =
            Atomic!Learned(<< >>, Prefix(rs, (n - 1) + 1))
      BY <3>1, AbsorbedIsLearned
    <3>. QED  BY <2>2, <3>1, <3>2
  <2>. QED  BY <2>1, <2>2
<1>2. IsFold(f, rs)
  BY <1>1 DEF IsFold
<1>. QED  BY <1>2

\* The normalizer's fold gives each entity the last value reported of each attribute.
THEOREM NormalizedIsLearned ==
  ASSUME NEW batch \in Batch
  PROVE  /\ Normalized(batch) = Atomic!Learned(<< >>, batch.records)
         /\ NormalizedSources(batch) = Atomic!Sources(batch.records)
<1>. DEFINE rs == batch.records
            entities[n \in 0 .. Len(rs)] ==
              IF n = 0 THEN << >>
              ELSE LET before == entities[n - 1]
                       key == CanonicalKey[rs[n].key]
                   IN [k \in DOMAIN before \cup {key} |->
                         IF k # key THEN before[k]
                         ELSE Merged(IF k \in DOMAIN before THEN before[k] ELSE Unknown,
                                     rs[n].attributes)]
<1>1. entities = CHOOSE f : IsFold(f, rs)
  BY DEF IsFold, Absorbed
<1>2. Normalized(batch) = entities[Len(rs)]
  BY DEF Normalized
<1>. HIDE DEF entities
<1>3. rs \in Seq([key : Spelling, attributes : [Attr -> Value \cup {Null}], tool : Tool \cup {Null}])
  BY StoreAssumption
<1>. HIDE DEF rs
<1>4. Len(rs) \in Nat /\ Len(rs) \in 0 .. Len(rs)
  BY <1>3
<1>5. IsFold(entities, rs)
  BY <1>1, <1>4, FoldExists
<1>6. entities[Len(rs)] = Atomic!Learned(<< >>, Prefix(rs, Len(rs)))
  BY <1>4, <1>5, FoldIsLearned
<1>7. Prefix(rs, Len(rs)) = rs
  BY <1>3 DEF Prefix
<1>8. NormalizedSources(batch) = Atomic!Sources(rs)
  BY DEF NormalizedSources, Atomic!Sources, rs
<1>. QED  BY <1>2, <1>6, <1>7, <1>8 DEF rs

-----------------------------------------------------------------------------
\* An open transaction: what the connection sees is what was committed, with the
\* statements of the operation that are not left to execute.
IsDb(d) ==
  d = [run |-> d.run, target |-> d.target, asset |-> d.asset, provenance |-> d.provenance,
       relation |-> d.relation, finding |-> d.finding]

SameContents(d, e) ==
  /\ d.asset = e.asset
  /\ d.provenance = e.provenance
  /\ d.relation = e.relation

StartPart ==
  /\ todo \subseteq StartStatements /\ records = NoRecords
  /\ work.run = IF <<"run">> \in todo THEN "none" ELSE "running"
  /\ work.target = {t \in Target : <<"target", t>> \notin todo}
  /\ <<"run">> \in todo => work.target = {}
  /\ SameContents(work, db) /\ work.finding = db.finding

\* A single statement, not yet executed or executed.
FinishPart ==
  /\ todo \subseteq FinishStatements(Outcome) /\ records = NoRecords
  /\ work.run = IF todo # {} \/ db.run = "none" THEN db.run ELSE Outcome
  /\ work.target = db.target
  /\ SameContents(work, db) /\ work.finding = db.finding

ClearPart ==
  /\ todo \subseteq ClearStatements(FindingsOf(AiStages)) /\ records = NoRecords
  /\ work.run = db.run /\ work.target = db.target
  /\ SameContents(work, db)
  /\ work.finding = IF todo # {} THEN db.finding ELSE db.finding \ FindingsOf(AiStages)

FindingPart ==
  /\ todo \subseteq FindingStatements(<<Head(left), process>>) /\ records = NoRecords
  /\ work.run = db.run /\ work.target = db.target
  /\ SameContents(work, db)
  /\ work.finding = IF todo # {} THEN db.finding ELSE db.finding \cup {<<Head(left), process>>}
  /\ todo = {} => db.run # "none"

\* The entities of a batch that are upserted, and the ends of its relations.
Upserted(batch) ==
  {k \in DOMAIN Normalized(batch) : <<"asset", k, Normalized(batch)[k]>> \notin todo}
Ends(batch) == {<<CanonicalKey[r[1]], CanonicalKey[r[2]]>> :
                  r \in {q \in batch.relations : <<"relation", q[1], q[2]>> \notin todo}}

PersistPart(batch) ==
  /\ todo \subseteq PersistStatements(batch)
  /\ records = batch.records
  /\ work.run = db.run /\ work.target = db.target /\ work.finding = db.finding
  /\ DOMAIN work.asset = DOMAIN db.asset \cup Upserted(batch)
  /\ IsAssets(work.asset)
  /\ \A k \in DOMAIN work.asset :
       work.asset[k] = IF k \in Upserted(batch)
                       THEN Atomic!Learned(db.asset, batch.records)[k] ELSE db.asset[k]
  /\ work.provenance =
       db.provenance \cup {s \in NormalizedSources(batch) : <<"source", s[1], s[2]>> \notin todo}
  /\ work.relation =
       db.relation \cup {e \in Ends(batch) : {e[1], e[2]} \subseteq DOMAIN work.asset}
  /\ \A s \in NormalizedSources(batch) :
       <<"source", s[1], s[2]>> \notin todo => s[1] \in Upserted(batch)
  /\ Ends(batch) # {} => Upserted(batch) = DOMAIN Normalized(batch)
  /\ todo # PersistStatements(batch) => db.run # "none"

TransactionInv ==
  open => \/ pc = "start" /\ StartPart
          \/ pc = "clear" /\ ClearPart
          \/ pc = "finish" /\ FinishPart
          \/ pc = "stages" /\ left # << >> /\ FindingPart
          \/ pc = "stages" /\ left # << >> /\ Head(left) \in ToolStages
               /\ \E batch \in Batch : PersistPart(batch)

TheRecords == [key : Spelling, attributes : [Attr -> Value \cup {Null}], tool : Tool \cup {Null}]

\* What is committed.
CommittedInv ==
  /\ IsDb(db) /\ IsDb(work)
  /\ history \in Seq(TheRecords) /\ records \in Seq(TheRecords)
  /\ StoredIsMerged
  /\ \A e \in db.relation : {e[1], e[2]} \subseteq DOMAIN db.asset
  /\ db.run = "none" => db = Atomic!Empty
  /\ ~open => work = db /\ todo = {}

\* Where a process is, and what that tells of the run.
LifeInv ==
  /\ process \in 0 .. MaxProcesses /\ (process = 0 => pc = "idle" /\ db.run = "none")
  /\ kind \in {"none", "scan", "analysis"}
  /\ pc = "idle" <=> kind = "none"
  /\ pc \in {"start", "finish"} => kind = "scan"
  /\ pc = "clear" => kind = "analysis"
  /\ pc \in {"idle", "start", "clear", "stages", "finish", "report"}
  /\ pc = "start" => db.run = "none"
  /\ kind = "scan" => process = 1
  /\ left \in Seq(Stage)
  /\ kind = "analysis" => left \in Seq(AiStages)
  /\ statuses \subseteq {"success", "skipped", "failed"}
  /\ kind = "scan" /\ pc \in {"stages", "finish"} =>
       db.run = "running" /\ Elements(ScanStages) \subseteq ran \cup Elements(left)
  /\ pc = "finish" => left = << >>

\* Whose the findings are.
FindingsInv ==
  /\ db.finding \subseteq Finding
  /\ \A f \in db.finding : f[2] <= process
  /\ NoPileUp

-----------------------------------------------------------------------------
\* The statements.
LEMMA ExecutedFacts ==
  /\ Executed(<<"run">>) = [work EXCEPT !.run = "running"]
  /\ \A t : Executed(<<"target", t>>) = [work EXCEPT !.target = @ \cup {t}]
  /\ \A st : Executed(<<"status", st>>) = [work EXCEPT !.run = IF @ = "none" THEN @ ELSE st]
  /\ \A k, v : Executed(<<"asset", k, v>>) = [work EXCEPT !.asset = UpsertAsset(@, k, v)]
  /\ \A k, t : Executed(<<"source", k, t>>) = [work EXCEPT !.provenance = @ \cup {<<k, t>>}]
  /\ \A x, y : Executed(<<"relation", x, y>>) = [work EXCEPT !.relation = UpsertRelation(@, x, y)]
  /\ \A f : Executed(<<"finding", f>>) = [work EXCEPT !.finding = @ \cup {f}]
  /\ \A fs : Executed(<<"clear", fs>>) = [work EXCEPT !.finding = @ \ fs]
BY DEF Executed

LEMMA AllowedFacts ==
  /\ Allowed(<<"run">>) <=> work.run = "none"
  /\ \A t : Allowed(<<"target", t>>) => work.run # "none"
  /\ \A k, v : Allowed(<<"asset", k, v>>) => work.run # "none"
  /\ \A k, v : Allowed(<<"source", k, v>>) => work.run # "none"
  /\ \A k, v : Allowed(<<"relation", k, v>>) => work.run # "none"
  /\ \A f : Allowed(<<"finding", f>>) => work.run # "none"
BY DEF Allowed

\* A record with one field changed.
LEMMA WithRun ==
  ASSUME NEW d, IsDb(d), NEW v, NEW e, e = [d EXCEPT !.run = v]
  PROVE  /\ IsDb(e) /\ e.run = v /\ e.target = d.target /\ e.finding = d.finding
         /\ SameContents(e, d)
BY DEF IsDb, SameContents

LEMMA WithTarget ==
  ASSUME NEW d, IsDb(d), NEW v, NEW e, e = [d EXCEPT !.target = v]
  PROVE  /\ IsDb(e) /\ e.run = d.run /\ e.target = v /\ e.finding = d.finding
         /\ SameContents(e, d)
BY DEF IsDb, SameContents

LEMMA WithFinding ==
  ASSUME NEW d, IsDb(d), NEW v, NEW e, e = [d EXCEPT !.finding = v]
  PROVE  /\ IsDb(e) /\ e.run = d.run /\ e.target = d.target /\ e.finding = v
         /\ SameContents(e, d)
BY DEF IsDb, SameContents

LEMMA WithAsset ==
  ASSUME NEW d, IsDb(d), NEW v, NEW e, e = [d EXCEPT !.asset = v]
  PROVE  /\ IsDb(e) /\ e.run = d.run /\ e.target = d.target /\ e.finding = d.finding
         /\ e.asset = v /\ e.provenance = d.provenance /\ e.relation = d.relation
BY DEF IsDb

LEMMA WithProvenance ==
  ASSUME NEW d, IsDb(d), NEW v, NEW e, e = [d EXCEPT !.provenance = v]
  PROVE  /\ IsDb(e) /\ e.run = d.run /\ e.target = d.target /\ e.finding = d.finding
         /\ e.asset = d.asset /\ e.provenance = v /\ e.relation = d.relation
BY DEF IsDb

LEMMA WithRelation ==
  ASSUME NEW d, IsDb(d), NEW v, NEW e, e = [d EXCEPT !.relation = v]
  PROVE  /\ IsDb(e) /\ e.run = d.run /\ e.target = d.target /\ e.finding = d.finding
         /\ e.asset = d.asset /\ e.provenance = d.provenance /\ e.relation = v
BY DEF IsDb

LEMMA SameDb ==
  ASSUME NEW d, NEW e, IsDb(d), IsDb(e), d.run = e.run, d.target = e.target,
         d.finding = e.finding, SameContents(d, e)
  PROVE  d = e
BY DEF IsDb, SameContents

-----------------------------------------------------------------------------
\* One more statement of a short operation.
LEMMA StartExecutes ==
  ASSUME CommittedInv, StartPart, db.run = "none", NEW s, Execute(s), UNCHANGED lifeVars
  PROVE  StartPart' /\ IsDb(work')
<1>1. /\ s \in todo /\ Ready(s) /\ Allowed(s) /\ work' = Executed(s) /\ todo' = todo \ {s}
      /\ db' = db /\ records' = records /\ IsDb(work)
  BY DEF Execute, CommittedInv
<1>2. s = <<"run">> \/ \E t \in Target : s = <<"target", t>>
  BY <1>1 DEF StartPart, StartStatements
<1>3. \A t, u : /\ <<"target", t>> # <<"run">>
                /\ <<"target", t>> = <<"target", u>> => t = u
  OBVIOUS
<1>4. CASE s = <<"run">>
  <2>1. work' = [work EXCEPT !.run = "running"]
    BY <1>1, <1>4, ExecutedFacts
  <2>2. /\ IsDb(work') /\ work'.run = "running" /\ work'.target = work.target
        /\ work'.finding = work.finding /\ SameContents(work', work)
    BY <1>1, <2>1, WithRun
  <2>3. /\ <<"run">> \notin todo'
        /\ {t \in Target : <<"target", t>> \notin todo'} = {t \in Target : <<"target", t>> \notin todo}
    BY <1>1, <1>3, <1>4
  <2>. QED  BY <1>1, <2>2, <2>3 DEF StartPart, SameContents
<1>5. CASE \E t \in Target : s = <<"target", t>>
  <2>1. PICK t \in Target : s = <<"target", t>>
    BY <1>5
  <2>2. work' = [work EXCEPT !.target = work.target \cup {t}]
    BY <1>1, <2>1, ExecutedFacts
  <2>3. /\ IsDb(work') /\ work'.run = work.run /\ work'.target = work.target \cup {t}
        /\ work'.finding = work.finding /\ SameContents(work', work)
    BY <1>1, <2>2, WithTarget
  <2>4. <<"run">> \notin todo
    BY <1>1, <2>1 DEF Ready
  <2>5. /\ <<"run">> \notin todo'
        /\ {u \in Target : <<"target", u>> \notin todo'} =
             {u \in Target : <<"target", u>> \notin todo} \cup {t}
    BY <1>1, <1>3, <2>1, <2>4
  <2>. QED  BY <1>1, <2>3, <2>4, <2>5 DEF StartPart, SameContents
<1>. QED  BY <1>2, <1>4, <1>5

LEMMA ClearExecutes ==
  ASSUME CommittedInv, ClearPart, NEW s, Execute(s), UNCHANGED lifeVars
  PROVE  ClearPart' /\ IsDb(work')
<1>1. /\ s \in todo /\ work' = Executed(s) /\ todo' = todo \ {s}
      /\ db' = db /\ records' = records /\ IsDb(work)
  BY DEF Execute, CommittedInv
<1>2. s = <<"clear", FindingsOf(AiStages)>> /\ todo' = {} /\ todo # {}
  BY <1>1 DEF ClearPart, ClearStatements
<1>3. work' = [work EXCEPT !.finding = work.finding \ FindingsOf(AiStages)]
  BY <1>1, <1>2, ExecutedFacts
<1>4. /\ IsDb(work') /\ work'.run = work.run /\ work'.target = work.target
      /\ work'.finding = work.finding \ FindingsOf(AiStages) /\ SameContents(work', work)
  BY <1>1, <1>3, WithFinding
<1>. QED  BY <1>1, <1>2, <1>4 DEF ClearPart, SameContents

LEMMA FinishExecutes ==
  ASSUME CommittedInv, FinishPart, NEW s, Execute(s), UNCHANGED lifeVars
  PROVE  FinishPart' /\ IsDb(work')
<1>1. /\ s \in todo /\ work' = Executed(s) /\ todo' = todo \ {s}
      /\ db' = db /\ records' = records /\ IsDb(work)
  BY DEF Execute, CommittedInv
<1>2. s = <<"status", Outcome>> /\ todo' = {} /\ todo # {} /\ Outcome' = Outcome
  BY <1>1 DEF FinishPart, FinishStatements, Outcome, lifeVars
<1>3. work' = [work EXCEPT !.run = IF work.run = "none" THEN work.run ELSE Outcome]
  BY <1>1, <1>2, ExecutedFacts
<1>4. /\ IsDb(work') /\ work'.run = IF work.run = "none" THEN work.run ELSE Outcome
      /\ work'.target = work.target
      /\ work'.finding = work.finding /\ SameContents(work', work)
  BY <1>1, <1>3, WithRun
<1>. QED  BY <1>1, <1>2, <1>4 DEF FinishPart, SameContents

LEMMA FindingExecutes ==
  ASSUME CommittedInv, FindingPart, NEW s, Execute(s), UNCHANGED lifeVars
  PROVE  FindingPart' /\ IsDb(work')
<1>1. /\ s \in todo /\ Allowed(s) /\ work' = Executed(s) /\ todo' = todo \ {s}
      /\ db' = db /\ records' = records /\ IsDb(work)
      /\ left' = left /\ process' = process
  BY DEF Execute, CommittedInv, lifeVars
<1>. DEFINE f == <<Head(left), process>>
<1>2. s = <<"finding", f>> /\ todo' = {} /\ todo # {}
  BY <1>1 DEF FindingPart, FindingStatements
<1>3. work' = [work EXCEPT !.finding = work.finding \cup {f}] /\ work.run # "none"
  BY <1>1, <1>2, ExecutedFacts, AllowedFacts
<1>4. /\ IsDb(work') /\ work'.run = work.run /\ work'.target = work.target
      /\ work'.finding = work.finding \cup {f} /\ SameContents(work', work)
  <2>. HIDE DEF f
  <2>. QED  BY <1>1, <1>3, WithFinding
<1>. QED  BY <1>1, <1>2, <1>3, <1>4 DEF FindingPart, SameContents

-----------------------------------------------------------------------------
\* One more statement of a batch.
LEMMA PersistKinds ==
  ASSUME NEW batch \in Batch, NEW s \in PersistStatements(batch)
  PROVE  \/ \E k \in DOMAIN Normalized(batch) : s = <<"asset", k, Normalized(batch)[k]>>
         \/ \E x \in NormalizedSources(batch) : s = <<"source", x[1], x[2]>>
         \/ \E q \in batch.relations : s = <<"relation", q[1], q[2]>>
BY DEF PersistStatements

LEMMA BatchFacts ==
  ASSUME NEW batch \in Batch
  PROVE  /\ batch.records \in Seq(TheRecords)
         /\ batch.relations \subseteq Spelling \X Spelling
         /\ IsAssets(Normalized(batch))
         /\ DOMAIN Normalized(batch) = Atomic!Entities(batch.records)
         /\ \A x \in NormalizedSources(batch) :
              x = <<x[1], x[2]>> /\ x[1] \in DOMAIN Normalized(batch)
<1>1. batch.records \in Seq(TheRecords) /\ batch.relations \subseteq Spelling \X Spelling
  BY StoreAssumption DEF TheRecords
<1>2. IsLearned(Normalized(batch), << >>, batch.records)
  BY NormalizedIsLearned, LearnedFacts
<1>3. DOMAIN << >> = {}
  OBVIOUS
<1>4. IsAssets(Normalized(batch)) /\ DOMAIN Normalized(batch) = Atomic!Entities(batch.records)
  BY <1>2, <1>3 DEF IsLearned
<1>5. ASSUME NEW x \in NormalizedSources(batch)
      PROVE  x = <<x[1], x[2]>> /\ x[1] \in Atomic!Entities(batch.records)
  BY <1>5 DEF NormalizedSources, Atomic!Entities
<1>. QED  BY <1>1, <1>4, <1>5

LEMMA AssetExecutes ==
  ASSUME CommittedInv, NEW batch \in Batch, PersistPart(batch),
         NEW k \in DOMAIN Normalized(batch), Execute(<<"asset", k, Normalized(batch)[k]>>)
  PROVE  PersistPart(batch)' /\ IsDb(work')
<1>. DEFINE e == Normalized(batch)
            l == Atomic!Learned(db.asset, batch.records)
            s == <<"asset", k, e[k]>>
<1>1. /\ s \in todo /\ Allowed(s) /\ work' = Executed(s) /\ todo' = todo \ {s}
      /\ db' = db /\ records' = records /\ IsDb(work)
  BY DEF Execute, CommittedInv
<1>2. IsAssets(db.asset)
  <2>1. db.asset = Atomic!Learned(<< >>, history)
    BY DEF CommittedInv, StoredIsMerged
  <2>2. IsLearned(db.asset, << >>, history)
    BY <2>1, LearnedFacts
  <2>. QED  BY <2>2 DEF IsLearned
<1>3. e = Atomic!Learned(<< >>, batch.records) /\ batch.records \in Seq(TheRecords)
  BY NormalizedIsLearned, BatchFacts
<1>. HIDE DEF e
<1>4. \A j \in DOMAIN db.asset \cup DOMAIN e :
        l[j] = IF j \notin DOMAIN e THEN db.asset[j]
               ELSE IF j \in DOMAIN db.asset THEN Merged(db.asset[j], e[j]) ELSE e[j]
  BY <1>2, <1>3, MergedIsLearned
<1>. HIDE DEF l
<1>5. work' = [work EXCEPT !.asset = UpsertAsset(work.asset, k, e[k])] /\ work.run # "none"
  BY <1>1, ExecutedFacts, AllowedFacts
<1>6. /\ IsDb(work') /\ work'.run = work.run /\ work'.target = work.target
      /\ work'.finding = work.finding /\ work'.asset = UpsertAsset(work.asset, k, e[k])
      /\ work'.provenance = work.provenance /\ work'.relation = work.relation
  BY <1>1, <1>5, WithAsset
<1>7. /\ Upserted(batch) = {j \in DOMAIN e : <<"asset", j, e[j]>> \notin todo}
      /\ Upserted(batch)' = {j \in DOMAIN e : <<"asset", j, e[j]>> \notin todo'}
  BY DEF Upserted, e
<1>8. \A j : <<"asset", j, e[j]>> = s => j = k
  OBVIOUS
<1>9. Upserted(batch)' = Upserted(batch) \cup {k} /\ k \notin Upserted(batch) /\ k \in DOMAIN e
  BY <1>1, <1>7, <1>8 DEF e
<1>10. Ends(batch) = {} /\ Ends(batch)' = Ends(batch)
  <2>1. Ends(batch) = {}
    BY <1>9 DEF PersistPart, e
  <2>2. \A x, y : <<"relation", x, y>> # s
    OBVIOUS
  <2>3. Ends(batch)' = Ends(batch)
    BY <1>1, <2>2 DEF Ends
  <2>. QED  BY <2>1, <2>3
<1>11. {x \in NormalizedSources(batch) : <<"source", x[1], x[2]>> \notin todo'} =
         {x \in NormalizedSources(batch) : <<"source", x[1], x[2]>> \notin todo}
  <2>1. \A x, y : <<"source", x, y>> # s
    OBVIOUS
  <2>. QED  BY <1>1, <2>1
<1>12. /\ DOMAIN work'.asset = DOMAIN work.asset \cup {k}
       /\ \A j \in DOMAIN work'.asset :
            work'.asset[j] = IF j # k THEN work.asset[j]
                             ELSE IF k \in DOMAIN work.asset THEN Merged(work.asset[k], e[k]) ELSE e[k]
       /\ work'.asset = [j \in DOMAIN work'.asset |-> work'.asset[j]]
  BY <1>6 DEF UpsertAsset
<1>13. IsAssets(work'.asset)
  <2>1. IsAssets(e) /\ IsAssets(work.asset)
    BY BatchFacts DEF PersistPart, e
  <2>2. e[k] = [a \in Attr |-> e[k][a]] /\ \A j \in DOMAIN work.asset : work.asset[j] = [a \in Attr |-> work.asset[j][a]]
    BY <1>9, <2>1 DEF IsAssets
  <2>3. \A v, w : Merged(v, w) = [a \in Attr |-> Merged(v, w)[a]]
    BY DEF Merged
  <2>4. \A j \in DOMAIN work'.asset : work'.asset[j] = [a \in Attr |-> work'.asset[j][a]]
    BY <1>12, <2>2, <2>3
  <2>. QED  BY <1>12, <2>4 DEF IsAssets
<1>14. ASSUME NEW j \in DOMAIN work'.asset
       PROVE  work'.asset[j] = IF j \in Upserted(batch)' THEN l[j] ELSE db.asset[j]
  <2>1. DOMAIN work.asset = DOMAIN db.asset \cup Upserted(batch)
    BY DEF PersistPart
  <2>2. \A i \in DOMAIN work.asset :
          work.asset[i] = IF i \in Upserted(batch) THEN l[i] ELSE db.asset[i]
    BY DEF PersistPart, l
  <2>3. CASE j # k
    BY <1>9, <1>12, <1>14, <2>2, <2>3
  <2>4. CASE j = k
    <3>1. k \in DOMAIN work.asset <=> k \in DOMAIN db.asset
      BY <1>9, <2>1
    <3>2. k \in DOMAIN work.asset => work.asset[k] = db.asset[k]
      BY <1>9, <2>2
    <3>3. work'.asset[k] = IF k \in DOMAIN db.asset THEN Merged(db.asset[k], e[k]) ELSE e[k]
      BY <1>12, <1>14, <2>4, <3>1, <3>2
    <3>. QED  BY <1>4, <1>9, <2>4, <3>3
  <2>. QED  BY <2>3, <2>4
<1>15. todo' \subseteq PersistStatements(batch) /\ db.run # "none"
  BY <1>1, <1>5 DEF PersistPart
<1>. QED
  <2>1. DOMAIN work'.asset = DOMAIN db'.asset \cup Upserted(batch)'
    BY <1>1, <1>9, <1>12 DEF PersistPart
  <2>2. \A j \in DOMAIN work'.asset :
          work'.asset[j] = IF j \in Upserted(batch)' THEN Atomic!Learned(db'.asset, batch.records)[j]
                           ELSE db'.asset[j]
    BY <1>1, <1>14 DEF l
  <2>3. \A x \in NormalizedSources(batch) :
          <<"source", x[1], x[2]>> \notin todo' => x[1] \in Upserted(batch)'
    BY <1>9, <1>11 DEF PersistPart
  <2>. QED  BY <1>1, <1>6, <1>10, <1>11, <1>13, <1>15, <2>1, <2>2, <2>3 DEF PersistPart

LEMMA SourceExecutes ==
  ASSUME CommittedInv, NEW batch \in Batch, PersistPart(batch),
         NEW x \in NormalizedSources(batch), Execute(<<"source", x[1], x[2]>>)
  PROVE  PersistPart(batch)' /\ IsDb(work')
<1>. DEFINE s == <<"source", x[1], x[2]>>
<1>1. /\ s \in todo /\ Ready(s) /\ Allowed(s) /\ work' = Executed(s) /\ todo' = todo \ {s}
      /\ db' = db /\ records' = records /\ IsDb(work)
  BY DEF Execute, CommittedInv
<1>2. x = <<x[1], x[2]>> /\ x[1] \in DOMAIN Normalized(batch)
  BY BatchFacts
<1>3. /\ work' = [work EXCEPT !.provenance = work.provenance \cup {x}]
      /\ work.run # "none"
  BY <1>1, <1>2, ExecutedFacts, AllowedFacts
<1>4. /\ IsDb(work') /\ work'.run = work.run /\ work'.target = work.target
      /\ work'.finding = work.finding /\ work'.asset = work.asset
      /\ work'.provenance = work.provenance \cup {x} /\ work'.relation = work.relation
  BY <1>1, <1>3, WithProvenance
<1>5. \A k, v : <<"asset", k, v>> # s /\ <<"relation", k, v>> # s
  OBVIOUS
<1>6. Upserted(batch)' = Upserted(batch) /\ Ends(batch)' = Ends(batch)
  BY <1>1, <1>5 DEF Upserted, Ends
<1>7. x[1] \in Upserted(batch)
  <2>1. \A o \in todo : o[1] = "asset" => o[2] # x[1]
    BY <1>1 DEF Ready
  <2>2. <<"asset", x[1], Normalized(batch)[x[1]]>> \notin todo
    BY <2>1
  <2>. QED  BY <1>2, <2>2 DEF Upserted
<1>8. {y \in NormalizedSources(batch) : <<"source", y[1], y[2]>> \notin todo'} =
        {y \in NormalizedSources(batch) : <<"source", y[1], y[2]>> \notin todo} \cup {x}
  <2>1. \A y \in NormalizedSources(batch) : <<"source", y[1], y[2]>> = s => y = x
    BY BatchFacts
  <2>. QED  BY <1>1, <2>1
<1>. QED  BY <1>1, <1>3, <1>4, <1>6, <1>7, <1>8 DEF PersistPart

LEMMA RelationExecutes ==
  ASSUME CommittedInv, NEW batch \in Batch, PersistPart(batch),
         NEW q \in batch.relations, Execute(<<"relation", q[1], q[2]>>)
  PROVE  PersistPart(batch)' /\ IsDb(work')
<1>. DEFINE s == <<"relation", q[1], q[2]>>
            e == <<CanonicalKey[q[1]], CanonicalKey[q[2]]>>
            kept == IF {e[1], e[2]} \subseteq DOMAIN work.asset THEN {e} ELSE {}
<1>1. /\ s \in todo /\ Ready(s) /\ Allowed(s) /\ work' = Executed(s) /\ todo' = todo \ {s}
      /\ db' = db /\ records' = records /\ IsDb(work)
  BY DEF Execute, CommittedInv
<1>2. UpsertRelation(work.relation, q[1], q[2]) = work.relation \cup kept
  BY DEF UpsertRelation
<1>. HIDE DEF kept
<1>3. /\ work' = [work EXCEPT !.relation = work.relation \cup kept]
      /\ work.run # "none"
  <2>1. Executed(s) = [work EXCEPT !.relation = UpsertRelation(work.relation, q[1], q[2])]
    BY ExecutedFacts
  <2>2. work.run # "none"
    BY <1>1, AllowedFacts
  <2>. QED  BY <1>1, <1>2, <2>1, <2>2
<1>4. /\ IsDb(work') /\ work'.run = work.run /\ work'.target = work.target
      /\ work'.finding = work.finding /\ work'.asset = work.asset
      /\ work'.provenance = work.provenance /\ work'.relation = work.relation \cup kept
  BY <1>1, <1>3, WithRelation
<1>5. \A k, v : <<"asset", k, v>> # s /\ <<"source", k, v>> # s
  OBVIOUS
<1>6. Upserted(batch)' = Upserted(batch)
  BY <1>1, <1>5 DEF Upserted
<1>7. Ends(batch)' = Ends(batch) \cup {e}
  <2>1. \A r \in batch.relations : <<"relation", r[1], r[2]>> = s => r[1] = q[1] /\ r[2] = q[2]
    OBVIOUS
  <2>2. {r \in batch.relations : <<"relation", r[1], r[2]>> \notin todo'} =
          {r \in batch.relations : <<"relation", r[1], r[2]>> \notin todo}
            \cup {r \in batch.relations : <<"relation", r[1], r[2]>> = s}
    BY <1>1
  <2>. QED  BY <2>1, <2>2 DEF Ends
<1>8. {d \in Ends(batch)' : {d[1], d[2]} \subseteq DOMAIN work'.asset} =
        {d \in Ends(batch) : {d[1], d[2]} \subseteq DOMAIN work.asset} \cup kept
  BY <1>4, <1>7 DEF kept
<1>9. Upserted(batch) = DOMAIN Normalized(batch)
  <2>1. \A o \in todo : o[1] # "asset"
    BY <1>1 DEF Ready
  <2>2. \A k, v : <<"asset", k, v>> \notin todo
    BY <2>1
  <2>. QED  BY <2>2 DEF Upserted
<1>10. {y \in NormalizedSources(batch) : <<"source", y[1], y[2]>> \notin todo'} =
         {y \in NormalizedSources(batch) : <<"source", y[1], y[2]>> \notin todo}
  BY <1>1, <1>5
<1>. QED  BY <1>1, <1>3, <1>4, <1>6, <1>8, <1>9, <1>10 DEF PersistPart

LEMMA PersistExecutes ==
  ASSUME CommittedInv, NEW batch \in Batch, PersistPart(batch), NEW s, Execute(s)
  PROVE  PersistPart(batch)' /\ IsDb(work')
<1>1. s \in PersistStatements(batch)
  BY DEF Execute, PersistPart
<1>. QED  BY <1>1, PersistKinds, AssetExecutes, SourceExecutes, RelationExecutes

-----------------------------------------------------------------------------
\* What is committed stays what the records say.
LEMMA StoredAssets ==
  ASSUME CommittedInv
  PROVE  /\ IsAssets(db.asset) /\ DOMAIN db.asset = Atomic!Entities(history)
         /\ \A x \in db.provenance : x = <<x[1], x[2]>> /\ x[1] \in DOMAIN db.asset
<1>1. db.asset = Atomic!Learned(<< >>, history) /\ db.provenance = Atomic!Sources(history)
  BY DEF CommittedInv, StoredIsMerged
<1>2. IsLearned(db.asset, << >>, history)
  BY <1>1, LearnedFacts
<1>3. DOMAIN << >> = {}
  OBVIOUS
<1>4. \A x \in Atomic!Sources(history) : x = <<x[1], x[2]>> /\ x[1] \in Atomic!Entities(history)
  BY DEF Atomic!Sources, Atomic!Entities
<1>. QED  BY <1>1, <1>2, <1>3, <1>4 DEF IsLearned

LEMMA PersistNothing ==
  ASSUME CommittedInv, NEW batch \in Batch, PersistPart(batch), todo = PersistStatements(batch)
  PROVE  work = db
<1>1. Upserted(batch) = {}
  BY DEF Upserted, PersistStatements
<1>2. Ends(batch) = {}
  BY DEF Ends, PersistStatements
<1>3. \A s \in NormalizedSources(batch) : <<"source", s[1], s[2]>> \in todo
  BY DEF PersistStatements
<1>4. work.provenance = db.provenance /\ work.relation = db.relation
  BY <1>2, <1>3 DEF PersistPart
<1>5. work.asset = db.asset
  <2>1. IsAssets(work.asset) /\ IsAssets(db.asset) /\ DOMAIN work.asset = DOMAIN db.asset
    BY <1>1, StoredAssets DEF PersistPart
  <2>2. \A k \in DOMAIN work.asset : work.asset[k] = db.asset[k]
    BY <1>1 DEF PersistPart
  <2>. QED  BY <2>1, <2>2, AssetsEqual
<1>. QED  BY <1>4, <1>5, SameDb DEF PersistPart, CommittedInv, SameContents

LEMMA PersistCommits ==
  ASSUME CommittedInv, NEW batch \in Batch, PersistPart(batch), todo = {}
  PROVE  /\ work.asset = Atomic!Learned(db.asset, batch.records)
         /\ work.provenance = db.provenance \cup Atomic!Sources(batch.records)
         /\ work.relation = db.relation \cup
              {e \in {<<CanonicalKey[r[1]], CanonicalKey[r[2]]>> : r \in batch.relations} :
                 {e[1], e[2]} \subseteq DOMAIN work.asset}
         /\ db.run = "none" => work = db
<1>. DEFINE l == Atomic!Learned(db.asset, batch.records)
<1>1. Upserted(batch) = DOMAIN Normalized(batch)
  BY DEF Upserted
<1>2. Ends(batch) = {<<CanonicalKey[r[1]], CanonicalKey[r[2]]>> : r \in batch.relations}
  BY DEF Ends
<1>3. IsLearned(l, db.asset, batch.records) /\ IsAssets(l)
  <2>1. IsLearned(l, db.asset, batch.records)
    BY LearnedFacts
  <2>. HIDE DEF l
  <2>. QED  BY <2>1 DEF IsLearned
<1>4. /\ Normalized(batch) = Atomic!Learned(<< >>, batch.records)
      /\ NormalizedSources(batch) = Atomic!Sources(batch.records)
      /\ batch.records \in Seq(TheRecords)
      /\ DOMAIN Normalized(batch) = Atomic!Entities(batch.records)
      /\ IsAssets(db.asset)
  BY NormalizedIsLearned, BatchFacts, StoredAssets
<1>5. work.asset = l
  <2>1. IsAssets(work.asset) /\ DOMAIN work.asset = DOMAIN db.asset \cup DOMAIN Normalized(batch)
    BY <1>1 DEF PersistPart
  <2>2. DOMAIN l = DOMAIN work.asset
    BY <1>3, <1>4, <2>1 DEF IsLearned
  <2>3. \A k \in DOMAIN work.asset : work.asset[k] = IF k \in DOMAIN Normalized(batch) THEN l[k] ELSE db.asset[k]
    BY <1>1 DEF PersistPart
  <2>4. \A k \in DOMAIN db.asset : k \notin DOMAIN Normalized(batch) => l[k] = db.asset[k]
    BY <1>4, MergedIsLearned
  <2>5. \A k \in DOMAIN work.asset : work.asset[k] = l[k]
    BY <2>1, <2>3, <2>4
  <2>. HIDE DEF l
  <2>. QED  BY <1>3, <2>1, <2>2, <2>5, AssetsEqual
<1>6. work.provenance = db.provenance \cup NormalizedSources(batch)
  BY DEF PersistPart
<1>7. db.run = "none" => work = db
  BY PersistNothing DEF PersistPart
<1>. QED  BY <1>2, <1>4, <1>5, <1>6, <1>7 DEF PersistPart

\* An operation that stores no records.
LEMMA ShortCommits ==
  ASSUME CommittedInv, Commit, records = NoRecords, SameContents(work, db),
         work.run = "none" => work = db
  PROVE  CommittedInv'
<1>1. /\ db' = work /\ work' = work /\ history' = history \o records /\ records' = records
      /\ open' = FALSE /\ todo' = {}
  BY DEF Commit
<1>2. history \in Seq(TheRecords) /\ records \in Seq(TheRecords)
  BY DEF CommittedInv
<1>3. history' = history
  BY <1>1, <1>2 DEF NoRecords
<1>. QED  BY <1>1, <1>2, <1>3 DEF CommittedInv, StoredIsMerged, SameContents

LEMMA PersistCommitted ==
  ASSUME CommittedInv, Commit, NEW batch \in Batch, PersistPart(batch)
  PROVE  CommittedInv'
<1>1. /\ db' = work /\ work' = work /\ history' = history \o records /\ records' = records
      /\ open' = FALSE /\ todo' = {} /\ todo = {} /\ records = batch.records
  BY DEF Commit, PersistPart
<1>2. history \in Seq(TheRecords) /\ records \in Seq(TheRecords) /\ history' \in Seq(TheRecords)
  BY <1>1 DEF CommittedInv
<1>3. /\ work.asset = Atomic!Learned(db.asset, batch.records)
      /\ work.provenance = db.provenance \cup Atomic!Sources(batch.records)
      /\ \A e \in work.relation : e \in db.relation \/ {e[1], e[2]} \subseteq DOMAIN work.asset
      /\ db.run = "none" => work = db
  BY <1>1, PersistCommits
<1>4. StoredIsMerged'
  <2>1. db.asset = Atomic!Learned(<< >>, history) /\ db.provenance = Atomic!Sources(history)
    BY DEF CommittedInv, StoredIsMerged
  <2>2. db'.asset = Atomic!Learned(<< >>, history')
    BY <1>1, <1>2, <1>3, <2>1, LearnedConcat
  <2>3. db'.provenance = Atomic!Sources(history')
    BY <1>1, <1>2, <1>3, <2>1, EntitiesConcat
  <2>. QED  BY <2>2, <2>3 DEF StoredIsMerged
<1>5. DOMAIN db.asset \subseteq DOMAIN work.asset
  BY DEF PersistPart
<1>6. \A e \in db'.relation : {e[1], e[2]} \subseteq DOMAIN db'.asset
  BY <1>1, <1>3, <1>5 DEF CommittedInv
<1>7. work.run = db.run
  BY DEF PersistPart
<1>. QED  BY <1>1, <1>2, <1>3, <1>4, <1>6, <1>7 DEF CommittedInv

-----------------------------------------------------------------------------
\* A process and its transactions.
LifecycleInv == CommittedInv /\ TransactionInv /\ LifeInv /\ FindingsInv

LEMMA Idle ==
  ASSUME TransactionInv
  PROVE  /\ pc = "idle" => ~open
         /\ pc = "stages" /\ left = << >> => ~open
BY DEF TransactionInv

LEMMA StoreUnchanged ==
  ASSUME CommittedInv, UNCHANGED storeVars
  PROVE  CommittedInv'
BY DEF CommittedInv, storeVars, StoredIsMerged

LEMMA StoreBegins ==
  ASSUME CommittedInv, NEW statements, NEW rs \in Seq(TheRecords), Begin(statements, rs)
  PROVE  /\ CommittedInv' /\ work' = work /\ db' = db /\ work = db
         /\ todo' = statements /\ records' = rs
BY DEF CommittedInv, Begin, StoredIsMerged

LEMMA StoreDisconnects ==
  ASSUME CommittedInv, Disconnect
  PROVE  CommittedInv' /\ db' = db /\ ~open'
BY DEF CommittedInv, Disconnect, StoredIsMerged

LEMMA StoreRaises ==
  ASSUME CommittedInv, Raise
  PROVE  CommittedInv' /\ db' = db /\ ~open'
BY DEF CommittedInv, Raise, StoredIsMerged

LEMMA StoreExecutes ==
  ASSUME CommittedInv, NEW s, Execute(s), IsDb(work')
  PROVE  CommittedInv' /\ db' = db
BY DEF CommittedInv, Execute, StoredIsMerged

LEMMA ExecuteKeeps ==
  ASSUME CommittedInv, TransactionInv, LifeInv, ExecuteStatement
  PROVE  CommittedInv' /\ TransactionInv' /\ db' = db
<1>1. PICK s \in todo : Execute(s)
  BY DEF ExecuteStatement
<1>2. UNCHANGED lifeVars /\ pc' = pc /\ left' = left
  BY DEF ExecuteStatement, lifeVars
<1>3. open
  BY <1>1 DEF Execute
<1>4. CASE pc = "start" /\ StartPart
  <2>1. StartPart' /\ IsDb(work')
    BY <1>1, <1>2, <1>4, StartExecutes DEF LifeInv
  <2>. QED  BY <1>1, <1>2, <1>4, <2>1, StoreExecutes DEF TransactionInv
<1>5. CASE pc = "clear" /\ ClearPart
  <2>1. ClearPart' /\ IsDb(work')
    BY <1>1, <1>2, <1>5, ClearExecutes
  <2>. QED  BY <1>1, <1>2, <1>5, <2>1, StoreExecutes DEF TransactionInv
<1>6. CASE pc = "finish" /\ FinishPart
  <2>1. FinishPart' /\ IsDb(work')
    BY <1>1, <1>2, <1>6, FinishExecutes
  <2>. QED  BY <1>1, <1>2, <1>6, <2>1, StoreExecutes DEF TransactionInv
<1>7. CASE pc = "stages" /\ left # << >> /\ FindingPart
  <2>1. FindingPart' /\ IsDb(work')
    BY <1>1, <1>2, <1>7, FindingExecutes
  <2>. QED  BY <1>1, <1>2, <1>7, <2>1, StoreExecutes DEF TransactionInv
<1>8. CASE pc = "stages" /\ left # << >> /\ Head(left) \in ToolStages /\ \E batch \in Batch : PersistPart(batch)
  <2>1. PICK batch \in Batch : PersistPart(batch)
    BY <1>8
  <2>2. PersistPart(batch)' /\ IsDb(work')
    BY <1>1, <2>1, PersistExecutes
  <2>. QED  BY <1>1, <1>2, <1>8, <2>2, StoreExecutes DEF TransactionInv
<1>. QED  BY <1>3, <1>4, <1>5, <1>6, <1>7, <1>8 DEF TransactionInv

\* What each operation commits.
CommitsStart ==
  /\ pc = "start" /\ records = NoRecords
  /\ work.run = "running" /\ work.target = Target
  /\ SameContents(work, db) /\ work.finding = db.finding

CommitsClear ==
  /\ pc = "clear" /\ records = NoRecords
  /\ work.run = db.run /\ work.target = db.target
  /\ SameContents(work, db)
  /\ work.finding = db.finding \ FindingsOf(AiStages)

CommitsFinish ==
  /\ pc = "finish" /\ records = NoRecords
  /\ work.run = Outcome /\ work.target = db.target
  /\ SameContents(work, db) /\ work.finding = db.finding

CommitsFinding ==
  /\ pc = "stages" /\ left # << >> /\ records = NoRecords
  /\ db.run # "none"
  /\ work.run = db.run /\ work.target = db.target
  /\ SameContents(work, db)
  /\ work.finding = db.finding \cup {<<Head(left), process>>}

CommitsBatch(batch) ==
  /\ pc = "stages" /\ left # << >> /\ Head(left) \in ToolStages
  /\ PersistPart(batch)

LEMMA CommitCases ==
  ASSUME TransactionInv, LifeInv, open, todo = {}
  PROVE  \/ CommitsStart \/ CommitsClear \/ CommitsFinish \/ CommitsFinding
         \/ \E batch \in Batch : CommitsBatch(batch)
<1>1. CASE pc = "start" /\ StartPart
  BY <1>1 DEF StartPart, CommitsStart
<1>2. CASE pc = "clear" /\ ClearPart
  BY <1>2 DEF ClearPart, CommitsClear
<1>3. CASE pc = "finish" /\ FinishPart
  BY <1>3 DEF FinishPart, CommitsFinish, LifeInv
<1>4. CASE pc = "stages" /\ left # << >> /\ FindingPart
  BY <1>4 DEF FindingPart, CommitsFinding
<1>5. CASE pc = "stages" /\ left # << >> /\ Head(left) \in ToolStages /\ \E batch \in Batch : PersistPart(batch)
  BY <1>5 DEF CommitsBatch
<1>. QED  BY <1>1, <1>2, <1>3, <1>4, <1>5 DEF TransactionInv

LEMMA CommitKeeps ==
  ASSUME CommittedInv, TransactionInv, LifeInv, Commit
  PROVE  CommittedInv' /\ TransactionInv'
<1>1. /\ open /\ todo = {} /\ db' = work /\ ~open'
  BY DEF Commit
<1>2. TransactionInv'
  BY <1>1 DEF TransactionInv
<1>3. CASE \E batch \in Batch : CommitsBatch(batch)
  BY <1>2, <1>3, PersistCommitted DEF CommitsBatch
<1>4. CASE CommitsStart
  BY <1>2, <1>4, ShortCommits DEF CommitsStart
<1>5. CASE CommitsFinding
  BY <1>2, <1>5, ShortCommits DEF CommitsFinding
<1>6. CASE CommitsFinish
  <2>1. work.run # "none"
    BY <1>6 DEF CommitsFinish, Outcome
  <2>. QED  BY <1>2, <1>6, <2>1, ShortCommits DEF CommitsFinish
<1>7. CASE CommitsClear
  <2>1. work.run = "none" => work.finding = db.finding
    BY <1>7 DEF CommitsClear, CommittedInv, Atomic!Empty
  <2>2. work.run = "none" => work = db
    BY <1>7, <2>1, SameDb DEF CommitsClear, CommittedInv
  <2>. QED  BY <1>2, <1>7, <2>2, ShortCommits DEF CommitsClear
<1>. QED  BY <1>1, <1>2, <1>3, <1>4, <1>5, <1>6, <1>7, CommitCases

-----------------------------------------------------------------------------
\* Each step keeps the store and its open transaction.
LEMMA NoRecordsType == NoRecords \in Seq(TheRecords)
BY DEF NoRecords

LEMMA BeginStartKeeps ==
  ASSUME CommittedInv, LifeInv, BeginStart
  PROVE  CommittedInv' /\ TransactionInv' /\ db' = db
<1>1. pc = "start" /\ pc' = pc /\ Begin(StartStatements, NoRecords)
  BY DEF BeginStart, lifeVars
<1>2. /\ CommittedInv' /\ work' = work /\ db' = db /\ work = db
      /\ todo' = StartStatements /\ records' = NoRecords
  BY <1>1, NoRecordsType, StoreBegins
<1>3. db.run = "none" /\ db.target = {}
  BY <1>1 DEF LifeInv, CommittedInv, Atomic!Empty
<1>4. <<"run">> \in StartStatements /\ \A t \in Target : <<"target", t>> \in StartStatements
  BY DEF StartStatements
<1>5. StartPart'
  BY <1>2, <1>3, <1>4 DEF StartPart, SameContents
<1>. QED  BY <1>1, <1>2, <1>5 DEF TransactionInv

LEMMA BeginClearKeeps ==
  ASSUME CommittedInv, BeginClear
  PROVE  CommittedInv' /\ TransactionInv' /\ db' = db
<1>. DEFINE statements == ClearStatements(FindingsOf(AiStages))
<1>1. pc = "clear" /\ pc' = pc /\ Begin(statements, NoRecords)
  BY DEF BeginClear, lifeVars
<1>2. statements # {}
  BY DEF ClearStatements
<1>. HIDE DEF statements
<1>3. /\ CommittedInv' /\ work' = work /\ db' = db /\ work = db
      /\ todo' = statements /\ records' = NoRecords
  BY <1>1, NoRecordsType, StoreBegins
<1>4. ClearPart'
  BY <1>2, <1>3 DEF ClearPart, SameContents, statements
<1>. QED  BY <1>1, <1>3, <1>4 DEF TransactionInv

LEMMA BeginFinishKeeps ==
  ASSUME CommittedInv, BeginFinish
  PROVE  CommittedInv' /\ TransactionInv' /\ db' = db
<1>. DEFINE statements == FinishStatements(Outcome)
<1>1. pc = "finish" /\ pc' = pc /\ Begin(statements, NoRecords) /\ Outcome' = Outcome
  BY DEF BeginFinish, lifeVars, Outcome
<1>2. statements # {} /\ statements' = statements
  BY <1>1 DEF FinishStatements
<1>. HIDE DEF statements
<1>3. /\ CommittedInv' /\ work' = work /\ db' = db /\ work = db
      /\ todo' = statements /\ records' = NoRecords
  BY <1>1, NoRecordsType, StoreBegins
<1>4. FinishPart'
  BY <1>1, <1>2, <1>3 DEF FinishPart, SameContents, statements
<1>. QED  BY <1>1, <1>3, <1>4 DEF TransactionInv

LEMMA StageAddsFindingKeeps ==
  ASSUME CommittedInv, StageAddsFinding
  PROVE  CommittedInv' /\ TransactionInv' /\ db' = db
<1>. DEFINE statements == FindingStatements(<<Head(left), process>>)
<1>1. /\ pc = "stages" /\ pc' = pc /\ left # << >> /\ left' = left /\ process' = process
      /\ Begin(statements, NoRecords)
  BY DEF StageAddsFinding
<1>2. statements # {} /\ statements' = statements
  BY <1>1 DEF FindingStatements
<1>. HIDE DEF statements
<1>3. /\ CommittedInv' /\ work' = work /\ db' = db /\ work = db
      /\ todo' = statements /\ records' = NoRecords
  BY <1>1, NoRecordsType, StoreBegins
<1>4. FindingPart'
  BY <1>1, <1>2, <1>3 DEF FindingPart, SameContents, statements
<1>. QED  BY <1>1, <1>3, <1>4 DEF TransactionInv

LEMMA StagePersistsKeeps ==
  ASSUME CommittedInv, NEW batch \in Batch, StagePersists(batch)
  PROVE  CommittedInv' /\ TransactionInv' /\ db' = db
<1>. DEFINE statements == PersistStatements(batch)
<1>1. /\ pc = "stages" /\ pc' = pc /\ left # << >> /\ left' = left /\ Head(left) \in ToolStages
      /\ Begin(statements, batch.records)
  BY DEF StagePersists
<1>2. batch.records \in Seq(TheRecords)
  BY BatchFacts
<1>. HIDE DEF statements
<1>3. /\ CommittedInv' /\ work' = work /\ db' = db /\ work = db
      /\ todo' = statements /\ records' = batch.records
  BY <1>1, <1>2, StoreBegins
<1>4. Upserted(batch)' = {}
  BY <1>3 DEF Upserted, PersistStatements, statements
<1>5. Ends(batch)' = {}
  BY <1>3 DEF Ends, PersistStatements, statements
<1>6. \A s \in NormalizedSources(batch) : <<"source", s[1], s[2]>> \in todo'
  BY <1>3 DEF PersistStatements, statements
<1>7. IsAssets(db.asset)
  BY StoredAssets
<1>8. PersistPart(batch)'
  BY <1>3, <1>4, <1>5, <1>6, <1>7 DEF PersistPart, statements
<1>. QED  BY <1>1, <1>3, <1>8 DEF TransactionInv

LEMMA StoreStep ==
  ASSUME LifecycleInv, [Next]_vars
  PROVE  CommittedInv' /\ TransactionInv'
<1>0. CommittedInv /\ TransactionInv /\ LifeInv
  BY DEF LifecycleInv
<1>1. ASSUME UNCHANGED storeVars, ~open  PROVE CommittedInv' /\ TransactionInv'
  BY <1>0, <1>1, StoreUnchanged DEF TransactionInv, storeVars
<1>2. CASE UNCHANGED vars
  <2>1. CommittedInv'
    BY <1>0, <1>2, StoreUnchanged DEF vars
  <2>2. /\ db' = db /\ work' = work /\ todo' = todo /\ open' = open /\ records' = records
        /\ pc' = pc /\ left' = left /\ process' = process /\ Outcome' = Outcome
    BY <1>2 DEF vars, storeVars, lifeVars, Outcome
  <2>3. /\ StartPart => StartPart'
        /\ ClearPart => ClearPart'
        /\ FinishPart => FinishPart'
        /\ FindingPart => FindingPart'
    BY <2>2 DEF StartPart, ClearPart, FinishPart, FindingPart, SameContents
  <2>4. \A batch \in Batch : PersistPart(batch) => PersistPart(batch)'
    <3>. TAKE batch \in Batch
    <3>1. Upserted(batch)' = Upserted(batch) /\ Ends(batch)' = Ends(batch)
      BY <2>2 DEF Upserted, Ends
    <3>. QED  BY <2>2, <3>1 DEF PersistPart
  <2>5. ASSUME NEW batch \in Batch, PersistPart(batch)
        PROVE  (\E b \in Batch : PersistPart(b))'
    <3>1. PersistPart(batch)'
      BY <2>4, <2>5
    <3>. QED  BY <3>1
  <2>6. CASE pc = "stages" /\ left # << >> /\ Head(left) \in ToolStages /\ \E batch \in Batch : PersistPart(batch)
    BY <2>1, <2>2, <2>5, <2>6 DEF TransactionInv
  <2>7. CASE (pc = "start" /\ StartPart) \/ (pc = "clear" /\ ClearPart)
    BY <2>1, <2>2, <2>3, <2>7 DEF TransactionInv
  <2>8. CASE (pc = "finish" /\ FinishPart) \/ (pc = "stages" /\ left # << >> /\ FindingPart)
    BY <2>1, <2>2, <2>3, <2>8 DEF TransactionInv
  <2>9. CASE ~open
    BY <2>1, <2>2, <2>9 DEF TransactionInv
  <2>10. \/ ~open
         \/ (pc = "start" /\ StartPart) \/ (pc = "clear" /\ ClearPart)
         \/ (pc = "finish" /\ FinishPart) \/ (pc = "stages" /\ left # << >> /\ FindingPart)
         \/ pc = "stages" /\ left # << >> /\ Head(left) \in ToolStages /\ \E batch \in Batch : PersistPart(batch)
    <3>1. TransactionInv
      BY <1>0
    <3>. QED  BY <3>1 DEF TransactionInv
  <2>. QED  BY <2>6, <2>7, <2>8, <2>9, <2>10
<1>3. CASE StartScan
  <2>1. pc = "idle" /\ UNCHANGED storeVars
    BY <1>3 DEF StartScan
  <2>2. ~open
    BY <1>0, <2>1, Idle
  <2>. QED  BY <1>1, <2>1, <2>2
<1>4. ASSUME NEW mode \in Mode, StartAnalysis(mode)  PROVE CommittedInv' /\ TransactionInv'
  <2>1. pc = "idle" /\ UNCHANGED storeVars
    BY <1>4 DEF StartAnalysis
  <2>2. ~open
    BY <1>0, <2>1, Idle
  <2>. QED  BY <1>1, <2>1, <2>2
<1>5. CASE StageEnds
  BY <1>1, <1>5 DEF StageEnds
<1>6. CASE EndStages
  BY <1>0, <1>1, <1>6, Idle DEF EndStages
<1>7. CASE StageRaises
  BY <1>0, <1>7, StoreRaises DEF StageRaises, TransactionInv
<1>8. CASE End
  BY <1>0, <1>8, StoreDisconnects DEF End, TransactionInv
<1>9. CASE Committed
  BY <1>0, <1>9, CommitKeeps DEF Committed
<1>. QED
  BY <1>0, <1>2, <1>3, <1>4, <1>5, <1>6, <1>7, <1>8, <1>9, BeginStartKeeps, BeginClearKeeps,
     BeginFinishKeeps, StageAddsFindingKeeps, StagePersistsKeeps, ExecuteKeeps DEF Next

-----------------------------------------------------------------------------
\* What a commit does to the run, its contents and its findings.
LEMMA CommitEffects ==
  ASSUME TransactionInv, LifeInv, Commit
  PROVE  /\ pc \in {"start", "clear", "finish", "stages"}
         /\ pc = "start" => db'.run = "running"
         /\ pc = "finish" => db'.run = Outcome
         /\ pc \in {"clear", "stages"} => db'.run = db.run
         /\ pc \in {"start", "finish"} => db'.finding = db.finding
         /\ pc = "clear" => db'.finding = db.finding \ FindingsOf(AiStages)
         /\ pc = "stages" => /\ left # << >>
                             /\ \/ db'.finding = db.finding
                                \/ db'.finding = db.finding \cup {<<Head(left), process>>}
         /\ \/ db'.target = db.target /\ SameContents(db', db)
            \/ pc = "start"
            \/ pc = "stages" /\ Head(left) \in ToolStages
<1>1. open /\ todo = {} /\ db' = work
  BY DEF Commit
<1>2. CASE CommitsStart
  BY <1>1, <1>2 DEF CommitsStart
<1>3. CASE CommitsClear
  BY <1>1, <1>3 DEF CommitsClear
<1>4. CASE CommitsFinish
  BY <1>1, <1>4 DEF CommitsFinish
<1>5. CASE CommitsFinding
  BY <1>1, <1>5 DEF CommitsFinding
<1>6. CASE \E batch \in Batch : CommitsBatch(batch)
  BY <1>1, <1>6 DEF CommitsBatch, PersistPart
<1>. QED  BY <1>1, <1>2, <1>3, <1>4, <1>5, <1>6, CommitCases

\* Where a process is.
LEMMA LifeUnchanged ==
  ASSUME LifeInv, db'.run = db.run, UNCHANGED <<process, kind, pc, left, ran, statuses>>
  PROVE  LifeInv'
BY DEF LifeInv

LEMMA CommittedLife ==
  ASSUME LifecycleInv, Committed
  PROVE  LifeInv'
<1>1. /\ CommittedInv /\ TransactionInv /\ LifeInv /\ Commit
      /\ UNCHANGED <<exists, process, kind, writes, ran, statuses>>
  BY DEF LifecycleInv, Committed
<1>2. CASE pc = "start"
  <2>1. pc' = "stages" /\ left' = ScanStages /\ db'.run = "running"
    BY <1>1, <1>2, CommitEffects DEF Committed
  <2>2. ScanStages \in Seq(Stage)
    BY LifecycleAssumption
  <2>. QED  BY <1>1, <1>2, <2>1, <2>2 DEF LifeInv
<1>3. CASE pc = "clear"
  <2>1. pc' = "stages" /\ left' = left /\ db'.run = db.run
    BY <1>1, <1>3, CommitEffects DEF Committed
  <2>. QED  BY <1>1, <1>3, <2>1 DEF LifeInv
<1>4. CASE pc = "finish"
  <2>1. pc' = "report" /\ left' = left
    BY <1>4 DEF Committed
  <2>. QED  BY <1>1, <1>4, <2>1 DEF LifeInv
<1>5. CASE pc = "stages"
  <2>1. pc' = pc /\ left' = left /\ db'.run = db.run
    BY <1>1, <1>5, CommitEffects DEF Committed
  <2>. QED  BY <1>1, <2>1, LifeUnchanged
<1>. QED  BY <1>1, <1>2, <1>3, <1>4, <1>5, CommitEffects

LEMMA ResultLife ==
  ASSUME LifeInv, pc = "stages", left # << >>, db' = db,
         NEW status \in {"success", "skipped", "failed"}, StageResult(status)
  PROVE  LifeInv'
<1>1. /\ left' = Tail(left) /\ ran' = ran \cup {Head(left)}
      /\ statuses' = statuses \cup {status}
      /\ UNCHANGED <<exists, process, kind, pc>>
  BY DEF StageResult
<1>2. left \in Seq(Stage) /\ (kind = "analysis" => left \in Seq(AiStages))
  BY DEF LifeInv
<1>3. Tail(left) \in Seq(Stage) /\ (kind = "analysis" => Tail(left) \in Seq(AiStages))
  BY <1>2, HeadTailProperties
<1>4. Elements(left) = {Head(left)} \cup Elements(Tail(left))
  BY <1>2, ElementsOfTail
<1>. QED  BY <1>1, <1>3, <1>4 DEF LifeInv

LEMMA LifeStep ==
  ASSUME LifecycleInv, [Next]_vars
  PROVE  LifeInv'
<1>0. CommittedInv /\ TransactionInv /\ LifeInv
  BY DEF LifecycleInv
<1>1. CASE UNCHANGED vars
  BY <1>0, <1>1, LifeUnchanged DEF vars, storeVars, lifeVars
<1>2. CASE StartScan
  <2>1. /\ db' = db /\ process = 0 /\ process' = 1 /\ kind' = "scan" /\ pc' = "start"
        /\ left' = left /\ statuses' = statuses
    BY <1>2 DEF StartScan, storeVars
  <2>. QED  BY <1>0, <2>1, LifecycleAssumption DEF LifeInv
<1>3. ASSUME NEW mode \in Mode, StartAnalysis(mode)  PROVE LifeInv'
  <2>1. /\ db' = db /\ process < MaxProcesses /\ process' = process + 1
        /\ kind' = "analysis" /\ pc' = "clear"
        /\ left' = AiStagesOf[mode] /\ statuses' = {}
    BY <1>3 DEF StartAnalysis, storeVars
  <2>2. left' \in Seq(AiStages) /\ left' \in Seq(Stage)
    BY <2>1, LifecycleAssumption, SeqMonotonic DEF Stage
  <2>3. process' \in 1 .. MaxProcesses
    BY <1>0, <2>1, LifecycleAssumption DEF LifeInv
  <2>. QED  BY <1>0, <2>1, <2>2, <2>3 DEF LifeInv
<1>4. CASE BeginStart \/ BeginClear \/ BeginFinish
  BY <1>0, <1>4, LifeUnchanged DEF BeginStart, BeginClear, BeginFinish, Begin, lifeVars
<1>5. ASSUME NEW batch \in Batch, StagePersists(batch)  PROVE LifeInv'
  BY <1>0, <1>5, LifeUnchanged DEF StagePersists, Begin
<1>6. CASE StageAddsFinding
  BY <1>0, <1>6, LifeUnchanged DEF StageAddsFinding, Begin
<1>7. CASE StageEnds
  BY <1>0, <1>7, ResultLife DEF StageEnds, storeVars
<1>8. CASE EndStages
  <2>1. /\ pc = "stages" /\ left = << >> /\ pc' = IF kind = "scan" THEN "finish" ELSE "report"
        /\ db' = db /\ UNCHANGED <<process, kind, left, ran, statuses>>
    BY <1>8 DEF EndStages, storeVars
  <2>. QED  BY <1>0, <2>1 DEF LifeInv
<1>9. CASE ExecuteStatement
  BY <1>0, <1>9, ExecuteKeeps, LifeUnchanged DEF ExecuteStatement, lifeVars
<1>10. CASE Committed
  BY <1>10, CommittedLife
<1>11. CASE StageRaises
  <2>1. pc = "stages" /\ open /\ db' = db /\ StageResult("failed")
    BY <1>11 DEF StageRaises, Raise
  <2>2. left # << >>
    BY <1>0, <2>1, Idle
  <2>. QED  BY <1>0, <2>1, <2>2, ResultLife
<1>12. CASE End
  <2>1. db' = db /\ kind' = "none" /\ pc' = "idle" /\ UNCHANGED <<process, left, ran, statuses>>
    BY <1>12 DEF End, Disconnect
  <2>. QED  BY <1>0, <2>1 DEF LifeInv
<1>. QED
  BY <1>1, <1>2, <1>3, <1>4, <1>5, <1>6, <1>7, <1>8, <1>9, <1>10, <1>11, <1>12 DEF Next

-----------------------------------------------------------------------------
\* Whose the findings are.
LEMMA FindingsUnchanged ==
  ASSUME FindingsInv, db'.finding = db.finding, process' = process,
         kind' = "analysis" /\ pc' \in {"stages", "report"} =>
           kind = "analysis" /\ pc \in {"stages", "report"}
  PROVE  FindingsInv'
BY DEF FindingsInv, NoPileUp

LEMMA CommittedFindings ==
  ASSUME LifecycleInv, Committed
  PROVE  FindingsInv'
<1>1. /\ CommittedInv /\ TransactionInv /\ LifeInv /\ FindingsInv /\ Commit
      /\ process' = process /\ kind' = kind
  BY DEF LifecycleInv, Committed
<1>2. CASE pc \in {"start", "finish"}
  <2>1. kind = "scan" /\ db'.finding = db.finding
    BY <1>1, <1>2, CommitEffects DEF LifeInv
  <2>. QED  BY <1>1, <2>1, FindingsUnchanged
<1>3. CASE pc = "clear"
  <2>1. db'.finding = db.finding \ FindingsOf(AiStages)
    BY <1>1, <1>3, CommitEffects
  <2>2. db'.finding \cap FindingsOf(AiStages) = {}
    BY <2>1
  <2>3. NoPileUp'
    BY <2>2 DEF NoPileUp, FindingsOf
  <2>. QED  BY <1>1, <2>1, <2>3 DEF FindingsInv
<1>4. CASE pc = "stages"
  <2>. DEFINE f == <<Head(left), process>>
  <2>1. /\ left # << >> /\ (db'.finding = db.finding \/ db'.finding = db.finding \cup {f})
        /\ pc' = pc
    BY <1>1, <1>4, CommitEffects DEF Committed
  <2>2. CASE db'.finding = db.finding
    BY <1>1, <2>1, <2>2, FindingsUnchanged
  <2>3. CASE db'.finding = db.finding \cup {f}
    <3>1. Head(left) \in Stage
      BY <1>1, <2>1, HeadTailProperties DEF LifeInv
    <3>2. process \in 1 .. MaxProcesses
      BY <1>1, <1>4, LifecycleAssumption DEF LifeInv
    <3>3. f \in Finding /\ f[1] = Head(left) /\ f[2] = process
      BY <3>1, <3>2, LifecycleAssumption DEF Process
    <3>. HIDE DEF f
    <3>4. db'.finding \subseteq Finding /\ \A g \in db'.finding : g[2] <= process
      BY <1>1, <2>3, <3>2, <3>3 DEF FindingsInv
    <3>5. \A g \in db'.finding : g[2] \in 1 .. MaxProcesses
      BY <3>4, LifecycleAssumption DEF Process
    <3>6. CASE kind = "scan"
      <4>1. process = 1
        BY <1>1, <3>6 DEF LifeInv
      <4>2. \A g \in db'.finding : g[2] = 1
        BY <3>4, <3>5, <4>1, LifecycleAssumption
      <4>. QED  BY <1>1, <3>4, <3>6, <4>2 DEF FindingsInv, NoPileUp
    <3>7. CASE kind = "analysis"
      <4>1. \A g \in db.finding \cap FindingsOf(AiStages) : g[2] = process
        BY <1>1, <1>4, <3>7 DEF FindingsInv, NoPileUp
      <4>2. \A g \in db'.finding \cap FindingsOf(AiStages) : g[2] = process
        BY <2>3, <3>3, <4>1
      <4>3. FindingsOf(AiStages)' = FindingsOf(AiStages)
        BY DEF FindingsOf
      <4>4. NoPileUp'
        BY <1>1, <4>2, <4>3 DEF NoPileUp
      <4>. QED  BY <1>1, <3>4, <4>4 DEF FindingsInv
    <3>. QED  BY <1>1, <1>4, <3>6, <3>7 DEF LifeInv
  <2>. QED  BY <2>1, <2>2, <2>3
<1>. QED  BY <1>1, <1>2, <1>3, <1>4, CommitEffects

LEMMA FindingsStep ==
  ASSUME LifecycleInv, [Next]_vars
  PROVE  FindingsInv'
<1>0. CommittedInv /\ TransactionInv /\ LifeInv /\ FindingsInv
  BY DEF LifecycleInv
<1>1. CASE UNCHANGED vars
  BY <1>0, <1>1, FindingsUnchanged DEF vars, storeVars, lifeVars
<1>2. CASE StartScan
  <2>1. db' = db /\ process = 0 /\ process' = 1 /\ kind' = "scan"
    BY <1>2 DEF StartScan, storeVars
  <2>2. db'.finding = {}
    BY <1>0, <2>1 DEF LifeInv, CommittedInv, Atomic!Empty
  <2>. QED  BY <2>1, <2>2 DEF FindingsInv, NoPileUp
<1>3. ASSUME NEW mode \in Mode, StartAnalysis(mode)  PROVE FindingsInv'
  <2>1. db' = db /\ process' = process + 1 /\ pc' = "clear"
    BY <1>3 DEF StartAnalysis, storeVars
  <2>2. \A f \in db.finding : f[2] \in Nat /\ f[2] <= process
    BY <1>0, LifecycleAssumption DEF FindingsInv, Process
  <2>3. process \in Nat
    BY <1>0, LifecycleAssumption DEF LifeInv
  <2>4. \A f \in db'.finding : f[2] <= process'
    BY <2>1, <2>2, <2>3
  <2>5. NoPileUp'
    BY <1>0, <2>1 DEF FindingsInv, NoPileUp
  <2>. QED  BY <1>0, <2>1, <2>4, <2>5 DEF FindingsInv
<1>4. CASE BeginStart \/ BeginClear \/ BeginFinish
  BY <1>0, <1>4, FindingsUnchanged DEF BeginStart, BeginClear, BeginFinish, Begin, lifeVars
<1>5. ASSUME NEW batch \in Batch, StagePersists(batch)  PROVE FindingsInv'
  BY <1>0, <1>5, FindingsUnchanged DEF StagePersists, Begin
<1>6. CASE StageAddsFinding
  BY <1>0, <1>6, FindingsUnchanged DEF StageAddsFinding, Begin
<1>7. CASE StageEnds
  BY <1>0, <1>7, FindingsUnchanged DEF StageEnds, StageResult, storeVars
<1>8. CASE EndStages
  BY <1>0, <1>8, FindingsUnchanged DEF EndStages, storeVars
<1>9. CASE ExecuteStatement
  BY <1>0, <1>9, ExecuteKeeps, FindingsUnchanged DEF ExecuteStatement, lifeVars
<1>10. CASE Committed
  BY <1>10, CommittedFindings
<1>11. CASE StageRaises
  BY <1>0, <1>11, FindingsUnchanged DEF StageRaises, StageResult, Raise
<1>12. CASE End
  BY <1>0, <1>12, FindingsUnchanged DEF End, Disconnect
<1>. QED
  BY <1>1, <1>2, <1>3, <1>4, <1>5, <1>6, <1>7, <1>8, <1>9, <1>10, <1>11, <1>12 DEF Next

LEMMA InitiallyInvariant == Init => LifecycleInv
<1>. SUFFICES ASSUME Init  PROVE LifecycleInv
  OBVIOUS
<1>1. /\ db = Atomic!Empty /\ work = db /\ todo = {} /\ open = FALSE
      /\ records = << >> /\ history = << >>
      /\ process = 0 /\ kind = "none" /\ pc = "idle" /\ left = << >> /\ statuses = {}
  BY DEF Init, StoreInit
<1>2. IsDb(db) /\ db.asset = << >> /\ db.provenance = {} /\ db.relation = {} /\ db.finding = {}
      /\ db.run = "none"
  BY <1>1 DEF IsDb, Atomic!Empty
<1>3. StoredIsMerged
  <2>1. Prefix(<< >>, 0) = << >>
    BY DEF Prefix
  <2>2. Atomic!Learned(<< >>, << >>) = << >>
    BY <2>1, EmptyLearned
  <2>3. Atomic!Sources(<< >>) = {}
    BY DEF Atomic!Sources
  <2>. QED  BY <1>1, <1>2, <2>2, <2>3 DEF StoredIsMerged
<1>4. CommittedInv
  BY <1>1, <1>2, <1>3 DEF CommittedInv
<1>5. LifeInv
  <2>1. << >> \in Seq(Stage) /\ 0 \in 0 .. MaxProcesses
    BY LifecycleAssumption
  <2>. QED  BY <1>1, <1>2, <2>1 DEF LifeInv
<1>6. FindingsInv
  BY <1>1, <1>2 DEF FindingsInv, NoPileUp
<1>. QED  BY <1>1, <1>4, <1>5, <1>6 DEF LifecycleInv, TransactionInv

-----------------------------------------------------------------------------
\* The invariant holds whatever the process does and wherever it dies: the store holds what
\* was committed, an open transaction what its executed statements made of it, and the place
\* the process is in tells how its run stands and whose the findings are.
THEOREM LifecycleInvariant == Spec => []LifecycleInv
<1>1. Init => LifecycleInv
  BY InitiallyInvariant
<1>2. LifecycleInv /\ [Next]_vars => LifecycleInv'
  BY StoreStep, LifeStep, FindingsStep DEF LifecycleInv
<1>. QED  BY <1>1, <1>2, PTL DEF Spec

\* What is stored of the assets and their sources is one pass over all the records ever
\* committed, in their order, however they came in batches (Normalizer, AssetRepository.upsert).
THEOREM AssetsAreMerged == Spec => []StoredIsMerged
<1>1. LifecycleInv => StoredIsMerged
  BY DEF LifecycleInv, CommittedInv
<1>. QED  BY <1>1, LifecycleInvariant, PTL

\* An operation of few statements does not touch what rows refer to.
LEMMA ShortRows ==
  ASSUME CommittedInv, SameContents(work, db)
  PROVE  \A e \in work.relation \cup {<<p[1], p[1]>> : p \in work.provenance} :
           {e[1], e[2]} \subseteq DOMAIN work.asset
BY StoredAssets DEF CommittedInv, SameContents

LEMMA BatchRows ==
  ASSUME CommittedInv, NEW batch \in Batch, PersistPart(batch)
  PROVE  \A e \in work.relation \cup {<<p[1], p[1]>> : p \in work.provenance} :
           {e[1], e[2]} \subseteq DOMAIN work.asset
<1>1. DOMAIN db.asset \subseteq DOMAIN work.asset /\ Upserted(batch) \subseteq DOMAIN work.asset
  BY DEF PersistPart
<1>2. \A e \in work.relation : {e[1], e[2]} \subseteq DOMAIN work.asset
  <2>1. \A e \in work.relation : e \in db.relation \/ {e[1], e[2]} \subseteq DOMAIN work.asset
    BY DEF PersistPart
  <2>. QED  BY <1>1, <2>1 DEF CommittedInv
<1>3. \A p \in work.provenance : p[1] \in DOMAIN work.asset
  <2>1. \A p \in work.provenance : p \in db.provenance \/ p[1] \in Upserted(batch)
    BY DEF PersistPart
  <2>. QED  BY <1>1, <2>1, StoredAssets
<1>. QED  BY <1>2, <1>3

LEMMA WorkBeforeItsRun ==
  ASSUME LifecycleInv, work.run = "none"
  PROVE  work = Atomic!Empty
<1>0. CommittedInv /\ TransactionInv /\ LifeInv /\ IsDb(db) /\ IsDb(work)
  BY DEF LifecycleInv, CommittedInv
<1>1. SUFFICES db.run = "none" /\ work = db
  BY <1>0 DEF CommittedInv
<1>2. db.run = "none" => db.target = {} /\ db.finding = {}
  BY <1>0 DEF CommittedInv, Atomic!Empty
<1>3. CASE ~open
  BY <1>0, <1>3 DEF CommittedInv
<1>4. CASE pc = "start" /\ StartPart
  <2>1. work.target = {} /\ db.run = "none" /\ SameContents(work, db) /\ work.finding = db.finding
    BY <1>0, <1>4 DEF StartPart, LifeInv
  <2>. QED  BY <1>0, <1>2, <2>1, SameDb
<1>5. CASE pc = "clear" /\ ClearPart
  <2>1. /\ work.target = db.target /\ db.run = "none" /\ SameContents(work, db)
        /\ work.finding = db.finding
    BY <1>2, <1>5 DEF ClearPart
  <2>. QED  BY <1>0, <2>1, SameDb
<1>6. CASE pc = "finish" /\ FinishPart
  BY <1>0, <1>6 DEF FinishPart, LifeInv, Outcome
<1>7. CASE pc = "stages" /\ left # << >> /\ FindingPart
  <2>1. /\ work.target = db.target /\ db.run = "none" /\ SameContents(work, db)
        /\ work.finding = db.finding
    BY <1>7 DEF FindingPart
  <2>. QED  BY <1>0, <2>1, SameDb
<1>8. CASE \E batch \in Batch : PersistPart(batch)
  <2>1. PICK batch \in Batch : PersistPart(batch)
    BY <1>8
  <2>2. db.run = "none" /\ todo = PersistStatements(batch)
    BY <2>1 DEF PersistPart
  <2>. QED  BY <1>0, <2>1, <2>2, PersistNothing
<1>. QED  BY <1>0, <1>3, <1>4, <1>5, <1>6, <1>7, <1>8 DEF TransactionInv

\* No row refers to a row that is not there, neither in what is committed nor, statement by
\* statement, in what an open transaction sees (persist_normalization, start_run, schema).
THEOREM RowsHaveTheirRows == Spec => []NoDanglingRows
<1>1. ASSUME LifecycleInv  PROVE NoDanglingRows
  <2>0. CommittedInv /\ TransactionInv
    BY <1>1 DEF LifecycleInv
  <2>1. \A e \in db.relation \cup {<<p[1], p[1]>> : p \in db.provenance} :
          {e[1], e[2]} \subseteq DOMAIN db.asset
    BY <2>0, StoredAssets DEF CommittedInv
  <2>2. \A e \in work.relation \cup {<<p[1], p[1]>> : p \in work.provenance} :
          {e[1], e[2]} \subseteq DOMAIN work.asset
    <3>1. CASE ~open
      BY <2>0, <2>1, <3>1 DEF CommittedInv
    <3>2. CASE SameContents(work, db)
      BY <2>0, <3>2, ShortRows
    <3>3. CASE \E batch \in Batch : PersistPart(batch)
      BY <2>0, <3>3, BatchRows
    <3>. QED  BY <2>0, <3>1, <3>2, <3>3 DEF TransactionInv, StartPart, ClearPart, FinishPart, FindingPart
  <2>3. db.run = "none" => db = Atomic!Empty
    BY <2>0 DEF CommittedInv
  <2>4. work.run = "none" => work = Atomic!Empty
    BY <1>1, WorkBeforeItsRun
  <2>. QED  BY <2>1, <2>2, <2>3, <2>4 DEF NoDanglingRows
<1>. QED  BY <1>1, LifecycleInvariant, PTL

\* The findings of an AI stage come from one process, in an analysis from this one: no
\* repetition of an analysis, and no death in one, leaves findings twice (clear_findings).
THEOREM FindingsDoNotPileUp == Spec => []NoPileUp
<1>1. LifecycleInv => NoPileUp
  BY DEF LifecycleInv, FindingsInv
<1>. QED  BY <1>1, LifecycleInvariant, PTL

-----------------------------------------------------------------------------
\* What a step does to the committed store.
LEMMA OnlyCommits ==
  ASSUME LifecycleInv, [Next]_vars
  PROVE  db' = db \/ Committed
<1>0. CommittedInv /\ TransactionInv /\ LifeInv
  BY DEF LifecycleInv
<1>1. CASE UNCHANGED vars
  BY <1>1 DEF vars, storeVars
<1>2. CASE StartScan \/ StageEnds \/ EndStages \/ \E mode \in Mode : StartAnalysis(mode)
  BY <1>2 DEF StartScan, StageEnds, EndStages, StartAnalysis, storeVars
<1>3. CASE BeginStart \/ BeginClear \/ BeginFinish \/ StageAddsFinding
  BY <1>3 DEF BeginStart, BeginClear, BeginFinish, StageAddsFinding, Begin
<1>4. CASE \E batch \in Batch : StagePersists(batch)
  BY <1>4 DEF StagePersists, Begin
<1>5. CASE ExecuteStatement
  BY <1>0, <1>5, ExecuteKeeps
<1>6. CASE StageRaises \/ End
  BY <1>6 DEF StageRaises, Raise, End, Disconnect
<1>. QED  BY <1>1, <1>2, <1>3, <1>4, <1>5, <1>6 DEF Next

\* The status a run is left with tells how its scan went, and is never set again
\* (_run_pipeline, store.finish_run).
THEOREM OutcomesAreHonest == Spec => OutcomeIsHonest
<1>. DEFINE Honest ==
       /\ db'.run \in {"completed", "completed_with_errors"} /\ db'.run # db.run =>
            /\ kind = "scan" /\ left = << >>
            /\ \A i \in DOMAIN ScanStages : ScanStages[i] \in ran
            /\ db'.run = "completed" <=> "failed" \notin statuses
       /\ db.run \in {"completed", "completed_with_errors"} => db'.run = db.run
<1>1. ASSUME LifecycleInv, [Next]_vars  PROVE Honest
  <2>1. TransactionInv /\ LifeInv
    BY <1>1 DEF LifecycleInv
  <2>2. CASE db' = db
    BY <2>2
  <2>3. CASE Committed
    <3>1. Commit
      BY <2>3 DEF Committed
    <3>2. CASE pc = "start"
      <4>1. db'.run = "running" /\ db.run = "none"
        BY <2>1, <3>1, <3>2, CommitEffects DEF LifeInv
      <4>. QED  BY <4>1
    <3>3. CASE pc \in {"clear", "stages"}
      <4>1. db'.run = db.run
        BY <2>1, <3>1, <3>3, CommitEffects
      <4>. QED  BY <4>1
    <3>4. CASE pc = "finish"
      <4>1. /\ db'.run = Outcome /\ db.run = "running" /\ kind = "scan" /\ left = << >>
            /\ statuses \subseteq {"success", "skipped", "failed"}
            /\ Elements(ScanStages) \subseteq ran \cup Elements(left)
        BY <2>1, <3>1, <3>4, CommitEffects DEF LifeInv
      <4>2. Elements(<< >>) = {}
        BY DEF Elements
      <4>3. ScanStages \in Seq(Stage)
        BY LifecycleAssumption
      <4>4. \A i \in DOMAIN ScanStages : ScanStages[i] \in Elements(ScanStages)
        BY <4>3 DEF Elements
      <4>5. \A i \in DOMAIN ScanStages : ScanStages[i] \in ran
        BY <4>1, <4>2, <4>4
      <4>6. Outcome = "completed" <=> "failed" \notin statuses
        BY <4>1 DEF Outcome
      <4>. QED  BY <4>1, <4>5, <4>6
    <3>. QED  BY <2>1, <3>1, <3>2, <3>3, <3>4, CommitEffects
  <2>. QED  BY <1>1, <2>2, <2>3, OnlyCommits
<1>2. Spec => [][Honest]_vars
  <2>. HIDE DEF Honest
  <2>. QED  BY <1>1, LifecycleInvariant, PTL DEF Spec
<1>. QED  BY <1>2 DEF OutcomeIsHonest

\* An analysis leaves what the tools stored as it is (_run_ai_only).
THEOREM ScansAreKept == Spec => ScanIsKept
<1>. DEFINE Kept ==
       kind = "analysis" =>
         /\ db'.finding \ FindingsOf(AiStages) = db.finding \ FindingsOf(AiStages)
         /\ [db' EXCEPT !.finding = {}] = [db EXCEPT !.finding = {}]
<1>1. ASSUME LifecycleInv, [Next]_vars  PROVE Kept
  <2>1. /\ CommittedInv /\ TransactionInv /\ LifeInv /\ FindingsInv
        /\ CommittedInv' /\ FindingsInv'
    BY <1>1, StoreStep, FindingsStep DEF LifecycleInv
  <2>2. CASE db' = db
    BY <2>2
  <2>3. CASE Committed /\ kind = "analysis"
    <3>1. Commit /\ left \in Seq(AiStages) /\ pc \notin {"start", "finish"}
      BY <2>1, <2>3 DEF Committed, LifeInv
    <3>2. pc = "stages" => Head(left) \in AiStages
      BY <2>1, <3>1, CommitEffects, HeadTailProperties
    <3>3. db'.run = db.run /\ db'.target = db.target /\ SameContents(db', db)
      <4>1. pc = "stages" => Head(left) \notin ToolStages
        BY <3>2, LifecycleAssumption
      <4>. QED  BY <2>1, <3>1, <4>1, CommitEffects
    <3>4. db'.finding \ FindingsOf(AiStages) = db.finding \ FindingsOf(AiStages)
      <4>1. CASE pc = "clear"
        BY <2>1, <3>1, <4>1, CommitEffects
      <4>2. CASE pc = "stages"
        <5>. DEFINE f == <<Head(left), process>>
        <5>1. db'.finding = db.finding \/ db'.finding = db.finding \cup {f}
          BY <2>1, <3>1, <4>2, CommitEffects
        <5>2. f \in db'.finding => f \in FindingsOf(AiStages)
          BY <2>1, <3>2, <4>2 DEF FindingsInv, FindingsOf
        <5>. HIDE DEF f
        <5>. QED  BY <5>1, <5>2
      <4>. QED  BY <2>1, <3>1, <4>1, <4>2, CommitEffects
    <3>5. [db' EXCEPT !.finding = {}] = [db EXCEPT !.finding = {}]
      <4>1. IsDb(db) /\ IsDb(db')
        BY <2>1 DEF CommittedInv
      <4>2. PICK d : d = [db EXCEPT !.finding = {}]
        OBVIOUS
      <4>3. PICK e : e = [db' EXCEPT !.finding = {}]
        OBVIOUS
      <4>4. IsDb(d) /\ d.run = db.run /\ d.target = db.target /\ d.finding = {} /\ SameContents(d, db)
        BY <4>1, <4>2, WithFinding
      <4>5. IsDb(e) /\ e.run = db'.run /\ e.target = db'.target /\ e.finding = {} /\ SameContents(e, db')
        BY <4>1, <4>3, WithFinding
      <4>6. SameContents(e, d)
        BY <3>3, <4>4, <4>5 DEF SameContents
      <4>7. e = d
        BY <3>3, <4>4, <4>5, <4>6, SameDb
      <4>. QED  BY <4>2, <4>3, <4>7
    <3>. QED  BY <3>4, <3>5
  <2>. QED  BY <1>1, <2>2, <2>3, OnlyCommits
<1>2. Spec => [][Kept]_vars
  <2>. HIDE DEF Kept
  <2>. QED  BY <1>1, LifecycleInvariant, PTL DEF Spec
<1>. QED  BY <1>2 DEF ScanIsKept

-----------------------------------------------------------------------------
\* Every commit is an operation of the atomic store.
LEMMA BatchIsAtomic ==
  ASSUME CommittedInv, CommittedInv', NEW batch \in Batch, PersistPart(batch), Commit, db.run # "none"
  PROVE  Atomic!Persist(batch)
<1>. DEFINE asset == Atomic!Learned(db.asset, batch.records)
            provenance == db.provenance \cup Atomic!Sources(batch.records)
            ends == {<<CanonicalKey[r[1]], CanonicalKey[r[2]]>> : r \in batch.relations}
            relation == db.relation \cup {e \in ends : {e[1], e[2]} \subseteq DOMAIN asset}
<1>1. todo = {} /\ db' = work /\ IsDb(db) /\ IsDb(db')
  BY DEF Commit, CommittedInv
<1>2. /\ work.asset = asset /\ work.provenance = provenance /\ work.relation = relation
      /\ work.run = db.run /\ work.target = db.target /\ work.finding = db.finding
  BY <1>1, PersistCommits DEF PersistPart
<1>3. Atomic!Persist(batch) <=>
        db.run # "none" /\ db' = [db EXCEPT !.asset = asset, !.provenance = provenance, !.relation = relation]
  BY DEF Atomic!Persist
<1>. HIDE DEF asset, provenance, relation
<1>4. PICK e : e = [db EXCEPT !.asset = asset, !.provenance = provenance, !.relation = relation]
  OBVIOUS
<1>5. /\ IsDb(e) /\ e.run = db.run /\ e.target = db.target /\ e.finding = db.finding
      /\ e.asset = asset /\ e.provenance = provenance /\ e.relation = relation
  <2>1. e = [run |-> db.run, target |-> db.target, asset |-> asset, provenance |-> provenance,
             relation |-> relation, finding |-> db.finding]
    BY <1>1, <1>4 DEF IsDb
  <2>. QED  BY <2>1 DEF IsDb
<1>6. db' = e
  BY <1>1, <1>2, <1>5, SameDb DEF SameContents
<1>. QED  BY <1>3, <1>4, <1>6

LEMMA CommitIsAtomic ==
  ASSUME LifecycleInv, CommittedInv', Committed
  PROVE  Atomic!Next \/ db' = db
<1>0. /\ CommittedInv /\ TransactionInv /\ LifeInv /\ FindingsInv /\ Commit
      /\ open /\ todo = {} /\ db' = work /\ IsDb(db) /\ IsDb(db')
  BY DEF LifecycleInv, CommittedInv, Committed, Commit
<1>1. CASE CommitsStart
  <2>1. db.run = "none"
    BY <1>0, <1>1 DEF CommitsStart, LifeInv
  <2>2. PICK e : e = [db EXCEPT !.run = "running", !.target = Target]
    OBVIOUS
  <2>3. IsDb(e) /\ e.run = "running" /\ e.target = Target /\ e.finding = db.finding /\ SameContents(e, db)
    BY <1>0, <2>2 DEF IsDb, SameContents
  <2>4. db' = e
    BY <1>0, <1>1, <2>3, SameDb DEF CommitsStart, SameContents
  <2>. QED  BY <2>1, <2>2, <2>4 DEF Atomic!Next, Atomic!StartRun
<1>2. CASE CommitsClear
  <2>. DEFINE F == db.finding \cap FindingsOf(AiStages)
  <2>1. PICK e : e = [db EXCEPT !.finding = db.finding \ F]
    OBVIOUS
  <2>2. IsDb(e) /\ e.run = db.run /\ e.target = db.target /\ e.finding = db.finding \ F /\ SameContents(e, db)
    BY <1>0, <2>1, WithFinding
  <2>3. db' = e
    BY <1>0, <1>2, <2>2, SameDb DEF CommitsClear, SameContents
  <2>4. F \in SUBSET db.finding /\ Atomic!ClearFindings(F)
    BY <2>1, <2>3 DEF Atomic!ClearFindings
  <2>. QED  BY <2>4 DEF Atomic!Next
<1>3. CASE CommitsFinish
  <2>1. db.run # "none" /\ Outcome \in {"completed", "completed_with_errors"}
    BY <1>0, <1>3 DEF CommitsFinish, LifeInv, Outcome
  <2>2. PICK e : e = [db EXCEPT !.run = Outcome]
    OBVIOUS
  <2>3. IsDb(e) /\ e.run = Outcome /\ e.target = db.target /\ e.finding = db.finding /\ SameContents(e, db)
    BY <1>0, <2>2, WithRun
  <2>4. db' = e
    BY <1>0, <1>3, <2>3, SameDb DEF CommitsFinish, SameContents
  <2>5. Atomic!FinishRun(Outcome)
    BY <2>1, <2>2, <2>4 DEF Atomic!FinishRun
  <2>. QED  BY <2>1, <2>5 DEF Atomic!Next
<1>4. CASE CommitsFinding
  <2>. DEFINE f == <<Head(left), process>>
  <2>1. f \in Finding
    <3>1. pc = "stages" /\ left # << >> /\ Head(left) \in Stage
      BY <1>0, <1>4, HeadTailProperties DEF CommitsFinding, LifeInv
    <3>2. process \in 1 .. MaxProcesses
      BY <1>0, <3>1, LifecycleAssumption DEF LifeInv
    <3>. QED  BY <3>1, <3>2, LifecycleAssumption DEF Process
  <2>2. db.run # "none" /\ work.finding = db.finding \cup {f}
    BY <1>4 DEF CommitsFinding
  <2>. HIDE DEF f
  <2>3. PICK e : e = [db EXCEPT !.finding = db.finding \cup {f}]
    OBVIOUS
  <2>4. IsDb(e) /\ e.run = db.run /\ e.target = db.target /\ e.finding = db.finding \cup {f} /\ SameContents(e, db)
    BY <1>0, <2>3, WithFinding
  <2>5. db' = e
    BY <1>0, <1>4, <2>2, <2>4, SameDb DEF CommitsFinding, SameContents
  <2>6. Atomic!AddFinding(f)
    BY <2>2, <2>3, <2>5 DEF Atomic!AddFinding
  <2>. QED  BY <2>1, <2>6 DEF Atomic!Next
<1>5. ASSUME NEW batch \in Batch, CommitsBatch(batch)  PROVE Atomic!Next \/ db' = db
  <2>1. PersistPart(batch)
    BY <1>5 DEF CommitsBatch
  <2>2. CASE db.run = "none"
    BY <1>0, <2>1, <2>2, PersistCommits
  <2>3. CASE db.run # "none"
    BY <1>0, <2>1, <2>3, BatchIsAtomic DEF Atomic!Next
  <2>. QED  BY <2>2, <2>3
<1>. QED  BY <1>0, <1>1, <1>2, <1>3, <1>4, <1>5, CommitCases

\* The store implements the atomic one: whatever statement raises and wherever the process
\* dies, an operation is stored as a whole or not at all (Database.transaction).
THEOREM StoreIsAtomic == Spec => ImplementsAtomicStore
<1>1. Init => Atomic!Init
  BY DEF Init, StoreInit, Atomic!Init
<1>2. LifecycleInv /\ [Next]_vars => [Atomic!Next]_db
  <2>. SUFFICES ASSUME LifecycleInv, [Next]_vars  PROVE Atomic!Next \/ db' = db
    OBVIOUS
  <2>. QED  BY StoreStep, OnlyCommits, CommitIsAtomic
<1>. QED  BY <1>1, <1>2, LifecycleInvariant, PTL DEF Spec, ImplementsAtomicStore, Atomic!Spec

==============================================================================

--------------------------- MODULE ProjectProofs ---------------------------
(***************************************************************************)
(* Proofs about Project, for every history of releases and migrations,     *)
(* every set of installed binaries and every number of edits and failures. *)
(***************************************************************************)
EXTENDS Project, FiniteSetTheorems, WellFoundedInduction, TLAPS

-----------------------------------------------------------------------------
(* Induction over an interval, for a set of numbers: the installed provers
   cannot instantiate the library's induction rules, which take a predicate. *)
LEMMA LeastOf ==
  ASSUME NEW T \in SUBSET Nat, T # {}
  PROVE  \E x \in T : \A y \in T : x <= y
<1>1. \E x \in T : \A y \in T : ~(<<y, x>> \in OpToRel(<, Nat))
  BY NatLessThanWellFounded, WFMin, Zenon
<1>2. ASSUME NEW x \in T, NEW y \in T, ~(<<y, x>> \in OpToRel(<, Nat))
      PROVE  x <= y
  BY <1>2 DEF OpToRel
<1> QED BY <1>1, <1>2, Zenon

LEMMA IntervalInduction ==
  ASSUME NEW m \in {0, 1}, NEW n \in Nat, m <= n, NEW D \in SUBSET (m..n),
         m \in D, \A k \in D : k < n => k + 1 \in D
  PROVE  D = m..n
<1>1. SUFFICES ASSUME \E j \in m..n : j \notin D PROVE FALSE
  <2>1. D \subseteq m..n
    OBVIOUS
  <2> QED BY <2>1, Zenon
<1>2. PICK T : T = {k \in m..n : k \notin D}
  OBVIOUS
<1>8. T \in SUBSET Nat /\ T # {}
  BY <1>1, <1>2
<1>3. PICK x \in T : \A y \in T : x <= y
  BY <1>8, LeastOf
<1>4. x \in m..n /\ x # m /\ x \notin D
  BY <1>2, <1>3
<1>5. x - 1 \in m..n /\ ~(x <= x - 1)
  BY <1>4
<1>6. x - 1 \in D
  BY <1>2, <1>3, <1>5
<1>7. x - 1 < n /\ (x - 1) + 1 = x
  BY <1>4
<1> QED BY <1>4, <1>6, <1>7

(* The text after each of the migrations. *)
IsText(v, chain, g) ==
  g = [k \in 1..Len(chain) |->
         IF k = 1 THEN v
         ELSE IF g[k - 1] = chain[k - 1] THEN chain[k] ELSE g[k - 1]]

LEMMA TextExists ==
  ASSUME NEW v, NEW chain, Len(chain) \in Nat \ {0}
  PROVE  \E g : IsText(v, chain, g)
<1> DEFINE n == Len(chain)
           F(g, m) == /\ g = [k \in 1..m |-> g[k]] /\ g[1] = v
                      /\ \A k \in 2..m : g[k] = IF g[k - 1] = chain[k - 1] THEN chain[k] ELSE g[k - 1]
<1> HIDE DEF F
<1>1. PICK D : D = {m \in 1..n : \E g : F(g, m)}
  OBVIOUS
<1>2. 1 \in D
  <2>1. PICK g : g = [k \in 1..1 |-> v]
    OBVIOUS
  <2>2. F(g, 1)
    BY <2>1 DEF F
  <2> QED BY <1>1, <2>2
<1>3. ASSUME NEW m \in D, m < n PROVE m + 1 \in D
  <2>1. PICK g : F(g, m)
    BY <1>1
  <2>2. PICK h : h = [k \in 1..(m + 1) |->
                        IF k <= m THEN g[k]
                        ELSE IF g[m] = chain[m] THEN chain[m + 1] ELSE g[m]]
    OBVIOUS
  <2>3. m \in 1..n /\ m + 1 \in 1..n
    BY <1>1, <1>3
  <2>4. F(h, m + 1)
    <3>1. h = [k \in 1..(m + 1) |-> h[k]]
      BY <2>2
    <3>2. h[1] = v
      BY <2>1, <2>2, <2>3 DEF F
    <3>3. ASSUME NEW k \in 2..(m + 1)
          PROVE  h[k] = IF h[k - 1] = chain[k - 1] THEN chain[k] ELSE h[k - 1]
      <4>1. h[k - 1] = g[k - 1]
        BY <2>2, <2>3
      <4>2. CASE k <= m
        <5>1. h[k] = g[k]
          BY <2>2, <2>3, <4>2
        <5>2. k \in 2..m
          BY <2>3, <4>2
        <5>3. g[k] = IF g[k - 1] = chain[k - 1] THEN chain[k] ELSE g[k - 1]
          BY <2>1, <5>2 DEF F
        <5> QED BY <4>1, <5>1, <5>3
      <4>3. CASE ~(k <= m)
        <5>1. k = m + 1
          BY <2>3, <4>3
        <5>2. h[k] = IF g[m] = chain[m] THEN chain[m + 1] ELSE g[m]
          BY <2>2, <2>3, <5>1
        <5> QED BY <2>3, <4>1, <5>1, <5>2
      <4> QED BY <4>2, <4>3
    <3> QED BY <3>1, <3>2, <3>3 DEF F
  <2> QED BY <1>1, <2>3, <2>4
<1>4. n \in D
  <2>1. D \in SUBSET (1..n)
    BY <1>1
  <2>2. D = 1..n
    <3>1. n \in Nat /\ 1 <= n /\ 1 \in {0, 1}
      OBVIOUS
    <3> HIDE DEF n
    <3>2. \A k \in D : k < n => k + 1 \in D
      BY <1>3
    <3> QED BY <1>2, <2>1, <3>1, <3>2, IntervalInduction
  <2> QED BY <2>2
<1>5. PICK g : F(g, n)
  BY <1>1, <1>4
<1>6. IsText(v, chain, g)
  <2>1. PICK b : b = [k \in 1..Len(chain) |->
                        IF k = 1 THEN v
                        ELSE IF g[k - 1] = chain[k - 1] THEN chain[k] ELSE g[k - 1]]
    OBVIOUS
  <2>2. g = [k \in 1..Len(chain) |-> g[k]] /\ g[1] = v
    BY <1>5 DEF F
  <2>3. ASSUME NEW k \in 1..Len(chain), k # 1
        PROVE  g[k] = IF g[k - 1] = chain[k - 1] THEN chain[k] ELSE g[k - 1]
    <3>1. k \in 2..n
      BY <2>3
    <3> QED BY <1>5, <3>1 DEF F
  <2>4. \A k \in 1..Len(chain) : g[k] = b[k]
    BY <2>1, <2>2, <2>3
  <2>5. g = b
    BY <2>1, <2>2, <2>4
  <2> QED BY <2>1, <2>5 DEF IsText
<1> QED BY <1>6

LEMMA TextFacts ==
  ASSUME NEW v, NEW chain, Len(chain) \in Nat \ {0}
  PROVE  \E g : IsText(v, chain, g) /\ applyCodemods(v, chain) = g[Len(chain)]
<1> DEFINE t == CHOOSE g : IsText(v, chain, g)
<1>1. IsText(v, chain, t)
  BY TextExists, Zenon
<1>2. applyCodemods(v, chain) = t[Len(chain)]
  BY DEF applyCodemods, IsText
<1> QED BY <1>1, <1>2

(* The versions passed through, one migration more or the same. *)
After(s, to, declared) ==
  IF Last(s) = to \/ {m \in declared : m[1] = Last(s)} = {} THEN s
  ELSE Append(s, (CHOOSE m \in {m \in declared : m[1] = Last(s)} : TRUE)[2])
IsWalk(from, to, declared, g) ==
  g = [k \in 0..Cardinality(declared) |->
         IF k = 0 THEN <<from>> ELSE After(g[k - 1], to, declared)]

LEMMA WalkExists ==
  ASSUME NEW from, NEW to, NEW declared, Cardinality(declared) \in Nat
  PROVE  \E g : IsWalk(from, to, declared, g)
<1> DEFINE n == Cardinality(declared)
           F(g, m) == /\ g = [k \in 0..m |-> g[k]] /\ g[0] = <<from>>
                      /\ \A k \in 1..m : g[k] = After(g[k - 1], to, declared)
<1> HIDE DEF F
<1>1. PICK D : D = {m \in 0..n : \E g : F(g, m)}
  OBVIOUS
<1>2. 0 \in D
  <2>1. PICK g : g = [k \in 0..0 |-> <<from>>]
    OBVIOUS
  <2>2. F(g, 0)
    BY <2>1 DEF F
  <2> QED BY <1>1, <2>2
<1>3. ASSUME NEW m \in D, m < n PROVE m + 1 \in D
  <2>1. PICK g : F(g, m)
    BY <1>1
  <2>2. PICK h : h = [k \in 0..(m + 1) |->
                        IF k <= m THEN g[k] ELSE After(g[m], to, declared)]
    OBVIOUS
  <2>3. m \in 0..n /\ m + 1 \in 0..n
    BY <1>1, <1>3
  <2>4. F(h, m + 1)
    <3>1. h = [k \in 0..(m + 1) |-> h[k]]
      BY <2>2
    <3>2. h[0] = <<from>>
      BY <2>1, <2>2, <2>3 DEF F
    <3>3. ASSUME NEW k \in 1..(m + 1)
          PROVE  h[k] = After(h[k - 1], to, declared)
      <4>1. h[k - 1] = g[k - 1]
        BY <2>2, <2>3
      <4>2. CASE k <= m
        <5>1. h[k] = g[k]
          BY <2>2, <2>3, <4>2
        <5>2. k \in 1..m
          BY <2>3, <4>2
        <5>3. g[k] = After(g[k - 1], to, declared)
          BY <2>1, <5>2 DEF F
        <5> QED BY <4>1, <5>1, <5>3
      <4>3. CASE ~(k <= m)
        <5>1. k = m + 1
          BY <2>3, <4>3
        <5>2. h[k] = After(g[m], to, declared)
          BY <2>2, <2>3, <5>1
        <5> QED BY <2>3, <4>1, <5>1, <5>2
      <4> QED BY <4>2, <4>3
    <3> QED BY <3>1, <3>2, <3>3 DEF F
  <2> QED BY <1>1, <2>3, <2>4
<1>4. n \in D
  <2>1. D \in SUBSET (0..n)
    BY <1>1
  <2>2. D = 0..n
    <3>1. n \in Nat /\ 0 <= n /\ 0 \in {0, 1}
      OBVIOUS
    <3> HIDE DEF n
    <3>2. \A k \in D : k < n => k + 1 \in D
      BY <1>3
    <3> QED BY <1>2, <2>1, <3>1, <3>2, IntervalInduction
  <2> QED BY <2>2
<1>5. PICK g : F(g, n)
  BY <1>1, <1>4
<1>6. IsWalk(from, to, declared, g)
  <2>1. PICK b : b = [k \in 0..n |->
                        IF k = 0 THEN <<from>> ELSE After(g[k - 1], to, declared)]
    OBVIOUS
  <2>2. g = [k \in 0..n |-> g[k]] /\ g[0] = <<from>>
    BY <1>5 DEF F
  <2>3. ASSUME NEW k \in 0..n, k # 0
        PROVE  g[k] = After(g[k - 1], to, declared)
    <3>1. k \in 1..n
      BY <2>3
    <3> QED BY <1>5, <3>1 DEF F
  <2>4. \A k \in 0..n : g[k] = b[k]
    BY <2>1, <2>2, <2>3
  <2>5. g = b
    BY <2>1, <2>2, <2>4
  <2> QED BY <2>1, <2>5 DEF IsWalk
<1> QED BY <1>6

LEMMA WalkFacts ==
  ASSUME NEW from, NEW to, NEW declared, Cardinality(declared) \in Nat
  PROVE  \E g : /\ IsWalk(from, to, declared, g)
                /\ path(from, to, declared) = g[Cardinality(declared)]
<1> DEFINE t == CHOOSE g : IsWalk(from, to, declared, g)
<1>1. IsWalk(from, to, declared, t)
  BY WalkExists, Zenon
<1>2. path(from, to, declared) = t[Cardinality(declared)]
  BY DEF path, IsWalk, After
<1> QED BY <1>1, <1>2

(* A chain of migrations only goes forward. *)
IsChain(c) ==
  /\ c \in Seq(Releases) /\ Len(c) \in Nat \ {0}
  /\ \A k \in 1..(Len(c) - 1) : c[k] < c[k + 1]

LEMMA ChainFacts ==
  ASSUME NEW from \in Releases, NEW to, NEW declared \in SUBSET Migrations
  PROVE  IsChain(path(from, to, declared)) /\ path(from, to, declared)[1] = from
<1>1. Cardinality(declared) \in Nat
  <2>1. IsFiniteSet(Releases)
    BY ProjectAssumption, FS_Interval DEF Releases
  <2>2. IsFiniteSet(Releases \X Releases)
    BY <2>1, FS_Product
  <2>3. declared \subseteq Releases \X Releases
    BY ProjectAssumption
  <2>4. IsFiniteSet(declared)
    BY <2>2, <2>3, FS_Subset
  <2> QED BY <2>4, FS_CardinalityType
<1>2. PICK g : /\ IsWalk(from, to, declared, g)
               /\ path(from, to, declared) = g[Cardinality(declared)]
  BY <1>1, WalkFacts
<1> DEFINE n == Cardinality(declared)
           Good(c) == IsChain(c) /\ c[1] = from
<1>3. ASSUME NEW c, Good(c) PROVE Good(After(c, to, declared))
  <2>1. CASE Last(c) = to \/ {m \in declared : m[1] = Last(c)} = {}
    BY <1>3, <2>1 DEF After
  <2>2. CASE ~(Last(c) = to \/ {m \in declared : m[1] = Last(c)} = {})
    <3>1. PICK x : x = CHOOSE m \in {m \in declared : m[1] = Last(c)} : TRUE
      OBVIOUS
    <3>2. x \in {m \in declared : m[1] = Last(c)}
      BY <2>2, <3>1, Zenon
    <3>3. x[1] = c[Len(c)] /\ x[1] \in Releases /\ x[2] \in Releases /\ x[1] < x[2]
      BY <3>2, ProjectAssumption DEF Last
    <3>4. After(c, to, declared) = Append(c, x[2])
      BY <2>2, <3>1 DEF After
    <3>5. PICK d : d = Append(c, x[2])
      OBVIOUS
    <3>6. /\ d \in Seq(Releases) /\ Len(d) = Len(c) + 1
          /\ \A k \in 1..Len(c) : d[k] = c[k]
          /\ d[Len(c) + 1] = x[2]
      BY <1>3, <3>3, <3>5 DEF IsChain
    <3>7. ASSUME NEW k \in 1..(Len(d) - 1) PROVE d[k] < d[k + 1]
      <4>1. Len(c) \in Nat \ {0} /\ k \in 1..Len(c)
        BY <1>3, <3>6 DEF IsChain
      <4>2. CASE k = Len(c)
        BY <3>3, <3>6, <4>1, <4>2
      <4>3. CASE k # Len(c)
        <5>1. k \in 1..(Len(c) - 1) /\ k + 1 \in 1..Len(c)
          BY <4>1, <4>3
        <5> QED BY <1>3, <3>6, <4>1, <5>1 DEF IsChain
      <4> QED BY <4>2, <4>3
    <3>8. Len(d) \in Nat \ {0} /\ d[1] = from
      BY <1>3, <3>6 DEF IsChain
    <3> QED BY <3>4, <3>5, <3>6, <3>7, <3>8 DEF IsChain
  <2> QED BY <2>1, <2>2
<1> HIDE DEF Good
<1>4. PICK D : D = {k \in 0..n : Good(g[k])}
  OBVIOUS
<1>5. 0 \in D
  <2>1. g[0] = <<from>>
    BY <1>1, <1>2 DEF IsWalk
  <2>2. Good(<<from>>)
    BY DEF Good, IsChain
  <2> QED BY <1>1, <1>4, <2>1, <2>2
<1>6. ASSUME NEW k \in D, k < n PROVE k + 1 \in D
  <2>1. k \in 0..n /\ k + 1 \in 0..n /\ k + 1 # 0 /\ (k + 1) - 1 = k
    BY <1>1, <1>4, <1>6
  <2>2. g[k + 1] = After(g[k], to, declared)
    BY <1>2, <2>1 DEF IsWalk
  <2> QED BY <1>3, <1>4, <2>1, <2>2
<1>7. D = 0..n
  <2>1. n \in Nat /\ 0 <= n /\ 0 \in {0, 1} /\ D \in SUBSET (0..n)
    BY <1>1, <1>4
  <2> HIDE DEF n
  <2>2. \A k \in D : k < n => k + 1 \in D
    BY <1>6
  <2> QED BY <1>5, <2>1, <2>2, IntervalInduction
<1>8. n \in D
  BY <1>1, <1>7
<1> QED BY <1>2, <1>4, <1>8 DEF Good

(* The text moves forward or stays, and from the first version to the last. *)
LEMMA RewriteFacts ==
  ASSUME NEW chain, IsChain(chain), NEW v \in Releases \cup {Torn}
  PROVE  /\ applyCodemods(v, chain) # v =>
              /\ v \in Releases /\ applyCodemods(v, chain) \in Releases
              /\ applyCodemods(v, chain) > v
         /\ v = chain[1] => applyCodemods(v, chain) = Last(chain)
         /\ Len(chain) = 1 => applyCodemods(v, chain) = v
<1> DEFINE n == Len(chain)
<1>1. n \in Nat \ {0}
  BY DEF IsChain
<1>2. PICK g : IsText(v, chain, g) /\ applyCodemods(v, chain) = g[n]
  BY <1>1, TextFacts
<1>3. /\ g[1] = v
      /\ \A k \in 1..n : k < n =>
           g[k + 1] = IF g[k] = chain[k] THEN chain[k + 1] ELSE g[k]
  <2>1. g[1] = v
    BY <1>1, <1>2 DEF IsText
  <2>2. ASSUME NEW k \in 1..n, k < n
        PROVE  g[k + 1] = IF g[k] = chain[k] THEN chain[k + 1] ELSE g[k]
    <3>1. k + 1 \in 1..n /\ k + 1 # 1 /\ (k + 1) - 1 = k
      BY <1>1, <2>2
    <3> QED BY <1>2, <3>1 DEF IsText
  <2> QED BY <2>1, <2>2
<1>4. \A k \in 1..n : chain[k] \in Releases /\ (k < n => chain[k] < chain[k + 1] /\ chain[k + 1] \in Releases)
  BY <1>1 DEF IsChain
<1>5. Releases \subseteq Nat /\ Torn \notin Releases
  BY ProjectAssumption DEF Releases
<1>6. n \in Nat /\ 1 <= n /\ 1 \in {0, 1} /\ 1 \in 1..n /\ n \in 1..n
  BY <1>1
<1> HIDE DEF n
<1>7. ASSUME v = chain[1] PROVE g[n] = chain[n]
  <2>1. PICK D : D = {k \in 1..n : g[k] = chain[k]}
    OBVIOUS
  <2>2. 1 \in D /\ D \in SUBSET (1..n)
    BY <1>3, <1>6, <1>7, <2>1
  <2>3. ASSUME NEW k \in D, k < n PROVE k + 1 \in D
    <3>1. k \in 1..n /\ k + 1 \in 1..n
      BY <1>6, <2>1, <2>3
    <3> QED BY <1>3, <2>1, <2>3, <3>1
  <2>4. D = 1..n
    BY <1>6, <2>2, <2>3, IntervalInduction
  <2> QED BY <1>6, <2>1, <2>4
<1>8. g[n] = v \/ (v \in Releases /\ g[n] \in Releases /\ g[n] > v)
  <2> DEFINE Up(x) == x = v \/ (v \in Releases /\ x \in Releases /\ x > v)
  <2>1. ASSUME NEW x, Up(x), NEW k \in 1..n, k < n, x = chain[k]
        PROVE  Up(chain[k + 1])
    <3>1. /\ x \in Nat /\ chain[k + 1] \in Nat /\ x < chain[k + 1]
          /\ x \in Releases /\ chain[k + 1] \in Releases
      BY <1>4, <1>5, <2>1
    <3>2. CASE x = v
      BY <3>1, <3>2
    <3>3. CASE v \in Releases /\ x > v
      <4>1. v \in Nat
        BY <1>5, <3>3
      <4>2. chain[k + 1] > v
        BY <3>1, <3>3, <4>1
      <4> QED BY <3>1, <3>3, <4>2
    <3> QED BY <2>1, <3>2, <3>3
  <2> HIDE DEF Up
  <2>2. PICK D : D = {k \in 1..n : Up(g[k])}
    OBVIOUS
  <2>3. 1 \in D /\ D \in SUBSET (1..n)
    <3>1. Up(v)
      BY DEF Up
    <3> QED BY <1>3, <1>6, <2>2, <3>1
  <2>4. ASSUME NEW k \in D, k < n PROVE k + 1 \in D
    <3>1. k \in 1..n /\ k + 1 \in 1..n
      BY <1>6, <2>2, <2>4
    <3>2. Up(g[k + 1])
      BY <1>3, <2>1, <2>2, <2>4, <3>1
    <3> QED BY <2>2, <3>1, <3>2
  <2>5. D = 1..n
    BY <1>6, <2>3, <2>4, IntervalInduction
  <2>6. Up(g[n])
    BY <1>6, <2>2, <2>5
  <2> QED BY <2>6 DEF Up
<1>9. Last(chain) = chain[n]
  BY DEF Last, n
<1> QED BY <1>2, <1>3, <1>7, <1>8, <1>9 DEF n

(* A chain that passes the release without "old" removes it. *)
LEMMA RemovalFacts ==
  ASSUME NEW chain, IsChain(chain), chain[1] < WithoutOld, ~(Last(chain) < WithoutOld)
  PROVE  declaredRemovals(chain) = {"old"}
<1> DEFINE n == Len(chain)
<1>1. n \in Nat /\ 1 <= n /\ 1 \in {0, 1} /\ 1 \in 1..n /\ n \in 1..n /\ Last(chain) = chain[n]
  BY DEF IsChain, Last
<1>2. \A k \in 1..n : chain[k] \in Nat
  BY ProjectAssumption DEF IsChain, Releases
<1>3. SUFFICES ASSUME \A k \in 2..n : ~(chain[k - 1] < WithoutOld /\ chain[k] >= WithoutOld)
               PROVE  FALSE
  BY DEF declaredRemovals
<1> HIDE DEF n
<1>4. PICK D : D = {k \in 1..n : chain[k] < WithoutOld}
  OBVIOUS
<1>5. 1 \in D /\ D \in SUBSET (1..n)
  BY <1>1, <1>4
<1>6. ASSUME NEW k \in D, k < n PROVE k + 1 \in D
  <2>1. k \in 1..n /\ k + 1 \in 1..n /\ k + 1 \in 2..n /\ (k + 1) - 1 = k
    BY <1>1, <1>4, <1>6
  <2>2. ~(chain[k + 1] >= WithoutOld)
    BY <1>3, <1>4, <2>1
  <2>3. chain[k + 1] < WithoutOld
    BY <1>2, <2>1, <2>2, ProjectAssumption
  <2> QED BY <1>4, <2>1, <2>3
<1>7. D = 1..n
  BY <1>1, <1>5, <1>6, IntervalInduction
<1> QED BY <1>1, <1>4, <1>7

LEMMA ChainGrows ==
  ASSUME NEW chain, IsChain(chain)
  PROVE  chain[1] \in Nat /\ Last(chain) \in Nat /\ chain[1] <= Last(chain)
<1> DEFINE n == Len(chain)
<1>1. n \in Nat /\ 1 <= n /\ 1 \in {0, 1} /\ 1 \in 1..n /\ n \in 1..n /\ Last(chain) = chain[n]
  BY DEF IsChain, Last
<1>2. \A k \in 1..n : chain[k] \in Nat
  BY ProjectAssumption DEF IsChain, Releases
<1>3. \A k \in 1..n : k < n => k + 1 \in 1..n /\ chain[k] < chain[k + 1]
  BY DEF IsChain
<1> HIDE DEF n
<1>4. PICK D : D = {k \in 1..n : chain[1] <= chain[k]}
  OBVIOUS
<1>5. 1 \in D /\ D \in SUBSET (1..n)
  BY <1>1, <1>2, <1>4
<1>6. ASSUME NEW k \in D, k < n PROVE k + 1 \in D
  <2>1. k \in 1..n /\ k + 1 \in 1..n /\ chain[1] <= chain[k] /\ chain[k] < chain[k + 1]
    BY <1>3, <1>4, <1>6
  <2>2. chain[1] <= chain[k + 1]
    BY <1>1, <1>2, <2>1
  <2> QED BY <1>4, <2>1, <2>2
<1>7. D = 1..n
  BY <1>1, <1>5, <1>6, IntervalInduction
<1> QED BY <1>1, <1>2, <1>4, <1>7

-----------------------------------------------------------------------------
USE ProjectAssumption, ContentsAssumption

(* The paths, and a set of them in the generator's order. *)
LEMMA PathFacts ==
  /\ PathSet = {"architecture", "agents", "source", "go.mod", "recipe", "old", "wire"}
  /\ NiseOwned = {"architecture", "agents", "recipe", "old", "wire"}
  /\ AgentFiles = {"architecture", "agents"} /\ AppOwned = {"source", "go.mod"}
<1>1. PathSet = {"architecture", "agents", "source", "go.mod", "recipe", "old", "wire"}
  <2>1. PathSet = {Paths[i] : i \in 1..7}
    BY DEF PathSet, Range, Paths
  <2> QED BY <2>1 DEF Paths
<1> QED BY <1>1 DEF NiseOwned, AgentFiles, AppOwned

In(x, s) == \E i \in 1..Len(s) : s[i] = x

LEMMA Joined ==
  ASSUME NEW S, NEW s \in Seq(S), NEW t \in Seq(S)
  PROVE  s \o t \in Seq(S) /\ \A x : In(x, s \o t) <=> In(x, s) \/ In(x, t)
<1>1. /\ s \o t \in Seq(S) /\ Len(s \o t) = Len(s) + Len(t) /\ Len(s) \in Nat /\ Len(t) \in Nat
      /\ \A i \in 1..Len(s \o t) : (s \o t)[i] = IF i <= Len(s) THEN s[i] ELSE t[i - Len(s)]
  OBVIOUS
<1>2. ASSUME NEW x, In(x, s) PROVE In(x, s \o t)
  BY <1>1, <1>2 DEF In
<1>3. ASSUME NEW x, In(x, t) PROVE In(x, s \o t)
  <2>1. PICK i \in 1..Len(t) : t[i] = x
    BY <1>3 DEF In
  <2>2. i + Len(s) \in 1..Len(s \o t) /\ (s \o t)[i + Len(s)] = x
    BY <1>1, <2>1
  <2> QED BY <2>2 DEF In
<1>4. ASSUME NEW x, In(x, s \o t) PROVE In(x, s) \/ In(x, t)
  <2>1. PICK i \in 1..Len(s \o t) : (s \o t)[i] = x
    BY <1>4 DEF In
  <2>2. CASE i <= Len(s)
    BY <1>1, <2>1, <2>2 DEF In
  <2>3. CASE ~(i <= Len(s))
    <3>1. i - Len(s) \in 1..Len(t) /\ t[i - Len(s)] = x
      BY <1>1, <2>1, <2>3
    <3> QED BY <3>1 DEF In
  <2> QED BY <2>2, <2>3
<1> QED BY <1>1, <1>2, <1>3, <1>4

Distinct(s) == \A i, j \in 1..Len(s) : s[i] = s[j] => i = j

LEMMA JoinedDistinct ==
  ASSUME NEW S, NEW s \in Seq(S), NEW t \in Seq(S), Distinct(s), Distinct(t),
         \A x : ~(In(x, s) /\ In(x, t))
  PROVE  Distinct(s \o t)
<1>1. /\ Len(s \o t) = Len(s) + Len(t) /\ Len(s) \in Nat /\ Len(t) \in Nat
      /\ \A i \in 1..Len(s \o t) : (s \o t)[i] = IF i <= Len(s) THEN s[i] ELSE t[i - Len(s)]
  OBVIOUS
<1>2. SUFFICES ASSUME NEW i \in 1..Len(s \o t), NEW j \in 1..Len(s \o t),
                      (s \o t)[i] = (s \o t)[j], i < j
               PROVE  FALSE
  BY <1>1 DEF Distinct
<1>3. CASE j <= Len(s)
  BY <1>1, <1>2, <1>3 DEF Distinct
<1>4. CASE i > Len(s)
  <2>1. /\ i - Len(s) \in 1..Len(t) /\ j - Len(s) \in 1..Len(t) /\ i - Len(s) # j - Len(s)
        /\ (s \o t)[i] = t[i - Len(s)] /\ (s \o t)[j] = t[j - Len(s)]
    BY <1>1, <1>2, <1>4
  <2> QED BY <1>2, <2>1 DEF Distinct
<1>5. CASE i <= Len(s) /\ j > Len(s)
  <2>1. /\ i \in 1..Len(s) /\ j - Len(s) \in 1..Len(t)
        /\ (s \o t)[i] = s[i] /\ (s \o t)[j] = t[j - Len(s)]
    BY <1>1, <1>2, <1>5
  <2>2. In(s[i], s) /\ In(t[j - Len(s)], t)
    BY <2>1 DEF In
  <2> QED BY <1>2, <2>1, <2>2
<1> QED BY <1>1, <1>3, <1>4, <1>5

LEMMA One ==
  ASSUME NEW S, NEW y \in S
  PROVE  <<y>> \in Seq(S) /\ Distinct(<<y>>) /\ \A x : In(x, <<y>>) <=> x = y
BY DEF In, Distinct

LEMMA Empty ==
  ASSUME NEW S
  PROVE  << >> \in Seq(S) /\ Distinct(<< >>) /\ \A x : ~In(x, << >>)
BY DEF In, Distinct

(* Every path of ps is met once, when it is its turn, and no other. *)
LEMMA OrderFacts ==
  ASSUME NEW ps \in SUBSET PathSet
  PROVE  /\ InOrder(ps) \in Seq(PathSet) /\ Distinct(InOrder(ps))
         /\ \A x : In(x, InOrder(ps)) <=> x \in ps
         /\ \A i \in 1..Len(InOrder(ps)) :
              InOrder(ps)[i] = "recipe" => i = Len(InOrder(ps))
<1> DEFINE pick(k) == IF Paths[k] \in ps THEN <<Paths[k]>> ELSE << >>
<1>0. \A k, l \in 1..7 : Paths[k] = Paths[l] => k = l
  BY DEF Paths
<1>1. ASSUME NEW k \in 1..7
      PROVE  Paths[k] \in PathSet
  BY PathFacts DEF Paths
<1>2. ASSUME NEW k \in 1..7
      PROVE  /\ pick(k) \in Seq(PathSet) /\ Distinct(pick(k))
             /\ \A x : In(x, pick(k)) <=> x \in ps /\ x = Paths[k]
  <2>1. CASE Paths[k] \in ps
    <3>1. pick(k) = <<Paths[k]>>
      BY <2>1
    <3> HIDE DEF pick
    <3> QED BY <1>1, <2>1, <3>1, One
  <2>2. CASE Paths[k] \notin ps
    <3>1. pick(k) = << >>
      BY <2>2
    <3> HIDE DEF pick
    <3> QED BY <2>2, <3>1, Empty
  <2> QED BY <2>1, <2>2
<1>3. InOrder(ps) = pick(1) \o pick(2) \o pick(3) \o pick(4) \o pick(5) \o pick(6) \o pick(7)
  BY DEF InOrder
<1> HIDE DEF pick
<1> DEFINE q2 == pick(1) \o pick(2)
           q3 == q2 \o pick(3)
           q4 == q3 \o pick(4)
           q5 == q4 \o pick(5)
           q6 == q5 \o pick(6)
           q7 == q6 \o pick(7)
<1> HIDE DEF q2, q3, q4, q5, q6, q7
<1>4. /\ q2 \in Seq(PathSet) /\ Distinct(q2)
      /\ \A x : In(x, q2) <=> x \in ps /\ \E k \in 1..2 : x = Paths[k]
  <2>1. \A x : ~(In(x, pick(1)) /\ In(x, pick(2)))
    BY <1>0, <1>2
  <2>2. \A x : In(x, q2) <=> In(x, pick(1)) \/ In(x, pick(2))
    BY <1>2, Joined DEF q2
  <2> QED BY <1>2, Joined, <2>1, <2>2, JoinedDistinct DEF q2
<1>5. /\ q3 \in Seq(PathSet) /\ Distinct(q3)
      /\ \A x : In(x, q3) <=> x \in ps /\ \E k \in 1..3 : x = Paths[k]
  <2>1. \A x : ~(In(x, q2) /\ In(x, pick(3)))
    BY <1>0, <1>2, <1>4
  <2>2. \A x : In(x, q3) <=> In(x, q2) \/ In(x, pick(3))
    BY <1>2, <1>4, Joined DEF q3
  <2> QED BY <1>2, <1>4, Joined, <2>1, <2>2, JoinedDistinct DEF q3
<1>6. /\ q4 \in Seq(PathSet) /\ Distinct(q4)
      /\ \A x : In(x, q4) <=> x \in ps /\ \E k \in 1..4 : x = Paths[k]
  <2>1. \A x : ~(In(x, q3) /\ In(x, pick(4)))
    BY <1>0, <1>2, <1>5
  <2>2. \A x : In(x, q4) <=> In(x, q3) \/ In(x, pick(4))
    BY <1>2, <1>5, Joined DEF q4
  <2> QED BY <1>2, <1>5, Joined, <2>1, <2>2, JoinedDistinct DEF q4
<1>7. /\ q5 \in Seq(PathSet) /\ Distinct(q5)
      /\ \A x : In(x, q5) <=> x \in ps /\ \E k \in 1..5 : x = Paths[k]
  <2>1. \A x : ~(In(x, q4) /\ In(x, pick(5)))
    BY <1>0, <1>2, <1>6
  <2>2. \A x : In(x, q5) <=> In(x, q4) \/ In(x, pick(5))
    BY <1>2, <1>6, Joined DEF q5
  <2> QED BY <1>2, <1>6, Joined, <2>1, <2>2, JoinedDistinct DEF q5
<1>8. /\ q6 \in Seq(PathSet) /\ Distinct(q6)
      /\ \A x : In(x, q6) <=> x \in ps /\ \E k \in 1..6 : x = Paths[k]
  <2>1. \A x : ~(In(x, q5) /\ In(x, pick(6)))
    BY <1>0, <1>2, <1>7
  <2>2. \A x : In(x, q6) <=> In(x, q5) \/ In(x, pick(6))
    BY <1>2, <1>7, Joined DEF q6
  <2> QED BY <1>2, <1>7, Joined, <2>1, <2>2, JoinedDistinct DEF q6
<1>9. /\ q7 \in Seq(PathSet) /\ Distinct(q7)
      /\ \A x : In(x, q7) <=> x \in ps /\ \E k \in 1..7 : x = Paths[k]
  <2>1. \A x : ~(In(x, q6) /\ In(x, pick(7)))
    BY <1>0, <1>2, <1>8
  <2>2. \A x : In(x, q7) <=> In(x, q6) \/ In(x, pick(7))
    BY <1>2, <1>8, Joined DEF q7
  <2>3. q7 \in Seq(PathSet) /\ Distinct(q7)
    BY <1>2, <1>8, Joined, <2>1, JoinedDistinct DEF q7
  <2>4. \A x : In(x, pick(7)) <=> x \in ps /\ x = Paths[7]
    BY <1>2
  <2> QED BY <1>8, <2>2, <2>3, <2>4
<1>10. InOrder(ps) = q7
  BY <1>3 DEF q2, q3, q4, q5, q6, q7
<1>11. \A x \in ps : \E k \in 1..7 : x = Paths[k]
  BY PathFacts DEF Paths
<1>12. ASSUME NEW i \in 1..Len(q7), q7[i] = "recipe" PROVE i = Len(q7)
  <2>1. ~In("recipe", q6)
    <3>1. \A k \in 1..6 : Paths[k] # "recipe"
      BY DEF Paths
    <3> QED BY <1>8, <3>1
  <2>2. /\ Len(q7) = Len(q6) + Len(pick(7)) /\ Len(q6) \in Nat /\ Len(pick(7)) \in Nat
        /\ \A k \in 1..Len(q7) : q7[k] = IF k <= Len(q6) THEN q6[k] ELSE pick(7)[k - Len(q6)]
    BY <1>2, <1>8 DEF q7
  <2>3. Len(pick(7)) <= 1
    <3>1. pick(7) = <<Paths[7]>> \/ pick(7) = << >>
      BY DEF pick
    <3>2. Len(<<Paths[7]>>) <= 1 /\ Len(<< >>) <= 1
      OBVIOUS
    <3> QED BY <3>1, <3>2, Zenon
  <2>4. ~(i <= Len(q6))
    <3>1. ASSUME i <= Len(q6) PROVE FALSE
      <4>1. i \in 1..Len(q6) /\ q6[i] = "recipe"
        BY <1>12, <2>2, <3>1
      <4> QED BY <2>1, <4>1 DEF In
    <3> QED BY <3>1
  <2> QED BY <2>2, <2>3, <2>4
<1> QED BY <1>9, <1>10, <1>11, <1>12

-----------------------------------------------------------------------------
(* What holds while a command runs. *)

Target(b) == <<b, RuntimeOf(b)>>
Kept(b) == Planned(b) \cap NiseOwned
Current(p) == tree[p] = Rendered(p, installed, Target(installed))
Pending(p, todo) == \E i \in 1..Len(todo) : todo[i].at = p

\* The pin of go.mod is not behind the nise that runs.
PinIsUp == tree["go.mod"] = Nothing \/ ~newer(PinOf(installed), tree["go.mod"].v)

\* What a write would make of the version at p is a later release.
Versions(p) == IF p = "go.mod" THEN Pins ELSE Releases
Raises(p, v) ==
  tree[p] # Nothing /\ tree[p].v # Torn /\ v \in Versions(p) /\ Forward(p, tree[p].v, v)

\* A file of the application is written whole only where there is none, and is
\* otherwise moved forward.
IsWrite(w) ==
  /\ w.at \in PathSet
  /\ \/ /\ w.do = "put" /\ w.arg \in Files(w.at) /\ w.arg.mine = "no"
        /\ w.at \in AppOwned => tree[w.at] = Nothing
     \/ w.do = "remove" /\ w.at = "old"
     \/ w.do = "rewrite" /\ w.at = "source"
        /\ Raises("source", applyCodemods(tree["source"].v, w.arg))
     \/ w.do = "bump" /\ w.at = "go.mod" /\ Raises("go.mod", w.arg)
IsPlan(todo) == todo \in Seq(Range(todo)) /\ \A i \in 1..Len(todo) : IsWrite(todo[i])

ProjectType ==
  /\ IsTree(tree) /\ (head = Nothing \/ IsTree(head))
  /\ installed \in Binaries /\ whole \in BOOLEAN
  /\ cmd = [op |-> cmd.op, todo |-> cmd.todo, looked |-> cmd.looked, from |-> cmd.from]
  /\ cmd.op \in {"none", "new", "agents", "upgrade"}
  /\ IsPlan(cmd.todo)
  /\ cmd.op = "new" => \A i \in 1..Len(cmd.todo) : cmd.todo[i].do = "put"
  /\ last.res \in {"none", "ok", "failed"}
  /\ edits \in 0..MaxEdits /\ installs \in 0..MaxInstalls /\ faults \in 0..MaxFaults

\* What a person wrote in a file that is still to be written, git has; and a
\* file of the application is written once.
Backed(p, looked) ==
  \/ ~looked \/ head = Nothing \/ tree[p] = Nothing
  \/ tree[p].mine = "no" \/ head[p] = tree[p]
Once(todo) ==
  \A i, j \in 1..Len(todo) : i # j /\ todo[i].at \in AppOwned => todo[j].at # todo[i].at
SafeInv(todo, looked) == Once(todo) /\ \A i \in 1..Len(todo) : Backed(todo[i].at, looked)

\* Every file Nise owns says what it should, or is about to be made to; so
\* with the pin of go.mod, which upgrade only raises.
OnPlan(w) ==
  /\ w.at \in Kept(installed) => w = Put(w.at, Rendered(w.at, installed, Target(installed)))
  /\ w.at = "go.mod" => \/ w = Put("go.mod", Content(PinOf(installed)))
                        \/ w = Bump("go.mod", PinOf(installed))
BuildInv(todo) ==
  /\ \A i \in 1..Len(todo) : OnPlan(todo[i])
  /\ \A p \in Kept(installed) : Current(p) \/ Pending(p, todo)
  /\ PinIsUp \/ Pending("go.mod", todo)
AgentsInv(todo) ==
  \A i \in 1..Len(todo) :
    todo[i].at \in AgentFiles /\ todo[i] = Put(todo[i].at, Content(recipe(tree)))

Clean == (\A p \in Kept(installed) : Current(p)) /\ PinIsUp
Succeeded == last.op \in {"new", "upgrade"} /\ last.res = "ok"

\* In a tree that no upgrade has left half done, the source is where the recipe
\* says it is, and what its release no longer ships is gone.
Consistent(t) ==
  t["recipe"] # Nothing /\ t["recipe"].v # Torn =>
    /\ t["source"] = Nothing \/ t["source"].v = RuntimeIn(t["recipe"].v)
    /\ t["old"] = Nothing \/ RuntimeIn(t["recipe"].v) < WithoutOld

\* The nise that runs has moved them, or is about to.
Ships == RuntimeOf(installed) < WithoutOld
Arrived == tree["source"] = Nothing \/ tree["source"].v = RuntimeOf(installed)
Removed == tree["old"] = Nothing \/ Ships
Moved == Arrived /\ Removed
Moves(w) ==
  /\ w.at = "source" => \/ w.do = "put" /\ w.arg.v = RuntimeOf(installed)
                        \/ /\ w.do = "rewrite"
                           /\ applyCodemods(tree["source"].v, w.arg) = RuntimeOf(installed)
  /\ w.at = "old" => w.do = "remove" \/ Ships
MoveInv(todo) ==
  /\ \A i \in 1..Len(todo) : Moves(todo[i])
  /\ Arrived \/ Pending("source", todo)
  /\ Removed \/ Pending("old", todo)

\* Should the command fail now, it can be repeated: until the recipe is written
\* the tree is consistent as it was; what the release no longer ships goes before
\* the recipe, and the source moves after it.
OldFirst(todo) ==
  \A i, j \in 1..Len(todo) : todo[i].at = "old" /\ todo[j].at = "recipe" => i < j
SourceAfter(todo) ==
  \A i \in 1..Len(todo) :
    todo[i].at = "source" =>
      /\ todo[i].do = "rewrite"
      /\ Current("recipe") \/ \E j \in 1..(i - 1) : todo[j].at = "recipe"
ResumeInv(todo, from) ==
  /\ OldFirst(todo) /\ SourceAfter(todo)
  /\ RuntimeIn(from.v) \in Nat /\ RuntimeIn(from.v) <= RuntimeOf(installed)
  /\ tree["recipe"] = from => Consistent(tree)
  /\ tree["recipe"] # from => Current("recipe") /\ Removed
  /\ from # Nothing /\ from.v # Torn
RecipeEnds(todo) ==
  /\ \A i \in 1..Len(todo) : todo[i].at = "recipe" => i = Len(todo)
  /\ tree["recipe"] # Nothing => todo = << >>

CompleteInv ==
  whole => /\ head # Nothing => Consistent(head)
           /\ cmd.op \in {"new", "upgrade"} => MoveInv(cmd.todo)
           /\ cmd.op = "upgrade" => ResumeInv(cmd.todo, cmd.from)
           /\ cmd.op = "new" => RecipeEnds(cmd.todo)
           /\ cmd.op \in {"none", "agents"} => Consistent(tree)
           /\ Succeeded => Moved

IInv ==
  /\ ProjectType /\ SafeInv(cmd.todo, cmd.looked)
  /\ cmd.op \in {"new", "upgrade"} => BuildInv(cmd.todo)
  /\ cmd.op = "agents" => AgentsInv(cmd.todo)
  /\ cmd.op = "none" => cmd = Idle
  /\ Succeeded => Clean

-----------------------------------------------------------------------------
(* Facts about contents. *)
LEMMA RuntimeFacts ==
  /\ Releases \subseteq Nat
  /\ \A b \in Binaries : /\ RuntimeOf(b) \in Releases /\ (b # Dev => b \in Releases)
                         /\ PinOf(b) \in Pins /\ PinOf(b) # Torn /\ PinOf(b)[1] = RuntimeOf(b)
  /\ \A b : "recipe" \in Kept(b) /\ AgentFiles \subseteq Kept(b) /\ Kept(b) \subseteq PathSet
            /\ "go.mod" \notin Kept(b) /\ "source" \notin Kept(b)
<1>1. /\ Releases \subseteq Nat
      /\ \A b \in Binaries : RuntimeOf(b) \in Releases /\ (b # Dev => b \in Releases)
      /\ \A b : "recipe" \in Kept(b) /\ AgentFiles \subseteq Kept(b) /\ Kept(b) \subseteq PathSet
                /\ "go.mod" \notin Kept(b) /\ "source" \notin Kept(b)
  BY PathFacts DEF Releases, RuntimeOf, Kept, Planned
<1>2. ASSUME NEW b \in Binaries
      PROVE  PinOf(b) \in Pins /\ PinOf(b) # Torn /\ PinOf(b)[1] = RuntimeOf(b)
  <2>1. RuntimeOf(b) \in Releases
    BY <1>1
  <2>2. <<RuntimeOf(b), "">> \in Pins
    BY <2>1 DEF Pins
  <2>3. PinOf(b)[1] = RuntimeOf(b)
    BY DEF PinOf
  <2> QED BY <2>2, <2>3 DEF PinOf
<1> QED BY <1>1, <1>2

LEMMA PinFacts == \A x \in Pins : x \in Releases \X {"", "rc"} /\ x[1] \in Nat
<1>1. \A x \in Pins : x \in Releases \X {"", "rc"}
  BY DEF Pins
<1>2. \A x \in Releases \X {"", "rc"} : x[1] \in Releases
  OBVIOUS
<1>3. Releases \subseteq Nat
  BY DEF Releases
<1> QED BY <1>1, <1>2, <1>3

LEMMA RenderedFacts ==
  ASSUME NEW b \in Binaries, NEW p \in PathSet
  PROVE  /\ Rendered(p, b, Target(b)) \in Files(p)
         /\ Rendered(p, b, Target(b)).mine = "no" /\ Rendered(p, b, Target(b)).v # Torn
         /\ Rendered(p, b, Target(b)) # Nothing
<1>1. Target(b) \in Binaries \X Releases
  BY RuntimeFacts DEF Target
<1>2. Rendered(p, b, Target(b)) \in Files(p)
  BY <1>1, RuntimeFacts, PathFacts DEF Rendered, Content, Files
<1>3. /\ Rendered(p, b, Target(b)).mine = "no"
      /\ Rendered(p, b, Target(b)).v # Torn
  BY <1>1, RuntimeFacts DEF Rendered, Content
<1> QED BY <1>2, <1>3

LEMMA SeqOfItsRange ==
  ASSUME NEW S, NEW s \in Seq(S)
  PROVE  s \in Seq(Range(s))
BY DEF Range

LEMMA PlanTail ==
  ASSUME NEW s, s \in Seq(Range(s)), s # << >>
  PROVE  /\ Head(s) = s[1] /\ Len(s) \in Nat \ {0} /\ Len(Tail(s)) = Len(s) - 1
         /\ Tail(s) \in Seq(Range(Tail(s)))
         /\ \A i \in 1..Len(Tail(s)) : i + 1 \in 1..Len(s) /\ Tail(s)[i] = s[i + 1]
<1>1. PICK S : S = Range(s)
  OBVIOUS
<1>2. s \in Seq(S)
  BY <1>1
<1>3. /\ Head(s) = s[1] /\ Len(s) \in Nat \ {0} /\ Len(Tail(s)) = Len(s) - 1
      /\ Tail(s) \in Seq(S)
      /\ \A i \in 1..Len(Tail(s)) : i + 1 \in 1..Len(s) /\ Tail(s)[i] = s[i + 1]
  BY <1>2
<1>4. PICK t : t = Tail(s)
  OBVIOUS
<1>5. t \in Seq(Range(t))
  BY <1>3, <1>4, SeqOfItsRange
<1> QED BY <1>3, <1>4, <1>5

-----------------------------------------------------------------------------
(* One write. *)
LEMMA TreeFacts ==
  ASSUME NEW t, IsTree(t)
  PROVE  /\ DOMAIN t = PathSet
         /\ \A p \in PathSet : t[p] # Nothing => t[p] \in Files(p)
         /\ \A p \in AppOwned : t[p] # Nothing => t[p].v \in Versions(p) \cup {Torn}
         /\ t["recipe"] # Nothing => t["recipe"].v \in (Binaries \X Releases) \cup {Torn}
<1>1. /\ DOMAIN t = PathSet
      /\ \A p \in PathSet : t[p] # Nothing => t[p] \in Files(p)
  BY DEF IsTree, Contents
<1> QED BY <1>1, PathFacts DEF Files, Versions

LEMMA WriteFacts ==
  ASSUME NEW w, IsTree(tree), IsWrite(w), Perform(w)
  PROVE  /\ IsTree(tree') /\ w.at \in PathSet
         /\ \A p \in PathSet \ {w.at} : tree'[p] = tree[p]
         /\ w.do = "put" => tree'[w.at] = w.arg
         /\ w.do = "remove" => tree'[w.at] = Nothing
         /\ w.do \in {"rewrite", "bump"} =>
              /\ tree'[w.at] \in Files(w.at) /\ tree'[w.at].mine = tree[w.at].mine
              /\ tree'[w.at].v = IF w.do = "bump" THEN w.arg
                                 ELSE applyCodemods(tree[w.at].v, w.arg)
<1> DEFINE u == IF w.do = "bump" THEN w.arg ELSE applyCodemods(tree[w.at].v, w.arg)
<1>0. w.at \in PathSet /\ DOMAIN tree = PathSet
  BY DEF IsWrite, IsTree
<1>1. CASE w.do = "put"
  <2>1. tree' = [tree EXCEPT ![w.at] = w.arg] /\ w.arg \in Contents(w.at)
    BY <1>1 DEF Perform, IsWrite, Contents
  <2> QED BY <1>0, <1>1, <2>1 DEF IsTree
<1>2. CASE w.do = "remove"
  <2>1. tree' = [tree EXCEPT ![w.at] = Nothing] /\ Nothing \in Contents(w.at)
    BY <1>2 DEF Perform, Contents
  <2> QED BY <1>0, <1>2, <2>1 DEF IsTree
<1>3. CASE w.do \in {"rewrite", "bump"}
  <2>1. /\ w.at \in AppOwned /\ tree[w.at] # Nothing /\ u \in Versions(w.at)
    BY <1>3, PathFacts DEF IsWrite, Raises, Versions, Forward
  <2>2. tree[w.at] \in Files(w.at)
    BY <1>0, <2>1, TreeFacts
  <2>3. tree' = [tree EXCEPT ![w.at] = [tree[w.at] EXCEPT !.v = u]]
    BY <1>3 DEF Perform
  <2> HIDE DEF u
  <2>4. PICK c : c = [tree[w.at] EXCEPT !.v = u]
    OBVIOUS
  <2>5. c \in Files(w.at) /\ c.v = u /\ c.mine = tree[w.at].mine
    BY <2>1, <2>2, <2>4, PathFacts DEF Files, Versions
  <2>6. c \in Contents(w.at) /\ tree' = [tree EXCEPT ![w.at] = c]
    BY <2>3, <2>4, <2>5 DEF Contents
  <2>7. /\ tree'[w.at] = c /\ \A p \in PathSet \ {w.at} : tree'[p] = tree[p]
        /\ IsTree(tree')
    BY <1>0, <2>6 DEF IsTree
  <2> QED BY <1>0, <1>3, <2>5, <2>7 DEF u
<1> QED BY <1>1, <1>2, <1>3 DEF IsWrite

(* A write leaves a clean project clean, and does what the plan says of its
   path. *)
LEMMA WriteKeeps ==
  ASSUME NEW w, IsTree(tree), installed \in Binaries, installed' = installed,
         IsWrite(w), OnPlan(w), Perform(w)
  PROVE  /\ \A p \in Kept(installed) : Current(p) \/ w.at = p => Current(p)'
         /\ PinIsUp \/ w.at = "go.mod" => PinIsUp'
<1> USE WriteFacts
<1>1. ASSUME NEW p \in Kept(installed), w.at = p
      PROVE  Current(p)'
  <2>1. w.do = "put" /\ w.arg = Rendered(p, installed, Target(installed))
    BY <1>1 DEF OnPlan, Put
  <2> QED BY <1>1, <2>1 DEF Current, Rendered, Target, RuntimeOf
<1>2. ASSUME NEW p \in Kept(installed), w.at # p, Current(p)
      PROVE  Current(p)'
  BY <1>2, RuntimeFacts DEF Current, Rendered, Target, RuntimeOf
<1>3. ASSUME w.at = "go.mod"
      PROVE  PinIsUp'
  <2>1. \/ w.do = "put" /\ w.arg = Content(PinOf(installed))
        \/ w.do = "bump" /\ w.arg = PinOf(installed)
    BY <1>3 DEF OnPlan, Put, Bump
  <2>2. tree'["go.mod"].v = PinOf(installed)
    BY <1>3, <2>1 DEF Content
  <2>3. PinOf(installed)' = PinOf(installed) /\ PinOf(installed)[1] \in Nat
    BY RuntimeFacts DEF RuntimeOf, PinOf
  <2> QED BY <2>2, <2>3 DEF PinIsUp, newer
<1>4. ASSUME w.at # "go.mod", PinIsUp
      PROVE  PinIsUp'
  BY <1>4, PathFacts DEF PinIsUp, PinOf, RuntimeOf
<1> QED BY <1>1, <1>2, <1>3, <1>4

(* The writes that are left are still ones, and still safe. *)
LEMMA StepType ==
  ASSUME IInv, Step
  PROVE  /\ ProjectType' /\ SafeInv(cmd.todo, cmd.looked)'
         /\ IsWrite(cmd.todo[1]) /\ Perform(cmd.todo[1])
<1> DEFINE w == cmd.todo[1]
<1>1. /\ ProjectType /\ SafeInv(cmd.todo, cmd.looked)
  BY DEF IInv
<1>2. /\ Head(cmd.todo) = w /\ Len(cmd.todo) \in Nat \ {0}
      /\ Len(Tail(cmd.todo)) = Len(cmd.todo) - 1
      /\ Tail(cmd.todo) \in Seq(Range(Tail(cmd.todo)))
      /\ \A i \in 1..Len(Tail(cmd.todo)) :
           i + 1 \in 1..Len(cmd.todo) /\ Tail(cmd.todo)[i] = cmd.todo[i + 1]
  BY <1>1, PlanTail DEF ProjectType, IsPlan, Step
<1>3. IsWrite(w) /\ Perform(w) /\ Backed(w.at, cmd.looked) /\ w.at \in PathSet
  BY <1>1, <1>2 DEF ProjectType, IsPlan, Step, SafeInv, IsWrite
<1>4. /\ cmd'.todo = Tail(cmd.todo) /\ cmd'.op = cmd.op /\ cmd'.looked = cmd.looked
      /\ cmd' = [op |-> cmd'.op, todo |-> cmd'.todo, looked |-> cmd'.looked, from |-> cmd'.from]
      /\ head' = head /\ installed' = installed
  BY <1>1 DEF ProjectType, Step
<1> HIDE DEF w
<1>5. /\ IsTree(tree')
      /\ \A p \in PathSet \ {w.at} : tree'[p] = tree[p]
      /\ w.do = "put" => tree'[w.at] = w.arg
      /\ w.do = "remove" => tree'[w.at] = Nothing
  BY <1>1, <1>3, WriteFacts DEF ProjectType
<1>6. \A i \in 1..Len(cmd'.todo) : i + 1 \in 1..Len(cmd.todo) /\ cmd'.todo[i] = cmd.todo[i + 1]
  BY <1>2, <1>4
<1>7. ASSUME NEW i \in 1..Len(cmd'.todo), cmd.todo[i + 1].at \in AppOwned
      PROVE  cmd.todo[i + 1].at # w.at /\ tree'[cmd.todo[i + 1].at] = tree[cmd.todo[i + 1].at]
  <2>1. i + 1 \in 1..Len(cmd.todo) /\ 1 \in 1..Len(cmd.todo) /\ 1 # i + 1
    BY <1>2, <1>6
  <2>2. cmd.todo[i + 1].at # w.at
    BY <1>1, <1>7, <2>1 DEF SafeInv, Once, w
  <2> QED BY <1>5, <1>7, <2>2, PathFacts
<1>8. ASSUME NEW i \in 1..Len(cmd'.todo)
      PROVE  IsWrite(cmd.todo[i])'
  <2>1. PICK x : x = cmd.todo[i + 1]
    OBVIOUS
  <2>2. IsWrite(x) /\ cmd'.todo[i] = x /\ x.at \in PathSet
    BY <1>1, <1>6, <2>1 DEF ProjectType, IsPlan, IsWrite
  <2>3. CASE x.at \in AppOwned
    <3>1. tree'[x.at] = tree[x.at]
      BY <1>7, <2>1, <2>3
    <3> QED BY <2>2, <2>3, <3>1 DEF IsWrite, Raises, Versions, Forward
  <2>4. CASE x.at \notin AppOwned
    BY <2>2, <2>4, PathFacts DEF IsWrite
  <2> QED BY <2>3, <2>4
<1>9. ProjectType'
  <2>1. cmd'.op = "new" => \A i \in 1..Len(cmd'.todo) : cmd'.todo[i].do = "put"
    BY <1>1, <1>4, <1>6 DEF ProjectType
  <2>2. /\ last' = last /\ edits' = edits /\ installs' = installs /\ faults' = faults
        /\ whole' = whole
        /\ (head = Nothing \/ IsTree(head))'
    BY <1>1 DEF Step, ProjectType, IsTree, Contents
  <2> QED BY <1>1, <1>2, <1>4, <1>5, <1>8, <2>1, <2>2 DEF ProjectType, IsPlan
<1>10. ASSUME NEW i \in 1..Len(cmd'.todo)
       PROVE  Backed(cmd.todo[i].at, cmd.looked)'
  <2>1. PICK x : x = cmd.todo[i + 1]
    OBVIOUS
  <2>2. i + 1 \in 1..Len(cmd.todo) /\ cmd'.todo[i] = x
    BY <1>6, <2>1
  <2>3. Backed(x.at, cmd.looked) /\ x.at \in PathSet
    BY <1>1, <2>1, <2>2 DEF SafeInv, ProjectType, IsPlan, IsWrite
  <2>4. CASE x.at = w.at
    <3>1. w.at \notin AppOwned
      BY <1>7, <2>1, <2>4
    <3>2. tree'[x.at] = Nothing \/ tree'[x.at].mine = "no"
      BY <1>3, <1>5, <2>3, <2>4, <3>1, PathFacts DEF IsWrite
    <3> QED BY <2>2, <3>2 DEF Backed
  <2>5. CASE x.at # w.at
    BY <1>4, <1>5, <2>2, <2>3, <2>5 DEF Backed
  <2> QED BY <2>4, <2>5
<1>11. ASSUME NEW i \in 1..Len(cmd'.todo), NEW j \in 1..Len(cmd'.todo), i # j,
              cmd'.todo[i].at \in AppOwned
       PROVE  cmd'.todo[j].at # cmd'.todo[i].at
  <2>1. /\ i + 1 \in 1..Len(cmd.todo) /\ j + 1 \in 1..Len(cmd.todo) /\ i + 1 # j + 1
        /\ cmd'.todo[i] = cmd.todo[i + 1] /\ cmd'.todo[j] = cmd.todo[j + 1]
    BY <1>6, <1>11
  <2> QED BY <1>1, <1>11, <2>1 DEF SafeInv, Once
<1> QED BY <1>3, <1>9, <1>10, <1>11 DEF SafeInv, Once, w

LEMMA StepPlan ==
  ASSUME IInv, Step
  PROVE  /\ Len(cmd.todo) \in Nat \ {0} /\ cmd'.todo = Tail(cmd.todo) /\ cmd'.op = cmd.op
         /\ \A i \in 1..Len(cmd'.todo) :
              i + 1 \in 1..Len(cmd.todo) /\ cmd'.todo[i] = cmd.todo[i + 1]
         /\ \A p : Pending(p, cmd.todo) /\ cmd.todo[1].at # p => Pending(p, cmd.todo)'
<1>1. ProjectType
  BY DEF IInv
<1>2. /\ Len(cmd.todo) \in Nat \ {0} /\ cmd.todo \in Seq(Range(cmd.todo))
      /\ Len(Tail(cmd.todo)) = Len(cmd.todo) - 1
      /\ \A i \in 1..Len(Tail(cmd.todo)) :
           i + 1 \in 1..Len(cmd.todo) /\ Tail(cmd.todo)[i] = cmd.todo[i + 1]
  BY <1>1, PlanTail DEF ProjectType, IsPlan, Step
<1>3. cmd'.todo = Tail(cmd.todo) /\ cmd'.op = cmd.op
  BY <1>1 DEF ProjectType, Step
<1>4. ASSUME NEW p, Pending(p, cmd.todo), cmd.todo[1].at # p
      PROVE  Pending(p, cmd.todo)'
  <2>1. PICK i \in 1..Len(cmd.todo) : cmd.todo[i].at = p
    BY <1>4 DEF Pending
  <2>2. i # 1
    BY <1>4, <2>1
  <2>3. i - 1 \in 1..Len(cmd'.todo) /\ cmd'.todo[i - 1].at = p
    BY <1>2, <1>3, <2>1, <2>2
  <2>4. PICK k \in 1..Len(cmd'.todo) : cmd'.todo[k].at = p
    BY <2>3
  <2> QED BY <2>4 DEF Pending
<1> QED BY <1>2, <1>3, <1>4

LEMMA StepKeeps ==
  ASSUME IInv, Step
  PROVE  IInv'
<1> DEFINE w == cmd.todo[1]
<1>1. ProjectType /\ IsTree(tree) /\ installed \in Binaries
  BY DEF IInv, ProjectType
<1>2. /\ Len(cmd.todo) \in Nat \ {0} /\ cmd.todo \in Seq(Range(cmd.todo))
      /\ Len(Tail(cmd.todo)) = Len(cmd.todo) - 1
      /\ \A i \in 1..Len(Tail(cmd.todo)) :
           i + 1 \in 1..Len(cmd.todo) /\ Tail(cmd.todo)[i] = cmd.todo[i + 1]
  BY <1>1, PlanTail DEF ProjectType, IsPlan, Step
<1>3. IsWrite(w) /\ Perform(w) /\ ProjectType' /\ SafeInv(cmd.todo, cmd.looked)'
  BY StepType
<1>4. /\ cmd'.todo = Tail(cmd.todo) /\ cmd'.op = cmd.op
      /\ installed' = installed /\ last' = last
  BY <1>1 DEF ProjectType, Step
<1>5. \A i \in 1..Len(cmd'.todo) : i + 1 \in 1..Len(cmd.todo) /\ cmd'.todo[i] = cmd.todo[i + 1]
  BY <1>2, <1>4
<1>6. ASSUME NEW p, Pending(p, cmd.todo), w.at # p
      PROVE  Pending(p, cmd.todo)'
  BY <1>6, StepPlan
<1>7. CASE cmd.op \in {"new", "upgrade"}
  <2>1. BuildInv(cmd.todo)
    BY <1>7 DEF IInv
  <2>2. OnPlan(w)
    BY <1>2, <2>1 DEF BuildInv
  <2> HIDE DEF w
  <2>3. /\ \A p \in Kept(installed) : Current(p) \/ w.at = p => Current(p)'
        /\ PinIsUp \/ w.at = "go.mod" => PinIsUp'
    BY <1>1, <1>3, <1>4, <2>2, WriteKeeps
  <2>4. BuildInv(cmd.todo)'
    <3>1. ASSUME NEW i \in 1..Len(cmd'.todo) PROVE OnPlan(cmd.todo[i])'
      BY <1>4, <1>5, <2>1
      DEF BuildInv, OnPlan, Kept, Rendered, Target, RuntimeOf, Planned
    <3>2. ASSUME NEW p \in Kept(installed) PROVE Current(p)' \/ Pending(p, cmd.todo)'
      BY <1>6, <2>1, <2>3 DEF BuildInv
    <3>3. PinIsUp' \/ Pending("go.mod", cmd.todo)'
      BY <1>6, <2>1, <2>3 DEF BuildInv
    <3>4. Kept(installed)' = Kept(installed)
      BY <1>4 DEF Kept, Planned, RuntimeOf
    <3> QED BY <3>1, <3>2, <3>3, <3>4 DEF BuildInv
  <2>5. ASSUME Succeeded' PROVE Clean'
    <3>1. Clean
      BY <1>4, <2>5 DEF IInv, Succeeded
    <3> QED BY <1>4, <2>3, <3>1 DEF Clean, Kept, Planned, RuntimeOf
  <2> QED BY <1>3, <1>4, <1>7, <2>4, <2>5 DEF IInv
<1>8. CASE cmd.op = "agents"
  <2>1. AgentsInv(cmd.todo)
    BY <1>8 DEF IInv
  <2>2. w.at \in AgentFiles /\ w = Put(w.at, Content(recipe(tree)))
    BY <1>2, <2>1 DEF AgentsInv
  <2> HIDE DEF w
  <2>3. /\ tree'["recipe"] = tree["recipe"]
    BY <1>1, <1>3, <2>2, WriteFacts, PathFacts
  <2>4. AgentsInv(cmd.todo)'
    BY <1>4, <1>5, <2>1, <2>3 DEF AgentsInv, recipe
  <2>5. ASSUME Succeeded' PROVE Clean'
    <3>1. Clean
      BY <1>4, <2>5 DEF IInv, Succeeded
    <3>2. recipe(tree) = Target(installed)
      <4>1. tree["recipe"] = Rendered("recipe", installed, Target(installed))
        BY <3>1, RuntimeFacts DEF Clean, Current
      <4> QED BY <4>1 DEF recipe, Rendered, Content
    <3>3. OnPlan(w)
      BY <2>2, <3>2, PathFacts DEF OnPlan, Rendered
    <3>4. /\ \A p \in Kept(installed) : Current(p) \/ w.at = p => Current(p)'
          /\ PinIsUp \/ w.at = "go.mod" => PinIsUp'
      BY <1>1, <1>3, <1>4, <3>3, WriteKeeps
    <3> QED BY <1>4, <3>1, <3>4 DEF Clean, Kept, Planned, RuntimeOf
  <2> QED BY <1>3, <1>4, <1>8, <2>4, <2>5 DEF IInv
<1>9. CASE cmd.op = "none"
  <2>1. cmd = Idle
    BY <1>9 DEF IInv
  <2> QED BY <2>1 DEF Step
<1> QED BY <1>1, <1>7, <1>8, <1>9 DEF ProjectType

-----------------------------------------------------------------------------
(* The plans that the commands make. *)
LEMMA Mapped ==
  ASSUME NEW S, NEW s \in Seq(S), NEW f, f = [i \in DOMAIN s |-> f[i]]
  PROVE  f \in Seq(Range(f)) /\ Len(f) = Len(s) /\ DOMAIN s = 1..Len(s)
<1>1. DOMAIN s = 1..Len(s) /\ Len(s) \in Nat
  OBVIOUS
<1>2. PICK R : R = Range(f)
  OBVIOUS
<1>3. f \in [1..Len(s) -> R]
  BY <1>1, <1>2 DEF Range
<1>4. f \in Seq(R)
  BY <1>1, <1>3
<1> QED BY <1>1, <1>2, <1>3, <1>4

LEMMA JoinedOnce ==
  ASSUME NEW S, NEW s \in Seq(S), NEW t \in Seq(S), Once(s), Once(t),
         \A x, y : In(x, s) /\ In(y, t) /\ x.at \in AppOwned => y.at # x.at
  PROVE  Once(s \o t)
<1>1. /\ Len(s \o t) = Len(s) + Len(t) /\ Len(s) \in Nat /\ Len(t) \in Nat
      /\ \A i \in 1..Len(s \o t) : (s \o t)[i] = IF i <= Len(s) THEN s[i] ELSE t[i - Len(s)]
  OBVIOUS
<1>2. SUFFICES ASSUME NEW i \in 1..Len(s \o t), NEW j \in 1..Len(s \o t), i < j,
                      (s \o t)[i].at \in AppOwned
               PROVE  (s \o t)[j].at # (s \o t)[i].at
  <2>1. ASSUME NEW i \in 1..Len(s \o t), NEW j \in 1..Len(s \o t), i # j
        PROVE  i < j \/ j < i
    <3>1. i \in Int /\ j \in Int
      OBVIOUS
    <3> QED BY <2>1, <3>1
  <2> QED BY <2>1 DEF Once
<1>3. CASE j <= Len(s)
  BY <1>1, <1>2, <1>3 DEF Once
<1>4. CASE i > Len(s)
  <2>1. /\ i - Len(s) \in 1..Len(t) /\ j - Len(s) \in 1..Len(t) /\ i - Len(s) < j - Len(s)
        /\ (s \o t)[i] = t[i - Len(s)] /\ (s \o t)[j] = t[j - Len(s)]
    BY <1>1, <1>2, <1>4
  <2> QED BY <1>2, <2>1 DEF Once
<1>5. CASE i <= Len(s) /\ j > Len(s)
  <2>1. /\ i \in 1..Len(s) /\ j - Len(s) \in 1..Len(t)
        /\ (s \o t)[i] = s[i] /\ (s \o t)[j] = t[j - Len(s)]
    BY <1>1, <1>2, <1>5
  <2>2. In(s[i], s) /\ In(t[j - Len(s)], t)
    BY <2>1 DEF In
  <2> QED BY <1>2, <2>1, <2>2
<1> QED BY <1>1, <1>3, <1>4, <1>5

(* What upgrade writes of the files Nise owns: the ones that are not current. *)
LEMMA ChangesFacts ==
  ASSUME NEW chain, NEW f, f = fileChanges(installed, Target(installed), chain)
  PROVE  /\ f \in Seq(Range(f))
         /\ \A x : In(x, f) =>
              \/ /\ x.at \in Kept(installed)
                 /\ x = Put(x.at, Rendered(x.at, installed, Target(installed)))
              \/ x = Delete("old") /\ "old" \notin Planned(installed)
         /\ \A p \in Kept(installed) : Current(p) \/ Pending(p, f)
         /\ declaredRemovals(chain) = {"old"} /\ "old" \notin Planned(installed) =>
              tree["old"] = Nothing \/ Pending("old", f)
         /\ \A i \in 1..Len(f) : f[i].at = "recipe" => i = Len(f)
<1>1. PICK stale : stale = {p \in Kept(installed) :
                              tree[p] /= Rendered(p, installed, Target(installed))}
  OBVIOUS
<1>2. PICK gone : gone = {p \in declaredRemovals(chain) \ Planned(installed) :
                            tree[p] /= Nothing}
  OBVIOUS
<1>3. PICK s : s = InOrder(stale \cup gone)
  OBVIOUS
<1>4. f = [i \in DOMAIN s |-> IF s[i] \in gone THEN Delete(s[i])
                              ELSE Put(s[i], Rendered(s[i], installed, Target(installed)))]
  BY <1>1, <1>2, <1>3 DEF fileChanges, Kept
<1>5. gone \subseteq {"old"} \ Planned(installed) /\ stale \subseteq Kept(installed)
  BY <1>1, <1>2 DEF declaredRemovals
<1>6. stale \cup gone \in SUBSET PathSet
  BY <1>5, RuntimeFacts, PathFacts
<1>7. /\ s \in Seq(PathSet) /\ \A x : In(x, s) <=> x \in stale \cup gone
      /\ \A i \in 1..Len(s) : s[i] = "recipe" => i = Len(s)
  BY <1>3, <1>6, OrderFacts
<1>8. f \in Seq(Range(f)) /\ Len(f) = Len(s) /\ DOMAIN s = 1..Len(s)
  BY <1>4, <1>7, Mapped
<1>9. ASSUME NEW x, In(x, f)
      PROVE  \/ /\ x.at \in Kept(installed)
                /\ x = Put(x.at, Rendered(x.at, installed, Target(installed)))
             \/ x = Delete("old") /\ "old" \notin Planned(installed)
  <2>1. PICK i \in 1..Len(s) : x = f[i]
    BY <1>8, <1>9 DEF In
  <2>2. s[i] \in stale \cup gone
    BY <1>7, <2>1 DEF In
  <2>3. CASE s[i] \in gone
    BY <1>4, <1>5, <1>8, <2>1, <2>3
  <2>4. CASE s[i] \notin gone
    <3>1. x = Put(s[i], Rendered(s[i], installed, Target(installed))) /\ s[i] \in Kept(installed)
      BY <1>4, <1>5, <1>8, <2>1, <2>2, <2>4
    <3>2. x.at = s[i]
      BY <3>1 DEF Put
    <3> QED BY <3>1, <3>2
  <2> QED BY <2>3, <2>4
<1>10. ASSUME NEW p \in Kept(installed), ~Current(p)
       PROVE  Pending(p, f)
  <2>1. p \in stale
    BY <1>1, <1>10 DEF Current
  <2>2. PICK i \in 1..Len(s) : s[i] = p
    BY <1>7, <2>1 DEF In
  <2>3. f[i].at = p
    BY <1>4, <1>8, <2>2 DEF Put, Delete
  <2> QED BY <1>8, <2>2, <2>3 DEF Pending
<1>11. ASSUME declaredRemovals(chain) = {"old"}, "old" \notin Planned(installed),
              tree["old"] # Nothing
       PROVE  Pending("old", f)
  <2>1. "old" \in gone
    BY <1>2, <1>11
  <2>2. PICK i \in 1..Len(s) : s[i] = "old"
    BY <1>7, <2>1 DEF In
  <2>3. f[i].at = "old"
    BY <1>4, <1>8, <2>2 DEF Put, Delete
  <2> QED BY <1>8, <2>2, <2>3 DEF Pending
<1>12. \A i \in 1..Len(f) : f[i].at = s[i]
  BY <1>4, <1>8 DEF Put, Delete
<1> QED BY <1>7, <1>8, <1>9, <1>10, <1>11, <1>12

(* A command that begins with a plan like that. *)
LEMMA StartKeeps ==
  ASSUME NEW op \in {"new", "agents", "upgrade"}, NEW plan, NEW looked, NEW from,
         IInv, Start(op, plan, looked, from),
         IsPlan(plan), SafeInv(plan, looked), whole' \in BOOLEAN,
         op = "new" => \A i \in 1..Len(plan) : plan[i].do = "put",
         op \in {"new", "upgrade"} => BuildInv(plan), op = "agents" => AgentsInv(plan)
  PROVE  IInv'
<1>1. /\ cmd' = [op |-> op, todo |-> plan, looked |-> looked, from |-> from]
      /\ tree' = tree /\ head' = head /\ installed' = installed
      /\ last'.op = "none" /\ last'.res = "none"
      /\ edits' = edits /\ installs' = installs /\ faults' = faults
  BY DEF Start, Ended
<1>2. IsPlan(plan)'
  BY <1>1 DEF IsPlan, IsWrite, Raises, Versions
<1>3. ProjectType'
  BY <1>1, <1>2 DEF IInv, ProjectType, IsTree
<1>4. SafeInv(plan, looked)'
  BY <1>1 DEF SafeInv, Backed
<1>6. op \in {"new", "upgrade"} => BuildInv(plan)'
  BY <1>1 DEF BuildInv, OnPlan, Kept, Planned, RuntimeOf, Current, PinIsUp, PinOf, Rendered, Target
<1>7. op = "agents" => AgentsInv(plan)'
  BY <1>1 DEF AgentsInv
<1>8. ~Succeeded'
  BY <1>1 DEF Succeeded
<1> QED BY <1>1, <1>3, <1>4, <1>6, <1>7, <1>8 DEF IInv

LEMMA Stutter ==
  ASSUME IInv, UNCHANGED vars
  PROVE  IInv'
<1>1. /\ cmd' = cmd /\ tree' = tree /\ head' = head /\ installed' = installed /\ last' = last
      /\ whole' = whole /\ edits' = edits /\ installs' = installs /\ faults' = faults
  BY DEF vars
<1>2. ProjectType'
  BY <1>1 DEF IInv, ProjectType, IsPlan, IsWrite, Raises, Versions, IsTree
<1>3. SafeInv(cmd.todo, cmd.looked)'
  BY <1>1 DEF IInv, SafeInv, Backed
<1>4. /\ Kept(installed)' = Kept(installed) /\ PinIsUp' = PinIsUp
      /\ \A p : Current(p)' = Current(p)
  BY <1>1 DEF Kept, Planned, RuntimeOf, Current, PinIsUp, PinOf, Rendered, Target
<1>5. BuildInv(cmd.todo) => BuildInv(cmd.todo)'
  BY <1>1 DEF BuildInv, OnPlan, Kept, Planned, RuntimeOf, Current, PinIsUp, PinOf, Rendered, Target
<1>6. AgentsInv(cmd.todo) => AgentsInv(cmd.todo)'
  BY <1>1 DEF AgentsInv
<1>7. Succeeded' => Clean'
  BY <1>1, <1>4 DEF IInv, Succeeded, Clean
<1> QED BY <1>1, <1>2, <1>3, <1>5, <1>6, <1>7 DEF IInv

LEMMA NewKeeps ==
  ASSUME IInv, New
  PROVE  IInv'
<1>1. CASE ~checkTargetEmpty
  <2>1. UNCHANGED vars
    BY <1>1 DEF New, Refuse
  <2> QED BY <2>1, Stutter
<1>2. CASE checkTargetEmpty
  <2>1. PICK s : s = InOrder(Planned(installed))
    OBVIOUS
  <2>2. PICK plan : plan = [i \in DOMAIN s |->
                              Put(s[i], Rendered(s[i], installed, Target(installed)))]
    OBVIOUS
  <2>3. Start("new", plan, TRUE, Nothing)
    BY <1>2, <2>1, <2>2 DEF New, Target
  <2>4. s \in Seq(PathSet) /\ Distinct(s) /\ \A x : In(x, s) <=> x \in Planned(installed)
    <3>1. Planned(installed) \in SUBSET PathSet
      BY DEF Planned
    <3> QED BY <2>1, <3>1, OrderFacts
  <2>5. plan \in Seq(Range(plan)) /\ Len(plan) = Len(s) /\ DOMAIN s = 1..Len(s)
    BY <2>2, <2>4, Mapped
  <2>6. installed \in Binaries
    BY DEF IInv, ProjectType
  <2>7. ASSUME NEW i \in 1..Len(plan)
        PROVE  /\ plan[i].at \in PathSet /\ plan[i].do = "put"
               /\ plan[i] = Put(plan[i].at, Rendered(plan[i].at, installed, Target(installed)))
               /\ plan[i].arg = Rendered(plan[i].at, installed, Target(installed))
    <3>1. s[i] \in PathSet
      BY <2>4, <2>5
    <3> QED BY <2>2, <2>5, <3>1 DEF Put
  <2>8. ASSUME NEW p \in Planned(installed)
        PROVE  Pending(p, plan)
    <3>1. PICK i \in 1..Len(s) : s[i] = p
      BY <2>4 DEF In
    <3>2. plan[i].at = p
      BY <2>2, <2>5, <3>1 DEF Put
    <3> QED BY <2>5, <3>1, <3>2 DEF Pending
  <2>9. IsPlan(plan)
    BY <1>2, <2>5, <2>6, <2>7, RenderedFacts DEF IsPlan, IsWrite, checkTargetEmpty
  <2>10. SafeInv(plan, TRUE)
    <3>1. \A i \in 1..Len(plan) : plan[i].at = s[i]
      BY <2>2, <2>5 DEF Put
    <3>2. Once(plan)
      BY <2>4, <2>5, <3>1 DEF Distinct, Once
    <3> QED BY <1>2, <2>7, <3>2 DEF SafeInv, Backed, checkTargetEmpty
  <2>11. BuildInv(plan)
    <3>1. ASSUME NEW i \in 1..Len(plan) PROVE OnPlan(plan[i])
      <4>1. Rendered("go.mod", installed, Target(installed)) = Content(PinOf(installed))
        BY PathFacts DEF Rendered
      <4> QED BY <2>7, <4>1 DEF OnPlan
    <3>2. "go.mod" \in Planned(installed)
      BY PathFacts DEF Planned
    <3> QED BY <2>8, <3>1, <3>2 DEF BuildInv, Kept
  <2>12. whole' \in BOOLEAN
    BY <1>2 DEF New, IInv, ProjectType
  <2> QED BY <2>3, <2>7, <2>9, <2>10, <2>11, <2>12, StartKeeps
<1> QED BY <1>1, <1>2

LEMMA AgentsKeeps ==
  ASSUME IInv, NEW force \in BOOLEAN, force \/ NoConflict, LoadsRecipe(tree), UNCHANGED whole,
         Start("agents", <<Put("agents", Content(recipe(tree))),
                           Put("architecture", Content(recipe(tree)))>>, ~force, Nothing)
  PROVE  IInv'
<1>1. PICK c : c = Content(recipe(tree))
  OBVIOUS
<1>2. PICK plan : plan = <<Put("agents", c), Put("architecture", c)>>
  OBVIOUS
<1>3. /\ plan \in Seq(Range(plan)) /\ Len(plan) = 2
      /\ plan[1] = Put("agents", c) /\ plan[2] = Put("architecture", c)
  <2>1. plan \in Seq({Put("agents", c), Put("architecture", c)})
    BY <1>2
  <2> QED BY <1>2, <2>1, SeqOfItsRange
<1>4. ASSUME NEW i \in 1..Len(plan)
      PROVE  plan[i].at \in AgentFiles /\ plan[i] = Put(plan[i].at, c)
  <2>1. i = 1 \/ i = 2
    BY <1>3
  <2> QED BY <1>3, <2>1, PathFacts DEF Put
<1>5. ASSUME NEW i \in 1..Len(plan)
      PROVE  plan[i].do = "put" /\ plan[i].arg = c
  <2>1. PICK a : a = plan[i].at
    OBVIOUS
  <2>2. plan[i] = Put(a, c)
    BY <1>4, <2>1
  <2> QED BY <2>2 DEF Put
<1>6. /\ c.mine = "no" /\ \A p \in AgentFiles : c \in Files(p)
  <2>1. recipe(tree) \in Binaries \X Releases
    BY TreeFacts DEF IInv, ProjectType, LoadsRecipe, Validate, recipe
  <2> QED BY <1>1, <2>1 DEF Content, Files
<1>7. IsPlan(plan)
  BY <1>3, <1>4, <1>5, <1>6, PathFacts DEF IsPlan, IsWrite
<1>8. SafeInv(plan, ~force)
  <2>1. ASSUME NEW p \in AgentFiles PROVE Backed(p, ~force)
    BY DEF NoConflict, verifies, Backed
  <2> QED BY <1>4, <1>5, <2>1, PathFacts DEF SafeInv, Once
<1>9. AgentsInv(plan)
  BY <1>1, <1>4 DEF AgentsInv
<1>10. whole' \in BOOLEAN
  BY DEF IInv, ProjectType
<1> QED BY <1>1, <1>2, <1>7, <1>8, <1>9, <1>10, StartKeeps

(* What an upgrade that changes something is about to write. *)
Announced(chain, codemods) ==
  fileChanges(installed, <<installed, RuntimeOf(installed)>>, chain)
    \o (IF codemods THEN planCodemods(chain) ELSE << >>)
    \o planDependencies(installed)
    \o <<writeRecipe(installed)>>

(* It rewrites the source if the migrations change it, and removes what they
   say is gone. *)
AnnouncesMoves(chain, codemods, plan) ==
  /\ \A i \in 1..Len(plan) :
       /\ plan[i].at = "source" => plan[i] = Rewrite("source", chain)
       /\ plan[i].at = "old" => plan[i].do = "remove" \/ "old" \in Planned(installed)
  /\ codemods /\ tree["source"] # Nothing
     /\ applyCodemods(tree["source"].v, chain) # tree["source"].v
       => Pending("source", plan)
  /\ declaredRemovals(chain) = {"old"} /\ "old" \notin Planned(installed)
       => tree["old"] = Nothing \/ Pending("old", plan)

LEMMA UpgradePlan ==
  ASSUME IInv, NEW chain, IsChain(chain), NEW looked, NEW codemods \in BOOLEAN,
         ~looked \/ ~Dirty, NEW plan, plan = Announced(chain, codemods)
  PROVE  /\ IsPlan(plan) /\ SafeInv(plan, looked) /\ BuildInv(plan)
         /\ AnnouncesMoves(chain, codemods, plan)
<1> DEFINE c == IF codemods THEN planCodemods(chain) ELSE << >>
           d == planDependencies(installed)
           rt == PinOf(installed)
<1>1. PICK f : f = fileChanges(installed, Target(installed), chain)
  OBVIOUS
<1>2. PICK r : r = writeRecipe(installed)
  OBVIOUS
<1>3. plan = ((f \o c) \o d) \o <<r>>
  BY <1>1, <1>2 DEF Target, Announced
<1>5. PICK S : S = Range(f) \cup {Rewrite("source", chain), Bump("go.mod", rt), r}
  OBVIOUS
<1>6. installed \in Binaries /\ rt \in Pins /\ rt # Torn /\ IsTree(tree)
  BY RuntimeFacts DEF IInv, ProjectType
<1>7. /\ f \in Seq(Range(f))
      /\ \A x : In(x, f) =>
              \/ /\ x.at \in Kept(installed)
                 /\ x = Put(x.at, Rendered(x.at, installed, Target(installed)))
              \/ x = Delete("old") /\ "old" \notin Planned(installed)
      /\ \A p \in Kept(installed) : Current(p) \/ Pending(p, f)
      /\ declaredRemovals(chain) = {"old"} /\ "old" \notin Planned(installed) =>
           tree["old"] = Nothing \/ Pending("old", f)
  BY <1>1, ChangesFacts
<1>0. \A x : In(x, f) => x.at \notin AppOwned
  <2>1. ASSUME NEW x, In(x, f) PROVE x.at \in Kept(installed) \/ x.at = "old"
    BY <1>7, <2>1 DEF Delete
  <2> QED BY <2>1, PathFacts DEF Kept
<1>8. f \in Seq(S) /\ Once(f)
  <2>1. f \in Seq(S)
    BY <1>5, <1>7
  <2>2. ASSUME NEW i \in 1..Len(f) PROVE f[i].at \notin AppOwned
    <3>1. In(f[i], f)
      BY DEF In
    <3> QED BY <1>0, <3>1
  <2> QED BY <2>1, <2>2 DEF Once
<1>9. /\ c \in {<< >>, <<Rewrite("source", chain)>>}
      /\ c # << >> => Raises("source", applyCodemods(tree["source"].v, chain))
      /\ codemods /\ tree["source"] # Nothing
         /\ applyCodemods(tree["source"].v, chain) # tree["source"].v
           => c = <<Rewrite("source", chain)>>
  <2>1. ASSUME tree["source"] # Nothing,
               applyCodemods(tree["source"].v, chain) # tree["source"].v
        PROVE  Raises("source", applyCodemods(tree["source"].v, chain))
    <3>1. tree["source"].v \in Releases \cup {Torn}
      BY <1>6, <2>1, TreeFacts, PathFacts DEF Versions
    <3>2. PICK v : v = tree["source"].v
      OBVIOUS
    <3>3. v \in Releases /\ applyCodemods(v, chain) \in Releases /\ applyCodemods(v, chain) > v
      BY <2>1, <3>1, <3>2, RewriteFacts
    <3>4. v # Torn
      BY <3>3
    <3> QED BY <2>1, <3>2, <3>3, <3>4 DEF Raises, Versions, Forward
  <2> QED BY <2>1 DEF planCodemods
<1>10. /\ d \in {<< >>, <<Bump("go.mod", rt)>>} /\ (d = << >> => PinIsUp)
       /\ d # << >> => Raises("go.mod", rt)
  <2>1. CASE tree["go.mod"] # Nothing /\ newer(rt, tree["go.mod"].v)
    <3>1. tree["go.mod"].v # Torn
      BY <2>1 DEF newer
    <3> QED BY <1>6, <2>1, <3>1 DEF planDependencies, Raises, Versions, Forward
  <2>2. CASE ~(tree["go.mod"] # Nothing /\ newer(rt, tree["go.mod"].v))
    BY <2>2 DEF planDependencies, PinIsUp
  <2> QED BY <2>1, <2>2
<1> HIDE DEF c, d, rt
<1>11. /\ c \in Seq(S) /\ Once(c)
       /\ \A x : In(x, c) =>
            /\ x = Rewrite("source", chain)
            /\ Raises("source", applyCodemods(tree["source"].v, chain))
  <2>1. << >> \in Seq(S) /\ <<Rewrite("source", chain)>> \in Seq(S)
    BY <1>5
  <2>2. Len(c) <= 1 /\ c \in Seq(S)
    <3>1. Len(<< >>) <= 1 /\ Len(<<Rewrite("source", chain)>>) <= 1
      OBVIOUS
    <3>2. c = << >> \/ c = <<Rewrite("source", chain)>>
      BY <1>9
    <3> QED BY <2>1, <3>1, <3>2, Zenon
  <2>3. Once(c)
    BY <2>2 DEF Once
  <2> QED BY <1>9, <2>2, <2>3, One, Empty
<1>12. /\ d \in Seq(S) /\ Once(d)
       /\ \A x : In(x, d) => x = Bump("go.mod", rt) /\ Raises("go.mod", rt)
       /\ PinIsUp \/ In(Bump("go.mod", rt), d)
  <2>1. << >> \in Seq(S) /\ <<Bump("go.mod", rt)>> \in Seq(S)
    BY <1>5
  <2>2. Len(d) <= 1 /\ d \in Seq(S)
    <3>1. Len(<< >>) <= 1 /\ Len(<<Bump("go.mod", rt)>>) <= 1
      OBVIOUS
    <3>2. d = << >> \/ d = <<Bump("go.mod", rt)>>
      BY <1>10
    <3> QED BY <2>1, <3>1, <3>2, Zenon
  <2>3. Once(d)
    BY <2>2 DEF Once
  <2>4. CASE d = << >>
    BY <1>10, <2>2, <2>3, <2>4, Empty
  <2>5. CASE d = <<Bump("go.mod", rt)>>
    BY <1>10, <2>1, <2>2, <2>3, <2>5 DEF In
  <2> QED BY <1>10, <2>4, <2>5
<1>13. <<r>> \in Seq(S) /\ Once(<<r>>) /\ \A x : In(x, <<r>>) <=> x = r
  <2>1. r \in S
    BY <1>5
  <2> QED BY <2>1, One DEF Once
<1>14. PICK q : q = f \o c
  OBVIOUS
<1>15. q \in Seq(S) /\ Once(q) /\ \A x : In(x, q) <=> In(x, f) \/ In(x, c)
  BY <1>0, <1>8, <1>11, <1>14, Joined, JoinedOnce
<1>16. PICK u : u = q \o d
  OBVIOUS
<1>17. u \in Seq(S) /\ Once(u) /\ \A x : In(x, u) <=> In(x, q) \/ In(x, d)
  <2>1. \A x, y : In(x, q) /\ In(y, d) /\ x.at \in AppOwned => y.at # x.at
    BY <1>0, <1>11, <1>12, <1>15 DEF Rewrite, Bump
  <2> QED BY <1>12, <1>15, <1>16, <2>1, Joined, JoinedOnce
<1>18. /\ plan \in Seq(S) /\ Once(plan)
       /\ \A x : In(x, plan) <=> In(x, f) \/ In(x, c) \/ In(x, d) \/ x = r
  <2>1. r.at = "recipe" /\ "recipe" \notin AppOwned
    BY <1>2, PathFacts DEF writeRecipe, Put
  <2>2. \A x, y : In(x, u) /\ In(y, <<r>>) /\ x.at \in AppOwned => y.at # x.at
    BY <1>13, <2>1
  <2>3. plan = u \o <<r>>
    BY <1>3, <1>14, <1>16
  <2>4. PICK z : z = <<r>>
    OBVIOUS
  <2>5. plan = u \o z /\ z \in Seq(S) /\ Once(z)
    BY <1>13, <2>4, <2>3
  <2>6. \A x, y : In(x, u) /\ In(y, z) /\ x.at \in AppOwned => y.at # x.at
    BY <2>4, <2>2
  <2>7. plan \in Seq(S) /\ Once(plan)
    BY <1>17, <2>5, <2>6, JoinedOnce, Joined
  <2>8. \A x : In(x, plan) <=> In(x, u) \/ In(x, <<r>>)
    <3>1. \A x : In(x, u \o z) <=> In(x, u) \/ In(x, z)
      BY <1>17, <2>5, Joined, Zenon
    <3> QED BY <2>4, <2>5, <3>1, Zenon
  <2> QED BY <2>7, <1>13, <1>15, <1>17, <2>5, <2>8
<1>19. r = Put("recipe", Rendered("recipe", installed, Target(installed)))
  BY <1>2 DEF writeRecipe, Rendered, Target
<1>20. ASSUME NEW x, In(x, plan)
       PROVE  /\ IsWrite(x) /\ OnPlan(x)
              /\ x.at = "source" => x = Rewrite("source", chain)
              /\ x.at = "old" => x.do = "remove" \/ "old" \in Planned(installed)
  <2>1. CASE In(x, f)
    <3>1. CASE x = Delete("old") /\ "old" \notin Planned(installed)
      BY <3>1, PathFacts DEF IsWrite, OnPlan, Delete, Kept
    <3>2. CASE /\ x.at \in Kept(installed)
               /\ x = Put(x.at, Rendered(x.at, installed, Target(installed)))
      <4>1. x.do = "put" /\ x.arg = Rendered(x.at, installed, Target(installed))
        BY <3>2 DEF Put
      <4> QED BY <1>6, <3>2, <4>1, RuntimeFacts, RenderedFacts, PathFacts
          DEF IsWrite, OnPlan, Kept
    <3> QED BY <1>7, <2>1, <3>1, <3>2
  <2>2. CASE In(x, c)
    BY <1>11, <2>2, RuntimeFacts, PathFacts DEF IsWrite, OnPlan, Rewrite
  <2>3. CASE In(x, d)
    BY <1>6, <1>12, <2>3, RuntimeFacts, PathFacts DEF IsWrite, OnPlan, Bump, rt
  <2>4. CASE x = r
    <3>1. x.at = "recipe" /\ x.do = "put" /\ x.arg = Rendered("recipe", installed, Target(installed))
      BY <1>19, <2>4 DEF Put
    <3> QED BY <1>6, <1>19, <2>4, <3>1, RenderedFacts, PathFacts DEF IsWrite, OnPlan
  <2> QED BY <1>18, <1>20, <2>1, <2>2, <2>3, <2>4
<1>21. \A i \in 1..Len(plan) : In(plan[i], plan)
  BY DEF In
<1>22. IsPlan(plan)
  BY <1>18, <1>20, <1>21, SeqOfItsRange DEF IsPlan
<1>23. SafeInv(plan, looked)
  BY <1>18 DEF SafeInv, Backed, Dirty
<1>24. ASSUME NEW p, NEW x, In(x, plan), x.at = p PROVE Pending(p, plan)
  BY <1>24 DEF In, Pending
<1>25. ASSUME NEW p, Pending(p, f) PROVE Pending(p, plan)
  <2>1. PICK i \in 1..Len(f) : f[i].at = p
    BY <1>25 DEF Pending
  <2>2. In(f[i], f)
    BY DEF In
  <2> QED BY <1>18, <1>24, <2>1, <2>2
<1>26. BuildInv(plan)
  <2>1. PinIsUp \/ Pending("go.mod", plan)
    <3>1. Bump("go.mod", rt).at = "go.mod"
      BY DEF Bump
    <3> QED BY <1>12, <1>18, <1>24, <3>1
  <2> QED BY <1>7, <1>20, <1>21, <1>25, <2>1 DEF BuildInv
<1>27. ASSUME codemods, tree["source"] # Nothing,
              applyCodemods(tree["source"].v, chain) # tree["source"].v
       PROVE  Pending("source", plan)
  <2>1. In(Rewrite("source", chain), c)
    BY <1>9, <1>27 DEF In
  <2>2. Rewrite("source", chain).at = "source"
    BY DEF Rewrite
  <2> QED BY <1>18, <1>24, <2>1, <2>2
<1>28. AnnouncesMoves(chain, codemods, plan)
  BY <1>7, <1>20, <1>21, <1>25, <1>27 DEF AnnouncesMoves
<1> QED BY <1>22, <1>23, <1>26, <1>28

LEMMA JoinedTurn ==
  ASSUME NEW S, NEW s \in Seq(S), NEW t \in Seq(S)
  PROVE  /\ Len(s \o t) = Len(s) + Len(t) /\ Len(s) \in Nat /\ Len(t) \in Nat
         /\ \A i \in 1..Len(s) : (s \o t)[i] = s[i]
         /\ \A i \in 1..Len(s \o t) : i > Len(s) => In((s \o t)[i], t)
<1>1. /\ Len(s \o t) = Len(s) + Len(t) /\ Len(s) \in Nat /\ Len(t) \in Nat
      /\ \A i \in 1..Len(s \o t) : (s \o t)[i] = IF i <= Len(s) THEN s[i] ELSE t[i - Len(s)]
  OBVIOUS
<1>2. ASSUME NEW i \in 1..Len(s \o t), i > Len(s) PROVE In((s \o t)[i], t)
  <2>1. i - Len(s) \in 1..Len(t) /\ (s \o t)[i] = t[i - Len(s)]
    BY <1>1, <1>2
  <2> QED BY <2>1 DEF In
<1> QED BY <1>1, <1>2

(* The files come first, the recipe last among them, and then the source. *)
LEMMA PlanOrder ==
  ASSUME NEW chain, NEW codemods \in BOOLEAN, NEW plan, plan = Announced(chain, codemods)
  PROVE  OldFirst(plan) /\ SourceAfter(plan)
<1> DEFINE c == IF codemods THEN planCodemods(chain) ELSE << >>
           d == planDependencies(installed)
           rw == Rewrite("source", chain)
           bp == Bump("go.mod", PinOf(installed))
<1>1. PICK f : f = fileChanges(installed, Target(installed), chain)
  OBVIOUS
<1>2. PICK r : r = writeRecipe(installed)
  OBVIOUS
<1>3. plan = ((f \o c) \o d) \o <<r>>
  BY <1>1, <1>2 DEF Target, Announced
<1>4. /\ f \in Seq(Range(f))
      /\ \A x : In(x, f) => x.at \in Kept(installed) \/ x = Delete("old")
      /\ \A p \in Kept(installed) : Current(p) \/ Pending(p, f)
      /\ \A i \in 1..Len(f) : f[i].at = "recipe" => i = Len(f)
  BY <1>1, ChangesFacts
<1>5. c = << >> \/ c = <<rw>>
  BY DEF planCodemods
<1>6. d = << >> \/ d = <<bp>>
  BY DEF planDependencies
<1>7. rw.at = "source" /\ rw.do = "rewrite" /\ bp.at = "go.mod" /\ r.at = "recipe"
  BY <1>2 DEF Rewrite, Bump, writeRecipe, Put
<1> HIDE DEF c, d, rw, bp
<1>8. PICK S : S = Range(f) \cup {rw, bp, r}
  OBVIOUS
<1>9. f \in Seq(S) /\ c \in Seq(S) /\ d \in Seq(S) /\ <<r>> \in Seq(S)
  <2>1. << >> \in Seq(S) /\ <<rw>> \in Seq(S) /\ <<bp>> \in Seq(S) /\ <<r>> \in Seq(S)
    BY <1>8
  <2>2. f \in Seq(S)
    BY <1>4, <1>8
  <2> QED BY <1>5, <1>6, <2>1, <2>2, Zenon
<1>10. /\ \A x : In(x, c) => x = rw
       /\ \A x : In(x, d) => x = bp
       /\ \A x : In(x, <<r>>) => x = r
  <2>1. rw \in S /\ bp \in S /\ r \in S
    BY <1>8
  <2> QED BY <1>5, <1>6, <2>1, One, Empty
<1>11. PICK q : q = f \o c
  OBVIOUS
<1>12. PICK u : u = q \o d
  OBVIOUS
<1>13. q \in Seq(S) /\ u \in Seq(S) /\ plan = u \o <<r>>
  BY <1>3, <1>9, <1>11, <1>12
<1>14. /\ Len(q) = Len(f) + Len(c) /\ Len(f) \in Nat /\ Len(c) \in Nat
       /\ \A i \in 1..Len(f) : q[i] = f[i]
       /\ \A i \in 1..Len(q) : i > Len(f) => In(q[i], c)
  BY <1>9, <1>11, JoinedTurn
<1>15. /\ Len(u) = Len(q) + Len(d) /\ Len(d) \in Nat
       /\ \A i \in 1..Len(q) : u[i] = q[i]
       /\ \A i \in 1..Len(u) : i > Len(q) => In(u[i], d)
  BY <1>9, <1>12, <1>13, JoinedTurn
<1>16. PICK z : z = <<r>>
  OBVIOUS
<1>17. /\ Len(plan) = Len(u) + Len(z) /\ Len(z) \in Nat
       /\ \A i \in 1..Len(u) : plan[i] = u[i]
       /\ \A i \in 1..Len(plan) : i > Len(u) => In(plan[i], z)
  <2>1. z \in Seq(S) /\ plan = u \o z
    BY <1>9, <1>13, <1>16
  <2> QED BY <1>13, <2>1, JoinedTurn
<1>18. ASSUME NEW i \in 1..Len(f) PROVE plan[i] = f[i] /\ i \in 1..Len(plan)
  <2>1. i \in 1..Len(q) /\ i \in 1..Len(u) /\ i \in 1..Len(plan)
    BY <1>14, <1>15, <1>17
  <2> QED BY <1>14, <1>15, <1>17, <2>1
<1>19. ASSUME NEW i \in 1..Len(plan), i > Len(f) PROVE plan[i] \in {rw, bp, r}
  <2>1. CASE i <= Len(q)
    <3>1. i \in 1..Len(q) /\ i \in 1..Len(u)
      BY <1>14, <1>15, <2>1
    <3>2. In(plan[i], c)
      BY <1>14, <1>15, <1>17, <1>19, <3>1
    <3> QED BY <1>10, <3>2
  <2>2. CASE i > Len(q) /\ i <= Len(u)
    <3>1. i \in 1..Len(u)
      BY <1>15, <2>2
    <3>2. In(plan[i], d)
      BY <1>15, <1>17, <2>2, <3>1
    <3> QED BY <1>10, <3>2
  <2>3. CASE i > Len(u)
    BY <1>10, <1>16, <1>17, <2>3
  <2> QED BY <1>14, <1>15, <2>1, <2>2, <2>3
<1>20. ASSUME NEW i \in 1..Len(f) PROVE f[i].at \notin AppOwned
  <2>1. In(f[i], f)
    BY DEF In
  <2>2. f[i].at \in Kept(installed) \/ f[i].at = "old"
    BY <1>4, <2>1 DEF Delete
  <2> QED BY <2>2, PathFacts DEF Kept
<1>21. ASSUME NEW i \in 1..Len(plan), NEW j \in 1..Len(plan),
              plan[i].at = "old", plan[j].at = "recipe"
       PROVE  i < j
  <2>1. i <= Len(f)
    <3>1. i > Len(f) => plan[i].at # "old"
      BY <1>7, <1>19
    <3> QED BY <1>14, <1>21, <3>1
  <2>2. CASE j > Len(f)
    BY <1>14, <2>1, <2>2
  <2>3. CASE j <= Len(f)
    <3>1. i \in 1..Len(f) /\ j \in 1..Len(f)
      BY <1>14, <2>1, <2>3
    <3>2. f[j].at = "recipe" /\ f[i].at = "old"
      BY <1>18, <1>21, <3>1
    <3>3. j = Len(f) /\ i # j
      BY <1>4, <3>1, <3>2
    <3> QED BY <1>14, <3>1, <3>3
  <2> QED BY <1>14, <2>2, <2>3
<1>22. ASSUME NEW i \in 1..Len(plan), plan[i].at = "source"
       PROVE  /\ plan[i].do = "rewrite"
              /\ Current("recipe") \/ \E j \in 1..(i - 1) : plan[j].at = "recipe"
  <2>1. i > Len(f)
    <3>1. ASSUME i <= Len(f) PROVE FALSE
      <4>1. i \in 1..Len(f)
        BY <1>14, <3>1
      <4> QED BY <1>18, <1>20, <1>22, <4>1, PathFacts
    <3> QED BY <1>14, <3>1
  <2>2. plan[i].do = "rewrite"
    BY <1>7, <1>19, <1>22, <2>1
  <2>3. ASSUME ~Current("recipe") PROVE \E j \in 1..(i - 1) : plan[j].at = "recipe"
    <3>1. Pending("recipe", f)
      BY <1>4, <2>3, RuntimeFacts
    <3>2. PICK j \in 1..Len(f) : f[j].at = "recipe"
      BY <3>1 DEF Pending
    <3>3. plan[j].at = "recipe" /\ j \in 1..(i - 1)
      <4>1. plan[j].at = "recipe"
        BY <1>18, <3>2
      <4>2. j \in 1..(i - 1)
        BY <1>14, <2>1, <3>2
      <4> QED BY <4>1, <4>2
    <3> QED BY <3>3
  <2> QED BY <2>2, <2>3
<1> QED BY <1>21, <1>22 DEF OldFirst, SourceAfter

LEMMA UpgradeKeeps ==
  ASSUME IInv, NEW chain, IsChain(chain), NEW looked \in BOOLEAN, NEW codemods \in BOOLEAN,
         NEW from, ~looked \/ ~Dirty, whole' \in BOOLEAN,
         Start("upgrade", Announced(chain, codemods), looked, from)
  PROVE  IInv'
<1>1. PICK plan : plan = Announced(chain, codemods)
  OBVIOUS
<1>2. IsPlan(plan) /\ SafeInv(plan, looked) /\ BuildInv(plan)
  BY <1>1, UpgradePlan
<1> QED BY <1>1, <1>2, StartKeeps

-----------------------------------------------------------------------------
(* No command runs after the step. *)
LEMMA AtRest ==
  ASSUME cmd' = Idle, IsTree(tree'), head' = Nothing \/ IsTree(head'), installed' \in Binaries,
         whole' \in BOOLEAN, last'.res \in {"none", "ok", "failed"},
         edits' \in 0..MaxEdits, installs' \in 0..MaxInstalls, faults' \in 0..MaxFaults,
         Succeeded' => Clean'
  PROVE  IInv'
<1>1. /\ cmd'.todo = << >> /\ cmd'.op = "none" /\ cmd'.looked = FALSE
      /\ cmd' = [op |-> cmd'.op, todo |-> cmd'.todo, looked |-> cmd'.looked, from |-> cmd'.from]
  BY DEF Idle
<1>2. << >> \in Seq(Range(<< >>)) /\ \A i \in 1..Len(<< >>) : FALSE
  OBVIOUS
<1>3. ProjectType'
  BY <1>1, <1>2 DEF ProjectType, IsPlan, IsTree
<1>4. SafeInv(cmd.todo, cmd.looked)'
  BY <1>1, <1>2 DEF SafeInv, Once
<1> QED BY <1>1, <1>3, <1>4 DEF IInv, Idle

(* An upgrade that finds nothing to do answers for a project that is clean. *)
LEMMA UpToDateIsClean ==
  ASSUME IInv, NEW chain, UpToDate(installed, chain)
  PROVE  Clean
<1>1. PICK f : f = fileChanges(installed, Target(installed), chain)
  OBVIOUS
<1>2. f = << >> /\ planDependencies(installed) = << >>
  BY <1>1 DEF UpToDate, Target
<1>3. \A p \in Kept(installed) : Current(p) \/ Pending(p, f)
  BY <1>1, ChangesFacts
<1>4. \A p \in Kept(installed) : Current(p)
  BY <1>2, <1>3 DEF Pending
<1>5. ~(tree["go.mod"] # Nothing /\ newer(PinOf(installed), tree["go.mod"].v))
  <2>1. <<Bump("go.mod", PinOf(installed))>> # << >>
    OBVIOUS
  <2> QED BY <1>2, <2>1 DEF planDependencies
<1>6. PinIsUp
  BY <1>5 DEF PinIsUp
<1> QED BY <1>4, <1>6 DEF Clean

(* The migrations that an upgrade passes through. *)
Chain == path(RuntimeIn(recipe(tree)), RuntimeOf(installed), Table(installed))

LEMMA UpgradeChain ==
  ASSUME IInv, LoadsRecipe(tree)
  PROVE  IsChain(Chain) /\ Chain[1] = RuntimeIn(recipe(tree))
<1>1. recipe(tree) \in Binaries \X Releases
  BY TreeFacts DEF IInv, ProjectType, LoadsRecipe, Validate, recipe
<1>2. RuntimeIn(recipe(tree)) \in Releases
  BY <1>1 DEF RuntimeIn
<1>3. Table(installed) \in SUBSET Migrations
  BY DEF Table
<1> QED BY <1>2, <1>3, ChainFacts DEF Chain

LEMMA UpgradeCases ==
  ASSUME Upgrade
  PROVE  \/ UNCHANGED vars
         \/ /\ LoadsRecipe(tree) /\ cmd = Idle
            /\ \/ UpToDate(installed, Chain) /\ Answer("upgrade", "ok")
               \/ \E looked, codemods \in BOOLEAN :
                    /\ ~looked \/ ~Dirty
                    /\ Start("upgrade", Announced(Chain, codemods), looked, tree["recipe"])
                    /\ whole' = (whole /\ ~Missing(Chain, RuntimeOf(installed))
                                 /\ (codemods \/ Len(Chain) = 1))
<1>1. PICK dryRun \in BOOLEAN, force \in BOOLEAN, codemods \in BOOLEAN :
        \E asked \in BOOLEAN :
          IF \/ ~dryRun /\ ~force /\ refuseDirtyTree(asked)
             \/ ~LoadsRecipe(tree)
             \/ refuseDowngrade(installed, CLIOf(recipe(tree)))
          THEN Refuse
          ELSE IF dryRun THEN Refuse
          ELSE Apply(installed, ~force /\ asked, codemods)
  BY DEF Upgrade
<1>2. PICK asked \in BOOLEAN :
        \/ Refuse
        \/ /\ Apply(installed, ~force /\ asked, codemods) /\ LoadsRecipe(tree)
           /\ ~(~force /\ asked) \/ ~Dirty
  BY <1>1 DEF refuseDirtyTree
<1>3. cmd = Idle
  BY DEF Upgrade
<1>4. CASE Refuse
  BY <1>4 DEF Refuse
<1>5. PICK looked \in BOOLEAN : looked = (~force /\ asked)
  OBVIOUS
<1>6. CASE Apply(installed, looked, codemods) /\ (~looked \/ ~Dirty) /\ LoadsRecipe(tree)
  <2>1. CASE UpToDate(installed, Chain)
    BY <1>3, <1>6, <2>1 DEF Apply, Chain
  <2>2. CASE ~UpToDate(installed, Chain)
    <3>1. /\ Start("upgrade", Announced(Chain, codemods), looked, tree["recipe"])
          /\ whole' = (whole /\ ~Missing(Chain, RuntimeOf(installed))
                       /\ (codemods \/ Len(Chain) = 1))
      BY <1>6, <2>2 DEF Apply, Chain, Announced
    <3> QED BY <1>3, <1>6, <3>1
  <2> QED BY <2>1, <2>2
<1> QED BY <1>2, <1>4, <1>5, <1>6

LEMMA UpgradeStep ==
  ASSUME IInv, Upgrade
  PROVE  IInv'
<1>1. CASE UNCHANGED vars
  BY <1>1, Stutter
<1>2. CASE LoadsRecipe(tree) /\ UpToDate(installed, Chain) /\ Answer("upgrade", "ok") /\ cmd = Idle
  <2>1. PICK chain : chain = Chain
    OBVIOUS
  <2>2. Clean
    BY <1>2, <2>1, UpToDateIsClean
  <2>3. /\ cmd' = Idle /\ tree' = tree /\ head' = head /\ installed' = installed
        /\ whole' = whole /\ edits' = edits /\ installs' = installs /\ faults' = faults
        /\ last'.res = "ok"
    BY <1>2 DEF Answer, Ended
  <2>4. Clean'
    BY <2>2, <2>3
    DEF Clean, Kept, Planned, RuntimeOf, Current, PinIsUp, PinOf, Rendered, Target
  <2> QED BY <2>3, <2>4, AtRest DEF IInv, ProjectType
<1>3. ASSUME LoadsRecipe(tree), NEW looked \in BOOLEAN, NEW codemods \in BOOLEAN,
             ~looked \/ ~Dirty,
             Start("upgrade", Announced(Chain, codemods), looked, tree["recipe"]),
             whole' = (whole /\ ~Missing(Chain, RuntimeOf(installed))
                       /\ (codemods \/ Len(Chain) = 1))
      PROVE  IInv'
  <2>1. PICK chain : chain = Chain
    OBVIOUS
  <2>2. PICK from : from = tree["recipe"]
    OBVIOUS
  <2>3. IsChain(chain) /\ Start("upgrade", Announced(chain, codemods), looked, from)
    BY <1>3, <2>1, <2>2, UpgradeChain
  <2>4. whole' \in BOOLEAN
    BY <1>3
  <2> QED BY <1>3, <2>3, <2>4, UpgradeKeeps
<1> QED BY <1>1, <1>2, <1>3, UpgradeCases

LEMMA FailFacts ==
  ASSUME IInv, StepFails
  PROVE  /\ cmd.todo # << >> /\ Len(cmd.todo) \in Nat \ {0} /\ IsWrite(cmd.todo[1])
         /\ IsTree(tree') /\ cmd' = Idle /\ head' = head /\ installed' = installed
         /\ \A p \in PathSet : p # cmd.todo[1].at => tree'[p] = tree[p]
         /\ tree' = tree \/ (cmd.todo[1].do # "remove" /\ tree'[cmd.todo[1].at].v = Torn)
<1>1. IsTree(tree) /\ IsPlan(cmd.todo)
  BY DEF IInv, ProjectType
<1>2. PICK w : w = Head(cmd.todo)
  OBVIOUS
<1>3. cmd.todo # << >> /\ Len(cmd.todo) \in Nat \ {0} /\ w = cmd.todo[1] /\ IsWrite(w)
  <2>1. cmd.todo \in Seq(Range(cmd.todo)) /\ cmd.todo # << >>
    BY <1>1 DEF IsPlan, StepFails
  <2>2. Len(cmd.todo) \in Nat \ {0} /\ w = cmd.todo[1]
    BY <1>2, <2>1, PlanTail
  <2> QED BY <1>1, <2>1, <2>2 DEF IsPlan
<1>4. PICK c : c = [v |-> Torn, mine |-> IF tree[w.at] = Nothing THEN "no" ELSE tree[w.at].mine]
  OBVIOUS
<1>5. /\ tree' = tree \/ (w.do # "remove" /\ tree' = [tree EXCEPT ![w.at] = c])
      /\ cmd' = Idle /\ head' = head /\ installed' = installed
  BY <1>2, <1>4 DEF StepFails
<1>6. w.at \in PathSet
  BY <1>3 DEF IsWrite
<1>7. c \in Contents(w.at)
  <2>1. tree[w.at] # Nothing => tree[w.at].mine \in {"no", "body", "header", "secret"}
    BY <1>1, <1>6, TreeFacts DEF Files
  <2> QED BY <1>4, <2>1 DEF Contents, Files
<1>8. c.v = Torn
  BY <1>4
<1> QED BY <1>1, <1>3, <1>5, <1>6, <1>7, <1>8 DEF IsTree

LEMMA FailKeeps ==
  ASSUME IInv, StepFails
  PROVE  IInv'
<1>1. /\ (head = Nothing \/ IsTree(head)) /\ installed \in Binaries
      /\ edits \in 0..MaxEdits /\ installs \in 0..MaxInstalls /\ faults \in 0..MaxFaults
  BY DEF IInv, ProjectType
<1>2. /\ cmd' = Idle /\ last'.res = "failed" /\ head' = head /\ installed' = installed
      /\ whole' \in BOOLEAN /\ edits' = edits /\ installs' = installs
      /\ faults' = faults + 1 /\ faults < MaxFaults
  BY DEF StepFails
<1>3. faults' \in 0..MaxFaults
  BY <1>1, <1>2
<1>4. ~Succeeded'
  BY <1>2 DEF Succeeded
<1> QED BY <1>1, <1>2, <1>3, <1>4, FailFacts, AtRest

(* What a person does to the tree: an edit keeps what a file says, or sets a
   pin, or writes another recipe. *)
Says(p, c) ==
  \/ c = Nothing \/ c.v = tree[p].v \/ p = "go.mod"
  \/ p = "recipe" /\ tree[p].v # Torn /\ RuntimeIn(c.v) = RuntimeIn(tree[p].v)

LEMMA EditCases ==
  ASSUME IsTree(tree), whole \in BOOLEAN, NEW p \in PathSet, tree[p] # Nothing,
         EditText(p) \/ DeleteFile(p) \/ EditPin(p) \/ EditRecipe(p)
  PROVE  /\ \E c \in Contents(p) : tree' = [tree EXCEPT ![p] = c] /\ (whole' => Says(p, c))
         /\ whole' \in BOOLEAN /\ (whole' => whole)
<1>1. tree[p] \in Files(p)
  BY TreeFacts
<1>2. CASE EditText(p)
  <2>1. PICK how \in {"body", "header", "secret"} :
          tree' = [tree EXCEPT ![p].mine = how] /\ whole' = whole
    BY <1>2 DEF EditText
  <2>2. PICK c : c = [tree[p] EXCEPT !.mine = how]
    OBVIOUS
  <2>3. c \in Files(p) /\ c.v = tree[p].v
    BY <1>1, <2>2 DEF Files
  <2>4. tree' = [tree EXCEPT ![p] = c]
    BY <2>1, <2>2
  <2> QED BY <2>1, <2>3, <2>4 DEF Contents, Says
<1>3. CASE DeleteFile(p)
  BY <1>3 DEF DeleteFile, Contents, Says
<1>4. CASE EditPin(p)
  <2>1. PICK pin \in PinsByHand :
          /\ tree' = [tree EXCEPT ![p] = [v |-> pin, mine |-> "body"]] /\ whole' = whole
          /\ p = "go.mod"
    BY <1>4 DEF EditPin
  <2>2. PICK c : c = [v |-> pin, mine |-> "body"]
    OBVIOUS
  <2>3. pin \in Pins
    OBVIOUS
  <2>4. c \in Files(p)
    BY <2>1, <2>2, <2>3, PathFacts DEF Files
  <2> QED BY <2>1, <2>2, <2>4 DEF Contents, Says
<1>5. CASE EditRecipe(p)
  <2>1. PICK r \in RecipesByHand, how \in {"no", "body"} :
          /\ tree' = [tree EXCEPT ![p] = [v |-> r, mine |-> how]]
          /\ whole' = (whole /\ tree[p].v /= Torn /\ RuntimeIn(r) = RuntimeIn(tree[p].v))
          /\ p = "recipe"
    BY <1>5 DEF EditRecipe
  <2>2. PICK c : c = [v |-> r, mine |-> how]
    OBVIOUS
  <2>3. r \in Binaries \X Releases
    OBVIOUS
  <2>4. c \in Files(p) /\ c.v = r
    BY <2>1, <2>2, <2>3, PathFacts DEF Files
  <2>5. /\ whole' => tree[p].v # Torn /\ RuntimeIn(c.v) = RuntimeIn(tree[p].v)
        /\ whole' \in BOOLEAN /\ (whole' => whole)
    BY <2>1, <2>4
  <2>6. tree' = [tree EXCEPT ![p] = c] /\ p = "recipe"
    BY <2>1, <2>2
  <2> QED BY <2>4, <2>5, <2>6 DEF Contents, Says
<1> QED BY <1>2, <1>3, <1>4, <1>5

LEMMA EditFacts ==
  ASSUME IsTree(tree), whole \in BOOLEAN, Edit
  PROVE  /\ IsTree(tree') /\ whole' \in BOOLEAN /\ (whole' => whole)
         /\ whole' => \A q \in PathSet :
              \/ tree'[q] = Nothing
              \/ tree[q] # Nothing /\ Says(q, tree'[q])
<1>1. DOMAIN tree = PathSet
  BY DEF IsTree
<1>2. PICK p \in PathSet :
        tree[p] /= Nothing /\ (EditText(p) \/ DeleteFile(p) \/ EditPin(p) \/ EditRecipe(p))
  BY DEF Edit
<1>3. /\ \E c \in Contents(p) : tree' = [tree EXCEPT ![p] = c] /\ (whole' => Says(p, c))
      /\ whole' \in BOOLEAN /\ (whole' => whole)
  BY <1>2, EditCases
<1>4. PICK c \in Contents(p) : tree' = [tree EXCEPT ![p] = c] /\ (whole' => Says(p, c))
  BY <1>3
<1>5. IsTree(tree')
  BY <1>1, <1>4 DEF IsTree
<1>6. ASSUME whole', NEW q \in PathSet
      PROVE  tree'[q] = Nothing \/ (tree[q] # Nothing /\ Says(q, tree'[q]))
  <2>1. CASE q = p
    BY <1>1, <1>2, <1>4, <1>6, <2>1
  <2>2. CASE q # p
    <3>1. tree'[q] = tree[q]
      BY <1>1, <1>4, <2>2
    <3> QED BY <3>1 DEF Says
  <2> QED BY <2>1, <2>2
<1> QED BY <1>3, <1>5, <1>6

LEMMA DeveloperKeeps ==
  ASSUME IInv, Edit \/ GitCommit \/ GitRestore \/ Install
  PROVE  IInv'
<1>1. /\ IsTree(tree) /\ (head = Nothing \/ IsTree(head)) /\ installed \in Binaries
      /\ edits \in 0..MaxEdits /\ installs \in 0..MaxInstalls /\ whole \in BOOLEAN
      /\ faults \in 0..MaxFaults
  BY DEF IInv, ProjectType
<1>2. cmd' = Idle /\ ~Succeeded' /\ last'.res = "none" /\ faults' = faults
  BY DEF Edit, GitCommit, GitRestore, Install, Developer, Succeeded, Ended
<1>3. CASE Edit
  <2>1. head' = head /\ installed' = installed /\ installs' = installs
    BY <1>3 DEF Edit
  <2>2. edits < MaxEdits /\ edits' = edits + 1
    BY <1>3 DEF Edit, Effort
  <2>3. edits' \in 0..MaxEdits
    BY <1>1, <2>2
  <2>4. IsTree(tree') /\ whole' \in BOOLEAN
    BY <1>1, <1>3, EditFacts
  <2> QED BY <1>1, <1>2, <2>1, <2>3, <2>4, AtRest
<1>4. CASE GitCommit
  BY <1>1, <1>2, <1>4, AtRest DEF GitCommit
<1>5. CASE GitRestore
  BY <1>1, <1>2, <1>5, AtRest DEF GitRestore, Dirty
<1>6. CASE Install
  <2>1. /\ installs < MaxInstalls /\ installs' = installs + 1 /\ installed' \in Binaries
        /\ tree' = tree /\ head' = head /\ whole' = whole /\ edits' = edits
    BY <1>6 DEF Install
  <2>2. installs' \in 0..MaxInstalls
    BY <1>1, <2>1
  <2> QED BY <1>1, <1>2, <2>1, <2>2, AtRest
<1> QED BY <1>3, <1>4, <1>5, <1>6

LEMMA ReturnKeeps ==
  ASSUME IInv, Return
  PROVE  IInv'
<1>1. /\ IsTree(tree) /\ (head = Nothing \/ IsTree(head)) /\ installed \in Binaries
      /\ whole \in BOOLEAN /\ edits \in 0..MaxEdits /\ installs \in 0..MaxInstalls /\ faults \in 0..MaxFaults
  BY DEF IInv, ProjectType
<1>2. /\ cmd.todo = << >> /\ last' = Ended(cmd.op, "ok") /\ cmd' = Idle
      /\ tree' = tree /\ head' = head /\ installed' = installed
      /\ whole' = whole /\ edits' = edits /\ installs' = installs /\ faults' = faults
  BY DEF Return
<1>3. ASSUME Succeeded' PROVE Clean'
  <2>1. BuildInv(cmd.todo)
    BY <1>2, <1>3 DEF IInv, Succeeded, Ended
  <2>2. Clean
    BY <1>2, <2>1 DEF BuildInv, Pending, Clean
  <2> QED BY <1>2, <2>2 DEF Clean, Kept, Planned, RuntimeOf, Current, PinIsUp, PinOf, Rendered, Target
<1>4. last'.res = "ok"
  BY <1>2 DEF Ended
<1> QED BY <1>1, <1>2, <1>3, <1>4, AtRest

LEMMA CheckKeeps ==
  ASSUME IInv, Check
  PROVE  IInv'
<1>1. /\ cmd' = Idle /\ tree' = tree /\ head' = head /\ installed' = installed
      /\ last'.op = "check" /\ last'.res \in {"ok", "failed"}
      /\ whole' = whole /\ edits' = edits /\ installs' = installs /\ faults' = faults
  BY DEF Check, Answer, Ended
<1>2. ~Succeeded'
  BY <1>1 DEF Succeeded
<1> QED BY <1>1, <1>2, AtRest DEF IInv, ProjectType

LEMMA AgentsStep ==
  ASSUME IInv, Agents
  PROVE  IInv'
<1>1. PICK force \in BOOLEAN :
       IF findProjectRoot /\ LoadsRecipe(tree) /\ (force \/ NoConflict)
       THEN /\ Start("agents", <<Put("agents", Content(recipe(tree))),
                                 Put("architecture", Content(recipe(tree)))>>,
                     ~force, Nothing)
            /\ UNCHANGED whole
       ELSE Refuse
  BY DEF Agents
<1>2. CASE Refuse
  BY <1>2, Stutter DEF Refuse
<1> QED BY <1>1, <1>2, AgentsKeeps

(* The plan that a command has left, and what it has done of it (IInv). *)
THEOREM Invariant == Spec => []IInv
<1>1. Init => IInv
  <2> SUFFICES ASSUME Init PROVE IInv
    OBVIOUS
  <2>1. /\ cmd.todo = << >> /\ cmd.op = "none" /\ cmd = Idle
        /\ cmd = [op |-> cmd.op, todo |-> cmd.todo, looked |-> cmd.looked, from |-> cmd.from]
        /\ installed \in Binaries /\ head = Nothing /\ ~Succeeded
        /\ whole = TRUE /\ edits = 0 /\ installs = 0 /\ faults = 0 /\ last.res = "none"
    BY DEF Init, Idle, Succeeded, Ended
  <2>2. << >> \in Seq(Range(<< >>)) /\ \A i \in 1..Len(<< >>) : FALSE
    OBVIOUS
  <2>3. IsTree(tree)
    BY PathFacts DEF Init, IsTree, Contents
  <2>4. ProjectType
    BY <2>1, <2>2, <2>3 DEF ProjectType, IsPlan
  <2>5. SafeInv(cmd.todo, cmd.looked)
    BY <2>1, <2>2 DEF SafeInv, Once
  <2> QED BY <2>1, <2>4, <2>5 DEF IInv
<1>2. IInv /\ [Next]_vars => IInv'
  BY NewKeeps, AgentsStep, UpgradeStep, CheckKeeps, StepKeeps, FailKeeps, ReturnKeeps,
     DeveloperKeeps, Stutter
  DEF Next
<1> QED BY <1>1, <1>2, PTL DEF Spec

(* Right after new or upgrade has succeeded, nise check finds nothing wrong
   with what nise wrote, whatever was in the tree, edited, failed or upgraded
   before: what may still fail is a pin of go.mod that is not older by its
   numbers and is spelled otherwise, a marker or a secret in a file of the
   application, an environment file (Apply, checkRun). *)
THEOREM SuccessPassesCheckHolds == Spec => []SuccessPassesCheck
<1>1. IInv => SuccessPassesCheck
  <2>0. SUFFICES ASSUME IInv, Succeeded, NEW env \in EnvFiles, NEW asked \in BOOLEAN,
                      NEW c \in DOMAIN checkRun(installed, env, asked),
                      checkRun(installed, env, asked)[c] = "fail"
               PROVE  TheApplications(installed, env)[c]
    BY DEF SuccessPassesCheck, Succeeded
  <2>1. Clean /\ installed \in Binaries /\ IsTree(tree)
    BY <2>0 DEF IInv, ProjectType
  <2>2. ASSUME NEW p \in Kept(installed)
        PROVE  /\ tree[p] = Rendered(p, installed, Target(installed)) /\ tree[p] # Nothing
               /\ tree[p].v # Torn /\ tree[p].mine = "no"
    BY <2>1, RuntimeFacts, RenderedFacts DEF Clean, Current
  <2>3. recipe(tree) = Target(installed) /\ checkRecipe = "ok"
    <3>1. tree["recipe"] = Rendered("recipe", installed, Target(installed))
      BY <2>2, RuntimeFacts
    <3>2. recipe(tree) = Target(installed)
      BY <3>1 DEF recipe, Rendered, Content
    <3> QED BY <2>2, <3>2, RuntimeFacts DEF checkRecipe, LoadsRecipe, Validate
  <2>4. CLIOf(recipe(tree)) = installed /\ RuntimeIn(recipe(tree)) = RuntimeOf(installed)
    BY <2>3 DEF CLIOf, RuntimeIn, Target
  <2>5. PICK plan : plan = loadPlan(installed, recipe(tree))
    OBVIOUS
  <2>6. checkRun(installed, env, asked) =
          [recipe |-> "ok", cli |-> checkCLIVersion(installed, recipe(tree)),
           runtime |-> checkRuntimeVersion(recipe(tree)),
           headers |-> checkOwnershipHeaders(plan),
           content |-> checkOwnershipContent,
           generation |-> checkGeneration(installed, recipe(tree), plan),
           migrations |-> checkMigrations, config |-> checkConfig(env),
           secrets |-> checkSecrets(asked)]
    BY <2>3, <2>5 DEF checkRun
  <2>7. DOMAIN plan \cap NiseOwned = Kept(installed) /\ DOMAIN plan \subseteq PathSet
    BY <2>5 DEF loadPlan, Kept, Planned
  <2>8. checkCLIVersion(installed, recipe(tree)) # "fail"
    <3>1. installed # Dev => installed \in Nat
      BY <2>1, RuntimeFacts
    <3>2. installed # Dev => AtLeast(installed, installed)
      BY <3>1 DEF AtLeast
    <3> QED BY <2>4, <3>2 DEF checkCLIVersion, parseable
  <2>9. ASSUME checkOwnershipHeaders(plan) = "fail"
        PROVE  \E p \in AppOwned : tree[p] /= Nothing /\ tree[p].mine = "header"
    <3>1. PICK p \in DOMAIN plan : Mismarked(p)
      BY <2>9 DEF checkOwnershipHeaders
    <3>2. p \notin NiseOwned
      <4>1. ASSUME p \in NiseOwned PROVE FALSE
        <5>1. p \in Kept(installed)
          BY <2>7, <4>1
        <5>2. tree[p].v # Torn /\ tree[p].mine = "no"
          BY <2>2, <5>1
        <5> QED BY <3>1, <5>2 DEF Mismarked
      <4> QED BY <4>1
    <3>3. p \in AppOwned
      BY <2>7, <3>2 DEF NiseOwned
    <3> QED BY <3>1, <3>2, <3>3 DEF Mismarked
  <2>10. checkOwnershipContent # "fail"
    <3>1. NoConflict
      BY <2>2, RuntimeFacts DEF NoConflict, verifies
    <3> QED BY <3>1 DEF checkOwnershipContent
  <2>11. checkGeneration(installed, recipe(tree), plan) # "fail"
    <3>1. \A p \in DOMAIN plan \cap NiseOwned : tree[p] = plan[p]
      BY <2>2, <2>3, <2>5, <2>7 DEF loadPlan
    <3> QED BY <3>1 DEF checkGeneration
  <2>12. ASSUME checkRuntimeVersion(recipe(tree)) = "fail"
         PROVE  /\ tree["go.mod"] /= Nothing /\ tree["go.mod"].v /= PinOf(installed)
                /\ ~newer(PinOf(installed), tree["go.mod"].v)
    <3>1. tree["go.mod"] # Nothing /\ tree["go.mod"].v # PinOf(installed)
      BY <2>4, <2>12 DEF checkRuntimeVersion, PinOf
    <3> QED BY <2>1, <3>1 DEF Clean, PinIsUp
  <2>13. ASSUME checkSecrets(asked) = "fail"
         PROVE  \E p \in PathSet \ (Planned(installed) \cap NiseOwned) :
                  tree[p] /= Nothing /\ tree[p].mine = "secret"
    <3>1. PICK p \in PathSet : tree[p] /= Nothing /\ tree[p].mine = "secret"
      BY <2>13 DEF checkSecrets, Listed
    <3>2. p \notin Kept(installed)
      BY <2>2, <3>1
    <3> QED BY <3>1, <3>2 DEF Kept
  <2>14. checkMigrations # "fail" /\ (checkConfig(env) = "fail" => env = "bad")
    BY DEF checkMigrations, checkConfig, EnvFiles
  <2>15. c \in {"runtime", "headers", "config", "secrets"}
    BY <2>0, <2>6, <2>8, <2>10, <2>11, <2>14
  <2>16. CASE c = "runtime"
    <3>1. TheApplications(installed, env).runtime <=>
            /\ tree["go.mod"] /= Nothing /\ tree["go.mod"].v /= PinOf(installed)
            /\ ~newer(PinOf(installed), tree["go.mod"].v)
      BY Zenon DEF TheApplications
    <3>2. checkRuntimeVersion(recipe(tree)) = "fail"
      BY <2>0, <2>6, <2>16
    <3>3. TheApplications(installed, env).runtime
      BY <2>12, <3>1, <3>2, Zenon
    <3> QED BY <2>16, <3>3
  <2>17. CASE c = "headers"
    BY <2>0, <2>6, <2>9, <2>17 DEF TheApplications
  <2>18. CASE c = "config"
    <3>1. TheApplications(installed, env).config = (env = "bad")
      BY Zenon DEF TheApplications
    <3>2. checkConfig(env) = "fail"
      BY <2>0, <2>6, <2>18
    <3>3. TheApplications(installed, env).config
      BY <2>14, <3>1, <3>2, Zenon
    <3> QED BY <2>18, <3>3
  <2>19. CASE c = "secrets"
    BY <2>0, <2>6, <2>13, <2>19 DEF TheApplications
  <2> QED BY <2>15, <2>16, <2>17, <2>18, <2>19
<1> QED BY <1>1, Invariant, PTL

(* What a person has written and a command overwrites, removes or tears is in
   git, unless the person passed --force, keeps no repository or upgrades where
   git cannot be asked: upgrade refuses a dirty tree, agents refuses a file it
   did not write, new refuses a directory that holds anything (refuseDirtyTree,
   NoConflict, checkTargetEmpty). *)
THEOREM NothingIsLostHolds == Spec => NothingIsLost
<1> DEFINE Loses(p) == cmd /= Idle /\ tree[p] /= Nothing /\ tree[p].mine /= "no"
                       /\ tree'[p] /= tree[p]
<1>1. IInv /\ [Next]_vars =>
        \A p \in PathSet : Loses(p) => ~cmd.looked \/ head = Nothing \/ head[p] = tree[p]
  <2> SUFFICES ASSUME IInv, [Next]_vars, NEW p \in PathSet, Loses(p)
               PROVE  ~cmd.looked \/ head = Nothing \/ head[p] = tree[p]
    OBVIOUS
  <2>1. Step \/ StepFails
    BY DEF Next, vars, New, Agents, Upgrade, Check, Return, Developer, Edit, GitCommit,
           GitRestore, Install
  <2>2. /\ IsTree(tree) /\ IsPlan(cmd.todo) /\ SafeInv(cmd.todo, cmd.looked)
    BY DEF IInv, ProjectType
  <2>3. /\ Len(cmd.todo) \in Nat \ {0} /\ Head(cmd.todo) = cmd.todo[1]
    BY <2>1, <2>2, PlanTail DEF IsPlan, Step, StepFails
  <2>4. PICK w : w = cmd.todo[1]
    OBVIOUS
  <2>5. IsWrite(w) /\ Backed(w.at, cmd.looked)
    BY <2>2, <2>3, <2>4 DEF IsPlan, SafeInv
  <2>6. p = w.at
    <3>1. CASE Step
      <4>1. Perform(w)
        BY <2>3, <2>4, <3>1 DEF Step
      <4> QED BY <2>2, <2>5, <4>1, WriteFacts
    <3>2. CASE StepFails
      BY <2>2, <2>3, <2>4, <3>2 DEF StepFails, IsTree
    <3> QED BY <2>1, <3>1, <3>2
  <2> QED BY <2>5, <2>6 DEF Backed
<1> QED BY <1>1, Invariant, PTL DEF Spec, NothingIsLost

(* The variables keep their types. *)
THEOREM TypeCorrect == Spec => []TypeOK
<1>1. IInv => TypeOK
  BY DEF IInv, ProjectType, TypeOK
<1> QED BY <1>1, Invariant, PTL

(* A file of the application that exists is changed by upgrade alone, which
   rewrites it along the declared migrations or raises its pin, keeps what a
   person wrote and removes nothing; a write that fails tears it only if it is
   one of those two (fileChanges, planCodemods, planDependencies,
   checkTargetEmpty, StepFails). *)
THEOREM ApplicationOwnedHolds == Spec => ApplicationOwned
<1> DEFINE Changes(p) ==
             /\ cmd.op = "upgrade" /\ tree[p].v /= Torn
             /\ tree'[p] /= Nothing /\ tree'[p].mine = tree[p].mine
             /\ \/ tree'[p].v /= Torn /\ Forward(p, tree[p].v, tree'[p].v)
                \/ /\ tree'[p].v = Torn /\ Head(cmd.todo).at = p
                   /\ Head(cmd.todo).do \in {"rewrite", "bump"}
           Keeps(p) == tree[p] /= Nothing =>
             \/ tree'[p] = tree[p]
             \/ Changes(p)
<1>1. IInv /\ [Next]_vars =>
        (cmd /= Idle => \A p \in AppOwned : Keeps(p))
  <2> SUFFICES ASSUME IInv, [Next]_vars, cmd /= Idle,
                      NEW p \in AppOwned, tree[p] # Nothing, tree'[p] # tree[p]
               PROVE  Changes(p)
    OBVIOUS
  <2>1. ProjectType /\ IsTree(tree) /\ p \in PathSet
    BY PathFacts DEF IInv, ProjectType
  <2>2. Step \/ StepFails
    BY DEF Next, vars, New, Agents, Upgrade, Check, Return, Developer, Edit, GitCommit,
               GitRestore, Install
  <2>3. PICK w : w = cmd.todo[1]
    OBVIOUS
  <2>4. Len(cmd.todo) \in Nat \ {0} /\ IsWrite(w) /\ Head(cmd.todo) = w
    <3>1. cmd.todo \in Seq(Range(cmd.todo)) /\ cmd.todo # << >>
      BY <2>1, <2>2 DEF ProjectType, IsPlan, Step, StepFails
    <3>2. Len(cmd.todo) \in Nat \ {0} /\ Head(cmd.todo) = w
      BY <2>3, <3>1, PlanTail
    <3> QED BY <2>1, <2>3, <3>2 DEF ProjectType, IsPlan
  <2>5. w.at = p
    <3>1. CASE Step
      <4>1. Perform(w)
        BY <2>4, <3>1 DEF Step
      <4> QED BY <2>1, <2>4, <4>1, WriteFacts
    <3>2. CASE StepFails
      BY <2>1, <2>3, <3>2, FailFacts
    <3> QED BY <2>2, <3>1, <3>2
  <2>6. w.do \in {"rewrite", "bump"}
    BY <2>4, <2>5, PathFacts DEF IsWrite
  <2>7. cmd.op = "upgrade"
    <3>1. cmd.op # "new"
      BY <2>1, <2>3, <2>4, <2>6 DEF ProjectType
    <3>2. cmd.op # "agents"
      <4>1. ASSUME cmd.op = "agents" PROVE w.at \in AgentFiles
        BY <2>3, <2>4, <4>1 DEF IInv, AgentsInv
      <4> QED BY <2>5, <4>1, PathFacts
    <3>3. cmd.op # "none"
      BY DEF IInv
    <3> QED BY <2>1, <3>1, <3>2, <3>3 DEF ProjectType
  <2>8. PICK v : v = IF w.do = "bump" THEN w.arg ELSE applyCodemods(tree[p].v, w.arg)
    OBVIOUS
  <2>9. Raises(p, v)
    BY <2>4, <2>5, <2>6, <2>8 DEF IsWrite
  <2>10. tree[p].v # Torn /\ v # Torn /\ Forward(p, tree[p].v, v)
    BY <2>9 DEF Raises, Versions
  <2>11. CASE Step
    <3>1. Perform(w)
      BY <2>4, <2>11 DEF Step
    <3>2. /\ tree'[p] \in Files(p) /\ tree'[p].mine = tree[p].mine /\ tree'[p].v = v
      BY <2>1, <2>4, <2>5, <2>6, <2>8, <3>1, WriteFacts
    <3>3. tree'[p] # Nothing
      BY <2>1, <3>2
    <3> QED BY <2>7, <2>10, <3>2, <3>3
  <2>12. CASE StepFails
    <3>1. PICK c : c = [v |-> Torn, mine |-> tree[p].mine]
      OBVIOUS
    <3>2. tree' = [tree EXCEPT ![p] = c]
      BY <2>4, <2>5, <2>12, <3>1 DEF StepFails
    <3>3. tree'[p] = c /\ c.v = Torn /\ c.mine = tree[p].mine
      BY <2>1, <3>1, <3>2 DEF IsTree
    <3>4. tree'[p] # Nothing
      <4>1. c \in Files(p)
        BY <2>1, <3>1, TreeFacts DEF Files
      <4> QED BY <2>1, <3>3, <4>1
    <3> QED BY <2>4, <2>5, <2>6, <2>7, <2>10, <3>3, <3>4
  <2> QED BY <2>2, <2>11, <2>12
<1> QED BY <1>1, Invariant, PTL DEF Spec, ApplicationOwned

-----------------------------------------------------------------------------
(* What an upgrade leaves behind. *)
LEMMA CleanRecipe ==
  ASSUME IInv, Clean
  PROVE  Consistent(tree) <=> Moved
<1>1. installed \in Binaries
  BY DEF IInv, ProjectType
<1>2. tree["recipe"] = Rendered("recipe", installed, Target(installed))
  BY RuntimeFacts DEF Clean, Current
<1>3. /\ tree["recipe"] # Nothing /\ tree["recipe"].v # Torn
      /\ RuntimeIn(tree["recipe"].v) = RuntimeOf(installed)
  <2>1. tree["recipe"].v = Target(installed)
    BY <1>2 DEF Rendered, Content
  <2> QED BY <1>1, <1>2, <2>1, RenderedFacts, PathFacts DEF RuntimeIn, Target
<1> QED BY <1>3 DEF Consistent, Moved, Arrived, Removed, Ships

(* One write of new or upgrade moves a file to where it belongs. *)
LEMMA MoveStep ==
  ASSUME IInv, Step, MoveInv(cmd.todo)
  PROVE  MoveInv(cmd.todo)' /\ (Moved => Moved') /\ (Removed => Removed')
<1>1. PICK w : w = cmd.todo[1]
  OBVIOUS
<1>2. /\ Len(cmd.todo) \in Nat \ {0}
      /\ \A i \in 1..Len(cmd'.todo) :
           i + 1 \in 1..Len(cmd.todo) /\ cmd'.todo[i] = cmd.todo[i + 1]
      /\ \A p : Pending(p, cmd.todo) /\ w.at # p => Pending(p, cmd.todo)'
  BY <1>1, StepPlan
<1>3. IsWrite(w) /\ Perform(w) /\ Moves(w) /\ IsTree(tree) /\ Once(cmd.todo)
  BY <1>1, <1>2, StepType DEF MoveInv, IInv, ProjectType, SafeInv
<1>4. installed' = installed /\ RuntimeOf(installed)' = RuntimeOf(installed) /\ Ships' = Ships
  BY DEF Step, RuntimeOf, Ships
<1>5. /\ \A p \in PathSet \ {w.at} : tree'[p] = tree[p]
      /\ w.do = "put" => tree'[w.at] = w.arg
      /\ w.do = "remove" => tree'[w.at] = Nothing
      /\ w.do \in {"rewrite", "bump"} =>
           tree'[w.at].v = IF w.do = "bump" THEN w.arg ELSE applyCodemods(tree[w.at].v, w.arg)
  BY <1>3, WriteFacts
<1>6. Arrived \/ w.at = "source" => Arrived'
  <2>1. CASE w.at = "source"
    <3>1. tree'["source"].v = RuntimeOf(installed)
      BY <1>3, <1>5, <2>1 DEF Moves
    <3> QED BY <1>4, <3>1 DEF Arrived
  <2>2. CASE w.at # "source"
    BY <1>4, <1>5, <2>2, PathFacts DEF Arrived
  <2> QED BY <2>1, <2>2
<1>7. Removed \/ w.at = "old" => Removed'
  <2>1. CASE w.at = "old"
    BY <1>3, <1>4, <1>5, <2>1 DEF Moves, Removed
  <2>2. CASE w.at # "old"
    BY <1>4, <1>5, <2>2, PathFacts DEF Removed
  <2> QED BY <2>1, <2>2
<1>8. ASSUME NEW i \in 1..Len(cmd'.todo) PROVE Moves(cmd.todo[i])'
  <2>1. PICK x : x = cmd.todo[i + 1]
    OBVIOUS
  <2>2. Moves(x) /\ cmd'.todo[i] = x /\ i + 1 \in 1..Len(cmd.todo) /\ 1 # i + 1
    BY <1>2, <2>1 DEF MoveInv
  <2>3. CASE x.at = "source"
    <3>1. w.at # "source"
      BY <1>1, <1>2, <1>3, <2>1, <2>2, <2>3, PathFacts DEF Once
    <3>2. tree'["source"] = tree["source"]
      BY <1>5, <3>1, PathFacts
    <3> QED BY <1>4, <2>2, <2>3, <3>2 DEF Moves
  <2>4. CASE x.at # "source"
    BY <1>4, <2>2, <2>4 DEF Moves
  <2> QED BY <2>3, <2>4
<1> QED BY <1>2, <1>6, <1>7, <1>8 DEF MoveInv, Moved

(* The plan of an upgrade that meets no gap and leaves no source alone. *)
LEMMA UpgradeMoves ==
  ASSUME IInv, Consistent(tree), LoadsRecipe(tree),
         NEW looked \in BOOLEAN, NEW codemods \in BOOLEAN, ~looked \/ ~Dirty,
         ~Missing(Chain, RuntimeOf(installed)), codemods \/ Len(Chain) = 1,
         NEW plan, plan = Announced(Chain, codemods)
  PROVE  MoveInv(plan) /\ ResumeInv(plan, tree["recipe"])
<1>1. PICK chain : chain = Chain
  OBVIOUS
<1>2. IsChain(chain) /\ chain[1] = RuntimeIn(recipe(tree))
  BY <1>1, UpgradeChain
<1>3. Last(chain) = RuntimeOf(installed) /\ (codemods \/ Len(chain) = 1)
  BY <1>1 DEF Missing
<1>4. /\ tree["source"] = Nothing \/ tree["source"].v = chain[1]
      /\ tree["old"] = Nothing \/ chain[1] < WithoutOld
      /\ tree["recipe"] # Nothing /\ tree["recipe"].v # Torn
  BY <1>2 DEF Consistent, LoadsRecipe, Validate, recipe
<1>5. /\ IsPlan(plan)
      /\ \A i \in 1..Len(plan) :
           /\ plan[i].at = "source" => plan[i] = Rewrite("source", chain)
           /\ plan[i].at = "old" => plan[i].do = "remove" \/ "old" \in Planned(installed)
      /\ codemods /\ tree["source"] # Nothing
         /\ applyCodemods(tree["source"].v, chain) # tree["source"].v
           => Pending("source", plan)
      /\ declaredRemovals(chain) = {"old"} /\ "old" \notin Planned(installed)
           => tree["old"] = Nothing \/ Pending("old", plan)
  <2>1. plan = Announced(chain, codemods)
    BY <1>1
  <2>2. IsPlan(plan) /\ AnnouncesMoves(chain, codemods, plan)
    BY <1>2, <2>1, UpgradePlan
  <2> QED BY <2>2 DEF AnnouncesMoves
<1>6. ASSUME tree["source"] # Nothing
      PROVE  /\ applyCodemods(tree["source"].v, chain) = RuntimeOf(installed)
             /\ Len(chain) = 1 => tree["source"].v = RuntimeOf(installed)
  <2>1. PICK v : v = tree["source"].v
    OBVIOUS
  <2>2. v \in Releases \cup {Torn}
    BY <1>6, <2>1, TreeFacts, PathFacts DEF IInv, ProjectType, Versions
  <2>3. /\ applyCodemods(v, chain) = Last(chain)
        /\ Len(chain) = 1 => applyCodemods(v, chain) = v
    BY <1>2, <1>4, <1>6, <2>1, <2>2, RewriteFacts
  <2> QED BY <1>3, <2>1, <2>3
<1>7. "old" \in Planned(installed) <=> Ships
  BY PathFacts DEF Planned, Ships
<1>8. ASSUME NEW i \in 1..Len(plan) PROVE Moves(plan[i])
  <2>1. PICK x : x = plan[i]
    OBVIOUS
  <2>2. IsWrite(x) /\ (x.at = "source" => x = Rewrite("source", chain))
        /\ (x.at = "old" => x.do = "remove" \/ Ships)
    BY <1>5, <1>7, <2>1 DEF IsPlan
  <2>3. ASSUME x.at = "source"
        PROVE  x.do = "rewrite" /\ x.arg = chain /\ tree["source"] # Nothing
    BY <2>2, <2>3 DEF Rewrite, IsWrite, Raises
  <2> QED BY <1>6, <2>1, <2>2, <2>3 DEF Moves
<1>9. Arrived \/ Pending("source", plan)
  <2>1. CASE codemods
    BY <1>5, <1>6, <2>1 DEF Arrived
  <2>2. CASE ~codemods
    BY <1>3, <1>6, <2>2 DEF Arrived
  <2> QED BY <2>1, <2>2
<1>10. Removed \/ Pending("old", plan)
  <2>1. ASSUME tree["old"] # Nothing, ~Ships PROVE Pending("old", plan)
    <3>1. chain[1] < WithoutOld /\ ~(Last(chain) < WithoutOld)
      BY <1>3, <1>4, <2>1 DEF Ships
    <3>2. declaredRemovals(chain) = {"old"}
      BY <1>2, <3>1, RemovalFacts
    <3> QED BY <1>5, <1>7, <2>1, <3>2
  <2> QED BY <2>1 DEF Removed
<1>11. MoveInv(plan)
  BY <1>8, <1>9, <1>10 DEF MoveInv
<1>12. RuntimeIn(tree["recipe"].v) \in Nat /\ RuntimeIn(tree["recipe"].v) <= RuntimeOf(installed)
  BY <1>2, <1>3, ChainGrows DEF recipe
<1>13. OldFirst(plan) /\ SourceAfter(plan)
  BY <1>1, PlanOrder
<1> QED BY <1>4, <1>11, <1>12, <1>13 DEF ResumeInv

(* While the recipe is as the upgrade found it, the source is not its next
   write: either the recipe has been written, or it was current from the start,
   and then there is nowhere for the source to go. *)
LEMMA SourceIsThere ==
  ASSUME NEW from, tree["recipe"] = from, Len(cmd.todo) \in Nat \ {0}, installed \in Binaries,
         IsWrite(cmd.todo[1]), Moves(cmd.todo[1]), SourceAfter(cmd.todo),
         tree["source"] = Nothing \/ tree["source"].v = RuntimeIn(from.v),
         cmd.todo[1].at = "source"
  PROVE  FALSE
<1>1. PICK w : w = cmd.todo[1]
  OBVIOUS
<1>2. w.do = "rewrite" /\ Current("recipe")
  <2>1. 1 \in 1..Len(cmd.todo) /\ ~(\E j \in 1..(1 - 1) : cmd.todo[j].at = "recipe")
    OBVIOUS
  <2> QED BY <1>1, <2>1 DEF SourceAfter
<1>3. RuntimeIn(from.v) = RuntimeOf(installed)
  BY <1>2 DEF Current, Rendered, Content, Target, RuntimeIn
<1>4. /\ tree["source"] # Nothing
      /\ applyCodemods(tree["source"].v, w.arg) > tree["source"].v
      /\ applyCodemods(tree["source"].v, w.arg) = RuntimeOf(installed)
  BY <1>1, <1>2 DEF IsWrite, Raises, Forward, Moves
<1>5. RuntimeOf(installed) \in Nat
  BY RuntimeFacts
<1> QED BY <1>3, <1>4, <1>5

LEMMA CompleteStart ==
  ASSUME IInv, CompleteInv, cmd = Idle, NEW op, NEW plan, NEW looked, NEW from,
         Start(op, plan, looked, from), whole' => whole,
         op \in {"new", "upgrade"} /\ whole' => MoveInv(plan),
         op = "upgrade" /\ whole' => ResumeInv(plan, from),
         op = "new" /\ whole' => RecipeEnds(plan)
  PROVE  CompleteInv'
<1>1. /\ cmd'.op = op /\ cmd'.todo = plan /\ cmd'.from = from
      /\ tree' = tree /\ head' = head /\ installed' = installed /\ ~Succeeded'
  BY DEF Start, Succeeded, Ended
<1>2. cmd.op = "none"
  BY DEF Idle
<1>3. /\ RuntimeOf(installed)' = RuntimeOf(installed) /\ Ships' = Ships
      /\ Arrived' = Arrived /\ Removed' = Removed /\ Current("recipe")' = Current("recipe")
  BY <1>1 DEF RuntimeOf, Ships, Arrived, Removed, Current, Rendered, Target, PinOf
<1>4. ASSUME whole', op \in {"new", "upgrade"} PROVE MoveInv(cmd.todo)'
  <2>1. MoveInv(plan)
    BY <1>4
  <2> QED BY <1>1, <1>3, <2>1 DEF MoveInv, Moves, Pending
<1>5. ASSUME whole', op = "upgrade" PROVE ResumeInv(cmd.todo, cmd.from)'
  <2>1. ResumeInv(plan, from)
    BY <1>5
  <2>2. SourceAfter(plan)'
    BY <1>3, <2>1 DEF ResumeInv, SourceAfter
  <2> QED BY <1>1, <1>3, <2>1, <2>2 DEF ResumeInv, OldFirst, Consistent
<1>6. ASSUME whole', op = "new" PROVE RecipeEnds(cmd.todo)'
  BY <1>1, <1>6 DEF RecipeEnds
<1>7. ASSUME whole' PROVE /\ head' # Nothing => Consistent(head)'
                          /\ Consistent(tree)'
  BY <1>1, <1>2, <1>7 DEF CompleteInv, Consistent
<1> QED BY <1>1, <1>4, <1>5, <1>6, <1>7 DEF CompleteInv

(* No command runs after the step. *)
LEMMA CompleteAtRest ==
  ASSUME cmd' = Idle,
         whole' => /\ head' # Nothing => Consistent(head')
                   /\ Consistent(tree') /\ (Succeeded' => Moved')
  PROVE  CompleteInv'
<1>1. cmd'.op = "none"
  BY DEF Idle
<1> QED BY <1>1 DEF CompleteInv, Consistent

LEMMA CompleteStutter ==
  ASSUME CompleteInv, UNCHANGED vars
  PROVE  CompleteInv'
<1>1. /\ cmd' = cmd /\ tree' = tree /\ head' = head /\ installed' = installed /\ last' = last
      /\ whole' = whole
  BY DEF vars
<1>2. /\ RuntimeOf(installed)' = RuntimeOf(installed) /\ Ships' = Ships
      /\ Arrived' = Arrived /\ Removed' = Removed /\ Current("recipe")' = Current("recipe")
      /\ Moved' = Moved /\ Succeeded' = Succeeded
  BY <1>1 DEF RuntimeOf, Ships, Arrived, Removed, Moved, Succeeded, Current, Rendered, Target, PinOf
<1>3. MoveInv(cmd.todo)' <=> MoveInv(cmd.todo)
  BY <1>1, <1>2 DEF MoveInv, Moves, Pending
<1>4. ResumeInv(cmd.todo, cmd.from)' <=> ResumeInv(cmd.todo, cmd.from)
  BY <1>1, <1>2 DEF ResumeInv, OldFirst, SourceAfter, Consistent
<1>5. RecipeEnds(cmd.todo)' <=> RecipeEnds(cmd.todo)
  BY <1>1 DEF RecipeEnds
<1> QED BY <1>1, <1>2, <1>3, <1>4, <1>5 DEF CompleteInv, Consistent

LEMMA CompleteNew ==
  ASSUME IInv, CompleteInv, New
  PROVE  CompleteInv'
<1>1. CASE ~checkTargetEmpty
  BY <1>1, CompleteStutter DEF New, Refuse
<1>2. CASE checkTargetEmpty
  <2>1. PICK s : s = InOrder(Planned(installed))
    OBVIOUS
  <2>2. PICK plan : plan = [i \in DOMAIN s |->
                              Put(s[i], Rendered(s[i], installed, Target(installed)))]
    OBVIOUS
  <2>3. Start("new", plan, TRUE, Nothing) /\ whole' = whole /\ cmd = Idle
    BY <1>2, <2>1, <2>2 DEF New, Target
  <2>4. /\ s \in Seq(PathSet) /\ \A x : In(x, s) <=> x \in Planned(installed)
        /\ \A i \in 1..Len(s) : s[i] = "recipe" => i = Len(s)
    <3>1. Planned(installed) \in SUBSET PathSet
      BY DEF Planned
    <3> QED BY <2>1, <3>1, OrderFacts
  <2>5. Len(plan) = Len(s) /\ DOMAIN s = 1..Len(s)
    BY <2>2, <2>4, Mapped
  <2>6. ASSUME NEW i \in 1..Len(plan) PROVE Moves(plan[i])
    <3>1. s[i] \in Planned(installed)
      BY <2>4, <2>5 DEF In
    <3>2. PICK p : p = s[i]
      OBVIOUS
    <3>3. /\ plan[i].do = "put" /\ plan[i].at = p
          /\ plan[i].arg = Rendered(p, installed, Target(installed))
      BY <2>2, <2>5, <3>2 DEF Put
    <3>4. p = "source" => plan[i].arg.v = RuntimeOf(installed)
      BY <3>3, PathFacts DEF Rendered, Content
    <3>5. p = "old" => Ships
      BY <3>1, <3>2 DEF Planned, Ships
    <3> QED BY <3>3, <3>4, <3>5 DEF Moves
  <2>7. Arrived /\ Removed
    BY <1>2, PathFacts DEF Arrived, Removed, checkTargetEmpty
  <2>8. MoveInv(plan)
    BY <2>6, <2>7 DEF MoveInv
  <2>9. RecipeEnds(plan)
    <3>1. \A i \in 1..Len(plan) : plan[i].at = s[i]
      BY <2>2, <2>5 DEF Put
    <3>2. tree["recipe"] = Nothing
      BY <1>2, PathFacts DEF checkTargetEmpty
    <3> QED BY <2>4, <2>5, <3>1, <3>2 DEF RecipeEnds
  <2> QED BY <2>3, <2>8, <2>9, CompleteStart
<1> QED BY <1>1, <1>2

LEMMA CompleteAgents ==
  ASSUME IInv, CompleteInv, Agents
  PROVE  CompleteInv'
<1>1. PICK force \in BOOLEAN :
       IF findProjectRoot /\ LoadsRecipe(tree) /\ (force \/ NoConflict)
       THEN /\ Start("agents", <<Put("agents", Content(recipe(tree))),
                                 Put("architecture", Content(recipe(tree)))>>,
                     ~force, Nothing)
            /\ UNCHANGED whole
       ELSE Refuse
  BY DEF Agents
<1>2. CASE Refuse
  BY <1>2, CompleteStutter DEF Refuse
<1>3. PICK plan : plan = <<Put("agents", Content(recipe(tree))),
                          Put("architecture", Content(recipe(tree)))>>
  OBVIOUS
<1>4. CASE Start("agents", plan, ~force, Nothing) /\ UNCHANGED whole
  <2>1. cmd = Idle
    BY DEF Agents
  <2> QED BY <1>4, <2>1, CompleteStart
<1> QED BY <1>1, <1>2, <1>3, <1>4

LEMMA CompleteUpgrade ==
  ASSUME IInv, CompleteInv, Upgrade
  PROVE  CompleteInv'
<1>1. CASE UNCHANGED vars
  BY <1>1, CompleteStutter
<1>2. CASE LoadsRecipe(tree) /\ UpToDate(installed, Chain) /\ Answer("upgrade", "ok") /\ cmd = Idle
  <2>1. PICK chain : chain = Chain
    OBVIOUS
  <2>2. Clean
    BY <1>2, <2>1, UpToDateIsClean
  <2>3. /\ cmd' = Idle /\ tree' = tree /\ head' = head /\ installed' = installed
        /\ whole' = whole /\ cmd.op = "none"
    BY <1>2 DEF Answer, Idle
  <2>4. whole => /\ head # Nothing => Consistent(head)
                 /\ Consistent(tree) /\ Moved
    BY <2>2, <2>3, CleanRecipe DEF CompleteInv
  <2>5. Moved' = Moved
    BY <2>3 DEF Moved, Arrived, Removed, Ships, RuntimeOf
  <2> QED BY <2>3, <2>4, <2>5, CompleteAtRest
<1>3. ASSUME LoadsRecipe(tree), cmd = Idle, NEW looked \in BOOLEAN, NEW codemods \in BOOLEAN,
             ~looked \/ ~Dirty,
             Start("upgrade", Announced(Chain, codemods), looked, tree["recipe"]),
             whole' = (whole /\ ~Missing(Chain, RuntimeOf(installed))
                       /\ (codemods \/ Len(Chain) = 1))
      PROVE  CompleteInv'
  <2>1. PICK plan : plan = Announced(Chain, codemods)
    OBVIOUS
  <2>2. PICK from : from = tree["recipe"]
    OBVIOUS
  <2>3. ASSUME whole' PROVE MoveInv(plan) /\ ResumeInv(plan, from)
    <3>1. /\ whole /\ ~Missing(Chain, RuntimeOf(installed))
          /\ codemods \/ Len(Chain) = 1
      BY <1>3, <2>3
    <3>2. Consistent(tree)
      BY <1>3, <3>1 DEF CompleteInv, Idle
    <3> QED BY <1>3, <2>1, <2>2, <3>1, <3>2, UpgradeMoves
  <2>4. whole' => whole
    BY <1>3
  <2>5. Start("upgrade", plan, looked, from)
    BY <1>3, <2>1, <2>2
  <2> QED BY <1>3, <2>3, <2>4, <2>5, CompleteStart
<1> QED BY <1>1, <1>2, <1>3, UpgradeCases

(* A write of upgrade keeps it possible to repeat the command. *)
LEMMA ResumeStep ==
  ASSUME IInv, Step, cmd.op = "upgrade", MoveInv(cmd.todo), ResumeInv(cmd.todo, cmd.from)
  PROVE  ResumeInv(cmd.todo, cmd.from)'
<1>1. PICK w : w = cmd.todo[1]
  OBVIOUS
<1>2. PICK from : from = cmd.from
  OBVIOUS
<1>3. /\ Len(cmd.todo) \in Nat \ {0}
      /\ \A i \in 1..Len(cmd'.todo) :
           i + 1 \in 1..Len(cmd.todo) /\ cmd'.todo[i] = cmd.todo[i + 1]
      /\ cmd'.todo = Tail(cmd.todo) /\ Len(cmd'.todo) = Len(cmd.todo) - 1
  <2>1. Len(Tail(cmd.todo)) = Len(cmd.todo) - 1
    BY PlanTail DEF Step, IInv, ProjectType, IsPlan
  <2> QED BY <2>1, StepPlan
<1>4. /\ IsWrite(w) /\ Perform(w) /\ Moves(w) /\ OnPlan(w) /\ IsTree(tree)
      /\ installed \in Binaries
  <2>1. BuildInv(cmd.todo) /\ IsTree(tree) /\ installed \in Binaries
    BY DEF IInv, ProjectType
  <2>2. 1 \in 1..Len(cmd.todo)
    BY <1>3
  <2>3. Moves(w) /\ OnPlan(w)
    BY <1>1, <2>1, <2>2 DEF MoveInv, BuildInv
  <2> QED BY <1>1, <2>1, <2>3, StepType
<1>5. /\ installed' = installed /\ RuntimeOf(installed)' = RuntimeOf(installed)
      /\ Ships' = Ships /\ cmd'.from = from
  BY <1>2 DEF Step, RuntimeOf, Ships, IInv, ProjectType
<1>6. /\ \A p \in PathSet \ {w.at} : tree'[p] = tree[p]
      /\ w.do = "put" => tree'[w.at] = w.arg
      /\ w.do = "remove" => tree'[w.at] = Nothing
  BY <1>4, WriteFacts
<1>7. Current("recipe") \/ w.at = "recipe" => Current("recipe")'
  BY <1>4, <1>5, WriteKeeps, RuntimeFacts
<1>8. Removed => Removed'
  BY MoveStep
<1>9. /\ OldFirst(cmd.todo) /\ SourceAfter(cmd.todo)
      /\ RuntimeIn(from.v) \in Nat /\ RuntimeIn(from.v) <= RuntimeOf(installed)
      /\ tree["recipe"] = from => Consistent(tree)
      /\ tree["recipe"] # from => Current("recipe") /\ Removed
      /\ from # Nothing /\ from.v # Torn
  BY <1>2 DEF ResumeInv
<1>10. OldFirst(cmd.todo)'
  <2>1. ASSUME NEW i \in 1..Len(cmd'.todo), NEW j \in 1..Len(cmd'.todo),
               cmd'.todo[i].at = "old", cmd'.todo[j].at = "recipe"
        PROVE  i < j
    <3>1. /\ i + 1 \in 1..Len(cmd.todo) /\ j + 1 \in 1..Len(cmd.todo)
          /\ cmd.todo[i + 1].at = "old" /\ cmd.todo[j + 1].at = "recipe"
      BY <1>3, <2>1
    <3>2. i + 1 < j + 1
      BY <1>9, <3>1 DEF OldFirst
    <3> QED BY <1>3, <3>2
  <2> QED BY <2>1 DEF OldFirst
<1>11. SourceAfter(cmd.todo)'
  <2>1. ASSUME NEW i \in 1..Len(cmd'.todo), cmd'.todo[i].at = "source"
        PROVE  /\ cmd'.todo[i].do = "rewrite"
               /\ Current("recipe")' \/ \E j \in 1..(i - 1) : cmd'.todo[j].at = "recipe"
    <3>1. i + 1 \in 1..Len(cmd.todo) /\ cmd'.todo[i] = cmd.todo[i + 1]
      BY <1>3
    <3>2. /\ cmd'.todo[i].do = "rewrite"
          /\ Current("recipe") \/ \E j \in 1..((i + 1) - 1) : cmd.todo[j].at = "recipe"
      BY <1>9, <2>1, <3>1 DEF SourceAfter
    <3>3. ASSUME ~Current("recipe")' PROVE \E j \in 1..(i - 1) : cmd'.todo[j].at = "recipe"
      <4>1. PICK j \in 1..((i + 1) - 1) : cmd.todo[j].at = "recipe"
        BY <1>7, <3>2, <3>3
      <4>2. j # 1
        BY <1>1, <1>7, <3>3, <4>1
      <4>3. j - 1 \in 1..(i - 1) /\ j - 1 \in 1..Len(cmd'.todo) /\ (j - 1) + 1 = j
        BY <1>3, <4>1, <4>2
      <4>4. cmd'.todo[j - 1].at = "recipe"
        BY <1>3, <4>1, <4>3
      <4> QED BY <4>3, <4>4
    <3> QED BY <3>2, <3>3
  <2> QED BY <2>1 DEF SourceAfter
<1>12. ASSUME tree'["recipe"] = from PROVE Consistent(tree')
  <2>1. tree["recipe"] = from
    <3>1. CASE w.at = "recipe"
      <4>1. w.do = "put" /\ w.arg = Rendered("recipe", installed, Target(installed))
        BY <1>4, <3>1, RuntimeFacts DEF OnPlan, Put
      <4>2. from = Rendered("recipe", installed, Target(installed))
        BY <1>6, <1>12, <3>1, <4>1
      <4> QED BY <1>9, <4>2 DEF Current
    <3>2. CASE w.at # "recipe"
      BY <1>6, <1>12, <3>2, PathFacts
    <3> QED BY <3>1, <3>2
  <2>2. /\ tree["source"] = Nothing \/ tree["source"].v = RuntimeIn(from.v)
        /\ tree["old"] = Nothing \/ RuntimeIn(from.v) < WithoutOld
    BY <1>9, <2>1 DEF Consistent
  <2>3. w.at # "source"
    <3>1. ASSUME w.at = "source" PROVE FALSE
      BY <1>1, <1>3, <1>4, <1>9, <2>1, <2>2, <3>1, SourceIsThere
    <3> QED BY <3>1
  <2>4. tree'["source"] = tree["source"]
    BY <1>6, <2>3, PathFacts
  <2>5. tree'["old"] = Nothing \/ RuntimeIn(from.v) < WithoutOld
    <3>1. CASE w.at = "old"
      <4>1. w.do = "remove" \/ Ships
        BY <1>4, <3>1 DEF Moves
      <4>2. Ships => RuntimeIn(from.v) < WithoutOld
        <5>1. RuntimeOf(installed) \in Nat
          BY <1>4, RuntimeFacts
        <5> QED BY <1>9, <5>1 DEF Ships
      <4> QED BY <1>6, <3>1, <4>1, <4>2
    <3>2. CASE w.at # "old"
      BY <1>6, <2>2, <3>2, PathFacts
    <3> QED BY <3>1, <3>2
  <2> QED BY <1>12, <2>2, <2>4, <2>5 DEF Consistent
<1>13. ASSUME tree'["recipe"] # from PROVE Current("recipe")' /\ Removed'
  <2>1. CASE w.at = "recipe"
    <3>1. Removed
      <4>1. Removed \/ Pending("old", cmd.todo)
        BY DEF MoveInv
      <4>2. ASSUME Pending("old", cmd.todo) PROVE FALSE
        <5>1. PICK i \in 1..Len(cmd.todo) : cmd.todo[i].at = "old"
          BY <4>2 DEF Pending
        <5>2. i < 1
          BY <1>1, <1>3, <1>9, <2>1, <5>1 DEF OldFirst
        <5> QED BY <5>1, <5>2
      <4> QED BY <4>1, <4>2
    <3> QED BY <1>7, <1>8, <2>1, <3>1
  <2>2. CASE w.at # "recipe"
    BY <1>6, <1>7, <1>8, <1>9, <1>13, <2>2, PathFacts
  <2> QED BY <2>1, <2>2
<1> QED BY <1>2, <1>5, <1>9, <1>10, <1>11, <1>12, <1>13 DEF ResumeInv, Consistent

LEMMA EndsStep ==
  ASSUME IInv, Step, RecipeEnds(cmd.todo)
  PROVE  RecipeEnds(cmd.todo)'
<1>1. PICK w : w = cmd.todo[1]
  OBVIOUS
<1>2. /\ Len(cmd.todo) \in Nat \ {0} /\ Len(cmd'.todo) = Len(cmd.todo) - 1
      /\ \A i \in 1..Len(cmd'.todo) :
           i + 1 \in 1..Len(cmd.todo) /\ cmd'.todo[i] = cmd.todo[i + 1]
      /\ cmd'.todo = Tail(cmd.todo) /\ cmd'.todo \in Seq(Range(cmd'.todo)) /\ cmd.todo # << >>
  <2>1. /\ Len(Tail(cmd.todo)) = Len(cmd.todo) - 1 /\ Tail(cmd.todo) \in Seq(Range(Tail(cmd.todo)))
        /\ cmd.todo # << >>
    BY PlanTail DEF Step, IInv, ProjectType, IsPlan
  <2> QED BY <2>1, StepPlan
<1>3. IsWrite(w) /\ Perform(w) /\ IsTree(tree)
  BY <1>1, StepType DEF IInv, ProjectType
<1>4. tree["recipe"] = Nothing
  BY <1>2 DEF RecipeEnds
<1>5. ASSUME NEW i \in 1..Len(cmd'.todo), cmd'.todo[i].at = "recipe"
      PROVE  i = Len(cmd'.todo)
  <2>1. i + 1 \in 1..Len(cmd.todo) /\ cmd.todo[i + 1].at = "recipe"
    BY <1>2, <1>5
  <2>2. i + 1 = Len(cmd.todo)
    BY <2>1 DEF RecipeEnds
  <2> QED BY <1>2, <2>2
<1>6. ASSUME tree'["recipe"] # Nothing PROVE cmd'.todo = << >>
  <2>1. w.at = "recipe"
    BY <1>3, <1>4, <1>6, WriteFacts, PathFacts
  <2>2. 1 = Len(cmd.todo)
    <3>1. 1 \in 1..Len(cmd.todo) /\ cmd.todo[1].at = "recipe"
      BY <1>1, <1>2, <2>1
    <3> QED BY <3>1 DEF RecipeEnds
  <2>3. Len(cmd'.todo) = 0
    BY <1>2, <2>2
  <2>4. PICK t : t = cmd'.todo
    OBVIOUS
  <2>5. t \in Seq(Range(t)) /\ Len(t) = 0
    BY <1>2, <2>3, <2>4
  <2>6. PICK R : R = Range(t)
    OBVIOUS
  <2>7. t = << >>
    BY <2>5, <2>6
  <2> QED BY <2>4, <2>7
<1> QED BY <1>5, <1>6 DEF RecipeEnds

LEMMA CompleteStep ==
  ASSUME IInv, CompleteInv, Step
  PROVE  CompleteInv'
<1>1. /\ cmd'.op = cmd.op /\ head' = head /\ whole' = whole /\ last' = last
      /\ installed' = installed
  BY StepPlan DEF Step
<1>2. SUFFICES ASSUME whole PROVE CompleteInv'
  BY <1>1 DEF CompleteInv
<1>3. head' # Nothing => Consistent(head)'
  BY <1>1, <1>2 DEF CompleteInv, Consistent
<1>4. Succeeded' = Succeeded
  BY <1>1 DEF Succeeded
<1>5. CASE cmd.op \in {"new", "upgrade"}
  <2>1. MoveInv(cmd.todo)
    BY <1>2, <1>5 DEF CompleteInv
  <2>2. MoveInv(cmd.todo)' /\ (Moved => Moved')
    BY <2>1, MoveStep
  <2>3. cmd.op = "upgrade" => ResumeInv(cmd.todo, cmd.from)'
    BY <1>2, <2>1, ResumeStep DEF CompleteInv
  <2>4. cmd.op = "new" => RecipeEnds(cmd.todo)'
    BY <1>2, EndsStep DEF CompleteInv
  <2> QED BY <1>1, <1>2, <1>3, <1>4, <1>5, <2>2, <2>3, <2>4 DEF CompleteInv
<1>6. CASE cmd.op = "agents"
  <2>1. PICK w : w = cmd.todo[1]
    OBVIOUS
  <2>2. IsWrite(w) /\ Perform(w) /\ IsTree(tree) /\ w.at \in AgentFiles
    BY <1>6, <2>1, StepPlan, StepType DEF IInv, ProjectType, AgentsInv
  <2>3. \A p \in {"source", "recipe", "old"} : tree'[p] = tree[p]
    BY <2>2, WriteFacts, PathFacts
  <2>4. Consistent(tree)'
    BY <1>2, <1>6, <2>3 DEF CompleteInv, Consistent
  <2>5. Moved' = Moved
    BY <1>1, <2>3 DEF Moved, Arrived, Removed, Ships, RuntimeOf
  <2> QED BY <1>1, <1>2, <1>3, <1>4, <1>6, <2>4, <2>5 DEF CompleteInv
<1>7. CASE cmd.op = "none"
  BY <1>7 DEF IInv, Step
<1> QED BY <1>5, <1>6, <1>7 DEF IInv, ProjectType

(* An upgrade fails: before the recipe is written nothing has moved that the
   recipe does not speak of, and after the source everything has. *)
LEMMA ResumeFail ==
  ASSUME IInv, StepFails, cmd.op = "upgrade", MoveInv(cmd.todo), ResumeInv(cmd.todo, cmd.from),
         ~(SourceIsDue /\ tree["recipe"] # cmd.from)
  PROVE  Consistent(tree')
<1>1. PICK w : w = cmd.todo[1]
  OBVIOUS
<1>2. PICK from : from = cmd.from
  OBVIOUS
<1>3. /\ Len(cmd.todo) \in Nat \ {0} /\ IsWrite(w) /\ 1 \in 1..Len(cmd.todo)
      /\ \A p \in PathSet : p # w.at => tree'[p] = tree[p]
      /\ tree' = tree \/ (w.do # "remove" /\ tree'[w.at].v = Torn)
  BY <1>1, FailFacts
<1>4. Moves(w) /\ installed \in Binaries
  BY <1>1, <1>3 DEF MoveInv, IInv, ProjectType
<1>5. /\ OldFirst(cmd.todo) /\ SourceAfter(cmd.todo)
      /\ RuntimeIn(from.v) \in Nat /\ RuntimeIn(from.v) <= RuntimeOf(installed)
      /\ tree["recipe"] = from => Consistent(tree)
      /\ tree["recipe"] # from => Current("recipe") /\ Removed
      /\ from # Nothing /\ from.v # Torn
  BY <1>2 DEF ResumeInv
<1>6. CASE tree' # tree /\ w.at = "recipe"
  BY <1>3, <1>6 DEF Consistent
<1>7. CASE tree' = tree \/ w.at # "recipe"
  <2>1. tree'["recipe"] = tree["recipe"]
    BY <1>3, <1>7, PathFacts
  <2>2. CASE tree["recipe"] = from
    <3>1. /\ tree["source"] = Nothing \/ tree["source"].v = RuntimeIn(from.v)
          /\ tree["old"] = Nothing \/ RuntimeIn(from.v) < WithoutOld
      BY <1>5, <2>2 DEF Consistent
    <3>2. w.at # "source"
      <4>1. ASSUME w.at = "source" PROVE FALSE
        BY <1>1, <1>3, <1>4, <1>5, <2>2, <3>1, <4>1, SourceIsThere
      <4> QED BY <4>1
    <3>3. tree'["source"] = tree["source"]
      BY <1>3, <3>2, PathFacts
    <3>4. tree'["old"] = Nothing \/ RuntimeIn(from.v) < WithoutOld
      <4>1. CASE tree' # tree /\ w.at = "old"
        <5>1. Ships
          BY <1>3, <1>4, <4>1 DEF Moves
        <5>2. RuntimeOf(installed) \in Nat
          BY <1>4, RuntimeFacts
        <5> QED BY <1>5, <5>1, <5>2 DEF Ships
      <4>2. CASE tree' = tree \/ w.at # "old"
        BY <1>3, <3>1, <4>2, PathFacts
      <4> QED BY <4>1, <4>2
    <3> QED BY <2>1, <2>2, <3>1, <3>3, <3>4 DEF Consistent
  <2>3. CASE tree["recipe"] # from
    <3>1. Current("recipe") /\ Removed /\ ~SourceIsDue
      BY <1>2, <1>5, <2>3
    <3>2. ~Pending("source", cmd.todo)
      BY <1>5, <3>1 DEF Pending, SourceAfter, SourceIsDue
    <3>3. Arrived /\ w.at # "source"
      BY <1>1, <1>3, <3>2 DEF MoveInv, Pending
    <3>4. RuntimeIn(tree["recipe"].v) = RuntimeOf(installed)
      BY <3>1 DEF Current, Rendered, Content, Target, RuntimeIn
    <3>5. tree'["source"] = Nothing \/ tree'["source"].v = RuntimeOf(installed)
      BY <1>3, <3>3, PathFacts DEF Arrived
    <3>6. tree'["old"] = Nothing \/ RuntimeOf(installed) < WithoutOld
      <4>1. CASE tree' # tree /\ w.at = "old"
        BY <1>3, <1>4, <4>1 DEF Moves, Ships
      <4>2. CASE tree' = tree \/ w.at # "old"
        BY <1>3, <3>1, <4>2, PathFacts DEF Removed, Ships
      <4> QED BY <4>1, <4>2
    <3> QED BY <2>1, <3>4, <3>5, <3>6 DEF Consistent
  <2> QED BY <2>2, <2>3
<1> QED BY <1>6, <1>7

LEMMA CompleteFail ==
  ASSUME IInv, CompleteInv, StepFails
  PROVE  CompleteInv'
<1>1. /\ cmd' = Idle /\ head' = head /\ last'.res = "failed"
      /\ whole' => whole /\ ~(SourceIsDue /\ tree["recipe"] /= cmd.from)
  BY DEF StepFails
<1>2. ~Succeeded'
  BY <1>1 DEF Succeeded
<1>3. ASSUME whole' PROVE (head' # Nothing => Consistent(head')) /\ Consistent(tree')
  <2>0. head' # Nothing => Consistent(head')
    BY <1>1, <1>3 DEF CompleteInv, Consistent
  <2>1. CASE cmd.op = "agents"
    <3>1. cmd.todo[1].at \in AgentFiles
      BY <2>1, FailFacts DEF IInv, AgentsInv
    <3>2. \A p \in {"source", "recipe", "old"} : tree'[p] = tree[p]
      BY <3>1, FailFacts, PathFacts
    <3>3. Consistent(tree)
      BY <1>1, <1>3, <2>1 DEF CompleteInv
    <3> QED BY <2>0, <3>2, <3>3 DEF Consistent
  <2>2. CASE cmd.op = "new"
    <3>1. tree["recipe"] = Nothing
      BY <1>1, <1>3, <2>2, FailFacts DEF CompleteInv, RecipeEnds
    <3>2. tree'["recipe"] = Nothing \/ tree'["recipe"].v = Torn
      BY <3>1, FailFacts, PathFacts
    <3> QED BY <2>0, <3>2 DEF Consistent
  <2>3. CASE cmd.op = "upgrade"
    BY <1>1, <1>3, <2>0, <2>3, ResumeFail DEF CompleteInv
  <2>4. CASE cmd.op = "none"
    BY <2>4 DEF IInv, StepFails
  <2> QED BY <2>1, <2>2, <2>3, <2>4 DEF IInv, ProjectType
<1> QED BY <1>1, <1>2, <1>3, CompleteAtRest

LEMMA CompleteReturn ==
  ASSUME IInv, CompleteInv, Return
  PROVE  CompleteInv'
<1>1. /\ cmd.todo = << >> /\ last' = Ended(cmd.op, "ok") /\ cmd' = Idle /\ cmd # Idle
      /\ tree' = tree /\ head' = head /\ installed' = installed /\ whole' = whole
  BY DEF Return
<1>2. Moved' = Moved
  BY <1>1 DEF Moved, Arrived, Removed, Ships, RuntimeOf
<1>3. CASE cmd.op \in {"new", "upgrade"}
  <2>1. Clean
    BY <1>1, <1>3 DEF IInv, BuildInv, Pending, Clean
  <2>2. ASSUME whole PROVE Moved
    BY <1>1, <1>3, <2>2 DEF CompleteInv, MoveInv, Pending, Moved
  <2>3. ASSUME whole PROVE Consistent(tree) /\ (head # Nothing => Consistent(head))
    BY <2>1, <2>2, <2>3, CleanRecipe DEF CompleteInv
  <2> QED BY <1>1, <1>2, <2>2, <2>3, CompleteAtRest
<1>4. CASE cmd.op = "agents"
  <2>1. ~Succeeded'
    BY <1>1, <1>4 DEF Succeeded, Ended
  <2>2. ASSUME whole PROVE Consistent(tree) /\ (head # Nothing => Consistent(head))
    BY <1>4, <2>2 DEF CompleteInv
  <2> QED BY <1>1, <2>1, <2>2, CompleteAtRest
<1>5. CASE cmd.op = "none"
  BY <1>1, <1>5 DEF IInv
<1> QED BY <1>3, <1>4, <1>5 DEF IInv, ProjectType

LEMMA CompleteElse ==
  ASSUME IInv, CompleteInv, Check \/ Edit \/ GitCommit \/ GitRestore \/ Install
  PROVE  CompleteInv'
<1>1. cmd = Idle /\ cmd' = Idle /\ ~Succeeded'
  BY DEF Check, Answer, Ended, Succeeded, Edit, GitCommit, GitRestore, Install, Developer
<1>2. ASSUME whole PROVE Consistent(tree) /\ (head # Nothing => Consistent(head))
  BY <1>1, <1>2 DEF CompleteInv, Idle
<1>3. CASE Edit
  <2>1. head' = head
    BY <1>3 DEF Edit
  <2>2. whole' => whole /\ \A q \in PathSet :
                            \/ tree'[q] = Nothing
                            \/ tree[q] # Nothing /\ Says(q, tree'[q])
    BY <1>3, EditFacts DEF IInv, ProjectType
  <2>3. ASSUME whole' PROVE Consistent(tree')
    <3>1. \A q \in {"source", "old"} :
            tree'[q] = Nothing \/ (tree[q] # Nothing /\ tree'[q].v = tree[q].v)
      BY <2>2, <2>3, PathFacts DEF Says
    <3>2. \/ tree'["recipe"] = Nothing
          \/ /\ tree["recipe"] # Nothing
             /\ \/ tree'["recipe"].v = tree["recipe"].v
                \/ /\ tree["recipe"].v # Torn
                   /\ RuntimeIn(tree'["recipe"].v) = RuntimeIn(tree["recipe"].v)
      BY <2>2, <2>3, PathFacts DEF Says
    <3>3. Consistent(tree)
      BY <1>2, <2>2, <2>3
    <3> QED BY <3>1, <3>2, <3>3 DEF Consistent
  <2> QED BY <1>1, <1>2, <2>1, <2>2, <2>3, CompleteAtRest
<1>4. CASE Check
  BY <1>1, <1>2, <1>4, CompleteAtRest DEF Check, Answer
<1>5. CASE GitCommit
  BY <1>1, <1>2, <1>5, CompleteAtRest DEF GitCommit
<1>6. CASE GitRestore
  BY <1>1, <1>2, <1>6, CompleteAtRest DEF GitRestore, Dirty
<1>7. CASE Install
  BY <1>1, <1>2, <1>7, CompleteAtRest DEF Install
<1> QED BY <1>3, <1>4, <1>5, <1>6, <1>7

(* As long as no upgrade met a gap, left the source alone or failed between
   the recipe and the source, and nobody wrote another runtime version into the
   recipe, the source is where the recipe says and nothing is left that its
   release no longer ships, in the tree and in git; and a running upgrade is
   about to bring both about, or to leave what it can be repeated from. *)
THEOREM CompleteInvariant == Spec => []CompleteInv
<1>1. Init => CompleteInv
  <2> SUFFICES ASSUME Init PROVE CompleteInv
    OBVIOUS
  <2>1. head = Nothing /\ cmd.op = "none" /\ ~Succeeded /\ tree["recipe"] = Nothing
    BY PathFacts DEF Init, Idle, Ended, Succeeded
  <2> QED BY <2>1 DEF CompleteInv, Consistent
<1>2. IInv /\ CompleteInv /\ [Next]_vars => CompleteInv'
  BY CompleteNew, CompleteAgents, CompleteUpgrade, CompleteStep, CompleteFail, CompleteReturn,
     CompleteElse, CompleteStutter
  DEF Next
<1> QED BY <1>1, <1>2, Invariant, PTL DEF Spec

(* An upgrade that succeeds has taken the source along every migration to the
   new runtime and has left no file that the release no longer ships, through
   as many migrations as it takes, also when it repeats an upgrade that failed
   before it wrote the recipe or after it wrote the source; unless one met a
   gap, was told to leave the source alone or failed between the two, or the
   recipe's runtime version was changed by hand (path, applyCodemods,
   declaredRemovals, StepFails). *)
THEOREM UpgradeIsCompleteHolds == Spec => []UpgradeIsComplete
<1>1. IInv /\ CompleteInv => UpgradeIsComplete
  <2> SUFFICES ASSUME IInv, CompleteInv, last.op = "upgrade", last.res = "ok", whole
               PROVE  /\ tree["source"] = Nothing \/ tree["source"].v = RuntimeOf(installed)
                      /\ RuntimeOf(installed) >= WithoutOld => tree["old"] = Nothing
    BY DEF UpgradeIsComplete
  <2>1. Moved
    BY DEF CompleteInv, Succeeded
  <2>2. RuntimeOf(installed) \in Nat
    BY RuntimeFacts DEF IInv, ProjectType
  <2>3. RuntimeOf(installed) >= WithoutOld => ~Ships
    BY <2>2 DEF Ships
  <2> QED BY <2>1, <2>3 DEF Moved, Arrived, Removed
<1> QED BY <1>1, Invariant, CompleteInvariant, PTL
=============================================================================

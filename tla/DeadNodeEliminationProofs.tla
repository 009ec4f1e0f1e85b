------------------- MODULE DeadNodeEliminationProofs -------------------
(***************************************************************************)
(* Proofs about DeadNodeElimination, for graphs of any size and shape.     *)
(***************************************************************************)
EXTENDS DeadNodeElimination, FiniteSetTheorems, TLAPS

-----------------------------------------------------------------------------
(* Numbers. *)

\* Induction over the natural numbers, for a set of numbers.
LEMMA SetInduction ==
  ASSUME NEW A, 0 \in A, \A k \in Nat : k \in A => k + 1 \in A
  PROVE  Nat \subseteq A
<1> SUFFICES ASSUME Nat \ A # {} PROVE FALSE
  OBVIOUS
<1>1. IsWellFoundedOn(OpToRel(<, Nat), Nat)
  BY NatLessThanWellFounded
<1>2. PICK k \in Nat \ A : \A j \in Nat \ A : << j, k >> \notin OpToRel(<, Nat)
  <2>1. Nat \ A \subseteq Nat
    OBVIOUS
  <2> QED BY <1>1, <2>1, WFMin
<1>3. k \in Nat /\ k \notin A /\ k # 0
  BY <1>2
<1>4. k - 1 \in Nat /\ k - 1 < k /\ (k - 1) + 1 = k
  BY <1>3
<1>5. k - 1 \in A
  BY <1>2, <1>3, <1>4 DEF OpToRel
<1> QED BY <1>3, <1>4, <1>5

\* A function may be defined by saying where it starts and what comes next.
Iterations(S, s, G) ==
  {f \in [Nat -> S] : f[0] = s /\ \A k \in Nat : f[k + 1] = G[f[k]]}

LEMMA Iterates ==
  ASSUME NEW S, NEW s \in S, NEW G \in [S -> S]
  PROVE  Iterations(S, s, G) # {}
<1> DEFINE Starts(k) == {g \in [0 .. k -> S] :
                          /\ g[0] = s
                          /\ \A j \in 0 .. k : j < k => g[j + 1] = G[g[j]]}
<1>1. ASSUME NEW k \in Nat
      PROVE  Starts(k) # {}
  <2> DEFINE A == {j \in Nat : Starts(j) # {}}
  <2>1. 0 \in A
    <3> DEFINE g == [j \in 0 .. 0 |-> s]
    <3>1. g \in Starts(0)
      OBVIOUS
    <3> QED BY <3>1
  <2>2. ASSUME NEW j \in Nat, j \in A
        PROVE  j + 1 \in A
    <3>1. PICK g \in Starts(j) : TRUE
      BY <2>2
    <3> DEFINE h == [i \in 0 .. j + 1 |-> IF i = j + 1 THEN G[g[j]] ELSE g[i]]
    <3>2. /\ g \in [0 .. j -> S] /\ g[0] = s /\ j \in 0 .. j
          /\ \A i \in 0 .. j : i < j => g[i + 1] = G[g[i]]
      BY <3>1
    <3>3. \A i \in 0 .. j + 1 : i # j + 1 => i \in 0 .. j
      OBVIOUS
    <3>4. h \in [0 .. j + 1 -> S] /\ h[0] = s
      BY <3>2, <3>3
    <3>5. ASSUME NEW i \in 0 .. j + 1, i < j + 1
          PROVE  h[i + 1] = G[h[i]]
      <4>1. CASE i = j
        BY <4>1, <3>2
      <4>2. CASE i # j
        <5>1. i \in 0 .. j /\ i < j /\ i + 1 \in 0 .. j /\ i + 1 # j + 1
          BY <3>5, <4>2
        <5> QED BY <5>1, <3>2
      <4> QED BY <4>1, <4>2
    <3> HIDE DEF h
    <3>6. h \in Starts(j + 1)
      BY <3>4, <3>5
    <3> QED BY <3>6
  <2> HIDE DEF A
  <2>3. Nat \subseteq A
    BY <2>1, <2>2, SetInduction
  <2> QED BY <2>3 DEF A
<1>2. ASSUME NEW k \in Nat, NEW l \in Nat, NEW g \in Starts(k), NEW h \in Starts(l)
      PROVE  \A j \in Nat : j <= k /\ j <= l => g[j] = h[j]
  <2> DEFINE A == {j \in Nat : j <= k /\ j <= l => g[j] = h[j]}
  <2>1. 0 \in A
    OBVIOUS
  <2>2. ASSUME NEW j \in Nat, j \in A
        PROVE  j + 1 \in A
    <3> SUFFICES ASSUME j + 1 <= k, j + 1 <= l
                 PROVE  g[j + 1] = h[j + 1]
      OBVIOUS
    <3>1. j <= k /\ j <= l /\ j < k /\ j < l /\ j \in 0 .. k /\ j \in 0 .. l
      OBVIOUS
    <3>2. g[j] = h[j]
      BY <3>1, <2>2
    <3>3. g[j + 1] = G[g[j]] /\ h[j + 1] = G[h[j]]
      BY <3>1
    <3> QED BY <3>2, <3>3
  <2> HIDE DEF A
  <2>3. Nat \subseteq A
    BY <2>1, <2>2, SetInduction
  <2> QED BY <2>3 DEF A
<1> DEFINE start == [k \in Nat |-> CHOOSE g \in Starts(k) : TRUE]
           f == [k \in Nat |-> start[k][k]]
<1>3. \A k \in Nat : start[k] \in Starts(k)
  <2> HIDE DEF Starts
  <2> QED BY <1>1
<1> HIDE DEF start
<1>4. f \in [Nat -> S] /\ f[0] = s
  <2>1. \A k \in Nat : start[k] \in [0 .. k -> S] /\ k \in 0 .. k
    BY <1>3
  <2>2. start[0][0] = s
    BY <1>3
  <2> QED BY <2>1, <2>2
<1>5. ASSUME NEW k \in Nat
      PROVE  f[k + 1] = G[f[k]]
  <2>1. start[k] \in Starts(k) /\ start[k + 1] \in Starts(k + 1) /\ k + 1 \in Nat
    BY <1>3
  <2>2. k \in 0 .. k + 1 /\ k < k + 1 /\ k <= k /\ k <= k + 1
    OBVIOUS
  <2>3. start[k + 1][k + 1] = G[start[k + 1][k]]
    BY <2>1, <2>2
  <2>4. start[k + 1][k] = start[k][k]
    <3> HIDE DEF Starts
    <3> QED BY <2>1, <2>2, <1>2
  <2> QED BY <2>1, <2>3, <2>4
<1> HIDE DEF f
<1> QED BY <1>4, <1>5 DEF Iterations

-----------------------------------------------------------------------------
(* Sequences without some of their elements. *)

LEMMA SeqIndex ==
  ASSUME NEW S, NEW s \in Seq(S)
  PROVE  /\ Len(s) \in Nat /\ DOMAIN s = 1 .. Len(s)
         /\ \A k \in DOMAIN s : s[k] \in S
         /\ ToSet(s) = {s[k] : k \in DOMAIN s} /\ ToSet(s) \subseteq S
BY DEF ToSet

\* The positions of t that stay.
Staying(t, x) == {k \in DOMAIN t : t[k] \notin x}

\* The position of the one that is j-th then.
At(t, x, j) == CHOOSE k \in Staying(t, x) : Cardinality({i \in Staying(t, x) : i < k}) = j - 1

\* They are counted without gaps, and in order.
LEMMA StayingCount ==
  ASSUME NEW S, NEW t \in Seq(S), NEW x
  PROVE  /\ Cardinality(Staying(t, x)) \in Nat
         /\ \A j \in 1 .. Cardinality(Staying(t, x)) : At(t, x, j) \in Staying(t, x)
         /\ \A k \in Staying(t, x) : \E j \in 1 .. Cardinality(Staying(t, x)) : At(t, x, j) = k
         /\ \A j, k \in 1 .. Cardinality(Staying(t, x)) : j < k => At(t, x, j) < At(t, x, k)
<1> DEFINE K == Staying(t, x)
           Before(k) == {i \in K : i < k}
           C(k) == Cardinality(Before(k))
           N == Cardinality(K)
           f == [k \in K |-> C(k)]
<1>1. K \subseteq 1 .. Len(t) /\ Len(t) \in Nat
  BY DEF Staying
<1>2. IsFiniteSet(1 .. Len(t))
  BY <1>1, FS_Interval
<1>3. IsFiniteSet(K) /\ N \in Nat
  BY <1>1, <1>2, FS_Subset, FS_CardinalityType
<1> HIDE DEF K, N
<1>4. \A k \in K : k \in Nat
  BY <1>1
<1>5. \A k \in K : IsFiniteSet(Before(k)) /\ C(k) \in Nat
  BY <1>3, FS_Subset, FS_CardinalityType
<1>6. ASSUME NEW k \in K, NEW l \in K, k < l
      PROVE  C(k) < C(l)
  <2>1. Before(k) \subseteq Before(l) /\ k \in Before(l) /\ k \notin Before(k)
    BY <1>4, <1>6
  <2>2. C(k) <= C(l) /\ (C(k) = C(l) => Before(k) = Before(l))
    <3> HIDE DEF Before
    <3> QED BY <2>1, <1>5, FS_Subset
  <2> HIDE DEF Before
  <2> QED BY <2>1, <2>2, <1>5
<1>7. ASSUME NEW k \in K
      PROVE  C(k) < N
  <2>1. Before(k) \subseteq K /\ k \notin Before(k)
    BY <1>4
  <2>2. C(k) <= N /\ (C(k) = N => Before(k) = K)
    <3> HIDE DEF Before
    <3> QED BY <2>1, <1>3, FS_Subset DEF N
  <2> HIDE DEF Before
  <2> QED BY <2>1, <2>2, <1>3, <1>5
<1>8. \A k, l \in K : C(k) = C(l) => k = l
  <2> HIDE DEF C
  <2>1. ASSUME NEW k \in K, NEW l \in K, C(k) = C(l), k # l
        PROVE  FALSE
    <3>1. k < l \/ l < k
      BY <2>1, <1>4
    <3>2. C(k) \in Nat /\ C(l) \in Nat
      BY <1>5
    <3>3. C(k) < C(l) \/ C(l) < C(k)
      BY <3>1, <1>6
    <3> QED BY <2>1, <3>2, <3>3
  <2> QED BY <2>1
<1> HIDE DEF C
<1>9. {C(k) : k \in K} = 0 .. N - 1
  <2> DEFINE R == {C(k) : k \in K}
  <2>1. R \subseteq 0 .. N - 1
    <3>1. ASSUME NEW k \in K
          PROVE  C(k) \in 0 .. N - 1
      <4>1. C(k) \in Nat
        BY <1>5 DEF C
      <4> QED BY <4>1, <1>7, <1>3
    <3> QED BY <3>1
  <2>2. f \in Bijection(K, R)
    BY <1>8 DEF Bijection, Injection, Surjection, IsInjective
  <2>3. IsFiniteSet(R) /\ Cardinality(R) = N
    BY <1>3, <2>2, FS_Bijection DEF ExistsBijection, N
  <2>4. IsFiniteSet(0 .. N - 1) /\ Cardinality(0 .. N - 1) = N
    <3>1. N - 1 \in Int /\ (0 > N - 1 => N = 0)
      BY <1>3
    <3> QED BY <3>1, <1>3, FS_Interval
  <2>5. R = 0 .. N - 1
    <3> HIDE DEF R
    <3> QED BY <2>1, <2>3, <2>4, FS_Subset
  <2> QED BY <2>5
<1>10. \A j \in 1 .. N : j - 1 \in 0 .. N - 1
  BY <1>3
<1>11. \A j \in 1 .. N : \E k \in K : C(k) = j - 1
  BY <1>9, <1>10
<1>12. \A j \in 1 .. N : At(t, x, j) \in K /\ C(At(t, x, j)) = j - 1
  BY <1>11 DEF At, K, C, Before
<1>13. ASSUME NEW k \in K
       PROVE  \E j \in 1 .. N : At(t, x, j) = k
  <2>1. C(k) \in 0 .. N - 1
    BY <1>9
  <2>2. C(k) + 1 \in 1 .. N /\ (C(k) + 1) - 1 = C(k)
    BY <2>1, <1>3
  <2>3. At(t, x, C(k) + 1) = k
    BY <2>2, <1>12, <1>8
  <2> QED BY <2>2, <2>3
<1>14. ASSUME NEW j \in 1 .. N, NEW k \in 1 .. N, j < k
       PROVE  At(t, x, j) < At(t, x, k)
  <2> DEFINE a == At(t, x, j)
             b == At(t, x, k)
  <2>1. a \in K /\ b \in K /\ C(a) = j - 1 /\ C(b) = k - 1
    BY <1>12
  <2> HIDE DEF a, b
  <2>2. a \in Nat /\ b \in Nat /\ ~ (b < a) /\ a # b
    <3>1. ~ (C(b) < C(a)) /\ C(a) # C(b)
      BY <1>14, <2>1
    <3> QED BY <1>4, <1>6, <2>1, <3>1
  <2> QED BY <2>2 DEF a, b
<1> QED BY <1>3, <1>12, <1>13, <1>14 DEF K, N

LEMMA WithoutAtIs ==
  ASSUME NEW S, NEW s \in Seq(S), NEW T, NEW t \in Seq(T), Len(s) = Len(t), NEW x
  PROVE  /\ WithoutAt(s, t, x) \in Seq(S)
         /\ Len(WithoutAt(s, t, x)) = Cardinality(Staying(t, x))
         /\ \A j \in 1 .. Cardinality(Staying(t, x)) : WithoutAt(s, t, x)[j] = s[At(t, x, j)]
         /\ ToSet(WithoutAt(s, t, x)) = {s[k] : k \in Staying(t, x)}
<1> DEFINE N == Cardinality(Staying(t, x))
           w == WithoutAt(s, t, x)
<1>1. /\ N \in Nat
      /\ \A j \in 1 .. N : At(t, x, j) \in Staying(t, x)
      /\ \A k \in Staying(t, x) : \E j \in 1 .. N : At(t, x, j) = k
  BY StayingCount
<1>2. w = [j \in 1 .. N |-> s[At(t, x, j)]]
  BY DEF WithoutAt, Staying, At
<1>3. \A k \in Staying(t, x) : s[k] \in S
  BY DEF Staying
<1> HIDE DEF N, w
<1>4. w \in [1 .. N -> S]
  BY <1>1, <1>2, <1>3
<1>5. w \in Seq(S) /\ Len(w) = N /\ DOMAIN w = 1 .. N
  BY <1>1, <1>4
<1>6. ToSet(w) = {s[k] : k \in Staying(t, x)}
  <2>1. \A j \in 1 .. N : w[j] = s[At(t, x, j)]
    BY <1>2
  <2>2. ToSet(w) = {w[j] : j \in 1 .. N}
    BY <1>5 DEF ToSet
  <2>3. \A j \in 1 .. N : w[j] \in {s[k] : k \in Staying(t, x)}
    BY <1>1, <2>1
  <2>4. \A k \in Staying(t, x) : s[k] \in {w[j] : j \in 1 .. N}
    BY <1>1, <2>1
  <2> QED BY <2>2, <2>3, <2>4
<1> QED BY <1>2, <1>5, <1>6 DEF N, w

LEMMA WithoutIs ==
  ASSUME NEW S, NEW t \in Seq(S), NEW x
  PROVE  /\ Without(t, x) \in Seq(S)
         /\ Len(Without(t, x)) = Cardinality(Staying(t, x))
         /\ \A j \in 1 .. Cardinality(Staying(t, x)) : Without(t, x)[j] = t[At(t, x, j)]
         /\ ToSet(Without(t, x)) = ToSet(t) \ x
<1>1. /\ Without(t, x) \in Seq(S)
      /\ Len(Without(t, x)) = Cardinality(Staying(t, x))
      /\ \A j \in 1 .. Cardinality(Staying(t, x)) : Without(t, x)[j] = t[At(t, x, j)]
      /\ ToSet(Without(t, x)) = {t[k] : k \in Staying(t, x)}
  BY WithoutAtIs DEF Without
<1>2. {t[k] : k \in Staying(t, x)} = ToSet(t) \ x
  BY DEF ToSet, Staying
<1> QED BY <1>1, <1>2

\* What corresponds by position still does when the positions are removed.
LEMMA MatchesStill ==
  ASSUME NEW S, NEW s \in Seq(S), NEW T, NEW t \in Seq(T), NEW f, Matches(f, s, t), NEW x
  PROVE  /\ Matches(f, WithoutAt(s, t, x), Without(t, x))
         /\ \A e \in ToSet(s) \ ToSet(WithoutAt(s, t, x)) : f[e] \in x
<1> DEFINE N == Cardinality(Staying(t, x))
           w == WithoutAt(s, t, x)
           v == Without(t, x)
<1>1. /\ Len(s) = Len(t) /\ Len(s) \in Nat /\ DOMAIN s = DOMAIN t
      /\ \A k \in DOMAIN s : f[s[k]] = t[k]
  BY DEF Matches
<1>2. /\ w \in Seq(S) /\ Len(w) = N /\ \A j \in 1 .. N : w[j] = s[At(t, x, j)]
      /\ ToSet(w) = {s[k] : k \in Staying(t, x)}
  BY <1>1, WithoutAtIs
<1>3. v \in Seq(T) /\ Len(v) = N /\ \A j \in 1 .. N : v[j] = t[At(t, x, j)]
  BY WithoutIs
<1>4. N \in Nat /\ \A j \in 1 .. N : At(t, x, j) \in Staying(t, x)
  BY StayingCount
<1>5. \A k \in Staying(t, x) : k \in DOMAIN s
  BY <1>1 DEF Staying
<1>6. \A k \in DOMAIN s \ Staying(t, x) : t[k] \in x
  BY <1>1 DEF Staying
<1> HIDE DEF N, w, v
<1>7. Matches(f, w, v)
  <2>1. DOMAIN w = 1 .. N
    BY <1>2
  <2>2. ASSUME NEW j \in 1 .. N
        PROVE  f[w[j]] = v[j]
    BY <1>1, <1>2, <1>3, <1>4, <1>5
  <2> QED BY <1>2, <1>3, <2>1, <2>2 DEF Matches
<1>8. ASSUME NEW e \in ToSet(s) \ ToSet(w)
      PROVE  f[e] \in x
  <2>1. PICK k \in DOMAIN s : e = s[k]
    BY DEF ToSet
  <2>2. k \notin Staying(t, x)
    BY <1>2, <2>1
  <2> QED BY <1>1, <1>6, <2>1, <2>2
<1> QED BY <1>7, <1>8 DEF w, v

IsThinned(w, s, t, x) == w = WithoutAt(s, t, x)

LEMMA AlignedStill ==
  ASSUME NEW S, NEW s \in Seq(S), NEW T, NEW t \in Seq(T), NEW f, Matches(f, s, t), NEW x,
         NEW w, IsThinned(w, s, t, x)
  PROVE  /\ w \in Seq(S) /\ ToSet(w) \subseteq ToSet(s) /\ Matches(f, w, Without(t, x))
         /\ \A e \in ToSet(s) \ ToSet(w) : f[e] \in x
<1>1. Len(s) = Len(t) /\ DOMAIN s = DOMAIN t
  BY DEF Matches
<1>2. w \in Seq(S) /\ ToSet(w) = {s[k] : k \in Staying(t, x)}
  <2>1. /\ WithoutAt(s, t, x) \in Seq(S)
        /\ ToSet(WithoutAt(s, t, x)) = {s[k] : k \in Staying(t, x)}
    BY <1>1, WithoutAtIs
  <2> QED BY <2>1 DEF IsThinned
<1>3. ToSet(w) \subseteq ToSet(s)
  BY <1>1, <1>2 DEF Staying, ToSet
<1>4. /\ Matches(f, WithoutAt(s, t, x), Without(t, x))
      /\ \A e \in ToSet(s) \ ToSet(WithoutAt(s, t, x)) : f[e] \in x
  BY MatchesStill
<1> QED BY <1>2, <1>3, <1>4 DEF IsThinned

-----------------------------------------------------------------------------
(* The graph that the pass starts with. *)

AllSources == Members(Outputs) \cup Members(Arguments)
AllUses    == Members(Inputs) \cup Members(Results)

LEMMA MemberOf ==
  ASSUME NEW s, NEW x \in DOMAIN s, NEW e \in ToSet(s[x])
  PROVE  e \in Members(s)
BY DEF Members

LEMMA PlaceOf ==
  ASSUME NEW s, NEW e \in Members(s)
  PROVE  \E x \in DOMAIN s : e \in ToSet(s[x])
BY DEF Members

LEMMA OnePlace ==
  ASSUME NEW s, Distinct(s), NEW x \in DOMAIN s, NEW y \in DOMAIN s,
         NEW e \in ToSet(s[x]), e \in ToSet(s[y])
  PROVE  x = y
BY DEF ToSet, Distinct

LEMMA OneIndex ==
  ASSUME NEW s, Distinct(s), NEW x \in DOMAIN s,
         NEW j \in DOMAIN s[x], NEW k \in DOMAIN s[x], s[x][j] = s[x][k]
  PROVE  j = k
BY DEF Distinct

LEMMA Places ==
  /\ DOMAIN Inputs = Nodes /\ DOMAIN Outputs = Nodes /\ DOMAIN Subregions = Nodes
  /\ DOMAIN Arguments = Regions /\ DOMAIN Results = Regions
  /\ Distinct(Inputs) /\ Distinct(Outputs) /\ Distinct(Arguments) /\ Distinct(Results)
  /\ Distinct(Subregions)
  /\ \A n \in Nodes : /\ Inputs[n] \in Seq(Members(Inputs))
                      /\ Outputs[n] \in Seq(Members(Outputs))
                      /\ Subregions[n] \in Seq(Regions \ {Root})
                      /\ RegionOf[n] \in Regions
  /\ \A r \in Regions : /\ Arguments[r] \in Seq(Members(Arguments))
                        /\ Results[r] \in Seq(Members(Results))
BY OwnershipAssumption

LEMMA OwnerIs ==
  ASSUME NEW n \in Nodes, NEW r \in ToSet(Subregions[n])
  PROVE  r \in Regions \ {Root} /\ Owner[r] = n
<1>1. r \in Regions \ {Root}
  BY Places, SeqIndex
<1>2. \A m \in Nodes : r \in ToSet(Subregions[m]) => m = n
  BY Places, OnePlace
<1> QED BY <1>1, <1>2 DEF Owner

LEMMA OwnerOf ==
  ASSUME NEW r \in Regions \ {Root}
  PROVE  Owner[r] \in Nodes /\ r \in ToSet(Subregions[Owner[r]])
<1>1. \E n \in Nodes : r \in ToSet(Subregions[n])
  BY OwnershipAssumption, PlaceOf
<1> QED BY <1>1 DEF Owner

LEMMA InsideIs ==
  ASSUME NEW n \in Nodes
  PROVE  /\ Inside[n] \subseteq Regions \ {Root}
         /\ \A q \in Regions \ {Root} :
              q \in Inside[n] <=> Owner[q] = n \/ RegionOf[Owner[q]] \in Inside[n]
         /\ \A S \in SUBSET Regions :
              (\A q \in Regions \ {Root} : Owner[q] = n \/ RegionOf[Owner[q]] \in S => q \in S)
                => Inside[n] \subseteq S
<1> DEFINE Closed(S) == \A q \in Regions \ {Root} :
                          Owner[q] = n \/ RegionOf[Owner[q]] \in S => q \in S
           I == Inside[n]
<1>1. I = {r \in Regions : \A S \in SUBSET Regions : Closed(S) => r \in S}
  BY DEF Inside
<1> HIDE DEF I
<1>2. \A S \in SUBSET Regions : Closed(S) => I \subseteq S
  BY <1>1
<1>3. Closed(I)
  <2> SUFFICES ASSUME NEW q \in Regions \ {Root}, Owner[q] = n \/ RegionOf[Owner[q]] \in I,
                      NEW S \in SUBSET Regions, Closed(S)
               PROVE  q \in S
    BY <1>1
  <2> QED BY <1>2
<1>4. I \subseteq Regions
  BY <1>1
<1>5. I \subseteq Regions \ {Root}
  <2>1. Regions \ {Root} \in SUBSET Regions /\ Closed(Regions \ {Root})
    OBVIOUS
  <2> HIDE DEF Closed
  <2> QED BY <1>2, <2>1
<1>6. ASSUME NEW q \in I
      PROVE  Owner[q] = n \/ RegionOf[Owner[q]] \in I
  <2> SUFFICES ASSUME Owner[q] # n, RegionOf[Owner[q]] \notin I
               PROVE  FALSE
    OBVIOUS
  <2> DEFINE S == I \ {q}
  <2>1. Closed(S) /\ S \in SUBSET Regions
    BY <1>3, <1>4
  <2>2. I \subseteq S
    <3> HIDE DEF Closed, S
    <3> QED BY <1>2, <2>1
  <2> QED BY <2>2
<1> QED BY <1>2, <1>3, <1>5, <1>6 DEF I

LEMMA MatchesIs ==
  ASSUME NEW S, NEW s \in Seq(S), NEW T, NEW t \in Seq(T), NEW f, Matches(f, s, t)
  PROVE  /\ \A e \in ToSet(s) : f[e] \in ToSet(t)
         /\ \A y \in ToSet(t) : \E e \in ToSet(s) : f[e] = y
BY DEF Matches, ToSet

LEMMA MatchesOnce ==
  ASSUME NEW S, NEW s \in Seq(S), NEW T, NEW t \in Seq(T), NEW f, Matches(f, s, t),
         \A j, k \in DOMAIN t : t[j] = t[k] => j = k
  PROVE  \A d, e \in ToSet(s) : f[d] = f[e] => d = e
BY DEF Matches, ToSet

LEMMA GammaIs ==
  ASSUME NEW n \in Nodes, Kind[n] = "gamma"
  PROVE  /\ Inputs[n] # << >> /\ Subregions[n] # << >>
         /\ \A r \in ToSet(Subregions[n]) :
              /\ Matches(InputOf, Arguments[r], Tail(Inputs[n]))
              /\ Matches(OutputOf, Results[r], Outputs[n])
              /\ \A a \in ToSet(Arguments[r]) : InputOf[a] \in ToSet(Tail(Inputs[n]))
              /\ \A u \in ToSet(Results[r]) : OutputOf[u] \in ToSet(Outputs[n])
         /\ ToSet(Tail(Inputs[n])) = ToSet(Inputs[n]) \ {Inputs[n][1]}
         /\ Inputs[n][1] \in ToSet(Inputs[n])
         /\ Tail(Inputs[n]) \in Seq(Members(Inputs))
<1>1. /\ Inputs[n] # << >> /\ Subregions[n] # << >>
      /\ \A r \in ToSet(Subregions[n]) : /\ Matches(InputOf, Arguments[r], Tail(Inputs[n]))
                                         /\ Matches(OutputOf, Results[r], Outputs[n])
  BY KindAssumption
<1>2. /\ Inputs[n] \in Seq(Members(Inputs)) /\ Outputs[n] \in Seq(Members(Outputs))
      /\ \A j, k \in DOMAIN Inputs[n] : Inputs[n][j] = Inputs[n][k] => j = k
  BY Places, OneIndex
<1>3. Tail(Inputs[n]) \in Seq(Members(Inputs))
  BY <1>1, <1>2
<1>4. /\ ToSet(Tail(Inputs[n])) = ToSet(Inputs[n]) \ {Inputs[n][1]}
      /\ Inputs[n][1] \in ToSet(Inputs[n])
  <2>1. /\ Len(Inputs[n]) \in Nat \ {0} /\ Len(Tail(Inputs[n])) = Len(Inputs[n]) - 1
        /\ \A k \in 1 .. Len(Inputs[n]) - 1 : Tail(Inputs[n])[k] = Inputs[n][k + 1]
    BY <1>1, <1>2
  <2>2. \A k \in 1 .. Len(Inputs[n]) : k = 1 \/ (k - 1 \in 1 .. Len(Inputs[n]) - 1 /\ (k - 1) + 1 = k)
    BY <2>1
  <2>3. DOMAIN Inputs[n] = 1 .. Len(Inputs[n]) /\ DOMAIN Tail(Inputs[n]) = 1 .. Len(Inputs[n]) - 1
    BY <1>2, <1>3, <2>1
  <2>4. \A k \in 1 .. Len(Inputs[n]) - 1 : k + 1 \in 1 .. Len(Inputs[n]) /\ k + 1 # 1
    BY <2>1
  <2>5. ASSUME NEW e \in ToSet(Tail(Inputs[n]))
        PROVE  e \in ToSet(Inputs[n]) \ {Inputs[n][1]}
    BY <1>2, <2>1, <2>3, <2>4 DEF ToSet
  <2>6. ASSUME NEW e \in ToSet(Inputs[n]) \ {Inputs[n][1]}
        PROVE  e \in ToSet(Tail(Inputs[n]))
    <3>1. PICK k \in 1 .. Len(Inputs[n]) : e = Inputs[n][k]
      BY <2>3 DEF ToSet
    <3>2. k # 1
      BY <3>1, <2>6
    <3>3. k - 1 \in DOMAIN Tail(Inputs[n]) /\ Tail(Inputs[n])[k - 1] = e
      BY <2>1, <2>2, <2>3, <3>1, <3>2
    <3> QED BY <3>3 DEF ToSet
  <2>7. Inputs[n][1] \in ToSet(Inputs[n])
    <3>1. 1 \in DOMAIN Inputs[n]
      BY <2>1, <2>3
    <3> QED BY <3>1 DEF ToSet
  <2> QED BY <2>5, <2>6, <2>7
<1>5. ASSUME NEW r \in ToSet(Subregions[n])
      PROVE  /\ \A a \in ToSet(Arguments[r]) : InputOf[a] \in ToSet(Tail(Inputs[n]))
             /\ \A u \in ToSet(Results[r]) : OutputOf[u] \in ToSet(Outputs[n])
  <2>1. Arguments[r] \in Seq(Members(Arguments)) /\ Results[r] \in Seq(Members(Results))
    BY Places, OwnerIs
  <2> QED BY <1>1, <1>2, <1>3, <2>1, MatchesIs
<1> QED BY <1>1, <1>3, <1>4, <1>5

LEMMA BodyIs ==
  ASSUME NEW n \in Nodes, Kind[n] \in {"theta", "lambda", "delta", "phi"}
  PROVE  /\ Body(n) \in Regions \ {Root} /\ ToSet(Subregions[n]) = {Body(n)}
         /\ Owner[Body(n)] = n
         /\ Arguments[Body(n)] \in Seq(Members(Arguments))
         /\ Results[Body(n)] \in Seq(Members(Results))
<1>1. Len(Subregions[n]) = 1
  BY KindAssumption
<1>2. Subregions[n] \in Seq(Regions \ {Root})
  BY Places
<1>3. ToSet(Subregions[n]) = {Body(n)}
  BY <1>1, <1>2 DEF ToSet, Body
<1> QED BY <1>3, OwnerIs, Places

LEMMA ThetaIs ==
  ASSUME NEW n \in Nodes, Kind[n] = "theta"
  PROVE  /\ \A i \in ToSet(Inputs[n]) :
              /\ LoopOutput[i] \in ToSet(Outputs[n])
              /\ \A j \in ToSet(Inputs[n]) : LoopOutput[i] = LoopOutput[j] => i = j
              /\ \E a \in ToSet(Arguments[Body(n)]) : InputOf[a] = i
         /\ \A o \in ToSet(Outputs[n]) : \E i \in ToSet(Inputs[n]) : LoopOutput[i] = o
         /\ \A a \in ToSet(Arguments[Body(n)]) :
              /\ InputOf[a] \in ToSet(Inputs[n])
              /\ \A b \in ToSet(Arguments[Body(n)]) : InputOf[a] = InputOf[b] => a = b
         /\ \A u \in ToSet(Results[Body(n)]) : OutputOf[u] \in ToSet(Outputs[n]) \cup {None}
         /\ Results[Body(n)][1] \in ToSet(Results[Body(n)])
         /\ OutputOf[Results[Body(n)][1]] = None
         /\ \A o \in ToSet(Outputs[n]) : \E u \in ToSet(Results[Body(n)]) : OutputOf[u] = o
         /\ \A u, v \in ToSet(Results[Body(n)]) : OutputOf[u] = OutputOf[v] => u = v
<1> DEFINE B == Body(n)
           R == << None >> \o Outputs[n]
<1>1. /\ Matches(LoopOutput, Inputs[n], Outputs[n])
      /\ Matches(InputOf, Arguments[B], Inputs[n])
      /\ Matches(OutputOf, Results[B], R)
  BY KindAssumption
<1>2. /\ Inputs[n] \in Seq(Members(Inputs)) /\ Outputs[n] \in Seq(Members(Outputs))
      /\ Arguments[B] \in Seq(Members(Arguments)) /\ Results[B] \in Seq(Members(Results))
      /\ \A j, k \in DOMAIN Inputs[n] : Inputs[n][j] = Inputs[n][k] => j = k
      /\ \A j, k \in DOMAIN Outputs[n] : Outputs[n][j] = Outputs[n][k] => j = k
  BY Places, OneIndex, BodyIs
<1>3. /\ R \in Seq(Members(Outputs) \cup {None}) /\ ToSet(R) = ToSet(Outputs[n]) \cup {None}
      /\ \A j, k \in DOMAIN R : R[j] = R[k] => j = k
      /\ Len(R) = Len(Outputs[n]) + 1 /\ R[1] = None
  <2>1. /\ R \in Seq(Members(Outputs) \cup {None}) /\ Len(R) = Len(Outputs[n]) + 1 /\ R[1] = None
        /\ \A k \in 1 .. Len(Outputs[n]) : R[k + 1] = Outputs[n][k]
    BY <1>2
  <2>2. /\ DOMAIN R = 1 .. Len(Outputs[n]) + 1 /\ DOMAIN Outputs[n] = 1 .. Len(Outputs[n])
        /\ Len(Outputs[n]) \in Nat
    BY <1>2, <2>1
  <2>3. None \notin ToSet(Outputs[n]) /\ \A k \in DOMAIN Outputs[n] : Outputs[n][k] # None
    BY <1>2, SeqIndex, OwnershipAssumption
  <2> HIDE DEF R
  <2>4. \A k \in DOMAIN R : k = 1 \/ (k - 1 \in DOMAIN Outputs[n] /\ R[k] = Outputs[n][k - 1])
    <3>1. \A k \in DOMAIN R : k = 1 \/ (k - 1 \in DOMAIN Outputs[n] /\ (k - 1) + 1 = k)
      BY <2>2
    <3> QED BY <3>1, <2>1, <2>2
  <2>5. ASSUME NEW j \in DOMAIN R, NEW k \in DOMAIN R, R[j] = R[k]
        PROVE  j = k
    <3>1. CASE j = 1 \/ k = 1
      <4>1. R[j] = None /\ R[k] = None
        BY <3>1, <2>1, <2>5
      <4> QED BY <4>1, <2>3, <2>4
    <3>2. CASE j # 1 /\ k # 1
      <4>1. j - 1 \in DOMAIN Outputs[n] /\ k - 1 \in DOMAIN Outputs[n]
        BY <3>2, <2>4
      <4>2. Outputs[n][j - 1] = Outputs[n][k - 1]
        BY <3>2, <2>4, <2>5
      <4>3. j - 1 = k - 1
        BY <4>1, <4>2, <1>2
      <4> QED BY <4>3, <2>2
    <3> QED BY <3>1, <3>2
  <2>6. ToSet(R) = ToSet(Outputs[n]) \cup {None}
    <3>1. \A k \in DOMAIN Outputs[n] : k + 1 \in DOMAIN R /\ R[k + 1] = Outputs[n][k]
      BY <2>1, <2>2
    <3>2. 1 \in DOMAIN R
      BY <2>2
    <3>3. \A k \in DOMAIN R : R[k] \in ToSet(Outputs[n]) \cup {None}
      BY <2>1, <2>4 DEF ToSet
    <3>4. \A k \in DOMAIN Outputs[n] : Outputs[n][k] \in ToSet(R)
      BY <3>1 DEF ToSet
    <3>5. None \in ToSet(R)
      BY <3>2, <2>1 DEF ToSet
    <3> QED BY <3>3, <3>4, <3>5 DEF ToSet
  <2> QED BY <2>1, <2>5, <2>6
<1>4. Results[B][1] \in ToSet(Results[B]) /\ OutputOf[Results[B][1]] = None
  <2>1. Len(Results[B]) = Len(Outputs[n]) + 1 /\ \A k \in DOMAIN Results[B] : OutputOf[Results[B][k]] = R[k]
    BY <1>1, <1>3 DEF Matches
  <2>2. 1 \in DOMAIN Results[B]
    <3> HIDE DEF B
    <3> QED BY <1>2, <2>1
  <2> HIDE DEF R
  <2> QED BY <2>1, <2>2, <1>3 DEF ToSet
<1> HIDE DEF B, R
<1>5. /\ \A i \in ToSet(Inputs[n]) :
           /\ LoopOutput[i] \in ToSet(Outputs[n])
           /\ \A j \in ToSet(Inputs[n]) : LoopOutput[i] = LoopOutput[j] => i = j
      /\ \A o \in ToSet(Outputs[n]) : \E i \in ToSet(Inputs[n]) : LoopOutput[i] = o
  <2>1. /\ \A i \in ToSet(Inputs[n]) : LoopOutput[i] \in ToSet(Outputs[n])
        /\ \A o \in ToSet(Outputs[n]) : \E i \in ToSet(Inputs[n]) : LoopOutput[i] = o
    BY <1>1, <1>2, MatchesIs
  <2>2. \A i, j \in ToSet(Inputs[n]) : LoopOutput[i] = LoopOutput[j] => i = j
    BY <1>1, <1>2, MatchesOnce
  <2> QED BY <2>1, <2>2
<1>6. /\ \A a \in ToSet(Arguments[B]) :
           /\ InputOf[a] \in ToSet(Inputs[n])
           /\ \A b \in ToSet(Arguments[B]) : InputOf[a] = InputOf[b] => a = b
      /\ \A i \in ToSet(Inputs[n]) : \E a \in ToSet(Arguments[B]) : InputOf[a] = i
  <2>1. /\ \A a \in ToSet(Arguments[B]) : InputOf[a] \in ToSet(Inputs[n])
        /\ \A i \in ToSet(Inputs[n]) : \E a \in ToSet(Arguments[B]) : InputOf[a] = i
    BY <1>1, <1>2, MatchesIs
  <2>2. \A a, b \in ToSet(Arguments[B]) : InputOf[a] = InputOf[b] => a = b
    BY <1>1, <1>2, MatchesOnce
  <2> QED BY <2>1, <2>2
<1>7. /\ \A u \in ToSet(Results[B]) : OutputOf[u] \in ToSet(R)
      /\ \A o \in ToSet(R) : \E u \in ToSet(Results[B]) : OutputOf[u] = o
  <2>1. /\ Results[B] \in Seq(Members(Results)) /\ R \in Seq(Members(Outputs) \cup {None})
        /\ Matches(OutputOf, Results[B], R)
    BY <1>1, <1>2, <1>3
  <2> QED BY <2>1, MatchesIs
<1>8. \A u, v \in ToSet(Results[B]) : OutputOf[u] = OutputOf[v] => u = v
  <2>1. /\ Results[B] \in Seq(Members(Results)) /\ R \in Seq(Members(Outputs) \cup {None})
        /\ Matches(OutputOf, Results[B], R) /\ \A j, k \in DOMAIN R : R[j] = R[k] => j = k
    BY <1>1, <1>2, <1>3
  <2> QED BY <2>1, MatchesOnce
<1> QED BY <1>3, <1>4, <1>5, <1>6, <1>7, <1>8 DEF B

LEMMA Kinds ==
  ASSUME NEW n \in Nodes
  PROVE  /\ Kind[n] \in {"simple", "gamma", "theta", "lambda", "delta", "phi"}
         /\ Kind[n] = "simple" => ToSet(Subregions[n]) = {}
<1>1. /\ Kind[n] \in {"simple", "gamma", "theta", "lambda", "delta", "phi"}
      /\ Kind[n] = "simple" => Subregions[n] = << >>
  BY KindAssumption
<1>2. ToSet(<< >>) = {}
  BY DEF ToSet
<1> QED BY <1>1, <1>2

\* What lambdas, deltas and phis are made of.
LEMMA ContextIs ==
  ASSUME NEW n \in Nodes, Kind[n] \in {"lambda", "delta", "phi"}
  PROVE  /\ \A a, b \in ToSet(Arguments[Body(n)]) :
              InputOf[a] \in ToSet(Inputs[n]) \cup {None}
                /\ (InputOf[a] = InputOf[b] /\ InputOf[a] # None => a = b)
         /\ Kind[n] \in {"lambda", "delta"} =>
              \A u \in ToSet(Results[Body(n)]) : OutputOf[u] = None
         /\ Kind[n] = "delta" =>
              /\ ToSet(Results[Body(n)]) = {Results[Body(n)][1]}
              /\ \A a \in ToSet(Arguments[Body(n)]) : InputOf[a] # None
<1>1. /\ \A a, b \in ToSet(Arguments[Body(n)]) :
           InputOf[a] \in ToSet(Inputs[n]) \cup {None}
             /\ (InputOf[a] = InputOf[b] /\ InputOf[a] # None => a = b)
      /\ Kind[n] \in {"lambda", "delta"} =>
           \A u \in ToSet(Results[Body(n)]) : OutputOf[u] = None
      /\ Kind[n] = "delta" =>
           /\ Len(Results[Body(n)]) = 1
           /\ \A a \in ToSet(Arguments[Body(n)]) : InputOf[a] # None
  BY KindAssumption
<1>2. ASSUME Len(Results[Body(n)]) = 1
      PROVE  ToSet(Results[Body(n)]) = {Results[Body(n)][1]}
  <2>1. Results[Body(n)] \in Seq(Members(Results))
    BY BodyIs
  <2> QED BY <2>1, <1>2 DEF ToSet
<1>3. Kind[n] = "delta" =>
        /\ ToSet(Results[Body(n)]) = {Results[Body(n)][1]}
        /\ \A a \in ToSet(Arguments[Body(n)]) : InputOf[a] # None
  BY <1>1, <1>2
<1>4. Kind[n] \in {"lambda", "delta"} => \A u \in ToSet(Results[Body(n)]) : OutputOf[u] = None
  BY <1>1
<1>5. \A a, b \in ToSet(Arguments[Body(n)]) :
        InputOf[a] \in ToSet(Inputs[n]) \cup {None}
          /\ (InputOf[a] = InputOf[b] /\ InputOf[a] # None => a = b)
  BY <1>1
<1> QED BY <1>3, <1>4, <1>5

LEMMA PhiIs ==
  ASSUME NEW n \in Nodes, Kind[n] = "phi"
  PROVE  /\ Matches(OutputOf, Results[Body(n)], Outputs[n])
         /\ \A u \in ToSet(Results[Body(n)]) : OutputOf[u] \in ToSet(Outputs[n])
         /\ \A o \in ToSet(Outputs[n]) : \E u \in ToSet(Results[Body(n)]) : OutputOf[u] = o
         /\ \A u, v \in ToSet(Results[Body(n)]) : OutputOf[u] = OutputOf[v] => u = v
         /\ {a \in ToSet(Arguments[Body(n)]) : InputOf[a] = None}
              = {RecArgument[o] : o \in ToSet(Outputs[n])}
<1>1. /\ Matches(OutputOf, Results[Body(n)], Outputs[n])
      /\ {a \in ToSet(Arguments[Body(n)]) : InputOf[a] = None}
           = {RecArgument[o] : o \in ToSet(Outputs[n])}
  BY KindAssumption
<1>2. /\ Results[Body(n)] \in Seq(Members(Results)) /\ Outputs[n] \in Seq(Members(Outputs))
      /\ \A j, k \in DOMAIN Outputs[n] : Outputs[n][j] = Outputs[n][k] => j = k
  BY BodyIs, Places, OneIndex
<1>3. /\ \A u \in ToSet(Results[Body(n)]) : OutputOf[u] \in ToSet(Outputs[n])
      /\ \A o \in ToSet(Outputs[n]) : \E u \in ToSet(Results[Body(n)]) : OutputOf[u] = o
  BY <1>1, <1>2, MatchesIs
<1>4. \A u, v \in ToSet(Results[Body(n)]) : OutputOf[u] = OutputOf[v] => u = v
  BY <1>1, <1>2, MatchesOnce
<1> QED BY <1>1, <1>3, <1>4

LEMMA ArgumentOf ==
  ASSUME NEW n \in Nodes, NEW r \in ToSet(Subregions[n]), NEW a \in ToSet(Arguments[r])
  PROVE  InputOf[a] \in ToSet(Inputs[n]) \cup {None}
<1>1. CASE Kind[n] = "gamma"
  BY <1>1, GammaIs
<1>2. CASE Kind[n] = "theta"
  <2>1. r = Body(n)
    BY <1>2, BodyIs
  <2> QED BY <2>1, <1>2, ThetaIs
<1>3. CASE Kind[n] \in {"lambda", "delta", "phi"}
  <2>1. r = Body(n)
    BY <1>3, BodyIs
  <2> QED BY <2>1, <1>3, ContextIs
<1> QED BY <1>1, <1>2, <1>3, Kinds

LEMMA ResultOf ==
  ASSUME NEW n \in Nodes, NEW r \in ToSet(Subregions[n]), NEW u \in ToSet(Results[r])
  PROVE  OutputOf[u] \in ToSet(Outputs[n]) \cup {None}
<1>1. CASE Kind[n] = "gamma"
  BY <1>1, GammaIs
<1>2. CASE Kind[n] = "theta"
  <2>1. r = Body(n)
    BY <1>2, BodyIs
  <2> QED BY <2>1, <1>2, ThetaIs
<1>3. CASE Kind[n] \in {"lambda", "delta"}
  <2>1. r = Body(n)
    BY <1>3, BodyIs
  <2> QED BY <2>1, <1>3, ContextIs
<1>4. CASE Kind[n] = "phi"
  <2>1. r = Body(n)
    BY <1>4, BodyIs
  <2> QED BY <2>1, <1>4, PhiIs
<1> QED BY <1>1, <1>2, <1>3, <1>4, Kinds

\* Only the arguments of a node's own regions stand for its inputs, and only
\* their results give a value to its outputs.
LEMMA ArgumentPlace ==
  ASSUME NEW n \in Nodes, NEW r \in Regions, NEW a \in ToSet(Arguments[r]),
         InputOf[a] \in ToSet(Inputs[n])
  PROVE  r \in ToSet(Subregions[n])
<1>1. InputOf[a] # None /\ InputOf[a] \in Members(Inputs)
  BY OwnershipAssumption, MemberOf, Places
<1>2. r # Root
  BY <1>1, KindAssumption
<1>3. Owner[r] \in Nodes /\ r \in ToSet(Subregions[Owner[r]])
  BY <1>2, OwnerOf
<1>4. InputOf[a] \in ToSet(Inputs[Owner[r]])
  BY <1>1, <1>3, ArgumentOf
<1>5. Owner[r] = n
  BY <1>3, <1>4, Places, OnePlace
<1> QED BY <1>3, <1>5

LEMMA ResultPlace ==
  ASSUME NEW n \in Nodes, NEW r \in Regions, NEW u \in ToSet(Results[r]),
         OutputOf[u] \in ToSet(Outputs[n])
  PROVE  r \in ToSet(Subregions[n])
<1>1. OutputOf[u] # None /\ OutputOf[u] \in Members(Outputs)
  BY OwnershipAssumption, MemberOf, Places
<1>2. r # Root
  BY <1>1, KindAssumption
<1>3. Owner[r] \in Nodes /\ r \in ToSet(Subregions[Owner[r]])
  BY <1>2, OwnerOf
<1>4. OutputOf[u] \in ToSet(Outputs[Owner[r]])
  BY <1>1, <1>3, ResultOf
<1>5. Owner[r] = n
  BY <1>3, <1>4, Places, OnePlace
<1> QED BY <1>3, <1>5

-----------------------------------------------------------------------------
(* What a value is computed from. *)

LEMMA FeedsOut ==
  ASSUME NEW n \in Nodes, NEW s \in ToSet(Outputs[n])
  PROVE  s \in Members(Outputs) /\ Feeds[s] = OutputFeeds(n, s)
<1>1. s \in Members(Outputs)
  BY Places, MemberOf
<1>2. \A m \in Nodes : s \in ToSet(Outputs[m]) => m = n
  BY Places, OnePlace
<1>3. (CHOOSE m \in Nodes : s \in ToSet(Outputs[m])) = n
  BY <1>2
<1> QED BY <1>1, <1>3 DEF Feeds

LEMMA FeedsArgument ==
  ASSUME NEW r \in Regions, NEW s \in ToSet(Arguments[r])
  PROVE  /\ s \in Members(Arguments) /\ s \notin Members(Outputs)
         /\ Feeds[s] = ArgumentFeeds(r, s)
<1>1. s \in Members(Arguments)
  BY Places, MemberOf
<1>2. s \notin Members(Outputs)
  BY <1>1, OwnershipAssumption
<1>3. \A q \in Regions : s \in ToSet(Arguments[q]) => q = r
  BY Places, OnePlace
<1>4. (CHOOSE q \in Regions : s \in ToSet(Arguments[q])) = r
  BY <1>3
<1> QED BY <1>1, <1>2, <1>4 DEF Feeds

\* The output, the input and the arguments of a loop variable have the same feeds.
LEMMA LoopUsesIs ==
  ASSUME NEW n \in Nodes, Kind[n] = "theta", NEW i \in ToSet(Inputs[n]), NEW s,
         s = LoopOutput[i] \/ (s \in ToSet(Arguments[Body(n)]) /\ InputOf[s] = i)
  PROVE  LoopUses(n, s) = {i, Results[Body(n)][1]}
                            \cup {u \in ToSet(Results[Body(n)]) : OutputOf[u] = LoopOutput[i]}
<1> DEFINE Of(j) == s = LoopOutput[j] \/ s \in {a \in DOMAIN InputOf : InputOf[a] = j}
<1>1. LoopOutput[i] \in ToSet(Outputs[n])
  BY ThetaIs
<1>2. LoopOutput[i] \in Members(Outputs)
  BY <1>1, Places, MemberOf
<1>3. Body(n) \in Regions
  BY BodyIs
<1>4. \A a \in ToSet(Arguments[Body(n)]) : a \in DOMAIN InputOf
  BY <1>3, KindAssumption, Places, MemberOf
<1>5. LoopOutput[i] \notin DOMAIN InputOf
  BY <1>2, KindAssumption, OwnershipAssumption
<1>6. Of(i)
  BY <1>4
<1>7. ASSUME NEW j \in ToSet(Inputs[n]), Of(j)
      PROVE  j = i
  <2>1. CASE s = LoopOutput[i]
    BY <2>1, <1>5, <1>7, ThetaIs
  <2>2. CASE s \in ToSet(Arguments[Body(n)]) /\ InputOf[s] = i
    <3>1. LoopOutput[j] \in Members(Outputs)
      BY ThetaIs, Places, MemberOf
    <3>2. s # LoopOutput[j]
      BY <2>2, <3>1, <1>3, FeedsArgument
    <3> QED BY <2>2, <3>2, <1>7
  <2> QED BY <2>1, <2>2
<1>8. (CHOOSE j \in ToSet(Inputs[n]) : Of(j)) = i
  <2> HIDE DEF Of
  <2> QED BY <1>6, <1>7
<1> QED BY <1>8 DEF LoopUses

\* What gives an output of n its value in the regions of n.
Giving(n, s) == UNION {{u \in ToSet(Results[r]) : OutputOf[u] = s} : r \in ToSet(Subregions[n])}

LEMMA GivingIs ==
  ASSUME NEW n \in Nodes, NEW s \in ToSet(Outputs[n])
  PROVE  {u \in Members(Results) : OutputOf[u] = s} = Giving(n, s)
<1>1. ASSUME NEW u \in Members(Results), OutputOf[u] = s
      PROVE  u \in Giving(n, s)
  <2>1. PICK r \in Regions : u \in ToSet(Results[r])
    BY Places, PlaceOf
  <2>2. r \in ToSet(Subregions[n])
    BY <2>1, <1>1, ResultPlace
  <2> QED BY <2>1, <2>2, <1>1 DEF Giving
<1>2. ASSUME NEW u \in Giving(n, s)
      PROVE  u \in Members(Results) /\ OutputOf[u] = s
  <2>1. PICK r \in ToSet(Subregions[n]) : u \in ToSet(Results[r]) /\ OutputOf[u] = s
    BY DEF Giving
  <2>2. r \in Regions
    BY OwnerIs
  <2> QED BY <2>1, <2>2, Places, MemberOf
<1> QED BY <1>1, <1>2

\* The uses that feed the loop variable with input i of theta n.
LoopFeeds(n, i) ==
  {i, Results[Body(n)][1]} \cup {u \in ToSet(Results[Body(n)]) : OutputOf[u] = LoopOutput[i]}

LEMMA OutputFeedsAre ==
  ASSUME NEW n \in Nodes, NEW s \in ToSet(Outputs[n])
  PROVE  /\ Kind[n] = "simple" => Feeds[s] = ToSet(Inputs[n])
         /\ Kind[n] = "gamma" => Feeds[s] = {Inputs[n][1]} \cup Giving(n, s)
         /\ Kind[n] = "theta" => \E i \in ToSet(Inputs[n]) :
                                   LoopOutput[i] = s /\ Feeds[s] = LoopFeeds(n, i)
         /\ Kind[n] \in {"lambda", "delta"} => Feeds[s] = ToSet(Results[Body(n)])
         /\ Kind[n] = "phi" => Feeds[s] = Giving(n, s)
<1>1. Feeds[s] = OutputFeeds(n, s) /\ {u \in Members(Results) : OutputOf[u] = s} = Giving(n, s)
  BY FeedsOut, GivingIs
<1>2. ASSUME Kind[n] = "simple" PROVE Feeds[s] = ToSet(Inputs[n])
  BY <1>1, <1>2 DEF OutputFeeds
<1>3. ASSUME Kind[n] = "gamma" PROVE Feeds[s] = {Inputs[n][1]} \cup Giving(n, s)
  BY <1>1, <1>3 DEF OutputFeeds
<1>4. ASSUME Kind[n] = "theta"
      PROVE  \E i \in ToSet(Inputs[n]) : LoopOutput[i] = s /\ Feeds[s] = LoopFeeds(n, i)
  <2>1. PICK i \in ToSet(Inputs[n]) : LoopOutput[i] = s
    BY <1>4, ThetaIs
  <2>2. Feeds[s] = LoopUses(n, s)
    BY <1>1, <1>4 DEF OutputFeeds
  <2>3. LoopUses(n, s) = LoopFeeds(n, i)
    BY <1>4, <2>1, LoopUsesIs DEF LoopFeeds
  <2> QED BY <2>1, <2>2, <2>3
<1>5. ASSUME Kind[n] \in {"lambda", "delta"} PROVE Feeds[s] = ToSet(Results[Body(n)])
  BY <1>1, <1>5 DEF OutputFeeds
<1>6. ASSUME Kind[n] = "phi" PROVE Feeds[s] = Giving(n, s)
  BY <1>1, <1>6 DEF OutputFeeds
<1> QED BY <1>2, <1>3, <1>4, <1>5, <1>6

LEMMA ArgumentFeedsAre ==
  ASSUME NEW n \in Nodes, NEW r \in ToSet(Subregions[n]), NEW s \in ToSet(Arguments[r])
  PROVE  /\ Kind[n] = "theta" => /\ InputOf[s] \in ToSet(Inputs[n])
                                 /\ Feeds[s] = LoopFeeds(n, InputOf[s])
         /\ Kind[n] # "theta" /\ InputOf[s] # None => Feeds[s] = {InputOf[s]}
         /\ InputOf[s] = None => Kind[n] \in {"lambda", "phi"}
         /\ Kind[n] = "lambda" /\ InputOf[s] = None => Feeds[s] = {}
         /\ Kind[n] = "phi" /\ InputOf[s] = None =>
              \E o \in ToSet(Outputs[n]) : RecArgument[o] = s
         /\ \A u \in Feeds[s] : Kind[n] = "phi" /\ InputOf[s] = None =>
              \E o \in ToSet(Outputs[n]) : RecArgument[o] = s /\ u \in Giving(n, o)
         /\ \A o \in ToSet(Outputs[n]) : Kind[n] = "phi" /\ InputOf[s] = None =>
              (RecArgument[o] = s => Giving(n, o) \subseteq Feeds[s])
<1>1. r \in Regions \ {Root} /\ Owner[r] = n
  BY OwnerIs
<1>2. Feeds[s] = ArgumentFeeds(r, s)
  BY <1>1, FeedsArgument
<1>3. ASSUME Kind[n] = "theta"
      PROVE  InputOf[s] \in ToSet(Inputs[n]) /\ Feeds[s] = LoopFeeds(n, InputOf[s])
  <2>1. r = Body(n)
    BY <1>3, BodyIs
  <2>2. InputOf[s] \in ToSet(Inputs[n])
    BY <1>3, <2>1, ThetaIs
  <2>3. LoopUses(n, s) = LoopFeeds(n, InputOf[s])
    BY <1>3, <2>1, <2>2, LoopUsesIs DEF LoopFeeds
  <2>4. Feeds[s] = LoopUses(n, s)
    BY <1>1, <1>2, <1>3 DEF ArgumentFeeds
  <2> QED BY <2>2, <2>3, <2>4
<1>4. ASSUME Kind[n] # "theta", InputOf[s] # None
      PROVE  Feeds[s] = {InputOf[s]}
  BY <1>1, <1>2, <1>4 DEF ArgumentFeeds
<1>5. ASSUME InputOf[s] = None
      PROVE  Kind[n] \in {"lambda", "phi"}
  <2>1. None \notin ToSet(Inputs[n])
    BY OwnershipAssumption, Places, MemberOf
  <2>2. Kind[n] # "theta"
    BY <1>3, <1>5, <2>1
  <2>3. Kind[n] # "gamma"
    BY <1>5, <2>1, GammaIs
  <2>4. Kind[n] # "delta"
    <3> SUFFICES ASSUME Kind[n] = "delta" PROVE FALSE
      OBVIOUS
    <3>1. r = Body(n)
      BY BodyIs
    <3> QED BY <1>5, <3>1, ContextIs
  <2> QED BY <2>2, <2>3, <2>4, Kinds
<1>6. ASSUME Kind[n] \in {"lambda", "phi"}, InputOf[s] = None
      PROVE  Feeds[s] = {u \in Members(Results) : \E o \in ToSet(Outputs[n]) :
                           Kind[n] = "phi" /\ RecArgument[o] = s /\ OutputOf[u] = o}
  BY <1>1, <1>2, <1>6 DEF ArgumentFeeds
<1>7. ASSUME Kind[n] = "phi", InputOf[s] = None
      PROVE  /\ \E o \in ToSet(Outputs[n]) : RecArgument[o] = s
             /\ \A u \in Feeds[s] : \E o \in ToSet(Outputs[n]) : RecArgument[o] = s /\ u \in Giving(n, o)
             /\ \A o \in ToSet(Outputs[n]) : RecArgument[o] = s => Giving(n, o) \subseteq Feeds[s]
  <2>1. \E o \in ToSet(Outputs[n]) : RecArgument[o] = s
    <3>1. r = Body(n)
      BY <1>7, BodyIs
    <3> QED BY <1>7, <3>1, PhiIs
  <2>2. \A u \in Feeds[s] : \E o \in ToSet(Outputs[n]) : RecArgument[o] = s /\ u \in Giving(n, o)
    BY <1>6, <1>7, GivingIs
  <2>3. \A o \in ToSet(Outputs[n]) : RecArgument[o] = s => Giving(n, o) \subseteq Feeds[s]
    BY <1>6, <1>7, GivingIs
  <2> QED BY <2>1, <2>2, <2>3
<1>8. Kind[n] = "lambda" /\ InputOf[s] = None => Feeds[s] = {}
  BY <1>6
<1> QED BY <1>3, <1>4, <1>5, <1>7, <1>8

\* The outputs of n and the arguments inside it; its inputs and the results inside it.
Belongs(s, n) == s \in ToSet(Outputs[n]) \/ \E r \in ToSet(Subregions[n]) : s \in ToSet(Arguments[r])
PartOf(u, n)  == u \in ToSet(Inputs[n]) \/ \E r \in ToSet(Subregions[n]) : u \in ToSet(Results[r])

\* s is an argument of n that stands for u.
StandsFor(s, u, n) ==
  InputOf[s] = u /\ \E r \in ToSet(Subregions[n]) : s \in ToSet(Arguments[r])

LEMMA BelongsSomewhere ==
  ASSUME NEW s \in AllSources
  PROVE  s \in ToSet(Arguments[Root]) \/ \E n \in Nodes : Belongs(s, n)
<1>1. CASE s \in Members(Outputs)
  BY <1>1, Places, PlaceOf DEF Belongs
<1>2. CASE s \in Members(Arguments)
  <2>1. PICK r \in Regions : s \in ToSet(Arguments[r])
    BY <1>2, Places, PlaceOf
  <2>2. CASE r # Root
    <3>1. Owner[r] \in Nodes /\ r \in ToSet(Subregions[Owner[r]])
      BY <2>2, OwnerOf
    <3> QED BY <2>1, <3>1 DEF Belongs
  <2> QED BY <2>1, <2>2
<1> QED BY <1>1, <1>2 DEF AllSources

LEMMA PartTyped ==
  ASSUME NEW n \in Nodes, NEW u, PartOf(u, n)
  PROVE  u \in AllUses
<1>1. CASE u \in ToSet(Inputs[n])
  BY <1>1, Places, MemberOf DEF AllUses
<1>2. CASE \E r \in ToSet(Subregions[n]) : u \in ToSet(Results[r])
  BY <1>2, OwnerIs, Places, MemberOf DEF AllUses
<1> QED BY <1>1, <1>2 DEF PartOf

LEMMA PartOnce ==
  ASSUME NEW n \in Nodes, NEW m \in Nodes, NEW u, PartOf(u, n), PartOf(u, m)
  PROVE  n = m
<1>1. ASSUME NEW k \in Nodes, NEW r \in ToSet(Subregions[k]), u \in ToSet(Results[r])
      PROVE  u \in Members(Results) /\ r \in Regions /\ Owner[r] = k
  BY <1>1, OwnerIs, Places, MemberOf
<1>2. ASSUME NEW k \in Nodes, u \in ToSet(Inputs[k])
      PROVE  u \in Members(Inputs)
  BY <1>2, Places, MemberOf
<1>3. Members(Inputs) \cap Members(Results) = {}
  BY OwnershipAssumption
<1>4. CASE u \in Members(Inputs)
  <2>1. u \in ToSet(Inputs[n]) /\ u \in ToSet(Inputs[m])
    BY <1>1, <1>3, <1>4 DEF PartOf
  <2> QED BY <2>1, Places, OnePlace
<1>5. CASE u \notin Members(Inputs)
  <2>1. PICK r \in ToSet(Subregions[n]) : u \in ToSet(Results[r])
    BY <1>2, <1>5 DEF PartOf
  <2>2. PICK q \in ToSet(Subregions[m]) : u \in ToSet(Results[q])
    BY <1>2, <1>5 DEF PartOf
  <2>3. r = q
    <3>1. r \in Regions /\ q \in Regions
      BY <2>1, <2>2, <1>1
    <3> QED BY <2>1, <2>2, <3>1, Places, OnePlace
  <2> QED BY <2>1, <2>2, <2>3, <1>1
<1> QED BY <1>4, <1>5

LEMMA GivingPart ==
  ASSUME NEW n \in Nodes, NEW o, NEW u \in Giving(n, o)
  PROVE  /\ OutputOf[u] = o
         /\ \E r \in ToSet(Subregions[n]) : u \in ToSet(Results[r])
         /\ PartOf(u, n)
BY DEF Giving, PartOf

LEMMA LoopPart ==
  ASSUME NEW n \in Nodes, Kind[n] = "theta", NEW i \in ToSet(Inputs[n]), NEW u \in LoopFeeds(n, i)
  PROVE  /\ u = i \/ (u \in ToSet(Results[Body(n)]) /\ OutputOf[u] \in {None, LoopOutput[i]})
         /\ PartOf(u, n)
<1>1. u = i \/ (u \in ToSet(Results[Body(n)]) /\ OutputOf[u] \in {None, LoopOutput[i]})
  BY ThetaIs DEF LoopFeeds
<1>2. Body(n) \in ToSet(Subregions[n])
  BY BodyIs
<1> QED BY <1>1, <1>2 DEF PartOf

\* What feeds an output of n or an argument inside n is part of n.
LEMMA FedPart ==
  ASSUME NEW n \in Nodes, NEW s, Belongs(s, n), NEW u \in Feeds[s]
  PROVE  PartOf(u, n)
<1>1. CASE s \in ToSet(Outputs[n])
  <2>1. CASE Kind[n] = "simple"
    <3>1. Feeds[s] = ToSet(Inputs[n])
      BY <1>1, <2>1, OutputFeedsAre
    <3> QED BY <3>1 DEF PartOf
  <2>2. CASE Kind[n] = "gamma"
    <3>1. Feeds[s] = {Inputs[n][1]} \cup Giving(n, s) /\ Inputs[n][1] \in ToSet(Inputs[n])
      BY <1>1, <2>2, OutputFeedsAre, GammaIs
    <3>2. u = Inputs[n][1] \/ u \in Giving(n, s)
      BY <3>1
    <3> QED BY <3>1, <3>2, GivingPart DEF PartOf
  <2>3. CASE Kind[n] = "theta"
    <3>1. PICK i \in ToSet(Inputs[n]) : Feeds[s] = LoopFeeds(n, i)
      BY <1>1, <2>3, OutputFeedsAre
    <3> QED BY <2>3, <3>1, LoopPart
  <2>4. CASE Kind[n] \in {"lambda", "delta"}
    <3>1. Feeds[s] = ToSet(Results[Body(n)]) /\ Body(n) \in ToSet(Subregions[n])
      BY <1>1, <2>4, OutputFeedsAre, BodyIs
    <3> QED BY <3>1 DEF PartOf
  <2>5. CASE Kind[n] = "phi"
    <3>1. Feeds[s] = Giving(n, s)
      BY <1>1, <2>5, OutputFeedsAre
    <3> QED BY <3>1, GivingPart
  <2> QED BY <2>1, <2>2, <2>3, <2>4, <2>5, Kinds
<1>2. CASE \E r \in ToSet(Subregions[n]) : s \in ToSet(Arguments[r])
  <2>1. PICK r \in ToSet(Subregions[n]) : s \in ToSet(Arguments[r])
    BY <1>2
  <2>2. CASE Kind[n] = "theta"
    <3>1. InputOf[s] \in ToSet(Inputs[n]) /\ Feeds[s] = LoopFeeds(n, InputOf[s])
      BY <2>1, <2>2, ArgumentFeedsAre
    <3> QED BY <2>2, <3>1, LoopPart
  <2>3. CASE Kind[n] # "theta" /\ InputOf[s] # None
    <3>1. Feeds[s] = {InputOf[s]}
      BY <2>1, <2>3, ArgumentFeedsAre
    <3>2. InputOf[s] \in ToSet(Inputs[n])
      BY <2>1, <2>3, ArgumentOf
    <3> QED BY <3>1, <3>2 DEF PartOf
  <2>4. CASE Kind[n] # "theta" /\ InputOf[s] = None
    <3>1. Kind[n] \in {"lambda", "phi"} /\ (Kind[n] = "lambda" => Feeds[s] = {})
      BY <2>1, <2>4, ArgumentFeedsAre
    <3>2. Kind[n] = "phi"
      BY <3>1
    <3>3. \E o \in ToSet(Outputs[n]) : RecArgument[o] = s /\ u \in Giving(n, o)
      BY <2>1, <2>4, <3>2, ArgumentFeedsAre
    <3> QED BY <3>3, GivingPart
  <2> QED BY <2>2, <2>3, <2>4
<1> QED BY <1>1, <1>2 DEF Belongs

LEMMA RootFeeds ==
  ASSUME NEW s \in ToSet(Arguments[Root])
  PROVE  Feeds[s] = {}
<1>1. Root \in Regions
  BY OwnershipAssumption
<1> QED BY <1>1, FeedsArgument DEF ArgumentFeeds

LEMMA FeedsTyped ==
  ASSUME NEW s \in AllSources
  PROVE  Feeds[s] \subseteq AllUses
BY BelongsSomewhere, FedPart, PartTyped, RootFeeds

\* What a part of n feeds belongs to n.
LEMMA PartFeeds ==
  ASSUME NEW n \in Nodes, NEW s \in AllSources, NEW u \in Feeds[s], PartOf(u, n)
  PROVE  Belongs(s, n)
<1>1. PICK m \in Nodes : Belongs(s, m)
  BY BelongsSomewhere, RootFeeds
<1>2. PartOf(u, m)
  BY <1>1, FedPart
<1> QED BY <1>1, <1>2, PartOnce

LEMMA InputNotResult ==
  ASSUME NEW n \in Nodes, NEW u \in ToSet(Inputs[n])
  PROVE  /\ \A r \in Regions : u \notin ToSet(Results[r])
         /\ \A m \in Nodes : \A o : u \notin Giving(m, o)
<1>1. u \in Members(Inputs) /\ u \notin Members(Results)
  BY Places, MemberOf, OwnershipAssumption
<1>2. \A r \in Regions : u \notin ToSet(Results[r])
  BY <1>1, Places, MemberOf
<1> QED BY <1>2, OwnerIs DEF Giving

\* What an input feeds.
LEMMA FedByInput ==
  ASSUME NEW n \in Nodes, NEW s \in AllSources, NEW u \in ToSet(Inputs[n]), u \in Feeds[s]
  PROVE  /\ Kind[n] = "simple" => s \in ToSet(Outputs[n])
         /\ Kind[n] = "gamma"  => u = Inputs[n][1] \/ StandsFor(s, u, n)
         /\ Kind[n] = "theta"  => LoopOutput[u] = s \/ StandsFor(s, u, n)
         /\ Kind[n] \in {"lambda", "delta", "phi"} => StandsFor(s, u, n)
<1>1. PartOf(u, n)
  BY DEF PartOf
<1>2. Belongs(s, n)
  BY <1>1, PartFeeds
<1>3. /\ \A r \in Regions : u \notin ToSet(Results[r])
      /\ \A m \in Nodes : \A o : u \notin Giving(m, o)
  BY InputNotResult
<1>4. CASE s \in ToSet(Outputs[n])
  <2>1. CASE Kind[n] = "gamma"
    <3>1. Feeds[s] = {Inputs[n][1]} \cup Giving(n, s)
      BY <1>4, <2>1, OutputFeedsAre
    <3>2. u = Inputs[n][1]
      BY <3>1, <1>3
    <3> QED BY <2>1, <3>2
  <2>2. CASE Kind[n] = "theta"
    <3>1. PICK i \in ToSet(Inputs[n]) : LoopOutput[i] = s /\ Feeds[s] = LoopFeeds(n, i)
      BY <1>4, <2>2, OutputFeedsAre
    <3>2. Body(n) \in Regions
      BY <2>2, BodyIs
    <3>3. u = i
      BY <2>2, <3>1, <3>2, <1>3, LoopPart
    <3> QED BY <2>2, <3>1, <3>3
  <2>3. CASE Kind[n] \in {"lambda", "delta"}
    <3>1. Feeds[s] = ToSet(Results[Body(n)]) /\ Body(n) \in Regions
      BY <1>4, <2>3, OutputFeedsAre, BodyIs
    <3> QED BY <3>1, <1>3
  <2>4. CASE Kind[n] = "phi"
    <3>1. Feeds[s] = Giving(n, s)
      BY <1>4, <2>4, OutputFeedsAre
    <3> QED BY <3>1, <1>3
  <2>5. CASE Kind[n] = "simple"
    BY <1>4, <2>5
  <2> QED BY <2>1, <2>2, <2>3, <2>4, <2>5, Kinds
<1>5. CASE \E r \in ToSet(Subregions[n]) : s \in ToSet(Arguments[r])
  <2>1. PICK r \in ToSet(Subregions[n]) : s \in ToSet(Arguments[r])
    BY <1>5
  <2>2. Kind[n] # "simple"
    BY <2>1, Kinds
  <2>3. InputOf[s] = u
    <3>1. CASE Kind[n] = "theta"
      <4>1. InputOf[s] \in ToSet(Inputs[n]) /\ Feeds[s] = LoopFeeds(n, InputOf[s]) /\ Body(n) \in Regions
        BY <2>1, <3>1, ArgumentFeedsAre, BodyIs
      <4> QED BY <3>1, <4>1, <1>3, LoopPart
    <3>2. CASE Kind[n] # "theta" /\ InputOf[s] # None
      BY <2>1, <3>2, ArgumentFeedsAre
    <3>3. CASE Kind[n] # "theta" /\ InputOf[s] = None
      BY <2>1, <3>3, <1>3, ArgumentFeedsAre
    <3> QED BY <3>1, <3>2, <3>3
  <2>4. StandsFor(s, u, n)
    BY <2>1, <2>3 DEF StandsFor
  <2> QED BY <2>2, <2>4
<1> QED BY <1>2, <1>4, <1>5 DEF Belongs

\* What a result feeds.
LEMMA FedByResult ==
  ASSUME NEW n \in Nodes, NEW s \in AllSources, NEW r \in ToSet(Subregions[n]),
         NEW u \in ToSet(Results[r]), u \in Feeds[s]
  PROVE  /\ Kind[n] = "gamma" => OutputOf[u] = s
         /\ Kind[n] = "theta" => \/ OutputOf[u] = None \/ OutputOf[u] = s
                                 \/ StandsFor(s, InputOf[s], n) /\ InputOf[s] \in ToSet(Inputs[n])
                                      /\ LoopOutput[InputOf[s]] = OutputOf[u]
         /\ Kind[n] = "phi"   => OutputOf[u] = s \/ RecArgument[OutputOf[u]] = s
<1>1. PartOf(u, n)
  BY DEF PartOf
<1>2. Belongs(s, n)
  BY <1>1, PartFeeds
<1>3. u \notin ToSet(Inputs[n])
  BY InputNotResult, OwnerIs
<1>4. CASE s \in ToSet(Outputs[n])
  <2>1. CASE Kind[n] = "gamma"
    <3>1. Feeds[s] = {Inputs[n][1]} \cup Giving(n, s) /\ Inputs[n][1] \in ToSet(Inputs[n])
      BY <1>4, <2>1, OutputFeedsAre, GammaIs
    <3>2. u \in Giving(n, s)
      BY <3>1, <1>3
    <3> QED BY <2>1, <3>2, GivingPart
  <2>2. CASE Kind[n] = "theta"
    <3>1. PICK i \in ToSet(Inputs[n]) : LoopOutput[i] = s /\ Feeds[s] = LoopFeeds(n, i)
      BY <1>4, <2>2, OutputFeedsAre
    <3>2. OutputOf[u] \in {None, LoopOutput[i]}
      BY <2>2, <3>1, <1>3, LoopPart
    <3> QED BY <2>2, <3>1, <3>2
  <2>3. CASE Kind[n] = "phi"
    <3>1. Feeds[s] = Giving(n, s)
      BY <1>4, <2>3, OutputFeedsAre
    <3> QED BY <2>3, <3>1, GivingPart
  <2> QED BY <2>1, <2>2, <2>3
<1>5. CASE \E q \in ToSet(Subregions[n]) : s \in ToSet(Arguments[q])
  <2>1. PICK q \in ToSet(Subregions[n]) : s \in ToSet(Arguments[q])
    BY <1>5
  <2>2. CASE Kind[n] = "theta"
    <3>1. InputOf[s] \in ToSet(Inputs[n]) /\ Feeds[s] = LoopFeeds(n, InputOf[s])
      BY <2>1, <2>2, ArgumentFeedsAre
    <3>2. OutputOf[u] \in {None, LoopOutput[InputOf[s]]}
      BY <2>2, <3>1, <1>3, LoopPart
    <3>3. StandsFor(s, InputOf[s], n)
      BY <2>1 DEF StandsFor
    <3> QED BY <2>2, <3>1, <3>2, <3>3
  <2>3. CASE Kind[n] # "theta" /\ InputOf[s] # None
    <3>1. Feeds[s] = {InputOf[s]} /\ InputOf[s] \in ToSet(Inputs[n])
      BY <2>1, <2>3, ArgumentFeedsAre, ArgumentOf
    <3> QED BY <3>1, <1>3
  <2>4. CASE Kind[n] # "theta" /\ InputOf[s] = None
    <3>1. Kind[n] \in {"lambda", "phi"}
      BY <2>1, <2>4, ArgumentFeedsAre
    <3>2. Kind[n] = "phi" => \E o \in ToSet(Outputs[n]) : RecArgument[o] = s /\ u \in Giving(n, o)
      BY <2>1, <2>4, ArgumentFeedsAre
    <3> QED BY <3>1, <3>2, GivingPart
  <2> QED BY <2>2, <2>3, <2>4
<1> QED BY <1>2, <1>4, <1>5 DEF Belongs

\* The arguments of n that stand for the same input of it are one, but for gammas.
LEMMA StandsOnce ==
  ASSUME NEW n \in Nodes, Kind[n] \in {"theta", "lambda", "delta", "phi"},
         NEW u \in ToSet(Inputs[n]), NEW s, StandsFor(s, u, n)
  PROVE  /\ s \in ToSet(Arguments[Body(n)])
         /\ \A a \in ToSet(Arguments[Body(n)]) : InputOf[a] = u => a = s
<1>1. s \in ToSet(Arguments[Body(n)]) /\ InputOf[s] = u
  BY BodyIs DEF StandsFor
<1>2. u # None
  BY OwnershipAssumption, Places, MemberOf
<1>3. CASE Kind[n] = "theta"
  BY <1>1, <1>3, ThetaIs
<1>4. CASE Kind[n] \in {"lambda", "delta", "phi"}
  BY <1>1, <1>2, <1>4, ContextIs
<1> QED BY <1>1, <1>3, <1>4

-----------------------------------------------------------------------------
(* The calls of MarkOutput, in the graph that the pass starts with. *)

\* The recursion variables of each phi come before its context variables, and
\* so have the same index as their arguments.
RecursionFirst ==
  \A n \in Nodes : Kind[n] = "phi" =>
    \A k \in DOMAIN Outputs[n] : /\ k \in DOMAIN Arguments[Body(n)]
                                 /\ RecArgument[Outputs[n][k]] = Arguments[Body(n)][k]

Whole ==
  /\ nodes = Nodes /\ inputs = Inputs /\ outputs = Outputs
  /\ arguments = Arguments /\ results = Results

IsLoopArgument(s) == \E n \in Nodes : Kind[n] = "theta" /\ s \in ToSet(Arguments[Body(n)])

CallSet(s) ==
  IF IsLoopArgument(s) THEN {LoopOutput[InputOf[s]], origin[InputOf[s]]}
  ELSE {origin[u] : u \in Feeds[s]}

LEMMA GivesOne ==
  ASSUME NEW n \in Nodes, Kind[n] \in {"gamma", "theta", "phi"},
         NEW r \in ToSet(Subregions[n]), NEW o \in ToSet(Outputs[n])
  PROVE  /\ \E u \in ToSet(Results[r]) : OutputOf[u] = o
         /\ \A u, v \in ToSet(Results[r]) : OutputOf[u] = o /\ OutputOf[v] = o => u = v
<1>1. CASE Kind[n] = "gamma"
  <2>1. /\ Results[r] \in Seq(Members(Results)) /\ Outputs[n] \in Seq(Members(Outputs))
        /\ \A j, k \in DOMAIN Outputs[n] : Outputs[n][j] = Outputs[n][k] => j = k
        /\ Matches(OutputOf, Results[r], Outputs[n])
    BY <1>1, OwnerIs, Places, OneIndex, GammaIs
  <2>2. \E u \in ToSet(Results[r]) : OutputOf[u] = o
    BY <2>1, MatchesIs
  <2>3. \A u, v \in ToSet(Results[r]) : OutputOf[u] = OutputOf[v] => u = v
    BY <2>1, MatchesOnce
  <2> QED BY <2>2, <2>3
<1>2. CASE Kind[n] = "theta"
  <2>1. r = Body(n)
    BY <1>2, BodyIs
  <2> QED BY <1>2, <2>1, ThetaIs
<1>3. CASE Kind[n] = "phi"
  <2>1. r = Body(n)
    BY <1>3, BodyIs
  <2> QED BY <1>3, <2>1, PhiIs
<1> QED BY <1>1, <1>2, <1>3

LEMMA OriginsAre ==
  ASSUME NEW S, NEW us \in Seq(S)
  PROVE  /\ ToSet(Origins(us)) = {origin[u] : u \in ToSet(us)}
         /\ Origins(us) \in Seq({origin[u] : u \in ToSet(us)})
<1>1. ToSet(Origins(us)) = {origin[u] : u \in ToSet(us)}
  BY DEF ToSet, Origins
<1>2. Origins(us) \in Seq({origin[u] : u \in ToSet(us)})
  <2>1. \A k \in 1 .. Len(us) : us[k] \in ToSet(us)
    BY DEF ToSet
  <2>2. Origins(us) = [k \in 1 .. Len(us) |-> origin[us[k]]] /\ Len(us) \in Nat
    BY DEF Origins
  <2> QED BY <2>1, <2>2
<1> QED BY <1>1, <1>2

LEMMA ConcatIs ==
  ASSUME NEW S, NEW s \in Seq(S), NEW t \in Seq(S)
  PROVE  s \o t \in Seq(S) /\ ToSet(s \o t) = ToSet(s) \cup ToSet(t)
<1>1. /\ s \o t \in Seq(S) /\ Len(s \o t) = Len(s) + Len(t)
      /\ \A k \in 1 .. Len(s) + Len(t) : (s \o t)[k] = IF k <= Len(s) THEN s[k] ELSE t[k - Len(s)]
  OBVIOUS
<1>2. /\ DOMAIN (s \o t) = 1 .. Len(s) + Len(t) /\ DOMAIN s = 1 .. Len(s) /\ DOMAIN t = 1 .. Len(t)
      /\ Len(s) \in Nat /\ Len(t) \in Nat
  BY <1>1
<1> DEFINE c == s \o t
<1> HIDE DEF c
<1>3. /\ \A k \in DOMAIN s : k \in DOMAIN c /\ c[k] = s[k]
      /\ \A k \in DOMAIN t : k + Len(s) \in DOMAIN c /\ c[k + Len(s)] = t[k]
      /\ \A k \in DOMAIN c : \/ k \in DOMAIN s /\ c[k] = s[k]
                             \/ k - Len(s) \in DOMAIN t /\ c[k] = t[k - Len(s)]
  BY <1>1, <1>2 DEF c
<1>4. ToSet(c) = ToSet(s) \cup ToSet(t)
  BY <1>3 DEF ToSet
<1> QED BY <1>1, <1>4 DEF c

LEMMA SingleIs ==
  ASSUME NEW S, NEW e \in S
  PROVE  << e >> \in Seq(S) /\ ToSet(<< e >>) = {e}
BY DEF ToSet

LEMMA ResultsOfIs ==
  ASSUME Whole, NEW n \in Nodes, Kind[n] \in {"gamma", "theta", "phi"}, NEW o \in ToSet(Outputs[n])
  PROVE  /\ ResultsOf(n, o) \in Seq(Members(Results))
         /\ ToSet(ResultsOf(n, o)) = Giving(n, o)
<1> DEFINE R == [k \in DOMAIN Subregions[n] |->
                   CHOOSE u \in ToSet(Results[Subregions[n][k]]) : OutputOf[u] = o]
<1>1. ResultsOf(n, o) = R
  BY DEF ResultsOf, Whole
<1>2. Subregions[n] \in Seq(Regions \ {Root})
  BY Places
<1>3. ToSet(Subregions[n]) = {Subregions[n][k] : k \in DOMAIN Subregions[n]}
  BY DEF ToSet
<1>4. ASSUME NEW k \in DOMAIN Subregions[n]
      PROVE  /\ R[k] \in ToSet(Results[Subregions[n][k]]) /\ OutputOf[R[k]] = o
             /\ \A u \in ToSet(Results[Subregions[n][k]]) : OutputOf[u] = o => u = R[k]
             /\ R[k] \in Members(Results)
  <2>1. Subregions[n][k] \in ToSet(Subregions[n])
    BY <1>3
  <2>2. R[k] \in ToSet(Results[Subregions[n][k]]) /\ OutputOf[R[k]] = o
    BY <2>1, GivesOne
  <2>3. \A u \in ToSet(Results[Subregions[n][k]]) : OutputOf[u] = o => u = R[k]
    BY <2>1, <2>2, GivesOne
  <2> QED BY <2>1, <2>2, <2>3, OwnerIs, Places, MemberOf
<1>5. DOMAIN R = DOMAIN Subregions[n] /\ R = [k \in DOMAIN R |-> R[k]]
  OBVIOUS
<1> HIDE DEF R
<1>6. R \in Seq(Members(Results))
  <2>1. DOMAIN Subregions[n] = 1 .. Len(Subregions[n]) /\ Len(Subregions[n]) \in Nat
    BY <1>2
  <2>2. \A k \in 1 .. Len(Subregions[n]) : R[k] \in Members(Results)
    BY <1>4, <2>1
  <2>3. R \in [1 .. Len(Subregions[n]) -> Members(Results)]
    BY <1>5, <2>1, <2>2
  <2> QED BY <2>1, <2>3
<1>7. ASSUME NEW u \in ToSet(R)
      PROVE  u \in Giving(n, o)
  <2>1. PICK k \in DOMAIN Subregions[n] : u = R[k]
    BY <1>5 DEF ToSet
  <2> QED BY <2>1, <1>3, <1>4 DEF Giving
<1>8. ASSUME NEW u \in Giving(n, o)
      PROVE  u \in ToSet(R)
  <2>1. PICK r \in ToSet(Subregions[n]) : u \in ToSet(Results[r]) /\ OutputOf[u] = o
    BY DEF Giving
  <2>2. PICK k \in DOMAIN Subregions[n] : r = Subregions[n][k]
    BY <1>3
  <2>3. u = R[k]
    BY <2>1, <2>2, <1>4
  <2> QED BY <2>2, <2>3, <1>5 DEF ToSet
<1> QED BY <1>1, <1>6, <1>7, <1>8

LEMMA NotLoopArgument ==
  ASSUME NEW n \in Nodes, NEW s \in ToSet(Outputs[n])
  PROVE  ~IsLoopArgument(s)
<1> SUFFICES ASSUME NEW m \in Nodes, Kind[m] = "theta", s \in ToSet(Arguments[Body(m)])
             PROVE  FALSE
  BY DEF IsLoopArgument
<1>1. Body(m) \in Regions
  BY BodyIs
<1>2. s \notin Members(Outputs)
  BY <1>1, FeedsArgument
<1> QED BY <1>2, FeedsOut

LEMMA OutputCallsAre ==
  ASSUME Whole, NEW n \in Nodes, NEW s \in ToSet(Outputs[n])
  PROVE  /\ ToSet(OutputCalls(n, s)) = {origin[u] : u \in Feeds[s]}
         /\ OutputCalls(n, s) \in Seq({origin[u] : u \in Feeds[s]})
<1> DEFINE U == Members(Inputs) \cup Members(Results)
           i1 == Inputs[n][1]
           r1 == Results[Body(n)][1]
<1>1. Inputs[n] \in Seq(U) /\ Inputs[n] \in Seq(Members(Inputs))
  BY Places
<1>2. CASE Kind[n] = "simple"
  <2>1. OutputCalls(n, s) = Origins(Inputs[n])
    BY <1>2 DEF OutputCalls, Whole
  <2>2. Feeds[s] = ToSet(Inputs[n])
    BY <1>2, OutputFeedsAre
  <2> QED BY <2>1, <2>2, <1>1, OriginsAre
<1>3. CASE Kind[n] = "gamma"
  <2> DEFINE a == << i1 >>
             b == ResultsOf(n, s)
  <2>1. OutputCalls(n, s) = Origins(a \o b)
    BY <1>3 DEF OutputCalls, Whole
  <2>2. Feeds[s] = {i1} \cup Giving(n, s)
    BY <1>3, OutputFeedsAre
  <2>3. i1 \in Members(Inputs)
    BY <1>3, GammaIs, Places, MemberOf
  <2> HIDE DEF i1
  <2>4. b \in Seq(U) /\ ToSet(b) = Giving(n, s)
    BY <1>3, ResultsOfIs
  <2>5. a \in Seq(U) /\ ToSet(a) = {i1}
    BY <2>3, SingleIs
  <2> HIDE DEF U, a, b
  <2>6. a \o b \in Seq(U) /\ ToSet(a \o b) = {i1} \cup Giving(n, s)
    BY <2>4, <2>5, ConcatIs
  <2> QED BY <2>1, <2>2, <2>6, OriginsAre
<1>4. CASE Kind[n] = "theta"
  <2>1. PICK i \in ToSet(Inputs[n]) : LoopOutput[i] = s /\ Feeds[s] = LoopFeeds(n, i)
    BY <1>4, OutputFeedsAre
  <2> DEFINE a == << r1 >>
             b == ResultsOf(n, s)
             w == Without(Inputs[n], {j \in ToSet(Inputs[n]) : LoopOutput[j] # s})
  <2>2. OutputCalls(n, s) = Origins(a \o b \o w)
    BY <1>4 DEF OutputCalls, Whole
  <2>3. ToSet(w) = {i}
    <3>1. ToSet(w) = ToSet(Inputs[n]) \ {j \in ToSet(Inputs[n]) : LoopOutput[j] # s}
      BY <1>1, WithoutIs
    <3>2. \A j \in ToSet(Inputs[n]) : LoopOutput[j] = s => j = i
      BY <1>4, <2>1, ThetaIs
    <3> QED BY <2>1, <3>1, <3>2
  <2>4. w \in Seq(U)
    BY <1>1, WithoutIs
  <2>5. b \in Seq(U) /\ ToSet(b) = Giving(n, s)
    BY <1>4, ResultsOfIs
  <2>6. r1 \in Members(Results) /\ Body(n) \in Regions /\ ToSet(Subregions[n]) = {Body(n)}
    <3>1. Body(n) \in Regions /\ r1 \in ToSet(Results[Body(n)]) /\ ToSet(Subregions[n]) = {Body(n)}
      BY <1>4, ThetaIs, BodyIs
    <3> QED BY <3>1, Places, MemberOf
  <2>7. Giving(n, s) = {u \in ToSet(Results[Body(n)]) : OutputOf[u] = s}
    BY <2>6 DEF Giving
  <2>8. Feeds[s] = {r1} \cup Giving(n, s) \cup {i}
    BY <2>1, <2>7 DEF LoopFeeds
  <2> HIDE DEF r1, w
  <2>9. a \in Seq(U) /\ ToSet(a) = {r1}
    BY <2>6, SingleIs
  <2> DEFINE c == a \o b
  <2> HIDE DEF U, a, b
  <2>10. c \in Seq(U) /\ ToSet(c) = {r1} \cup Giving(n, s)
    BY <2>5, <2>9, ConcatIs
  <2> HIDE DEF c
  <2>11. c \o w \in Seq(U) /\ ToSet(c \o w) = {r1} \cup Giving(n, s) \cup {i}
    BY <2>3, <2>4, <2>10, ConcatIs
  <2> QED BY <2>2, <2>8, <2>11, OriginsAre DEF c
<1>5. CASE Kind[n] = "lambda"
  <2>1. OutputCalls(n, s) = Origins(Results[Body(n)])
    BY <1>5 DEF OutputCalls, Whole
  <2>2. Feeds[s] = ToSet(Results[Body(n)]) /\ Results[Body(n)] \in Seq(Members(Results))
    BY <1>5, OutputFeedsAre, BodyIs
  <2> QED BY <2>1, <2>2, OriginsAre
<1>6. CASE Kind[n] = "phi"
  <2>1. OutputCalls(n, s) = Origins(ResultsOf(n, s))
    BY <1>6 DEF OutputCalls, Whole
  <2>2. Feeds[s] = Giving(n, s)
    BY <1>6, OutputFeedsAre
  <2>3. ResultsOf(n, s) \in Seq(Members(Results)) /\ ToSet(ResultsOf(n, s)) = Giving(n, s)
    BY <1>6, ResultsOfIs
  <2> QED BY <2>1, <2>2, <2>3, OriginsAre
<1>7. CASE Kind[n] = "delta"
  <2>1. OutputCalls(n, s) = << origin[r1] >>
    BY <1>7 DEF OutputCalls, Whole
  <2>2. Feeds[s] = {r1}
    BY <1>7, OutputFeedsAre, ContextIs
  <2>3. ToSet(<< origin[r1] >>) = {origin[r1]} /\ << origin[r1] >> \in Seq({origin[r1]})
    BY SingleIs
  <2> QED BY <2>1, <2>2, <2>3
<1> QED BY <1>2, <1>3, <1>4, <1>5, <1>6, <1>7, Kinds

LEMMA ArgumentCallsAre ==
  ASSUME Whole, RecursionFirst, NEW r \in Regions, NEW s \in ToSet(Arguments[r])
  PROVE  ToSet(ArgumentCalls(r, s)) = CallSet(s) /\ ArgumentCalls(r, s) \in Seq(CallSet(s))
<1>1. ToSet(<< >>) = {} /\ << >> \in Seq({})
  BY DEF ToSet
<1>2. \A q \in Regions : s \in ToSet(Arguments[q]) => q = r
  BY Places, OnePlace
<1>3. CASE r = Root
  <2>1. ~IsLoopArgument(s)
    BY <1>2, <1>3, BodyIs DEF IsLoopArgument
  <2>2. Feeds[s] = {}
    BY <1>3, RootFeeds
  <2>3. ArgumentCalls(r, s) = << >>
    BY <1>3 DEF ArgumentCalls
  <2> QED BY <1>1, <2>1, <2>2, <2>3 DEF CallSet
<1>4. CASE r # Root
  <2> DEFINE n == Owner[r]
  <2>1. n \in Nodes /\ r \in ToSet(Subregions[n])
    BY <1>4, OwnerOf
  <2>2. IsLoopArgument(s) <=> Kind[n] = "theta"
    <3>1. ASSUME Kind[n] = "theta" PROVE IsLoopArgument(s)
      <4>1. r = Body(n)
        BY <2>1, <3>1, BodyIs
      <4> QED BY <2>1, <3>1, <4>1 DEF IsLoopArgument
    <3>2. ASSUME NEW m \in Nodes, Kind[m] = "theta", s \in ToSet(Arguments[Body(m)])
          PROVE  Kind[n] = "theta"
      <4>1. Body(m) = r /\ Owner[Body(m)] = m
        BY <1>2, <3>2, BodyIs
      <4> QED BY <4>1, <3>2
    <3> QED BY <3>1, <3>2 DEF IsLoopArgument
  <2>3. CASE InputOf[s] # None /\ Kind[n] = "theta"
    <3>1. ArgumentCalls(r, s) = << LoopOutput[InputOf[s]], origin[InputOf[s]] >>
      BY <1>4, <2>3 DEF ArgumentCalls
    <3>2. /\ ToSet(ArgumentCalls(r, s)) = {LoopOutput[InputOf[s]], origin[InputOf[s]]}
          /\ ArgumentCalls(r, s) \in Seq({LoopOutput[InputOf[s]], origin[InputOf[s]]})
      BY <3>1 DEF ToSet
    <3> QED BY <2>2, <2>3, <3>2 DEF CallSet
  <2>4. CASE InputOf[s] # None /\ Kind[n] # "theta"
    <3>1. ArgumentCalls(r, s) = << origin[InputOf[s]] >>
      BY <1>4, <2>4 DEF ArgumentCalls
    <3>2. /\ ToSet(ArgumentCalls(r, s)) = {origin[InputOf[s]]}
          /\ ArgumentCalls(r, s) \in Seq({origin[InputOf[s]]})
      BY <3>1, SingleIs
    <3>3. Feeds[s] = {InputOf[s]}
      BY <2>1, <2>4, ArgumentFeedsAre
    <3> QED BY <2>2, <2>4, <3>2, <3>3 DEF CallSet
  <2>5. CASE InputOf[s] = None /\ Kind[n] = "lambda"
    <3>1. ArgumentCalls(r, s) = << >>
      BY <1>4, <2>5 DEF ArgumentCalls
    <3>2. Feeds[s] = {}
      BY <2>1, <2>5, ArgumentFeedsAre
    <3> QED BY <1>1, <2>2, <2>5, <3>1, <3>2 DEF CallSet
  <2>6. CASE InputOf[s] = None /\ Kind[n] = "phi"
    <3>1. ArgumentCalls(r, s) = << origin[IndexedResult(r, s)] >>
      BY <1>4, <2>6 DEF ArgumentCalls
    <3>2. r = Body(n)
      BY <2>1, <2>6, BodyIs
    <3>3. PICK o \in ToSet(Outputs[n]) : RecArgument[o] = s
      BY <2>1, <2>6, ArgumentFeedsAre
    <3>4. PICK k \in DOMAIN Outputs[n] : o = Outputs[n][k]
      BY DEF ToSet
    <3>5. k \in DOMAIN Arguments[r] /\ s = Arguments[r][k]
      BY <2>1, <2>6, <3>2, <3>3, <3>4 DEF RecursionFirst
    <3>6. \A j \in DOMAIN Arguments[r] : Arguments[r][j] = s => j = k
      BY <3>5, Places, OneIndex
    <3>7. Position(s, Arguments[r]) = k
      BY <3>5, <3>6 DEF Position
    <3>8. IndexedResult(r, s) = Results[r][k]
      BY <3>7 DEF IndexedResult, Whole
    <3>9. k \in DOMAIN Results[r] /\ OutputOf[Results[r][k]] = o
      <4>1. Matches(OutputOf, Results[r], Outputs[n])
        BY <2>1, <2>6, <3>2, PhiIs
      <4>2. DOMAIN Results[r] = DOMAIN Outputs[n]
        <5>1. Results[r] \in Seq(Members(Results)) /\ Outputs[n] \in Seq(Members(Outputs))
          BY <2>1, Places
        <5> QED BY <5>1, <4>1 DEF Matches
      <4> QED BY <4>1, <4>2, <3>4 DEF Matches
    <3>10. Results[r][k] \in Giving(n, o)
      BY <2>1, <3>9 DEF Giving, ToSet
    <3>11. \A p \in ToSet(Outputs[n]) : RecArgument[p] = s => p = o
      <4> SUFFICES ASSUME NEW p \in ToSet(Outputs[n]), RecArgument[p] = s
                   PROVE  p = o
        OBVIOUS
      <4>1. PICK j \in DOMAIN Outputs[n] : p = Outputs[n][j]
        BY DEF ToSet
      <4>2. j \in DOMAIN Arguments[r] /\ s = Arguments[r][j]
        BY <2>1, <2>6, <3>2, <4>1 DEF RecursionFirst
      <4> QED BY <3>4, <3>6, <4>1, <4>2
    <3>12. \A u \in Giving(n, o) : u = Results[r][k]
      <4>1. ToSet(Subregions[n]) = {r}
        BY <2>1, <2>6, <3>2, BodyIs
      <4>2. \A u \in Giving(n, o) : u \in ToSet(Results[r]) /\ OutputOf[u] = o
        BY <4>1 DEF Giving
      <4>3. Results[r][k] \in ToSet(Results[r]) /\ OutputOf[Results[r][k]] = o
        BY <3>9 DEF ToSet
      <4> QED BY <2>1, <2>6, <4>2, <4>3, GivesOne
    <3>13. Feeds[s] = {Results[r][k]}
      <4>1. Giving(n, o) \subseteq Feeds[s]
        BY <2>1, <2>6, <3>3, ArgumentFeedsAre
      <4>2. \A u \in Feeds[s] : \E p \in ToSet(Outputs[n]) : RecArgument[p] = s /\ u \in Giving(n, p)
        BY <2>1, <2>6, ArgumentFeedsAre
      <4> QED BY <3>10, <3>11, <3>12, <4>1, <4>2
    <3>14. /\ ToSet(ArgumentCalls(r, s)) = {origin[Results[r][k]]}
           /\ ArgumentCalls(r, s) \in Seq({origin[Results[r][k]]})
      <4> DEFINE t == origin[Results[r][k]]
      <4>1. ArgumentCalls(r, s) = << t >>
        BY <3>1, <3>8
      <4> HIDE DEF t
      <4>2. ToSet(<< t >>) = {t} /\ << t >> \in Seq({t})
        BY SingleIs
      <4> QED BY <4>1, <4>2 DEF t
    <3> QED BY <2>2, <2>6, <3>13, <3>14 DEF CallSet
  <2>7. InputOf[s] = None => Kind[n] \in {"lambda", "phi"}
    BY <2>1, ArgumentFeedsAre
  <2> QED BY <2>3, <2>4, <2>5, <2>6, <2>7
<1> QED BY <1>3, <1>4

\* What MarkOutput is called with for s is what s is computed from, but for the
\* arguments of loops, which call it for the output of the loop variable.
LEMMA CallsAre ==
  ASSUME Whole, RecursionFirst, NEW s \in AllSources
  PROVE  ToSet(CallsFor(s)) = CallSet(s) /\ CallsFor(s) \in Seq(CallSet(s))
<1>1. CASE \E n \in Nodes : s \in ToSet(Outputs[n])
  <2>1. PICK n \in Nodes : s \in ToSet(Outputs[n])
    BY <1>1
  <2>2. \A m \in Nodes : s \in ToSet(Outputs[m]) => m = n
    BY <2>1, Places, OnePlace
  <2>3. CallsFor(s) = OutputCalls(n, s)
    BY <2>1, <2>2 DEF CallsFor, Whole
  <2>4. CallSet(s) = {origin[u] : u \in Feeds[s]}
    BY <2>1, NotLoopArgument DEF CallSet
  <2> QED BY <2>1, <2>3, <2>4, OutputCallsAre
<1>2. CASE ~ \E n \in Nodes : s \in ToSet(Outputs[n])
  <2>1. PICK r \in Regions : s \in ToSet(Arguments[r])
    BY <1>2, Places, PlaceOf DEF AllSources
  <2>2. \A q \in Regions : s \in ToSet(Arguments[q]) => q = r
    BY <2>1, Places, OnePlace
  <2>3. CallsFor(s) = ArgumentCalls(r, s)
    BY <1>2, <2>1, <2>2 DEF CallsFor, Whole
  <2> QED BY <2>1, <2>3, ArgumentCallsAre
<1> QED BY <1>1, <1>2

-----------------------------------------------------------------------------
(* What the mark phase has found out, and how one call adds to it. *)

LEMMA SourceRegion ==
  /\ \A n \in Nodes : RegionOf[n] \in Regions /\ ToSet(Outputs[n]) \subseteq SourcesIn(RegionOf[n])
  /\ \A r \in Regions : ToSet(Arguments[r]) \subseteq SourcesIn(r)
BY Places DEF SourcesIn

LEMMA SourcesTyped ==
  ASSUME NEW r \in Regions
  PROVE  SourcesIn(r) \subseteq AllSources
BY Places, MemberOf DEF SourcesIn, AllSources

LEMMA OneRegion ==
  ASSUME NEW q \in Regions, NEW r \in Regions, NEW s \in SourcesIn(q), s \in SourcesIn(r)
  PROVE  q = r
<1>1. ASSUME NEW p \in Regions, s \in SourcesIn(p)
      PROVE  s \in ToSet(Arguments[p]) \/ \E n \in Nodes : RegionOf[n] = p /\ s \in ToSet(Outputs[n])
  BY <1>1 DEF SourcesIn
<1>2. CASE s \in Members(Arguments)
  <2>1. \A n \in Nodes : s \notin ToSet(Outputs[n])
    BY <1>2, Places, MemberOf, OwnershipAssumption
  <2>2. s \in ToSet(Arguments[q]) /\ s \in ToSet(Arguments[r])
    BY <1>1, <2>1
  <2> QED BY <2>2, Places, OnePlace
<1>3. CASE s \notin Members(Arguments)
  <2>1. \A p \in Regions : s \notin ToSet(Arguments[p])
    BY <1>3, Places, MemberOf
  <2>2. PICK m \in Nodes : RegionOf[m] = q /\ s \in ToSet(Outputs[m])
    BY <1>1, <2>1
  <2>3. PICK n \in Nodes : RegionOf[n] = r /\ s \in ToSet(Outputs[n])
    BY <1>1, <2>1
  <2>4. m = n
    BY <2>2, <2>3, Places, OnePlace
  <2> QED BY <2>2, <2>3, <2>4
<1> QED BY <1>2, <1>3

LEMMA OriginRegion ==
  ASSUME NEW f \in Wirings
  PROVE  /\ \A n \in Nodes : \A u \in ToSet(Inputs[n]) : f[u] \in SourcesIn(RegionOf[n])
         /\ \A r \in Regions : \A u \in ToSet(Results[r]) : f[u] \in SourcesIn(r)
         /\ \A u \in AllUses : f[u] \in AllSources
<1>1. \A r \in Regions : \A u \in UsesIn(r) : f[u] \in SourcesIn(r)
  BY WiringsAssumption
<1>2. \A n \in Nodes : \A u \in ToSet(Inputs[n]) : u \in UsesIn(RegionOf[n]) /\ RegionOf[n] \in Regions
  BY SourceRegion DEF UsesIn
<1>3. \A r \in Regions : \A u \in ToSet(Results[r]) : u \in UsesIn(r)
  BY DEF UsesIn
<1>4. ASSUME NEW u \in AllUses
      PROVE  \E r \in Regions : u \in UsesIn(r)
  BY <1>2, <1>3, Places, PlaceOf DEF AllUses
<1> QED BY <1>1, <1>2, <1>3, <1>4, SourcesTyped

\* What the context remembers of s, with which everything of a simple node lives.
StaticMark(s) ==
  IF \E n \in Nodes : Kind[n] = "simple" /\ s \in ToSet(Outputs[n])
  THEN CHOOSE n \in Nodes : s \in ToSet(Outputs[n])
  ELSE s

StaticMarks   == {StaticMark(s) : s \in AllSources}

LiveIn(A) == {s \in AllSources : StaticMark(s) \in A}
Group(s)  == LiveIn({StaticMark(s)})

LEMMA GroupIs ==
  ASSUME NEW s \in AllSources
  PROVE  /\ s \in Group(s) /\ StaticMark(s) \in Everything
         /\ \A t \in Group(s) : \/ t = s
                                \/ \E n \in Nodes : /\ Kind[n] = "simple"
                                                    /\ s \in ToSet(Outputs[n]) /\ t \in ToSet(Outputs[n])
<1>1. ASSUME NEW t \in AllSources, NEW n \in Nodes, Kind[n] = "simple", t \in ToSet(Outputs[n])
      PROVE  StaticMark(t) = n
  <2>1. \A m \in Nodes : t \in ToSet(Outputs[m]) => m = n
    BY <1>1, Places, OnePlace
  <2> QED BY <1>1, <2>1 DEF StaticMark
<1>2. ASSUME NEW t \in AllSources
      PROVE  \/ StaticMark(t) = t /\ t \notin Nodes
             \/ \E n \in Nodes : Kind[n] = "simple" /\ t \in ToSet(Outputs[n]) /\ StaticMark(t) = n
  <2>1. t \notin Nodes
    BY OwnershipAssumption DEF AllSources
  <2>2. CASE \E n \in Nodes : Kind[n] = "simple" /\ t \in ToSet(Outputs[n])
    BY <2>2, <1>1
  <2>3. CASE ~ \E n \in Nodes : Kind[n] = "simple" /\ t \in ToSet(Outputs[n])
    BY <2>1, <2>3 DEF StaticMark
  <2> QED BY <2>2, <2>3
<1>3. s \in Group(s) /\ StaticMark(s) \in Everything
  BY <1>2 DEF Group, LiveIn, Everything, AllSources
<1>4. ASSUME NEW t \in Group(s), t # s
      PROVE  \E n \in Nodes : Kind[n] = "simple" /\ s \in ToSet(Outputs[n]) /\ t \in ToSet(Outputs[n])
  <2>1. t \in AllSources /\ StaticMark(t) = StaticMark(s)
    BY DEF Group, LiveIn
  <2>2. StaticMark(t) \in Nodes
    BY <1>2, <1>4, <2>1
  <2>3. PICK n \in Nodes : Kind[n] = "simple" /\ t \in ToSet(Outputs[n]) /\ StaticMark(t) = n
    BY <1>2, <2>1, <2>2
  <2>4. PICK m \in Nodes : Kind[m] = "simple" /\ s \in ToSet(Outputs[m]) /\ StaticMark(s) = m
    BY <1>2, <2>1, <2>2
  <2> QED BY <2>1, <2>3, <2>4
<1> QED BY <1>3, <1>4

CallsOf(f, s) ==
  IF IsLoopArgument(s) THEN {LoopOutput[InputOf[s]], f[InputOf[s]]} ELSE {f[u] : u \in Feeds[s]}

\* The uses through which the results of the graph get their values from L.
FeedsOf(L) == ToSet(Results[Root]) \cup UNION {Feeds[s] : s \in L}

\* With origins f, when L is marked and the rest of R is still to be.  The calls
\* are complete; what is inside a node is reached only with an output of it, and
\* nothing is reached but through a use that is needed, or with an output of the
\* same node.
Complete(f, L, R) ==
  /\ \A u \in ToSet(Results[Root]) : f[u] \in R
  /\ \A s \in L : CallsOf(f, s) \subseteq R
FromOutside(L, R) ==
  \A r \in Regions \ {Root} : SourcesIn(r) \cap R # {} => ToSet(Outputs[Owner[r]]) \cap L # {}
ThroughUses(f, L, R) ==
  /\ \A s \in R \cap Members(Arguments) : \E u \in FeedsOf(L) : f[u] = s
  /\ \A n \in Nodes : ToSet(Outputs[n]) \cap R # {} =>
       \E u \in FeedsOf(L) : f[u] \in ToSet(Outputs[n])
Reached(f, L, R) ==
  /\ L \subseteq R /\ R \subseteq AllSources
  /\ Complete(f, L, R) /\ FromOutside(L, R) /\ ThroughUses(f, L, R)

\* The calls for s are for sources of the region around n, or inside n.
LEMMA CallsRegion ==
  ASSUME NEW f \in Wirings, NEW n \in Nodes, NEW s, Belongs(s, n), NEW t \in CallsOf(f, s)
  PROVE  /\ t \in SourcesIn(RegionOf[n]) \/ \E q \in ToSet(Subregions[n]) : t \in SourcesIn(q)
         /\ \/ \E u \in Feeds[s] : t = f[u]
            \/ t \in ToSet(Outputs[n]) /\ \E r \in ToSet(Subregions[n]) : s \in ToSet(Arguments[r])
<1>1. CASE IsLoopArgument(s)
  <2>1. PICK m \in Nodes : Kind[m] = "theta" /\ s \in ToSet(Arguments[Body(m)])
    BY <1>1 DEF IsLoopArgument
  <2>2. Body(m) \in Regions /\ Body(m) \in ToSet(Subregions[m])
    BY <2>1, BodyIs
  <2>3. m = n
    <3>1. s \notin ToSet(Outputs[n])
      BY <2>1, <2>2, FeedsArgument, FeedsOut
    <3>2. PICK r \in ToSet(Subregions[n]) : s \in ToSet(Arguments[r])
      BY <3>1 DEF Belongs
    <3>3. r \in Regions /\ Owner[r] = n
      BY <3>2, OwnerIs
    <3>4. r = Body(m)
      BY <2>1, <2>2, <3>2, <3>3, Places, OnePlace
    <3> QED BY <2>2, <3>3, <3>4, OwnerIs
  <2>4. InputOf[s] \in ToSet(Inputs[n]) /\ LoopOutput[InputOf[s]] \in ToSet(Outputs[n])
    BY <2>1, <2>3, ThetaIs
  <2>5. InputOf[s] \in Feeds[s]
    <3>1. Feeds[s] = LoopFeeds(n, InputOf[s])
      BY <2>1, <2>2, <2>3, ArgumentFeedsAre
    <3> QED BY <3>1 DEF LoopFeeds
  <2>6. t = LoopOutput[InputOf[s]] \/ t = f[InputOf[s]]
    BY <1>1 DEF CallsOf
  <2>7. t \in SourcesIn(RegionOf[n])
    BY <2>4, <2>6, SourceRegion, OriginRegion
  <2> QED BY <2>1, <2>2, <2>3, <2>4, <2>5, <2>6, <2>7
<1>2. CASE ~IsLoopArgument(s)
  <2>1. PICK u \in Feeds[s] : t = f[u]
    BY <1>2 DEF CallsOf
  <2>2. PartOf(u, n)
    BY <2>1, FedPart
  <2>3. t \in SourcesIn(RegionOf[n]) \/ \E q \in ToSet(Subregions[n]) : t \in SourcesIn(q)
    BY <2>1, <2>2, OriginRegion, OwnerIs DEF PartOf
  <2> QED BY <2>1, <2>3
<1> QED BY <1>1, <1>2

LEMMA RootCalls ==
  ASSUME NEW f, NEW s \in ToSet(Arguments[Root])
  PROVE  CallsOf(f, s) = {}
<1>1. ~IsLoopArgument(s)
  <2> SUFFICES ASSUME NEW m \in Nodes, Kind[m] = "theta", s \in ToSet(Arguments[Body(m)])
               PROVE  FALSE
    BY DEF IsLoopArgument
  <2>1. Body(m) \in Regions \ {Root} /\ Root \in Regions
    BY BodyIs, OwnershipAssumption
  <2> QED BY <2>1, Places, OnePlace
<1> QED BY <1>1, RootFeeds DEF CallsOf

\* What the sources of the same simple node call for is the same.
LEMMA GroupCalls ==
  ASSUME NEW f, NEW s \in AllSources, NEW t \in Group(s)
  PROVE  CallsOf(f, t) = CallsOf(f, s)
<1>1. ASSUME NEW n \in Nodes, Kind[n] = "simple", s \in ToSet(Outputs[n]), t \in ToSet(Outputs[n])
      PROVE  CallsOf(f, t) = CallsOf(f, s)
  <2>1. Feeds[t] = Feeds[s]
    BY <1>1, OutputFeedsAre
  <2>2. ~IsLoopArgument(t) /\ ~IsLoopArgument(s)
    BY <1>1, NotLoopArgument
  <2> QED BY <2>1, <2>2 DEF CallsOf
<1> QED BY <1>1, GroupIs

LEMMA CallsTyped ==
  ASSUME NEW f \in Wirings, NEW s \in AllSources
  PROVE  CallsOf(f, s) \subseteq AllSources
<1>1. CASE s \in ToSet(Arguments[Root])
  BY <1>1, RootCalls
<1>2. CASE \E n \in Nodes : Belongs(s, n)
  <2>1. PICK n \in Nodes : Belongs(s, n)
    BY <1>2
  <2>2. ASSUME NEW t \in CallsOf(f, s)
        PROVE  t \in AllSources
    BY <2>1, CallsRegion, SourceRegion, SourcesTyped, OwnerIs
  <2> QED BY <2>2
<1> QED BY <1>1, <1>2, BelongsSomewhere

LEMMA MarkStep ==
  ASSUME NEW f \in Wirings, NEW L, NEW R, Reached(f, L, R), NEW s \in R
  PROVE  Reached(f, L \cup Group(s), R \cup Group(s) \cup CallsOf(f, s))
<1> DEFINE M == L \cup Group(s)
           Q == R \cup Group(s) \cup CallsOf(f, s)
<1>1. s \in AllSources /\ L \subseteq R /\ R \subseteq AllSources
  BY DEF Reached
<1>2. Group(s) \subseteq AllSources /\ s \in Group(s)
  BY <1>1, GroupIs DEF Group, LiveIn
<1>3. M \subseteq Q /\ Q \subseteq AllSources
  BY <1>1, <1>2, CallsTyped
<1>4. FeedsOf(L) \subseteq FeedsOf(M) /\ Feeds[s] \subseteq FeedsOf(M)
  BY <1>2 DEF FeedsOf
<1>5. Complete(f, M, Q)
  <2>1. ASSUME NEW t \in M
        PROVE  CallsOf(f, t) \subseteq Q
    BY <1>1, GroupCalls DEF Reached, Complete
  <2> QED BY <2>1 DEF Reached, Complete
<1>6. ASSUME NEW m \in Nodes, Belongs(s, m)
      PROVE  /\ ToSet(Outputs[m]) \cap M # {}
             /\ SourcesIn(RegionOf[m]) \cap R # {}
             /\ (\E r \in ToSet(Subregions[m]) : s \in ToSet(Arguments[r])) => ToSet(Outputs[m]) \cap R # {}
  <2>1. CASE s \in ToSet(Outputs[m])
    BY <2>1, <1>2, SourceRegion
  <2>2. CASE \E r \in ToSet(Subregions[m]) : s \in ToSet(Arguments[r])
    <3>1. PICK r \in ToSet(Subregions[m]) : s \in ToSet(Arguments[r])
      BY <2>2
    <3>2. r \in Regions \ {Root} /\ Owner[r] = m /\ s \in SourcesIn(r)
      BY <3>1, OwnerIs, SourceRegion
    <3>3. ToSet(Outputs[m]) \cap L # {}
      BY <3>2 DEF Reached, FromOutside
    <3> QED BY <3>3, <1>1, SourceRegion
  <2> QED BY <1>6, <2>1, <2>2 DEF Belongs
<1>7. ASSUME NEW r \in Regions \ {Root}, NEW t \in SourcesIn(r), t \in Q
      PROVE  ToSet(Outputs[Owner[r]]) \cap M # {}
  <2>1. CASE SourcesIn(r) \cap R # {}
    BY <2>1 DEF Reached, FromOutside
  <2>2. CASE t \in Group(s)
    <3>1. CASE t = s
      BY <3>1, <2>1, <1>7
    <3>2. CASE \E n \in Nodes : s \in ToSet(Outputs[n]) /\ t \in ToSet(Outputs[n])
      <4>1. PICK n \in Nodes : s \in ToSet(Outputs[n]) /\ t \in ToSet(Outputs[n])
        BY <3>2
      <4>2. RegionOf[n] \in Regions /\ t \in SourcesIn(RegionOf[n]) /\ s \in SourcesIn(RegionOf[n])
        BY <4>1, SourceRegion
      <4>3. r = RegionOf[n]
        BY <4>2, <1>7, OneRegion
      <4> QED BY <4>2, <4>3, <2>1
    <3> QED BY <2>2, <3>1, <3>2, <1>1, GroupIs
  <2>3. CASE t \in CallsOf(f, s)
    <3>1. PICK n \in Nodes : Belongs(s, n)
      BY <2>3, <1>1, RootCalls, BelongsSomewhere
    <3>2. CASE t \in SourcesIn(RegionOf[n])
      <4>1. r = RegionOf[n]
        BY <3>2, <1>7, SourceRegion, OneRegion
      <4> QED BY <4>1, <3>1, <1>6, <2>1
    <3>3. CASE \E q \in ToSet(Subregions[n]) : t \in SourcesIn(q)
      <4>1. PICK q \in ToSet(Subregions[n]) : t \in SourcesIn(q)
        BY <3>3
      <4>2. q \in Regions /\ Owner[q] = n
        BY OwnerIs
      <4>3. r = q
        BY <4>1, <4>2, <1>7, OneRegion
      <4> QED BY <4>2, <4>3, <3>1, <1>6
    <3> QED BY <2>3, <3>1, <3>2, <3>3, CallsRegion
  <2> QED BY <1>7, <2>1, <2>2, <2>3
<1>8. FromOutside(M, Q)
  <2> HIDE DEF M, Q
  <2> QED BY <1>7 DEF FromOutside
<1>9. ASSUME NEW t \in Q \cap Members(Arguments)
      PROVE  \E u \in FeedsOf(M) : f[u] = t
  <2>1. CASE t \in R
    BY <2>1, <1>4, <1>9 DEF Reached, ThroughUses
  <2>2. CASE t \in Group(s)
    <3>1. \A n \in Nodes : t \notin ToSet(Outputs[n])
      BY <1>9, Places, MemberOf, OwnershipAssumption
    <3>2. t = s
      BY <2>2, <3>1, <1>1, GroupIs
    <3> QED BY <3>2, <2>1
  <2>3. CASE t \in CallsOf(f, s)
    <3>1. PICK n \in Nodes : Belongs(s, n)
      BY <2>3, <1>1, RootCalls, BelongsSomewhere
    <3>2. t \notin ToSet(Outputs[n])
      BY <1>9, Places, MemberOf, OwnershipAssumption
    <3>3. \E u \in Feeds[s] : t = f[u]
      BY <2>3, <3>1, <3>2, CallsRegion
    <3> QED BY <3>3, <1>4
  <2> QED BY <1>9, <2>1, <2>2, <2>3
<1>10. ASSUME NEW n \in Nodes, NEW t \in ToSet(Outputs[n]), t \in Q
       PROVE  \E u \in FeedsOf(M) : f[u] \in ToSet(Outputs[n])
  <2>1. CASE ToSet(Outputs[n]) \cap R # {}
    BY <2>1, <1>4 DEF Reached, ThroughUses
  <2>2. CASE t \in Group(s)
    <3>1. s \in ToSet(Outputs[n])
      BY <1>10, <2>2, <1>1, GroupIs, Places, OnePlace
    <3> QED BY <3>1, <2>1
  <2>3. CASE t \in CallsOf(f, s)
    <3>1. PICK m \in Nodes : Belongs(s, m)
      BY <2>3, <1>1, RootCalls, BelongsSomewhere
    <3>2. CASE \E u \in Feeds[s] : t = f[u]
      BY <3>2, <1>4, <1>10
    <3>3. CASE t \in ToSet(Outputs[m]) /\ \E r \in ToSet(Subregions[m]) : s \in ToSet(Arguments[r])
      <4>1. m = n
        BY <3>3, <1>10, Places, OnePlace
      <4>2. ToSet(Outputs[n]) \cap R # {}
        BY <3>1, <3>3, <4>1, <1>6
      <4> QED BY <4>2, <2>1
    <3> QED BY <2>3, <3>1, <3>2, <3>3, CallsRegion
  <2> QED BY <1>10, <2>1, <2>2, <2>3
<1>11. ThroughUses(f, M, Q)
  <2> HIDE DEF M, Q
  <2> QED BY <1>9, <1>10 DEF ThroughUses
<1> HIDE DEF M, Q
<1>12. Reached(f, M, Q)
  BY <1>3, <1>5, <1>8, <1>11 DEF Reached
<1> QED BY <1>12 DEF M, Q

\* MarkRegion starts with the results of the graph.
LEMMA MarkStart ==
  ASSUME NEW f \in Wirings
  PROVE  Reached(f, {}, {f[u] : u \in ToSet(Results[Root])})
<1> DEFINE R == {f[u] : u \in ToSet(Results[Root])}
<1>1. Root \in Regions
  BY OwnershipAssumption
<1>2. R \subseteq SourcesIn(Root) /\ R \subseteq AllSources
  BY <1>1, OriginRegion, SourcesTyped
<1>3. FromOutside({}, R)
  BY <1>1, <1>2, OneRegion DEF FromOutside
<1>4. ThroughUses(f, {}, R)
  BY DEF ThroughUses, FeedsOf
<1>5. Complete(f, {}, R)
  BY DEF Complete
<1> QED BY <1>2, <1>3, <1>4, <1>5 DEF Reached

-----------------------------------------------------------------------------
(* When the mark phase has ended. *)

LEMMA MarkedIsClosed ==
  ASSUME NEW f \in Wirings, NEW L, Reached(f, L, L), NEW u \in FeedsOf(L)
  PROVE  f[u] \in L
<1>1. CASE u \in ToSet(Results[Root])
  BY <1>1 DEF Reached, Complete
<1>2. CASE u \notin ToSet(Results[Root])
  <2>1. PICK s \in L : u \in Feeds[s]
    BY <1>2 DEF FeedsOf
  <2>2. \A t \in L : CallsOf(f, t) \subseteq L
    BY DEF Reached, Complete
  <2>3. CASE ~IsLoopArgument(s)
    <3>1. f[u] \in CallsOf(f, s)
      BY <2>1, <2>3 DEF CallsOf
    <3> QED BY <2>2, <3>1
  <2>4. CASE IsLoopArgument(s)
    <3>1. PICK n \in Nodes : Kind[n] = "theta" /\ s \in ToSet(Arguments[Body(n)])
      BY <2>4 DEF IsLoopArgument
    <3> DEFINE i == InputOf[s]
               o == LoopOutput[i]
    <3>2. i \in ToSet(Inputs[n]) /\ Feeds[s] = LoopFeeds(n, i)
      <4>1. Body(n) \in ToSet(Subregions[n])
        BY <3>1, BodyIs
      <4> QED BY <3>1, <4>1, ArgumentFeedsAre
    <3>3. o \in ToSet(Outputs[n])
      BY <3>1, <3>2, ThetaIs
    <3>4. o \in L
      <4>1. o \in CallsOf(f, s)
        BY <2>4 DEF CallsOf
      <4> QED BY <2>2, <4>1
    <3>5. PICK j \in ToSet(Inputs[n]) : LoopOutput[j] = o /\ Feeds[o] = LoopFeeds(n, j)
      BY <3>1, <3>3, OutputFeedsAre
    <3>6. j = i
      BY <3>1, <3>2, <3>5, ThetaIs
    <3>7. u \in Feeds[o]
      BY <2>1, <3>2, <3>5, <3>6
    <3>8. f[u] \in CallsOf(f, o)
      BY <3>3, <3>7, NotLoopArgument DEF CallsOf
    <3> QED BY <2>2, <3>4, <3>8
  <2> QED BY <2>3, <2>4
<1> QED BY <1>1, <1>2

\* Needed is the last of as many rounds as there are sources.
From(us) == {origin[u] : u \in us}
Further(x) == x \cup UNION {From(Feeds[s]) : s \in x}
AreRounds(f, L) ==
  /\ f \in [Nat -> SUBSET L] /\ f[0] = From(ToSet(Results[Root]))
  /\ \A k \in Nat : f[k + 1] = Further(f[k])
  /\ Needed = f[Cardinality(AllSources)]

LEMMA NeededRounds ==
  ASSUME NEW L, L \subseteq AllSources, \A u \in FeedsOf(L) : origin[u] \in L
  PROVE  /\ \E f : AreRounds(f, L)
         /\ IsFiniteSet(AllSources) /\ Cardinality(AllSources) \in Nat
         /\ Needed \subseteq L
<1> DEFINE start == From(ToSet(Results[Root]))
           G == [x \in SUBSET L |-> Further(x)]
           Rounds(f) == f = [k \in Nat |-> IF k = 0 THEN start ELSE Further(f[k - 1])]
           r == CHOOSE f : Rounds(f)
<1>1. start \in SUBSET L /\ G \in [SUBSET L -> SUBSET L]
  <2>1. start \in SUBSET L
    BY DEF FeedsOf, From
  <2>2. ASSUME NEW x \in SUBSET L
        PROVE  Further(x) \in SUBSET L
    BY DEF FeedsOf, Further, From
  <2> QED BY <2>1, <2>2
<1>2. PICK f \in [Nat -> SUBSET L] : f[0] = start /\ \A k \in Nat : f[k + 1] = G[f[k]]
  <2> HIDE DEF G, start
  <2>1. Iterations(SUBSET L, start, G) # {}
    BY <1>1, Iterates
  <2> QED BY <2>1 DEF Iterations
<1>3. Rounds(f)
  <2>1. ASSUME NEW k \in Nat, k # 0
        PROVE  f[k] = Further(f[k - 1])
    <3>1. k - 1 \in Nat /\ (k - 1) + 1 = k
      BY <2>1
    <3>2. f[k] = G[f[k - 1]] /\ f[k - 1] \in SUBSET L
      BY <3>1, <1>2
    <3> QED BY <3>2
  <2> HIDE DEF start
  <2>2. f = [k \in Nat |-> f[k]]
    OBVIOUS
  <2> QED BY <1>2, <2>1, <2>2
<1>4. Rounds(r)
  <2> HIDE DEF Rounds
  <2> QED BY <1>3
<1>5. r = f
  <2> DEFINE A == {k \in Nat : r[k] = f[k]}
  <2> HIDE DEF start, r
  <2>1. 0 \in A
    BY <1>3, <1>4
  <2>2. ASSUME NEW k \in Nat, k \in A
        PROVE  k + 1 \in A
    <3>1. k + 1 \in Nat /\ k + 1 # 0 /\ (k + 1) - 1 = k
      OBVIOUS
    <3>2. r[k + 1] = Further(r[k]) /\ f[k + 1] = Further(f[k])
      BY <1>3, <1>4, <3>1
    <3> QED BY <2>2, <3>1, <3>2
  <2>3. r = [k \in Nat |-> r[k]] /\ f = [k \in Nat |-> f[k]]
    BY <1>4
  <2> HIDE DEF A
  <2>4. Nat \subseteq A
    BY <2>1, <2>2, SetInduction
  <2> QED BY <2>3, <2>4 DEF A
<1>6. IsFiniteSet(AllSources) /\ Cardinality(AllSources) \in Nat /\ DOMAIN Feeds = AllSources
  <2>1. IsFiniteSet(Members(Outputs) \cup Members(Arguments))
    BY OwnershipAssumption, FS_Union
  <2>2. DOMAIN Feeds = Members(Outputs) \cup Members(Arguments)
    BY DEF Feeds
  <2> QED BY <2>1, <2>2, FS_CardinalityType DEF AllSources
<1>7. Needed = r[Cardinality(DOMAIN Feeds)]
  BY DEF Needed, Further, From
<1> HIDE DEF r
<1>8. \A k \in Nat : f[k + 1] = Further(f[k])
  <2> TAKE k \in Nat
  <2>1. f[k] \in SUBSET L
    BY <1>2
  <2> QED BY <1>2, <2>1
<1>9. AreRounds(f, L)
  BY <1>2, <1>5, <1>6, <1>7, <1>8 DEF AreRounds
<1> QED BY <1>6, <1>9 DEF AreRounds

\* What the results of the graph are computed from is marked.
LEMMA NeededIsMarked ==
  ASSUME origin \in Wirings, NEW L, Reached(origin, L, L)
  PROVE  Needed \subseteq L
BY MarkedIsClosed, NeededRounds DEF Reached

\* A marked output of a node, or argument, is there because of a use that is needed.
LEMMA MarkedIsUsed ==
  ASSUME NEW f \in Wirings, NEW L, Reached(f, L, L)
  PROVE  /\ \A a \in L \cap Members(Arguments) : \E u \in FeedsOf(L) : f[u] = a
         /\ \A n \in Nodes : ToSet(Outputs[n]) \cap L # {} =>
              \E u \in FeedsOf(L) : f[u] \in ToSet(Outputs[n]) \cap L
<1>1. \A u \in FeedsOf(L) : f[u] \in L
  BY MarkedIsClosed
<1> QED BY <1>1 DEF Reached, ThroughUses

-----------------------------------------------------------------------------
(* The invariant: of the mark phase, and of the sweep phase. *)

Live  == LiveIn(alive)
Reach == Live \cup ToSet(marks)
Fed   == FeedsOf(Live)

MarkInv ==
  /\ origin \in Wirings
  /\ alive \subseteq Everything /\ alive \subseteq StaticMarks
  /\ marks \in Seq(AllSources)
  /\ Reached(origin, Live, Reach)
  /\ (Whole /\ work = << Call("run", Root, {}) >>) \/ marks = << >>

\* What is left of the graph is part of it, and whole nodes are gone.
Shape ==
  /\ nodes \subseteq Nodes
  /\ inputs \in [Nodes -> Seq(Members(Inputs))]
  /\ outputs \in [Nodes -> Seq(Members(Outputs))]
  /\ arguments \in [Regions -> Seq(Members(Arguments))]
  /\ results \in [Regions -> Seq(Members(Results))]
  /\ \A n \in Nodes : ToSet(inputs[n]) \subseteq ToSet(Inputs[n])
  /\ \A n \in Nodes : ToSet(outputs[n]) \subseteq ToSet(Outputs[n])
  /\ \A r \in Regions : ToSet(arguments[r]) \subseteq ToSet(Arguments[r])
  /\ \A r \in Regions : ToSet(results[r]) \subseteq ToSet(Results[r])
  /\ \A n \in Nodes \ nodes : inputs[n] = << >> /\ outputs[n] = << >>
  /\ \A n \in nodes : RegionOf[n] # Root => Owner[RegionOf[n]] \in nodes

\* Nothing that is needed has been removed.
Kept ==
  /\ \A n \in Nodes : ToSet(Outputs[n]) \cap Live \subseteq ToSet(outputs[n])
  /\ \A r \in Regions : ToSet(Arguments[r]) \cap Live \subseteq ToSet(arguments[r])
  /\ \A n \in Nodes : ToSet(Inputs[n]) \cap Fed \subseteq ToSet(inputs[n])
  /\ \A r \in Regions : ToSet(Results[r]) \cap Fed \subseteq ToSet(results[r])

\* The exit and entry variables of gammas stay aligned.
GammaOK ==
  \A n \in Nodes : Kind[n] = "gamma" =>
    /\ \A r \in ToSet(Subregions[n]) : Matches(OutputOf, results[r], outputs[n])
    /\ n \in nodes =>
         /\ inputs[n] # << >> /\ ToSet(Tail(inputs[n])) \subseteq ToSet(Tail(Inputs[n]))
         /\ \A r \in ToSet(Subregions[n]) : Matches(InputOf, arguments[r], Tail(inputs[n]))

\* No input of a loop variable goes before its output.
ThetaOK ==
  \A n \in Nodes : Kind[n] = "theta" =>
    \A o \in ToSet(outputs[n]) : \E i \in ToSet(inputs[n]) : LoopOutput[i] = o

GraphInv == Shape /\ Kept /\ GammaOK /\ ThetaOK

LEMMA LiveTyped ==
  Live \subseteq AllSources /\ Fed \subseteq AllUses
<1>1. Live \subseteq AllSources
  BY DEF Live, LiveIn
<1>2. ToSet(Results[Root]) \subseteq AllUses
  BY OwnershipAssumption, Places, MemberOf DEF AllUses
<1> QED BY <1>1, <1>2, FeedsTyped DEF Fed, FeedsOf

LEMMA FedIsUsed ==
  ASSUME Shape, Kept
  PROVE  Fed \subseteq Uses
<1> SUFFICES ASSUME NEW u \in Fed PROVE u \in Uses
  OBVIOUS
<1>1. DOMAIN inputs = Nodes /\ DOMAIN results = Regions
  BY DEF Shape
<1>2. CASE u \in Members(Inputs)
  <2>1. PICK n \in Nodes : u \in ToSet(Inputs[n])
    BY <1>2, Places, PlaceOf
  <2>2. u \in ToSet(inputs[n])
    BY <2>1 DEF Kept
  <2> QED BY <1>1, <2>1, <2>2, MemberOf DEF Uses
<1>3. CASE u \in Members(Results)
  <2>1. PICK r \in Regions : u \in ToSet(Results[r])
    BY <1>3, Places, PlaceOf
  <2>2. u \in ToSet(results[r])
    BY <2>1 DEF Kept
  <2> QED BY <1>1, <2>1, <2>2, MemberOf DEF Uses
<1> QED BY <1>2, <1>3, LiveTyped DEF AllUses

\* The context knows what is alive while it is there.
LEMMA AliveIs ==
  ASSUME Shape
  PROVE  /\ \A n \in Nodes : \A o \in ToSet(outputs[n]) : IsAlive(o) <=> o \in Live
         /\ \A a \in Members(Arguments) : IsAlive(a) <=> a \in Live
<1>1. \A n \in nodes : ToSet(outputs[n]) \subseteq ToSet(Outputs[n]) /\ n \in Nodes
  BY DEF Shape
<1>2. ASSUME NEW n \in Nodes, NEW o \in ToSet(outputs[n])
      PROVE  IsAlive(o) <=> o \in Live
  <2>1. o \in ToSet(Outputs[n]) /\ o \in AllSources
    BY <1>2, Places, MemberOf DEF Shape, AllSources
  <2>2. n \in nodes
    BY <1>2 DEF Shape, ToSet
  <2>3. \A m \in Nodes : o \in ToSet(Outputs[m]) => m = n
    BY <2>1, Places, OnePlace
  <2>4. \A m \in nodes : o \in ToSet(outputs[m]) => m = n
    BY <1>1, <2>3
  <2>5. CASE Kind[n] = "simple"
    <3>1. Mark(o) = n
      BY <2>2, <2>4, <2>5 DEF Mark
    <3>2. StaticMark(o) = n
      BY <2>1, <2>3, <2>5 DEF StaticMark
    <3> QED BY <2>1, <3>1, <3>2 DEF IsAlive, Live, LiveIn
  <2>6. CASE Kind[n] # "simple"
    <3>1. Mark(o) = o
      BY <2>4, <2>6 DEF Mark
    <3>2. StaticMark(o) = o
      BY <2>3, <2>6 DEF StaticMark
    <3> QED BY <2>1, <3>1, <3>2 DEF IsAlive, Live, LiveIn
  <2> QED BY <2>5, <2>6
<1>3. ASSUME NEW a \in Members(Arguments)
      PROVE  IsAlive(a) <=> a \in Live
  <2>1. \A n \in Nodes : a \notin ToSet(Outputs[n])
    BY Places, MemberOf, OwnershipAssumption
  <2>2. Mark(a) = a
    BY <1>1, <2>1 DEF Mark
  <2>3. StaticMark(a) = a
    BY <2>1 DEF StaticMark
  <2> QED BY <2>2, <2>3 DEF IsAlive, Live, LiveIn, AllSources
<1> QED BY <1>2, <1>3

\* What is marked has users, once the mark phase has ended.
LEMMA LiveIsUsed ==
  ASSUME MarkInv, GraphInv, marks = << >>
  PROVE  /\ Reached(origin, Live, Live) /\ origin \in Wirings
         /\ \A a \in Members(Arguments) : ~HasUsers(a) => a \notin Live
         /\ \A n \in Nodes : ToSet(outputs[n]) \cap Used = {} => ToSet(Outputs[n]) \cap Live = {}
<1>1. Reached(origin, Live, Live) /\ origin \in Wirings
  <2>1. ToSet(<< >>) = {}
    BY DEF ToSet
  <2>2. Reach = Live
    BY <2>1 DEF Reach
  <2> QED BY <2>2 DEF MarkInv
<1>2. \A u \in Fed : origin[u] \in Used
  BY FedIsUsed DEF Used, GraphInv
<1>3. ASSUME NEW a \in Members(Arguments), a \in Live
      PROVE  HasUsers(a)
  <2>1. \E u \in Fed : origin[u] = a
    BY <1>1, <1>3, MarkedIsUsed DEF Fed
  <2> QED BY <2>1, <1>2 DEF HasUsers
<1>4. ASSUME NEW n \in Nodes, ToSet(Outputs[n]) \cap Live # {}
      PROVE  ToSet(outputs[n]) \cap Used # {}
  <2>1. PICK u \in Fed : origin[u] \in ToSet(Outputs[n]) \cap Live
    BY <1>1, <1>4, MarkedIsUsed DEF Fed
  <2>2. origin[u] \in ToSet(outputs[n])
    BY <2>1 DEF GraphInv, Kept
  <2> QED BY <2>2, <1>2
<1> QED BY <1>1, <1>3, <1>4

LEMMA MarkInit ==
  ASSUME Init
  PROVE  MarkInv
<1>1. Whole /\ work = << Call("run", Root, {}) >> /\ origin \in Wirings /\ alive = {}
  BY DEF Init, Whole
<1>2. marks = Origins(Results[Root])
  BY DEF Init
<1>3. Root \in Regions /\ Results[Root] \in Seq(Members(Results))
  BY OwnershipAssumption, Places
<1>4. ToSet(marks) = {origin[u] : u \in ToSet(Results[Root])}
  BY <1>2, <1>3, OriginsAre
<1>5. marks \in Seq(AllSources)
  <2>1. \A u \in ToSet(Results[Root]) : origin[u] \in AllSources
    BY <1>1, <1>3, OriginRegion, SourcesTyped
  <2>2. marks = [k \in 1 .. Len(Results[Root]) |-> origin[Results[Root][k]]]
    BY <1>2, <1>3 DEF Origins
  <2>3. \A k \in 1 .. Len(Results[Root]) : Results[Root][k] \in ToSet(Results[Root])
    BY <1>3 DEF ToSet
  <2>4. marks \in [1 .. Len(Results[Root]) -> AllSources] /\ Len(Results[Root]) \in Nat
    BY <1>3, <2>1, <2>2, <2>3
  <2> QED BY <2>4
<1>6. Live = {} /\ Reach = {origin[u] : u \in ToSet(Results[Root])}
  BY <1>1, <1>4 DEF Live, LiveIn, Reach
<1>7. Reached(origin, Live, Reach)
  BY <1>1, <1>6, MarkStart
<1> QED BY <1>1, <1>5, <1>7 DEF MarkInv

LEMMA SeqWithin ==
  ASSUME NEW S, NEW T, S \subseteq T, NEW s \in Seq(S)
  PROVE  s \in Seq(T)
<1>1. s \in [1 .. Len(s) -> S] /\ Len(s) \in Nat
  OBVIOUS
<1>2. s \in [1 .. Len(s) -> T]
  BY <1>1
<1> QED BY <1>1, <1>2

\* MarkOutput marks its argument and is then called for what that is computed from.
LEMMA MarkOutputMarks ==
  ASSUME MarkInv, RecursionFirst, MarkOutput
  PROVE  /\ MarkInv' /\ origin' = origin
         /\ \/ Reach' = Reach
            \/ \E s \in Reach : s \in AllSources /\ Reach' = Reach \cup Group(s) \cup CallsOf(origin, s)
<1>1. /\ marks # << >> /\ Whole /\ work = << Call("run", Root, {}) >>
      /\ nodes' = nodes /\ inputs' = inputs /\ outputs' = outputs /\ arguments' = arguments
      /\ results' = results /\ origin' = origin /\ work' = work
  BY DEF MarkOutput, MarkInv, graph
<1>2. /\ origin \in Wirings /\ marks \in Seq(AllSources)
      /\ alive \subseteq Everything /\ alive \subseteq StaticMarks
      /\ Reached(origin, Live, Reach)
  BY DEF MarkInv
<1>3. Whole' /\ work' = << Call("run", Root, {}) >> /\ origin' \in Wirings
  BY <1>1, <1>2 DEF Whole
<1> DEFINE s == Head(marks)
<1>4. /\ s \in AllSources /\ Tail(marks) \in Seq(AllSources)
      /\ ToSet(marks) = {s} \cup ToSet(Tail(marks))
  <2>1. s \in AllSources /\ Tail(marks) \in Seq(AllSources) /\ << s >> \in Seq(AllSources)
    BY <1>1, <1>2
  <2> DEFINE a == << s >>
             b == Tail(marks)
  <2>2. marks = a \o b
    BY <1>1, <1>2
  <2>3. a \in Seq(AllSources) /\ b \in Seq(AllSources) /\ ToSet(a) = {s}
    BY <2>1, SingleIs
  <2> HIDE DEF a, b, s
  <2>4. ToSet(a \o b) = ToSet(a) \cup ToSet(b)
    BY <2>3, ConcatIs
  <2>5. ToSet(marks) = {s} \cup ToSet(b)
    BY <2>2, <2>3, <2>4
  <2> QED BY <2>1, <2>5 DEF b
<1>5. Mark(s) = StaticMark(s)
  BY <1>1 DEF Mark, StaticMark, Whole
<1>6. CASE IsAlive(s)
  <2>1. marks' = Tail(marks) /\ alive' = alive
    BY <1>6 DEF MarkOutput
  <2>2. s \in Live
    BY <1>4, <1>5, <1>6 DEF IsAlive, Live, LiveIn
  <2>3. Live' = Live /\ Reach' = Live \cup ToSet(Tail(marks))
    BY <2>1 DEF Live, Reach
  <2>4. Reach' = Reach
    BY <2>2, <2>3, <1>4 DEF Reach
  <2>5. Reached(origin, Live, Reach)'
    BY <1>1, <1>2, <2>3, <2>4 DEF Reached, Complete, FromOutside, ThroughUses
  <2>6. MarkInv'
    BY <1>2, <1>3, <1>4, <2>1, <2>5 DEF MarkInv
  <2> QED BY <1>1, <2>4, <2>6
<1>7. CASE ~IsAlive(s)
  <2>1. alive' = alive \cup {StaticMark(s)} /\ marks' = CallsFor(s) \o Tail(marks)
    BY <1>5, <1>7 DEF MarkOutput
  <2>2. /\ CallsFor(s) \in Seq(AllSources) /\ ToSet(CallsFor(s)) = CallsOf(origin, s)
        /\ CallsOf(origin, s) \subseteq AllSources
    <3>1. ToSet(CallsFor(s)) = CallsOf(origin, s) /\ CallsFor(s) \in Seq(CallsOf(origin, s))
      BY <1>1, <1>4, CallsAre DEF CallSet, CallsOf
    <3>2. CallsOf(origin, s) \subseteq AllSources
      BY <1>2, <1>4, CallsTyped
    <3> HIDE DEF s
    <3> QED BY <3>1, <3>2, SeqWithin
  <2>3. marks' \in Seq(AllSources) /\ ToSet(marks') = CallsOf(origin, s) \cup ToSet(Tail(marks))
    <3> DEFINE a == CallsFor(s)
               b == Tail(marks)
    <3>1. a \in Seq(AllSources) /\ b \in Seq(AllSources) /\ marks' = a \o b
      BY <1>4, <2>1, <2>2
    <3>2. ToSet(a) = CallsOf(origin, s)
      BY <2>2
    <3> HIDE DEF a, b, s
    <3>3. marks' \in Seq(AllSources) /\ ToSet(marks') = ToSet(a) \cup ToSet(b)
      BY <3>1, ConcatIs
    <3> QED BY <3>2, <3>3 DEF b
  <2> HIDE DEF s
  <2>4. Live' = Live \cup Group(s)
    BY <2>1 DEF Live, LiveIn, Group
  <2>5. Reach' = Reach \cup Group(s) \cup CallsOf(origin, s)
    <3>1. s \in Group(s)
      BY <1>4, GroupIs
    <3> QED BY <2>3, <2>4, <3>1, <1>4 DEF Reach
  <2>6. s \in Reach
    BY <1>4 DEF Reach
  <2>7. Reached(origin, Live', Reach')
    BY <1>2, <2>4, <2>5, <2>6, MarkStep
  <2>8. Reached(origin, Live, Reach)'
    BY <1>1, <2>7 DEF Reached, Complete, FromOutside, ThroughUses
  <2>9. alive' \subseteq Everything /\ alive' \subseteq StaticMarks
    BY <1>2, <1>4, <2>1, GroupIs DEF StaticMarks
  <2>10. MarkInv'
    BY <1>3, <2>3, <2>8, <2>9 DEF MarkInv
  <2> QED BY <1>1, <1>4, <2>5, <2>6, <2>10
<1> QED BY <1>6, <1>7

\* Afterwards nothing is marked.
LEMMA MarksStay ==
  ASSUME MarkInv, marks = << >>, alive' = alive, marks' = marks, origin' = origin
  PROVE  MarkInv' /\ Live' = Live /\ Fed' = Fed /\ Reach' = Reach
<1>1. Live' = Live /\ Fed' = Fed /\ Reach' = Reach
  BY DEF Live, Fed, Reach
<1>2. Reached(origin, Live, Reach)'
  BY <1>1 DEF MarkInv, Reached, Complete, FromOutside, ThroughUses
<1> QED BY <1>1, <1>2 DEF MarkInv

-----------------------------------------------------------------------------
(* Nodes that are destroyed. *)

\* n, and the nodes in the regions inside it.
Within(m, n) == m = n \/ RegionOf[m] \in Inside[n]

LEMMA WithinRegions ==
  ASSUME NEW n \in Nodes, NEW m \in Nodes, NEW r \in ToSet(Subregions[m])
  PROVE  r \in Inside[n] <=> Within(m, n)
<1>1. r \in Regions \ {Root} /\ Owner[r] = m
  BY OwnerIs
<1> QED BY <1>1, InsideIs DEF Within

LEMMA InsideOwner ==
  ASSUME NEW n \in Nodes, NEW r \in Inside[n]
  PROVE  \E m \in Nodes : Within(m, n) /\ r \in ToSet(Subregions[m])
<1>1. r \in Regions \ {Root}
  BY InsideIs
<1>2. Owner[r] \in Nodes /\ r \in ToSet(Subregions[Owner[r]])
  BY <1>1, OwnerOf
<1> QED BY <1>2, WithinRegions

\* When no output of n is marked, nothing inside it is.
LEMMA NothingInside ==
  ASSUME NEW f \in Wirings, NEW L, Reached(f, L, L), NEW n \in Nodes, ToSet(Outputs[n]) \cap L = {}
  PROVE  /\ \A r \in Inside[n] : SourcesIn(r) \cap L = {}
         /\ \A m \in Nodes : Within(m, n) => ToSet(Outputs[m]) \cap L = {}
<1> DEFINE S == {r \in Regions \ {Root} : SourcesIn(r) \cap L = {}}
<1>1. ASSUME NEW q \in Regions \ {Root}, Owner[q] = n \/ RegionOf[Owner[q]] \in S
      PROVE  q \in S
  <2>1. ToSet(Outputs[Owner[q]]) \cap L = {}
    <3>1. CASE Owner[q] = n
      BY <3>1
    <3>2. CASE RegionOf[Owner[q]] \in S
      <4>1. ToSet(Outputs[Owner[q]]) \subseteq SourcesIn(RegionOf[Owner[q]])
        BY OwnerOf, SourceRegion
      <4> QED BY <3>2, <4>1
    <3> QED BY <1>1, <3>1, <3>2
  <2>2. SourcesIn(q) \cap L = {}
    BY <2>1 DEF Reached, FromOutside
  <2> QED BY <2>2
<1>2. S \in SUBSET Regions
  OBVIOUS
<1> HIDE DEF S
<1>3. Inside[n] \subseteq S
  BY <1>1, <1>2, InsideIs
<1>4. \A r \in Inside[n] : SourcesIn(r) \cap L = {}
  BY <1>3 DEF S
<1>5. ASSUME NEW m \in Nodes, RegionOf[m] \in Inside[n]
      PROVE  ToSet(Outputs[m]) \cap L = {}
  BY <1>4, <1>5, SourceRegion
<1> QED BY <1>4, <1>5 DEF Within

\* Then no part of it is needed either.
LEMMA NothingPartOf ==
  ASSUME NEW f \in Wirings, NEW L, Reached(f, L, L), NEW n \in Nodes, ToSet(Outputs[n]) \cap L = {},
         NEW m \in Nodes, Within(m, n), NEW u \in FeedsOf(L)
  PROVE  ~PartOf(u, m)
<1> SUFFICES ASSUME PartOf(u, m) PROVE FALSE
  OBVIOUS
<1>1. Root \in Regions /\ L \subseteq AllSources
  BY OwnershipAssumption DEF Reached
<1>2. u \notin ToSet(Results[Root])
  <2> SUFFICES ASSUME u \in ToSet(Results[Root]) PROVE FALSE
    OBVIOUS
  <2>1. u \notin ToSet(Inputs[m])
    BY <1>1, InputNotResult
  <2>2. PICK r \in ToSet(Subregions[m]) : u \in ToSet(Results[r])
    BY <2>1 DEF PartOf
  <2>3. r \in Regions \ {Root}
    BY OwnerIs
  <2> QED BY <1>1, <2>2, <2>3, Places, OnePlace
<1>3. PICK s \in L : u \in Feeds[s]
  BY <1>2 DEF FeedsOf
<1>4. Belongs(s, m)
  BY <1>1, <1>3, PartFeeds
<1>5. s \notin ToSet(Outputs[m])
  BY NothingInside
<1>6. PICK r \in ToSet(Subregions[m]) : s \in ToSet(Arguments[r])
  BY <1>4, <1>5 DEF Belongs
<1>7. r \in Inside[n] /\ s \in SourcesIn(r)
  BY <1>6, WithinRegions, OwnerIs, SourceRegion
<1> QED BY <1>7, NothingInside

LEMMA EmptyIs ==
  /\ ToSet(<< >>) = {}
  /\ \A S : << >> \in Seq(S)
  /\ \A f : Matches(f, << >>, << >>)
BY DEF ToSet, Matches

\* A node is destroyed that is not needed.
LEMMA DestroyKeeps ==
  ASSUME GraphInv, origin \in Wirings, Reached(origin, Live, Live), alive' = alive,
         NEW n \in Nodes, ToSet(Outputs[n]) \cap Live = {}, Destroy(n)
  PROVE  GraphInv'
<1> DEFINE gone == {n} \cup {m \in nodes : RegionOf[m] \in Inside[n]}
           I == Inside[n]
<1>1. Live' = Live /\ Fed' = Fed
  BY DEF Live, Fed
<1>2. /\ nodes' = nodes \ gone
      /\ inputs' = [y \in DOMAIN inputs |-> IF y \in gone THEN << >> ELSE inputs[y]]
      /\ outputs' = [y \in DOMAIN outputs |-> IF y \in gone THEN << >> ELSE outputs[y]]
      /\ arguments' = [y \in DOMAIN arguments |-> IF y \in I THEN << >> ELSE arguments[y]]
      /\ results' = [y \in DOMAIN results |-> IF y \in I THEN << >> ELSE results[y]]
  BY DEF Destroy
<1>3. /\ nodes \subseteq Nodes
      /\ inputs \in [Nodes -> Seq(Members(Inputs))] /\ outputs \in [Nodes -> Seq(Members(Outputs))]
      /\ arguments \in [Regions -> Seq(Members(Arguments))]
      /\ results \in [Regions -> Seq(Members(Results))]
      /\ \A m \in Nodes \ nodes : inputs[m] = << >> /\ outputs[m] = << >>
  BY DEF GraphInv, Shape
<1>4. \A m \in Nodes : /\ Within(m, n) => m \in gone \/ m \notin nodes
                       /\ m \in gone => Within(m, n)
                       /\ m \in nodes' => m \in nodes /\ ~Within(m, n)
                       /\ m \notin nodes' => m \notin nodes \/ Within(m, n)
  BY <1>2, <1>3 DEF Within
<1> HIDE DEF gone, I
<1>5. /\ inputs' \in [Nodes -> Seq(Members(Inputs))] /\ outputs' \in [Nodes -> Seq(Members(Outputs))]
      /\ arguments' \in [Regions -> Seq(Members(Arguments))]
      /\ results' \in [Regions -> Seq(Members(Results))]
  BY <1>2, <1>3, EmptyIs
<1>6. \A m \in Nodes : /\ inputs'[m] = IF Within(m, n) THEN << >> ELSE inputs[m]
                       /\ outputs'[m] = IF Within(m, n) THEN << >> ELSE outputs[m]
  BY <1>2, <1>3, <1>4
<1>7. \A r \in Regions : /\ arguments'[r] = IF r \in I THEN << >> ELSE arguments[r]
                         /\ results'[r] = IF r \in I THEN << >> ELSE results[r]
  BY <1>2, <1>3
<1>8. Shape'
  <2>1. \A m \in Nodes : /\ ToSet(inputs'[m]) \subseteq ToSet(Inputs[m])
                         /\ ToSet(outputs'[m]) \subseteq ToSet(Outputs[m])
    BY <1>6, EmptyIs DEF GraphInv, Shape
  <2>2. \A r \in Regions : /\ ToSet(arguments'[r]) \subseteq ToSet(Arguments[r])
                           /\ ToSet(results'[r]) \subseteq ToSet(Results[r])
    BY <1>7, EmptyIs DEF GraphInv, Shape
  <2>3. \A m \in Nodes \ nodes' : inputs'[m] = << >> /\ outputs'[m] = << >>
    BY <1>3, <1>4, <1>6
  <2>4. ASSUME NEW m \in nodes', RegionOf[m] # Root
        PROVE  Owner[RegionOf[m]] \in nodes'
    <3>1. m \in nodes /\ m \in Nodes /\ ~Within(m, n) /\ RegionOf[m] \in Regions \ {Root}
      BY <1>2, <1>3, <1>4, <2>4, SourceRegion
    <3>2. Owner[RegionOf[m]] \in nodes
      BY <3>1 DEF GraphInv, Shape
    <3>3. ~Within(Owner[RegionOf[m]], n)
      BY <3>1, InsideIs DEF Within
    <3>4. Owner[RegionOf[m]] \notin gone
      BY <1>3, <1>4, <3>2, <3>3
    <3> QED BY <1>2, <3>2, <3>4
  <2> QED BY <1>2, <1>3, <1>5, <2>1, <2>2, <2>3, <2>4 DEF Shape
<1>9. Kept'
  <2>1. \A m \in Nodes : /\ ToSet(Outputs[m]) \cap Live \subseteq ToSet(outputs'[m])
                         /\ ToSet(Inputs[m]) \cap Fed \subseteq ToSet(inputs'[m])
    <3>1. ASSUME NEW m \in Nodes, Within(m, n)
          PROVE  ToSet(Outputs[m]) \cap Live = {} /\ ToSet(Inputs[m]) \cap Fed = {}
      BY <3>1, NothingInside, NothingPartOf DEF PartOf, Fed
    <3> QED BY <1>6, <3>1 DEF GraphInv, Kept
  <2>2. \A r \in Regions : /\ ToSet(Arguments[r]) \cap Live \subseteq ToSet(arguments'[r])
                           /\ ToSet(Results[r]) \cap Fed \subseteq ToSet(results'[r])
    <3>1. ASSUME NEW r \in Regions, r \in I
          PROVE  ToSet(Arguments[r]) \cap Live = {} /\ ToSet(Results[r]) \cap Fed = {}
      <4>1. PICK m \in Nodes : Within(m, n) /\ r \in ToSet(Subregions[m])
        BY <3>1, InsideOwner DEF I
      <4>2. ToSet(Results[r]) \cap Fed = {}
        BY <4>1, NothingPartOf DEF PartOf, Fed
      <4>3. ToSet(Arguments[r]) \cap Live = {}
        BY <3>1, NothingInside, SourceRegion DEF I
      <4> QED BY <4>2, <4>3
    <3> QED BY <1>7, <3>1 DEF GraphInv, Kept
  <2> QED BY <1>1, <2>1, <2>2 DEF Kept
<1>10. ASSUME NEW m \in Nodes, NEW r \in ToSet(Subregions[m])
       PROVE  r \in Regions /\ (r \in I <=> Within(m, n))
  BY OwnerIs, WithinRegions DEF I
<1>11. GammaOK'
  <2>1. ASSUME NEW m \in Nodes, Kind[m] = "gamma"
        PROVE  /\ \A r \in ToSet(Subregions[m]) : Matches(OutputOf, results'[r], outputs'[m])
               /\ m \in nodes' =>
                    /\ inputs'[m] # << >> /\ ToSet(Tail(inputs'[m])) \subseteq ToSet(Tail(Inputs[m]))
                    /\ \A r \in ToSet(Subregions[m]) : Matches(InputOf, arguments'[r], Tail(inputs'[m]))
    <3>1. CASE Within(m, n)
      BY <3>1, <1>4, <1>6, <1>7, <1>10, EmptyIs
    <3>2. CASE ~Within(m, n)
      <4>1. /\ inputs'[m] = inputs[m] /\ outputs'[m] = outputs[m]
            /\ \A r \in ToSet(Subregions[m]) : arguments'[r] = arguments[r] /\ results'[r] = results[r]
            /\ m \in nodes' => m \in nodes
        BY <3>2, <1>4, <1>6, <1>7, <1>10
      <4> QED BY <2>1, <4>1 DEF GraphInv, GammaOK
    <3> QED BY <3>1, <3>2
  <2> QED BY <2>1 DEF GammaOK
<1>12. ThetaOK'
  <2>1. ASSUME NEW m \in Nodes, Kind[m] = "theta", NEW o \in ToSet(outputs'[m])
        PROVE  \E i \in ToSet(inputs'[m]) : LoopOutput[i] = o
    BY <2>1, <1>6, EmptyIs DEF GraphInv, ThetaOK
  <2> QED BY <2>1 DEF ThetaOK
<1> QED BY <1>8, <1>9, <1>11, <1>12 DEF GraphInv

-----------------------------------------------------------------------------
(* Inputs and outputs, arguments and results that are removed. *)

Shrink ==
  /\ nodes' = nodes
  /\ inputs' \in [Nodes -> Seq(Members(Inputs))]
  /\ outputs' \in [Nodes -> Seq(Members(Outputs))]
  /\ arguments' \in [Regions -> Seq(Members(Arguments))]
  /\ results' \in [Regions -> Seq(Members(Results))]
  /\ \A n \in Nodes : ToSet(inputs'[n]) \subseteq ToSet(inputs[n])
  /\ \A n \in Nodes : ToSet(outputs'[n]) \subseteq ToSet(outputs[n])
  /\ \A r \in Regions : ToSet(arguments'[r]) \subseteq ToSet(arguments[r])
  /\ \A r \in Regions : ToSet(results'[r]) \subseteq ToSet(results[r])

\* No more than is not needed.
Spare ==
  /\ \A n \in Nodes : (ToSet(outputs[n]) \ ToSet(outputs'[n])) \cap Live = {}
  /\ \A r \in Regions : (ToSet(arguments[r]) \ ToSet(arguments'[r])) \cap Live = {}
  /\ \A n \in Nodes : (ToSet(inputs[n]) \ ToSet(inputs'[n])) \cap Fed = {}
  /\ \A r \in Regions : (ToSet(results[r]) \ ToSet(results'[r])) \cap Fed = {}

LEMMA NoneLeft ==
  ASSUME NEW S, NEW s \in Seq(S), ToSet(s) \subseteq {}
  PROVE  s = << >>
<1>1. \A k \in 1 .. Len(s) : s[k] \in ToSet(s)
  BY DEF ToSet
<1>2. Len(s) = 0
  <2>1. Len(s) \in Nat /\ ~ 1 \in 1 .. Len(s)
    BY <1>1
  <2> QED BY <2>1
<1> QED BY <1>2

LEMMA ShrinkKeeps ==
  ASSUME Shape, Kept, Shrink, Spare, alive' = alive
  PROVE  Shape' /\ Kept'
<1>1. Live' = Live /\ Fed' = Fed
  BY DEF Live, Fed
<1>2. Shape'
  <2>1. \A n \in Nodes : /\ ToSet(inputs'[n]) \subseteq ToSet(Inputs[n])
                         /\ ToSet(outputs'[n]) \subseteq ToSet(Outputs[n])
    BY DEF Shape, Shrink
  <2>2. \A r \in Regions : /\ ToSet(arguments'[r]) \subseteq ToSet(Arguments[r])
                           /\ ToSet(results'[r]) \subseteq ToSet(Results[r])
    BY DEF Shape, Shrink
  <2>3. ASSUME NEW n \in Nodes \ nodes'
        PROVE  inputs'[n] = << >> /\ outputs'[n] = << >>
    <3>1. inputs[n] = << >> /\ outputs[n] = << >>
      BY <2>3 DEF Shape, Shrink
    <3>2. ToSet(inputs'[n]) \subseteq {} /\ ToSet(outputs'[n]) \subseteq {}
      BY <3>1, EmptyIs DEF Shrink
    <3>3. inputs'[n] \in Seq(Members(Inputs)) /\ outputs'[n] \in Seq(Members(Outputs))
      BY DEF Shrink
    <3> QED BY <3>2, <3>3, NoneLeft
  <2> QED BY <2>1, <2>2, <2>3 DEF Shape, Shrink
<1>3. Kept'
  <2>1. \A n \in Nodes : /\ ToSet(Outputs[n]) \cap Live \subseteq ToSet(outputs'[n])
                         /\ ToSet(Inputs[n]) \cap Fed \subseteq ToSet(inputs'[n])
    BY DEF Kept, Spare
  <2>2. \A r \in Regions : /\ ToSet(Arguments[r]) \cap Live \subseteq ToSet(arguments'[r])
                           /\ ToSet(Results[r]) \cap Fed \subseteq ToSet(results'[r])
    BY DEF Kept, Spare
  <2> QED BY <1>1, <2>1, <2>2 DEF Kept
<1> QED BY <1>2, <1>3

\* What needs u belongs to n, when u is part of n.
LEMMA FedBy ==
  ASSUME NEW n \in Nodes, NEW u \in Fed, PartOf(u, n)
  PROVE  \E s \in Live : s \in AllSources /\ u \in Feeds[s]
<1>1. Root \in Regions
  BY OwnershipAssumption
<1>2. u \notin ToSet(Results[Root])
  <2> SUFFICES ASSUME u \in ToSet(Results[Root]) PROVE FALSE
    OBVIOUS
  <2>1. u \notin ToSet(Inputs[n])
    BY <1>1, InputNotResult
  <2>2. PICK r \in ToSet(Subregions[n]) : u \in ToSet(Results[r])
    BY <2>1 DEF PartOf
  <2>3. r \in Regions \ {Root}
    BY OwnerIs
  <2> QED BY <1>1, <2>2, <2>3, Places, OnePlace
<1> QED BY <1>2, LiveTyped DEF Fed, FeedsOf

\* A sequence of a function without some of its elements.
Rows(D, S) == [D -> Seq(S)]
Thins(t, s, x, dead) == t = [s EXCEPT ![x] = Without(@, dead)]

LEMMA ThinnedIs ==
  ASSUME NEW D, NEW S, NEW s \in Rows(D, S), NEW x \in D, NEW dead, NEW t, Thins(t, s, x, dead)
  PROVE  /\ t \in Rows(D, S)
         /\ t[x] = Without(s[x], dead) /\ ToSet(t[x]) = ToSet(s[x]) \ dead
         /\ \A y \in D : y # x => t[y] = s[y]
         /\ \A y \in D : ToSet(t[y]) \subseteq ToSet(s[y])
<1>1. s[x] \in Seq(S)
  BY DEF Rows
<1>2. Without(s[x], dead) \in Seq(S) /\ ToSet(Without(s[x], dead)) = ToSet(s[x]) \ dead
  BY <1>1, WithoutIs
<1>3. t = [y \in D |-> IF y = x THEN Without(s[x], dead) ELSE s[y]]
  BY DEF Thins, Rows
<1>4. \A y \in D : t[y] = IF y = x THEN Without(s[x], dead) ELSE s[y]
  BY <1>3
<1>5. t \in Rows(D, S)
  BY <1>2, <1>3 DEF Rows
<1> QED BY <1>2, <1>4, <1>5

\* Outputs of a loop or phi that are not marked, and their results.
LEMMA RemoveOutputsKeeps ==
  ASSUME GraphInv, alive' = alive,
         NEW n \in Nodes, Kind[n] \in {"theta", "phi"}, NEW dead, dead \subseteq ToSet(outputs[n]),
         \A o \in dead : o \notin Live /\ \A s \in Live :
           /\ Kind[n] = "phi" => RecArgument[o] # s
           /\ Kind[n] = "theta" /\ StandsFor(s, InputOf[s], n) /\ InputOf[s] \in ToSet(Inputs[n])
                => LoopOutput[InputOf[s]] # o,
         RemoveOutputs(n, dead)
  PROVE  GraphInv' /\ Shrink
<1> DEFINE B == Body(n)
           gone == {u \in ToSet(results[B]) : OutputOf[u] \in dead}
<1>1. B \in Regions \ {Root} /\ Owner[B] = n /\ B \in ToSet(Subregions[n])
  BY BodyIs
<1>2. /\ outputs \in [Nodes -> Seq(Members(Outputs))] /\ results \in [Regions -> Seq(Members(Results))]
  BY DEF GraphInv, Shape
<1>3. /\ nodes' = nodes /\ inputs' = inputs /\ arguments' = arguments
      /\ Thins(outputs', outputs, n, dead)
      /\ Thins(results', results, B, gone)
  BY <1>1, <1>2 DEF RemoveOutputs, Thins
<1> HIDE DEF B
<1>4. /\ outputs' \in [Nodes -> Seq(Members(Outputs))]
      /\ ToSet(outputs'[n]) = ToSet(outputs[n]) \ dead
      /\ \A m \in Nodes : m # n => outputs'[m] = outputs[m]
      /\ \A m \in Nodes : ToSet(outputs'[m]) \subseteq ToSet(outputs[m])
  <2> HIDE DEF gone
  <2>1. outputs \in Rows(Nodes, Members(Outputs)) /\ n \in Nodes /\ Thins(outputs', outputs, n, dead)
    BY <1>2, <1>3 DEF Rows
  <2>2. outputs' \in Rows(Nodes, Members(Outputs))
    BY <2>1, ThinnedIs
  <2>3. /\ ToSet(outputs'[n]) = ToSet(outputs[n]) \ dead
        /\ \A y \in Nodes : y # n => outputs'[y] = outputs[y]
        /\ \A y \in Nodes : ToSet(outputs'[y]) \subseteq ToSet(outputs[y])
    BY <2>1, ThinnedIs
  <2> QED BY <2>2, <2>3 DEF Rows
<1>5. /\ results' \in [Regions -> Seq(Members(Results))]
      /\ ToSet(results'[B]) = ToSet(results[B]) \ gone
      /\ \A r \in Regions : r # B => results'[r] = results[r]
      /\ \A r \in Regions : ToSet(results'[r]) \subseteq ToSet(results[r])
  <2> HIDE DEF gone
  <2>1. results \in Rows(Regions, Members(Results)) /\ B \in Regions /\ Thins(results', results, B, gone)
    BY <1>1, <1>2, <1>3 DEF Rows
  <2>2. results' \in Rows(Regions, Members(Results))
    BY <2>1, ThinnedIs
  <2>3. /\ ToSet(results'[B]) = ToSet(results[B]) \ gone
        /\ \A y \in Regions : y # B => results'[y] = results[y]
        /\ \A y \in Regions : ToSet(results'[y]) \subseteq ToSet(results[y])
    BY <2>1, ThinnedIs
  <2> QED BY <2>2, <2>3 DEF Rows
<1>6. Shrink
  BY <1>3, <1>4, <1>5 DEF Shrink, GraphInv, Shape
<1>7. ASSUME NEW u \in gone, u \in Fed
      PROVE  FALSE
  <2>1. u \in ToSet(Results[B]) /\ OutputOf[u] \in dead
    BY <1>1, <1>7 DEF GraphInv, Shape
  <2>2. PICK s \in Live : s \in AllSources /\ u \in Feeds[s]
    BY <1>1, <1>7, <2>1, FedBy DEF PartOf
  <2>3. OutputOf[u] # None
    BY <2>1, OwnershipAssumption, Places, MemberOf DEF GraphInv, Shape
  <2>4. CASE Kind[n] = "phi"
    BY <2>1, <2>2, <2>4, <1>1, FedByResult
  <2>5. CASE Kind[n] = "theta"
    BY <2>1, <2>2, <2>3, <2>5, <1>1, FedByResult
  <2> QED BY <2>4, <2>5
<1>8. Spare
  <2>1. \A m \in Nodes : (ToSet(outputs[m]) \ ToSet(outputs'[m])) \cap Live = {}
    BY <1>4
  <2>2. \A r \in Regions : (ToSet(results[r]) \ ToSet(results'[r])) \cap Fed = {}
    <3> HIDE DEF gone
    <3> QED BY <1>5, <1>7
  <2> QED BY <1>3, <2>1, <2>2 DEF Spare
<1>9. Shape' /\ Kept'
  BY <1>6, <1>8, ShrinkKeeps DEF GraphInv
<1>10. GammaOK'
  <2>1. ASSUME NEW m \in Nodes, Kind[m] = "gamma"
        PROVE  /\ outputs'[m] = outputs[m]
               /\ \A r \in ToSet(Subregions[m]) : results'[r] = results[r]
    <3>1. m # n
      BY <2>1
    <3> QED BY <3>1, <1>1, <1>4, <1>5, OwnerIs
  <2> HIDE DEF gone
  <2> QED BY <2>1, <1>3 DEF GammaOK, GraphInv
<1>11. ThetaOK'
  <2> HIDE DEF gone
  <2> QED BY <1>3, <1>4 DEF ThetaOK, GraphInv
<1> QED BY <1>6, <1>9, <1>10, <1>11 DEF GraphInv

\* Arguments that are not marked, and the inputs they stand for.
LEMMA RemoveInputsKeeps ==
  ASSUME GraphInv, alive' = alive,
         NEW n \in Nodes, Kind[n] \in {"theta", "lambda", "delta", "phi"},
         NEW dead, dead \subseteq ToSet(arguments[Body(n)]),
         \A a \in dead : a \notin Live,
         Kind[n] = "theta" => \A a \in dead :
            LoopOutput[InputOf[a]] \notin Live /\ LoopOutput[InputOf[a]] \notin ToSet(outputs[n]),
         RemoveInputs(n, dead)
  PROVE  GraphInv' /\ Shrink
<1> DEFINE B == Body(n)
           gone == {InputOf[a] : a \in dead}
<1>1. B \in Regions \ {Root} /\ Owner[B] = n /\ B \in ToSet(Subregions[n])
  BY BodyIs
<1>2. /\ inputs \in [Nodes -> Seq(Members(Inputs))] /\ arguments \in [Regions -> Seq(Members(Arguments))]
  BY DEF GraphInv, Shape
<1>3. /\ nodes' = nodes /\ outputs' = outputs /\ results' = results
      /\ Thins(arguments', arguments, B, dead)
      /\ Thins(inputs', inputs, n, gone)
  BY DEF RemoveInputs, Thins
<1> HIDE DEF B
<1>4. /\ inputs' \in [Nodes -> Seq(Members(Inputs))]
      /\ ToSet(inputs'[n]) = ToSet(inputs[n]) \ gone
      /\ \A m \in Nodes : m # n => inputs'[m] = inputs[m]
      /\ \A m \in Nodes : ToSet(inputs'[m]) \subseteq ToSet(inputs[m])
  <2> HIDE DEF gone
  <2>1. inputs \in Rows(Nodes, Members(Inputs)) /\ n \in Nodes /\ Thins(inputs', inputs, n, gone)
    BY <1>2, <1>3 DEF Rows
  <2>2. inputs' \in Rows(Nodes, Members(Inputs))
    BY <2>1, ThinnedIs
  <2>3. /\ ToSet(inputs'[n]) = ToSet(inputs[n]) \ gone
        /\ \A y \in Nodes : y # n => inputs'[y] = inputs[y]
        /\ \A y \in Nodes : ToSet(inputs'[y]) \subseteq ToSet(inputs[y])
    BY <2>1, ThinnedIs
  <2> QED BY <2>2, <2>3 DEF Rows
<1>5. /\ arguments' \in [Regions -> Seq(Members(Arguments))]
      /\ ToSet(arguments'[B]) = ToSet(arguments[B]) \ dead
      /\ \A r \in Regions : r # B => arguments'[r] = arguments[r]
      /\ \A r \in Regions : ToSet(arguments'[r]) \subseteq ToSet(arguments[r])
  <2> HIDE DEF gone
  <2>1. arguments \in Rows(Regions, Members(Arguments)) /\ B \in Regions /\ Thins(arguments', arguments, B, dead)
    BY <1>1, <1>2, <1>3 DEF Rows
  <2>2. arguments' \in Rows(Regions, Members(Arguments))
    BY <2>1, ThinnedIs
  <2>3. /\ ToSet(arguments'[B]) = ToSet(arguments[B]) \ dead
        /\ \A y \in Regions : y # B => arguments'[y] = arguments[y]
        /\ \A y \in Regions : ToSet(arguments'[y]) \subseteq ToSet(arguments[y])
    BY <2>1, ThinnedIs
  <2> QED BY <2>2, <2>3 DEF Rows
<1>6. Shrink
  BY <1>3, <1>4, <1>5 DEF Shrink, GraphInv, Shape
<1>7. ASSUME NEW u \in ToSet(inputs[n]), u \in gone, u \in Fed
      PROVE  FALSE
  <2>1. u \in ToSet(Inputs[n])
    BY DEF GraphInv, Shape
  <2>2. PICK a \in dead : u = InputOf[a]
    BY <1>7
  <2>3. a \in ToSet(Arguments[B]) /\ a \notin Live
    BY <1>1 DEF GraphInv, Shape, B
  <2>4. PICK s \in Live : s \in AllSources /\ u \in Feeds[s]
    BY <1>7, <2>1, FedBy DEF PartOf
  <2>5. ~StandsFor(s, u, n)
    <3> SUFFICES ASSUME StandsFor(s, u, n) PROVE FALSE
      OBVIOUS
    <3>1. a = s
      BY <2>1, <2>2, <2>3, StandsOnce DEF B
    <3> QED BY <3>1, <2>3
  <2>6. Kind[n] = "theta" /\ LoopOutput[u] = s
    BY <2>1, <2>4, <2>5, FedByInput
  <2> QED BY <2>2, <2>6
<1>8. Spare
  <2>1. \A r \in Regions : (ToSet(arguments[r]) \ ToSet(arguments'[r])) \cap Live = {}
    BY <1>5
  <2>2. \A m \in Nodes : (ToSet(inputs[m]) \ ToSet(inputs'[m])) \cap Fed = {}
    <3> HIDE DEF gone
    <3> QED BY <1>4, <1>7
  <2> QED BY <1>3, <2>1, <2>2 DEF Spare
<1>9. Shape' /\ Kept'
  BY <1>6, <1>8, ShrinkKeeps DEF GraphInv
<1>10. GammaOK'
  <2>1. ASSUME NEW m \in Nodes, Kind[m] = "gamma"
        PROVE  /\ inputs'[m] = inputs[m]
               /\ \A r \in ToSet(Subregions[m]) : arguments'[r] = arguments[r]
    <3>1. m # n
      BY <2>1
    <3> QED BY <3>1, <1>1, <1>4, <1>5, OwnerIs
  <2> HIDE DEF gone
  <2> QED BY <2>1, <1>3 DEF GammaOK, GraphInv
<1>11. ThetaOK'
  <2>1. ASSUME NEW m \in Nodes, Kind[m] = "theta", NEW o \in ToSet(outputs[m])
        PROVE  \E i \in ToSet(inputs'[m]) : LoopOutput[i] = o
    <3>1. PICK i \in ToSet(inputs[m]) : LoopOutput[i] = o
      BY <2>1 DEF GraphInv, ThetaOK
    <3>2. m = n => i \notin gone
      BY <2>1, <3>1
    <3> HIDE DEF gone
    <3> QED BY <1>4, <3>1, <3>2
  <2> QED BY <1>3, <2>1 DEF ThetaOK
<1> QED BY <1>6, <1>9, <1>10, <1>11 DEF GraphInv

LEMMA ConsIs ==
  ASSUME NEW S, NEW h \in S, NEW t \in Seq(S)
  PROVE  /\ << h >> \o t \in Seq(S) /\ << h >> \o t # << >>
         /\ Head(<< h >> \o t) = h /\ Tail(<< h >> \o t) = t
         /\ ToSet(<< h >> \o t) = {h} \cup ToSet(t)
<1> DEFINE a == << h >>
<1>1. a \in Seq(S) /\ ToSet(a) = {h}
  BY SingleIs
<1>2. << h >> \o t \in Seq(S) /\ Len(<< h >> \o t) = Len(t) + 1 /\ Len(t) \in Nat
  OBVIOUS
<1>3. Head(<< h >> \o t) = h /\ Tail(<< h >> \o t) = t
  BY <1>2
<1>4. << h >> \o t # << >>
  BY <1>2
<1> HIDE DEF a
<1>5. ToSet(a \o t) = ToSet(a) \cup ToSet(t)
  BY <1>1, ConcatIs
<1> QED BY <1>1, <1>2, <1>3, <1>4, <1>5 DEF a

LEMMA HeadTail ==
  ASSUME NEW S, NEW s \in Seq(S), s # << >>
  PROVE  /\ Head(s) \in S /\ Tail(s) \in Seq(S) /\ ToSet(s) = {Head(s)} \cup ToSet(Tail(s))
<1>1. Head(s) \in S /\ Tail(s) \in Seq(S) /\ s = << Head(s) >> \o Tail(s)
  OBVIOUS
<1> DEFINE h == Head(s)
           t == Tail(s)
<1>2. h \in S /\ t \in Seq(S) /\ s = << h >> \o t
  BY <1>1
<1> HIDE DEF h, t
<1>3. ToSet(s) = {h} \cup ToSet(t)
  BY <1>2, ConsIs
<1> QED BY <1>1, <1>3 DEF h, t

\* The exit variables of a gamma that are not marked.
LEMMA GammaOutputsKeep ==
  ASSUME GraphInv, alive' = alive,
         NEW n \in Nodes, Kind[n] = "gamma", NEW dead, \A o \in dead : o \notin Live,
         nodes' = nodes, inputs' = inputs, arguments' = arguments,
         Thins(outputs', outputs, n, dead),
         results' = [r \in Regions |-> IF r \in ToSet(Subregions[n])
                                       THEN WithoutAt(results[r], outputs[n], dead)
                                       ELSE results[r]]
  PROVE  GraphInv' /\ Shrink
<1>1. /\ outputs \in Rows(Nodes, Members(Outputs)) /\ outputs[n] \in Seq(Members(Outputs))
      /\ \A r \in Regions : results[r] \in Seq(Members(Results))
      /\ \A r \in Regions : ToSet(results[r]) \subseteq ToSet(Results[r])
  BY DEF Rows, GraphInv, Shape
<1>2. Thins(outputs', outputs, n, dead)
  OBVIOUS
<1>3. outputs' \in Rows(Nodes, Members(Outputs))
  BY <1>1, <1>2, ThinnedIs
<1>4. /\ outputs'[n] = Without(outputs[n], dead) /\ ToSet(outputs'[n]) = ToSet(outputs[n]) \ dead
      /\ \A m \in Nodes : m # n => outputs'[m] = outputs[m]
      /\ \A m \in Nodes : ToSet(outputs'[m]) \subseteq ToSet(outputs[m])
  <2>1. outputs \in Rows(Nodes, Members(Outputs)) /\ Thins(outputs', outputs, n, dead)
    BY <1>1, <1>2
  <2>2. outputs'[n] = Without(outputs[n], dead)
    BY <2>1, ThinnedIs
  <2>3. /\ ToSet(outputs'[n]) = ToSet(outputs[n]) \ dead
        /\ \A y \in Nodes : y # n => outputs'[y] = outputs[y]
        /\ \A y \in Nodes : ToSet(outputs'[y]) \subseteq ToSet(outputs[y])
    BY <2>1, ThinnedIs
  <2> QED BY <2>2, <2>3
<1>5. \A r \in Regions : results'[r] = IF r \in ToSet(Subregions[n])
                                       THEN WithoutAt(results[r], outputs[n], dead) ELSE results[r]
  OBVIOUS
<1>6. ASSUME NEW r \in ToSet(Subregions[n])
      PROVE  /\ results'[r] \in Seq(Members(Results))
             /\ ToSet(results'[r]) \subseteq ToSet(results[r])
             /\ Matches(OutputOf, results'[r], outputs'[n])
             /\ \A u \in ToSet(results[r]) \ ToSet(results'[r]) : OutputOf[u] \in dead
  <2>1. r \in Regions /\ results[r] \in Seq(Members(Results))
    BY <1>1, OwnerIs
  <2>2. IsThinned(results'[r], results[r], outputs[n], dead)
    BY <1>5, <2>1 DEF IsThinned
  <2>3. Matches(OutputOf, results[r], outputs[n])
    BY DEF GraphInv, GammaOK
  <2>4. outputs[n] \in Seq(Members(Outputs))
    BY <1>1
  <2>5. /\ results'[r] \in Seq(Members(Results))
        /\ ToSet(results'[r]) \subseteq ToSet(results[r])
        /\ Matches(OutputOf, results'[r], Without(outputs[n], dead))
        /\ \A e \in ToSet(results[r]) \ ToSet(results'[r]) : OutputOf[e] \in dead
    BY <2>1, <2>2, <2>3, <2>4, AlignedStill
  <2> QED BY <1>4, <2>5
<1>7. /\ results' \in [Regions -> Seq(Members(Results))]
      /\ \A r \in Regions : ToSet(results'[r]) \subseteq ToSet(results[r])
  <2>1. \A r \in Regions : /\ results'[r] \in Seq(Members(Results))
                           /\ ToSet(results'[r]) \subseteq ToSet(results[r])
    BY <1>1, <1>5, <1>6
  <2> QED BY <2>1
<1>8. Shrink
  BY <1>3, <1>4, <1>7 DEF Shrink, GraphInv, Shape, Rows
<1>9. Spare
  <2>1. ASSUME NEW r \in Regions, NEW u \in ToSet(results[r]) \ ToSet(results'[r]), u \in Fed
        PROVE  FALSE
    <3>1. r \in ToSet(Subregions[n])
      BY <1>5, <2>1
    <3>2. OutputOf[u] \in dead /\ u \in ToSet(Results[r])
      BY <1>1, <1>6, <2>1, <3>1
    <3>3. PICK s \in Live : s \in AllSources /\ u \in Feeds[s]
      BY <2>1, <3>1, <3>2, FedBy DEF PartOf
    <3>4. OutputOf[u] = s
      BY <3>1, <3>2, <3>3, FedByResult
    <3> QED BY <3>2, <3>4
  <2>2. \A m \in Nodes : (ToSet(outputs[m]) \ ToSet(outputs'[m])) \cap Live = {}
    BY <1>4
  <2>3. \A r \in Regions : (ToSet(results[r]) \ ToSet(results'[r])) \cap Fed = {}
    BY <2>1
  <2> QED BY <2>2, <2>3 DEF Spare
<1>10. Shape' /\ Kept'
  BY <1>8, <1>9, ShrinkKeeps DEF GraphInv
<1>11. GammaOK'
  <2>1. ASSUME NEW m \in Nodes, Kind[m] = "gamma"
        PROVE  \A r \in ToSet(Subregions[m]) : Matches(OutputOf, results'[r], outputs'[m])
    <3>1. CASE m = n
      BY <3>1, <1>6
    <3>2. CASE m # n
      <4>1. \A r \in ToSet(Subregions[m]) : r \in Regions /\ r \notin ToSet(Subregions[n])
        BY <3>2, OwnerIs
      <4>2. outputs'[m] = outputs[m] /\ \A r \in ToSet(Subregions[m]) : results'[r] = results[r]
        BY <3>2, <4>1, <1>4, <1>5
      <4> QED BY <2>1, <4>2 DEF GraphInv, GammaOK
    <3> QED BY <3>1, <3>2
  <2> QED BY <2>1 DEF GraphInv, GammaOK
<1>12. ThetaOK'
  BY <1>4 DEF GraphInv, ThetaOK
<1> QED BY <1>8, <1>10, <1>11, <1>12 DEF GraphInv

\* The entry variables of a gamma none of whose arguments is marked.
LEMMA GammaInputsKeep ==
  ASSUME GraphInv, alive' = alive,
         NEW n \in nodes, Kind[n] = "gamma", NEW dead, dead \subseteq ToSet(Tail(inputs[n])),
         \A i \in dead : \A a \in Live : ~StandsFor(a, i, n),
         nodes' = nodes, outputs' = outputs, results' = results,
         inputs' = [inputs EXCEPT ![n] = << Head(@) >> \o Without(Tail(inputs[n]), dead)],
         arguments' = [r \in Regions |-> IF r \in ToSet(Subregions[n])
                                         THEN WithoutAt(arguments[r], Tail(inputs[n]), dead)
                                         ELSE arguments[r]]
  PROVE  GraphInv' /\ Shrink
<1> DEFINE entries == Tail(inputs[n])
           left == Without(entries, dead)
<1>1. /\ n \in Nodes /\ inputs \in [Nodes -> Seq(Members(Inputs))] /\ inputs[n] \in Seq(Members(Inputs))
      /\ \A r \in Regions : arguments[r] \in Seq(Members(Arguments))
      /\ \A r \in Regions : ToSet(arguments[r]) \subseteq ToSet(Arguments[r])
  BY DEF GraphInv, Shape
<1>2. /\ inputs[n] # << >> /\ ToSet(entries) \subseteq ToSet(Tail(Inputs[n]))
      /\ \A r \in ToSet(Subregions[n]) : Matches(InputOf, arguments[r], entries)
  BY <1>1 DEF GraphInv, GammaOK
<1>3. /\ Head(inputs[n]) \in Members(Inputs) /\ entries \in Seq(Members(Inputs))
      /\ ToSet(inputs[n]) = {Head(inputs[n])} \cup ToSet(entries)
  BY <1>1, <1>2, HeadTail
<1> HIDE DEF entries
<1>4. left \in Seq(Members(Inputs)) /\ ToSet(left) = ToSet(entries) \ dead
  BY <1>3, WithoutIs
<1> DEFINE new == << Head(inputs[n]) >> \o left
<1>5. /\ new \in Seq(Members(Inputs)) /\ new # << >> /\ Tail(new) = left
      /\ ToSet(new) = {Head(inputs[n])} \cup ToSet(left)
  <2> HIDE DEF left
  <2> QED BY <1>3, <1>4, ConsIs
<1>6. \A m \in Nodes : inputs'[m] = IF m = n THEN new ELSE inputs[m]
  BY <1>1 DEF entries
<1>7. inputs' \in [Nodes -> Seq(Members(Inputs))]
  <2> HIDE DEF new
  <2>1. inputs' = [m \in Nodes |-> IF m = n THEN new ELSE inputs[m]]
    BY <1>1 DEF new, entries
  <2> QED BY <1>1, <1>5, <2>1
<1>8. \A r \in Regions : arguments'[r] = IF r \in ToSet(Subregions[n])
                                         THEN WithoutAt(arguments[r], entries, dead) ELSE arguments[r]
  BY DEF entries
<1> HIDE DEF left, new
<1>9. ASSUME NEW r \in ToSet(Subregions[n])
      PROVE  /\ arguments'[r] \in Seq(Members(Arguments))
             /\ ToSet(arguments'[r]) \subseteq ToSet(arguments[r])
             /\ Matches(InputOf, arguments'[r], left)
             /\ \A a \in ToSet(arguments[r]) \ ToSet(arguments'[r]) : InputOf[a] \in dead
  <2>1. r \in Regions /\ arguments[r] \in Seq(Members(Arguments))
    BY <1>1, OwnerIs
  <2>2. IsThinned(arguments'[r], arguments[r], entries, dead)
    BY <1>8, <2>1 DEF IsThinned
  <2>3. Matches(InputOf, arguments[r], entries)
    BY <1>2
  <2>4. /\ arguments'[r] \in Seq(Members(Arguments))
        /\ ToSet(arguments'[r]) \subseteq ToSet(arguments[r])
        /\ Matches(InputOf, arguments'[r], Without(entries, dead))
        /\ \A e \in ToSet(arguments[r]) \ ToSet(arguments'[r]) : InputOf[e] \in dead
    BY <1>3, <2>1, <2>2, <2>3, AlignedStill
  <2> QED BY <2>4 DEF left
<1>10. /\ arguments' \in [Regions -> Seq(Members(Arguments))]
       /\ \A r \in Regions : ToSet(arguments'[r]) \subseteq ToSet(arguments[r])
  <2>1. \A r \in Regions : /\ arguments'[r] \in Seq(Members(Arguments))
                           /\ ToSet(arguments'[r]) \subseteq ToSet(arguments[r])
    BY <1>1, <1>8, <1>9
  <2> QED BY <2>1
<1>11. \A m \in Nodes : ToSet(inputs'[m]) \subseteq ToSet(inputs[m])
  BY <1>3, <1>4, <1>5, <1>6
<1>12. Shrink
  BY <1>7, <1>10, <1>11 DEF Shrink, GraphInv, Shape
<1>13. Spare
  <2>1. ASSUME NEW r \in Regions, NEW a \in ToSet(arguments[r]) \ ToSet(arguments'[r]), a \in Live
        PROVE  FALSE
    <3>1. r \in ToSet(Subregions[n])
      BY <1>8, <2>1
    <3>2. InputOf[a] \in dead /\ StandsFor(a, InputOf[a], n)
      BY <1>1, <1>9, <2>1, <3>1 DEF StandsFor
    <3> QED BY <2>1, <3>2
  <2>2. ASSUME NEW m \in Nodes, NEW u \in ToSet(inputs[m]) \ ToSet(inputs'[m]), u \in Fed
        PROVE  FALSE
    <3>1. m = n /\ u \in dead /\ u \in ToSet(entries)
      BY <1>3, <1>4, <1>5, <1>6, <2>2
    <3>2. u \in ToSet(Inputs[n]) /\ u # Inputs[n][1]
      BY <1>1, <1>2, <3>1, GammaIs
    <3>3. PICK s \in Live : s \in AllSources /\ u \in Feeds[s]
      BY <1>1, <2>2, <3>2, FedBy DEF PartOf
    <3>4. StandsFor(s, u, n)
      BY <1>1, <3>2, <3>3, FedByInput
    <3> QED BY <3>1, <3>4
  <2>3. \A r \in Regions : (ToSet(arguments[r]) \ ToSet(arguments'[r])) \cap Live = {}
    BY <2>1
  <2>4. \A m \in Nodes : (ToSet(inputs[m]) \ ToSet(inputs'[m])) \cap Fed = {}
    BY <2>2
  <2> QED BY <2>3, <2>4 DEF Spare
<1>14. Shape' /\ Kept'
  BY <1>12, <1>13, ShrinkKeeps DEF GraphInv
<1>15. GammaOK'
  <2>1. ASSUME NEW m \in Nodes, Kind[m] = "gamma", m \in nodes
        PROVE  /\ inputs'[m] # << >> /\ ToSet(Tail(inputs'[m])) \subseteq ToSet(Tail(Inputs[m]))
               /\ \A r \in ToSet(Subregions[m]) : Matches(InputOf, arguments'[r], Tail(inputs'[m]))
    <3>1. CASE m = n
      BY <3>1, <1>2, <1>4, <1>5, <1>6, <1>9
    <3>2. CASE m # n
      <4>1. \A r \in ToSet(Subregions[m]) : r \in Regions /\ r \notin ToSet(Subregions[n])
        <5>1. n \in Nodes
          BY <1>1
        <5>2. \A r \in ToSet(Subregions[n]) : Owner[r] = n
          BY <5>1, OwnerIs
        <5>3. \A r \in ToSet(Subregions[m]) : r \in Regions /\ Owner[r] = m
          BY OwnerIs
        <5> QED BY <3>2, <5>2, <5>3
      <4>2. inputs'[m] = inputs[m] /\ \A r \in ToSet(Subregions[m]) : arguments'[r] = arguments[r]
        BY <3>2, <4>1, <1>6, <1>8
      <4> QED BY <2>1, <4>2 DEF GraphInv, GammaOK
    <3> QED BY <3>1, <3>2
  <2> QED BY <2>1 DEF GraphInv, GammaOK
<1>16. ThetaOK'
  <2>1. \A m \in Nodes : Kind[m] = "theta" => inputs'[m] = inputs[m]
    BY <1>6
  <2> QED BY <2>1 DEF GraphInv, ThetaOK
<1> QED BY <1>12, <1>14, <1>15, <1>16 DEF GraphInv

\* The imports that are not marked.
LEMMA ImportsKeep ==
  ASSUME GraphInv, alive' = alive, NEW dead, \A a \in dead : a \notin Live,
         nodes' = nodes, outputs' = outputs, results' = results, inputs' = inputs,
         Thins(arguments', arguments, Root, dead)
  PROVE  GraphInv' /\ Shrink
<1>1. arguments \in Rows(Regions, Members(Arguments)) /\ Root \in Regions
  BY OwnershipAssumption DEF Rows, GraphInv, Shape
<1>2. Thins(arguments', arguments, Root, dead)
  OBVIOUS
<1>3. arguments' \in Rows(Regions, Members(Arguments))
  BY <1>1, <1>2, ThinnedIs
<1>4. /\ ToSet(arguments'[Root]) = ToSet(arguments[Root]) \ dead
      /\ \A r \in Regions : r # Root => arguments'[r] = arguments[r]
      /\ \A r \in Regions : ToSet(arguments'[r]) \subseteq ToSet(arguments[r])
  <2>1. /\ arguments \in Rows(Regions, Members(Arguments)) /\ Root \in Regions
        /\ Thins(arguments', arguments, Root, dead)
    BY <1>1, <1>2
  <2>2. /\ ToSet(arguments'[Root]) = ToSet(arguments[Root]) \ dead
        /\ \A y \in Regions : y # Root => arguments'[y] = arguments[y]
        /\ \A y \in Regions : ToSet(arguments'[y]) \subseteq ToSet(arguments[y])
    BY <2>1, ThinnedIs
  <2> QED BY <2>2
<1>5. Shrink
  BY <1>3, <1>4 DEF Shrink, GraphInv, Shape, Rows
<1>6. Spare
  BY <1>4 DEF Spare
<1>7. Shape' /\ Kept'
  BY <1>5, <1>6, ShrinkKeeps DEF GraphInv
<1>8. GammaOK'
  <2>1. \A m \in Nodes : \A r \in ToSet(Subregions[m]) : arguments'[r] = arguments[r]
    BY <1>4, OwnerIs
  <2> QED BY <2>1 DEF GraphInv, GammaOK
<1>9. ThetaOK'
  BY DEF GraphInv, ThetaOK
<1> QED BY <1>5, <1>7, <1>8, <1>9 DEF GraphInv

-----------------------------------------------------------------------------
(* The calls of the sweep. *)

Ops ==
  {"run", "prune", "collect", "nodes", "gamma_inputs", "theta_inputs", "context_inputs",
   "phi_arguments", "imports"}

CallType ==
  [op : Ops, at : Nodes \cup Regions, set : SUBSET (Everything \cup Members(Inputs))]

\* What a call relies on when it is made.
CallOK(c) ==
  /\ c.op \in {"collect", "nodes"} => c.at \in Regions
  /\ c.op = "nodes" =>
       /\ c.set \subseteq Nodes
       /\ \A n \in NodesIn(c.at) \ c.set : ToSet(Outputs[n]) \cap Live # {}
  /\ c.op = "gamma_inputs" =>
       c.at \in Nodes /\ Kind[c.at] = "gamma" /\ ToSet(Outputs[c.at]) \cap Live # {}
  /\ c.op = "theta_inputs" =>
       /\ c.at \in Nodes /\ Kind[c.at] = "theta"
       /\ \A i \in c.set : LoopOutput[i] \notin Live /\ LoopOutput[i] \notin ToSet(outputs[c.at])
  /\ c.op = "context_inputs" => c.at \in Nodes /\ Kind[c.at] \in {"lambda", "delta"}
  /\ c.op = "phi_arguments" => c.at \in Nodes /\ Kind[c.at] = "phi"

GoodCalls == {c \in CallType : CallOK(c)}
WorkOK    == work \in Seq(GoodCalls)

LEMMA HeadTailSeq ==
  ASSUME NEW S, NEW w \in Seq(S), w # << >>
  PROVE  Head(w) \in S /\ Tail(w) \in Seq(S)
OBVIOUS

LEMMA ThenIs ==
  ASSUME NEW S, NEW w \in Seq(S), NEW calls \in Seq(S), NEW e \in S
  PROVE  calls \o << e >> \o w \in Seq(S)
OBVIOUS

LEMMA SweepRegionsAre ==
  ASSUME NEW S, NEW R, NEW rs \in Seq(R),
         \A r \in R : Call("prune", r, {}) \in S /\ Call("collect", r, {}) \in S
  PROVE  SweepRegions(rs) \in Seq(S)
<1>1. ASSUME NEW k \in 1 .. 2 * Len(rs)
      PROVE  SweepRegion(rs[(k + 1) \div 2])[2 - (k % 2)] \in S
  <2>1. Len(rs) \in Nat /\ k \in Nat /\ 1 =< k /\ k =< 2 * Len(rs)
    OBVIOUS
  <2>2. (k + 1) \div 2 \in 1 .. Len(rs)
    BY <2>1
  <2>3. 2 - (k % 2) \in {1, 2}
    BY <2>1
  <2> DEFINE r == rs[(k + 1) \div 2]
             j == 2 - (k % 2)
  <2>4. r \in R
    BY <2>2
  <2> HIDE DEF r, j
  <2>5. SweepRegion(r)[j] \in S
    <3>1. j \in {1, 2}
      BY <2>3 DEF j
    <3>2. Call("prune", r, {}) \in S /\ Call("collect", r, {}) \in S
      BY <2>4
    <3> QED BY <3>1, <3>2 DEF SweepRegion
  <2> QED BY <2>5 DEF r, j
<1>2. 2 * Len(rs) \in Nat
  OBVIOUS
<1> DEFINE c == [k \in 1 .. 2 * Len(rs) |-> SweepRegion(rs[(k + 1) \div 2])[2 - (k % 2)]]
<1>3. c \in [1 .. 2 * Len(rs) -> S]
  BY <1>1
<1> HIDE DEF c
<1>4. c \in Seq(S)
  BY <1>2, <1>3
<1> QED BY <1>4 DEF SweepRegions, c

\* The calls without conditions.
LEMMA PlainCalls ==
  ASSUME NEW r \in Regions
  PROVE  /\ \A op \in {"run", "prune", "collect", "imports"} : Call(op, r, {}) \in GoodCalls
         /\ NodesIn(r) \subseteq Nodes => Call("nodes", r, NodesIn(r)) \in GoodCalls
<1>1. ASSUME NEW op \in {"run", "prune", "collect", "imports"}
      PROVE  Call(op, r, {}) \in GoodCalls
  <2>1. Call(op, r, {}) \in CallType
    BY DEF Call, CallType, Ops
  <2>2. CallOK(Call(op, r, {}))
    BY DEF Call, CallOK
  <2> QED BY <2>1, <2>2 DEF GoodCalls
<1>2. ASSUME NodesIn(r) \subseteq Nodes
      PROVE  Call("nodes", r, NodesIn(r)) \in GoodCalls
  <2>1. Call("nodes", r, NodesIn(r)) \in CallType
    BY <1>2 DEF Call, CallType, Ops, Everything
  <2>2. CallOK(Call("nodes", r, NodesIn(r)))
    BY <1>2 DEF Call, CallOK
  <2> QED BY <2>1, <2>2 DEF GoodCalls
<1> QED BY <1>1, <1>2

\* The loop of SweepRegion goes on behind a node that has been destroyed, or that
\* is needed.
LEMMA LoopGoesOn ==
  ASSUME NEW c \in CallType, NEW n, c.op = "nodes", CallOK(c)',
         n \notin nodes' \/ ToSet(Outputs[n]) \cap Live' # {}
  PROVE  [c EXCEPT !.set = @ \ {n}] \in GoodCalls'
<1> DEFINE d == [c EXCEPT !.set = @ \ {n}]
<1>1. d.op = "nodes" /\ d.at = c.at /\ d.set = c.set \ {n}
  BY DEF CallType
<1>2. d \in CallType
  BY DEF CallType
<1> HIDE DEF d
<1>3. PICK e : e = d
  OBVIOUS
<1>4. /\ c.set \subseteq Nodes
      /\ \A m \in NodesIn(c.at)' \ c.set : ToSet(Outputs[m]) \cap Live' # {}
  BY DEF CallOK
<1>5. \A m \in NodesIn(c.at)' : m \in nodes'
  BY DEF NodesIn
<1>6. \A m \in NodesIn(c.at)' \ d.set : ToSet(Outputs[m]) \cap Live' # {}
  BY <1>1, <1>4, <1>5
<1>7. CallOK(e)'
  BY <1>1, <1>3, <1>4, <1>6 DEF CallOK
<1>8. e \in CallType'
  BY <1>2, <1>3 DEF CallType, Everything
<1>9. e \in GoodCalls'
  BY <1>7, <1>8 DEF GoodCalls
<1> QED BY <1>3, <1>9 DEF d

\* Nodes and outputs only go away.
Dwindles ==
  nodes' \subseteq nodes /\ \A n \in Nodes : ToSet(outputs'[n]) \subseteq ToSet(outputs[n])

\* What a call relies on stays true.
LEMMA CallsStay ==
  ASSUME alive' = alive, Dwindles
  PROVE  GoodCalls \subseteq GoodCalls'
<1>1. Live' = Live
  BY DEF Live
<1>2. CallType' = CallType
  BY DEF CallType, Everything
<1>3. ASSUME NEW c \in CallType, CallOK(c)
      PROVE  CallOK(c)'
  <2>1. NodesIn(c.at)' \subseteq NodesIn(c.at)
    BY DEF NodesIn, Dwindles
  <2> QED BY <1>1, <1>3, <2>1 DEF CallOK, Dwindles
<1> QED BY <1>2, <1>3 DEF GoodCalls

IInv == MarkInv /\ GraphInv /\ WorkOK

\* What every step of the sweep shares.
LEMMA SweepStep ==
  ASSUME IInv, marks = << >>, work # << >>, alive' = alive, marks' = marks, origin' = origin,
         Dwindles
  PROVE  /\ MarkInv' /\ Head(work) \in GoodCalls /\ GoodCalls \subseteq GoodCalls'
         /\ work \in Seq(GoodCalls') /\ Head(work) \in GoodCalls' /\ Tail(work) \in Seq(GoodCalls')
<1>1. MarkInv'
  BY MarksStay DEF IInv
<1> DEFINE S == GoodCalls
           T == GoodCalls'
<1>2. S \subseteq T
  BY CallsStay
<1>3. work \in Seq(S)
  BY DEF IInv, WorkOK
<1> HIDE DEF S, T
<1>4. work \in Seq(T)
  BY <1>2, <1>3, SeqWithin
<1>5. Head(work) \in S /\ Head(work) \in T /\ Tail(work) \in Seq(T)
  BY <1>3, <1>4, HeadTailSeq
<1> QED BY <1>1, <1>2, <1>4, <1>5 DEF S, T

LEMMA GraphStays ==
  ASSUME GraphInv, UNCHANGED graph, alive' = alive
  PROVE  GraphInv' /\ origin' = origin /\ nodes' = nodes /\ outputs' = outputs /\ Dwindles
<1>1. /\ nodes' = nodes /\ inputs' = inputs /\ outputs' = outputs /\ arguments' = arguments
      /\ results' = results /\ origin' = origin
  BY DEF graph
<1>2. Live' = Live /\ Fed' = Fed
  BY DEF Live, Fed
<1>3. Shape' /\ Kept'
  BY <1>1, <1>2 DEF GraphInv, Shape, Kept
<1>4. GammaOK' /\ ThetaOK'
  BY <1>1 DEF GraphInv, GammaOK, ThetaOK
<1> QED BY <1>1, <1>3, <1>4 DEF GraphInv, Dwindles

\* The graph that the pass starts with.
LEMMA WholeGraph == Whole => GraphInv
<1> SUFFICES ASSUME Whole PROVE GraphInv
  OBVIOUS
<1>1. /\ nodes = Nodes /\ inputs = Inputs /\ outputs = Outputs
      /\ arguments = Arguments /\ results = Results
  BY DEF Whole
<1>2. Shape
  <2>1. \A n \in Nodes : RegionOf[n] # Root => Owner[RegionOf[n]] \in Nodes
    BY Places, OwnerOf
  <2> QED BY <1>1, <2>1, OwnershipAssumption DEF Shape
<1>3. Kept
  BY <1>1 DEF Kept
<1>4. GammaOK
  BY <1>1, GammaIs DEF GammaOK
<1>5. ThetaOK
  BY <1>1, ThetaIs DEF ThetaOK
<1> QED BY <1>2, <1>3, <1>4, <1>5 DEF GraphInv

-----------------------------------------------------------------------------
(* The steps of the sweep. *)

\* The sweep of a region.
LEMMA SweepRegionCalls ==
  ASSUME NEW r \in Regions
  PROVE  SweepRegion(r) \in Seq(GoodCalls)
<1> DEFINE a == Call("prune", r, {})
           b == Call("collect", r, {})
           S == GoodCalls
<1>1. a \in S /\ b \in S
  BY PlainCalls
<1> HIDE DEF a, b, S
<1>2. << a, b >> \in Seq(S)
  BY <1>1
<1> QED BY <1>2 DEF SweepRegion, a, b, S

LEMMA StartSweepKeeps ==
  ASSUME IInv, StartSweep
  PROVE  IInv'
<1>1. /\ marks = << >> /\ work # << >> /\ alive' = alive /\ marks' = marks
      /\ UNCHANGED graph /\ work' = SweepRegion(Root) \o << Call("imports", Root, {}) >>
  BY DEF StartSweep
<1>2. GraphInv' /\ origin' = origin /\ Dwindles
  BY <1>1, GraphStays DEF IInv
<1>3. MarkInv' /\ GoodCalls \subseteq GoodCalls'
  BY <1>1, <1>2, SweepStep
<1>4. Root \in Regions
  BY OwnershipAssumption
<1> DEFINE a == SweepRegion(Root)
           c == Call("imports", Root, {})
           S == GoodCalls
           T == GoodCalls'
<1>5. a \in Seq(S) /\ c \in S
  BY <1>4, SweepRegionCalls, PlainCalls
<1>6. S \subseteq T
  BY <1>3
<1>7. work' = a \o << c >>
  BY <1>1
<1> HIDE DEF a, c, S, T
<1>8. a \o << c >> \in Seq(S)
  BY <1>5
<1>9. work' \in Seq(T)
  BY <1>6, <1>7, <1>8, SeqWithin
<1> QED BY <1>2, <1>3, <1>9 DEF IInv, WorkOK, T

\* A node is destroyed that no output is needed of.
LEMMA DestroyShrinks ==
  ASSUME Shape, NEW n, Destroy(n)
  PROVE  origin' = origin /\ Dwindles
<1>1. \E x : outputs' = [y \in DOMAIN outputs |-> IF y \in x THEN << >> ELSE outputs[y]]
  BY DEF Destroy
<1>2. DOMAIN outputs = Nodes
  BY DEF Shape
<1>3. \A m \in Nodes : outputs'[m] \in {<< >>, outputs[m]}
  BY <1>1, <1>2
<1>4. nodes' \subseteq nodes /\ origin' = origin
  BY DEF Destroy
<1> QED BY <1>3, <1>4, EmptyIs DEF Dwindles

LEMMA PruneKeeps ==
  ASSUME IInv, Prune
  PROVE  IInv'
<1>1. /\ marks = << >> /\ work # << >> /\ alive' = alive /\ marks' = marks
  BY DEF Prune, Calling
<1>2. CASE Returning /\ UNCHANGED graph
  <2>1. GraphInv' /\ origin' = origin /\ Dwindles
    BY <1>2, <1>1, GraphStays DEF IInv
  <2>2. MarkInv' /\ Tail(work) \in Seq(GoodCalls')
    BY <1>1, <2>1, SweepStep
  <2> QED BY <1>2, <2>1, <2>2 DEF IInv, WorkOK, Returning
<1>3. ASSUME NEW n \in Bottom(Head(work).at), Destroy(n), work' = work
      PROVE  IInv'
  <2>1. n \in Nodes /\ ToSet(outputs[n]) \cap Used = {}
    BY <1>3 DEF Bottom, IInv, GraphInv, Shape
  <2>2. /\ Reached(origin, Live, Live) /\ origin \in Wirings
        /\ ToSet(Outputs[n]) \cap Live = {}
    BY <1>1, <2>1, LiveIsUsed DEF IInv
  <2>3. GraphInv'
    BY <1>1, <1>3, <2>1, <2>2, DestroyKeeps DEF IInv
  <2>4. origin' = origin /\ Dwindles
    BY <1>3, DestroyShrinks DEF IInv, GraphInv
  <2>5. MarkInv' /\ work \in Seq(GoodCalls')
    BY <1>1, <2>4, SweepStep
  <2> QED BY <1>3, <2>3, <2>5 DEF IInv, WorkOK
<1>4. \/ Returning /\ UNCHANGED graph
      \/ \E n \in Bottom(Head(work).at) : Destroy(n) /\ work' = work
  BY DEF Prune
<1> QED BY <1>2, <1>3, <1>4

LEMMA CollectNodesKeeps ==
  ASSUME IInv, CollectNodes
  PROVE  IInv'
<1>1. /\ marks = << >> /\ work # << >> /\ alive' = alive /\ marks' = marks /\ UNCHANGED graph
      /\ Head(work).op = "collect"
      /\ work' = << Call("nodes", Head(work).at, NodesIn(Head(work).at)) >> \o Tail(work)
  BY DEF CollectNodes, Calling
<1>2. GraphInv' /\ origin' = origin /\ Dwindles
  BY <1>1, GraphStays DEF IInv
<1>3. /\ MarkInv' /\ GoodCalls \subseteq GoodCalls' /\ Head(work) \in GoodCalls
      /\ Tail(work) \in Seq(GoodCalls')
  BY <1>1, <1>2, SweepStep
<1> DEFINE c == Call("nodes", Head(work).at, NodesIn(Head(work).at))
           w == Tail(work)
           T == GoodCalls'
<1>4. c \in GoodCalls
  <2>1. Head(work).at \in Regions
    BY <1>1, <1>3 DEF GoodCalls, CallOK
  <2>2. NodesIn(Head(work).at) \subseteq Nodes
    BY DEF NodesIn, IInv, GraphInv, Shape
  <2> QED BY <2>1, <2>2, PlainCalls
<1>5. c \in T /\ w \in Seq(T) /\ work' = << c >> \o w
  BY <1>1, <1>3, <1>4
<1> HIDE DEF c, w, T
<1>6. work' \in Seq(T)
  BY <1>5, ConsIs
<1> QED BY <1>2, <1>3, <1>6 DEF IInv, WorkOK, T

\* A call returns that leaves the graph as it is.
LEMMA ReturnKeeps ==
  ASSUME IInv, marks = << >>, work # << >>, alive' = alive, marks' = marks, UNCHANGED graph, Returning
  PROVE  IInv'
<1>1. GraphInv' /\ origin' = origin /\ Dwindles
  BY GraphStays DEF IInv
<1>2. MarkInv' /\ Tail(work) \in Seq(GoodCalls')
  BY <1>1, SweepStep
<1> QED BY <1>1, <1>2 DEF IInv, WorkOK, Returning

\* A call returns that has removed something.
LEMMA ShrinkReturns ==
  ASSUME IInv, marks = << >>, work # << >>, alive' = alive, marks' = marks, origin' = origin,
         GraphInv', Shrink, Returning
  PROVE  IInv'
<1>1. Dwindles
  BY DEF Shrink, Dwindles
<1>2. MarkInv' /\ Tail(work) \in Seq(GoodCalls')
  BY <1>1, SweepStep
<1> QED BY <1>2 DEF IInv, WorkOK, Returning

\* The loop of SweepRegion goes on behind n, after the calls for n.
LEMMA ThenKeeps ==
  ASSUME IInv, marks = << >>, work # << >>, alive' = alive, marks' = marks, origin' = origin,
         GraphInv', Head(work).op = "nodes",
         Dwindles, NEW n, n \notin nodes' \/ ToSet(Outputs[n]) \cap Live # {},
         NEW calls \in Seq(GoodCalls'), Then(n, calls)
  PROVE  IInv'
<1> DEFINE T == GoodCalls'
           e == [Head(work) EXCEPT !.set = @ \ {n}]
           w == Tail(work)
<1>1. MarkInv' /\ GoodCalls \subseteq T /\ w \in Seq(T) /\ Head(work) \in GoodCalls
  BY SweepStep
<1>2. e \in T
  <2>1. PICK c : c = Head(work)
    OBVIOUS
  <2>2. c \in CallType /\ c.op = "nodes" /\ CallOK(c)'
    <3>1. c \in GoodCalls /\ c \in T
      BY <1>1, <2>1
    <3> QED BY <2>1, <3>1 DEF GoodCalls
  <2>3. Live' = Live
    BY DEF Live
  <2>4. [c EXCEPT !.set = @ \ {n}] \in T
    BY <2>2, <2>3, LoopGoesOn
  <2> QED BY <2>1, <2>4
<1>3. work' = calls \o << e >> \o w /\ calls \in Seq(T)
  BY DEF Then
<1> HIDE DEF T, e, w
<1>4. work' \in Seq(T)
  BY <1>1, <1>2, <1>3, ThenIs
<1> QED BY <1>1, <1>4 DEF IInv, WorkOK, T

LEMMA CallsEnd ==
  ASSUME NEW S, NEW T, S \subseteq T, NEW a \in Seq(S), NEW c \in T
  PROVE  a \o << c >> \in Seq(T)
<1>1. a \in Seq(T)
  BY SeqWithin
<1> QED BY <1>1

\* What the loop of SweepRegion knows of the node that it looks at.
LEMMA Visited ==
  ASSUME IInv, Calling("nodes"), NEW n \in Deepest
  PROVE  /\ n \in Nodes /\ marks = << >> /\ work # << >> /\ Head(work).op = "nodes"
         /\ GraphInv /\ Shape /\ Kept
         /\ \A o \in ToSet(outputs[n]) : o \in ToSet(Outputs[n]) /\ (IsAlive(o) <=> o \in Live)
         /\ \A a \in Members(Arguments) : IsAlive(a) <=> a \in Live
<1>1. marks = << >> /\ work # << >> /\ Head(work).op = "nodes"
  BY DEF Calling
<1>2. Head(work) \in GoodCalls
  BY <1>1, HeadTailSeq DEF IInv, WorkOK
<1>3. n \in Nodes
  BY <1>1, <1>2 DEF Deepest, GoodCalls, CallOK
<1>4. GraphInv /\ Shape /\ Kept
  BY DEF IInv, GraphInv
<1>5. /\ \A o \in ToSet(outputs[n]) : IsAlive(o) <=> o \in Live
      /\ \A a \in Members(Arguments) : IsAlive(a) <=> a \in Live
  BY <1>3, <1>4, AliveIs
<1>6. ToSet(outputs[n]) \subseteq ToSet(Outputs[n])
  BY <1>3, <1>4 DEF Shape
<1> QED BY <1>1, <1>3, <1>4, <1>5, <1>6

\* A node is alive when an output of it is marked.
LEMMA VisitedNeeded ==
  ASSUME IInv, Calling("nodes"), NEW n \in Deepest
  PROVE  IsAliveNode(n) => ToSet(Outputs[n]) \cap Live # {}
<1> SUFFICES ASSUME IsAliveNode(n) PROVE ToSet(Outputs[n]) \cap Live # {}
  OBVIOUS
<1>1. Shape /\ \A o \in ToSet(outputs[n]) : o \in ToSet(Outputs[n]) /\ (IsAlive(o) <=> o \in Live)
  BY Visited
<1>2. CASE Kind[n] # "simple"
  BY <1>1, <1>2 DEF IsAliveNode
<1>3. CASE Kind[n] = "simple"
  <2>1. n \in alive
    BY <1>3 DEF IsAliveNode
  <2>2. n \in Nodes /\ alive \subseteq StaticMarks
    BY Visited DEF IInv, MarkInv
  <2>3. PICK s \in AllSources : StaticMark(s) = n
    BY <2>1, <2>2 DEF StaticMarks
  <2>4. s \in Live /\ s # n
    BY <2>1, <2>2, <2>3, OwnershipAssumption DEF Live, LiveIn, AllSources
  <2>5. PICK m \in Nodes : s \in ToSet(Outputs[m])
    BY <2>3, <2>4 DEF StaticMark
  <2>6. \A k \in Nodes : s \in ToSet(Outputs[k]) => k = m
    BY <2>5, Places, OnePlace
  <2>7. m = n
    BY <2>3, <2>4, <2>6 DEF StaticMark
  <2> QED BY <2>4, <2>5, <2>7
<1> QED BY <1>2, <1>3

LEMMA RemoveDeadKeeps ==
  ASSUME IInv, Calling("nodes"), NEW n \in Deepest, RemoveDead(n), alive' = alive, marks' = marks
  PROVE  IInv'
<1>1. /\ n \in Nodes /\ marks = << >> /\ work # << >> /\ Head(work).op = "nodes"
      /\ GraphInv /\ Shape /\ Kept
      /\ \A o \in ToSet(outputs[n]) : o \in ToSet(Outputs[n]) /\ (IsAlive(o) <=> o \in Live)
  BY Visited
<1>2. ~IsAliveNode(n) /\ Destroy(n) /\ Then(n, << >>)
  BY DEF RemoveDead
<1>3. ToSet(Outputs[n]) \cap Live = {}
  <2>1. CASE Kind[n] = "simple"
    <3>1. n \notin alive
      BY <1>2, <2>1 DEF IsAliveNode
    <3>2. ASSUME NEW o \in ToSet(Outputs[n])
          PROVE  StaticMark(o) = n
      <4>1. \A m \in Nodes : o \in ToSet(Outputs[m]) => m = n
        BY <1>1, Places, OnePlace
      <4> QED BY <1>1, <2>1, <4>1 DEF StaticMark
    <3> QED BY <3>1, <3>2 DEF Live, LiveIn
  <2>2. CASE Kind[n] # "simple"
    <3>1. \A o \in ToSet(outputs[n]) : o \notin Live
      BY <1>1, <1>2, <2>2 DEF IsAliveNode
    <3>2. ToSet(Outputs[n]) \cap Live \subseteq ToSet(outputs[n])
      BY <1>1 DEF Kept
    <3> QED BY <3>1, <3>2
  <2> QED BY <2>1, <2>2
<1>4. Reached(origin, Live, Live) /\ origin \in Wirings
  BY <1>1, LiveIsUsed DEF IInv
<1>5. GraphInv'
  BY <1>1, <1>2, <1>3, <1>4, DestroyKeeps
<1>6. origin' = origin /\ Dwindles
  BY <1>1, <1>2, DestroyShrinks
<1>7. << >> \in Seq(GoodCalls')
  BY EmptyIs
<1>8. n \notin nodes'
  BY <1>2 DEF Destroy
<1> QED BY <1>1, <1>2, <1>5, <1>6, <1>7, <1>8, ThenKeeps

\* The calls for a node that stays as it is.
LEMMA UnchangedKeeps ==
  ASSUME IInv, Calling("nodes"), NEW n \in Deepest, UNCHANGED graph, alive' = alive, marks' = marks,
         IsAliveNode(n), NEW calls \in Seq(GoodCalls), Then(n, calls)
  PROVE  IInv'
<1>1. n \in Nodes /\ marks = << >> /\ work # << >> /\ Head(work).op = "nodes"
  BY Visited
<1>2. GraphInv' /\ origin' = origin /\ Dwindles
  BY GraphStays DEF IInv
<1> DEFINE S == GoodCalls
           T == GoodCalls'
<1>3. S \subseteq T /\ calls \in Seq(S)
  BY <1>1, <1>2, SweepStep
<1> HIDE DEF S, T
<1>4. calls \in Seq(T)
  BY <1>3, SeqWithin
<1>5. ToSet(Outputs[n]) \cap Live # {}
  BY VisitedNeeded
<1> QED BY <1>1, <1>2, <1>4, <1>5, ThenKeeps DEF T

LEMMA SkipSimpleKeeps ==
  ASSUME IInv, Calling("nodes"), NEW n \in Deepest, SkipSimple(n), alive' = alive, marks' = marks
  PROVE  IInv'
<1>1. << >> \in Seq(GoodCalls) /\ Then(n, << >>) /\ UNCHANGED graph /\ IsAliveNode(n)
  BY EmptyIs DEF SkipSimple
<1> QED BY <1>1, UnchangedKeeps

\* The calls for the inputs of a lambda or delta.
LEMMA ContextCall ==
  ASSUME NEW n \in Nodes, Kind[n] \in {"lambda", "delta"}
  PROVE  Call("context_inputs", n, {}) \in GoodCalls
<1> DEFINE c == Call("context_inputs", n, {})
<1>1. c \in CallType
  BY DEF Call, CallType, Ops
<1>2. c.op = "context_inputs" /\ c.at = n
  BY DEF Call
<1> HIDE DEF c
<1>3. CallOK(c)
  BY <1>2 DEF CallOK
<1>4. c \in GoodCalls
  BY <1>1, <1>3 DEF GoodCalls
<1> QED BY <1>4 DEF c

LEMMA SweepLambdaKeeps ==
  ASSUME IInv, Calling("nodes"), NEW n \in Deepest, SweepLambda(n), alive' = alive, marks' = marks
  PROVE  IInv'
<1>1. n \in Nodes
  BY Visited
<1>2. /\ Kind[n] = "lambda" /\ UNCHANGED graph /\ IsAliveNode(n)
      /\ Then(n, SweepRegion(Body(n)) \o << Call("context_inputs", n, {}) >>)
  BY DEF SweepLambda
<1>3. Body(n) \in Regions
  BY <1>1, <1>2, BodyIs
<1> DEFINE a == SweepRegion(Body(n))
           c == Call("context_inputs", n, {})
           S == GoodCalls
<1>4. a \in Seq(S) /\ c \in S
  BY <1>1, <1>2, <1>3, SweepRegionCalls, ContextCall
<1>5. Then(n, a \o << c >>)
  BY <1>2
<1> HIDE DEF a, c, S
<1>6. a \o << c >> \in Seq(S)
  BY <1>4
<1> QED BY <1>2, <1>5, <1>6, UnchangedKeeps DEF S

LEMMA SweepDeltaKeeps ==
  ASSUME IInv, Calling("nodes"), NEW n \in Deepest, SweepDelta(n), alive' = alive, marks' = marks
  PROVE  IInv'
<1>1. n \in Nodes
  BY Visited
<1>2. /\ Kind[n] = "delta" /\ UNCHANGED graph /\ IsAliveNode(n)
      /\ Then(n, << Call("prune", Body(n), {}), Call("context_inputs", n, {}) >>)
  BY DEF SweepDelta
<1>3. Body(n) \in Regions
  BY <1>1, <1>2, BodyIs
<1> DEFINE a == Call("prune", Body(n), {})
           c == Call("context_inputs", n, {})
           S == GoodCalls
<1>4. a \in S /\ c \in S
  BY <1>1, <1>2, <1>3, PlainCalls, ContextCall
<1>5. Then(n, << a, c >>)
  BY <1>2
<1> HIDE DEF a, c, S
<1>6. << a, c >> \in Seq(S)
  BY <1>4
<1> QED BY <1>2, <1>5, <1>6, UnchangedKeeps DEF S

LEMMA SweepGammaKeeps ==
  ASSUME IInv, Calling("nodes"), NEW n \in Deepest, SweepGamma(n), alive' = alive, marks' = marks
  PROVE  IInv'
<1>1. /\ n \in Nodes /\ marks = << >> /\ work # << >> /\ Head(work).op = "nodes" /\ GraphInv
      /\ \A o \in ToSet(outputs[n]) : o \in ToSet(Outputs[n]) /\ (IsAlive(o) <=> o \in Live)
  BY Visited
<1> DEFINE dead == {o \in ToSet(outputs[n]) : ~IsAlive(o)}
           a == SweepRegions(Subregions[n])
           c == Call("gamma_inputs", n, {})
           S == GoodCalls
           T == GoodCalls'
<1>2. /\ Kind[n] = "gamma" /\ IsAliveNode(n)
      /\ Thins(outputs', outputs, n, dead)
      /\ results' = [r \in Regions |-> IF r \in ToSet(Subregions[n])
                                       THEN WithoutAt(results[r], outputs[n], dead)
                                       ELSE results[r]]
      /\ Then(n, a \o << c >>)
      /\ nodes' = nodes /\ inputs' = inputs /\ arguments' = arguments /\ origin' = origin
  BY DEF SweepGamma, Thins
<1>3. \A o \in dead : o \notin Live
  BY <1>1
<1> HIDE DEF dead
<1>4. GraphInv' /\ Shrink
  BY <1>1, <1>2, <1>3, GammaOutputsKeep
<1>5. Dwindles
  BY <1>4 DEF Shrink, Dwindles
<1>6. S \subseteq T
  BY <1>1, <1>2, <1>5, SweepStep
<1>7. a \in Seq(S)
  <2>1. Subregions[n] \in Seq(Regions \ {Root})
    BY <1>1, Places
  <2>2. \A r \in Regions \ {Root} : Call("prune", r, {}) \in S /\ Call("collect", r, {}) \in S
    BY PlainCalls
  <2> HIDE DEF S
  <2> QED BY <2>1, <2>2, SweepRegionsAre
<1>8. c \in S
  <2>1. ToSet(Outputs[n]) \cap Live # {}
    BY <1>1, <1>2 DEF IsAliveNode
  <2>2. c \in CallType
    BY <1>1 DEF Call, CallType, Ops
  <2>3. c.op = "gamma_inputs" /\ c.at = n
    BY DEF Call
  <2> HIDE DEF c
  <2>4. CallOK(c)
    BY <1>1, <1>2, <2>1, <2>3 DEF CallOK
  <2> QED BY <2>2, <2>4 DEF GoodCalls
<1> HIDE DEF a, c, S, T
<1>9. a \o << c >> \in Seq(T)
  BY <1>6, <1>7, <1>8, CallsEnd
<1>10. ToSet(Outputs[n]) \cap Live # {}
  BY <1>2, VisitedNeeded
<1> QED BY <1>1, <1>2, <1>4, <1>5, <1>9, <1>10, ThenKeeps DEF T

\* The loop variables of a theta that are needed.
LEMMA LoopVariable ==
  ASSUME GraphInv, NEW n \in Nodes, Kind[n] = "theta", NEW o \in ToSet(outputs[n])
  PROVE  /\ LoopInput(n, o) \in ToSet(Inputs[n]) /\ LoopOutput[LoopInput(n, o)] = o
         /\ \A s \in Live : StandsFor(s, InputOf[s], n) /\ InputOf[s] \in ToSet(Inputs[n])
                              /\ LoopOutput[InputOf[s]] = o => LoopArgument(n, o) = s
<1>1. /\ ToSet(inputs[n]) \subseteq ToSet(Inputs[n])
      /\ ToSet(arguments[Body(n)]) \subseteq ToSet(Arguments[Body(n)])
  BY BodyIs DEF GraphInv, Shape
<1>2. PICK i \in ToSet(inputs[n]) : LoopOutput[i] = o
  BY DEF GraphInv, ThetaOK
<1>3. LoopInput(n, o) \in ToSet(inputs[n]) /\ LoopOutput[LoopInput(n, o)] = o
  BY <1>2 DEF LoopInput
<1>4. ASSUME NEW s \in Live, StandsFor(s, InputOf[s], n), InputOf[s] \in ToSet(Inputs[n]),
             LoopOutput[InputOf[s]] = o
      PROVE  LoopArgument(n, o) = s
  <2>1. InputOf[s] = LoopInput(n, o)
    BY <1>1, <1>3, <1>4, ThetaIs
  <2>2. s \in ToSet(Arguments[Body(n)])
    BY <1>4, BodyIs DEF StandsFor
  <2>3. s \in ToSet(arguments[Body(n)])
    BY <1>4, <2>2, BodyIs DEF GraphInv, Kept
  <2>4. \A a \in ToSet(arguments[Body(n)]) : InputOf[a] = LoopInput(n, o) => a = s
    BY <1>1, <2>1, <2>2, ThetaIs
  <2> QED BY <2>1, <2>3, <2>4 DEF LoopArgument
<1> QED BY <1>1, <1>3, <1>4

LEMMA SweepThetaKeeps ==
  ASSUME IInv, Calling("nodes"), NEW n \in Deepest, SweepTheta(n), alive' = alive, marks' = marks
  PROVE  IInv'
<1>1. /\ n \in Nodes /\ marks = << >> /\ work # << >> /\ Head(work).op = "nodes"
      /\ GraphInv /\ Shape
      /\ \A o \in ToSet(outputs[n]) : o \in ToSet(Outputs[n]) /\ (IsAlive(o) <=> o \in Live)
      /\ \A x \in Members(Arguments) : IsAlive(x) <=> x \in Live
  BY Visited
<1> DEFINE dead == {o \in ToSet(outputs[n]) : ~HasUsers(o) /\ ~IsAlive(LoopArgument(n, o))
                                                /\ ~IsAlive(o)}
           a == SweepRegion(Body(n))
           c == Call("theta_inputs", n, {LoopInput(n, o) : o \in dead})
           S == GoodCalls
           T == GoodCalls'
<1>2. Kind[n] = "theta" /\ RemoveOutputs(n, dead) /\ Then(n, a \o << c >>) /\ IsAliveNode(n)
  BY DEF SweepTheta
<1>3. dead \subseteq ToSet(outputs[n]) /\ \A o \in dead : o \notin Live /\ ~IsAlive(LoopArgument(n, o))
  BY <1>1
<1> HIDE DEF dead
<1>4. \A o \in dead : /\ LoopInput(n, o) \in ToSet(Inputs[n]) /\ LoopOutput[LoopInput(n, o)] = o
                      /\ \A s \in Live : StandsFor(s, InputOf[s], n) /\ InputOf[s] \in ToSet(Inputs[n])
                                           /\ LoopOutput[InputOf[s]] = o => LoopArgument(n, o) = s
  BY <1>1, <1>2, <1>3, LoopVariable
<1>5. ASSUME NEW o \in dead, NEW s \in Live,
             StandsFor(s, InputOf[s], n), InputOf[s] \in ToSet(Inputs[n])
      PROVE  LoopOutput[InputOf[s]] # o
  <2> SUFFICES ASSUME LoopOutput[InputOf[s]] = o PROVE FALSE
    OBVIOUS
  <2>1. LoopArgument(n, o) = s
    BY <1>4, <1>5
  <2>2. s \in Members(Arguments)
    BY <1>1, <1>5, Places, OwnerIs, MemberOf DEF StandsFor
  <2> QED BY <1>1, <1>3, <2>1, <2>2
<1>6. \A o \in dead : o \notin Live /\ \A s \in Live :
        /\ Kind[n] = "phi" => RecArgument[o] # s
        /\ Kind[n] = "theta" /\ StandsFor(s, InputOf[s], n) /\ InputOf[s] \in ToSet(Inputs[n])
             => LoopOutput[InputOf[s]] # o
  BY <1>2, <1>3, <1>5
<1>7. Kind[n] \in {"theta", "phi"}
  BY <1>2
<1>8. GraphInv' /\ Shrink
  BY <1>1, <1>2, <1>3, <1>6, <1>7, RemoveOutputsKeeps
<1>9. Dwindles /\ origin' = origin
  BY <1>2, <1>8 DEF Shrink, RemoveOutputs, Dwindles
<1>10. S \subseteq T
  BY <1>1, <1>9, SweepStep
<1>11. a \in Seq(S)
  BY <1>1, <1>2, BodyIs, SweepRegionCalls
<1>12. ToSet(outputs'[n]) = ToSet(outputs[n]) \ dead
  <2>1. outputs[n] \in Seq(Members(Outputs)) /\ outputs'[n] = Without(outputs[n], dead)
    BY <1>1, <1>2 DEF Shape, RemoveOutputs
  <2> QED BY <2>1, WithoutIs
<1>13. c \in T
  <2>1. c \in CallType
    <3>1. {LoopInput(n, o) : o \in dead} \subseteq Members(Inputs)
      BY <1>1, <1>4, Places, MemberOf
    <3> QED BY <1>1, <3>1 DEF Call, CallType, Ops
  <2>2. c.op = "theta_inputs" /\ c.at = n /\ c.set = {LoopInput(n, o) : o \in dead}
    BY DEF Call
  <2>3. \A i \in c.set : LoopOutput[i] \in dead
    BY <1>4, <2>2
  <2>4. Live' = Live
    BY DEF Live
  <2> HIDE DEF c
  <2>5. PICK d \in CallType : d = c
    BY <2>1
  <2>6. /\ d.op = "theta_inputs" /\ d.at = n
        /\ \A i \in d.set : LoopOutput[i] \notin Live' /\ LoopOutput[i] \notin ToSet(outputs'[n])
    BY <1>3, <1>12, <2>2, <2>3, <2>4, <2>5
  <2>7. CallOK(d)'
    BY <1>1, <1>2, <2>6 DEF CallOK
  <2>8. CallType' = CallType
    BY DEF CallType, Everything
  <2>9. d \in GoodCalls'
    BY <2>7, <2>8 DEF GoodCalls
  <2> QED BY <2>5, <2>9
<1> HIDE DEF a, c, S, T
<1>14. a \o << c >> \in Seq(T)
  BY <1>10, <1>11, <1>13, CallsEnd
<1>15. ToSet(Outputs[n]) \cap Live # {}
  BY <1>2, VisitedNeeded
<1> QED BY <1>1, <1>2, <1>8, <1>9, <1>14, <1>15, ThenKeeps DEF T

LEMMA SweepPhiKeeps ==
  ASSUME IInv, Calling("nodes"), NEW n \in Deepest, SweepPhi(n), alive' = alive, marks' = marks
  PROVE  IInv'
<1>1. /\ n \in Nodes /\ marks = << >> /\ work # << >> /\ Head(work).op = "nodes"
      /\ GraphInv /\ Shape
      /\ \A o \in ToSet(outputs[n]) : o \in ToSet(Outputs[n]) /\ (IsAlive(o) <=> o \in Live)
      /\ \A x \in Members(Arguments) : IsAlive(x) <=> x \in Live
  BY Visited
<1> DEFINE dead == {o \in ToSet(outputs[n]) : ~HasUsers(o) /\ ~IsAlive(o)
                                                /\ ~IsAlive(RecArgument[o])}
           a == SweepRegion(Body(n))
           c == Call("phi_arguments", n, {RecArgument[o] : o \in dead})
           S == GoodCalls
           T == GoodCalls'
<1>2. Kind[n] = "phi" /\ RemoveOutputs(n, dead) /\ Then(n, a \o << c >>) /\ IsAliveNode(n)
  BY DEF SweepPhi
<1>3. /\ dead \subseteq ToSet(outputs[n]) /\ dead \subseteq ToSet(Outputs[n])
      /\ \A o \in dead : o \notin Live /\ ~IsAlive(RecArgument[o])
  BY <1>1
<1> HIDE DEF dead
<1>4. \A o \in dead : RecArgument[o] \in Members(Arguments)
  <2>1. \A o \in ToSet(Outputs[n]) : RecArgument[o] \in ToSet(Arguments[Body(n)])
    BY <1>1, <1>2, PhiIs
  <2>2. Body(n) \in Regions
    BY <1>1, <1>2, BodyIs
  <2> QED BY <1>3, <2>1, <2>2, Places, MemberOf
<1>6. \A o \in dead : o \notin Live /\ \A s \in Live :
        /\ Kind[n] = "phi" => RecArgument[o] # s
        /\ Kind[n] = "theta" /\ StandsFor(s, InputOf[s], n) /\ InputOf[s] \in ToSet(Inputs[n])
             => LoopOutput[InputOf[s]] # o
  BY <1>1, <1>2, <1>3, <1>4
<1>7. Kind[n] \in {"theta", "phi"}
  BY <1>2
<1>8. GraphInv' /\ Shrink
  BY <1>1, <1>2, <1>3, <1>6, <1>7, RemoveOutputsKeeps
<1>9. Dwindles /\ origin' = origin
  BY <1>2, <1>8 DEF Shrink, RemoveOutputs, Dwindles
<1>10. S \subseteq T
  BY <1>1, <1>9, SweepStep
<1>11. a \in Seq(S)
  BY <1>1, <1>2, BodyIs, SweepRegionCalls
<1>12. c \in S
  <2>1. c \in CallType
    <3>1. {RecArgument[o] : o \in dead} \subseteq Members(Arguments)
      BY <1>4
    <3> QED BY <1>1, <3>1 DEF Call, CallType, Ops, Everything
  <2>2. c.op = "phi_arguments" /\ c.at = n
    BY DEF Call
  <2> HIDE DEF c
  <2>3. CallOK(c)
    BY <1>1, <1>2, <2>2 DEF CallOK
  <2> QED BY <2>1, <2>3 DEF GoodCalls
<1>13. c \in T
  BY <1>10, <1>12
<1> HIDE DEF a, c, S, T
<1>14. a \o << c >> \in Seq(T)
  BY <1>10, <1>11, <1>13, CallsEnd
<1>15. ToSet(Outputs[n]) \cap Live # {}
  BY <1>2, VisitedNeeded
<1> QED BY <1>1, <1>2, <1>8, <1>9, <1>14, <1>15, ThenKeeps DEF T

LEMMA VisitKeeps ==
  ASSUME IInv, Visit
  PROVE  IInv'
<1>1. Calling("nodes") /\ alive' = alive /\ marks' = marks
  BY DEF Visit
<1>2. PICK n \in Deepest :
        \/ RemoveDead(n) \/ SkipSimple(n) \/ SweepGamma(n) \/ SweepTheta(n)
        \/ SweepLambda(n) \/ SweepDelta(n) \/ SweepPhi(n)
  BY DEF Visit
<1>3. CASE RemoveDead(n)
  BY <1>1, <1>3, RemoveDeadKeeps
<1>4. CASE SkipSimple(n)
  BY <1>1, <1>4, SkipSimpleKeeps
<1>5. CASE SweepGamma(n)
  BY <1>1, <1>5, SweepGammaKeeps
<1>6. CASE SweepTheta(n)
  BY <1>1, <1>6, SweepThetaKeeps
<1>7. CASE SweepLambda(n)
  BY <1>1, <1>7, SweepLambdaKeeps
<1>8. CASE SweepDelta(n)
  BY <1>1, <1>8, SweepDeltaKeeps
<1>9. CASE SweepPhi(n)
  BY <1>1, <1>9, SweepPhiKeeps
<1> QED BY <1>2, <1>3, <1>4, <1>5, <1>6, <1>7, <1>8, <1>9

\* What the first call of the sweep knows.
LEMMA Called ==
  ASSUME IInv, NEW op, Calling(op)
  PROVE  /\ marks = << >> /\ work # << >> /\ Head(work).op = op
         /\ Head(work) \in CallType /\ CallOK(Head(work))
         /\ GraphInv /\ Shape /\ Kept
<1>1. marks = << >> /\ work # << >> /\ Head(work).op = op
  BY DEF Calling
<1>2. Head(work) \in GoodCalls
  BY <1>1, HeadTailSeq DEF IInv, WorkOK
<1> QED BY <1>1, <1>2 DEF IInv, GraphInv, GoodCalls

LEMMA GammaInputsKeeps ==
  ASSUME IInv, GammaInputs
  PROVE  IInv'
<1>1. Calling("gamma_inputs") /\ Returning /\ alive' = alive /\ marks' = marks /\ origin' = origin
  BY DEF GammaInputs
<1>2. /\ marks = << >> /\ work # << >> /\ Head(work).op = "gamma_inputs" /\ CallOK(Head(work))
      /\ GraphInv /\ Shape /\ Kept
  BY <1>1, Called
<1> DEFINE n == Head(work).at
           dead == {i \in ToSet(Tail(inputs[n])) :
                      \A a \in Members(arguments) : InputOf[a] = i => ~IsAlive(a)}
<1>3. n \in Nodes /\ Kind[n] = "gamma" /\ ToSet(Outputs[n]) \cap Live # {}
  BY <1>2 DEF CallOK
<1>4. /\ inputs' = [inputs EXCEPT ![n] = << Head(@) >> \o Without(Tail(inputs[n]), dead)]
      /\ arguments' = [r \in Regions |-> IF r \in ToSet(Subregions[n])
                                         THEN WithoutAt(arguments[r], Tail(inputs[n]), dead)
                                         ELSE arguments[r]]
      /\ nodes' = nodes /\ outputs' = outputs /\ results' = results
  BY DEF GammaInputs
<1>5. dead \subseteq ToSet(Tail(inputs[n]))
  OBVIOUS
<1>6. \A i \in dead : \A a \in Members(arguments) : InputOf[a] = i => ~IsAlive(a)
  OBVIOUS
<1> HIDE DEF n, dead
<1>7. n \in nodes
  <2>1. ToSet(outputs[n]) # {}
    BY <1>2, <1>3 DEF Kept
  <2> QED BY <1>2, <1>3, <2>1, EmptyIs DEF Shape
<1>8. ASSUME NEW i \in dead, NEW a \in Live, StandsFor(a, i, n)
      PROVE  FALSE
  <2>1. PICK r \in ToSet(Subregions[n]) : a \in ToSet(Arguments[r])
    BY <1>8 DEF StandsFor
  <2>2. r \in Regions
    BY <1>3, OwnerIs
  <2>3. a \in ToSet(arguments[r]) /\ DOMAIN arguments = Regions
    BY <1>2, <1>8, <2>1, <2>2 DEF Kept, Shape
  <2>4. a \in Members(arguments) /\ a \in Members(Arguments)
    BY <2>1, <2>2, <2>3, MemberOf, Places
  <2>5. ~IsAlive(a)
    BY <1>6, <1>8, <2>4 DEF StandsFor
  <2> QED BY <1>2, <1>8, <2>4, <2>5, AliveIs
<1>9. GraphInv' /\ Shrink
  BY <1>1, <1>2, <1>3, <1>4, <1>5, <1>7, <1>8, GammaInputsKeep
<1> QED BY <1>1, <1>2, <1>9, ShrinkReturns

\* Arguments without users are not marked.
LEMMA UnusedArguments ==
  ASSUME IInv, marks = << >>, NEW n \in Nodes, Kind[n] \in {"theta", "lambda", "delta", "phi"},
         NEW a \in ToSet(arguments[Body(n)]), ~HasUsers(a)
  PROVE  a \notin Live
<1>1. Body(n) \in Regions
  BY BodyIs
<1>2. a \in Members(Arguments)
  BY <1>1, Places, MemberOf DEF IInv, GraphInv, Shape
<1> QED BY <1>2, LiveIsUsed DEF IInv

LEMMA ThetaInputsKeeps ==
  ASSUME IInv, ThetaInputs
  PROVE  IInv'
<1>1. Calling("theta_inputs") /\ Returning /\ alive' = alive /\ marks' = marks
  BY DEF ThetaInputs
<1>2. /\ marks = << >> /\ work # << >> /\ Head(work).op = "theta_inputs" /\ CallOK(Head(work))
      /\ GraphInv
  BY <1>1, Called
<1> DEFINE n == Head(work).at
           dead == {a \in ToSet(arguments[Body(n)]) : ~HasUsers(a) /\ InputOf[a] \in Head(work).set}
<1>3. /\ n \in Nodes /\ Kind[n] = "theta"
      /\ \A i \in Head(work).set : LoopOutput[i] \notin Live /\ LoopOutput[i] \notin ToSet(outputs[n])
  BY <1>2 DEF CallOK
<1>4. RemoveInputs(n, dead)
  BY DEF ThetaInputs
<1>5. /\ dead \subseteq ToSet(arguments[Body(n)])
      /\ \A a \in dead : LoopOutput[InputOf[a]] \notin Live /\ LoopOutput[InputOf[a]] \notin ToSet(outputs[n])
  BY <1>3
<1>6. \A a \in dead : a \notin Live
  BY <1>2, <1>3, UnusedArguments
<1> HIDE DEF n, dead
<1>7. Kind[n] \in {"theta", "lambda", "delta", "phi"}
  BY <1>3
<1>8. GraphInv' /\ Shrink
  BY <1>1, <1>2, <1>3, <1>4, <1>5, <1>6, <1>7, RemoveInputsKeeps
<1>9. origin' = origin
  BY <1>4 DEF RemoveInputs
<1> QED BY <1>1, <1>2, <1>8, <1>9, ShrinkReturns

LEMMA ContextInputsKeeps ==
  ASSUME IInv, ContextInputs
  PROVE  IInv'
<1>1. Calling("context_inputs") /\ Returning /\ alive' = alive /\ marks' = marks
  BY DEF ContextInputs
<1>2. /\ marks = << >> /\ work # << >> /\ Head(work).op = "context_inputs" /\ CallOK(Head(work))
      /\ GraphInv
  BY <1>1, Called
<1> DEFINE n == Head(work).at
           dead == {a \in ToSet(arguments[Body(n)]) : ~HasUsers(a) /\ InputOf[a] # None}
<1>3. n \in Nodes /\ Kind[n] \in {"lambda", "delta"}
  BY <1>2 DEF CallOK
<1>4. RemoveInputs(n, dead)
  BY DEF ContextInputs
<1>5. dead \subseteq ToSet(arguments[Body(n)])
  OBVIOUS
<1>6. \A a \in dead : a \notin Live
  BY <1>2, <1>3, UnusedArguments
<1> HIDE DEF n, dead
<1>7. Kind[n] \in {"theta", "lambda", "delta", "phi"} /\ Kind[n] # "theta"
  BY <1>3
<1>8. GraphInv' /\ Shrink
  BY <1>1, <1>2, <1>3, <1>4, <1>5, <1>6, <1>7, RemoveInputsKeeps
<1>9. origin' = origin
  BY <1>4 DEF RemoveInputs
<1> QED BY <1>1, <1>2, <1>8, <1>9, ShrinkReturns

LEMMA PhiArgumentsKeeps ==
  ASSUME IInv, PhiArguments
  PROVE  IInv'
<1>1. Calling("phi_arguments") /\ Returning /\ alive' = alive /\ marks' = marks
  BY DEF PhiArguments
<1>2. /\ marks = << >> /\ work # << >> /\ Head(work).op = "phi_arguments" /\ CallOK(Head(work))
      /\ GraphInv
  BY <1>1, Called
<1> DEFINE n == Head(work).at
           dead == {a \in ToSet(arguments[Body(n)]) :
                      ~HasUsers(a) /\ (InputOf[a] # None \/ a \in Head(work).set)}
<1>3. n \in Nodes /\ Kind[n] = "phi"
  BY <1>2 DEF CallOK
<1>4. RemoveInputs(n, dead)
  BY DEF PhiArguments
<1>5. dead \subseteq ToSet(arguments[Body(n)])
  OBVIOUS
<1>6. \A a \in dead : a \notin Live
  BY <1>2, <1>3, UnusedArguments
<1> HIDE DEF n, dead
<1>7. Kind[n] \in {"theta", "lambda", "delta", "phi"} /\ Kind[n] # "theta"
  BY <1>3
<1>8. GraphInv' /\ Shrink
  BY <1>1, <1>2, <1>3, <1>4, <1>5, <1>6, <1>7, RemoveInputsKeeps
<1>9. origin' = origin
  BY <1>4 DEF RemoveInputs
<1> QED BY <1>1, <1>2, <1>8, <1>9, ShrinkReturns

LEMMA RemoveImportsKeeps ==
  ASSUME IInv, RemoveImports
  PROVE  IInv'
<1>1. Calling("imports") /\ Returning /\ alive' = alive /\ marks' = marks /\ origin' = origin
  BY DEF RemoveImports
<1>2. marks = << >> /\ work # << >> /\ GraphInv /\ Shape
  BY <1>1, Called
<1> DEFINE dead == {a \in ToSet(arguments[Root]) : ~IsAlive(a)}
<1>3. /\ Thins(arguments', arguments, Root, dead)
      /\ nodes' = nodes /\ inputs' = inputs /\ outputs' = outputs /\ results' = results
  BY DEF RemoveImports, Thins
<1>4. ASSUME NEW a \in dead
      PROVE  a \notin Live
  <2>1. a \in Members(Arguments) /\ ~IsAlive(a)
    BY <1>2, Places, MemberOf, OwnershipAssumption DEF Shape
  <2> QED BY <1>2, <2>1, AliveIs
<1> HIDE DEF dead
<1>5. GraphInv' /\ Shrink
  BY <1>1, <1>2, <1>3, <1>4, ImportsKeep
<1> QED BY <1>1, <1>2, <1>5, ShrinkReturns

LEMMA SweptRegionKeeps ==
  ASSUME IInv, SweptRegion
  PROVE  IInv'
<1>1. /\ marks = << >> /\ work # << >> /\ alive' = alive /\ marks' = marks
      /\ UNCHANGED graph /\ Returning
  BY DEF SweptRegion, Calling
<1> QED BY <1>1, ReturnKeeps

LEMMA MarkOutputKeeps ==
  ASSUME IInv, RecursionFirst, MarkOutput
  PROVE  IInv'
<1>1. MarkInv'
  BY MarkOutputMarks DEF IInv
<1>2. Whole /\ work = << Call("run", Root, {}) >>
  BY DEF IInv, MarkInv, MarkOutput
<1>3. Whole' /\ work' = work
  BY <1>2 DEF MarkOutput, graph, Whole
<1>4. GraphInv'
  <2>1. (Whole => GraphInv)'
    BY WholeGraph, PTL
  <2> QED BY <1>3, <2>1
<1>5. WorkOK'
  <2>1. Root \in Regions
    BY OwnershipAssumption
  <2> DEFINE c == Call("run", Root, {})
  <2>2. c \in CallType
    BY <2>1 DEF Call, CallType, Ops
  <2>3. c.op = "run"
    BY DEF Call
  <2>4. CallType' = CallType
    BY DEF CallType, Everything
  <2>5. work' = << c >>
    BY <1>2, <1>3
  <2> HIDE DEF c
  <2>6. CallOK(c)'
    BY <2>3 DEF CallOK
  <2>7. c \in GoodCalls'
    BY <2>2, <2>4, <2>6 DEF GoodCalls
  <2> DEFINE T == GoodCalls'
  <2>8. c \in T
    BY <2>7
  <2> HIDE DEF T
  <2>9. work' \in Seq(T)
    BY <2>5, <2>8
  <2> QED BY <2>9 DEF WorkOK, T
<1> QED BY <1>1, <1>4, <1>5 DEF IInv

LEMMA InitHolds ==
  ASSUME Init
  PROVE  IInv
<1>1. MarkInv
  BY MarkInit
<1>2. Whole /\ work = << Call("run", Root, {}) >>
  BY DEF Init, Whole
<1>3. GraphInv
  BY <1>2, WholeGraph
<1>4. WorkOK
  <2>1. Root \in Regions
    BY OwnershipAssumption
  <2> DEFINE c == Call("run", Root, {})
             S == GoodCalls
  <2>2. c \in S
    BY <2>1, PlainCalls
  <2> HIDE DEF c, S
  <2>3. << c >> \in Seq(S)
    BY <2>2
  <2> QED BY <1>2, <2>3 DEF WorkOK, c, S
<1> QED BY <1>1, <1>3, <1>4 DEF IInv

LEMMA StutterKeeps ==
  ASSUME IInv, UNCHANGED vars
  PROVE  IInv'
<1>1. UNCHANGED graph /\ alive' = alive /\ marks' = marks /\ work' = work
  BY DEF vars
<1>2. GraphInv' /\ origin' = origin /\ nodes' = nodes /\ outputs' = outputs /\ Dwindles
  BY <1>1, GraphStays DEF IInv
<1>3. /\ inputs' = inputs /\ arguments' = arguments /\ results' = results
  BY <1>1 DEF graph
<1>4. Live' = Live
  BY <1>1 DEF Live
<1>5. Reach' = Reach
  BY <1>1, <1>4 DEF Reach
<1>6. MarkInv'
  BY <1>1, <1>2, <1>3, <1>4, <1>5
     DEF IInv, MarkInv, Reached, Complete, FromOutside, ThroughUses, Whole
<1>7. GoodCalls \subseteq GoodCalls'
  BY <1>1, <1>2, CallsStay
<1> DEFINE S == GoodCalls
           T == GoodCalls'
<1>8. S \subseteq T /\ work \in Seq(S)
  BY <1>7 DEF IInv, WorkOK
<1> HIDE DEF S, T
<1>9. work \in Seq(T)
  BY <1>8, SeqWithin
<1> QED BY <1>1, <1>2, <1>6, <1>9 DEF IInv, WorkOK, T

LEMMA NextKeeps ==
  ASSUME RecursionFirst, IInv, [Next]_vars
  PROVE  IInv'
<1>1. CASE MarkOutput
  BY <1>1, MarkOutputKeeps
<1>2. CASE StartSweep
  BY <1>2, StartSweepKeeps
<1>3. CASE Prune
  BY <1>3, PruneKeeps
<1>4. CASE CollectNodes
  BY <1>4, CollectNodesKeeps
<1>5. CASE Visit
  BY <1>5, VisitKeeps
<1>6. CASE SweptRegion
  BY <1>6, SweptRegionKeeps
<1>7. CASE GammaInputs
  BY <1>7, GammaInputsKeeps
<1>8. CASE ThetaInputs
  BY <1>8, ThetaInputsKeeps
<1>9. CASE ContextInputs
  BY <1>9, ContextInputsKeeps
<1>10. CASE PhiArguments
  BY <1>10, PhiArgumentsKeeps
<1>11. CASE RemoveImports
  BY <1>11, RemoveImportsKeeps
<1>12. CASE Terminated \/ UNCHANGED vars
  BY <1>12, StutterKeeps DEF Terminated
<1> QED
  BY <1>1, <1>2, <1>3, <1>4, <1>5, <1>6, <1>7, <1>8, <1>9, <1>10, <1>11, <1>12 DEF Next

-----------------------------------------------------------------------------
(* What the invariant shows. *)

\* The invariant holds at every step of the pass, when the recursion variables
\* of a phi come before its context variables (as the mark phase takes them to).
THEOREM Invariant == RecursionFirst => (Spec => []IInv)
<1> SUFFICES ASSUME RecursionFirst PROVE Spec => []IInv
  OBVIOUS
<1>1. Init => IInv
  BY InitHolds
<1>2. IInv /\ [Next]_vars => IInv'
  BY NextKeeps
<1> QED BY <1>1, <1>2, PTL DEF Spec

\* The context and the calls of MarkOutput hold only what the graph has; a node
\* or region that has been destroyed has taken all that belongs to it along.
THEOREM TypeCorrect == RecursionFirst => (Spec => []TypeOK)
<1> SUFFICES ASSUME RecursionFirst PROVE Spec => []TypeOK
  OBVIOUS
<1>1. IInv => TypeOK
  <2> SUFFICES ASSUME IInv PROVE TypeOK
    OBVIOUS
  <2>1. Shape /\ MarkInv
    BY DEF IInv, GraphInv
  <2>2. Members(inputs) \subseteq Members(Inputs) /\ Members(outputs) \subseteq Members(Outputs)
    <3>1. DOMAIN inputs = Nodes /\ DOMAIN outputs = Nodes
      BY <2>1 DEF Shape
    <3> QED BY <2>1, <3>1, Places DEF Shape, Members
  <2>3. Members(arguments) \subseteq Members(Arguments) /\ Members(results) \subseteq Members(Results)
    <3>1. DOMAIN arguments = Regions /\ DOMAIN results = Regions
      BY <2>1 DEF Shape
    <3> QED BY <2>1, <3>1, Places DEF Shape, Members
  <2>4. ToSet(marks) \subseteq Sources
    <3>1. CASE Whole
      <4>1. Sources = AllSources
        BY <3>1 DEF Whole, Sources, AllSources
      <4>2. marks \in Seq(AllSources)
        BY <2>1 DEF MarkInv
      <4> QED BY <4>1, <4>2 DEF ToSet
    <3>2. CASE marks = << >>
      BY <3>2, EmptyIs
    <3> QED BY <2>1, <3>1, <3>2 DEF MarkInv
  <2> QED BY <2>1, <2>2, <2>3, <2>4 DEF TypeOK, Shape, MarkInv
<1> QED BY <1>1, Invariant, PTL

\* When SweepRegion ends each node of the region has a user, as its assertion says
\* (DeadNodeElimination.cpp:386): the nodes that its loop has passed have been
\* destroyed or have a marked output, and what is marked is in use.
THEOREM NoBottomIsLeft == RecursionFirst => (Spec => []NoBottomLeft)
<1> SUFFICES ASSUME RecursionFirst PROVE Spec => []NoBottomLeft
  OBVIOUS
<1>1. IInv => NoBottomLeft
  <2> SUFFICES ASSUME IInv, marks = << >>, work # << >>, Head(work).op = "nodes",
                      Head(work).set = {}, NEW n \in Bottom(Head(work).at)
               PROVE  FALSE
    BY DEF NoBottomLeft
  <2>1. MarkInv /\ GraphInv /\ nodes \subseteq Nodes
    BY DEF IInv, GraphInv, Shape
  <2>2. Head(work) \in GoodCalls
    BY HeadTailSeq DEF IInv, WorkOK
  <2>3. n \in nodes /\ RegionOf[n] = Head(work).at /\ ToSet(outputs[n]) \cap Used = {}
    BY DEF Bottom
  <2>4. ToSet(Outputs[n]) \cap Live # {}
    BY <2>2, <2>3 DEF GoodCalls, CallOK, NodesIn
  <2> QED BY <2>1, <2>3, <2>4, LiveIsUsed
<1> QED BY <1>1, Invariant, PTL

\* Dead node elimination removes nothing that is still needed: what the results
\* of the graph are computed from is there when the pass is done, and every input
\* and result through which its value reaches it.
THEOREM NeededStays == RecursionFirst => (Spec => []KeepsNeeded)
<1> SUFFICES ASSUME RecursionFirst PROVE Spec => []KeepsNeeded
  OBVIOUS
<1>1. IInv => KeepsNeeded
  <2> SUFFICES ASSUME IInv, Done, NEW s \in Needed
               PROVE  s \in Sources /\ Feeds[s] \subseteq Uses
    BY DEF KeepsNeeded
  <2>1. MarkInv /\ GraphInv /\ Shape /\ Kept /\ marks = << >>
    BY DEF IInv, GraphInv, Done
  <2>2. Reached(origin, Live, Live) /\ origin \in Wirings
    BY <2>1, LiveIsUsed
  <2>3. s \in Live
    BY <2>2, NeededIsMarked
  <2>4. s \in Sources
    <3>1. DOMAIN outputs = Nodes /\ DOMAIN arguments = Regions
      BY <2>1 DEF Shape
    <3>2. CASE s \in Members(Outputs)
      <4>1. PICK n \in Nodes : s \in ToSet(Outputs[n])
        BY <3>2, Places, PlaceOf
      <4>2. s \in ToSet(outputs[n])
        BY <2>1, <2>3, <4>1 DEF Kept
      <4> QED BY <3>1, <4>2, MemberOf DEF Sources
    <3>3. CASE s \in Members(Arguments)
      <4>1. PICK r \in Regions : s \in ToSet(Arguments[r])
        BY <3>3, Places, PlaceOf
      <4>2. s \in ToSet(arguments[r])
        BY <2>1, <2>3, <4>1 DEF Kept
      <4> QED BY <3>1, <4>2, MemberOf DEF Sources
    <3> QED BY <2>3, <3>2, <3>3, LiveTyped DEF AllSources
  <2>5. Feeds[s] \subseteq Fed
    BY <2>3 DEF Fed, FeedsOf
  <2> QED BY <2>1, <2>4, <2>5, FedIsUsed
<1> QED BY <1>1, Invariant, PTL

-----------------------------------------------------------------------------
(* The depths of the nodes of a region. *)

\* A finite set of numbers has a largest one.  (A smallest set that has none
\* would be a singleton, or have one without one of its elements.)
LEMMA MaxOf ==
  ASSUME NEW S \in SUBSET Nat, IsFiniteSet(S), S # {}
  PROVE  Max(S) \in Nat /\ Max(S) \in S /\ \A x \in S : x <= Max(S)
<1> DEFINE Bounded(A) == \E h \in A : \A x \in A : x <= h
           Bad == {A \in FiniteSubsetsOf(Nat) : A # {} /\ ~ Bounded(A)}
<1>1. Bad = {}
  <2> SUFFICES ASSUME Bad # {} PROVE FALSE
    OBVIOUS
  <2>1. IsWellFoundedOn(StrictSubsetOrdering(Nat), FiniteSubsetsOf(Nat))
    BY FS_StrictSubsetOrderingWellFounded
  <2>2. PICK A \in Bad : \A B \in Bad : << B, A >> \notin StrictSubsetOrdering(Nat)
    <3> HIDE DEF Bounded
    <3> QED BY <2>1, WFMin
  <2>3. A \in SUBSET Nat /\ IsFiniteSet(A) /\ A # {} /\ ~ Bounded(A)
    BY <2>2 DEF FiniteSubsetsOf
  <2>4. PICK a \in A : TRUE
    BY <2>3
  <2> DEFINE B == A \ {a}
  <2>5. B \in SUBSET Nat /\ IsFiniteSet(B) /\ B # A
    BY <2>3, <2>4, FS_RemoveElement
  <2>6. B \notin Bad
    BY <2>2, <2>3, <2>5 DEF StrictSubsetOrdering
  <2>7. B = {} \/ Bounded(B)
    BY <2>5, <2>6 DEF FiniteSubsetsOf
  <2>8. CASE B = {}
    <3>1. \A x \in A : x = a
      BY <2>8
    <3> QED BY <3>1, <2>3, <2>4
  <2>9. CASE Bounded(B)
    <3>1. PICK h \in B : \A x \in B : x <= h
      BY <2>9
    <3> DEFINE k == IF h < a THEN a ELSE h
    <3>2. k \in A
      BY <3>1, <2>4
    <3>3. ASSUME NEW x \in A
          PROVE  x <= k
      <4>1. x = a \/ x <= h
        BY <3>1
      <4>2. x \in Nat /\ a \in Nat /\ h \in Nat
        BY <2>3, <3>1
      <4> HIDE DEF B, Bad, Bounded
      <4>3. CASE x = a
        BY <4>2, <4>3
      <4>4. CASE x <= h
        BY <4>2, <4>4
      <4> QED BY <4>1, <4>3, <4>4
    <3> HIDE DEF k
    <3> QED BY <3>2, <3>3, <2>3
  <2> QED BY <2>7, <2>8, <2>9
<1>2. Bounded(S)
  <2> HIDE DEF Bounded
  <2> QED BY <1>1 DEF FiniteSubsetsOf
<1>3. \E z \in S : \A y \in S : z >= y
  BY <1>2
<1>4. Max(S) \in S /\ \A y \in S : Max(S) >= y
  BY <1>3 DEF Max
<1> QED BY <1>4

\* The depth that comes from the depths d of what is used, Q.
After(d, Q) == Max({0} \cup {d[p] + 1 : p \in Q})

LEMMA AfterIs ==
  ASSUME NEW Q, IsFiniteSet(Q), NEW d, \A p \in Q : d[p] \in Nat
  PROVE  After(d, Q) \in Nat /\ \A p \in Q : d[p] < After(d, Q)
<1> DEFINE D == {d[p] + 1 : p \in Q}
           f == [p \in Q |-> d[p] + 1]
           S == {0} \cup D
<1>1. f \in Surjection(Q, D)
  BY DEF Surjection
<1>2. IsFiniteSet(D)
  <2> HIDE DEF D, f
  <2> QED BY <1>1, FS_Surjection
<1>3. IsFiniteSet(S) /\ S # {}
  <2> HIDE DEF D
  <2>1. IsFiniteSet({0})
    BY FS_Singleton
  <2> QED BY <1>2, <2>1, FS_Union
<1>4. S \in SUBSET Nat
  OBVIOUS
<1>5. \A p \in Q : d[p] + 1 \in S
  OBVIOUS
<1> HIDE DEF S
<1>6. Max(S) \in Nat /\ \A x \in S : x <= Max(S)
  BY <1>3, <1>4, MaxOf
<1>7. \A p \in Q : d[p] < Max(S)
  BY <1>5, <1>6
<1> QED BY <1>6, <1>7 DEF After, S

\* Depths exist when what nodes use, P, has no circles.
LEMMA DepthsExist ==
  ASSUME NEW N, IsFiniteSet(N), NEW P \in [N -> SUBSET N],
         \A S \in SUBSET N : S # {} => \E n \in S : P[n] \cap S = {}
  PROVE  \E d : d = [n \in N |-> After(d, P[n])]
<1> DEFINE Solves(d, S) == d \in [S -> Nat] /\ \A n \in S : P[n] \subseteq S /\ d[n] = After(d, P[n])
           Solved == {S \in SUBSET N : \E d : Solves(d, S)}
           Rest == {N \ S : S \in Solved}
<1>1. Rest # {} /\ Rest \subseteq FiniteSubsetsOf(N)
  <2>1. Solves([n \in {} |-> 0], {})
    OBVIOUS
  <2>2. {} \in Solved
    BY <2>1
  <2>3. \A S \in SUBSET N : IsFiniteSet(S)
    BY FS_Subset
  <2> QED BY <2>2, <2>3 DEF FiniteSubsetsOf
<1>2. PICK A \in Rest : \A B \in Rest : << B, A >> \notin StrictSubsetOrdering(N)
  <2>1. IsWellFoundedOn(StrictSubsetOrdering(N), FiniteSubsetsOf(N))
    BY FS_StrictSubsetOrderingWellFounded
  <2> HIDE DEF Rest
  <2> QED BY <1>1, <2>1, WFMin
<1>3. PICK S \in SUBSET N : A = N \ S /\ \E d : Solves(d, S)
  BY <1>2
<1>4. PICK d : Solves(d, S)
  BY <1>3
<1>5. CASE A = {}
  <2>1. S = N
    BY <1>3, <1>5
  <2>2. d = [n \in N |-> After(d, P[n])]
    BY <1>4, <2>1
  <2> QED BY <2>2
<1>6. CASE A # {}
  <2>1. PICK n \in A : P[n] \cap A = {}
    BY <1>3, <1>6
  <2>2. n \in N /\ n \notin S /\ P[n] \subseteq S
    BY <1>3, <2>1
  <2> DEFINE T == S \cup {n}
             e == [m \in T |-> IF m = n THEN After(d, P[n]) ELSE d[m]]
  <2>3. After(d, P[n]) \in Nat
    <3>1. IsFiniteSet(P[n]) /\ \A p \in P[n] : d[p] \in Nat
      BY <1>4, <2>2, FS_Subset
    <3> HIDE DEF Solves
    <3> QED BY <3>1, AfterIs
  <2>4. ASSUME NEW Q \in SUBSET S
        PROVE  After(e, Q) = After(d, Q)
    <3>1. \A p \in Q : e[p] = d[p]
      BY <2>2
    <3> HIDE DEF e
    <3>2. {e[p] + 1 : p \in Q} = {d[p] + 1 : p \in Q}
      BY <3>1
    <3> QED BY <3>2 DEF After
  <2>5. e \in [T -> Nat]
    BY <1>4, <2>3
  <2>6. ASSUME NEW m \in T
        PROVE  P[m] \subseteq T /\ e[m] = After(e, P[m])
    <3>1. P[m] \subseteq S
      BY <1>4, <2>2
    <3>2. e[m] = After(d, P[m])
      BY <1>4
    <3>3. After(e, P[m]) = After(d, P[m])
      <4> HIDE DEF e
      <4> QED BY <3>1, <2>4
    <3> QED BY <3>1, <3>2, <3>3
  <2>7. T \in Solved
    <3>1. T \in SUBSET N
      BY <2>2
    <3> HIDE DEF e, T
    <3>2. Solves(e, T)
      BY <2>5, <2>6
    <3> QED BY <3>1, <3>2
  <2>8. N \ T \in Rest
    <3> HIDE DEF Solved, T
    <3> QED BY <2>7
  <2>9. << N \ T, A >> \in StrictSubsetOrdering(N)
    BY <1>3, <2>1, <2>2 DEF StrictSubsetOrdering
  <2> HIDE DEF Rest, T
  <2> QED BY <1>2, <2>8, <2>9
<1> QED BY <1>5, <1>6

\* A node is deeper than what it uses.
LEMMA DepthsGrow ==
  ASSUME NEW N, IsFiniteSet(N), NEW P \in [N -> SUBSET N],
         \A S \in SUBSET N : S # {} => \E n \in S : P[n] \cap S = {},
         NEW d, d = [n \in N |-> After(d, P[n])]
  PROVE  \A n \in N : d[n] \in Nat /\ \A p \in P[n] : d[p] < d[n]
<1>1. \A n \in N : d[n] = After(d, P[n]) /\ IsFiniteSet(P[n])
  BY FS_Subset
<1> DEFINE S == {n \in N : d[n] \notin Nat}
<1>2. S = {}
  <2> SUFFICES ASSUME S # {} PROVE FALSE
    OBVIOUS
  <2>1. PICK n \in S : P[n] \cap S = {}
    OBVIOUS
  <2>2. \A p \in P[n] : d[p] \in Nat
    BY <2>1
  <2> HIDE DEF S
  <2>3. After(d, P[n]) \in Nat
    <3>1. n \in N
      BY DEF S
    <3> QED BY <1>1, <2>2, <3>1, AfterIs
  <2> QED BY <1>1, <2>1, <2>3 DEF S
<1>3. ASSUME NEW n \in N
      PROVE  \A p \in P[n] : d[p] < d[n]
  <2>1. \A p \in P[n] : d[p] \in Nat
    BY <1>2
  <2>2. \A p \in P[n] : d[p] < After(d, P[n])
    BY <1>1, <2>1, AfterIs
  <2> QED BY <1>1, <2>2
<1> QED BY <1>2, <1>3

LEMMA DepthIs ==
  ASSUME Shape, origin \in Wirings, NEW r \in Regions
  PROVE  /\ \A n \in NodesIn(r) : Depth(r)[n] \in Nat
         /\ \A n, p \in NodesIn(r) : \A u \in ToSet(inputs[n]) :
              origin[u] \in ToSet(outputs[p]) => Depth(r)[p] < Depth(r)[n]
<1> DEFINE N == NodesIn(r)
           Producers(n) == {p \in N : \E u \in ToSet(inputs[n]) : origin[u] \in ToSet(outputs[p])}
           P == [n \in N |-> Producers(n)]
           All == {n \in Nodes : RegionOf[n] = r}
<1>1. N \subseteq All
  BY DEF NodesIn, Shape
<1>2. IsFiniteSet(N)
  <2>1. N \subseteq Nodes
    BY <1>1
  <2> HIDE DEF N
  <2> QED BY <2>1, OwnershipAssumption, FS_Subset
<1>3. P \in [N -> SUBSET N]
  OBVIOUS
<1>4. ASSUME NEW S \in SUBSET N, S # {}
      PROVE  \E n \in S : P[n] \cap S = {}
  <2>1. S \in SUBSET All /\ S # {}
    BY <1>1, <1>4
  <2> HIDE DEF N, All
  <2>2. PICK n \in S : \A p \in S : \A u \in ToSet(Inputs[n]) : origin[u] \notin ToSet(Outputs[p])
    BY <2>1, WiringsAssumption DEF All
  <2>3. n \in N /\ S \subseteq N /\ \A p \in S : p \in Nodes
    BY <1>1 DEF All
  <2>4. \A p \in S : \A u \in ToSet(inputs[n]) : origin[u] \notin ToSet(outputs[p])
    BY <2>2, <2>3 DEF Shape
  <2>5. P[n] \cap S = {}
    BY <2>3, <2>4
  <2> QED BY <2>5
<1> DEFINE Eq(d) == d = [n \in N |-> Max({0} \cup {d[p] + 1 : p \in Producers(n)})]
<1>5. ASSUME NEW d
      PROVE  Eq(d) <=> d = [n \in N |-> After(d, P[n])]
  <2> HIDE DEF N, Producers
  <2> QED BY DEF After
<1>6. \E d : Eq(d)
  <2>1. \E d : d = [n \in N |-> After(d, P[n])]
    <3> HIDE DEF N, P
    <3> QED BY <1>2, <1>3, <1>4, DepthsExist
  <2> HIDE DEF Eq, P, N
  <2> QED BY <2>1, <1>5
<1>7. Eq(CHOOSE d : Eq(d))
  <2> HIDE DEF Eq
  <2> QED BY <1>6
<1>8. Depth(r) = CHOOSE d : Eq(d)
  BY DEF Depth
<1> DEFINE dep == Depth(r)
<1>9. Eq(dep)
  BY <1>7, <1>8
<1>10. dep = [n \in N |-> After(dep, P[n])]
  <2> HIDE DEF Eq, P, N, dep
  <2> QED BY <1>5, <1>9
<1>11. \A n \in N : dep[n] \in Nat /\ \A p \in P[n] : dep[p] < dep[n]
  <2> HIDE DEF P, N, dep
  <2>1. PICK e : e = dep
    OBVIOUS
  <2>2. e = [n \in N |-> After(e, P[n])]
    BY <1>10, <2>1
  <2>3. \A n \in N : e[n] \in Nat /\ \A p \in P[n] : e[p] < e[n]
    BY <1>2, <1>3, <1>4, <2>2, DepthsGrow
  <2> QED BY <2>1, <2>3
<1>12. \A n, p \in N : (\E u \in ToSet(inputs[n]) : origin[u] \in ToSet(outputs[p])) => p \in P[n]
  OBVIOUS
<1> HIDE DEF P, N, dep
<1>13. \A n, p \in N : \A u \in ToSet(inputs[n]) : origin[u] \in ToSet(outputs[p]) => dep[p] < dep[n]
  BY <1>11, <1>12
<1> QED BY <1>11, <1>13 DEF N, dep

-----------------------------------------------------------------------------
(* The sweep: what each of its calls relies on, and what it leaves behind. *)

InputOps == {"gamma_inputs", "theta_inputs", "context_inputs", "phi_arguments"}
LoopOps  == {"collect", "nodes"}

\* Region r and those inside its nodes, and the region that a call works in.
Around(r)   == {r} \cup UNION {Inside[n] : n \in {m \in Nodes : RegionOf[m] = r}}
RegionAt(c) == IF c.op \in InputOps THEN RegionOf[c.at] ELSE c.at
Scoped(c)   == c.op \in InputOps \cup LoopOps

\* A call d that is made after call c is not about what c is still to deal with.
Apart(c, d) ==
  /\ c.op = "nodes" /\ Scoped(d) =>
       /\ d.op \in InputOps => d.at \notin c.set
       /\ d.op \in LoopOps => d.at # c.at
       /\ \A n \in c.set : RegionAt(d) \notin Inside[n]
  /\ c.op = "collect" /\ Scoped(d) => RegionAt(d) \notin Around(c.at)
  /\ c.op \in InputOps /\ d.op \in InputOps => d.at # c.at

Stacked(w) == \A i, j \in DOMAIN w : i < j => Apart(w[i], w[j])

NodeItem(n)   == << "node", n >>
RegionItem(r) == << "region", r >>
NodesOf(r)    == {n \in Nodes : RegionOf[n] = r}
IsDeltaBody(r) == \E n \in Nodes : Kind[n] = "delta" /\ r = Body(n)

Items == {NodeItem(n) : n \in Nodes} \cup {RegionItem(r) : r \in Regions}

\* x is swept when call c has been made; x must be swept when c is made.
Cleans(c, x) ==
  \/ c.op \in InputOps /\ x = NodeItem(c.at)
  \/ c.op \in LoopOps /\ x = RegionItem(c.at)
  \/ c.op = "prune" /\ IsDeltaBody(c.at) /\ x = RegionItem(c.at)
Relies(c, x) ==
  \/ c.op = "nodes" /\ \E n \in NodesOf(c.at) \ c.set : x = NodeItem(n)
  \/ c.op \in InputOps /\ \E q \in ToSet(Subregions[c.at]) : x = RegionItem(q)
  \/ c.op = "imports" /\ x = RegionItem(Root)

\* The calls w are made in an order in which each finds swept what it relies on,
\* when the items of D are.
Ordered(D, w) ==
  \A j \in DOMAIN w : \A x \in Items : Relies(w[j], x) =>
    x \in D \/ \E i \in DOMAIN w : i < j /\ Cleans(w[i], x)

NodeClean(n)    == \A u \in ToSet(inputs[n]) : origin[u] \in Live
ResultsClean(r) == \A u \in ToSet(results[r]) : origin[u] \in Live

\* s or the recursion argument of output o is live.
RecursionLive(o) == o \in Live \/ RecArgument[o] \in Live

\* What is left of node n is live, or what is live is made from it.
NodeSwept(n) ==
  /\ NodeClean(n) /\ ToSet(Outputs[n]) \cap Live # {}
  /\ Kind[n] = "gamma" =>
       /\ ToSet(outputs[n]) \subseteq Live
       /\ \A i \in ToSet(inputs[n]) \cap ToSet(Tail(Inputs[n])) : \E a \in Live : StandsFor(a, i, n)
  /\ Kind[n] = "theta" => \A i \in ToSet(inputs[n]) : LoopOutput[i] \in Live
  /\ Kind[n] \in {"lambda", "delta", "phi"} =>
       \A a \in ToSet(arguments[Body(n)]) : InputOf[a] # None => a \in Live
  /\ Kind[n] = "phi" => \A o \in ToSet(outputs[n]) : RecursionLive(o)

\* The nodes and regions of D are swept, with all that is in them.
Swept(D) ==
  /\ \A n \in Nodes \ nodes : NodeItem(n) \in D
  /\ \A n \in nodes : NodeItem(n) \in D =>
       NodeSwept(n) /\ \A q \in ToSet(Subregions[n]) : RegionItem(q) \in D
  /\ \A r \in Regions : RegionItem(r) \in D =>
       ResultsClean(r) /\ \A n \in NodesOf(r) : NodeItem(n) \in D

\* What call c relies on besides.
CallReady(c) ==
  /\ c.op \in LoopOps \cup {"prune"} => c.at \in Regions /\ ResultsClean(c.at)
  /\ c.op = "nodes" => c.set \subseteq NodesOf(c.at)
  /\ c.op \in InputOps => c.at \in Nodes /\ ToSet(Outputs[c.at]) \cap Live # {}
  /\ c.op = "gamma_inputs" => ToSet(outputs[c.at]) \subseteq Live
  /\ c.op = "theta_inputs" => \A i \in ToSet(inputs[c.at]) : i \in c.set \/ LoopOutput[i] \in Live
  /\ c.op = "phi_arguments" =>
       /\ \A o \in ToSet(outputs[c.at]) : RecursionLive(o) /\ RecArgument[o] \notin c.set
       /\ \A o \in ToSet(Outputs[c.at]) :
            RecArgument[o] \in ToSet(arguments[Body(c.at)]) => RecArgument[o] \in c.set \/ RecursionLive(o)

\* The parts of the variables of node n that are there.
TiedAt(n) ==
  /\ \A q \in ToSet(Subregions[n]) :
       /\ \A a \in ToSet(arguments[q]) : InputOf[a] \in ToSet(inputs[n]) \cup {None}
       /\ \A u \in ToSet(results[q]) : OutputOf[u] \in ToSet(outputs[n]) \cup {None}
  /\ Kind[n] \in {"theta", "lambda", "delta", "phi"} =>
       \A i \in ToSet(inputs[n]) : \E a \in ToSet(arguments[Body(n)]) : InputOf[a] = i
  /\ Kind[n] = "theta" =>
       \A o \in ToSet(outputs[n]) : \E u \in ToSet(results[Body(n)]) : OutputOf[u] = o
  /\ Kind[n] = "phi" =>
       /\ \A o \in ToSet(Outputs[n]) : RecArgument[o] \in Live => o \in ToSet(outputs[n])
       /\ \A o \in ToSet(outputs[n]) : RecArgument[o] \in ToSet(arguments[Body(n)])

\* No input or argument of a variable is left whose output has gone.
Balanced(n) ==
  /\ Kind[n] = "theta" => \A i \in ToSet(inputs[n]) : LoopOutput[i] \in ToSet(outputs[n])
  /\ Kind[n] = "phi" =>
       \A o \in ToSet(Outputs[n]) :
         RecArgument[o] \in ToSet(arguments[Body(n)]) => o \in ToSet(outputs[n])

\* s is what is left of t, in the same order.
InOrder(s, t) ==
  \E g \in [DOMAIN s -> DOMAIN t] :
    /\ \A j, k \in DOMAIN s : j < k => g[j] < g[k]
    /\ \A k \in DOMAIN s : s[k] = t[g[k]]

\* The elements of the variables of loops and recursion are left in order.
RowsAt(n) ==
  Kind[n] \in {"theta", "phi"} =>
    /\ InOrder(inputs[n], Inputs[n]) /\ InOrder(outputs[n], Outputs[n])
    /\ InOrder(arguments[Body(n)], Arguments[Body(n)])
    /\ InOrder(results[Body(n)], Results[Body(n)])

UsedExist == Used \subseteq Sources

\* Every variable is balanced, or the call that does it is still to be made.
IsPending(n, w)   == \E c \in ToSet(w) : c.op \in InputOps /\ c.at = n
IsRootPending(w)  == \E c \in ToSet(w) : c.op \in {"run", "imports"}
RootSwept(D)      == RegionItem(Root) \in D /\ ToSet(arguments[Root]) \subseteq Live

GraphOK == UsedExist /\ \A n \in Nodes : TiedAt(n) /\ RowsAt(n)
CallsOK(w) ==
  /\ Stacked(w) /\ \A c \in ToSet(w) : CallReady(c)
  /\ \A n \in Nodes : Balanced(n) \/ IsPending(n, w)
SweptOK(D, w) == Swept(D) /\ Ordered(D, w) /\ (IsRootPending(w) \/ RootSwept(D))

SweepInv == marks = << >> => GraphOK /\ CallsOK(work) /\ \E D : SweptOK(D, work)

LEMMA NestingIs ==
  ASSUME NEW n \in Nodes
  PROVE  /\ RegionOf[n] \notin Inside[n]
         /\ \A m \in Nodes : RegionOf[m] \in Inside[n] => Inside[m] \subseteq Inside[n]
         /\ \A q \in ToSet(Subregions[n]) :
              /\ q \in Inside[n] /\ Around(q) \subseteq Inside[n]
              /\ \A m \in Nodes : q \in Inside[m] => m = n \/ RegionOf[n] \in Inside[m]
<1>1. RegionOf[n] \notin Inside[n]
  BY NestingAssumption
<1>2. ASSUME NEW m \in Nodes, RegionOf[m] \in Inside[n]
      PROVE  Inside[m] \subseteq Inside[n]
  <2>1. \A q \in Regions \ {Root} : Owner[q] = m \/ RegionOf[Owner[q]] \in Inside[n] => q \in Inside[n]
    BY <1>2, InsideIs
  <2>2. Inside[n] \in SUBSET Regions
    BY InsideIs
  <2> QED BY <2>1, <2>2, InsideIs
<1>3. ASSUME NEW q \in ToSet(Subregions[n])
      PROVE  /\ q \in Inside[n] /\ Around(q) \subseteq Inside[n]
             /\ \A m \in Nodes : q \in Inside[m] => m = n \/ RegionOf[n] \in Inside[m]
  <2>1. q \in Regions \ {Root} /\ Owner[q] = n
    BY OwnerIs
  <2>2. q \in Inside[n]
    BY <2>1, InsideIs
  <2>3. Around(q) \subseteq Inside[n]
    BY <1>2, <2>2 DEF Around
  <2> QED BY <2>1, <2>2, <2>3, InsideIs
<1> QED BY <1>1, <1>2, <1>3

LEMMA StackedTail ==
  ASSUME NEW S, NEW w \in Seq(S), w # << >>, Stacked(w)
  PROVE  Stacked(Tail(w)) /\ \A d \in ToSet(Tail(w)) : Apart(Head(w), d)
<1>1. /\ Len(w) \in Nat /\ Len(w) >= 1 /\ DOMAIN w = 1 .. Len(w)
      /\ Tail(w) \in Seq(S) /\ DOMAIN Tail(w) = 1 .. Len(w) - 1
      /\ \A k \in 1 .. Len(w) - 1 : Tail(w)[k] = w[k + 1] /\ k + 1 \in 1 .. Len(w)
      /\ Head(w) = w[1] /\ 1 \in 1 .. Len(w)
  OBVIOUS
<1> DEFINE t == Tail(w)
           h == Head(w)
<1> HIDE DEF t, h
<1>2. Stacked(t)
  <2> SUFFICES ASSUME NEW i \in DOMAIN t, NEW j \in DOMAIN t, i < j
               PROVE  Apart(t[i], t[j])
    BY DEF Stacked
  <2>1. i \in 1 .. Len(w) - 1 /\ j \in 1 .. Len(w) - 1 /\ i + 1 < j + 1
    BY <1>1 DEF t
  <2>2. t[i] = w[i + 1] /\ t[j] = w[j + 1] /\ i + 1 \in DOMAIN w /\ j + 1 \in DOMAIN w
    BY <1>1, <2>1 DEF t
  <2> QED BY <2>1, <2>2 DEF Stacked
<1>3. ASSUME NEW d \in ToSet(t)
      PROVE  Apart(h, d)
  <2>1. PICK k \in DOMAIN t : d = t[k]
    BY DEF ToSet
  <2>2. d = w[k + 1] /\ k + 1 \in DOMAIN w /\ 1 \in DOMAIN w /\ 1 < k + 1 /\ h = w[1]
    BY <1>1, <2>1 DEF t, h
  <2> QED BY <2>2 DEF Stacked
<1> QED BY <1>2, <1>3 DEF t, h

LEMMA StackedMore ==
  ASSUME NEW S, NEW p \in Seq(S), NEW t \in Seq(S), Stacked(p), Stacked(t),
         \A c \in ToSet(p), d \in ToSet(t) : Apart(c, d)
  PROVE  Stacked(p \o t)
<1> DEFINE w == p \o t
<1>1. /\ Len(p) \in Nat /\ Len(t) \in Nat /\ DOMAIN p = 1 .. Len(p) /\ DOMAIN t = 1 .. Len(t)
      /\ DOMAIN w = 1 .. Len(p) + Len(t)
      /\ \A k \in 1 .. Len(p) + Len(t) : w[k] = IF k <= Len(p) THEN p[k] ELSE t[k - Len(p)]
  OBVIOUS
<1> HIDE DEF w
<1> SUFFICES ASSUME NEW i \in DOMAIN w, NEW j \in DOMAIN w, i < j
             PROVE  Apart(w[i], w[j])
  BY DEF Stacked, w
<1>2. i \in 1 .. Len(p) + Len(t) /\ j \in 1 .. Len(p) + Len(t)
  BY <1>1
<1>3. CASE j <= Len(p)
  <2>1. w[i] = p[i] /\ w[j] = p[j] /\ i \in DOMAIN p /\ j \in DOMAIN p
    BY <1>1, <1>2, <1>3
  <2> QED BY <2>1 DEF Stacked
<1>4. CASE i > Len(p)
  <2>1. /\ w[i] = t[i - Len(p)] /\ w[j] = t[j - Len(p)]
        /\ i - Len(p) \in DOMAIN t /\ j - Len(p) \in DOMAIN t /\ i - Len(p) < j - Len(p)
    BY <1>1, <1>2, <1>4
  <2> QED BY <2>1 DEF Stacked
<1>5. CASE i <= Len(p) /\ j > Len(p)
  <2>1. /\ w[i] = p[i] /\ w[j] = t[j - Len(p)]
        /\ i \in DOMAIN p /\ j - Len(p) \in DOMAIN t
    BY <1>1, <1>2, <1>5
  <2>2. w[i] \in ToSet(p) /\ w[j] \in ToSet(t)
    BY <2>1 DEF ToSet
  <2> QED BY <2>2
<1> QED BY <1>2, <1>3, <1>4, <1>5

\* The calls that SweepRegion makes for node n: for its subregions, in order, and
\* then for its inputs.
IsCallFor(c, n) ==
  \/ c.op \in {"prune", "collect"} /\ c.at \in ToSet(Subregions[n])
  \/ c.op \in InputOps /\ c.at = n

LEMMA StackedVisit ==
  ASSUME NEW h \in CallType, h.op = "nodes", NEW n \in Nodes, n \in h.set, RegionOf[n] = h.at,
         h.set \subseteq Nodes, \A m \in h.set : RegionOf[m] = h.at,
         NEW t \in Seq(CallType), Stacked(t), \A d \in ToSet(t) : Apart(h, d),
         NEW calls \in Seq(CallType), Stacked(calls), \A c \in ToSet(calls) : IsCallFor(c, n)
  PROVE  Stacked(calls \o << [h EXCEPT !.set = @ \ {n}] >> \o t)
<1> DEFINE e == [h EXCEPT !.set = @ \ {n}]
           p == << e >>
<1>1. e \in CallType /\ e.op = "nodes" /\ e.at = h.at /\ e.set = h.set \ {n}
  BY DEF CallType
<1> HIDE DEF e
<1>2. p \in Seq(CallType) /\ Stacked(p) /\ ToSet(p) = {e}
  BY <1>1, SingleIs DEF Stacked
<1>3. \A d \in ToSet(t) : Apart(e, d)
  BY <1>1 DEF Apart, InputOps
<1>4. /\ RegionOf[n] \notin Inside[n]
      /\ \A q \in ToSet(Subregions[n]) : Around(q) \subseteq Inside[n]
  BY NestingIs
<1>5. ASSUME NEW c \in ToSet(calls), NEW d \in ToSet(t)
      PROVE  Apart(c, d)
  <2>1. Apart(h, d) /\ IsCallFor(c, n)
    BY <1>5
  <2>2. CASE c.op \in InputOps /\ c.at = n
    BY <2>1, <2>2 DEF Apart, InputOps, Scoped
  <2>3. CASE c.op \in {"prune", "collect"} /\ c.at \in ToSet(Subregions[n])
    <3>1. Scoped(d) => RegionAt(d) \notin Inside[n]
      BY <2>1 DEF Apart
    <3> QED BY <1>4, <2>3, <3>1 DEF Apart, InputOps
  <2> QED BY <2>1, <2>2, <2>3 DEF IsCallFor
<1>6. ASSUME NEW c \in ToSet(calls)
      PROVE  Apart(c, e)
  <2>1. CASE c.op \in InputOps /\ c.at = n
    BY <1>1, <2>1 DEF Apart, InputOps
  <2>2. CASE c.op \in {"prune", "collect"} /\ c.at \in ToSet(Subregions[n])
    <3>1. RegionAt(e) = RegionOf[n] /\ e.at = RegionOf[n]
      BY <1>1 DEF RegionAt, InputOps
    <3> QED BY <1>4, <2>2, <3>1 DEF Apart, InputOps
  <2> QED BY <1>6, <2>1, <2>2 DEF IsCallFor
<1> HIDE DEF p
<1>7. calls \o p \in Seq(CallType) /\ ToSet(calls \o p) = ToSet(calls) \cup ToSet(p)
  BY <1>2, ConcatIs
<1>8. Stacked(calls \o p)
  <2>1. \A c \in ToSet(calls), d \in ToSet(p) : Apart(c, d)
    BY <1>2, <1>6
  <2> QED BY <1>2, <2>1, StackedMore
<1>9. \A c \in ToSet(calls \o p), d \in ToSet(t) : Apart(c, d)
  BY <1>2, <1>3, <1>5, <1>7
<1>10. Stacked((calls \o p) \o t)
  BY <1>7, <1>8, <1>9, StackedMore
<1> QED BY <1>10 DEF p, e

LEMMA OrderedTail ==
  ASSUME NEW S, NEW w \in Seq(S), w # << >>, NEW D, Ordered(D, w), NEW E, D \subseteq E,
         \A x \in Items : Cleans(Head(w), x) => x \in E
  PROVE  Ordered(E, Tail(w)) /\ \A x \in Items : Relies(Head(w), x) => x \in D
<1> DEFINE t == Tail(w)
           h == Head(w)
<1>1. /\ Len(w) \in Nat /\ Len(w) >= 1 /\ DOMAIN w = 1 .. Len(w)
      /\ DOMAIN t = 1 .. Len(w) - 1
      /\ \A k \in 1 .. Len(w) - 1 : t[k] = w[k + 1] /\ k + 1 \in 1 .. Len(w)
      /\ h = w[1] /\ 1 \in 1 .. Len(w)
  OBVIOUS
<1> HIDE DEF t, h
<1>2. ASSUME NEW j \in DOMAIN t, NEW x \in Items, Relies(t[j], x)
      PROVE  x \in E \/ \E i \in DOMAIN t : i < j /\ Cleans(t[i], x)
  <2>1. j \in 1 .. Len(w) - 1 /\ j + 1 \in DOMAIN w /\ t[j] = w[j + 1]
    BY <1>1
  <2>2. x \in D \/ \E i \in DOMAIN w : i < j + 1 /\ Cleans(w[i], x)
    BY <1>2, <2>1 DEF Ordered
  <2>3. ASSUME NEW i \in DOMAIN w, i < j + 1, Cleans(w[i], x)
        PROVE  x \in E \/ \E k \in DOMAIN t : k < j /\ Cleans(t[k], x)
    <3>1. CASE i = 1
      BY <1>1, <2>3, <3>1 DEF h
    <3>2. CASE i # 1
      <4>1. i - 1 \in DOMAIN t /\ i - 1 < j /\ i - 1 + 1 = i
        BY <1>1, <2>1, <2>3, <3>2
      <4>2. t[i - 1] = w[i]
        BY <1>1, <4>1
      <4> QED BY <2>3, <4>1, <4>2
    <3> QED BY <3>1, <3>2
  <2> QED BY <2>2, <2>3
<1>3. ASSUME NEW x \in Items, Relies(h, x)
      PROVE  x \in D
  <2>1. ~ \E i \in DOMAIN w : i < 1
    BY <1>1
  <2> QED BY <1>1, <1>3, <2>1 DEF Ordered
<1> QED BY <1>2, <1>3 DEF Ordered, t, h

LEMMA OrderedMore ==
  ASSUME NEW S, NEW p \in Seq(S), NEW t \in Seq(S), NEW D, NEW E, Ordered(D, p), Ordered(E, t),
         \A x \in Items : x \in E => x \in D \/ \E c \in ToSet(p) : Cleans(c, x)
  PROVE  Ordered(D, p \o t)
<1> DEFINE w == p \o t
<1>1. /\ Len(p) \in Nat /\ Len(t) \in Nat /\ DOMAIN p = 1 .. Len(p) /\ DOMAIN t = 1 .. Len(t)
      /\ DOMAIN w = 1 .. Len(p) + Len(t)
      /\ \A k \in 1 .. Len(p) + Len(t) : w[k] = IF k <= Len(p) THEN p[k] ELSE t[k - Len(p)]
  OBVIOUS
<1> HIDE DEF w
<1>2. ASSUME NEW i \in DOMAIN p
      PROVE  i \in DOMAIN w /\ w[i] = p[i] /\ i <= Len(p)
  BY <1>1
<1>3. ASSUME NEW i \in DOMAIN t
      PROVE  i + Len(p) \in DOMAIN w /\ w[i + Len(p)] = t[i]
  <2>1. i + Len(p) \in 1 .. Len(p) + Len(t) /\ ~ (i + Len(p) <= Len(p)) /\ i + Len(p) - Len(p) = i
    BY <1>1
  <2> QED BY <1>1, <2>1
<1>4. ASSUME NEW c \in ToSet(p)
      PROVE  \E i \in DOMAIN w : i <= Len(p) /\ w[i] = c
  BY <1>2 DEF ToSet
<1> SUFFICES ASSUME NEW j \in DOMAIN w, NEW x \in Items, Relies(w[j], x)
             PROVE  x \in D \/ \E i \in DOMAIN w : i < j /\ Cleans(w[i], x)
  BY DEF Ordered, w
<1>5. CASE j <= Len(p)
  <2>1. j \in DOMAIN p /\ w[j] = p[j]
    BY <1>1, <1>5
  <2>2. x \in D \/ \E i \in DOMAIN p : i < j /\ Cleans(p[i], x)
    BY <2>1 DEF Ordered
  <2> QED BY <1>2, <2>2
<1>6. CASE j > Len(p)
  <2> DEFINE k == j - Len(p)
  <2>1. k \in DOMAIN t /\ w[j] = t[k] /\ j = k + Len(p)
    BY <1>1, <1>6
  <2>2. x \in E \/ \E i \in DOMAIN t : i < k /\ Cleans(t[i], x)
    BY <2>1 DEF Ordered
  <2>3. ASSUME NEW i \in DOMAIN t, i < k, Cleans(t[i], x)
        PROVE  \E l \in DOMAIN w : l < j /\ Cleans(w[l], x)
    <3>1. i + Len(p) < j
      BY <1>1, <2>1, <2>3
    <3> QED BY <1>3, <2>3, <3>1
  <2>4. ASSUME NEW c \in ToSet(p), Cleans(c, x)
        PROVE  \E l \in DOMAIN w : l < j /\ Cleans(w[l], x)
    <3>1. PICK i \in DOMAIN w : i <= Len(p) /\ w[i] = c
      BY <1>4
    <3>2. i < j
      BY <1>1, <1>6, <3>1
    <3> QED BY <2>4, <3>1, <3>2
  <2> QED BY <2>2, <2>3, <2>4
<1>7. j \in Int /\ Len(p) \in Int
  BY <1>1
<1> QED BY <1>5, <1>6, <1>7

\* Calls that rely on what is swept are made in any order.
LEMMA OrderedIdle ==
  ASSUME NEW S, NEW w \in Seq(S), NEW D,
         \A c \in ToSet(w) : \A x \in Items : Relies(c, x) => x \in D
  PROVE  Ordered(D, w)
<1>1. \A j \in DOMAIN w : w[j] \in ToSet(w)
  BY DEF ToSet
<1> QED BY <1>1 DEF Ordered

LEMMA OrderedSingle ==
  ASSUME NEW S, NEW c \in S, NEW D, \A x \in Items : Relies(c, x) => x \in D
  PROVE  Ordered(D, << c >>)
<1> DEFINE o == << c >>
<1>1. o \in Seq(S) /\ ToSet(o) = {c}
  BY SingleIs
<1>2. \A d \in {c} : \A x \in Items : Relies(d, x) => x \in D
  OBVIOUS
<1> HIDE DEF o
<1>3. Ordered(D, o)
  BY <1>1, <1>2, OrderedIdle
<1> QED BY <1>3 DEF o

\* The loop goes on, with e, after the calls p.
LEMMA OrderedLoop ==
  ASSUME NEW S, NEW p \in Seq(S), NEW e \in S, NEW t \in Seq(S), NEW B, NEW D,
         Ordered(B, p), Ordered(D, t),
         \A x \in Items : Relies(e, x) => x \in B \/ \E c \in ToSet(p) : Cleans(c, x),
         \A x \in Items : x \in D => x \in B \/ Cleans(e, x)
  PROVE  Ordered(B, p \o << e >> \o t)
<1> DEFINE C == B \cup {x \in Items : \E c \in ToSet(p) : Cleans(c, x)}
           o == << e >>
<1>1. o \in Seq(S) /\ ToSet(o) = {e}
  BY SingleIs
<1>2. Ordered(C, o)
  <2>1. \A x \in Items : Relies(e, x) => x \in C
    OBVIOUS
  <2> HIDE DEF C
  <2> QED BY <2>1, OrderedSingle
<1>3. Ordered(B, p \o o)
  <2>1. \A x \in Items : x \in C => x \in B \/ \E c \in ToSet(p) : Cleans(c, x)
    OBVIOUS
  <2> HIDE DEF C, o
  <2> QED BY <1>1, <1>2, <2>1, OrderedMore
<1> HIDE DEF o
<1>4. p \o o \in Seq(S) /\ e \in ToSet(p \o o)
  BY <1>1, ConcatIs
<1>5. \A x \in Items : x \in D => x \in B \/ \E c \in ToSet(p \o o) : Cleans(c, x)
  BY <1>4
<1>6. Ordered(B, (p \o o) \o t)
  <2> HIDE DEF C
  <2> QED BY <1>3, <1>4, <1>5, OrderedMore
<1> QED BY <1>6 DEF o

\* The calls for the inputs of node n are made when its regions have been swept.
LEMMA OrderedVisit ==
  ASSUME NEW S, NEW a \in Seq(S), NEW c \in S, NEW B, NEW n \in Nodes,
         \A d \in ToSet(a) : \A x \in Items : ~ Relies(d, x),
         c.op \in InputOps, c.at = n,
         \A q \in ToSet(Subregions[n]) : \E d \in ToSet(a) : Cleans(d, RegionItem(q))
  PROVE  Ordered(B, a \o << c >>) /\ a \o << c >> \in Seq(S) /\ ToSet(a \o << c >>) = ToSet(a) \cup {c}
<1> DEFINE C == B \cup {x \in Items : \E d \in ToSet(a) : Cleans(d, x)}
           o == << c >>
<1>1. o \in Seq(S) /\ ToSet(o) = {c}
  BY SingleIs
<1>2. \A x \in Items : Relies(c, x) => x \in C
  BY DEF Relies, InputOps
<1>3. Ordered(C, o)
  <2> HIDE DEF C
  <2> QED BY <1>2, OrderedSingle
<1>4. Ordered(B, a)
  BY OrderedIdle
<1>5. \A x \in Items : x \in C => x \in B \/ \E d \in ToSet(a) : Cleans(d, x)
  OBVIOUS
<1> HIDE DEF C, o
<1>6. Ordered(B, a \o o)
  BY <1>1, <1>3, <1>4, <1>5, OrderedMore
<1>7. a \o o \in Seq(S) /\ ToSet(a \o o) = ToSet(a) \cup {c}
  BY <1>1, ConcatIs
<1> QED BY <1>6, <1>7 DEF o

-----------------------------------------------------------------------------
(* What stays true when something goes away. *)

Less ==
  /\ nodes' \subseteq nodes
  /\ \A n \in Nodes : ToSet(inputs'[n]) \subseteq ToSet(inputs[n])
  /\ \A n \in Nodes : ToSet(outputs'[n]) \subseteq ToSet(outputs[n])
  /\ \A r \in Regions : ToSet(arguments'[r]) \subseteq ToSet(arguments[r])
  /\ \A r \in Regions : ToSet(results'[r]) \subseteq ToSet(results[r])
  /\ alive' = alive /\ origin' = origin

LEMMA CleanStays ==
  ASSUME Less
  PROVE  /\ Live' = Live
         /\ \A n \in Nodes : NodeSwept(n) => NodeSwept(n)'
         /\ \A r \in Regions : ResultsClean(r) => ResultsClean(r)'
<1>1. Live' = Live /\ origin' = origin
  BY DEF Less, Live
<1>2. ASSUME NEW n \in Nodes, NodeSwept(n)
      PROVE  NodeSwept(n)'
  <2>1. ToSet(inputs'[n]) \subseteq ToSet(inputs[n]) /\ ToSet(outputs'[n]) \subseteq ToSet(outputs[n])
    BY DEF Less
  <2>2. /\ NodeClean(n)'
        /\ ToSet(Outputs[n]) \cap Live' # {}
    BY <1>1, <1>2, <2>1 DEF NodeSwept, NodeClean
  <2>3. Kind[n] = "gamma" =>
          /\ ToSet(outputs'[n]) \subseteq Live'
          /\ \A i \in ToSet(inputs'[n]) \cap ToSet(Tail(Inputs[n])) : \E a \in Live' : StandsFor(a, i, n)
    BY <1>1, <1>2, <2>1 DEF NodeSwept
  <2>4. Kind[n] = "theta" => \A i \in ToSet(inputs'[n]) : LoopOutput[i] \in Live'
    BY <1>1, <1>2, <2>1 DEF NodeSwept
  <2>5. Kind[n] \in {"lambda", "delta", "phi"} =>
          \A a \in ToSet(arguments'[Body(n)]) : InputOf[a] # None => a \in Live'
    <3>1. ASSUME Kind[n] \in {"lambda", "delta", "phi"}
          PROVE  ToSet(arguments'[Body(n)]) \subseteq ToSet(arguments[Body(n)])
      BY <3>1, BodyIs DEF Less
    <3> QED BY <1>1, <1>2, <3>1 DEF NodeSwept
  <2>6. Kind[n] = "phi" => \A o \in ToSet(outputs'[n]) : RecursionLive(o)'
    BY <1>1, <1>2, <2>1 DEF NodeSwept, RecursionLive
  <2> QED BY <2>2, <2>3, <2>4, <2>5, <2>6 DEF NodeSwept
<1>3. ASSUME NEW r \in Regions, ResultsClean(r)
      PROVE  ResultsClean(r)'
  BY <1>1, <1>3 DEF ResultsClean, Less
<1> QED BY <1>1, <1>2, <1>3

LEMMA ReadyStays ==
  ASSUME Less, NEW c \in CallType, CallOK(c), CallReady(c)
  PROVE  CallReady(c)'
<1>1. Live' = Live /\ origin' = origin
  BY DEF Less, Live
<1>2. c.op \in LoopOps \cup {"prune"} => c.at \in Regions /\ ResultsClean(c.at)'
  BY CleanStays DEF CallReady
<1>3. c.op = "nodes" => c.set \subseteq NodesOf(c.at)
  BY DEF CallReady
<1>4. c.op \in InputOps => c.at \in Nodes /\ ToSet(Outputs[c.at]) \cap Live' # {}
  BY <1>1 DEF CallReady
<1>5. c.op = "gamma_inputs" => ToSet(outputs'[c.at]) \subseteq Live'
  <2> SUFFICES ASSUME c.op = "gamma_inputs" PROVE ToSet(outputs'[c.at]) \subseteq Live'
    OBVIOUS
  <2>1. ToSet(outputs'[c.at]) \subseteq ToSet(outputs[c.at])
    BY <1>4 DEF Less, InputOps
  <2> QED BY <1>1, <2>1 DEF CallReady
<1>6. c.op = "theta_inputs" => \A i \in ToSet(inputs'[c.at]) : i \in c.set \/ LoopOutput[i] \in Live'
  <2> SUFFICES ASSUME c.op = "theta_inputs"
               PROVE  \A i \in ToSet(inputs'[c.at]) : i \in c.set \/ LoopOutput[i] \in Live'
    OBVIOUS
  <2>1. ToSet(inputs'[c.at]) \subseteq ToSet(inputs[c.at])
    BY <1>4 DEF Less, InputOps
  <2> QED BY <1>1, <2>1 DEF CallReady
<1>7. c.op = "phi_arguments" =>
        /\ \A o \in ToSet(outputs'[c.at]) : RecursionLive(o)' /\ RecArgument[o] \notin c.set
        /\ \A o \in ToSet(Outputs[c.at]) :
             RecArgument[o] \in ToSet(arguments'[Body(c.at)]) => RecArgument[o] \in c.set \/ RecursionLive(o)'
  <2> SUFFICES ASSUME c.op = "phi_arguments"
               PROVE  /\ \A o \in ToSet(outputs'[c.at]) : RecursionLive(o)' /\ RecArgument[o] \notin c.set
                      /\ \A o \in ToSet(Outputs[c.at]) :
                           RecArgument[o] \in ToSet(arguments'[Body(c.at)])
                             => RecArgument[o] \in c.set \/ RecursionLive(o)'
    OBVIOUS
  <2>1. c.at \in Nodes /\ Kind[c.at] = "phi"
    BY DEF CallOK
  <2>2. Body(c.at) \in Regions
    BY <2>1, BodyIs
  <2>3. ToSet(outputs'[c.at]) \subseteq ToSet(outputs[c.at])
    BY <2>1 DEF Less
  <2>4. ToSet(arguments'[Body(c.at)]) \subseteq ToSet(arguments[Body(c.at)])
    BY <2>2 DEF Less
  <2>5. \A o : RecursionLive(o)' <=> RecursionLive(o)
    BY <1>1 DEF RecursionLive
  <2> QED BY <2>3, <2>4, <2>5 DEF CallReady
<1> QED BY <1>2, <1>3, <1>4, <1>5, <1>6, <1>7 DEF CallReady

\* What is swept stays so; what has gone need not be swept.
LEMMA SweptStays ==
  ASSUME Less, NEW D, Swept(D), NEW E, D \subseteq E,
         \A n \in Nodes \ nodes' : NodeItem(n) \in E,
         \A n \in nodes' : NodeItem(n) \in E \ D =>
           NodeSwept(n)' /\ \A q \in ToSet(Subregions[n]) : RegionItem(q) \in E,
         \A r \in Regions : RegionItem(r) \in E \ D =>
           ResultsClean(r)' /\ \A n \in NodesOf(r) : NodeItem(n) \in E,
         nodes \subseteq Nodes
  PROVE  Swept(E)'
<1>1. ASSUME NEW n \in nodes', NodeItem(n) \in E
      PROVE  NodeSwept(n)' /\ \A q \in ToSet(Subregions[n]) : RegionItem(q) \in E
  <2>1. n \in nodes /\ n \in Nodes
    BY DEF Less
  <2>2. CASE NodeItem(n) \in D
    <3>1. NodeSwept(n) /\ \A q \in ToSet(Subregions[n]) : RegionItem(q) \in D
      BY <2>1, <2>2 DEF Swept
    <3> QED BY <2>1, <3>1, CleanStays
  <2>3. CASE NodeItem(n) \notin D
    BY <1>1, <2>3
  <2> QED BY <2>2, <2>3
<1>2. ASSUME NEW r \in Regions, RegionItem(r) \in E
      PROVE  ResultsClean(r)' /\ \A n \in NodesOf(r) : NodeItem(n) \in E
  <2>1. CASE RegionItem(r) \in D
    <3>1. ResultsClean(r) /\ \A n \in NodesOf(r) : NodeItem(n) \in D
      BY <2>1 DEF Swept
    <3> QED BY <3>1, CleanStays
  <2>2. CASE RegionItem(r) \notin D
    BY <1>2, <2>2
  <2> QED BY <2>1, <2>2
<1> QED BY <1>1, <1>2 DEF Swept

LEMMA ItemsApart ==
  /\ \A n, m : NodeItem(n) = NodeItem(m) => n = m
  /\ \A r, q : RegionItem(r) = RegionItem(q) => r = q
  /\ \A n, r : NodeItem(n) # RegionItem(r)
  /\ \A n \in Nodes : NodeItem(n) \in Items
  /\ \A r \in Regions : RegionItem(r) \in Items
BY DEF NodeItem, RegionItem, Items

-----------------------------------------------------------------------------
(* What is left in order. *)

LEMMA InOrderSame ==
  ASSUME NEW S, NEW t \in Seq(S)
  PROVE  InOrder(t, t)
<1> DEFINE g == [k \in DOMAIN t |-> k]
<1>1. g \in [DOMAIN t -> DOMAIN t]
  OBVIOUS
<1>2. /\ \A j, k \in DOMAIN t : j < k => g[j] < g[k]
      /\ \A k \in DOMAIN t : t[k] = t[g[k]]
  OBVIOUS
<1> HIDE DEF g
<1> QED BY <1>1, <1>2 DEF InOrder

LEMMA InOrderNone ==
  ASSUME NEW t
  PROVE  InOrder(<< >>, t)
<1> DEFINE g == [k \in DOMAIN << >> |-> k]
<1>1. DOMAIN << >> = {}
  OBVIOUS
<1>2. g \in [DOMAIN << >> -> DOMAIN t]
  BY <1>1
<1> HIDE DEF g
<1> QED BY <1>1, <1>2 DEF InOrder

LEMMA InOrderWithout ==
  ASSUME NEW S, NEW s \in Seq(S), NEW T, NEW t \in Seq(T), InOrder(s, t), NEW x, NEW w,
         w = Without(s, x)
  PROVE  InOrder(w, t)
<1> DEFINE N == Cardinality(Staying(s, x))
<1>1. PICK g \in [DOMAIN s -> DOMAIN t] :
        /\ \A j, k \in DOMAIN s : j < k => g[j] < g[k]
        /\ \A k \in DOMAIN s : s[k] = t[g[k]]
  BY DEF InOrder
<1>2. w \in Seq(S) /\ Len(w) = N /\ \A j \in 1 .. N : w[j] = s[At(s, x, j)]
  BY WithoutIs
<1>3. /\ N \in Nat /\ \A j \in 1 .. N : At(s, x, j) \in DOMAIN s
      /\ \A j, k \in 1 .. N : j < k => At(s, x, j) < At(s, x, k)
  <2>1. /\ N \in Nat /\ \A j \in 1 .. N : At(s, x, j) \in Staying(s, x)
        /\ \A j, k \in 1 .. N : j < k => At(s, x, j) < At(s, x, k)
    BY StayingCount
  <2>2. \A k \in Staying(s, x) : k \in DOMAIN s
    BY DEF Staying
  <2> HIDE DEF N
  <2> QED BY <2>1, <2>2
<1> HIDE DEF N
<1>4. DOMAIN w = 1 .. N
  BY <1>2
<1> DEFINE h == [j \in 1 .. N |-> g[At(s, x, j)]]
<1>5. h \in [DOMAIN w -> DOMAIN t]
  BY <1>1, <1>3, <1>4
<1>6. ASSUME NEW j \in 1 .. N, NEW k \in 1 .. N, j < k
      PROVE  h[j] < h[k]
  BY <1>1, <1>3, <1>6
<1>7. ASSUME NEW k \in 1 .. N
      PROVE  w[k] = t[h[k]]
  BY <1>1, <1>2, <1>3
<1> HIDE DEF h
<1> QED BY <1>4, <1>5, <1>6, <1>7 DEF InOrder

-----------------------------------------------------------------------------
(* What one node's share of the graph tells when it does not change, and when *)
(* it goes.                                                                   *)

Untouched(n) ==
  /\ inputs'[n] = inputs[n] /\ outputs'[n] = outputs[n]
  /\ \A q \in ToSet(Subregions[n]) : arguments'[q] = arguments[q] /\ results'[q] = results[q]
Emptied(n) ==
  /\ inputs'[n] = << >> /\ outputs'[n] = << >>
  /\ \A q \in ToSet(Subregions[n]) : arguments'[q] = << >> /\ results'[q] = << >>

LEMMA UntouchedKeeps ==
  ASSUME NEW n \in Nodes, Untouched(n), alive' = alive
  PROVE  /\ TiedAt(n) => TiedAt(n)'
         /\ RowsAt(n) => RowsAt(n)'
         /\ Balanced(n) => Balanced(n)'
<1>1. Live' = Live
  BY DEF Live
<1>2. inputs'[n] = inputs[n] /\ outputs'[n] = outputs[n]
  BY DEF Untouched
<1>3. \A q \in ToSet(Subregions[n]) : arguments'[q] = arguments[q] /\ results'[q] = results[q]
  BY DEF Untouched
<1>4. Kind[n] \in {"theta", "lambda", "delta", "phi"} =>
        /\ arguments'[Body(n)] = arguments[Body(n)] /\ results'[Body(n)] = results[Body(n)]
  BY <1>3, BodyIs
<1>5. TiedAt(n) => TiedAt(n)'
  <2> SUFFICES ASSUME TiedAt(n) PROVE TiedAt(n)'
    OBVIOUS
  <2>1. \A q \in ToSet(Subregions[n]) :
          /\ \A a \in ToSet(arguments'[q]) : InputOf[a] \in ToSet(inputs'[n]) \cup {None}
          /\ \A u \in ToSet(results'[q]) : OutputOf[u] \in ToSet(outputs'[n]) \cup {None}
    BY <1>2, <1>3 DEF TiedAt
  <2>2. Kind[n] \in {"theta", "lambda", "delta", "phi"} =>
          \A i \in ToSet(inputs'[n]) : \E a \in ToSet(arguments'[Body(n)]) : InputOf[a] = i
    BY <1>2, <1>4 DEF TiedAt
  <2>3. Kind[n] = "theta" =>
          \A o \in ToSet(outputs'[n]) : \E u \in ToSet(results'[Body(n)]) : OutputOf[u] = o
    BY <1>2, <1>4 DEF TiedAt
  <2>4. Kind[n] = "phi" =>
          /\ \A o \in ToSet(Outputs[n]) : RecArgument[o] \in Live' => o \in ToSet(outputs'[n])
          /\ \A o \in ToSet(outputs'[n]) : RecArgument[o] \in ToSet(arguments'[Body(n)])
    BY <1>1, <1>2, <1>4 DEF TiedAt
  <2> QED BY <2>1, <2>2, <2>3, <2>4 DEF TiedAt
<1>6. RowsAt(n) => RowsAt(n)'
  BY <1>2, <1>4 DEF RowsAt
<1>7. Balanced(n) => Balanced(n)'
  <2> SUFFICES ASSUME Balanced(n) PROVE Balanced(n)'
    OBVIOUS
  <2>1. Kind[n] = "theta" => \A i \in ToSet(inputs'[n]) : LoopOutput[i] \in ToSet(outputs'[n])
    BY <1>2 DEF Balanced
  <2>2. Kind[n] = "phi" =>
          \A o \in ToSet(Outputs[n]) :
            RecArgument[o] \in ToSet(arguments'[Body(n)]) => o \in ToSet(outputs'[n])
    BY <1>2, <1>4 DEF Balanced
  <2> QED BY <2>1, <2>2 DEF Balanced
<1> QED BY <1>5, <1>6, <1>7

LEMMA EmptiedKeeps ==
  ASSUME NEW n \in Nodes, Emptied(n), alive' = alive,
         \A q \in ToSet(Subregions[n]) : ToSet(Arguments[q]) \cap Live = {}
  PROVE  TiedAt(n)' /\ RowsAt(n)' /\ Balanced(n)'
<1>1. Live' = Live /\ ToSet(<< >>) = {}
  BY EmptyIs DEF Live
<1>2. inputs'[n] = << >> /\ outputs'[n] = << >>
  BY DEF Emptied
<1>3. \A q \in ToSet(Subregions[n]) : arguments'[q] = << >> /\ results'[q] = << >>
  BY DEF Emptied
<1>4. Kind[n] \in {"theta", "lambda", "delta", "phi"} =>
        /\ arguments'[Body(n)] = << >> /\ results'[Body(n)] = << >>
        /\ Body(n) \in ToSet(Subregions[n])
  BY <1>3, BodyIs
<1>5. TiedAt(n)'
  <2>1. \A q \in ToSet(Subregions[n]) :
          /\ \A a \in ToSet(arguments'[q]) : InputOf[a] \in ToSet(inputs'[n]) \cup {None}
          /\ \A u \in ToSet(results'[q]) : OutputOf[u] \in ToSet(outputs'[n]) \cup {None}
    BY <1>1, <1>3
  <2>2. Kind[n] \in {"theta", "lambda", "delta", "phi"} =>
          \A i \in ToSet(inputs'[n]) : \E a \in ToSet(arguments'[Body(n)]) : InputOf[a] = i
    BY <1>1, <1>2
  <2>3. Kind[n] = "theta" =>
          \A o \in ToSet(outputs'[n]) : \E u \in ToSet(results'[Body(n)]) : OutputOf[u] = o
    BY <1>1, <1>2
  <2>4. Kind[n] = "phi" =>
          /\ \A o \in ToSet(Outputs[n]) : RecArgument[o] \in Live' => o \in ToSet(outputs'[n])
          /\ \A o \in ToSet(outputs'[n]) : RecArgument[o] \in ToSet(arguments'[Body(n)])
    <3> SUFFICES ASSUME Kind[n] = "phi", NEW o \in ToSet(Outputs[n]), RecArgument[o] \in Live
                 PROVE  FALSE
      BY <1>1, <1>2
    <3>1. RecArgument[o] \in ToSet(Arguments[Body(n)])
      BY PhiIs
    <3> QED BY <1>4, <3>1
  <2> QED BY <2>1, <2>2, <2>3, <2>4 DEF TiedAt
<1>6. RowsAt(n)'
  BY <1>2, <1>4, InOrderNone DEF RowsAt
<1>7. Balanced(n)'
  <2>1. Kind[n] = "theta" => \A i \in ToSet(inputs'[n]) : LoopOutput[i] \in ToSet(outputs'[n])
    BY <1>1, <1>2
  <2>2. Kind[n] = "phi" =>
          \A o \in ToSet(Outputs[n]) :
            RecArgument[o] \in ToSet(arguments'[Body(n)]) => o \in ToSet(outputs'[n])
    BY <1>1, <1>4
  <2> QED BY <2>1, <2>2 DEF Balanced
<1> QED BY <1>5, <1>6, <1>7

\* What uses a source is in the same region.
LEMMA UserPlace ==
  ASSUME origin \in Wirings, NEW r \in Regions, NEW u, origin[u] \in SourcesIn(r)
  PROVE  /\ \A m \in Nodes : u \in ToSet(Inputs[m]) => RegionOf[m] = r
         /\ \A q \in Regions : u \in ToSet(Results[q]) => q = r
<1>1. ASSUME NEW m \in Nodes, u \in ToSet(Inputs[m])
      PROVE  RegionOf[m] = r
  <2>1. origin[u] \in SourcesIn(RegionOf[m]) /\ RegionOf[m] \in Regions
    BY <1>1, OriginRegion, SourceRegion
  <2> QED BY <2>1, OneRegion
<1>2. ASSUME NEW q \in Regions, u \in ToSet(Results[q])
      PROVE  q = r
  <2>1. origin[u] \in SourcesIn(q)
    BY <1>2, OriginRegion
  <2> QED BY <2>1, OneRegion
<1> QED BY <1>1, <1>2

\* u is an input or result that is there.
Present(u) == (\E m \in Nodes : u \in ToSet(inputs[m])) \/ (\E r \in Regions : u \in ToSet(results[r]))

LEMMA PresentIs ==
  ASSUME Shape
  PROVE  /\ \A u : Present(u) <=> u \in Uses
         /\ \A s : s \in Used <=> \E u : Present(u) /\ origin[u] = s
         /\ \A s : s \in Sources <=> \/ \E m \in Nodes : s \in ToSet(outputs[m])
                                     \/ \E r \in Regions : s \in ToSet(arguments[r])
<1>1. DOMAIN inputs = Nodes /\ DOMAIN outputs = Nodes /\ DOMAIN arguments = Regions /\ DOMAIN results = Regions
  BY DEF Shape
<1>2. \A u : Present(u) <=> u \in Uses
  BY <1>1 DEF Present, Uses, Members
<1>3. \A s : s \in Used <=> \E u : u \in Uses /\ origin[u] = s
  BY DEF Used
<1>4. \A s : s \in Sources <=> \/ \E m \in Nodes : s \in ToSet(outputs[m])
                               \/ \E r \in Regions : s \in ToSet(arguments[r])
  BY <1>1 DEF Sources, Members
<1> QED BY <1>2, <1>3, <1>4

LEMMA PresentNext ==
  ASSUME Shape'
  PROVE  /\ \A u : Present(u)' <=> u \in Uses'
         /\ \A s : s \in Used' <=> \E u : Present(u)' /\ origin'[u] = s
         /\ \A s : s \in Sources' <=> \/ \E m \in Nodes : s \in ToSet(outputs'[m])
                                      \/ \E r \in Regions : s \in ToSet(arguments'[r])
<1>1. DOMAIN inputs' = Nodes /\ DOMAIN outputs' = Nodes /\ DOMAIN arguments' = Regions /\ DOMAIN results' = Regions
  BY DEF Shape
<1>2. \A u : Present(u)' <=> u \in Uses'
  BY <1>1 DEF Present, Uses, Members
<1>3. \A s : s \in Used' <=> \E u : u \in Uses' /\ origin'[u] = s
  BY DEF Used
<1>4. \A s : s \in Sources' <=> \/ \E m \in Nodes : s \in ToSet(outputs'[m])
                                \/ \E r \in Regions : s \in ToSet(arguments'[r])
  BY <1>1 DEF Sources, Members
<1> QED BY <1>2, <1>3, <1>4

LEMMA UsedStays ==
  ASSUME Shape, Shape', Less, UsedExist,
         \A m \in Nodes : \A s \in ToSet(outputs[m]) \ ToSet(outputs'[m]) : s \notin Used',
         \A r \in Regions : \A s \in ToSet(arguments[r]) \ ToSet(arguments'[r]) : s \notin Used'
  PROVE  UsedExist' /\ Used' \subseteq Used
<1>1. ASSUME NEW s \in Used'
      PROVE  s \in Used /\ s \in Sources'
  <2>1. PICK u : Present(u)' /\ origin'[u] = s
    BY PresentNext
  <2>2. Present(u) /\ origin[u] = s
    BY <2>1 DEF Less, Present
  <2>3. s \in Used
    BY <2>2, PresentIs
  <2>4. s \in Sources
    BY <2>3 DEF UsedExist
  <2>5. \/ \E m \in Nodes : s \in ToSet(outputs[m])
        \/ \E r \in Regions : s \in ToSet(arguments[r])
    BY <2>4, PresentIs
  <2>6. \/ \E m \in Nodes : s \in ToSet(outputs'[m])
        \/ \E r \in Regions : s \in ToSet(arguments'[r])
    BY <2>5
  <2> QED BY <2>3, <2>6, PresentNext
<1> QED BY <1>1 DEF UsedExist

-----------------------------------------------------------------------------
(* A node that is destroyed. *)

LEMMA DestroyIs ==
  ASSUME Shape, NEW n \in Nodes, Destroy(n), alive' = alive
  PROVE  /\ Less
         /\ \A m \in Nodes : /\ Within(m, n) => Emptied(m)
                             /\ ~Within(m, n) => Untouched(m)
                             /\ m \in nodes' <=> m \in nodes /\ ~Within(m, n)
         /\ \A r \in Regions : /\ r \in Inside[n] => arguments'[r] = << >> /\ results'[r] = << >>
                               /\ r \notin Inside[n] => arguments'[r] = arguments[r] /\ results'[r] = results[r]
<1> DEFINE gone == {n} \cup {m \in nodes : RegionOf[m] \in Inside[n]}
           I == Inside[n]
<1>2. /\ nodes' = nodes \ gone
      /\ inputs' = [y \in DOMAIN inputs |-> IF y \in gone THEN << >> ELSE inputs[y]]
      /\ outputs' = [y \in DOMAIN outputs |-> IF y \in gone THEN << >> ELSE outputs[y]]
      /\ arguments' = [y \in DOMAIN arguments |-> IF y \in I THEN << >> ELSE arguments[y]]
      /\ results' = [y \in DOMAIN results |-> IF y \in I THEN << >> ELSE results[y]]
      /\ origin' = origin
  BY DEF Destroy
<1>3. /\ nodes \subseteq Nodes
      /\ DOMAIN inputs = Nodes /\ DOMAIN outputs = Nodes
      /\ DOMAIN arguments = Regions /\ DOMAIN results = Regions
      /\ \A m \in Nodes \ nodes : inputs[m] = << >> /\ outputs[m] = << >>
  BY DEF Shape
<1>4. \A m \in Nodes : /\ Within(m, n) => m \in gone \/ m \notin nodes
                       /\ m \in gone => Within(m, n)
                       /\ m \in nodes' <=> m \in nodes /\ ~Within(m, n)
  BY <1>2, <1>3 DEF Within
<1> HIDE DEF gone, I
<1>6. \A m \in Nodes : /\ inputs'[m] = IF Within(m, n) THEN << >> ELSE inputs[m]
                       /\ outputs'[m] = IF Within(m, n) THEN << >> ELSE outputs[m]
  BY <1>2, <1>3, <1>4
<1>7. \A r \in Regions : /\ arguments'[r] = IF r \in I THEN << >> ELSE arguments[r]
                         /\ results'[r] = IF r \in I THEN << >> ELSE results[r]
  BY <1>2, <1>3
<1>8. Less
  <2>1. \A m \in Nodes : ToSet(inputs'[m]) \subseteq ToSet(inputs[m]) /\ ToSet(outputs'[m]) \subseteq ToSet(outputs[m])
    BY <1>6, EmptyIs
  <2>2. \A r \in Regions : ToSet(arguments'[r]) \subseteq ToSet(arguments[r]) /\ ToSet(results'[r]) \subseteq ToSet(results[r])
    BY <1>7, EmptyIs
  <2> QED BY <1>2, <2>1, <2>2 DEF Less
<1>9. ASSUME NEW m \in Nodes
      PROVE  (Within(m, n) => Emptied(m)) /\ (~Within(m, n) => Untouched(m))
  <2>1. \A q \in ToSet(Subregions[m]) : q \in Regions /\ (q \in I <=> Within(m, n))
    BY OwnerIs, WithinRegions DEF I
  <2>2. CASE Within(m, n)
    <3>1. inputs'[m] = << >> /\ outputs'[m] = << >>
      BY <1>6, <2>2
    <3>2. \A q \in ToSet(Subregions[m]) : arguments'[q] = << >> /\ results'[q] = << >>
      BY <1>7, <2>1, <2>2
    <3> QED BY <2>2, <3>1, <3>2 DEF Emptied
  <2>3. CASE ~Within(m, n)
    <3>1. inputs'[m] = inputs[m] /\ outputs'[m] = outputs[m]
      BY <1>6, <2>3
    <3>2. \A q \in ToSet(Subregions[m]) : arguments'[q] = arguments[q] /\ results'[q] = results[q]
      BY <1>7, <2>1, <2>3
    <3> QED BY <2>3, <3>1, <3>2 DEF Untouched
  <2> QED BY <2>2, <2>3
<1> QED BY <1>4, <1>7, <1>8, <1>9 DEF I

LEMMA DestroyGraph ==
  ASSUME Shape, Shape', GraphOK, origin \in Wirings, Reached(origin, Live, Live), alive' = alive,
         NEW n \in Nodes, ToSet(Outputs[n]) \cap Live = {}, ToSet(outputs[n]) \cap Used = {}, Destroy(n)
  PROVE  GraphOK' /\ \A m \in Nodes : Balanced(m) => Balanced(m)'
<1>1. Less
  BY DestroyIs
<1>2. \A m \in Nodes : /\ Within(m, n) => Emptied(m)
                       /\ ~Within(m, n) => Untouched(m)
  BY DestroyIs
<1>3. \A r \in Regions : /\ r \in Inside[n] => arguments'[r] = << >> /\ results'[r] = << >>
                         /\ r \notin Inside[n] => arguments'[r] = arguments[r] /\ results'[r] = results[r]
  BY DestroyIs
<1>4. ASSUME NEW r \in Inside[n], NEW s \in SourcesIn(r), s \in Used'
      PROVE  FALSE
  <2>1. PICK u : Present(u)' /\ origin'[u] = s
    BY <1>4, PresentNext
  <2>2. origin[u] \in SourcesIn(r) /\ r \in Regions
    BY <1>1, <2>1, InsideIs DEF Less
  <2>3. CASE \E m \in Nodes : u \in ToSet(inputs'[m])
    <3>1. PICK m \in Nodes : u \in ToSet(inputs'[m])
      BY <2>3
    <3>2. u \in ToSet(Inputs[m])
      BY <3>1 DEF Shape
    <3>3. Within(m, n)
      BY <2>2, <3>2, UserPlace DEF Within
    <3> QED BY <1>2, <3>1, <3>3, EmptyIs DEF Emptied
  <2>4. CASE \E q \in Regions : u \in ToSet(results'[q])
    <3>1. PICK q \in Regions : u \in ToSet(results'[q])
      BY <2>4
    <3>2. u \in ToSet(Results[q])
      BY <3>1 DEF Shape
    <3>3. q = r
      BY <2>2, <3>2, UserPlace
    <3> QED BY <1>3, <3>1, <3>3, EmptyIs
  <2> QED BY <2>1, <2>3, <2>4 DEF Present
<1>5. \A s \in ToSet(outputs[n]) : s \notin Used'
  <2>1. ASSUME NEW s \in Used'
        PROVE  s \in Used
    <3>1. PICK u : Present(u)' /\ origin'[u] = s
      BY <2>1, PresentNext
    <3>2. Present(u) /\ origin[u] = s
      BY <1>1, <3>1 DEF Less, Present
    <3> QED BY <3>2, PresentIs
  <2> QED BY <2>1
<1>6. ASSUME NEW m \in Nodes, NEW s \in ToSet(outputs[m]) \ ToSet(outputs'[m])
      PROVE  s \notin Used'
  <2>1. Within(m, n)
    BY <1>2, <1>6 DEF Untouched
  <2>2. CASE m = n
    BY <1>5, <2>2
  <2>3. CASE RegionOf[m] \in Inside[n]
    <3>1. s \in SourcesIn(RegionOf[m])
      BY SourceRegion DEF Shape
    <3> QED BY <1>4, <2>3, <3>1
  <2> QED BY <2>1, <2>2, <2>3 DEF Within
<1>7. ASSUME NEW r \in Regions, NEW s \in ToSet(arguments[r]) \ ToSet(arguments'[r])
      PROVE  s \notin Used'
  <2>1. r \in Inside[n]
    BY <1>3, <1>7
  <2>2. s \in SourcesIn(r)
    BY SourceRegion DEF Shape
  <2> QED BY <1>4, <2>1, <2>2
<1>8. UsedExist'
  <2>1. UsedExist
    BY DEF GraphOK
  <2> QED BY <1>1, <1>6, <1>7, <2>1, UsedStays
<1>9. ASSUME NEW m \in Nodes
      PROVE  TiedAt(m)' /\ RowsAt(m)' /\ (Balanced(m) => Balanced(m)')
  <2>1. CASE Within(m, n)
    <3>1. \A q \in ToSet(Subregions[m]) : ToSet(Arguments[q]) \cap Live = {}
      <4> TAKE q \in ToSet(Subregions[m])
      <4>1. q \in Inside[n] /\ q \in Regions
        BY <2>1, WithinRegions, OwnerIs
      <4>2. SourcesIn(q) \cap Live = {}
        BY <4>1, NothingInside
      <4> QED BY <4>1, <4>2, SourceRegion
    <3> QED BY <1>2, <2>1, <3>1, EmptiedKeeps
  <2>2. CASE ~Within(m, n)
    <3>1. TiedAt(m) /\ RowsAt(m)
      BY DEF GraphOK
    <3> QED BY <1>2, <2>2, <3>1, UntouchedKeeps
  <2> QED BY <2>1, <2>2
<1> QED BY <1>8, <1>9 DEF GraphOK

-----------------------------------------------------------------------------
(* A node that loses inputs and outputs. *)

LEMMA UsedLess ==
  ASSUME Shape, Shape', Less
  PROVE  Used' \subseteq Used
<1>1. ASSUME NEW s \in Used'
      PROVE  s \in Used
  <2>1. PICK u : Present(u)' /\ origin'[u] = s
    BY PresentNext
  <2>2. Present(u) /\ origin[u] = s
    BY <2>1 DEF Less, Present
  <2> QED BY <2>2, PresentIs
<1> QED BY <1>1

\* Only node n and its regions change.
OnlyAt(n) ==
  /\ nodes' = nodes /\ origin' = origin
  /\ \A m \in Nodes : m # n => inputs'[m] = inputs[m] /\ outputs'[m] = outputs[m]
  /\ \A r \in Regions : r \notin ToSet(Subregions[n]) =>
       arguments'[r] = arguments[r] /\ results'[r] = results[r]

LEMMA OthersUntouched ==
  ASSUME NEW n \in Nodes, OnlyAt(n), NEW m \in Nodes, m # n
  PROVE  Untouched(m)
<1>1. \A q \in ToSet(Subregions[m]) : q \in Regions /\ q \notin ToSet(Subregions[n])
  <2> TAKE q \in ToSet(Subregions[m])
  <2>1. q \in Regions /\ Owner[q] = m
    BY OwnerIs
  <2> QED BY <2>1, OwnerIs
<1> QED BY <1>1 DEF OnlyAt, Untouched

LEMMA GraphAt ==
  ASSUME Shape, Shape', Less, GraphOK, alive' = alive, NEW n \in Nodes, OnlyAt(n), TiedAt(n)', RowsAt(n)',
         \A s \in ToSet(outputs[n]) \ ToSet(outputs'[n]) : s \notin Used,
         \A r \in ToSet(Subregions[n]) : \A s \in ToSet(arguments[r]) \ ToSet(arguments'[r]) : s \notin Used
  PROVE  GraphOK' /\ \A m \in Nodes : m # n /\ Balanced(m) => Balanced(m)'
<1>1. Used' \subseteq Used
  BY UsedLess
<1>2. \A m \in Nodes : \A s \in ToSet(outputs[m]) \ ToSet(outputs'[m]) : s \notin Used'
  BY <1>1 DEF OnlyAt
<1>3. \A r \in Regions : \A s \in ToSet(arguments[r]) \ ToSet(arguments'[r]) : s \notin Used'
  BY <1>1 DEF OnlyAt
<1>4. UsedExist'
  BY <1>2, <1>3, UsedStays DEF GraphOK
<1>5. ASSUME NEW m \in Nodes, m # n
      PROVE  TiedAt(m)' /\ RowsAt(m)' /\ (Balanced(m) => Balanced(m)')
  <2>1. TiedAt(m) /\ RowsAt(m)
    BY DEF GraphOK
  <2>2. Untouched(m)
    BY <1>5, OthersUntouched
  <2> QED BY <2>1, <2>2, UntouchedKeeps
<1>6. \A m \in Nodes : TiedAt(m)' /\ RowsAt(m)'
  BY <1>5
<1> QED BY <1>4, <1>5, <1>6 DEF GraphOK

LEMMA RemoveOutputsIs ==
  ASSUME Shape, NEW n \in Nodes, Kind[n] \in {"theta", "phi"}, NEW dead, RemoveOutputs(n, dead), alive' = alive
  PROVE  /\ OnlyAt(n) /\ Less /\ inputs' = inputs /\ arguments' = arguments
         /\ outputs'[n] = Without(outputs[n], dead)
         /\ results'[Body(n)] = Without(results[Body(n)], {u \in ToSet(results[Body(n)]) : OutputOf[u] \in dead})
         /\ outputs[n] \in Seq(Members(Outputs)) /\ results[Body(n)] \in Seq(Members(Results))
         /\ ToSet(outputs'[n]) = ToSet(outputs[n]) \ dead
         /\ \A u \in ToSet(results[Body(n)]) : u \in ToSet(results'[Body(n)]) <=> OutputOf[u] \notin dead
<1> DEFINE B == Body(n)
           gone == {u \in ToSet(results[B]) : OutputOf[u] \in dead}
<1>1. B \in Regions /\ B \in ToSet(Subregions[n])
  BY BodyIs
<1>2. /\ outputs \in Rows(Nodes, Members(Outputs)) /\ results \in Rows(Regions, Members(Results))
  BY DEF Shape, Rows
<1>3. /\ nodes' = nodes /\ inputs' = inputs /\ arguments' = arguments /\ origin' = origin
      /\ Thins(outputs', outputs, n, dead)
      /\ Thins(results', results, B, gone)
  BY DEF RemoveOutputs, Thins
<1> HIDE DEF B, gone
<1>4. /\ outputs'[n] = Without(outputs[n], dead) /\ ToSet(outputs'[n]) = ToSet(outputs[n]) \ dead
      /\ \A y \in Nodes : y # n => outputs'[y] = outputs[y]
      /\ \A y \in Nodes : ToSet(outputs'[y]) \subseteq ToSet(outputs[y])
  BY <1>2, <1>3, ThinnedIs
<1>5. /\ results'[B] = Without(results[B], gone) /\ ToSet(results'[B]) = ToSet(results[B]) \ gone
      /\ \A y \in Regions : y # B => results'[y] = results[y]
      /\ \A y \in Regions : ToSet(results'[y]) \subseteq ToSet(results[y])
  BY <1>1, <1>2, <1>3, ThinnedIs
<1>6. OnlyAt(n)
  BY <1>1, <1>3, <1>4, <1>5 DEF OnlyAt
<1>7. Less
  BY <1>3, <1>4, <1>5 DEF Less
<1>8. \A u \in ToSet(results[B]) : u \in ToSet(results'[B]) <=> OutputOf[u] \notin dead
  BY <1>5 DEF gone
<1>9. outputs[n] \in Seq(Members(Outputs)) /\ results[B] \in Seq(Members(Results))
  BY <1>1, <1>2 DEF Rows
<1> QED BY <1>3, <1>4, <1>5, <1>6, <1>7, <1>8, <1>9 DEF B, gone

LEMMA RemoveOutputsGraph ==
  ASSUME Shape, Shape', GraphOK, alive' = alive,
         NEW n \in Nodes, Kind[n] \in {"theta", "phi"}, NEW dead, RemoveOutputs(n, dead),
         \A o \in dead : o \notin Used /\ (Kind[n] = "phi" => RecArgument[o] \notin Live)
  PROVE  GraphOK' /\ \A m \in Nodes : m # n /\ Balanced(m) => Balanced(m)'
<1> DEFINE B == Body(n)
           gone == {u \in ToSet(results[B]) : OutputOf[u] \in dead}
<1>1. B \in Regions /\ ToSet(Subregions[n]) = {B}
  BY BodyIs
<1>2. /\ OnlyAt(n) /\ Less /\ inputs' = inputs /\ arguments' = arguments
      /\ outputs'[n] = Without(outputs[n], dead) /\ results'[B] = Without(results[B], gone)
      /\ outputs[n] \in Seq(Members(Outputs)) /\ results[B] \in Seq(Members(Results))
      /\ ToSet(outputs'[n]) = ToSet(outputs[n]) \ dead
      /\ \A u \in ToSet(results[B]) : u \in ToSet(results'[B]) <=> OutputOf[u] \notin dead
  BY RemoveOutputsIs
<1> HIDE DEF B, gone
<1>3. Live' = Live /\ TiedAt(n) /\ RowsAt(n)
  BY DEF Live, GraphOK
<1>4. TiedAt(n)'
  <2>1. \A q \in ToSet(Subregions[n]) :
          /\ \A a \in ToSet(arguments'[q]) : InputOf[a] \in ToSet(inputs'[n]) \cup {None}
          /\ \A u \in ToSet(results'[q]) : OutputOf[u] \in ToSet(outputs'[n]) \cup {None}
    <3>1. \A a \in ToSet(arguments[B]) : InputOf[a] \in ToSet(inputs[n]) \cup {None}
      BY <1>1, <1>3 DEF TiedAt
    <3>2. \A u \in ToSet(results[B]) : OutputOf[u] \in ToSet(outputs[n]) \cup {None}
      BY <1>1, <1>3 DEF TiedAt
    <3>3. ToSet(results'[B]) \subseteq ToSet(results[B])
      BY <1>1, <1>2 DEF Less
    <3> QED BY <1>1, <1>2, <3>1, <3>2, <3>3
  <2>2. \A i \in ToSet(inputs'[n]) : \E a \in ToSet(arguments'[Body(n)]) : InputOf[a] = i
    BY <1>2, <1>3 DEF TiedAt
  <2>3. Kind[n] = "theta" =>
          \A o \in ToSet(outputs'[n]) : \E u \in ToSet(results'[Body(n)]) : OutputOf[u] = o
    <3> SUFFICES ASSUME Kind[n] = "theta", NEW o \in ToSet(outputs'[n])
                 PROVE  \E u \in ToSet(results'[B]) : OutputOf[u] = o
      BY DEF B
    <3>1. o \in ToSet(outputs[n]) /\ o \notin dead
      BY <1>2
    <3>2. PICK u \in ToSet(results[B]) : OutputOf[u] = o
      BY <1>3, <3>1 DEF TiedAt, B
    <3> QED BY <1>2, <3>1, <3>2
  <2>4. Kind[n] = "phi" =>
          /\ \A o \in ToSet(Outputs[n]) : RecArgument[o] \in Live' => o \in ToSet(outputs'[n])
          /\ \A o \in ToSet(outputs'[n]) : RecArgument[o] \in ToSet(arguments'[Body(n)])
    BY <1>2, <1>3 DEF TiedAt
  <2> QED BY <2>1, <2>2, <2>3, <2>4 DEF TiedAt
<1>5. RowsAt(n)'
  <2>1. /\ InOrder(inputs[n], Inputs[n]) /\ InOrder(outputs[n], Outputs[n])
        /\ InOrder(arguments[B], Arguments[B]) /\ InOrder(results[B], Results[B])
    BY <1>3 DEF RowsAt, B
  <2>2. /\ Outputs[n] \in Seq(Members(Outputs)) /\ Results[B] \in Seq(Members(Results))
    BY <1>1, Places
  <2>3. InOrder(outputs'[n], Outputs[n])
    BY <1>2, <2>1, <2>2, InOrderWithout
  <2>4. InOrder(results'[B], Results[B])
    BY <1>2, <2>1, <2>2, InOrderWithout
  <2> QED BY <1>2, <2>1, <2>3, <2>4 DEF RowsAt, B
<1>6. /\ \A s \in ToSet(outputs[n]) \ ToSet(outputs'[n]) : s \notin Used
      /\ \A r \in ToSet(Subregions[n]) : \A s \in ToSet(arguments[r]) \ ToSet(arguments'[r]) : s \notin Used
  BY <1>2
<1> QED BY <1>2, <1>4, <1>5, <1>6, GraphAt

LEMMA RemoveInputsIs ==
  ASSUME Shape, NEW n \in Nodes, Kind[n] \in {"theta", "lambda", "delta", "phi"}, NEW dead,
         RemoveInputs(n, dead), alive' = alive
  PROVE  /\ OnlyAt(n) /\ Less /\ outputs' = outputs /\ results' = results
         /\ arguments'[Body(n)] = Without(arguments[Body(n)], dead)
         /\ inputs'[n] = Without(inputs[n], {InputOf[a] : a \in dead})
         /\ arguments[Body(n)] \in Seq(Members(Arguments)) /\ inputs[n] \in Seq(Members(Inputs))
         /\ ToSet(arguments'[Body(n)]) = ToSet(arguments[Body(n)]) \ dead
         /\ ToSet(inputs'[n]) = ToSet(inputs[n]) \ {InputOf[a] : a \in dead}
<1> DEFINE B == Body(n)
           gone == {InputOf[a] : a \in dead}
<1>1. B \in Regions /\ B \in ToSet(Subregions[n])
  BY BodyIs
<1>2. /\ inputs \in Rows(Nodes, Members(Inputs)) /\ arguments \in Rows(Regions, Members(Arguments))
  BY DEF Shape, Rows
<1>3. /\ nodes' = nodes /\ outputs' = outputs /\ results' = results /\ origin' = origin
      /\ Thins(arguments', arguments, B, dead)
      /\ Thins(inputs', inputs, n, gone)
  BY DEF RemoveInputs, Thins
<1> HIDE DEF B, gone
<1>4. /\ inputs'[n] = Without(inputs[n], gone) /\ ToSet(inputs'[n]) = ToSet(inputs[n]) \ gone
      /\ \A y \in Nodes : y # n => inputs'[y] = inputs[y]
      /\ \A y \in Nodes : ToSet(inputs'[y]) \subseteq ToSet(inputs[y])
  BY <1>2, <1>3, ThinnedIs
<1>5. /\ arguments'[B] = Without(arguments[B], dead) /\ ToSet(arguments'[B]) = ToSet(arguments[B]) \ dead
      /\ \A y \in Regions : y # B => arguments'[y] = arguments[y]
      /\ \A y \in Regions : ToSet(arguments'[y]) \subseteq ToSet(arguments[y])
  BY <1>1, <1>2, <1>3, ThinnedIs
<1>6. OnlyAt(n)
  BY <1>1, <1>3, <1>4, <1>5 DEF OnlyAt
<1>7. Less
  BY <1>3, <1>4, <1>5 DEF Less
<1>9. inputs[n] \in Seq(Members(Inputs)) /\ arguments[B] \in Seq(Members(Arguments))
  BY <1>1, <1>2 DEF Rows
<1> QED BY <1>3, <1>4, <1>5, <1>6, <1>7, <1>9 DEF B, gone

LEMMA RemoveInputsGraph ==
  ASSUME Shape, Shape', GraphOK, alive' = alive,
         NEW n \in Nodes, Kind[n] \in {"theta", "lambda", "delta", "phi"}, NEW dead, RemoveInputs(n, dead),
         dead \subseteq ToSet(arguments[Body(n)]), \A a \in dead : a \notin Used,
         Kind[n] = "phi" => \A o \in ToSet(outputs[n]) : RecArgument[o] \notin dead
  PROVE  GraphOK' /\ \A m \in Nodes : m # n /\ Balanced(m) => Balanced(m)'
<1> DEFINE B == Body(n)
           gone == {InputOf[a] : a \in dead}
<1>1. B \in Regions /\ ToSet(Subregions[n]) = {B}
  BY BodyIs
<1>2. /\ OnlyAt(n) /\ Less /\ outputs' = outputs /\ results' = results
      /\ arguments'[B] = Without(arguments[B], dead) /\ inputs'[n] = Without(inputs[n], gone)
      /\ arguments[B] \in Seq(Members(Arguments)) /\ inputs[n] \in Seq(Members(Inputs))
      /\ ToSet(arguments'[B]) = ToSet(arguments[B]) \ dead
      /\ ToSet(inputs'[n]) = ToSet(inputs[n]) \ gone
  BY RemoveInputsIs
<1>3. Live' = Live /\ TiedAt(n) /\ RowsAt(n)
  BY DEF Live, GraphOK
<1>4. \A a, b \in ToSet(arguments[B]) : InputOf[a] = InputOf[b] /\ InputOf[a] # None => a = b
  <2>1. ToSet(arguments[B]) \subseteq ToSet(Arguments[B])
    BY <1>1 DEF Shape
  <2> QED BY <2>1, ThetaIs, ContextIs
<1>5. \A a \in ToSet(arguments'[B]) : InputOf[a] \in gone => InputOf[a] = None
  BY <1>2, <1>4
<1>6. None \notin ToSet(inputs[n])
  BY OwnershipAssumption, Places, MemberOf DEF Shape
<1> HIDE DEF B
<1>7. TiedAt(n)'
  <2>1. \A q \in ToSet(Subregions[n]) :
          /\ \A a \in ToSet(arguments'[q]) : InputOf[a] \in ToSet(inputs'[n]) \cup {None}
          /\ \A u \in ToSet(results'[q]) : OutputOf[u] \in ToSet(outputs'[n]) \cup {None}
    <3>1. \A a \in ToSet(arguments[B]) : InputOf[a] \in ToSet(inputs[n]) \cup {None}
      BY <1>1, <1>3 DEF TiedAt
    <3>2. \A u \in ToSet(results[B]) : OutputOf[u] \in ToSet(outputs[n]) \cup {None}
      BY <1>1, <1>3 DEF TiedAt
    <3> HIDE DEF gone
    <3> QED BY <1>1, <1>2, <1>5, <3>1, <3>2
  <2>2. \A i \in ToSet(inputs'[n]) : \E a \in ToSet(arguments'[Body(n)]) : InputOf[a] = i
    <3> SUFFICES ASSUME NEW i \in ToSet(inputs'[n])
                 PROVE  \E a \in ToSet(arguments'[B]) : InputOf[a] = i
      BY DEF B
    <3>1. i \in ToSet(inputs[n]) /\ i \notin gone
      BY <1>2
    <3>2. PICK a \in ToSet(arguments[B]) : InputOf[a] = i
      BY <1>3, <3>1 DEF TiedAt, B
    <3>3. a \notin dead
      BY <3>1, <3>2
    <3> QED BY <1>2, <3>2, <3>3
  <2>3. Kind[n] = "theta" =>
          \A o \in ToSet(outputs'[n]) : \E u \in ToSet(results'[Body(n)]) : OutputOf[u] = o
    BY <1>2, <1>3 DEF TiedAt
  <2>4. Kind[n] = "phi" =>
          /\ \A o \in ToSet(Outputs[n]) : RecArgument[o] \in Live' => o \in ToSet(outputs'[n])
          /\ \A o \in ToSet(outputs'[n]) : RecArgument[o] \in ToSet(arguments'[Body(n)])
    BY <1>2, <1>3 DEF TiedAt, B
  <2> QED BY <2>1, <2>2, <2>3, <2>4 DEF TiedAt
<1>8. RowsAt(n)'
  <2> SUFFICES ASSUME Kind[n] \in {"theta", "phi"} PROVE RowsAt(n)'
    BY DEF RowsAt
  <2>1. /\ InOrder(inputs[n], Inputs[n]) /\ InOrder(outputs[n], Outputs[n])
        /\ InOrder(arguments[B], Arguments[B]) /\ InOrder(results[B], Results[B])
    BY <1>3 DEF RowsAt, B
  <2>2. /\ Inputs[n] \in Seq(Members(Inputs)) /\ Arguments[B] \in Seq(Members(Arguments))
    BY <1>1, Places
  <2> HIDE DEF gone
  <2>3. InOrder(inputs'[n], Inputs[n])
    BY <1>2, <2>1, <2>2, InOrderWithout
  <2>4. InOrder(arguments'[B], Arguments[B])
    BY <1>2, <2>1, <2>2, InOrderWithout
  <2> QED BY <1>2, <2>1, <2>3, <2>4 DEF RowsAt, B
<1>9. /\ \A s \in ToSet(outputs[n]) \ ToSet(outputs'[n]) : s \notin Used
      /\ \A r \in ToSet(Subregions[n]) : \A s \in ToSet(arguments[r]) \ ToSet(arguments'[r]) : s \notin Used
  BY <1>1, <1>2
<1> QED BY <1>2, <1>7, <1>8, <1>9, GraphAt

LEMMA GammaGraph ==
  ASSUME Shape, Shape', GraphOK, GammaOK', alive' = alive, Less,
         NEW n \in nodes, Kind[n] = "gamma", OnlyAt(n),
         \A s \in ToSet(outputs[n]) \ ToSet(outputs'[n]) : s \notin Used,
         \A r \in ToSet(Subregions[n]) : \A s \in ToSet(arguments[r]) \ ToSet(arguments'[r]) : s \notin Used
  PROVE  GraphOK' /\ \A m \in Nodes : Balanced(m) => Balanced(m)'
<1>1. n \in Nodes /\ n \in nodes'
  BY DEF Shape, OnlyAt
<1>2. /\ inputs'[n] \in Seq(Members(Inputs)) /\ outputs'[n] \in Seq(Members(Outputs))
  BY <1>1 DEF Shape
<1>3. inputs'[n] # << >>
  BY <1>1 DEF GammaOK
<1>4. Tail(inputs'[n]) \in Seq(Members(Inputs)) /\ ToSet(Tail(inputs'[n])) \subseteq ToSet(inputs'[n])
  BY <1>2, <1>3, HeadTail
<1>5. TiedAt(n)'
  <2>1. ASSUME NEW q \in ToSet(Subregions[n])
        PROVE  /\ \A a \in ToSet(arguments'[q]) : InputOf[a] \in ToSet(inputs'[n]) \cup {None}
               /\ \A u \in ToSet(results'[q]) : OutputOf[u] \in ToSet(outputs'[n]) \cup {None}
    <3>1. q \in Regions
      BY <1>1, OwnerIs
    <3>2. arguments'[q] \in Seq(Members(Arguments)) /\ results'[q] \in Seq(Members(Results))
      BY <3>1 DEF Shape
    <3>3. Matches(OutputOf, results'[q], outputs'[n]) /\ Matches(InputOf, arguments'[q], Tail(inputs'[n]))
      BY <1>1 DEF GammaOK
    <3>4. \A a \in ToSet(arguments'[q]) : InputOf[a] \in ToSet(Tail(inputs'[n]))
      BY <1>4, <3>2, <3>3, MatchesIs
    <3>5. \A u \in ToSet(results'[q]) : OutputOf[u] \in ToSet(outputs'[n])
      BY <1>2, <3>2, <3>3, MatchesIs
    <3> QED BY <1>4, <3>4, <3>5
  <2> QED BY <2>1 DEF TiedAt
<1>6. RowsAt(n)'
  BY DEF RowsAt
<1>7. Balanced(n)'
  BY DEF Balanced
<1>8. GraphOK' /\ \A m \in Nodes : m # n /\ Balanced(m) => Balanced(m)'
  BY <1>1, <1>5, <1>6, GraphAt
<1> QED BY <1>7, <1>8

LEMMA ImportsGraph ==
  ASSUME Shape, Shape', GraphOK, alive' = alive, NEW dead, \A a \in dead : a \notin Used,
         nodes' = nodes, outputs' = outputs, results' = results, inputs' = inputs, origin' = origin,
         Thins(arguments', arguments, Root, dead)
  PROVE  /\ GraphOK' /\ Less /\ ToSet(arguments'[Root]) = ToSet(arguments[Root]) \ dead
         /\ \A m \in Nodes : Balanced(m) => Balanced(m)'
<1>1. Root \in Regions /\ arguments \in Rows(Regions, Members(Arguments))
  BY OwnershipAssumption DEF Shape, Rows
<1>2. /\ ToSet(arguments'[Root]) = ToSet(arguments[Root]) \ dead
      /\ \A y \in Regions : y # Root => arguments'[y] = arguments[y]
      /\ \A y \in Regions : ToSet(arguments'[y]) \subseteq ToSet(arguments[y])
  BY <1>1, ThinnedIs
<1>3. Less
  BY <1>2 DEF Less
<1>4. \A r \in Regions : \A s \in ToSet(arguments[r]) \ ToSet(arguments'[r]) : s \notin Used
  BY <1>2
<1>5. Used' \subseteq Used
  BY <1>3, UsedLess
<1>6. UsedExist'
  <2>1. \A r \in Regions : \A s \in ToSet(arguments[r]) \ ToSet(arguments'[r]) : s \notin Used'
    BY <1>4, <1>5
  <2>2. \A m \in Nodes : \A s \in ToSet(outputs[m]) \ ToSet(outputs'[m]) : s \notin Used'
    OBVIOUS
  <2> QED BY <1>3, <2>1, <2>2, UsedStays DEF GraphOK
<1>7. ASSUME NEW m \in Nodes
      PROVE  TiedAt(m)' /\ RowsAt(m)' /\ (Balanced(m) => Balanced(m)')
  <2>1. \A q \in ToSet(Subregions[m]) : q \in Regions /\ q # Root
    BY OwnerIs
  <2>2. Untouched(m)
    BY <1>2, <2>1 DEF Untouched
  <2> QED BY <2>2, UntouchedKeeps DEF GraphOK
<1> QED BY <1>2, <1>3, <1>6, <1>7 DEF GraphOK

-----------------------------------------------------------------------------
(* How the steps of the sweep keep its invariant. *)

\* What the invariant says of a state of the sweep.
LEMMA Sweeping ==
  ASSUME IInv, SweepInv, marks = << >>, work # << >>
  PROVE  /\ GraphOK /\ CallsOK(work) /\ \E D : SweptOK(D, work)
         /\ work \in Seq(CallType) /\ Head(work) \in CallType /\ Tail(work) \in Seq(CallType)
         /\ ToSet(work) = {Head(work)} \cup ToSet(Tail(work))
         /\ \A c \in ToSet(work) : c \in CallType /\ CallOK(c) /\ CallReady(c)
         /\ \A c \in ToSet(Tail(work)) : Apart(Head(work), c)
         /\ Stacked(Tail(work))
         /\ Shape /\ Kept /\ GammaOK /\ ThetaOK
         /\ origin \in Wirings /\ Reached(origin, Live, Live)
<1>1. work \in Seq(GoodCalls)
  BY DEF IInv, WorkOK
<1>2. GoodCalls \subseteq CallType /\ \A c \in GoodCalls : CallOK(c)
  BY DEF GoodCalls
<1>3. /\ Head(work) \in GoodCalls /\ Tail(work) \in Seq(GoodCalls)
      /\ ToSet(work) = {Head(work)} \cup ToSet(Tail(work))
  BY <1>1, HeadTail
<1>4. work \in Seq(CallType) /\ Tail(work) \in Seq(CallType)
  BY <1>1, <1>2, <1>3, SeqWithin
<1>5. \A c \in ToSet(work) : c \in GoodCalls
  BY <1>1, SeqIndex
<1>6. GraphOK /\ CallsOK(work) /\ \E D : SweptOK(D, work)
  BY DEF SweepInv
<1>7. Stacked(Tail(work)) /\ \A c \in ToSet(Tail(work)) : Apart(Head(work), c)
  BY <1>4, <1>6, StackedTail DEF CallsOK
<1>8. \A c \in ToSet(work) : CallReady(c)
  BY <1>6 DEF CallsOK
<1>9. origin \in Wirings /\ Reached(origin, Live, Live)
  BY LiveIsUsed DEF IInv
<1> QED BY <1>2, <1>3, <1>4, <1>5, <1>6, <1>7, <1>8, <1>9 DEF IInv, GraphInv

\* The call that is made finds swept what it relies on.
LEMMA HeadRelies ==
  ASSUME work \in Seq(CallType), work # << >>, NEW D, SweptOK(D, work), NEW x \in Items, Relies(Head(work), x)
  PROVE  x \in D
<1>1. Ordered(D, work)
  BY DEF SweptOK
<1> DEFINE E == D \cup Items
<1>2. D \subseteq E /\ \A y \in Items : y \in E
  OBVIOUS
<1> HIDE DEF E
<1>3. \A y \in Items : Cleans(Head(work), y) => y \in E
  BY <1>2
<1>4. \A y \in Items : Relies(Head(work), y) => y \in D
  BY <1>1, <1>2, <1>3, OrderedTail
<1> QED BY <1>4

\* A call returns that leaves swept what E has more than D.
LEMMA Returned ==
  ASSUME IInv, SweepInv, marks = << >>, marks' = << >>, work # << >>, Less, GraphOK', work' = Tail(work),
         NEW D, SweptOK(D, work), NEW E, D \subseteq E, Swept(E)',
         \A x \in Items : Cleans(Head(work), x) => x \in E,
         \A m \in Nodes : Balanced(m) \/ (Head(work).op \in InputOps /\ Head(work).at = m) => Balanced(m)',
         Head(work).op \in {"run", "imports"} => RootSwept(E)'
  PROVE  SweepInv'
<1> DEFINE t == Tail(work)
<1>1. /\ work \in Seq(CallType) /\ t \in Seq(CallType) /\ Stacked(t)
      /\ ToSet(work) = {Head(work)} \cup ToSet(t)
      /\ \A c \in ToSet(work) : c \in CallType /\ CallOK(c) /\ CallReady(c)
      /\ CallsOK(work)
  BY Sweeping
<1>2. Swept(D) /\ Ordered(D, work) /\ (IsRootPending(work) \/ RootSwept(D))
  BY DEF SweptOK
<1>3. Ordered(E, t)
  BY <1>1, <1>2, OrderedTail
<1> HIDE DEF t
<1>4. \A c \in ToSet(t) : CallReady(c)'
  BY <1>1, ReadyStays
<1>5. \A m \in Nodes : Balanced(m)' \/ IsPending(m, t)
  <2> TAKE m \in Nodes
  <2>1. Balanced(m) \/ IsPending(m, work)
    BY <1>1 DEF CallsOK
  <2>2. IsPending(m, work) => IsPending(m, t) \/ (Head(work).op \in InputOps /\ Head(work).at = m)
    BY <1>1 DEF IsPending
  <2> QED BY <2>1, <2>2
<1>6. IsRootPending(t) \/ RootSwept(E)'
  <2>1. CASE IsRootPending(work)
    BY <1>1, <2>1 DEF IsRootPending
  <2>2. CASE RootSwept(D)
    <3>1. RegionItem(Root) \in E
      BY <2>2 DEF RootSwept
    <3>2. ToSet(arguments'[Root]) \subseteq ToSet(arguments[Root]) /\ Live' = Live
      BY OwnershipAssumption DEF Less, Live
    <3> QED BY <2>2, <3>1, <3>2 DEF RootSwept
  <2> QED BY <1>2, <2>1, <2>2
<1>7. work' = t
  BY DEF t
<1>8. CallsOK(work)'
  BY <1>1, <1>4, <1>5, <1>7 DEF CallsOK
<1>9. SweptOK(E, work)'
  BY <1>3, <1>6, <1>7 DEF SweptOK
<1> QED BY <1>8, <1>9 DEF SweepInv

\* The loop over the nodes of a region goes on behind n, after calls for n.
LEMMA WentOn ==
  ASSUME IInv, SweepInv, marks = << >>, marks' = << >>, work # << >>, Less, GraphOK',
         Head(work).op = "nodes", NEW n \in Head(work).set,
         NEW calls \in Seq(CallType), Then(n, calls), Stacked(calls),
         \A c \in ToSet(calls) : IsCallFor(c, n) /\ CallReady(c)',
         NEW D, SweptOK(D, work), NEW E, D \subseteq E, Swept(E)', Ordered(E, calls),
         NodeItem(n) \in E \/ \E c \in ToSet(calls) : Cleans(c, NodeItem(n)),
         \A m \in Nodes : m # n /\ Balanced(m) => Balanced(m)',
         Balanced(n)' \/ \E c \in ToSet(calls) : c.op \in InputOps /\ c.at = n
  PROVE  SweepInv'
<1>0. PICK h : h = Head(work)
  OBVIOUS
<1> DEFINE t == Tail(work)
           e == [h EXCEPT !.set = @ \ {n}]
           o == << e >>
<1>1. /\ work \in Seq(CallType) /\ t \in Seq(CallType) /\ Stacked(t) /\ h \in CallType
      /\ ToSet(work) = {h} \cup ToSet(t)
      /\ \A c \in ToSet(work) : c \in CallType /\ CallOK(c) /\ CallReady(c)
      /\ \A c \in ToSet(t) : Apart(h, c)
      /\ CallsOK(work)
  BY <1>0, Sweeping
<1>2. Swept(D) /\ Ordered(D, work) /\ (IsRootPending(work) \/ RootSwept(D))
  BY DEF SweptOK
<1> HIDE DEF t
<1>3. e \in CallType /\ e.op = "nodes" /\ e.at = h.at /\ e.set = h.set \ {n}
  <2>1. h \in CallType /\ h.op = "nodes"
    BY <1>0, <1>1
  <2> QED BY <2>1 DEF CallType
<1>4. work' = calls \o << e >> \o t
  BY <1>0 DEF Then, t
<1> HIDE DEF e
<1>5. o \in Seq(CallType) /\ ToSet(o) = {e}
  BY <1>3, SingleIs
<1> HIDE DEF o
<1>6. /\ calls \o o \in Seq(CallType) /\ ToSet(calls \o o) = ToSet(calls) \cup {e}
      /\ (calls \o o) \o t \in Seq(CallType)
      /\ ToSet((calls \o o) \o t) = ToSet(calls) \cup {e} \cup ToSet(t)
  <2>1. calls \o o \in Seq(CallType) /\ ToSet(calls \o o) = ToSet(calls) \cup {e}
    BY <1>5, ConcatIs
  <2>2. /\ (calls \o o) \o t \in Seq(CallType)
        /\ ToSet((calls \o o) \o t) = ToSet(calls \o o) \cup ToSet(t)
    <3> DEFINE p == calls \o o
    <3>1. p \in Seq(CallType) /\ t \in Seq(CallType)
      BY <1>1, <2>1
    <3> HIDE DEF p
    <3>2. p \o t \in Seq(CallType) /\ ToSet(p \o t) = ToSet(p) \cup ToSet(t)
      BY <3>1, ConcatIs
    <3> QED BY <3>2 DEF p
  <2> QED BY <2>1, <2>2
<1>7. work' = (calls \o o) \o t
  BY <1>4 DEF o
<1>8. h.at \in Regions /\ ResultsClean(h.at) /\ h.set \subseteq NodesOf(h.at) /\ h.op = "nodes" /\ n \in h.set
  <2>1. h.op = "nodes" /\ n \in h.set
    BY <1>0
  <2>2. CallReady(h)
    BY <1>1
  <2> QED BY <2>1, <2>2 DEF CallReady, LoopOps
<1>9. n \in Nodes /\ RegionOf[n] = h.at /\ h.set \subseteq Nodes /\ \A m \in h.set : RegionOf[m] = h.at
  BY <1>8 DEF NodesOf
<1>10. Stacked(calls \o << e >> \o t)
  BY <1>1, <1>8, <1>9, StackedVisit DEF e
<1>11. \A c \in ToSet(work') : CallReady(c)'
  <2>1. \A c \in ToSet(t) : CallReady(c)'
    BY <1>1, ReadyStays
  <2>2. CallReady(e)'
    <3>1. ResultsClean(h.at)'
      BY <1>8, CleanStays
    <3>2. e.set \subseteq NodesOf(h.at)
      BY <1>3, <1>8
    <3> QED BY <1>3, <1>8, <3>1, <3>2 DEF CallReady, LoopOps, InputOps
  <2> QED BY <1>6, <1>7, <2>1, <2>2
<1>12. \A m \in Nodes : Balanced(m)' \/ IsPending(m, work')
  <2> TAKE m \in Nodes
  <2>1. CASE m = n
    BY <1>6, <1>7, <2>1 DEF IsPending
  <2>2. CASE m # n
    <3>1. Balanced(m) \/ IsPending(m, work)
      BY <1>1 DEF CallsOK
    <3>2. IsPending(m, work) => IsPending(m, work')
      BY <1>1, <1>6, <1>7, <1>8 DEF IsPending, InputOps
    <3> QED BY <2>2, <3>1, <3>2
  <2> QED BY <2>1, <2>2
<1>13. CallsOK(work)'
  BY <1>4, <1>10, <1>11, <1>12 DEF CallsOK
<1> DEFINE G == D \cup {RegionItem(h.at)}
<1>14. /\ Ordered(G, t)
       /\ \A x \in Items : Relies(h, x) => x \in D
  <2>1. D \subseteq G /\ \A x \in Items : Cleans(h, x) => x \in G
    BY <1>8 DEF Cleans, InputOps, LoopOps
  <2> HIDE DEF G
  <2> QED BY <1>1, <1>2, <2>1, <1>0, OrderedTail DEF t
<1>15. \A x \in Items : Relies(e, x) => x \in E \/ \E c \in ToSet(calls) : Cleans(c, x)
  <2> SUFFICES ASSUME NEW x \in Items, Relies(e, x)
               PROVE  x \in E \/ \E c \in ToSet(calls) : Cleans(c, x)
    OBVIOUS
  <2>1. PICK m \in NodesOf(h.at) \ e.set : x = NodeItem(m)
    BY <1>3 DEF Relies, InputOps
  <2>2. CASE m = n
    BY <2>1, <2>2
  <2>3. CASE m # n
    <3>1. Relies(h, x)
      BY <1>3, <1>8, <2>1, <2>3 DEF Relies
    <3> QED BY <1>14, <3>1
  <2> QED BY <2>2, <2>3
<1>16. \A x \in Items : x \in G => x \in E \/ Cleans(e, x)
  BY <1>3 DEF Cleans, LoopOps
<1>17. Ordered(E, calls \o << e >> \o t)
  <2> HIDE DEF G
  <2> QED BY <1>1, <1>3, <1>14, <1>15, <1>16, OrderedLoop
<1>18. IsRootPending(work') \/ RootSwept(E)'
  <2>1. CASE IsRootPending(work)
    BY <1>1, <1>6, <1>7, <1>8, <2>1 DEF IsRootPending
  <2>2. CASE RootSwept(D)
    <3>1. RegionItem(Root) \in E
      BY <2>2 DEF RootSwept
    <3>2. ToSet(arguments'[Root]) \subseteq ToSet(arguments[Root]) /\ Live' = Live
      BY OwnershipAssumption DEF Less, Live
    <3> QED BY <2>2, <3>1, <3>2 DEF RootSwept
  <2> QED BY <1>2, <2>1, <2>2
<1>19. SweptOK(E, work)'
  BY <1>4, <1>17, <1>18 DEF SweptOK
<1> QED BY <1>13, <1>19 DEF SweepInv

\* The sources of a region that is swept are used by what is live.
LEMMA SweptUses ==
  ASSUME Shape, origin \in Wirings, NEW D, Swept(D), NEW r \in Regions, RegionItem(r) \in D,
         NEW s \in SourcesIn(r), s \in Used
  PROVE  s \in Live
<1>1. PICK u : Present(u) /\ origin[u] = s
  BY PresentIs
<1>2. ResultsClean(r) /\ \A m \in NodesOf(r) : NodeItem(m) \in D
  BY DEF Swept
<1>3. CASE \E m \in Nodes : u \in ToSet(inputs[m])
  <2>1. PICK m \in Nodes : u \in ToSet(inputs[m])
    BY <1>3
  <2>2. u \in ToSet(Inputs[m]) /\ m \in nodes
    BY <2>1, EmptyIs DEF Shape
  <2>3. m \in NodesOf(r)
    BY <1>1, <2>2, UserPlace DEF NodesOf
  <2>4. NodeSwept(m)
    BY <1>2, <2>2, <2>3 DEF Swept
  <2> QED BY <1>1, <2>1, <2>4 DEF NodeSwept, NodeClean
<1>4. CASE \E q \in Regions : u \in ToSet(results[q])
  <2>1. PICK q \in Regions : u \in ToSet(results[q])
    BY <1>4
  <2>2. u \in ToSet(Results[q])
    BY <2>1 DEF Shape
  <2>3. q = r
    BY <1>1, <2>2, UserPlace
  <2> QED BY <1>1, <1>2, <2>1, <2>3 DEF ResultsClean
<1> QED BY <1>1, <1>3, <1>4 DEF Present

\* What is left of the sources of the deepest node is used by what is live: by
\* results of the region, or by nodes that have been swept already.
LEMMA DeepestUses ==
  ASSUME IInv, SweepInv, Calling("nodes"), NEW n \in Deepest, NEW D, SweptOK(D, work)
  PROVE  \A o \in ToSet(outputs[n]) : o \in Used => o \in Live
<1> SUFFICES ASSUME NEW o \in ToSet(outputs[n]), o \in Used
             PROVE  o \in Live
  OBVIOUS
<1>1. marks = << >> /\ work # << >> /\ Head(work).op = "nodes" /\ n \in Nodes
  BY Visited
<1>2. PICK h : h = Head(work)
  OBVIOUS
<1>3. /\ work \in Seq(CallType) /\ h \in ToSet(work) /\ CallReady(h) /\ Shape /\ origin \in Wirings
  BY <1>1, <1>2, Sweeping
<1>4. h.at \in Regions /\ ResultsClean(h.at) /\ h.set \subseteq NodesOf(h.at) /\ h.op = "nodes"
  BY <1>1, <1>2, <1>3 DEF CallReady, LoopOps
<1> DEFINE r == h.at
           d == Depth(r)
<1>5. n \in h.set /\ \A m \in h.set : d[m] <= d[n]
  BY <1>2 DEF Deepest
<1> HIDE DEF d
<1>6. n \in nodes /\ RegionOf[n] = r /\ n \in NodesIn(r) /\ o \in SourcesIn(r)
  <2>1. n \in nodes
    BY <1>1, <1>3, EmptyIs DEF Shape
  <2>2. RegionOf[n] = r
    BY <1>4, <1>5 DEF NodesOf
  <2>3. o \in SourcesIn(r)
    BY <1>1, <1>3, <2>2, SourceRegion DEF Shape
  <2> QED BY <2>1, <2>2, <2>3 DEF NodesIn
<1>7. PICK u : Present(u) /\ origin[u] = o
  BY <1>3, PresentIs
<1>8. CASE \E q \in Regions : u \in ToSet(results[q])
  <2>1. PICK q \in Regions : u \in ToSet(results[q])
    BY <1>8
  <2>2. u \in ToSet(Results[q])
    BY <1>3, <2>1 DEF Shape
  <2>3. q = r
    BY <1>3, <1>4, <1>6, <1>7, <2>2, UserPlace
  <2> QED BY <1>4, <1>7, <2>1, <2>3 DEF ResultsClean
<1>9. CASE \E m \in Nodes : u \in ToSet(inputs[m])
  <2>1. PICK m \in Nodes : u \in ToSet(inputs[m])
    BY <1>9
  <2>2. u \in ToSet(Inputs[m]) /\ m \in nodes
    BY <1>3, <2>1, EmptyIs DEF Shape
  <2>3. m \in NodesOf(r) /\ m \in NodesIn(r)
    BY <1>3, <1>4, <1>6, <1>7, <2>2, UserPlace DEF NodesOf, NodesIn
  <2>4. m \notin h.set
    <3> SUFFICES ASSUME m \in h.set PROVE FALSE
      OBVIOUS
    <3>1. d[n] \in Nat /\ d[m] \in Nat /\ d[n] < d[m]
      BY <1>3, <1>4, <1>6, <1>7, <2>1, <2>3, DepthIs DEF d
    <3>2. d[m] <= d[n]
      BY <1>5
    <3> QED BY <3>1, <3>2
  <2>5. Relies(h, NodeItem(m)) /\ NodeItem(m) \in Items
    BY <1>4, <2>3, <2>4, ItemsApart DEF Relies
  <2>6. NodeItem(m) \in D
    BY <1>1, <1>2, <1>3, <2>5, HeadRelies
  <2>7. NodeSwept(m)
    BY <2>2, <2>6 DEF SweptOK, Swept
  <2> QED BY <1>7, <2>1, <2>7 DEF NodeSwept, NodeClean
<1> QED BY <1>7, <1>8, <1>9 DEF Present

\* What a simple node uses is live when one of its outputs is.
LEMMA SimpleSwept ==
  ASSUME Shape, origin \in Wirings, Reached(origin, Live, Live), NEW n \in Nodes, Kind[n] = "simple",
         ToSet(Outputs[n]) \cap Live # {}
  PROVE  NodeSwept(n) /\ ToSet(Subregions[n]) = {}
<1>1. PICK s \in Live : s \in ToSet(Outputs[n])
  OBVIOUS
<1>2. Feeds[s] = ToSet(Inputs[n])
  BY <1>1, OutputFeedsAre
<1>3. \A u \in ToSet(inputs[n]) : u \in FeedsOf(Live)
  BY <1>1, <1>2 DEF Shape, FeedsOf
<1>4. NodeClean(n)
  BY <1>3, MarkedIsClosed DEF NodeClean
<1>5. ToSet(Subregions[n]) = {}
  BY Kinds
<1> QED BY <1>4, <1>5 DEF NodeSwept

\* The graph loses nothing.
LEMMA LessSame ==
  ASSUME UNCHANGED graph, alive' = alive
  PROVE  /\ Less /\ Live' = Live
         /\ GraphOK => GraphOK'
         /\ \A m \in Nodes : Balanced(m) => Balanced(m)'
         /\ \A D : Swept(D) => Swept(D)'
<1>1. /\ nodes' = nodes /\ inputs' = inputs /\ outputs' = outputs /\ arguments' = arguments
      /\ results' = results /\ origin' = origin
  BY DEF graph
<1>2. Less /\ Live' = Live
  BY <1>1 DEF Less, Live
<1>3. \A m \in Nodes : Untouched(m)
  BY <1>1 DEF Untouched
<1>4. GraphOK => GraphOK'
  <2>1. UsedExist => UsedExist'
    BY <1>1 DEF UsedExist, Used, Uses, Sources, Members
  <2>2. \A m \in Nodes : (TiedAt(m) => TiedAt(m)') /\ (RowsAt(m) => RowsAt(m)')
    BY <1>3, UntouchedKeeps
  <2> QED BY <2>1, <2>2 DEF GraphOK
<1>5. \A m \in Nodes : Balanced(m) => Balanced(m)'
  BY <1>3, UntouchedKeeps
<1>6. ASSUME NEW D, Swept(D)
      PROVE  Swept(D)'
  <2>1. \A n \in Nodes \ nodes' : NodeItem(n) \in D
    BY <1>1, <1>6 DEF Swept
  <2>2. \A n \in nodes' : NodeItem(n) \in D =>
          NodeSwept(n)' /\ \A q \in ToSet(Subregions[n]) : RegionItem(q) \in D
    <3> SUFFICES ASSUME NEW n \in nodes', NodeItem(n) \in D
                 PROVE  NodeSwept(n)' /\ \A q \in ToSet(Subregions[n]) : RegionItem(q) \in D
      OBVIOUS
    <3>1. NodeSwept(n) /\ \A q \in ToSet(Subregions[n]) : RegionItem(q) \in D
      BY <1>1, <1>6 DEF Swept
    <3>2. NodeClean(n)' /\ \A o : RecursionLive(o)' = RecursionLive(o)
      BY <1>1, <1>2, <3>1 DEF NodeSwept, NodeClean, RecursionLive
    <3>3. NodeSwept(n)'
      BY <1>1, <1>2, <3>1, <3>2 DEF NodeSwept
    <3> QED BY <3>1, <3>3
  <2>3. \A r \in Regions : RegionItem(r) \in D =>
          ResultsClean(r)' /\ \A n \in NodesOf(r) : NodeItem(n) \in D
    BY <1>1, <1>2, <1>6 DEF Swept, ResultsClean
  <2> QED BY <2>1, <2>2, <2>3 DEF Swept
<1> QED BY <1>2, <1>4, <1>5, <1>6

LEMMA SweptRegionSweeps ==
  ASSUME IInv, SweepInv, SweptRegion
  PROVE  SweepInv'
<1>1. /\ marks = << >> /\ marks' = << >> /\ work # << >> /\ Head(work).op = "nodes"
      /\ Head(work).set = {} /\ work' = Tail(work) /\ UNCHANGED graph /\ alive' = alive
  BY DEF SweptRegion, Calling, Returning
<1>2. PICK h : h = Head(work)
  OBVIOUS
<1>3. /\ GraphOK /\ \E D : SweptOK(D, work)
      /\ work \in Seq(CallType) /\ h \in ToSet(work) /\ CallReady(h) /\ Shape
  BY <1>1, <1>2, Sweeping
<1>4. PICK D : SweptOK(D, work)
  BY <1>3
<1>5. h.at \in Regions /\ ResultsClean(h.at)
  BY <1>1, <1>2, <1>3 DEF CallReady, LoopOps
<1>6. Less /\ GraphOK' /\ \A m \in Nodes : Balanced(m) => Balanced(m)'
  BY <1>1, <1>3, LessSame
<1> DEFINE E == D \cup {RegionItem(h.at)}
<1>7. \A n \in NodesOf(h.at) : NodeItem(n) \in D
  <2> TAKE n \in NodesOf(h.at)
  <2>1. Relies(h, NodeItem(n)) /\ NodeItem(n) \in Items
    BY <1>1, <1>2, ItemsApart DEF Relies, NodesOf
  <2> QED BY <1>1, <1>2, <1>3, <1>4, <2>1, HeadRelies
<1>8. Swept(E)'
  <2>1. Swept(D) /\ nodes' = nodes /\ nodes \subseteq Nodes
    BY <1>1, <1>3, <1>4 DEF SweptOK, graph, Shape
  <2>2. \A n \in Nodes \ nodes' : NodeItem(n) \in E
    BY <2>1 DEF Swept
  <2>3. \A n \in nodes' : NodeItem(n) \notin E \ D
    BY ItemsApart
  <2>4. \A r \in Regions : RegionItem(r) \in E \ D => ResultsClean(r)' /\ \A n \in NodesOf(r) : NodeItem(n) \in E
    <3> SUFFICES ASSUME NEW r \in Regions, RegionItem(r) \in E \ D
                 PROVE  ResultsClean(r)' /\ \A n \in NodesOf(r) : NodeItem(n) \in E
      OBVIOUS
    <3>1. r = h.at
      BY ItemsApart
    <3> QED BY <1>5, <1>6, <1>7, <3>1, CleanStays
  <2>5. D \subseteq E
    OBVIOUS
  <2> HIDE DEF E
  <2> QED BY <1>6, <2>1, <2>2, <2>3, <2>4, <2>5, SweptStays
<1>9. \A x \in Items : Cleans(Head(work), x) => x \in E
  BY <1>1, <1>2 DEF Cleans, InputOps
<1>10. /\ \A m \in Nodes : Balanced(m) \/ (Head(work).op \in InputOps /\ Head(work).at = m) => Balanced(m)'
       /\ Head(work).op \in {"run", "imports"} => RootSwept(E)'
  BY <1>1, <1>6 DEF InputOps
<1>11. D \subseteq E
  OBVIOUS
<1> HIDE DEF E
<1> QED BY <1>1, <1>4, <1>6, <1>8, <1>9, <1>10, <1>11, Returned

LEMMA CollectNodesSweeps ==
  ASSUME IInv, SweepInv, CollectNodes
  PROVE  SweepInv'
<1>0. PICK h : h = Head(work)
  OBVIOUS
<1> DEFINE t == Tail(work)
           e == Call("nodes", h.at, NodesIn(h.at))
           o == << e >>
<1>1. /\ marks = << >> /\ marks' = << >> /\ work # << >> /\ h.op = "collect"
      /\ UNCHANGED graph /\ alive' = alive /\ work' = << e >> \o t
  BY <1>0 DEF CollectNodes, Calling
<1> HIDE DEF t
<1>2. /\ work \in Seq(CallType) /\ t \in Seq(CallType) /\ Stacked(t) /\ h \in CallType
      /\ ToSet(work) = {h} \cup ToSet(t)
      /\ \A c \in ToSet(work) : c \in CallType /\ CallOK(c) /\ CallReady(c)
      /\ \A c \in ToSet(t) : Apart(h, c)
      /\ GraphOK /\ CallsOK(work) /\ Shape /\ \E D : SweptOK(D, work)
  BY <1>0, <1>1, Sweeping DEF t
<1>3. PICK D : SweptOK(D, work)
  BY <1>2
<1>4. Swept(D) /\ Ordered(D, work) /\ (IsRootPending(work) \/ RootSwept(D))
  BY <1>3 DEF SweptOK
<1>5. h.at \in Regions /\ ResultsClean(h.at)
  BY <1>1, <1>2 DEF CallReady, LoopOps
<1>6. e.op = "nodes" /\ e.at = h.at /\ e.set = NodesIn(h.at) /\ e \in CallType
  <2>1. NodesIn(h.at) \subseteq Nodes
    BY <1>2 DEF NodesIn, Shape
  <2> QED BY <1>5, <2>1 DEF Call, CallType, Ops, Everything
<1>7. PICK f : f = e
  OBVIOUS
<1> HIDE DEF e
<1>8. o \in Seq(CallType) /\ ToSet(o) = {f} /\ o = << f >> /\ work' = o \o t
  BY <1>1, <1>6, <1>7, SingleIs
<1> HIDE DEF o
<1>9. Less /\ Live' = Live /\ GraphOK' /\ Swept(D)' /\ \A m \in Nodes : Balanced(m) => Balanced(m)'
  BY <1>1, <1>2, <1>4, LessSame
<1>10. o \o t \in Seq(CallType) /\ ToSet(o \o t) = {f} \cup ToSet(t)
  <2>1. o \in Seq(CallType) /\ t \in Seq(CallType)
    BY <1>2, <1>8
  <2>2. o \o t \in Seq(CallType) /\ ToSet(o \o t) = ToSet(o) \cup ToSet(t)
    BY <2>1, ConcatIs
  <2> QED BY <1>8, <2>2
<1>11. Stacked(o \o t)
  <2>1. Stacked(o)
    BY <1>8 DEF Stacked
  <2>2. \A c \in ToSet(t) : Apart(f, c)
    <3> TAKE c \in ToSet(t)
    <3>1. Scoped(c) => RegionAt(c) \notin Around(h.at)
      BY <1>1, <1>2 DEF Apart
    <3>2. f.op = "nodes" /\ f.at = h.at /\ f.set \subseteq {m \in Nodes : RegionOf[m] = h.at}
      BY <1>2, <1>6, <1>7 DEF NodesIn, Shape
    <3> QED BY <3>1, <3>2 DEF Apart, Around, RegionAt, InputOps, LoopOps
  <2> QED BY <1>2, <1>8, <2>1, <2>2, StackedMore
<1>12. \A c \in ToSet(work') : CallReady(c)'
  <2>1. \A c \in ToSet(t) : CallReady(c)'
    BY <1>2, <1>9, ReadyStays
  <2>2. CallReady(f)'
    <3>1. ResultsClean(h.at)'
      BY <1>5, <1>9, CleanStays
    <3>2. f.set \subseteq NodesOf(h.at)
      BY <1>2, <1>6, <1>7 DEF NodesOf, NodesIn, Shape
    <3> QED BY <1>5, <1>6, <1>7, <3>1, <3>2 DEF CallReady, LoopOps, InputOps
  <2> QED BY <1>8, <1>10, <2>1, <2>2
<1>13. \A m \in Nodes : Balanced(m)' \/ IsPending(m, work')
  <2> TAKE m \in Nodes
  <2>1. Balanced(m) \/ IsPending(m, work)
    BY <1>2 DEF CallsOK
  <2>2. IsPending(m, work) => IsPending(m, work')
    BY <1>1, <1>2, <1>8, <1>10 DEF IsPending, InputOps
  <2> QED BY <1>9, <2>1, <2>2
<1>14. CallsOK(work)'
  BY <1>8, <1>11, <1>12, <1>13 DEF CallsOK
<1> DEFINE G == D \cup {RegionItem(h.at)}
<1>15. Ordered(G, t)
  <2>1. D \subseteq G /\ \A x \in Items : Cleans(h, x) => x \in G
    BY <1>1 DEF Cleans, InputOps, LoopOps
  <2> HIDE DEF G
  <2> QED BY <1>0, <1>1, <1>2, <1>4, <2>1, OrderedTail DEF t
<1>16. \A x \in Items : Relies(f, x) => x \in D
  <2> SUFFICES ASSUME NEW x \in Items, Relies(f, x)
               PROVE  x \in D
    OBVIOUS
  <2>1. PICK m \in NodesOf(h.at) \ NodesIn(h.at) : x = NodeItem(m)
    BY <1>6, <1>7 DEF Relies, InputOps
  <2>2. m \in Nodes \ nodes
    BY <2>1 DEF NodesOf, NodesIn
  <2> QED BY <1>4, <2>1, <2>2 DEF Swept
<1>17. Ordered(D, o \o t)
  <2>1. Ordered(D, o)
    BY <1>8, <1>16, OrderedIdle
  <2>2. \A x \in Items : x \in G => x \in D \/ \E c \in ToSet(o) : Cleans(c, x)
    BY <1>6, <1>7, <1>8 DEF Cleans, LoopOps
  <2> HIDE DEF G
  <2> QED BY <1>2, <1>8, <1>15, <2>1, <2>2, OrderedMore
<1>18. IsRootPending(work') \/ RootSwept(D)'
  <2>1. CASE IsRootPending(work)
    BY <1>1, <1>2, <1>8, <1>10, <2>1 DEF IsRootPending
  <2>2. CASE RootSwept(D)
    BY <1>1, <1>9, <2>2 DEF RootSwept, graph
  <2> QED BY <1>4, <2>1, <2>2
<1>19. SweptOK(D, work)'
  BY <1>8, <1>9, <1>17, <1>18 DEF SweptOK
<1> QED BY <1>9, <1>14, <1>19 DEF SweepInv

LEMMA ConcatAt ==
  ASSUME NEW S, NEW y \in Seq(S), NEW z \in Seq(S)
  PROVE  /\ y \o z \in Seq(S) /\ Len(y) \in Nat /\ Len(z) \in Nat
         /\ DOMAIN (y \o z) = 1 .. Len(y) + Len(z)
         /\ \A k \in 1 .. Len(y) + Len(z) : (y \o z)[k] = IF k <= Len(y) THEN y[k] ELSE z[k - Len(y)]
OBVIOUS

LEMMA TwoAndOne ==
  ASSUME NEW S, NEW y \in Seq(S), NEW z \in Seq(S), Len(y) = 2, Len(z) = 1
  PROVE  /\ y \o z \in Seq(S) /\ DOMAIN (y \o z) = 1 .. 3
         /\ (y \o z)[1] = y[1] /\ (y \o z)[2] = y[2] /\ (y \o z)[3] = z[1]
<1> DEFINE w == y \o z
<1>1. /\ w \in Seq(S) /\ Len(y) \in Nat /\ Len(z) \in Nat /\ DOMAIN w = 1 .. Len(y) + Len(z)
      /\ \A k \in 1 .. Len(y) + Len(z) : w[k] = IF k <= Len(y) THEN y[k] ELSE z[k - Len(y)]
  BY ConcatAt
<1> HIDE DEF w
<1>2. w \in Seq(S) /\ DOMAIN w = 1 .. 3 /\ w[1] = y[1] /\ w[2] = y[2] /\ w[3] = z[1]
  BY <1>1
<1> QED BY <1>2 DEF w

LEMMA StartSweepSweeps ==
  ASSUME IInv, SweepInv, StartSweep
  PROVE  SweepInv'
<1> DEFINE b == Call("run", Root, {})
           p == Call("prune", Root, {})
           c == Call("collect", Root, {})
           i == Call("imports", Root, {})
           w == << p, c >> \o << i >>
<1>1. /\ marks = << >> /\ marks' = << >> /\ work = << b >> /\ UNCHANGED graph /\ alive' = alive
      /\ work' = << p, c >> \o << i >>
  BY DEF StartSweep, SweepRegion
<1>2. work' = w
  BY <1>1
<1>3. /\ b.op = "run" /\ p.op = "prune" /\ c.op = "collect" /\ i.op = "imports"
      /\ b \in CallType /\ p \in CallType /\ c \in CallType /\ i \in CallType
      /\ p.at = Root /\ c.at = Root /\ i.at = Root /\ Root \in Regions
  BY OwnershipAssumption DEF Call, CallType, Ops
<1> HIDE DEF b, p, c, i
<1>4. work # << >> /\ ToSet(<< b >>) = {b}
  BY <1>1, <1>3, SingleIs
<1>5. DOMAIN w = 1 .. 3 /\ w[1] = p /\ w[2] = c /\ w[3] = i /\ w \in Seq(CallType)
  <2> DEFINE y == << p, c >>
             z == << i >>
  <2>1. y \in Seq(CallType) /\ Len(y) = 2 /\ y[1] = p /\ y[2] = c
    BY <1>3
  <2>2. z \in Seq(CallType) /\ Len(z) = 1 /\ z[1] = i
    BY <1>3
  <2> HIDE DEF y, z
  <2> QED BY <2>1, <2>2, TwoAndOne DEF y, z
<1> HIDE DEF w
<1>6. ToSet(w) = {p, c, i}
  BY <1>5 DEF ToSet
<1>7. /\ GraphOK /\ CallsOK(work) /\ Shape /\ Reached(origin, Live, Live) /\ origin \in Wirings
      /\ \E D : SweptOK(D, work)
  BY <1>1, <1>4, Sweeping
<1>8. PICK D : SweptOK(D, work)
  BY <1>7
<1>9. Less /\ Live' = Live /\ GraphOK' /\ Swept(D)' /\ \A m \in Nodes : Balanced(m) => Balanced(m)'
  BY <1>1, <1>7, <1>8, LessSame DEF SweptOK
<1>10. ResultsClean(Root)'
  <2>1. \A u \in ToSet(results[Root]) : u \in FeedsOf(Live)
    BY <1>3, <1>7 DEF Shape, FeedsOf
  <2>2. ResultsClean(Root)
    BY <1>7, <2>1, MarkedIsClosed DEF ResultsClean
  <2> QED BY <1>3, <1>9, <2>2, CleanStays
<1>11. \A d \in ToSet(w) : CallReady(d)'
  BY <1>3, <1>6, <1>10 DEF CallReady, LoopOps, InputOps
<1>12. Stacked(w)
  <2>1. \A d : Apart(p, d)
    BY <1>3 DEF Apart, InputOps
  <2>2. Apart(c, i)
    BY <1>3 DEF Apart, Scoped, InputOps, LoopOps
  <2> QED BY <1>5, <2>1, <2>2 DEF Stacked
<1>13. \A m \in Nodes : Balanced(m)'
  <2> TAKE m \in Nodes
  <2>1. Balanced(m) \/ IsPending(m, work)
    BY <1>7 DEF CallsOK
  <2>2. ~IsPending(m, work)
    BY <1>1, <1>3, <1>4 DEF IsPending, InputOps
  <2> QED BY <1>9, <2>1, <2>2
<1>14. CallsOK(work)'
  BY <1>2, <1>11, <1>12, <1>13 DEF CallsOK
<1>15. Ordered(D, w)
  <2> SUFFICES ASSUME NEW j \in DOMAIN w, NEW x \in Items, Relies(w[j], x)
               PROVE  \E k \in DOMAIN w : k < j /\ Cleans(w[k], x)
    BY DEF Ordered
  <2>1. j = 3
    BY <1>3, <1>5 DEF Relies, InputOps
  <2>2. x = RegionItem(Root)
    BY <1>3, <1>5, <2>1 DEF Relies, InputOps
  <2>3. Cleans(w[2], x) /\ 2 \in DOMAIN w
    BY <1>3, <1>5, <2>2 DEF Cleans, LoopOps
  <2> QED BY <2>1, <2>3
<1>16. IsRootPending(w)
  BY <1>3, <1>6 DEF IsRootPending
<1>17. SweptOK(D, work)'
  BY <1>2, <1>9, <1>15, <1>16 DEF SweptOK
<1> QED BY <1>9, <1>14, <1>17 DEF SweepInv

\* E is D with what has gone.
WithGone(E, D) == E = D \cup {NodeItem(n) : n \in Nodes \ nodes'}

\* What has gone is swept.
LEMMA GoneSwept ==
  ASSUME Less, nodes \subseteq Nodes, NEW D, Swept(D), NEW E, WithGone(E, D)
  PROVE  D \subseteq E /\ Swept(E)' /\ \A r : RegionItem(r) \in E => RegionItem(r) \in D
<1>1. /\ D \subseteq E
      /\ \A n \in Nodes \ nodes' : NodeItem(n) \in E
  BY DEF WithGone
<1>2. \A n \in nodes' : NodeItem(n) \notin E \ D
  BY ItemsApart DEF WithGone
<1>3. \A r : RegionItem(r) \notin E \ D
  BY ItemsApart DEF WithGone
<1> QED BY <1>1, <1>2, <1>3, SweptStays

\* A node is destroyed, and the calls stay.
LEMMA DestroySweeps ==
  ASSUME IInv, SweepInv, marks = << >>, marks' = << >>, alive' = alive, work # << >>, work' = work,
         NEW n \in nodes, ToSet(Outputs[n]) \cap Live = {}, ToSet(outputs[n]) \cap Used = {}, Destroy(n),
         Shape'
  PROVE  SweepInv'
<1>1. /\ GraphOK /\ CallsOK(work) /\ Shape /\ Reached(origin, Live, Live) /\ origin \in Wirings
      /\ \A c \in ToSet(work) : c \in CallType /\ CallOK(c) /\ CallReady(c)
      /\ \E D : SweptOK(D, work)
  BY Sweeping
<1>2. n \in Nodes
  BY <1>1 DEF Shape
<1>3. Less
  BY <1>1, <1>2, DestroyIs
<1>4. GraphOK' /\ \A m \in Nodes : Balanced(m) => Balanced(m)'
  BY <1>1, <1>2, DestroyGraph
<1>5. PICK D : SweptOK(D, work)
  BY <1>1
<1>6. PICK E : WithGone(E, D)
  BY DEF WithGone
<1>7. D \subseteq E /\ Swept(E)'
  <2>1. nodes \subseteq Nodes /\ Swept(D)
    BY <1>1, <1>5 DEF SweptOK, Shape
  <2> QED BY <1>3, <1>6, <2>1, GoneSwept
<1>8. CallsOK(work)'
  <2>1. \A c \in ToSet(work) : CallReady(c)'
    BY <1>1, <1>3, ReadyStays
  <2>2. Stacked(work) /\ \A m \in Nodes : Balanced(m)' \/ IsPending(m, work)
    BY <1>1, <1>4 DEF CallsOK
  <2> QED BY <2>1, <2>2 DEF CallsOK
<1>9. SweptOK(E, work)'
  <2>1. Ordered(E, work)
    BY <1>5, <1>7 DEF SweptOK, Ordered
  <2>2. IsRootPending(work) \/ RootSwept(E)'
    <3>1. Live' = Live /\ ToSet(arguments'[Root]) \subseteq ToSet(arguments[Root])
      BY <1>3, OwnershipAssumption DEF Less, Live
    <3> QED BY <1>5, <1>7, <3>1 DEF SweptOK, RootSwept
  <2> QED BY <1>7, <2>1, <2>2 DEF SweptOK
<1> QED BY <1>4, <1>8, <1>9 DEF SweepInv

\* In a region whose nodes are simple and have users, all of them are needed: the
\* users of the deepest one that were not would not be either.
LEMMA PrunedIsSwept ==
  ASSUME Shape, origin \in Wirings, Reached(origin, Live, Live), NEW r \in Regions, ResultsClean(r),
         Bottom(r) = {}, \A m \in NodesOf(r) : Kind[m] = "simple"
  PROVE  \A m \in NodesIn(r) : NodeSwept(m) /\ ToSet(Subregions[m]) = {}
<1> DEFINE N == NodesIn(r)
           dead == {m \in N : ToSet(Outputs[m]) \cap Live = {}}
           d == Depth(r)
<1>1. N \subseteq Nodes /\ IsFiniteSet(N) /\ \A m \in N : m \in Nodes /\ m \in nodes /\ Kind[m] = "simple" /\ RegionOf[m] = r
  <2>1. N \subseteq Nodes /\ \A m \in N : m \in Nodes /\ m \in nodes /\ RegionOf[m] = r
    BY DEF NodesIn, Shape
  <2>2. IsFiniteSet(N)
    BY <2>1, OwnershipAssumption, FS_Subset
  <2> QED BY <2>1, <2>2 DEF NodesOf
<1> HIDE DEF N, d
<1>2. dead = {}
  <2> SUFFICES ASSUME dead # {} PROVE FALSE
    OBVIOUS
  <2> DEFINE S == {d[m] : m \in dead}
  <2>1. \A m \in N : d[m] \in Nat
    BY DepthIs DEF N, d
  <2>2. S \in SUBSET Nat /\ S # {} /\ IsFiniteSet(S)
    <3>1. IsFiniteSet(dead) /\ dead \subseteq N
      BY <1>1, FS_Subset
    <3> DEFINE f == [m \in dead |-> d[m]]
    <3> HIDE DEF dead
    <3>2. f \in Surjection(dead, S)
      BY DEF Surjection
    <3>3. IsFiniteSet(S)
      BY <3>1, <3>2, FS_Surjection
    <3> QED BY <2>1, <3>1, <3>3
  <2> HIDE DEF S
  <2>3. Max(S) \in Nat /\ Max(S) \in S /\ \A x \in S : x <= Max(S)
    BY <2>2, MaxOf
  <2>4. PICK m \in dead : d[m] = Max(S)
    BY <2>3 DEF S
  <2>5. m \in N /\ m \in Nodes /\ m \in nodes /\ RegionOf[m] = r /\ ToSet(Outputs[m]) \cap Live = {}
    BY <1>1
  <2>6. PICK o \in ToSet(outputs[m]) : o \in Used
    BY <2>5 DEF Bottom
  <2>7. PICK u : Present(u) /\ origin[u] = o
    BY <2>6, PresentIs
  <2>8. o \notin Live /\ o \in SourcesIn(r)
    BY <2>5, SourceRegion DEF Shape
  <2>9. CASE \E q \in Regions : u \in ToSet(results[q])
    <3>1. PICK q \in Regions : u \in ToSet(results[q])
      BY <2>9
    <3>2. u \in ToSet(Results[q])
      BY <3>1 DEF Shape
    <3>3. q = r
      BY <2>7, <2>8, <3>2, UserPlace
    <3> QED BY <2>7, <2>8, <3>1, <3>3 DEF ResultsClean
  <2>10. CASE \E p \in Nodes : u \in ToSet(inputs[p])
    <3>1. PICK p \in Nodes : u \in ToSet(inputs[p])
      BY <2>10
    <3>2. u \in ToSet(Inputs[p]) /\ p \in nodes
      BY <3>1, EmptyIs DEF Shape
    <3>3. RegionOf[p] = r /\ p \in N
      BY <2>7, <2>8, <3>2, UserPlace DEF N, NodesIn
    <3>4. d[m] < d[p] /\ d[p] \in Nat /\ d[m] \in Nat
      BY <2>5, <2>7, <3>1, <3>3, DepthIs DEF N, d
    <3>5. p \notin dead
      <4> SUFFICES ASSUME p \in dead PROVE FALSE
        OBVIOUS
      <4>1. d[p] <= d[m]
        BY <2>3, <2>4 DEF S
      <4> QED BY <3>4, <4>1
    <3>6. NodeSwept(p)
      BY <1>1, <3>3, <3>5, SimpleSwept
    <3> QED BY <2>7, <2>8, <3>1, <3>6 DEF NodeSwept, NodeClean
  <2> QED BY <2>7, <2>9, <2>10 DEF Present
<1>3. ASSUME NEW m \in N
      PROVE  NodeSwept(m) /\ ToSet(Subregions[m]) = {}
  <2>1. ToSet(Outputs[m]) \cap Live # {}
    BY <1>2
  <2> QED BY <1>1, <2>1, SimpleSwept
<1> QED BY <1>3 DEF N

\* A call returns and has done nothing to the graph.
LEMMA ReturnedSame ==
  ASSUME IInv, SweepInv, marks = << >>, marks' = << >>, alive' = alive, work # << >>, UNCHANGED graph,
         work' = Tail(work), Head(work).op \notin InputOps \cup {"run", "imports"},
         NEW D, SweptOK(D, work), NEW E, D \subseteq E, Swept(E)',
         \A x \in Items : Cleans(Head(work), x) => x \in E
  PROVE  SweepInv'
<1>1. GraphOK
  BY Sweeping
<1>2. Less /\ GraphOK' /\ \A m \in Nodes : Balanced(m) => Balanced(m)'
  BY <1>1, LessSame
<1>3. /\ \A m \in Nodes : Balanced(m) \/ (Head(work).op \in InputOps /\ Head(work).at = m) => Balanced(m)'
      /\ Head(work).op \in {"run", "imports"} => RootSwept(E)'
  BY <1>2
<1> QED BY <1>2, <1>3, Returned

LEMMA PruneSweeps ==
  ASSUME IInv, SweepInv, Prune, Shape'
  PROVE  SweepInv'
<1>0. PICK h : h = Head(work)
  OBVIOUS
<1>1. /\ marks = << >> /\ marks' = << >> /\ work # << >> /\ h.op = "prune" /\ alive' = alive
  BY <1>0 DEF Prune, Calling
<1>2. /\ GraphOK /\ CallsOK(work) /\ Shape /\ Reached(origin, Live, Live) /\ origin \in Wirings
      /\ h \in ToSet(work) /\ CallReady(h) /\ \E D : SweptOK(D, work)
  BY <1>0, <1>1, Sweeping
<1>3. h.at \in Regions /\ ResultsClean(h.at)
  BY <1>1, <1>2 DEF CallReady, LoopOps
<1>4. ASSUME NEW n \in Bottom(h.at), Destroy(n), work' = work
      PROVE  SweepInv'
  <2>1. n \in nodes /\ n \in Nodes /\ ToSet(outputs[n]) \cap Used = {}
    BY <1>2, <1>4 DEF Bottom, Shape
  <2>2. ToSet(Outputs[n]) \cap Live = {}
    BY <1>1, <2>1, LiveIsUsed DEF IInv
  <2> QED BY <1>1, <1>4, <2>1, <2>2, DestroySweeps
<1>5. CASE Bottom(h.at) = {} /\ work' = Tail(work) /\ UNCHANGED graph
  <2>1. PICK D : SweptOK(D, work)
    BY <1>2
  <2>2. Less /\ Live' = Live /\ Swept(D)' /\ Swept(D)
    BY <1>1, <1>5, <2>1, LessSame DEF SweptOK
  <2>3. CASE ~IsDeltaBody(h.at)
    <3>1. \A x \in Items : Cleans(Head(work), x) => x \in D
      BY <1>0, <1>1, <2>3 DEF Cleans, InputOps, LoopOps
    <3>2. Head(work).op \notin InputOps \cup {"run", "imports"}
      BY <1>0, <1>1 DEF InputOps
    <3> QED BY <1>1, <1>5, <2>1, <2>2, <3>1, <3>2, ReturnedSame
  <2>4. CASE IsDeltaBody(h.at)
    <3>1. \A m \in NodesOf(h.at) : Kind[m] = "simple"
      BY <2>4, KindAssumption DEF IsDeltaBody, NodesOf
    <3>2. \A m \in NodesIn(h.at) : NodeSwept(m) /\ ToSet(Subregions[m]) = {}
      BY <1>2, <1>3, <1>5, <3>1, PrunedIsSwept
    <3> DEFINE E == D \cup {RegionItem(h.at)} \cup {NodeItem(m) : m \in NodesOf(h.at)}
    <3>3. nodes' = nodes /\ nodes \subseteq Nodes /\ D \subseteq E
      BY <1>2, <1>5 DEF graph, Shape
    <3>4. \A n \in Nodes \ nodes' : NodeItem(n) \in E
      BY <2>2, <3>3 DEF Swept
    <3>5. \A n \in nodes' : NodeItem(n) \in E \ D =>
            NodeSwept(n)' /\ \A q \in ToSet(Subregions[n]) : RegionItem(q) \in E
      <4> SUFFICES ASSUME NEW n \in nodes', NodeItem(n) \in E \ D
                   PROVE  NodeSwept(n)' /\ \A q \in ToSet(Subregions[n]) : RegionItem(q) \in E
        OBVIOUS
      <4>1. n \in NodesOf(h.at) /\ n \in Nodes /\ n \in nodes
        BY <3>3, ItemsApart
      <4>2. n \in NodesIn(h.at)
        BY <4>1 DEF NodesOf, NodesIn
      <4>3. NodeSwept(n) /\ ToSet(Subregions[n]) = {}
        BY <3>2, <4>2
      <4>4. NodeSwept(n)'
        BY <2>2, <4>1, <4>3, CleanStays
      <4> QED BY <4>3, <4>4
    <3>6. \A r \in Regions : RegionItem(r) \in E \ D => ResultsClean(r)' /\ \A n \in NodesOf(r) : NodeItem(n) \in E
      <4> SUFFICES ASSUME NEW r \in Regions, RegionItem(r) \in E \ D
                   PROVE  ResultsClean(r)' /\ \A n \in NodesOf(r) : NodeItem(n) \in E
        OBVIOUS
      <4>1. r = h.at
        BY ItemsApart
      <4>2. \A n \in NodesOf(h.at) : NodeItem(n) \in E
        OBVIOUS
      <4>3. ResultsClean(h.at)'
        BY <1>3, <2>2, CleanStays
      <4> HIDE DEF E
      <4> QED BY <4>1, <4>2, <4>3
    <3>7. RegionItem(h.at) \in E
      OBVIOUS
    <3> HIDE DEF E
    <3>8. Swept(E)'
      BY <2>2, <3>3, <3>4, <3>5, <3>6, SweptStays
    <3>9. \A x \in Items : Cleans(Head(work), x) => x \in E
      BY <1>0, <1>1, <3>7 DEF Cleans, InputOps, LoopOps
    <3>10. Head(work).op \notin InputOps \cup {"run", "imports"}
      BY <1>0, <1>1 DEF InputOps
    <3> QED BY <1>1, <1>5, <2>1, <3>3, <3>8, <3>9, <3>10, ReturnedSame
  <2> QED BY <2>3, <2>4
<1> QED BY <1>0, <1>4, <1>5 DEF Prune, Returning

LEMMA RemoveDeadSweeps ==
  ASSUME IInv, SweepInv, Calling("nodes"), NEW n \in Deepest, RemoveDead(n), alive' = alive, marks' = marks,
         Shape'
  PROVE  SweepInv'
<1>1. /\ n \in Nodes /\ marks = << >> /\ marks' = << >> /\ work # << >> /\ Head(work).op = "nodes"
      /\ Shape /\ Kept
      /\ \A o \in ToSet(outputs[n]) : o \in ToSet(Outputs[n]) /\ (IsAlive(o) <=> o \in Live)
  BY Visited
<1>2. ~IsAliveNode(n) /\ Destroy(n) /\ Then(n, << >>)
  BY DEF RemoveDead
<1>3. ToSet(Outputs[n]) \cap Live = {}
  <2>1. CASE Kind[n] = "simple"
    <3>1. n \notin alive
      BY <1>2, <2>1 DEF IsAliveNode
    <3>2. ASSUME NEW o \in ToSet(Outputs[n])
          PROVE  StaticMark(o) = n
      <4>1. \A m \in Nodes : o \in ToSet(Outputs[m]) => m = n
        BY <1>1, Places, OnePlace
      <4> QED BY <1>1, <2>1, <4>1 DEF StaticMark
    <3> QED BY <3>1, <3>2 DEF Live, LiveIn
  <2>2. CASE Kind[n] # "simple"
    <3>1. \A o \in ToSet(outputs[n]) : o \notin Live
      BY <1>1, <1>2, <2>2 DEF IsAliveNode
    <3>2. ToSet(Outputs[n]) \cap Live \subseteq ToSet(outputs[n])
      BY <1>1 DEF Kept
    <3> QED BY <3>1, <3>2
  <2> QED BY <2>1, <2>2
<1>4. /\ GraphOK /\ Reached(origin, Live, Live) /\ origin \in Wirings /\ \E D : SweptOK(D, work)
  BY <1>1, Sweeping
<1>5. PICK D : SweptOK(D, work)
  BY <1>4
<1>6. ToSet(outputs[n]) \cap Used = {}
  BY <1>1, <1>3, <1>5, DeepestUses
<1>7. Less
  BY <1>1, <1>2, DestroyIs
<1>8. GraphOK' /\ \A m \in Nodes : Balanced(m) => Balanced(m)'
  BY <1>1, <1>2, <1>3, <1>4, <1>6, DestroyGraph
<1>9. PICK E : WithGone(E, D)
  BY DEF WithGone
<1>10. D \subseteq E /\ Swept(E)'
  <2>1. nodes \subseteq Nodes /\ Swept(D)
    BY <1>1, <1>5 DEF SweptOK, Shape
  <2> QED BY <1>7, <1>9, <2>1, GoneSwept
<1>11. NodeItem(n) \in E
  <2>1. n \notin nodes'
    BY <1>2 DEF Destroy
  <2> QED BY <1>1, <1>9, <2>1 DEF WithGone
<1>12. n \in Head(work).set
  BY DEF Deepest
<1>13. Balanced(n)'
  <2>1. Emptied(n)
    BY <1>1, <1>2, DestroyIs DEF Within
  <2>2. \A q \in ToSet(Subregions[n]) : ToSet(Arguments[q]) \cap Live = {}
    <3> TAKE q \in ToSet(Subregions[n])
    <3>1. q \in Inside[n] /\ q \in Regions
      BY <1>1, NestingIs, OwnerIs
    <3>2. SourcesIn(q) \cap Live = {}
      BY <1>1, <1>3, <1>4, <3>1, NothingInside
    <3> QED BY <3>1, <3>2, SourceRegion
  <2> QED BY <1>1, <2>1, <2>2, EmptiedKeeps
<1> DEFINE calls == << >>
<1>14. /\ calls \in Seq(CallType) /\ Stacked(calls) /\ ToSet(calls) = {} /\ Ordered(E, calls)
       /\ Then(n, calls)
  BY <1>2, EmptyIs DEF Stacked, Ordered
<1> HIDE DEF calls
<1>15. \A c \in ToSet(calls) : IsCallFor(c, n) /\ CallReady(c)'
  BY <1>14
<1> QED BY <1>1, <1>5, <1>7, <1>8, <1>10, <1>11, <1>12, <1>13, <1>14, <1>15, WentOn

LEMMA SkipSimpleSweeps ==
  ASSUME IInv, SweepInv, Calling("nodes"), NEW n \in Deepest, SkipSimple(n), alive' = alive, marks' = marks
  PROVE  SweepInv'
<1>1. /\ n \in Nodes /\ marks = << >> /\ marks' = << >> /\ work # << >> /\ Head(work).op = "nodes"
      /\ Shape
  BY Visited
<1>2. IsAliveNode(n) /\ Kind[n] = "simple" /\ Then(n, << >>) /\ UNCHANGED graph
  BY DEF SkipSimple
<1>3. /\ GraphOK /\ Reached(origin, Live, Live) /\ origin \in Wirings /\ \E D : SweptOK(D, work)
  BY <1>1, Sweeping
<1>4. NodeSwept(n) /\ ToSet(Subregions[n]) = {}
  BY <1>1, <1>2, <1>3, VisitedNeeded, SimpleSwept
<1>5. PICK D : SweptOK(D, work)
  BY <1>3
<1>6. Less /\ GraphOK' /\ Swept(D) /\ Swept(D)' /\ \A m \in Nodes : Balanced(m) => Balanced(m)'
  BY <1>2, <1>3, <1>5, LessSame DEF SweptOK
<1> DEFINE E == D \cup {NodeItem(n)}
<1>7. Swept(E)'
  <2>1. nodes' = nodes /\ nodes \subseteq Nodes /\ D \subseteq E
    BY <1>1, <1>2 DEF graph, Shape
  <2>2. \A m \in Nodes \ nodes' : NodeItem(m) \in E
    BY <1>6, <2>1 DEF Swept
  <2>3. \A m \in nodes' : NodeItem(m) \in E \ D =>
          NodeSwept(m)' /\ \A q \in ToSet(Subregions[m]) : RegionItem(q) \in E
    <3> SUFFICES ASSUME NEW m \in nodes', NodeItem(m) \in E \ D
                 PROVE  NodeSwept(m)' /\ \A q \in ToSet(Subregions[m]) : RegionItem(q) \in E
      OBVIOUS
    <3>1. m = n
      BY ItemsApart
    <3>2. NodeSwept(n)'
      BY <1>1, <1>4, <1>6, CleanStays
    <3> HIDE DEF E
    <3> QED BY <1>4, <3>1, <3>2
  <2>4. \A r \in Regions : RegionItem(r) \in E \ D => ResultsClean(r)' /\ \A m \in NodesOf(r) : NodeItem(m) \in E
    BY ItemsApart
  <2> HIDE DEF E
  <2> QED BY <1>6, <2>1, <2>2, <2>3, <2>4, SweptStays
<1>8. n \in Head(work).set
  BY DEF Deepest
<1>9. Balanced(n)' /\ NodeItem(n) \in E /\ D \subseteq E
  BY <1>1, <1>2 DEF Balanced
<1> HIDE DEF E
<1> DEFINE calls == << >>
<1>10. /\ calls \in Seq(CallType) /\ Stacked(calls) /\ ToSet(calls) = {} /\ Ordered(E, calls)
       /\ Then(n, calls)
  BY <1>2, EmptyIs DEF Stacked, Ordered
<1> HIDE DEF calls
<1>11. \A c \in ToSet(calls) : IsCallFor(c, n) /\ CallReady(c)'
  BY <1>10
<1> QED BY <1>1, <1>5, <1>6, <1>7, <1>8, <1>9, <1>10, <1>11, WentOn

\* The calls that are made for node n, the last for its inputs.
MadeFor(calls, n, c) ==
  /\ calls \in Seq(CallType) /\ Stacked(calls)
  /\ c \in ToSet(calls) /\ c.op \in InputOps /\ c.at = n
  /\ \A d \in ToSet(calls) : d = c \/ (d.op \in {"prune", "collect"} /\ d.at \in ToSet(Subregions[n]))
  /\ \A B : Ordered(B, calls)

LEMMA EndMade ==
  ASSUME NEW n \in Nodes, NEW c \in CallType, c.op \in InputOps, c.at = n,
         NEW a \in Seq(CallType), Stacked(a),
         \A d \in ToSet(a) : d.op \in {"prune", "collect"} /\ d.at \in ToSet(Subregions[n]),
         \A q \in ToSet(Subregions[n]) : \E d \in ToSet(a) : Cleans(d, RegionItem(q))
  PROVE  MadeFor(a \o << c >>, n, c)
<1> DEFINE o == << c >>
<1>1. o \in Seq(CallType) /\ ToSet(o) = {c} /\ Stacked(o)
  BY SingleIs DEF Stacked
<1>2. \A d \in ToSet(a) : \A x \in Items : ~ Relies(d, x)
  BY DEF Relies, InputOps
<1>3. /\ \A B : Ordered(B, a \o << c >>)
      /\ a \o << c >> \in Seq(CallType) /\ ToSet(a \o << c >>) = ToSet(a) \cup {c}
  BY <1>2, OrderedVisit
<1>4. \A d \in ToSet(a) : Apart(d, c)
  <2> TAKE d \in ToSet(a)
  <2>1. CASE d.op = "prune"
    BY <2>1 DEF Apart, InputOps
  <2>2. CASE d.op = "collect"
    <3>1. RegionAt(c) = RegionOf[n]
      BY DEF RegionAt
    <3>2. RegionOf[n] \notin Around(d.at)
      BY NestingIs
    <3> QED BY <2>2, <3>1, <3>2 DEF Apart, InputOps
  <2> QED BY <2>1, <2>2
<1>5. \A d \in ToSet(a), e \in ToSet(o) : Apart(d, e)
  BY <1>1, <1>4
<1>6. Stacked(a \o << c >>)
  <2> HIDE DEF o
  <2>1. Stacked(a \o o)
    BY <1>1, <1>5, StackedMore
  <2> QED BY <2>1 DEF o
<1> QED BY <1>3, <1>6 DEF MadeFor

\* One region after the other: the regions of n are not around each other.
LEMMA RegionsApart ==
  ASSUME NEW n \in Nodes, NEW q \in ToSet(Subregions[n]), NEW r \in ToSet(Subregions[n]), q # r
  PROVE  q \notin Around(r)
<1> SUFFICES ASSUME q \in Around(r) PROVE FALSE
  OBVIOUS
<1>1. PICK m \in Nodes : RegionOf[m] = r /\ q \in Inside[m]
  BY DEF Around
<1>2. m = n \/ RegionOf[n] \in Inside[m]
  BY <1>1, NestingIs
<1>3. r \in Inside[n] /\ RegionOf[n] \notin Inside[n]
  BY NestingIs
<1>4. Inside[m] \subseteq Inside[n]
  BY <1>1, <1>3, NestingIs
<1> QED BY <1>1, <1>2, <1>3, <1>4

LEMMA PlainTyped ==
  ASSUME NEW r \in Regions
  PROVE  /\ Call("prune", r, {}) \in CallType /\ Call("collect", r, {}) \in CallType
         /\ Call("prune", r, {}).op = "prune" /\ Call("prune", r, {}).at = r
         /\ Call("collect", r, {}).op = "collect" /\ Call("collect", r, {}).at = r
BY DEF Call, CallType, Ops

LEMMA RegionsMade ==
  ASSUME NEW n \in Nodes, NEW c \in CallType, c.op \in InputOps, c.at = n
  PROVE  MadeFor(SweepRegions(Subregions[n]) \o << c >>, n, c)
<1> DEFINE rs == Subregions[n]
           a == SweepRegions(rs)
<1>1. rs \in Seq(Regions \ {Root})
  BY Places
<1>2. Len(rs) \in Nat /\ \A k \in 1 .. Len(rs) : rs[k] \in Regions /\ rs[k] \in ToSet(rs)
  BY <1>1 DEF ToSet
<1>3. \A j, k \in 1 .. Len(rs) : rs[j] = rs[k] => j = k
  BY <1>1, Places DEF Distinct
<1>4. \A q \in ToSet(rs) : \E k \in 1 .. Len(rs) : rs[k] = q
  BY <1>1 DEF ToSet
<1>5. a \in Seq(CallType)
  <2>1. \A r \in Regions \ {Root} : Call("prune", r, {}) \in CallType /\ Call("collect", r, {}) \in CallType
    BY PlainTyped
  <2> HIDE DEF rs
  <2> QED BY <1>1, <2>1, SweepRegionsAre
<1> HIDE DEF rs
<1>6. DOMAIN a = 1 .. 2 * Len(rs)
  BY DEF SweepRegions
<1>7. ASSUME NEW k \in 1 .. Len(rs)
      PROVE  /\ 2 * k \in DOMAIN a /\ 2 * k - 1 \in DOMAIN a
             /\ a[2 * k] = Call("collect", rs[k], {}) /\ a[2 * k - 1] = Call("prune", rs[k], {})
  <2>1. /\ 2 * k \in 1 .. 2 * Len(rs) /\ 2 * k - 1 \in 1 .. 2 * Len(rs)
        /\ (2 * k + 1) \div 2 = k /\ (2 * k) % 2 = 0 /\ (2 * k - 1 + 1) \div 2 = k /\ (2 * k - 1) % 2 = 1
    BY <1>2
  <2>2. a[2 * k] = SweepRegion(rs[k])[2] /\ a[2 * k - 1] = SweepRegion(rs[k])[1]
    BY <2>1 DEF SweepRegions
  <2> QED BY <1>6, <2>1, <2>2 DEF SweepRegion
<1>8. \A j \in DOMAIN a : \E k \in 1 .. Len(rs) : j = 2 * k \/ j = 2 * k - 1
  <2> TAKE j \in DOMAIN a
  <2>1. j \in 1 .. 2 * Len(rs) /\ Len(rs) \in Nat
    BY <1>2, <1>6
  <2>2. (j + 1) \div 2 \in 1 .. Len(rs) /\ (j = 2 * ((j + 1) \div 2) \/ j = 2 * ((j + 1) \div 2) - 1)
    BY <2>1
  <2> QED BY <2>2
<1> HIDE DEF a
<1>9. \A d \in ToSet(a) : d.op \in {"prune", "collect"} /\ d.at \in ToSet(rs)
  <2> TAKE d \in ToSet(a)
  <2>1. PICK j \in DOMAIN a : d = a[j]
    BY DEF ToSet
  <2>2. PICK k \in 1 .. Len(rs) : j = 2 * k \/ j = 2 * k - 1
    BY <1>8
  <2>3. d = Call("collect", rs[k], {}) \/ d = Call("prune", rs[k], {})
    BY <1>7, <2>1, <2>2
  <2> QED BY <1>2, <2>3, PlainTyped
<1>10. \A q \in ToSet(rs) : \E d \in ToSet(a) : Cleans(d, RegionItem(q))
  <2> TAKE q \in ToSet(rs)
  <2>1. PICK k \in 1 .. Len(rs) : rs[k] = q
    BY <1>4
  <2>2. a[2 * k] \in ToSet(a) /\ a[2 * k] = Call("collect", q, {}) /\ q \in Regions
    BY <1>2, <1>7, <2>1 DEF ToSet
  <2> QED BY <2>2, PlainTyped DEF Cleans, LoopOps
<1>11. Stacked(a)
  <2> SUFFICES ASSUME NEW i \in DOMAIN a, NEW j \in DOMAIN a, i < j
               PROVE  Apart(a[i], a[j])
    BY DEF Stacked
  <2>1. PICK k \in 1 .. Len(rs) : i = 2 * k \/ i = 2 * k - 1
    BY <1>8
  <2>2. PICK l \in 1 .. Len(rs) : j = 2 * l \/ j = 2 * l - 1
    BY <1>8
  <2>3. CASE i = 2 * k - 1
    <3>1. a[i].op = "prune"
      BY <1>2, <1>7, <2>3, PlainTyped
    <3> QED BY <3>1 DEF Apart, InputOps
  <2>4. CASE i = 2 * k
    <3>1. k # l /\ k \in Nat /\ l \in Nat
      BY <1>2, <2>2, <2>4
    <3>2. rs[k] # rs[l] /\ rs[k] \in ToSet(rs) /\ rs[l] \in ToSet(rs)
      BY <1>2, <1>3, <3>1
    <3>3. rs[l] \notin Around(rs[k])
      BY <3>2, RegionsApart DEF rs
    <3>4. a[i].op = "collect" /\ a[i].at = rs[k]
      BY <1>2, <1>7, <2>4, PlainTyped
    <3>5. a[j].op \in {"prune", "collect"} /\ a[j].at = rs[l]
      BY <1>2, <1>7, <2>2, PlainTyped
    <3>6. RegionAt(a[j]) = rs[l]
      BY <3>5 DEF RegionAt, InputOps
    <3> QED BY <3>3, <3>4, <3>6 DEF Apart, InputOps
  <2> QED BY <2>1, <2>3, <2>4
<1>12. MadeFor(a \o << c >>, n, c)
  BY <1>5, <1>9, <1>10, <1>11, EndMade DEF rs
<1> QED BY <1>12 DEF a, rs

LEMMA BodyMade ==
  ASSUME NEW n \in Nodes, Kind[n] \in {"theta", "lambda", "phi"}, NEW c \in CallType, c.op \in InputOps, c.at = n
  PROVE  MadeFor(SweepRegion(Body(n)) \o << c >>, n, c)
<1> DEFINE r == Body(n)
           p == Call("prune", r, {})
           e == Call("collect", r, {})
           a == << p, e >>
<1>1. r \in Regions /\ ToSet(Subregions[n]) = {r}
  BY BodyIs
<1> HIDE DEF r
<1>2. /\ p \in CallType /\ e \in CallType
      /\ p.op = "prune" /\ p.at = r /\ e.op = "collect" /\ e.at = r
  BY <1>1, PlainTyped
<1> HIDE DEF p, e
<1>3. a \in Seq(CallType) /\ DOMAIN a = 1 .. 2 /\ a[1] = p /\ a[2] = e
  BY <1>2
<1> HIDE DEF a
<1>4. ToSet(a) = {p, e}
  BY <1>3 DEF ToSet
<1>5. Stacked(a)
  <2>1. \A d : Apart(p, d)
    BY <1>2 DEF Apart, InputOps
  <2> QED BY <1>3, <2>1 DEF Stacked
<1>6. \A d \in ToSet(a) : d.op \in {"prune", "collect"} /\ d.at \in ToSet(Subregions[n])
  BY <1>1, <1>2, <1>4
<1>7. \A q \in ToSet(Subregions[n]) : \E d \in ToSet(a) : Cleans(d, RegionItem(q))
  BY <1>1, <1>2, <1>4 DEF Cleans, LoopOps
<1>8. MadeFor(a \o << c >>, n, c)
  BY <1>3, <1>5, <1>6, <1>7, EndMade
<1> QED BY <1>8 DEF a, p, e, r, SweepRegion

LEMMA DeltaMade ==
  ASSUME NEW n \in Nodes, Kind[n] = "delta", NEW c \in CallType, c.op \in InputOps, c.at = n
  PROVE  MadeFor(<< Call("prune", Body(n), {}), c >>, n, c)
<1> DEFINE r == Body(n)
           p == Call("prune", r, {})
           a == << p, c >>
<1>1. r \in Regions /\ ToSet(Subregions[n]) = {r} /\ IsDeltaBody(r)
  BY BodyIs DEF IsDeltaBody
<1> HIDE DEF r
<1>2. p \in CallType /\ p.op = "prune" /\ p.at = r
  BY <1>1, PlainTyped
<1> HIDE DEF p
<1>3. a \in Seq(CallType) /\ DOMAIN a = 1 .. 2 /\ a[1] = p /\ a[2] = c
  BY <1>2
<1> HIDE DEF a
<1>4. ToSet(a) = {p, c}
  BY <1>3 DEF ToSet
<1>5. Stacked(a)
  <2>1. \A d : Apart(p, d)
    BY <1>2 DEF Apart, InputOps
  <2> QED BY <1>3, <2>1 DEF Stacked
<1>6. ASSUME NEW B
      PROVE  Ordered(B, a)
  <2> SUFFICES ASSUME NEW j \in DOMAIN a, NEW x \in Items, Relies(a[j], x)
               PROVE  \E i \in DOMAIN a : i < j /\ Cleans(a[i], x)
    BY DEF Ordered
  <2>1. j = 2
    BY <1>2, <1>3 DEF Relies, InputOps
  <2>2. x = RegionItem(r)
    BY <1>1, <1>3, <2>1 DEF Relies, InputOps
  <2>3. Cleans(a[1], x) /\ 1 \in DOMAIN a
    BY <1>1, <1>2, <1>3, <2>2 DEF Cleans
  <2> QED BY <2>1, <2>3
<1>7. MadeFor(a, n, c)
  BY <1>1, <1>2, <1>3, <1>4, <1>5, <1>6 DEF MadeFor
<1> QED BY <1>7 DEF a, p, r

\* The loop of SweepRegion makes calls for a structural node.
LEMMA VisitSweeps ==
  ASSUME IInv, SweepInv, Calling("nodes"), NEW n \in Deepest, alive' = alive, marks' = marks,
         nodes' = nodes, Less, GraphOK', \A m \in Nodes : m # n /\ Balanced(m) => Balanced(m)',
         NEW calls, NEW c, MadeFor(calls, n, c), Then(n, calls),
         \A q \in ToSet(Subregions[n]) : ResultsClean(q)', CallReady(c)'
  PROVE  SweepInv'
<1>1. /\ n \in Nodes /\ marks = << >> /\ marks' = << >> /\ work # << >> /\ Head(work).op = "nodes"
      /\ Shape
  BY Visited
<1>2. \E D : SweptOK(D, work)
  BY <1>1, Sweeping
<1>3. PICK D : SweptOK(D, work)
  BY <1>2
<1>4. Swept(D)'
  <2>1. Swept(D) /\ nodes \subseteq Nodes
    BY <1>1, <1>3 DEF SweptOK, Shape
  <2>2. \A m \in Nodes \ nodes' : NodeItem(m) \in D
    BY <2>1 DEF Swept
  <2> QED BY <2>1, <2>2, SweptStays
<1>5. n \in Head(work).set
  BY DEF Deepest
<1>6. /\ calls \in Seq(CallType) /\ Stacked(calls) /\ c \in ToSet(calls) /\ c.op \in InputOps /\ c.at = n
      /\ Ordered(D, calls)
      /\ \A d \in ToSet(calls) : d = c \/ (d.op \in {"prune", "collect"} /\ d.at \in ToSet(Subregions[n]))
  BY DEF MadeFor
<1>7. ASSUME NEW d \in ToSet(calls)
      PROVE  IsCallFor(d, n) /\ CallReady(d)'
  <2>1. CASE d = c
    BY <1>6, <2>1 DEF IsCallFor
  <2>2. CASE d.op \in {"prune", "collect"} /\ d.at \in ToSet(Subregions[n])
    <3>1. d.at \in Regions /\ ResultsClean(d.at)'
      BY <1>1, <2>2, OwnerIs
    <3> QED BY <2>2, <3>1 DEF IsCallFor, CallReady, InputOps, LoopOps
  <2> QED BY <1>6, <2>1, <2>2
<1>8. \E d \in ToSet(calls) : Cleans(d, NodeItem(n))
  BY <1>6 DEF Cleans
<1>9. \E d \in ToSet(calls) : d.op \in InputOps /\ d.at = n
  BY <1>6
<1>10. D \subseteq D
  OBVIOUS
<1> QED BY <1>1, <1>3, <1>4, <1>5, <1>6, <1>7, <1>8, <1>9, <1>10, WentOn

\* The variables of a node that is looked at are balanced: no call for its inputs
\* has been made yet.
LEMMA VisitedBalanced ==
  ASSUME IInv, SweepInv, Calling("nodes"), NEW n \in Deepest
  PROVE  /\ Balanced(n) /\ \A o \in ToSet(outputs[n]) : o \in Used => o \in Live
         /\ GraphOK /\ origin \in Wirings /\ Reached(origin, Live, Live)
<1>1. n \in Nodes /\ marks = << >> /\ work # << >> /\ Head(work).op = "nodes" /\ n \in Head(work).set
  BY Visited DEF Deepest
<1>2. /\ \A c \in ToSet(Tail(work)) : Apart(Head(work), c)
      /\ ToSet(work) = {Head(work)} \cup ToSet(Tail(work))
      /\ CallsOK(work) /\ GraphOK /\ origin \in Wirings /\ Reached(origin, Live, Live)
      /\ \E D : SweptOK(D, work)
  BY <1>1, Sweeping
<1>3. Balanced(n)
  <2> SUFFICES ASSUME IsPending(n, work) PROVE FALSE
    BY <1>1, <1>2 DEF CallsOK
  <2>1. PICK c \in ToSet(work) : c.op \in InputOps /\ c.at = n
    BY DEF IsPending
  <2>2. c \in ToSet(Tail(work))
    BY <1>1, <1>2, <2>1 DEF InputOps
  <2>3. Apart(Head(work), c)
    BY <1>2, <2>2
  <2> QED BY <1>1, <2>1, <2>3 DEF Apart, Scoped
<1>4. PICK D : SweptOK(D, work)
  BY <1>2
<1>5. \A o \in ToSet(outputs[n]) : o \in Used => o \in Live
  BY <1>4, DeepestUses
<1> QED BY <1>2, <1>3, <1>5

\* The results of a function or of data are needed when it is.
LEMMA ContextClean ==
  ASSUME Shape, origin \in Wirings, Reached(origin, Live, Live), NEW n \in Nodes, Kind[n] \in {"lambda", "delta"},
         ToSet(Outputs[n]) \cap Live # {}
  PROVE  \A q \in ToSet(Subregions[n]) : ResultsClean(q)
<1>1. PICK s \in Live : s \in ToSet(Outputs[n])
  OBVIOUS
<1>2. Feeds[s] = ToSet(Results[Body(n)])
  BY <1>1, OutputFeedsAre
<1>3. ToSet(Subregions[n]) = {Body(n)} /\ Body(n) \in Regions
  BY BodyIs
<1>4. \A u \in ToSet(results[Body(n)]) : u \in FeedsOf(Live)
  BY <1>1, <1>2, <1>3 DEF Shape, FeedsOf
<1> QED BY <1>3, <1>4, MarkedIsClosed DEF ResultsClean

LEMMA UnchangedSweeps ==
  ASSUME IInv, SweepInv, Calling("nodes"), NEW n \in Deepest, alive' = alive, marks' = marks, UNCHANGED graph,
         Kind[n] \in {"lambda", "delta"}, IsAliveNode(n), NEW calls, NEW c, c = Call("context_inputs", n, {}),
         MadeFor(calls, n, c), Then(n, calls)
  PROVE  SweepInv'
<1>1. n \in Nodes /\ Shape /\ nodes' = nodes
  BY Visited DEF graph
<1>2. GraphOK /\ origin \in Wirings /\ Reached(origin, Live, Live)
  BY VisitedBalanced
<1>3. Less /\ Live' = Live /\ GraphOK' /\ \A m \in Nodes : Balanced(m) => Balanced(m)'
  BY <1>2, LessSame
<1>4. ToSet(Outputs[n]) \cap Live # {}
  BY VisitedNeeded
<1>5. \A q \in ToSet(Subregions[n]) : ResultsClean(q)'
  <2>1. \A q \in ToSet(Subregions[n]) : q \in Regions /\ ResultsClean(q)
    BY <1>1, <1>2, <1>4, ContextClean, OwnerIs
  <2> QED BY <1>3, <2>1, CleanStays
<1>6. CallReady(c)'
  <2>1. c.op = "context_inputs" /\ c.at = n
    BY DEF Call
  <2> QED BY <1>1, <1>3, <1>4, <2>1 DEF CallReady, LoopOps
<1>7. \A m \in Nodes : m # n /\ Balanced(m) => Balanced(m)'
  BY <1>3
<1> QED BY <1>1, <1>3, <1>5, <1>6, <1>7, VisitSweeps

LEMMA InputsCall ==
  ASSUME NEW n \in Nodes, NEW op \in InputOps, NEW S \in SUBSET (Everything \cup Members(Inputs))
  PROVE  Call(op, n, S) \in CallType /\ Call(op, n, S).op = op /\ Call(op, n, S).at = n /\ Call(op, n, S).set = S
BY DEF Call, CallType, Ops, InputOps

LEMMA SweepLambdaSweeps ==
  ASSUME IInv, SweepInv, Calling("nodes"), NEW n \in Deepest, SweepLambda(n), alive' = alive, marks' = marks
  PROVE  SweepInv'
<1>1. PICK c : c = Call("context_inputs", n, {})
  OBVIOUS
<1>2. /\ Kind[n] = "lambda" /\ UNCHANGED graph /\ IsAliveNode(n)
      /\ Then(n, SweepRegion(Body(n)) \o << c >>)
  BY <1>1 DEF SweepLambda
<1>3. n \in Nodes
  BY Visited
<1>4. c \in CallType /\ c.op \in InputOps /\ c.at = n
  BY <1>1, <1>3, InputsCall DEF InputOps
<1>5. MadeFor(SweepRegion(Body(n)) \o << c >>, n, c)
  BY <1>2, <1>3, <1>4, BodyMade
<1>6. Kind[n] \in {"lambda", "delta"}
  BY <1>2
<1> QED BY <1>1, <1>2, <1>5, <1>6, UnchangedSweeps

LEMMA SweepDeltaSweeps ==
  ASSUME IInv, SweepInv, Calling("nodes"), NEW n \in Deepest, SweepDelta(n), alive' = alive, marks' = marks
  PROVE  SweepInv'
<1>1. PICK c : c = Call("context_inputs", n, {})
  OBVIOUS
<1>2. /\ Kind[n] = "delta" /\ UNCHANGED graph /\ IsAliveNode(n)
      /\ Then(n, << Call("prune", Body(n), {}), c >>)
  BY <1>1 DEF SweepDelta
<1>3. n \in Nodes
  BY Visited
<1>4. c \in CallType /\ c.op \in InputOps /\ c.at = n
  BY <1>1, <1>3, InputsCall DEF InputOps
<1>5. MadeFor(<< Call("prune", Body(n), {}), c >>, n, c)
  BY <1>2, <1>3, <1>4, DeltaMade
<1>6. Kind[n] \in {"lambda", "delta"}
  BY <1>2
<1> QED BY <1>1, <1>2, <1>5, <1>6, UnchangedSweeps

LEMMA SweepGammaSweeps ==
  ASSUME IInv, SweepInv, Calling("nodes"), NEW n \in Deepest, SweepGamma(n), alive' = alive, marks' = marks,
         Shape', GammaOK'
  PROVE  SweepInv'
<1>1. /\ n \in Nodes /\ Shape /\ GammaOK
      /\ \A o \in ToSet(outputs[n]) : o \in ToSet(Outputs[n]) /\ (IsAlive(o) <=> o \in Live)
  BY Visited DEF GraphInv
<1>2. /\ GraphOK /\ origin \in Wirings /\ Reached(origin, Live, Live)
      /\ \A o \in ToSet(outputs[n]) : o \in Used => o \in Live
  BY VisitedBalanced
<1>3. PICK c : c = Call("gamma_inputs", n, {})
  OBVIOUS
<1>4. c \in CallType /\ c.op \in InputOps /\ c.at = n /\ c.op = "gamma_inputs"
  BY <1>1, <1>3, InputsCall DEF InputOps
<1>5. PICK dead : dead = {o \in ToSet(outputs[n]) : ~IsAlive(o)}
  OBVIOUS
<1>6. /\ Kind[n] = "gamma" /\ IsAliveNode(n)
      /\ Thins(outputs', outputs, n, dead)
      /\ results' = [r \in Regions |-> IF r \in ToSet(Subregions[n])
                                       THEN WithoutAt(results[r], outputs[n], dead)
                                       ELSE results[r]]
      /\ Then(n, SweepRegions(Subregions[n]) \o << c >>)
      /\ nodes' = nodes /\ inputs' = inputs /\ arguments' = arguments /\ origin' = origin
  BY <1>3, <1>5 DEF SweepGamma, Thins
<1>7. \A o \in dead : o \notin Live /\ o \notin Used
  BY <1>1, <1>2, <1>5
<1>8. /\ ToSet(outputs'[n]) = ToSet(outputs[n]) \ dead
      /\ \A m \in Nodes : m # n => outputs'[m] = outputs[m]
      /\ \A m \in Nodes : ToSet(outputs'[m]) \subseteq ToSet(outputs[m])
  <2>1. outputs \in Rows(Nodes, Members(Outputs))
    BY <1>1 DEF Shape, Rows
  <2> QED BY <1>1, <1>6, <2>1, ThinnedIs
<1>9. ToSet(outputs'[n]) \subseteq Live
  BY <1>1, <1>5, <1>8
<1>10. \A r \in Regions : ToSet(results'[r]) \subseteq ToSet(results[r])
  <2> TAKE r \in Regions
  <2>1. CASE r \in ToSet(Subregions[n])
    <3>1. results[r] \in Seq(Members(Results)) /\ outputs[n] \in Seq(Members(Outputs))
      BY <1>1 DEF Shape
    <3>2. Matches(OutputOf, results[r], outputs[n])
      BY <1>1, <1>6, <2>1 DEF GammaOK
    <3>3. IsThinned(results'[r], results[r], outputs[n], dead)
      BY <1>6, <2>1 DEF IsThinned
    <3>4. ToSet(results'[r]) \subseteq ToSet(results[r])
      BY <3>1, <3>2, <3>3, AlignedStill
    <3> QED BY <3>4
  <2>2. CASE r \notin ToSet(Subregions[n])
    BY <1>6, <2>2
  <2> QED BY <2>1, <2>2
<1>11. Less
  BY <1>6, <1>8, <1>10 DEF Less
<1>12. OnlyAt(n)
  BY <1>6, <1>8 DEF OnlyAt
<1>13. n \in nodes
  BY <1>1, <1>6, EmptyIs DEF Shape, IsAliveNode
<1>14. GraphOK' /\ \A m \in Nodes : Balanced(m) => Balanced(m)'
  <2>1. \A s \in ToSet(outputs[n]) \ ToSet(outputs'[n]) : s \notin Used
    BY <1>7, <1>8
  <2>2. \A r \in ToSet(Subregions[n]) : \A s \in ToSet(arguments[r]) \ ToSet(arguments'[r]) : s \notin Used
    BY <1>6
  <2> QED BY <1>1, <1>2, <1>6, <1>11, <1>12, <1>13, <2>1, <2>2, GammaGraph
<1>15. Live' = Live
  BY DEF Live
<1>16. ASSUME NEW q \in ToSet(Subregions[n])
       PROVE  ResultsClean(q)'
  <2>1. q \in Regions /\ ToSet(results'[q]) \subseteq ToSet(Results[q])
    BY <1>1, OwnerIs DEF Shape
  <2>2. results'[q] \in Seq(Members(Results)) /\ outputs'[n] \in Seq(Members(Outputs))
    BY <1>1, <2>1 DEF Shape
  <2>3. Matches(OutputOf, results'[q], outputs'[n])
    BY <1>1, <1>6 DEF GammaOK
  <2>4. ASSUME NEW u \in ToSet(results'[q])
        PROVE  origin'[u] \in Live'
    <3>1. OutputOf[u] \in ToSet(outputs'[n])
      BY <2>2, <2>3, MatchesIs
    <3>2. OutputOf[u] \in Live /\ OutputOf[u] \in ToSet(Outputs[n])
      BY <1>1, <1>8, <1>9, <3>1
    <3>3. Feeds[OutputOf[u]] = {Inputs[n][1]} \cup Giving(n, OutputOf[u])
      BY <1>1, <1>6, <3>2, OutputFeedsAre
    <3>4. u \in Giving(n, OutputOf[u])
      BY <2>1 DEF Giving
    <3>5. u \in FeedsOf(Live)
      BY <3>2, <3>3, <3>4 DEF FeedsOf
    <3> QED BY <1>2, <1>6, <1>15, <3>5, MarkedIsClosed
  <2> QED BY <2>4 DEF ResultsClean
<1>17. CallReady(c)'
  <2>1. ToSet(Outputs[n]) \cap Live # {}
    BY <1>6, VisitedNeeded
  <2> QED BY <1>1, <1>4, <1>9, <1>15, <2>1 DEF CallReady, LoopOps
<1>18. MadeFor(SweepRegions(Subregions[n]) \o << c >>, n, c)
  BY <1>1, <1>4, RegionsMade
<1>19. \A m \in Nodes : m # n /\ Balanced(m) => Balanced(m)'
  BY <1>14
<1> QED BY <1>6, <1>11, <1>14, <1>16, <1>17, <1>18, <1>19, VisitSweeps

\* The elements of a live loop variable: its output is live.
LEMMA LoopLive ==
  ASSUME Shape, Reached(origin, Live, Live), NEW n \in Nodes, Kind[n] = "theta",
         NEW a \in ToSet(arguments[Body(n)]), a \in Live
  PROVE  LoopOutput[InputOf[a]] \in Live
<1>1. a \in ToSet(Arguments[Body(n)])
  BY BodyIs DEF Shape
<1>2. IsLoopArgument(a)
  BY <1>1 DEF IsLoopArgument
<1>3. CallsOf(origin, a) \subseteq Live
  BY DEF Reached, Complete
<1> QED BY <1>2, <1>3 DEF CallsOf

\* Of the outputs of a loop those stay that are live.
LEMMA LoopStays ==
  ASSUME IInv, SweepInv, Calling("nodes"), NEW n \in Deepest, Kind[n] = "theta", NEW o \in ToSet(outputs[n]),
         o \notin Live
  PROVE  ~HasUsers(o) /\ ~IsAlive(LoopArgument(n, o)) /\ ~IsAlive(o)
<1>1. /\ n \in Nodes /\ Shape /\ GraphInv
      /\ \A x \in ToSet(outputs[n]) : x \in ToSet(Outputs[n]) /\ (IsAlive(x) <=> x \in Live)
      /\ \A x \in Members(Arguments) : IsAlive(x) <=> x \in Live
  BY Visited
<1>2. /\ GraphOK /\ origin \in Wirings /\ Reached(origin, Live, Live)
      /\ \A x \in ToSet(outputs[n]) : x \in Used => x \in Live
  BY VisitedBalanced
<1>3. PICK i \in ToSet(inputs[n]) : LoopOutput[i] = o
  BY <1>1 DEF GraphInv, ThetaOK
<1>4. LoopInput(n, o) \in ToSet(inputs[n]) /\ LoopOutput[LoopInput(n, o)] = o
  BY <1>3 DEF LoopInput
<1>5. \E a \in ToSet(arguments[Body(n)]) : InputOf[a] = LoopInput(n, o)
  BY <1>1, <1>2, <1>4 DEF GraphOK, TiedAt
<1>6. LoopArgument(n, o) \in ToSet(arguments[Body(n)]) /\ InputOf[LoopArgument(n, o)] = LoopInput(n, o)
  BY <1>5 DEF LoopArgument
<1>7. LoopArgument(n, o) \notin Live
  BY <1>1, <1>2, <1>4, <1>6, LoopLive
<1>8. LoopArgument(n, o) \in Members(Arguments)
  BY <1>1, <1>6, BodyIs, Places, MemberOf DEF Shape
<1> QED BY <1>1, <1>2, <1>7, <1>8 DEF HasUsers

LEMMA SweepThetaSweeps ==
  ASSUME IInv, SweepInv, Calling("nodes"), NEW n \in Deepest, SweepTheta(n), alive' = alive, marks' = marks,
         Shape'
  PROVE  SweepInv'
<1>1. /\ n \in Nodes /\ Shape /\ GraphInv
      /\ \A o \in ToSet(outputs[n]) : o \in ToSet(Outputs[n]) /\ (IsAlive(o) <=> o \in Live)
  BY Visited
<1>2. /\ GraphOK /\ origin \in Wirings /\ Reached(origin, Live, Live) /\ Balanced(n)
      /\ \A o \in ToSet(outputs[n]) : o \in Used => o \in Live
  BY VisitedBalanced
<1>3. PICK dead : dead = {o \in ToSet(outputs[n]) : ~HasUsers(o) /\ ~IsAlive(LoopArgument(n, o))
                                                     /\ ~IsAlive(o)}
  OBVIOUS
<1>4. PICK c : c = Call("theta_inputs", n, {LoopInput(n, o) : o \in dead})
  OBVIOUS
<1>5. /\ Kind[n] = "theta" /\ RemoveOutputs(n, dead) /\ IsAliveNode(n)
      /\ Then(n, SweepRegion(Body(n)) \o << c >>)
  BY <1>3, <1>4 DEF SweepTheta
<1>6. dead \subseteq ToSet(outputs[n]) /\ \A o \in dead : o \notin Live /\ o \notin Used
  BY <1>1, <1>2, <1>3 DEF HasUsers
<1>7. \A o \in ToSet(outputs[n]) \ dead : o \in Live
  BY <1>3, <1>5, LoopStays
<1>8. \A o \in dead : LoopInput(n, o) \in ToSet(Inputs[n]) /\ LoopOutput[LoopInput(n, o)] = o
  BY <1>1, <1>5, <1>6, LoopVariable
<1>9. Kind[n] \in {"theta", "phi"}
  BY <1>5
<1>10. /\ OnlyAt(n) /\ Less /\ inputs' = inputs /\ arguments' = arguments
       /\ ToSet(outputs'[n]) = ToSet(outputs[n]) \ dead
       /\ \A u \in ToSet(results[Body(n)]) : u \in ToSet(results'[Body(n)]) <=> OutputOf[u] \notin dead
  BY <1>1, <1>5, <1>9, RemoveOutputsIs
<1>11. GraphOK' /\ \A m \in Nodes : m # n /\ Balanced(m) => Balanced(m)'
  <2>1. \A o \in dead : o \notin Used /\ (Kind[n] = "phi" => RecArgument[o] \notin Live)
    BY <1>5, <1>6
  <2> QED BY <1>1, <1>2, <1>5, <1>9, <2>1, RemoveOutputsGraph
<1>12. Live' = Live /\ origin' = origin /\ nodes' = nodes
  BY <1>10 DEF Live, OnlyAt
<1>13. ToSet(Outputs[n]) \cap Live # {}
  BY <1>5, VisitedNeeded
<1>14. c \in CallType /\ c.op = "theta_inputs" /\ c.at = n /\ c.set = {LoopInput(n, o) : o \in dead}
  <2>1. {LoopInput(n, o) : o \in dead} \subseteq Members(Inputs)
    BY <1>1, <1>8, Places, MemberOf
  <2> QED BY <1>1, <1>4, <2>1, InputsCall DEF InputOps
<1>15. CallReady(c)'
  <2>1. ASSUME NEW i \in ToSet(inputs[n])
        PROVE  i \in c.set \/ LoopOutput[i] \in Live
    <3>1. LoopOutput[i] \in ToSet(outputs[n]) /\ i \in ToSet(Inputs[n])
      BY <1>1, <1>2, <1>5 DEF Balanced, Shape
    <3>2. CASE LoopOutput[i] \in dead
      <4>1. LoopInput(n, LoopOutput[i]) = i
        BY <1>1, <1>5, <1>8, <3>1, <3>2, ThetaIs
      <4> QED BY <1>14, <3>2, <4>1
    <3>3. CASE LoopOutput[i] \notin dead
      BY <1>7, <3>1, <3>3
    <3> QED BY <3>2, <3>3
  <2> QED BY <1>1, <1>10, <1>12, <1>13, <1>14, <2>1 DEF CallReady, LoopOps
<1>16. ASSUME NEW q \in ToSet(Subregions[n])
       PROVE  ResultsClean(q)'
  <2>1. q = Body(n) /\ q \in Regions
    BY <1>1, <1>5, BodyIs
  <2>2. ASSUME NEW u \in ToSet(results'[q])
        PROVE  origin'[u] \in Live'
    <3>1. u \in ToSet(results[q]) /\ u \in ToSet(Results[Body(n)]) /\ OutputOf[u] \notin dead
      BY <1>1, <1>10, <2>1 DEF Less, Shape
    <3>2. OutputOf[u] \in ToSet(outputs[n]) \cup {None}
      BY <1>1, <1>2, <3>1 DEF GraphOK, TiedAt
    <3>3. CASE OutputOf[u] = None
      <4>1. PICK s \in Live : s \in ToSet(Outputs[n])
        BY <1>13
      <4>2. PICK i \in ToSet(Inputs[n]) : LoopOutput[i] = s /\ Feeds[s] = LoopFeeds(n, i)
        BY <1>1, <1>5, <4>1, OutputFeedsAre
      <4>3. u = Results[Body(n)][1]
        BY <1>1, <1>5, <3>1, <3>3, ThetaIs
      <4>4. u \in FeedsOf(Live)
        BY <4>1, <4>2, <4>3 DEF LoopFeeds, FeedsOf
      <4> QED BY <1>2, <1>12, <4>4, MarkedIsClosed
    <3>4. CASE OutputOf[u] \in ToSet(outputs[n])
      <4>1. PICK s : s = OutputOf[u]
        OBVIOUS
      <4>2. s \in Live /\ s \in ToSet(Outputs[n])
        BY <1>1, <1>7, <3>1, <3>4, <4>1
      <4>3. PICK i \in ToSet(Inputs[n]) : LoopOutput[i] = s /\ Feeds[s] = LoopFeeds(n, i)
        BY <1>1, <1>5, <4>2, OutputFeedsAre
      <4>4. u \in FeedsOf(Live)
        BY <3>1, <4>1, <4>2, <4>3 DEF LoopFeeds, FeedsOf
      <4> QED BY <1>2, <1>12, <4>4, MarkedIsClosed
    <3> QED BY <3>2, <3>3, <3>4
  <2> QED BY <2>2 DEF ResultsClean
<1>17. MadeFor(SweepRegion(Body(n)) \o << c >>, n, c)
  <2>1. Kind[n] \in {"theta", "lambda", "phi"} /\ c.op \in InputOps
    BY <1>5, <1>14 DEF InputOps
  <2> QED BY <1>1, <1>14, <2>1, BodyMade
<1> QED BY <1>5, <1>10, <1>11, <1>12, <1>15, <1>16, <1>17, VisitSweeps

\* The recursion arguments of different outputs differ.
LEMMA RecursionOnce ==
  ASSUME RecursionFirst, NEW n \in Nodes, Kind[n] = "phi", NEW o \in ToSet(Outputs[n]), NEW p \in ToSet(Outputs[n]),
         RecArgument[o] = RecArgument[p]
  PROVE  o = p
<1>1. Outputs[n] \in Seq(Members(Outputs)) /\ Body(n) \in Regions /\ Arguments[Body(n)] \in Seq(Members(Arguments))
  BY Places, BodyIs
<1>2. PICK j \in DOMAIN Outputs[n] : o = Outputs[n][j]
  BY DEF ToSet
<1>3. PICK k \in DOMAIN Outputs[n] : p = Outputs[n][k]
  BY DEF ToSet
<1>4. /\ j \in DOMAIN Arguments[Body(n)] /\ k \in DOMAIN Arguments[Body(n)]
      /\ Arguments[Body(n)][j] = Arguments[Body(n)][k]
  BY <1>2, <1>3 DEF RecursionFirst
<1>5. j = k
  BY <1>1, <1>4, Places, OneIndex
<1> QED BY <1>2, <1>3, <1>5

LEMMA RecursionTyped ==
  ASSUME NEW n \in Nodes, Kind[n] = "phi", NEW o \in ToSet(Outputs[n])
  PROVE  /\ RecArgument[o] \in ToSet(Arguments[Body(n)]) /\ InputOf[RecArgument[o]] = None
         /\ RecArgument[o] \in Members(Arguments)
<1>1. RecArgument[o] \in ToSet(Arguments[Body(n)]) /\ InputOf[RecArgument[o]] = None
  BY PhiIs
<1> QED BY <1>1, BodyIs, Places, MemberOf

LEMMA SweepPhiSweeps ==
  ASSUME IInv, SweepInv, RecursionFirst, Calling("nodes"), NEW n \in Deepest, SweepPhi(n), alive' = alive,
         marks' = marks, Shape'
  PROVE  SweepInv'
<1>1. /\ n \in Nodes /\ Shape /\ GraphInv
      /\ \A o \in ToSet(outputs[n]) : o \in ToSet(Outputs[n]) /\ (IsAlive(o) <=> o \in Live)
      /\ \A x \in Members(Arguments) : IsAlive(x) <=> x \in Live
  BY Visited
<1>2. /\ GraphOK /\ origin \in Wirings /\ Reached(origin, Live, Live) /\ Balanced(n)
      /\ \A o \in ToSet(outputs[n]) : o \in Used => o \in Live
  BY VisitedBalanced
<1>3. PICK dead : dead = {o \in ToSet(outputs[n]) : ~HasUsers(o) /\ ~IsAlive(o)
                                                     /\ ~IsAlive(RecArgument[o])}
  OBVIOUS
<1>4. PICK c : c = Call("phi_arguments", n, {RecArgument[o] : o \in dead})
  OBVIOUS
<1>5. /\ Kind[n] = "phi" /\ RemoveOutputs(n, dead) /\ IsAliveNode(n)
      /\ Then(n, SweepRegion(Body(n)) \o << c >>)
  BY <1>3, <1>4 DEF SweepPhi
<1>6. \A o \in ToSet(Outputs[n]) : /\ RecArgument[o] \in Members(Arguments)
                                   /\ RecArgument[o] \in ToSet(Arguments[Body(n)]) /\ InputOf[RecArgument[o]] = None
  BY <1>1, <1>5, RecursionTyped
<1>7. /\ dead \subseteq ToSet(outputs[n]) /\ dead \subseteq ToSet(Outputs[n])
      /\ \A o \in dead : o \notin Live /\ o \notin Used /\ RecArgument[o] \notin Live
  BY <1>1, <1>2, <1>3, <1>6 DEF HasUsers
<1>8. \A o \in ToSet(outputs[n]) \ dead : RecursionLive(o)
  BY <1>1, <1>2, <1>3, <1>6 DEF HasUsers, RecursionLive
<1>9. Kind[n] \in {"theta", "phi"}
  BY <1>5
<1>10. /\ OnlyAt(n) /\ Less /\ inputs' = inputs /\ arguments' = arguments
       /\ ToSet(outputs'[n]) = ToSet(outputs[n]) \ dead
       /\ \A u \in ToSet(results[Body(n)]) : u \in ToSet(results'[Body(n)]) <=> OutputOf[u] \notin dead
  BY <1>1, <1>5, <1>9, RemoveOutputsIs
<1>11. GraphOK' /\ \A m \in Nodes : m # n /\ Balanced(m) => Balanced(m)'
  <2>1. \A o \in dead : o \notin Used /\ (Kind[n] = "phi" => RecArgument[o] \notin Live)
    BY <1>7
  <2> QED BY <1>1, <1>2, <1>5, <1>9, <2>1, RemoveOutputsGraph
<1>12. Live' = Live /\ origin' = origin /\ nodes' = nodes
  BY <1>10 DEF Live, OnlyAt
<1>13. ToSet(Outputs[n]) \cap Live # {}
  BY <1>5, VisitedNeeded
<1>14. c \in CallType /\ c.op = "phi_arguments" /\ c.at = n /\ c.set = {RecArgument[o] : o \in dead}
  <2>1. {RecArgument[o] : o \in dead} \subseteq Everything
    BY <1>6, <1>7 DEF Everything
  <2> QED BY <1>1, <1>4, <2>1, InputsCall DEF InputOps
<1>15. \A o : RecursionLive(o)' <=> RecursionLive(o)
  BY <1>12 DEF RecursionLive
<1>16. CallReady(c)'
  <2>1. \A o \in ToSet(outputs'[n]) : RecursionLive(o)' /\ RecArgument[o] \notin c.set
    <3> TAKE o \in ToSet(outputs'[n])
    <3>1. o \in ToSet(outputs[n]) \ dead /\ o \in ToSet(Outputs[n])
      BY <1>1, <1>10
    <3>2. RecArgument[o] \notin c.set
      <4> SUFFICES ASSUME RecArgument[o] \in c.set PROVE FALSE
        OBVIOUS
      <4>1. PICK p \in dead : RecArgument[o] = RecArgument[p]
        BY <1>14
      <4>2. o = p
        BY <1>1, <1>5, <1>7, <3>1, <4>1, RecursionOnce
      <4> QED BY <3>1, <4>2
    <3> QED BY <1>8, <1>15, <3>1, <3>2
  <2>2. \A o \in ToSet(Outputs[n]) :
          RecArgument[o] \in ToSet(arguments'[Body(n)]) => RecArgument[o] \in c.set \/ RecursionLive(o)'
    <3> SUFFICES ASSUME NEW o \in ToSet(Outputs[n]), RecArgument[o] \in ToSet(arguments'[Body(n)])
                 PROVE  RecArgument[o] \in c.set \/ RecursionLive(o)'
      OBVIOUS
    <3>1. o \in ToSet(outputs[n])
      BY <1>2, <1>5, <1>10 DEF Balanced
    <3> QED BY <1>8, <1>14, <1>15, <3>1
  <2> QED BY <1>1, <1>12, <1>13, <1>14, <2>1, <2>2 DEF CallReady, LoopOps
<1>17. ASSUME NEW q \in ToSet(Subregions[n])
       PROVE  ResultsClean(q)'
  <2>1. q = Body(n) /\ q \in Regions
    BY <1>1, <1>5, BodyIs
  <2>2. ASSUME NEW u \in ToSet(results'[q])
        PROVE  origin'[u] \in Live'
    <3>1. u \in ToSet(results[q]) /\ u \in ToSet(Results[q]) /\ OutputOf[u] \notin dead
      BY <1>1, <1>10, <2>1 DEF Less, Shape
    <3>2. PICK s : s = OutputOf[u]
      OBVIOUS
    <3>3. s \in ToSet(outputs[n]) /\ s \in ToSet(Outputs[n])
      <4>1. OutputOf[u] \in ToSet(outputs[n]) \cup {None}
        BY <1>1, <1>2, <3>1 DEF GraphOK, TiedAt
      <4>2. OutputOf[u] \in ToSet(Outputs[n])
        BY <1>1, <1>5, <2>1, <3>1, PhiIs
      <4>3. None \notin ToSet(Outputs[n])
        BY <1>1, OwnershipAssumption, Places, MemberOf
      <4> QED BY <3>2, <4>1, <4>2, <4>3
    <3>4. RecursionLive(s)
      BY <1>8, <3>1, <3>2, <3>3
    <3>5. u \in Giving(n, s)
      BY <3>1, <3>2 DEF Giving
    <3>6. u \in FeedsOf(Live)
      <4>1. CASE s \in Live
        <5>1. Feeds[s] = Giving(n, s)
          BY <1>1, <1>5, <3>3, OutputFeedsAre
        <5> QED BY <3>5, <4>1, <5>1 DEF FeedsOf
      <4>2. CASE RecArgument[s] \in Live
        <5>1. Giving(n, s) \subseteq Feeds[RecArgument[s]]
          BY <1>1, <1>5, <1>6, <2>1, <3>3, ArgumentFeedsAre
        <5> QED BY <3>5, <4>2, <5>1 DEF FeedsOf
      <4> QED BY <3>4, <4>1, <4>2 DEF RecursionLive
    <3> QED BY <1>2, <1>12, <3>6, MarkedIsClosed
  <2> QED BY <2>2 DEF ResultsClean
<1>18. MadeFor(SweepRegion(Body(n)) \o << c >>, n, c)
  <2>1. Kind[n] \in {"theta", "lambda", "phi"} /\ c.op \in InputOps
    BY <1>5, <1>14 DEF InputOps
  <2> QED BY <1>1, <1>14, <2>1, BodyMade
<1> QED BY <1>5, <1>10, <1>11, <1>12, <1>16, <1>17, <1>18, VisitSweeps

\* When the call for the inputs of node n is made its regions have been swept: an
\* argument that still has a user is live.
LEMMA InputsCalled ==
  ASSUME IInv, SweepInv, NEW op \in InputOps, Calling(op), NEW n, n = Head(work).at
  PROVE  /\ n \in Nodes /\ ToSet(Outputs[n]) \cap Live # {}
         /\ CallReady(Head(work)) /\ GraphOK /\ Shape /\ Kept /\ GraphInv
         /\ origin \in Wirings /\ Reached(origin, Live, Live)
         /\ \A q \in ToSet(Subregions[n]) : \A s \in ToSet(arguments[q]) : HasUsers(s) => s \in Live
<1>1. marks = << >> /\ work # << >> /\ Head(work).op = op /\ GraphInv /\ Shape /\ Kept
  BY Called
<1>2. /\ work \in Seq(CallType) /\ CallReady(Head(work)) /\ GraphOK
      /\ origin \in Wirings /\ Reached(origin, Live, Live) /\ \E D : SweptOK(D, work)
  BY <1>1, Sweeping
<1>3. n \in Nodes /\ ToSet(Outputs[n]) \cap Live # {}
  BY <1>1, <1>2 DEF CallReady
<1>4. ASSUME NEW q \in ToSet(Subregions[n]), NEW s \in ToSet(arguments[q]), HasUsers(s)
      PROVE  s \in Live
  <2>1. q \in Regions
    BY <1>3, OwnerIs
  <2>2. PICK D : SweptOK(D, work)
    BY <1>2
  <2>3. RegionItem(q) \in Items /\ Relies(Head(work), RegionItem(q))
    BY <1>1, <2>1, ItemsApart DEF Relies
  <2>4. RegionItem(q) \in D
    BY <1>1, <1>2, <2>2, <2>3, HeadRelies
  <2>5. Swept(D)
    BY <2>2 DEF SweptOK
  <2>6. s \in SourcesIn(q)
    BY <1>1, <2>1, SourceRegion DEF Shape
  <2> QED BY <1>1, <1>2, <1>4, <2>1, <2>4, <2>5, <2>6, SweptUses DEF HasUsers
<1> QED BY <1>1, <1>2, <1>3, <1>4

\* And then the node is swept with them.
LEMMA InputsSweep ==
  ASSUME IInv, SweepInv, NEW op \in InputOps, Calling(op), NEW n \in Nodes, n = Head(work).at,
         Returning, marks' = marks, nodes' = nodes, Less, GraphOK', NodeSwept(n)', Balanced(n)',
         \A m \in Nodes : m # n /\ Balanced(m) => Balanced(m)'
  PROVE  SweepInv'
<1>1. marks = << >> /\ marks' = << >> /\ work # << >> /\ Head(work).op = op /\ Shape /\ work' = Tail(work)
  BY Called DEF Returning
<1>2. work \in Seq(CallType) /\ \E D : SweptOK(D, work)
  BY <1>1, Sweeping
<1>3. PICK D : SweptOK(D, work)
  BY <1>2
<1> DEFINE E == D \cup {NodeItem(n)}
<1>4. Swept(D) /\ nodes \subseteq Nodes /\ D \subseteq E
  BY <1>1, <1>3 DEF SweptOK, Shape
<1>5. \A q \in ToSet(Subregions[n]) : RegionItem(q) \in E
  <2> TAKE q \in ToSet(Subregions[n])
  <2>1. q \in Regions
    BY OwnerIs
  <2>2. RegionItem(q) \in Items /\ Relies(Head(work), RegionItem(q))
    BY <1>1, <2>1, ItemsApart DEF Relies
  <2>3. RegionItem(q) \in D
    BY <1>1, <1>2, <1>3, <2>2, HeadRelies
  <2> QED BY <2>3
<1>6. Swept(E)'
  <2>1. \A m \in Nodes \ nodes' : NodeItem(m) \in E
    BY <1>4 DEF Swept
  <2>2. \A m \in nodes' : NodeItem(m) \in E \ D =>
          NodeSwept(m)' /\ \A q \in ToSet(Subregions[m]) : RegionItem(q) \in E
    <3> SUFFICES ASSUME NEW m \in nodes', NodeItem(m) \in E \ D
                 PROVE  NodeSwept(m)' /\ \A q \in ToSet(Subregions[m]) : RegionItem(q) \in E
      OBVIOUS
    <3>1. m = n
      BY ItemsApart
    <3> HIDE DEF E
    <3> QED BY <1>5, <3>1
  <2>3. \A r \in Regions : RegionItem(r) \in E \ D => ResultsClean(r)' /\ \A m \in NodesOf(r) : NodeItem(m) \in E
    BY ItemsApart
  <2> HIDE DEF E
  <2> QED BY <1>4, <2>1, <2>2, <2>3, SweptStays
<1>7. NodeItem(n) \in E
  OBVIOUS
<1> HIDE DEF E
<1>8. \A x \in Items : Cleans(Head(work), x) => x \in E
  BY <1>1, <1>7 DEF Cleans, InputOps, LoopOps
<1>9. \A m \in Nodes : Balanced(m) \/ (Head(work).op \in InputOps /\ Head(work).at = m) => Balanced(m)'
  OBVIOUS
<1>10. Head(work).op \in {"run", "imports"} => RootSwept(E)'
  BY <1>1 DEF InputOps
<1> QED BY <1>1, <1>3, <1>4, <1>6, <1>8, <1>9, <1>10, Returned

LEMMA GammaInputsSweeps ==
  ASSUME IInv, SweepInv, GammaInputs, Shape', GammaOK'
  PROVE  SweepInv'
<1>0. PICK n : n = Head(work).at
  OBVIOUS
<1>1. Calling("gamma_inputs") /\ Returning /\ alive' = alive /\ marks' = marks /\ origin' = origin
  BY DEF GammaInputs
<1>2. "gamma_inputs" \in InputOps
  BY DEF InputOps
<1>3. /\ n \in Nodes /\ ToSet(Outputs[n]) \cap Live # {}
      /\ CallReady(Head(work)) /\ GraphOK /\ Shape /\ Kept /\ GammaOK
      /\ origin \in Wirings /\ Reached(origin, Live, Live)
      /\ \A q \in ToSet(Subregions[n]) : \A s \in ToSet(arguments[q]) : HasUsers(s) => s \in Live
  BY <1>0, <1>1, <1>2, InputsCalled DEF GraphInv
<1>4. Kind[n] = "gamma" /\ ToSet(outputs[n]) \subseteq Live
  <2>1. CallOK(Head(work)) /\ Head(work).op = "gamma_inputs"
    BY <1>1, Called
  <2> QED BY <1>0, <1>3, <2>1 DEF CallOK, CallReady
<1>5. PICK dead : dead = {i \in ToSet(Tail(inputs[n])) :
                            \A a \in Members(arguments) : InputOf[a] = i => ~IsAlive(a)}
  OBVIOUS
<1>6. /\ inputs' = [inputs EXCEPT ![n] = << Head(@) >> \o Without(Tail(inputs[n]), dead)]
      /\ arguments' = [r \in Regions |-> IF r \in ToSet(Subregions[n])
                                         THEN WithoutAt(arguments[r], Tail(inputs[n]), dead)
                                         ELSE arguments[r]]
      /\ nodes' = nodes /\ outputs' = outputs /\ results' = results
  BY <1>0, <1>5 DEF GammaInputs
<1>7. n \in nodes
  <2>1. ToSet(outputs[n]) # {}
    BY <1>3 DEF Kept
  <2> QED BY <1>3, <2>1, EmptyIs DEF Shape
<1>8. /\ inputs[n] \in Seq(Members(Inputs)) /\ inputs[n] # << >> /\ Tail(inputs[n]) \in Seq(Members(Inputs))
      /\ Head(inputs[n]) \in Members(Inputs)
      /\ ToSet(inputs[n]) = {Head(inputs[n])} \cup ToSet(Tail(inputs[n]))
      /\ ToSet(Tail(inputs[n])) \subseteq ToSet(Tail(Inputs[n]))
  <2>1. inputs[n] \in Seq(Members(Inputs)) /\ inputs[n] # << >> /\ ToSet(Tail(inputs[n])) \subseteq ToSet(Tail(Inputs[n]))
    BY <1>3, <1>4, <1>7 DEF Shape, GammaOK
  <2> QED BY <2>1, HeadTail
<1>9. ToSet(inputs'[n]) = {Head(inputs[n])} \cup (ToSet(Tail(inputs[n])) \ dead)
  <2>1. PICK e : e = Tail(inputs[n])
    OBVIOUS
  <2>2. e \in Seq(Members(Inputs))
    BY <1>8, <2>1
  <2>3. PICK t : t = Without(e, dead)
    OBVIOUS
  <2>4. Without(e, dead) \in Seq(Members(Inputs)) /\ ToSet(Without(e, dead)) = ToSet(e) \ dead
    BY <2>2, WithoutIs
  <2>5. inputs'[n] = << Head(inputs[n]) >> \o t
    BY <1>3, <1>6, <2>1, <2>3 DEF Shape
  <2>6. ToSet(<< Head(inputs[n]) >> \o t) = {Head(inputs[n])} \cup ToSet(t)
    BY <1>8, <2>3, <2>4, ConsIs
  <2> QED BY <2>1, <2>3, <2>4, <2>5, <2>6
<1>10. PICK s \in Live : s \in ToSet(Outputs[n])
  BY <1>3
<1>11. Inputs[n][1] \in FeedsOf(Live)
  <2>1. Feeds[s] = {Inputs[n][1]} \cup Giving(n, s)
    BY <1>3, <1>4, <1>10, OutputFeedsAre
  <2> QED BY <1>10, <2>1 DEF FeedsOf
<1>12. Head(inputs[n]) = Inputs[n][1] /\ Inputs[n][1] \notin ToSet(Tail(Inputs[n]))
  <2>1. Inputs[n][1] \in ToSet(Inputs[n]) /\ Inputs[n][1] \notin ToSet(Tail(Inputs[n]))
    BY <1>3, <1>4, GammaIs
  <2>2. Inputs[n][1] \in ToSet(inputs[n])
    BY <1>3, <1>11, <2>1 DEF Kept, Fed
  <2> QED BY <1>8, <2>1, <2>2
<1>13. ASSUME NEW i \in ToSet(Tail(inputs[n])) \ dead
       PROVE  (\E a \in Live : StandsFor(a, i, n)) /\ i \in FeedsOf(Live)
  <2>1. PICK a \in Members(arguments) : InputOf[a] = i /\ IsAlive(a)
    BY <1>5, <1>13
  <2>2. PICK r \in Regions : a \in ToSet(arguments[r])
    BY <1>3, <2>1, PlaceOf DEF Shape
  <2>3. a \in ToSet(Arguments[r]) /\ a \in Members(Arguments)
    BY <1>3, <2>2, Places, MemberOf DEF Shape
  <2>4. a \in Live
    BY <1>3, <2>1, <2>3, AliveIs
  <2>5. i \in ToSet(Inputs[n]) /\ i # None
    <3>1. i \in ToSet(Inputs[n])
      BY <1>3, <1>8 DEF Shape
    <3> QED BY <1>3, <3>1, OwnershipAssumption, Places, MemberOf
  <2>6. r \in ToSet(Subregions[n])
    BY <1>3, <2>1, <2>2, <2>3, <2>5, ArgumentPlace
  <2>7. Feeds[a] = {InputOf[a]}
    BY <1>3, <1>4, <2>1, <2>3, <2>5, <2>6, ArgumentFeedsAre
  <2> QED BY <2>1, <2>3, <2>4, <2>6, <2>7 DEF StandsFor, FeedsOf
<1>14. /\ \A m \in Nodes : m # n => inputs'[m] = inputs[m]
       /\ ToSet(inputs'[n]) \subseteq ToSet(inputs[n])
  BY <1>6, <1>8, <1>9
<1>15. \A r \in ToSet(Subregions[n]) :
         /\ ToSet(arguments'[r]) \subseteq ToSet(arguments[r])
         /\ \A a \in ToSet(arguments[r]) \ ToSet(arguments'[r]) : InputOf[a] \in dead
  <2> TAKE r \in ToSet(Subregions[n])
  <2>1. r \in Regions
    BY <1>3, OwnerIs
  <2>2. arguments[r] \in Seq(Members(Arguments)) /\ Matches(InputOf, arguments[r], Tail(inputs[n]))
    BY <1>3, <1>4, <1>7, <2>1 DEF Shape, GammaOK
  <2>3. IsThinned(arguments'[r], arguments[r], Tail(inputs[n]), dead)
    BY <1>6, <2>1 DEF IsThinned
  <2>4. /\ ToSet(arguments'[r]) \subseteq ToSet(arguments[r])
        /\ \A a \in ToSet(arguments[r]) \ ToSet(arguments'[r]) : InputOf[a] \in dead
    BY <1>8, <2>2, <2>3, AlignedStill
  <2> QED BY <2>4
<1>16. OnlyAt(n)
  BY <1>1, <1>6, <1>14 DEF OnlyAt
<1>17. Less
  <2>1. \A r \in Regions : ToSet(arguments'[r]) \subseteq ToSet(arguments[r])
    BY <1>15, <1>16 DEF OnlyAt
  <2>2. \A m \in Nodes : ToSet(inputs'[m]) \subseteq ToSet(inputs[m])
    BY <1>14
  <2> QED BY <1>1, <1>6, <2>1, <2>2 DEF Less
<1>18. \A r \in ToSet(Subregions[n]) : \A a \in ToSet(arguments[r]) \ ToSet(arguments'[r]) : a \notin Used
  <2> SUFFICES ASSUME NEW r \in ToSet(Subregions[n]), NEW a \in ToSet(arguments[r]) \ ToSet(arguments'[r]), a \in Used
               PROVE  FALSE
    OBVIOUS
  <2>1. a \in Live
    BY <1>3 DEF HasUsers
  <2>2. r \in Regions /\ DOMAIN arguments = Regions
    BY <1>3, OwnerIs DEF Shape
  <2>3. a \in Members(arguments) /\ a \in Members(Arguments)
    BY <1>3, <2>2, Places, MemberOf DEF Shape
  <2>4. ~IsAlive(a)
    BY <1>5, <1>15, <2>3
  <2> QED BY <1>3, <2>1, <2>3, <2>4, AliveIs
<1>19. GraphOK' /\ \A m \in Nodes : Balanced(m) => Balanced(m)'
  <2>1. \A o \in ToSet(outputs[n]) \ ToSet(outputs'[n]) : o \notin Used
    BY <1>6
  <2> QED BY <1>1, <1>3, <1>4, <1>7, <1>16, <1>17, <1>18, <2>1, GammaGraph
<1>20. Live' = Live
  BY <1>1 DEF Live
<1>21. NodeSwept(n)'
  <2>1. NodeClean(n)'
    <3> SUFFICES ASSUME NEW u \in ToSet(inputs'[n]) PROVE origin'[u] \in Live'
      BY DEF NodeClean
    <3>1. u \in FeedsOf(Live)
      BY <1>9, <1>11, <1>12, <1>13
    <3> QED BY <1>1, <1>3, <1>20, <3>1, MarkedIsClosed
  <2>2. \A i \in ToSet(inputs'[n]) \cap ToSet(Tail(Inputs[n])) : \E a \in Live' : StandsFor(a, i, n)
    BY <1>9, <1>12, <1>13, <1>20
  <2> QED BY <1>3, <1>4, <1>6, <1>20, <2>1, <2>2 DEF NodeSwept
<1>22. Balanced(n)' /\ \A m \in Nodes : m # n /\ Balanced(m) => Balanced(m)'
  BY <1>4, <1>19 DEF Balanced
<1> QED BY <1>0, <1>1, <1>2, <1>3, <1>6, <1>17, <1>19, <1>21, <1>22, InputsSweep

\* An input that stays has an argument that stays.
LEMMA LeftArgument ==
  ASSUME Shape, GraphOK, alive' = alive, NEW n \in Nodes, Kind[n] \in {"theta", "lambda", "delta", "phi"},
         NEW dead, RemoveInputs(n, dead), NEW i \in ToSet(inputs'[n])
  PROVE  i \in ToSet(inputs[n]) /\ \E a \in ToSet(arguments[Body(n)]) \ dead : InputOf[a] = i
<1>1. ToSet(inputs'[n]) = ToSet(inputs[n]) \ {InputOf[a] : a \in dead}
  BY RemoveInputsIs
<1>2. \A j \in ToSet(inputs[n]) : \E a \in ToSet(arguments[Body(n)]) : InputOf[a] = j
  BY DEF GraphOK, TiedAt
<1> QED BY <1>1, <1>2

\* The unused arguments `dead` of the one region of node n go, and their inputs.
LEMMA BodyInputsSweep ==
  ASSUME IInv, SweepInv, NEW op \in InputOps, Calling(op), NEW n \in Nodes, n = Head(work).at,
         Kind[n] \in {"theta", "lambda", "delta", "phi"}, NEW dead, RemoveInputs(n, dead),
         Returning, alive' = alive, marks' = marks, Shape',
         dead \subseteq ToSet(arguments[Body(n)]), \A a \in dead : ~HasUsers(a),
         Kind[n] = "phi" => \A o \in ToSet(outputs[n]) : RecArgument[o] \notin dead,
         \A u \in ToSet(inputs'[n]) : u \in FeedsOf(Live),
         NodeClean(n)' => NodeSwept(n)', Balanced(n)'
  PROVE  SweepInv'
<1>1. Shape /\ GraphOK /\ origin \in Wirings /\ Reached(origin, Live, Live)
  BY InputsCalled
<1>2. GraphOK' /\ \A m \in Nodes : m # n /\ Balanced(m) => Balanced(m)'
  BY <1>1, RemoveInputsGraph DEF HasUsers
<1>3. Less /\ OnlyAt(n)
  BY <1>1, RemoveInputsIs
<1>4. nodes' = nodes /\ origin' = origin
  BY <1>3 DEF OnlyAt
<1>5. NodeClean(n)'
  <2>1. Live' = Live
    BY DEF Live
  <2>2. \A u \in ToSet(inputs'[n]) : origin[u] \in Live
    BY <1>1, MarkedIsClosed
  <2> QED BY <1>4, <2>1, <2>2 DEF NodeClean
<1> QED BY <1>2, <1>3, <1>4, <1>5, InputsSweep

LEMMA ThetaInputsSweeps ==
  ASSUME IInv, SweepInv, ThetaInputs, Shape'
  PROVE  SweepInv'
<1>0. PICK c : c = Head(work)
  OBVIOUS
<1>00. PICK n : n = c.at
  OBVIOUS
<1>1. Calling("theta_inputs") /\ Returning /\ alive' = alive /\ marks' = marks
  BY DEF ThetaInputs
<1>2. "theta_inputs" \in InputOps
  BY DEF InputOps
<1>3. /\ n \in Nodes /\ ToSet(Outputs[n]) \cap Live # {}
      /\ CallReady(c) /\ GraphOK /\ Shape /\ Kept /\ GraphInv
      /\ origin \in Wirings /\ Reached(origin, Live, Live)
      /\ \A q \in ToSet(Subregions[n]) : \A s \in ToSet(arguments[q]) : HasUsers(s) => s \in Live
  BY <1>0, <1>00, <1>1, <1>2, InputsCalled
<1>4. Kind[n] = "theta" /\ \A i \in ToSet(inputs[n]) : i \in c.set \/ LoopOutput[i] \in Live
  <2>1. CallOK(c) /\ c.op = "theta_inputs"
    BY <1>0, <1>1, Called
  <2> QED BY <1>00, <1>3, <2>1 DEF CallOK, CallReady
<1>5. PICK dead : dead = {a \in ToSet(arguments[Body(n)]) : ~HasUsers(a) /\ InputOf[a] \in c.set}
  OBVIOUS
<1>6. RemoveInputs(n, dead)
  BY <1>0, <1>00, <1>5 DEF ThetaInputs
<1>7. /\ outputs' = outputs /\ Live' = Live
  BY <1>1, <1>6 DEF RemoveInputs, Live
<1>8. Kind[n] \in {"theta", "lambda", "delta", "phi"}
  BY <1>4
<1>9. ASSUME NEW i \in ToSet(inputs'[n])
      PROVE  LoopOutput[i] \in Live /\ i \in ToSet(Inputs[n])
  <2>1. PICK a \in ToSet(arguments[Body(n)]) \ dead : InputOf[a] = i
    BY <1>1, <1>3, <1>6, <1>8, <1>9, LeftArgument
  <2>2. i \in ToSet(inputs[n]) /\ i \in ToSet(Inputs[n])
    BY <1>1, <1>3, <1>6, <1>8, <1>9, LeftArgument DEF Shape
  <2>3. CASE LoopOutput[i] \in Live
    BY <2>2, <2>3
  <2>4. CASE i \in c.set
    <3>1. HasUsers(a)
      BY <1>5, <2>1, <2>4
    <3>2. a \in Live
      BY <1>3, <1>8, <2>1, <3>1, BodyIs
    <3> QED BY <1>3, <1>4, <2>1, <2>2, <3>2, LoopLive
  <2> QED BY <1>4, <2>2, <2>3, <2>4
<1>10. \A i \in ToSet(inputs'[n]) : i \in FeedsOf(Live)
  <2> TAKE i \in ToSet(inputs'[n])
  <2>1. LoopOutput[i] \in Live /\ i \in ToSet(Inputs[n]) /\ LoopOutput[i] \in ToSet(Outputs[n])
    BY <1>3, <1>4, <1>9, ThetaIs
  <2>2. PICK j \in ToSet(Inputs[n]) : LoopOutput[j] = LoopOutput[i] /\ Feeds[LoopOutput[i]] = LoopFeeds(n, j)
    BY <1>3, <1>4, <2>1, OutputFeedsAre
  <2>3. j = i
    BY <1>3, <1>4, <2>1, <2>2, ThetaIs
  <2> QED BY <2>1, <2>2, <2>3 DEF FeedsOf, LoopFeeds
<1>11. NodeClean(n)' => NodeSwept(n)'
  BY <1>3, <1>4, <1>7, <1>9 DEF NodeSwept
<1>12. Balanced(n)'
  <2>1. \A i \in ToSet(inputs'[n]) : LoopOutput[i] \in ToSet(outputs'[n])
    BY <1>3, <1>4, <1>7, <1>9, ThetaIs DEF Kept
  <2> QED BY <1>4, <2>1 DEF Balanced
<1> QED BY <1>0, <1>00, <1>1, <1>2, <1>3, <1>4, <1>5, <1>6, <1>8, <1>10, <1>11, <1>12, BodyInputsSweep

LEMMA ContextInputsSweeps ==
  ASSUME IInv, SweepInv, ContextInputs, Shape'
  PROVE  SweepInv'
<1>0. PICK c : c = Head(work)
  OBVIOUS
<1>00. PICK n : n = c.at
  OBVIOUS
<1>1. Calling("context_inputs") /\ Returning /\ alive' = alive /\ marks' = marks
  BY DEF ContextInputs
<1>2. "context_inputs" \in InputOps
  BY DEF InputOps
<1>3. /\ n \in Nodes /\ ToSet(Outputs[n]) \cap Live # {}
      /\ CallReady(c) /\ GraphOK /\ Shape /\ Kept /\ GraphInv
      /\ origin \in Wirings /\ Reached(origin, Live, Live)
      /\ \A q \in ToSet(Subregions[n]) : \A s \in ToSet(arguments[q]) : HasUsers(s) => s \in Live
  BY <1>0, <1>00, <1>1, <1>2, InputsCalled
<1>4. Kind[n] \in {"lambda", "delta"}
  <2>1. CallOK(c) /\ c.op = "context_inputs"
    BY <1>0, <1>1, Called
  <2> QED BY <1>00, <1>3, <2>1 DEF CallOK
<1>5. PICK dead : dead = {a \in ToSet(arguments[Body(n)]) : ~HasUsers(a) /\ InputOf[a] # None}
  OBVIOUS
<1>6. RemoveInputs(n, dead)
  BY <1>0, <1>00, <1>5 DEF ContextInputs
<1>7. outputs' = outputs /\ Live' = Live
  BY <1>1, <1>6 DEF RemoveInputs, Live
<1>8. Kind[n] \in {"theta", "lambda", "delta", "phi"}
  BY <1>4
<1>9. \A a \in ToSet(arguments[Body(n)]) \ dead : InputOf[a] # None => a \in Live /\ Feeds[a] = {InputOf[a]}
  <2> TAKE a \in ToSet(arguments[Body(n)]) \ dead
  <2> HAVE InputOf[a] # None
  <2>1. HasUsers(a)
    BY <1>5
  <2>2. Body(n) \in ToSet(Subregions[n]) /\ Body(n) \in Regions
    BY <1>3, <1>8, BodyIs
  <2>3. a \in ToSet(Arguments[Body(n)])
    BY <1>3, <2>2 DEF Shape
  <2>4. Kind[n] # "theta"
    BY <1>4
  <2> QED BY <1>3, <2>1, <2>2, <2>3, <2>4, ArgumentFeedsAre
<1>10. \A i \in ToSet(inputs'[n]) : i \in FeedsOf(Live)
  <2> TAKE i \in ToSet(inputs'[n])
  <2>1. PICK a \in ToSet(arguments[Body(n)]) \ dead : InputOf[a] = i
    BY <1>1, <1>3, <1>6, <1>8, LeftArgument
  <2>2. i # None
    <3>1. i \in ToSet(Inputs[n])
      BY <1>1, <1>3, <1>6, <1>8, LeftArgument DEF Shape
    <3> QED BY <1>3, <3>1, OwnershipAssumption, Places, MemberOf
  <2> QED BY <1>9, <2>1, <2>2 DEF FeedsOf
<1>11. NodeClean(n)' => NodeSwept(n)'
  <2>1. ToSet(arguments'[Body(n)]) = ToSet(arguments[Body(n)]) \ dead
    BY <1>1, <1>3, <1>6, <1>8, RemoveInputsIs
  <2> QED BY <1>3, <1>4, <1>7, <1>9, <2>1 DEF NodeSwept
<1>12. Balanced(n)'
  BY <1>4 DEF Balanced
<1>13. Kind[n] # "phi"
  BY <1>4
<1> QED BY <1>0, <1>00, <1>1, <1>2, <1>3, <1>5, <1>6, <1>8, <1>10, <1>11, <1>12, <1>13, BodyInputsSweep

LEMMA PhiArgumentsSweeps ==
  ASSUME IInv, SweepInv, PhiArguments, Shape'
  PROVE  SweepInv'
<1>0. PICK c : c = Head(work)
  OBVIOUS
<1>00. PICK n : n = c.at
  OBVIOUS
<1>1. Calling("phi_arguments") /\ Returning /\ alive' = alive /\ marks' = marks
  BY DEF PhiArguments
<1>2. "phi_arguments" \in InputOps
  BY DEF InputOps
<1>3. /\ n \in Nodes /\ ToSet(Outputs[n]) \cap Live # {}
      /\ CallReady(c) /\ GraphOK /\ Shape /\ Kept /\ GraphInv
      /\ origin \in Wirings /\ Reached(origin, Live, Live)
      /\ \A q \in ToSet(Subregions[n]) : \A s \in ToSet(arguments[q]) : HasUsers(s) => s \in Live
  BY <1>0, <1>00, <1>1, <1>2, InputsCalled
<1>4. /\ Kind[n] = "phi"
      /\ \A o \in ToSet(outputs[n]) : RecursionLive(o) /\ RecArgument[o] \notin c.set
      /\ \A o \in ToSet(Outputs[n]) :
           RecArgument[o] \in ToSet(arguments[Body(n)]) => RecArgument[o] \in c.set \/ RecursionLive(o)
  <2>1. CallOK(c) /\ c.op = "phi_arguments"
    BY <1>0, <1>1, Called
  <2> QED BY <1>00, <1>3, <2>1 DEF CallOK, CallReady
<1>5. PICK dead : dead = {a \in ToSet(arguments[Body(n)]) :
                            ~HasUsers(a) /\ (InputOf[a] # None \/ a \in c.set)}
  OBVIOUS
<1>6. RemoveInputs(n, dead)
  BY <1>0, <1>00, <1>5 DEF PhiArguments
<1>7. outputs' = outputs /\ Live' = Live
  BY <1>1, <1>6 DEF RemoveInputs, Live
<1>8. Kind[n] \in {"theta", "lambda", "delta", "phi"}
  BY <1>4
<1>9. \A a \in ToSet(arguments[Body(n)]) \ dead : InputOf[a] # None => a \in Live /\ Feeds[a] = {InputOf[a]}
  <2> TAKE a \in ToSet(arguments[Body(n)]) \ dead
  <2> HAVE InputOf[a] # None
  <2>1. HasUsers(a)
    BY <1>5
  <2>2. Body(n) \in ToSet(Subregions[n]) /\ Body(n) \in Regions
    BY <1>3, <1>8, BodyIs
  <2>3. a \in ToSet(Arguments[Body(n)])
    BY <1>3, <2>2 DEF Shape
  <2>4. Kind[n] # "theta"
    BY <1>4
  <2> QED BY <1>3, <2>1, <2>2, <2>3, <2>4, ArgumentFeedsAre
<1>10. \A i \in ToSet(inputs'[n]) : i \in FeedsOf(Live)
  <2> TAKE i \in ToSet(inputs'[n])
  <2>0. Shape /\ GraphOK /\ alive' = alive
    BY <1>1, <1>3
  <2>1. PICK a \in ToSet(arguments[Body(n)]) \ dead : InputOf[a] = i
    BY <2>0, <1>3, <1>6, <1>8, LeftArgument
  <2>2. i # None
    <3>1. i \in ToSet(Inputs[n])
      BY <1>1, <1>3, <1>6, <1>8, LeftArgument DEF Shape
    <3> QED BY <1>3, <3>1, OwnershipAssumption, Places, MemberOf
  <2> QED BY <1>9, <2>1, <2>2 DEF FeedsOf
<1>11. ToSet(arguments'[Body(n)]) = ToSet(arguments[Body(n)]) \ dead
  BY <1>1, <1>3, <1>6, <1>8, RemoveInputsIs
<1>12. NodeClean(n)' => NodeSwept(n)'
  <2>1. \A o \in ToSet(outputs'[n]) : RecursionLive(o)'
    BY <1>4, <1>7 DEF RecursionLive
  <2> QED BY <1>3, <1>4, <1>7, <1>9, <1>11, <2>1 DEF NodeSwept
<1>13. Balanced(n)'
  <2>1. ASSUME NEW o \in ToSet(Outputs[n]), RecArgument[o] \in ToSet(arguments'[Body(n)])
        PROVE  o \in ToSet(outputs[n])
    <3>1. RecArgument[o] \in ToSet(arguments[Body(n)]) \ dead
      BY <1>11, <2>1
    <3>2. CASE o \in Live
      BY <1>3, <2>1, <3>2 DEF Kept
    <3>3. CASE RecArgument[o] \in Live
      BY <1>3, <1>4, <2>1, <3>3 DEF GraphOK, TiedAt
    <3>4. CASE RecArgument[o] \in c.set
      <4>1. HasUsers(RecArgument[o])
        BY <1>5, <3>1, <3>4
      <4>2. RecArgument[o] \in Live
        BY <1>3, <1>8, <3>1, <4>1, BodyIs
      <4> QED BY <3>3, <4>2
    <3> QED BY <1>4, <2>1, <3>1, <3>2, <3>3, <3>4 DEF RecursionLive
  <2> QED BY <1>4, <1>7, <2>1 DEF Balanced
<1>14. \A o \in ToSet(outputs[n]) : RecArgument[o] \notin dead
  <2> TAKE o \in ToSet(outputs[n])
  <2>1. InputOf[RecArgument[o]] = None
    BY <1>3, <1>4, RecursionTyped DEF Shape
  <2> QED BY <1>4, <1>5, <2>1
<1> QED BY <1>0, <1>00, <1>1, <1>2, <1>3, <1>5, <1>6, <1>8, <1>10, <1>12, <1>13, <1>14, BodyInputsSweep

LEMMA RemoveImportsSweeps ==
  ASSUME IInv, SweepInv, RemoveImports, Shape'
  PROVE  SweepInv'
<1>1. Calling("imports") /\ Returning /\ alive' = alive /\ marks' = marks /\ origin' = origin
  BY DEF RemoveImports
<1>2. marks = << >> /\ work # << >> /\ Head(work).op = "imports" /\ marks' = << >> /\ work' = Tail(work)
      /\ GraphInv /\ Shape
  BY <1>1, Called DEF Returning
<1>3. /\ GraphOK /\ origin \in Wirings /\ work \in Seq(CallType) /\ \E D : SweptOK(D, work)
  BY <1>2, Sweeping
<1>4. PICK D : SweptOK(D, work)
  BY <1>3
<1>5. Swept(D) /\ RegionItem(Root) \in D
  <2>1. RegionItem(Root) \in Items /\ Relies(Head(work), RegionItem(Root))
    BY <1>2, ItemsApart, OwnershipAssumption DEF Relies
  <2> QED BY <1>2, <1>3, <1>4, <2>1, HeadRelies DEF SweptOK
<1>6. PICK dead : dead = {a \in ToSet(arguments[Root]) : ~IsAlive(a)}
  OBVIOUS
<1>7. /\ Thins(arguments', arguments, Root, dead)
      /\ nodes' = nodes /\ inputs' = inputs /\ outputs' = outputs /\ results' = results
  BY <1>6 DEF RemoveImports, Thins
<1>8. \A a \in ToSet(arguments[Root]) : a \in SourcesIn(Root) /\ (IsAlive(a) <=> a \in Live)
  <2> TAKE a \in ToSet(arguments[Root])
  <2>1. a \in ToSet(Arguments[Root]) /\ Root \in Regions
    BY <1>2, OwnershipAssumption DEF Shape
  <2>2. a \in Members(Arguments)
    BY <2>1, Places, MemberOf
  <2> QED BY <1>2, <2>1, <2>2, AliveIs, SourceRegion
<1>9. \A a \in dead : a \notin Used
  <2> SUFFICES ASSUME NEW a \in dead, a \in Used PROVE FALSE
    OBVIOUS
  <2>1. a \in SourcesIn(Root) /\ a \notin Live
    BY <1>6, <1>8
  <2> QED BY <1>2, <1>3, <1>5, <2>1, SweptUses, OwnershipAssumption
<1>10. /\ GraphOK' /\ Less /\ ToSet(arguments'[Root]) = ToSet(arguments[Root]) \ dead
       /\ \A m \in Nodes : Balanced(m) => Balanced(m)'
  BY <1>1, <1>2, <1>3, <1>7, <1>9, ImportsGraph
<1>11. Swept(D)'
  <2>1. /\ \A m \in Nodes \ nodes' : NodeItem(m) \in D
        /\ \A m \in nodes' : NodeItem(m) \notin D \ D
        /\ \A r \in Regions : RegionItem(r) \notin D \ D
        /\ nodes \subseteq Nodes /\ D \subseteq D
    BY <1>2, <1>5, <1>7 DEF Swept, Shape
  <2> QED BY <1>5, <1>10, <2>1, SweptStays
<1>12. RootSwept(D)'
  <2>1. Live' = Live
    BY <1>1 DEF Live
  <2>2. ToSet(arguments'[Root]) \subseteq Live
    BY <1>6, <1>8, <1>10
  <2> QED BY <1>5, <2>1, <2>2 DEF RootSwept
<1>13. \A x \in Items : ~Cleans(Head(work), x)
  BY <1>2 DEF Cleans, InputOps, LoopOps
<1>14. \A m \in Nodes : Balanced(m) \/ (Head(work).op \in InputOps /\ Head(work).at = m) => Balanced(m)'
  BY <1>2, <1>10 DEF InputOps
<1>15. D \subseteq D
  OBVIOUS
<1> QED BY <1>2, <1>4, <1>10, <1>11, <1>12, <1>13, <1>14, <1>15, Returned

\* What holds when the sweep starts: nothing has gone, and all is still to be done.
Start == Whole /\ origin \in Wirings /\ work = << Call("run", Root, {}) >>

LEMMA WholeTied ==
  ASSUME Whole, NEW n \in Nodes
  PROVE  TiedAt(n) /\ RowsAt(n) /\ Balanced(n)
<1>1. inputs = Inputs /\ outputs = Outputs /\ arguments = Arguments /\ results = Results
  BY DEF Whole
<1>2. \A q \in ToSet(Subregions[n]) :
         /\ \A a \in ToSet(arguments[q]) : InputOf[a] \in ToSet(inputs[n]) \cup {None}
         /\ \A u \in ToSet(results[q]) : OutputOf[u] \in ToSet(outputs[n]) \cup {None}
  BY <1>1, ArgumentOf, ResultOf
<1>3. Kind[n] \in {"theta", "lambda", "delta", "phi"} =>
        \A i \in ToSet(inputs[n]) : \E a \in ToSet(arguments[Body(n)]) : InputOf[a] = i
  <2>1. Kind[n] = "theta" => \A i \in ToSet(Inputs[n]) : \E a \in ToSet(Arguments[Body(n)]) : InputOf[a] = i
    BY ThetaIs
  <2>2. Kind[n] \in {"lambda", "delta", "phi"} =>
          {InputOf[a] : a \in ToSet(Arguments[Body(n)])} \ {None} = ToSet(Inputs[n])
    BY KindAssumption
  <2> QED BY <1>1, <2>1, <2>2
<1>4. Kind[n] = "theta" =>
        /\ \A o \in ToSet(outputs[n]) : \E u \in ToSet(results[Body(n)]) : OutputOf[u] = o
        /\ \A i \in ToSet(inputs[n]) : LoopOutput[i] \in ToSet(outputs[n])
  BY <1>1, ThetaIs
<1>5. Kind[n] = "phi" => \A o \in ToSet(outputs[n]) : RecArgument[o] \in ToSet(arguments[Body(n)])
  BY <1>1, RecursionTyped
<1>6. RowsAt(n)
  <2>1. CASE Kind[n] \in {"theta", "phi"}
    <3>1. /\ Inputs[n] \in Seq(Members(Inputs)) /\ Outputs[n] \in Seq(Members(Outputs))
          /\ Arguments[Body(n)] \in Seq(Members(Arguments)) /\ Results[Body(n)] \in Seq(Members(Results))
      BY <2>1, Places, BodyIs
    <3>2. InOrder(Inputs[n], Inputs[n]) /\ InOrder(Outputs[n], Outputs[n])
      BY <3>1, InOrderSame
    <3>3. InOrder(Arguments[Body(n)], Arguments[Body(n)]) /\ InOrder(Results[Body(n)], Results[Body(n)])
      BY <3>1, InOrderSame
    <3> QED BY <1>1, <3>2, <3>3 DEF RowsAt
  <2> QED BY <2>1 DEF RowsAt
<1>7. TiedAt(n)
  BY <1>1, <1>2, <1>3, <1>4, <1>5 DEF TiedAt
<1> QED BY <1>1, <1>4, <1>6, <1>7 DEF Balanced

LEMMA WholeOK ==
  ASSUME Whole, origin \in Wirings
  PROVE  GraphOK
<1>1. Uses = AllUses /\ Sources = AllSources
  BY DEF Whole, Uses, AllUses, Sources, AllSources
<1>2. UsedExist
  BY <1>1, OriginRegion DEF UsedExist, Used
<1> QED BY <1>2, WholeTied DEF GraphOK

LEMMA StartSwept == Start => SweepInv
<1> SUFFICES ASSUME Start PROVE SweepInv
  OBVIOUS
<1>1. Whole /\ origin \in Wirings
  BY DEF Start
<1>2. PICK c : c = Call("run", Root, {})
  OBVIOUS
<1>3. work = << c >> /\ c.op = "run" /\ Len(work) = 1 /\ DOMAIN work = 1 .. 1
  BY <1>2 DEF Start, Call
<1>4. ToSet(work) = {c} /\ work[1] = c
  BY <1>3, SingleIs DEF ToSet
<1>5. GraphOK
  BY <1>1, WholeOK
<1>6. CallsOK(work)
  <2>1. Stacked(work)
    BY <1>3 DEF Stacked
  <2>2. CallReady(c)
    BY <1>3 DEF CallReady, LoopOps, InputOps
  <2> QED BY <1>1, <1>4, <2>1, <2>2, WholeTied DEF CallsOK
<1>7. SweptOK({}, work)
  <2>1. Swept({})
    BY <1>1 DEF Whole, Swept
  <2>2. \A x : ~Relies(c, x)
    BY <1>3 DEF Relies, InputOps
  <2>3. Ordered({}, work)
    BY <1>3, <1>4, <2>2 DEF Ordered
  <2>4. IsRootPending(work)
    BY <1>3, <1>4 DEF IsRootPending
  <2> QED BY <2>1, <2>3, <2>4 DEF SweptOK
<1> QED BY <1>5, <1>6, <1>7 DEF SweepInv

LEMMA StartSweptNext == Start' => SweepInv'
BY StartSwept, PTL

LEMMA MarkOutputSweeps ==
  ASSUME IInv, MarkOutput
  PROVE  SweepInv'
<1>1. Whole /\ origin \in Wirings /\ work = << Call("run", Root, {}) >>
  BY DEF MarkOutput, IInv, MarkInv
<1>2. UNCHANGED << graph, work >>
  BY DEF MarkOutput
<1>3. Start'
  BY <1>1, <1>2 DEF Start, Whole, graph
<1> QED BY <1>3, StartSweptNext

LEMMA StutterSweeps ==
  ASSUME SweepInv, UNCHANGED vars
  PROVE  SweepInv'
<1>1. UNCHANGED graph /\ alive' = alive /\ marks' = marks /\ work' = work
  BY DEF vars
<1> SUFFICES ASSUME marks = << >> PROVE (GraphOK /\ CallsOK(work) /\ \E D : SweptOK(D, work))'
  BY <1>1 DEF SweepInv
<1>2. PICK w : w = work
  OBVIOUS
<1>3. GraphOK /\ CallsOK(w) /\ \E D : SweptOK(D, w)
  BY <1>2 DEF SweepInv
<1>4. GraphOK'
  BY <1>1, <1>3, LessSame
<1>5. CallsOK(w)'
  <2>1. \A c \in ToSet(w) : CallReady(c)'
    BY <1>1, <1>3 DEF CallsOK, CallReady, ResultsClean, RecursionLive, Live, graph
  <2>2. \A m \in Nodes : Balanced(m)' \/ IsPending(m, w)
    BY <1>1, <1>3, LessSame DEF CallsOK
  <2> QED BY <1>3, <2>1, <2>2 DEF CallsOK, IsPending
<1>6. \E D : SweptOK(D, w)'
  <2>1. PICK D : SweptOK(D, w)
    BY <1>3
  <2>2. Swept(D)'
    BY <1>1, <2>1, LessSame DEF SweptOK
  <2>3. RootSwept(D) => RootSwept(D)'
    BY <1>1 DEF RootSwept, Live, graph
  <2> QED BY <2>1, <2>2, <2>3 DEF SweptOK, IsRootPending
<1>7. work' = w
  BY <1>1, <1>2
<1> QED BY <1>4, <1>5, <1>6, <1>7

LEMMA VisitIsSwept ==
  ASSUME RecursionFirst, IInv, SweepInv, Visit, Shape', GammaOK'
  PROVE  SweepInv'
<1>1. Calling("nodes") /\ alive' = alive /\ marks' = marks
  BY DEF Visit
<1>2. PICK n \in Deepest : \/ RemoveDead(n) \/ SkipSimple(n) \/ SweepGamma(n) \/ SweepTheta(n)
                           \/ SweepLambda(n) \/ SweepDelta(n) \/ SweepPhi(n)
  BY DEF Visit
<1>3. CASE RemoveDead(n)
  BY <1>1, <1>3, RemoveDeadSweeps
<1>4. CASE SkipSimple(n)
  BY <1>1, <1>4, SkipSimpleSweeps
<1>5. CASE SweepGamma(n)
  BY <1>1, <1>5, SweepGammaSweeps
<1>6. CASE SweepTheta(n)
  BY <1>1, <1>6, SweepThetaSweeps
<1>7. CASE SweepLambda(n)
  BY <1>1, <1>7, SweepLambdaSweeps
<1>8. CASE SweepDelta(n)
  BY <1>1, <1>8, SweepDeltaSweeps
<1>9. CASE SweepPhi(n)
  BY <1>1, <1>9, SweepPhiSweeps
<1> QED BY <1>2, <1>3, <1>4, <1>5, <1>6, <1>7, <1>8, <1>9

LEMMA NextSweeps ==
  ASSUME RecursionFirst, IInv, SweepInv, [Next]_vars
  PROVE  SweepInv'
<1>1. Shape' /\ GammaOK'
  BY NextKeeps DEF IInv, GraphInv
<1>2. CASE MarkOutput
  BY <1>2, MarkOutputSweeps
<1>3. CASE StartSweep
  BY <1>3, StartSweepSweeps
<1>4. CASE Prune
  BY <1>1, <1>4, PruneSweeps
<1>5. CASE CollectNodes
  BY <1>5, CollectNodesSweeps
<1>6. CASE Visit
  BY <1>1, <1>6, VisitIsSwept
<1>7. CASE SweptRegion
  BY <1>7, SweptRegionSweeps
<1>8. CASE GammaInputs
  BY <1>1, <1>8, GammaInputsSweeps
<1>9. CASE ThetaInputs
  BY <1>1, <1>9, ThetaInputsSweeps
<1>10. CASE ContextInputs
  BY <1>1, <1>10, ContextInputsSweeps
<1>11. CASE PhiArguments
  BY <1>1, <1>11, PhiArgumentsSweeps
<1>12. CASE RemoveImports
  BY <1>1, <1>12, RemoveImportsSweeps
<1>13. CASE Terminated \/ UNCHANGED vars
  BY <1>13, StutterSweeps DEF Terminated
<1> QED BY <1>2, <1>3, <1>4, <1>5, <1>6, <1>7, <1>8, <1>9, <1>10, <1>11, <1>12, <1>13 DEF Next

\* The sweep: its calls are made in an order in which each finds swept what it
\* relies on, and each leaves swept what it promises.
THEOREM SweepInvariant == RecursionFirst => (Spec => [](IInv /\ SweepInv))
<1> SUFFICES ASSUME RecursionFirst PROVE Spec => [](IInv /\ SweepInv)
  OBVIOUS
<1>1. Init => IInv /\ SweepInv
  <2> SUFFICES ASSUME Init PROVE IInv /\ SweepInv
    OBVIOUS
  <2>1. Start
    BY DEF Init, Start, Whole
  <2> QED BY <2>1, InitHolds, StartSwept
<1>2. IInv /\ SweepInv /\ [Next]_vars => IInv' /\ SweepInv'
  BY NextKeeps, NextSweeps
<1> QED BY <1>1, <1>2, PTL DEF Spec

-----------------------------------------------------------------------------
(* What the sweep leaves. *)

\* Nothing that is removed is still in use: in every state of the pass each input
\* and result that is there has its origin (node.cpp:83), each argument its input
\* and each result its output (structural-node.cpp:18 and 36).
THEOREM NothingDangles == RecursionFirst => (Spec => []NoDangling)
<1> SUFFICES ASSUME RecursionFirst PROVE Spec => []NoDangling
  OBVIOUS
<1>1. IInv /\ SweepInv => NoDangling
  <2> SUFFICES ASSUME IInv, SweepInv PROVE NoDangling
    OBVIOUS
  <2>1. Shape /\ MarkInv
    BY DEF IInv, GraphInv
  <2>2. GraphOK
    <3>1. CASE marks = << >>
      BY <3>1 DEF SweepInv
    <3>2. CASE Whole
      BY <2>1, <3>2, WholeOK DEF MarkInv
    <3> QED BY <2>1, <3>1, <3>2 DEF MarkInv
  <2>3. DOMAIN arguments = Regions /\ DOMAIN results = Regions /\ DOMAIN inputs = Nodes /\ DOMAIN outputs = Nodes
    BY <2>1 DEF Shape
  <2>4. ASSUME NEW a \in Members(arguments)
        PROVE  InputOf[a] \in Members(inputs) \cup {None}
    <3>1. PICK r \in Regions : a \in ToSet(arguments[r])
      BY <2>3, PlaceOf
    <3>2. CASE r = Root
      BY <2>1, <3>1, <3>2, KindAssumption DEF Shape
    <3>3. CASE r # Root
      <4>1. PICK n \in Nodes : r \in ToSet(Subregions[n])
        BY <3>3, OwnerOf
      <4>2. InputOf[a] \in ToSet(inputs[n]) \cup {None}
        BY <2>2, <3>1, <4>1 DEF GraphOK, TiedAt
      <4> QED BY <2>3, <4>2, MemberOf
    <3> QED BY <3>2, <3>3
  <2>5. ASSUME NEW u \in Members(results)
        PROVE  OutputOf[u] \in Members(outputs) \cup {None}
    <3>1. PICK r \in Regions : u \in ToSet(results[r])
      BY <2>3, PlaceOf
    <3>2. CASE r = Root
      BY <2>1, <3>1, <3>2, KindAssumption DEF Shape
    <3>3. CASE r # Root
      <4>1. PICK n \in Nodes : r \in ToSet(Subregions[n])
        BY <3>3, OwnerOf
      <4>2. OutputOf[u] \in ToSet(outputs[n]) \cup {None}
        BY <2>2, <3>1, <4>1 DEF GraphOK, TiedAt
      <4> QED BY <2>3, <4>2, MemberOf
    <3> QED BY <3>2, <3>3
  <2> QED BY <2>2, <2>4, <2>5 DEF NoDangling, GraphOK, UsedExist
<1> QED BY <1>1, SweepInvariant, PTL

\* The first a values of g rise; they are all, up to M, among the first b of h.
Rising(g, a) == \A i, j \in 1 .. a : i < j => g[i] < g[j]
Covered(g, a, M, h, b) == \A i \in 1 .. a : g[i] <= M => \E j \in 1 .. b : h[j] = g[i]

LEMMA RisingIs ==
  ASSUME NEW a \in Nat, NEW g \in [1 .. a -> Nat], Rising(g, a)
  PROVE  /\ \A i \in 1 .. a : g[i] \in Nat
         /\ \A i, j \in 1 .. a : i <= j => g[i] <= g[j]
<1>1. \A i \in 1 .. a : g[i] \in Nat
  OBVIOUS
<1>2. ASSUME NEW i \in 1 .. a, NEW j \in 1 .. a, i <= j PROVE g[i] <= g[j]
  <2>1. g[i] \in Nat /\ g[j] \in Nat
    BY <1>1
  <2>2. CASE i = j
    BY <2>1, <2>2
  <2>3. CASE i < j
    BY <2>1, <2>3 DEF Rising
  <2> QED BY <1>2, <2>2, <2>3
<1> QED BY <1>1, <1>2

\* Two sets of indices, each in order, of which the second is the first up to a
\* bound, are the same up to there.
LEMMA SamePrefix ==
  ASSUME NEW a \in Nat, NEW b \in Nat, NEW g \in [1 .. a -> Nat], NEW h \in [1 .. b -> Nat],
         Rising(g, a), Rising(h, b), NEW M \in Nat,
         Covered(h, b, M, g, a), Covered(g, a, M, h, b), \A j \in 1 .. b : h[j] <= M
  PROVE  b <= a /\ \A j \in 1 .. b : g[j] = h[j]
<1> DEFINE Same(k) == \A j \in 1 .. b : j <= k => j <= a /\ g[j] = h[j]
           A == {k \in Nat : Same(k)}
<1>0. /\ \A i \in 1 .. a : g[i] \in Nat
      /\ \A i \in 1 .. b : h[i] \in Nat
      /\ \A i, j \in 1 .. a : i <= j => g[i] <= g[j]
      /\ \A i, j \in 1 .. b : i <= j => h[i] <= h[j]
  BY RisingIs
<1>1. Same(0)
  OBVIOUS
<1>2. ASSUME NEW k \in Nat, Same(k)
      PROVE  Same(k + 1)
  <2>1. \A i \in 1 .. b : i <= k => i <= a /\ g[i] = h[i]
    BY <1>2
  <2> HIDE DEF Same, A
  <2>2. ASSUME NEW j \in 1 .. b, j = k + 1
        PROVE  j <= a /\ g[j] = h[j]
    <3>1. PICK i \in 1 .. a : g[i] = h[j]
      BY DEF Covered
    <3>2. i >= j
      <4> SUFFICES ASSUME i < j PROVE FALSE
        OBVIOUS
      <4>1. i \in 1 .. b /\ i <= k
        BY <2>2
      <4>2. h[i] < h[j] /\ g[i] = h[i] /\ h[i] \in Nat
        BY <1>0, <2>1, <4>1 DEF Rising
      <4> QED BY <3>1, <4>2
    <3>3. j \in 1 .. a /\ j <= i
      BY <3>2
    <3>4. g[j] <= g[i] /\ g[j] \in Nat /\ h[j] \in Nat /\ h[j] <= M
      BY <1>0, <3>3
    <3>5. g[j] <= M
      BY <3>1, <3>4
    <3>6. PICK l \in 1 .. b : h[l] = g[j]
      BY <3>3, <3>5 DEF Covered
    <3>7. l >= j
      <4> SUFFICES ASSUME l < j PROVE FALSE
        OBVIOUS
      <4>1. l <= k
        BY <2>2
      <4>2. l <= a /\ g[l] = h[l]
        BY <2>1, <4>1
      <4>3. g[l] < g[j] /\ g[l] \in Nat
        BY <1>0, <3>3, <4>2 DEF Rising
      <4> QED BY <3>6, <4>2, <4>3
    <3>8. h[j] <= h[l]
      BY <1>0, <3>7
    <3> QED BY <3>1, <3>3, <3>4, <3>6, <3>8
  <2>3. \A j \in 1 .. b : j <= k + 1 => j <= k \/ j = k + 1
    OBVIOUS
  <2> QED BY <2>1, <2>2, <2>3 DEF Same
<1> HIDE DEF Same
<1>3. \A k \in Nat : Same(k)
  <2>1. 0 \in A /\ \A k \in Nat : k \in A => k + 1 \in A
    BY <1>1, <1>2
  <2> HIDE DEF A
  <2>2. Nat \subseteq A
    BY <2>1, SetInduction
  <2> QED BY <2>2 DEF A
<1>4. \A j \in 1 .. b : j <= a /\ g[j] = h[j]
  <2>1. Same(b)
    BY <1>3
  <2>2. \A j \in 1 .. b : j <= b
    OBVIOUS
  <2> QED BY <2>1, <2>2 DEF Same
<1>5. b <= a
  <2>1. CASE b = 0
    BY <2>1
  <2>2. CASE b # 0
    <3>1. b \in 1 .. b
      BY <2>2
    <3> QED BY <1>4, <3>1
  <2> QED BY <2>1, <2>2
<1> QED BY <1>4, <1>5

\* g[k] is where the k-th element of s is in x.
Indexes(g, s, x) ==
  /\ g \in [1 .. Len(s) -> Nat] /\ Rising(g, Len(s))
  /\ \A k \in 1 .. Len(s) : g[k] \in 1 .. Len(x) /\ s[k] = x[g[k]]

LEMMA InOrderIs ==
  ASSUME NEW P, NEW x \in Seq(P), NEW s \in Seq(P), InOrder(s, x)
  PROVE  \E g : Indexes(g, s, x)
<1>1. /\ Len(s) \in Nat /\ DOMAIN s = 1 .. Len(s) /\ Len(x) \in Nat /\ DOMAIN x = 1 .. Len(x)
  BY SeqIndex
<1>2. PICK g \in [1 .. Len(s) -> 1 .. Len(x)] :
         /\ \A j, k \in 1 .. Len(s) : j < k => g[j] < g[k]
         /\ \A k \in 1 .. Len(s) : s[k] = x[g[k]]
  BY <1>1 DEF InOrder
<1>3. g \in [1 .. Len(s) -> Nat] /\ \A k \in 1 .. Len(s) : g[k] \in 1 .. Len(x)
  BY <1>1, <1>2
<1>4. Rising(g, Len(s))
  BY <1>2 DEF Rising
<1> QED BY <1>2, <1>3, <1>4 DEF Indexes

LEMMA IndexOf ==
  ASSUME NEW S, NEW s \in Seq(S)
  PROVE  /\ Len(s) \in Nat /\ DOMAIN s = 1 .. Len(s)
         /\ \A e \in ToSet(s) : \E k \in 1 .. Len(s) : s[k] = e
         /\ \A k \in 1 .. Len(s) : s[k] \in ToSet(s)
BY SeqIndex

\* What is left of two sequences that correspond does, when it is the same.
SameImage(f, s, t) == (\A e \in ToSet(s) : f[e] \in ToSet(t)) /\ \A o \in ToSet(t) : \E e \in ToSet(s) : f[e] = o
NoneTwice(y) == \A j, k \in DOMAIN y : y[j] = y[k] => j = k

LEMMA StillMatches ==
  ASSUME NEW P, NEW x \in Seq(P), NEW Q, NEW y \in Seq(Q), NEW f, Matches(f, x, y), NoneTwice(y),
         NEW s \in Seq(P), NEW t \in Seq(Q), InOrder(s, x), InOrder(t, y), SameImage(f, s, t)
  PROVE  Matches(f, s, t)
<1> DEFINE a == Len(s)
           b == Len(t)
           M == Len(x)
<1>1. a \in Nat /\ b \in Nat /\ M \in Nat /\ DOMAIN s = 1 .. a
  BY SeqIndex
<1>g. PICK g : Indexes(g, s, x)
  BY InOrderIs
<1>h. PICK h : Indexes(h, t, y)
  BY InOrderIs
<1>2. g \in [1 .. a -> Nat] /\ Rising(g, a) /\ \A k \in 1 .. a : g[k] \in 1 .. M /\ s[k] = x[g[k]]
  BY <1>g DEF Indexes
<1>3. h \in [1 .. b -> Nat] /\ Rising(h, b) /\ \A k \in 1 .. b : h[k] \in 1 .. Len(y) /\ t[k] = y[h[k]]
  BY <1>h DEF Indexes
<1>4. Len(y) = M /\ \A k \in 1 .. M : f[x[k]] = y[k]
  <2>1. DOMAIN x = 1 .. Len(x)
    BY SeqIndex
  <2> QED BY <2>1 DEF Matches
<1>5. \A j, k \in 1 .. M : y[j] = y[k] => j = k
  <2>1. DOMAIN y = 1 .. Len(y)
    BY SeqIndex
  <2> QED BY <1>4, <2>1 DEF NoneTwice
<1>6. /\ \A e \in ToSet(s) : \E k \in 1 .. a : s[k] = e
      /\ \A k \in 1 .. a : s[k] \in ToSet(s)
      /\ \A e \in ToSet(t) : \E k \in 1 .. b : t[k] = e
      /\ \A k \in 1 .. b : t[k] \in ToSet(t)
  BY IndexOf
<1>7. \A k \in 1 .. b : h[k] \in 1 .. M
  BY <1>3, <1>4
<1> HIDE DEF a, b, M
<1>8. Covered(g, a, M, h, b)
  <2> SUFFICES ASSUME NEW k \in 1 .. a PROVE \E j \in 1 .. b : h[j] = g[k]
    BY DEF Covered
  <2>1. s[k] \in ToSet(s)
    BY <1>6
  <2>2. f[s[k]] \in ToSet(t)
    BY <2>1 DEF SameImage
  <2>3. PICK j \in 1 .. b : t[j] = f[s[k]]
    BY <1>6, <2>2
  <2>4. f[s[k]] = y[g[k]] /\ g[k] \in 1 .. M
    BY <1>2, <1>4
  <2>5. t[j] = y[h[j]] /\ h[j] \in 1 .. M
    BY <1>3, <1>7
  <2> QED BY <1>5, <2>3, <2>4, <2>5
<1>9. Covered(h, b, M, g, a)
  <2> SUFFICES ASSUME NEW j \in 1 .. b PROVE \E k \in 1 .. a : g[k] = h[j]
    BY DEF Covered
  <2>1. t[j] \in ToSet(t)
    BY <1>6
  <2>2. PICK e \in ToSet(s) : f[e] = t[j]
    BY <2>1 DEF SameImage
  <2>3. PICK k \in 1 .. a : s[k] = e
    BY <1>6
  <2>4. f[s[k]] = y[g[k]] /\ g[k] \in 1 .. M
    BY <1>2, <1>4
  <2>5. t[j] = y[h[j]] /\ h[j] \in 1 .. M
    BY <1>3, <1>7
  <2> QED BY <1>5, <2>2, <2>3, <2>4, <2>5
<1>10. (\A j \in 1 .. b : h[j] <= M) /\ (\A k \in 1 .. a : g[k] <= M)
  BY <1>1, <1>2, <1>7
<1>11. b <= a /\ \A j \in 1 .. b : g[j] = h[j]
  BY <1>1, <1>2, <1>3, <1>8, <1>9, <1>10, SamePrefix
<1>12. a <= b
  BY <1>1, <1>2, <1>3, <1>8, <1>9, <1>10, SamePrefix
<1>13. a = b
  BY <1>1, <1>11, <1>12
<1>14. \A k \in 1 .. a : f[s[k]] = t[k]
  <2> TAKE k \in 1 .. a
  <2>1. f[s[k]] = y[g[k]]
    BY <1>2, <1>4
  <2>2. t[k] = y[h[k]] /\ g[k] = h[k]
    BY <1>3, <1>11, <1>13
  <2> QED BY <2>1, <2>2
<1> QED BY <1>1, <1>13, <1>14 DEF Matches, a, b

\* A set of numbers has a least one.
LEMMA LeastOf ==
  ASSUME NEW S \in SUBSET Nat, S # {}
  PROVE  \E k \in S : \A j \in S : k <= j
<1>1. IsWellFoundedOn(OpToRel(<, Nat), Nat)
  BY NatLessThanWellFounded
<1>2. PICK k \in S : \A j \in S : << j, k >> \notin OpToRel(<, Nat)
  BY <1>1, WFMin
<1>3. ASSUME NEW j \in S
      PROVE  k <= j
  <2>1. j \in Nat /\ k \in Nat /\ ~ (j < k)
    BY <1>2 DEF OpToRel
  <2> QED BY <2>1
<1> QED BY <1>3

\* Who goes outwards from region to region comes to the root.
LEMMA ComesOut ==
  ASSUME NEW B \in SUBSET Nodes,
         \A n \in B : RegionOf[n] # Root /\ Owner[RegionOf[n]] \in B
  PROVE  B = {}
<1> DEFINE Outer(n) == {m \in Nodes : RegionOf[n] \in Inside[m]}
           depths == {Cardinality(Outer(n)) : n \in B}
<1>1. IsFiniteSet(Nodes)
  BY OwnershipAssumption
<1>2. \A n : IsFiniteSet(Outer(n)) /\ Cardinality(Outer(n)) \in Nat
  <2> TAKE n
  <2>1. Outer(n) \in SUBSET Nodes
    OBVIOUS
  <2> HIDE DEF Outer
  <2>2. IsFiniteSet(Outer(n))
    BY <1>1, <2>1, FS_Subset
  <2> QED BY <2>2, FS_CardinalityType
<1>3. ASSUME NEW n \in B
      PROVE  \E p \in B : Cardinality(Outer(p)) < Cardinality(Outer(n))
  <2> DEFINE p == Owner[RegionOf[n]]
  <2>1. p \in B /\ p \in Nodes /\ RegionOf[n] \in Regions \ {Root} /\ n \in Nodes
    BY SourceRegion, OwnerOf
  <2>2. RegionOf[n] \in ToSet(Subregions[p])
    BY <2>1, OwnerOf
  <2>3. RegionOf[n] \in Inside[p] /\ \A m \in Nodes : RegionOf[p] \in Inside[m] => RegionOf[n] \in Inside[m]
    BY <2>1, <2>2, InsideIs, OwnerIs
  <2>4. p \in Outer(n) /\ p \notin Outer(p)
    BY <2>1, <2>3, NestingIs
  <2>5. Outer(p) \in SUBSET Outer(n) /\ Outer(p) # Outer(n)
    BY <2>3, <2>4
  <2> HIDE DEF Outer, p
  <2>6. Cardinality(Outer(p)) <= Cardinality(Outer(n)) /\ Cardinality(Outer(p)) # Cardinality(Outer(n))
    BY <1>2, <2>5, FS_Subset
  <2>7. Cardinality(Outer(p)) < Cardinality(Outer(n))
    BY <1>2, <2>6
  <2> QED BY <2>1, <2>7
<1>4. depths \in SUBSET Nat
  BY <1>2
<1> SUFFICES ASSUME B # {} PROVE FALSE
  OBVIOUS
<1>5. depths # {}
  OBVIOUS
<1> HIDE DEF Outer
<1>6. PICK k \in depths : \A j \in depths : k <= j
  <2> HIDE DEF depths
  <2> QED BY <1>4, <1>5, LeastOf
<1>7. PICK n \in B : k = Cardinality(Outer(n))
  BY <1>6
<1>8. PICK p \in B : Cardinality(Outer(p)) < k
  BY <1>3, <1>7
<1>9. k <= Cardinality(Outer(p))
  BY <1>6
<1> QED BY <1>2, <1>4, <1>6, <1>8, <1>9

\* When the pass is done all that is left is swept.
LEMMA EndSwept ==
  ASSUME IInv, SweepInv, Done
  PROVE  /\ GraphOK /\ GraphInv /\ Shape /\ Kept /\ GammaOK /\ ThetaOK
         /\ origin \in Wirings /\ Reached(origin, Live, Live)
         /\ \A n \in Nodes : Balanced(n)
         /\ \A n \in nodes : NodeSwept(n)
         /\ ToSet(arguments[Root]) \subseteq Live
<1>1. marks = << >> /\ work = << >> /\ MarkInv /\ GraphInv /\ Shape /\ Kept /\ GammaOK /\ ThetaOK
  BY DEF Done, IInv, GraphInv
<1>2. origin \in Wirings /\ Reached(origin, Live, Live)
  BY <1>1, LiveIsUsed
<1>3. ToSet(work) = {}
  BY <1>1, EmptyIs
<1>4. GraphOK /\ CallsOK(work) /\ \E D : SweptOK(D, work)
  BY <1>1 DEF SweepInv
<1>5. \A n \in Nodes : Balanced(n)
  BY <1>3, <1>4 DEF CallsOK, IsPending
<1>6. PICK D : SweptOK(D, work)
  BY <1>4
<1>7. Swept(D) /\ RootSwept(D)
  BY <1>3, <1>6 DEF SweptOK, IsRootPending
<1> DEFINE B == {n \in nodes : NodeItem(n) \notin D}
<1>8. B = {}
  <2>1. B \in SUBSET Nodes
    BY <1>1 DEF Shape
  <2>2. ASSUME NEW n \in B
        PROVE  RegionOf[n] # Root /\ Owner[RegionOf[n]] \in B
    <3>1. n \in nodes /\ n \in Nodes /\ NodeItem(n) \notin D /\ n \in NodesOf(RegionOf[n]) /\ RegionOf[n] \in Regions
      BY <2>1, SourceRegion DEF NodesOf
    <3>2. RegionItem(RegionOf[n]) \notin D
      BY <1>7, <3>1 DEF Swept
    <3>3. RegionOf[n] # Root
      BY <1>7, <3>2 DEF RootSwept
    <3>4. Owner[RegionOf[n]] \in nodes
      BY <1>1, <3>1, <3>3 DEF Shape
    <3>5. RegionOf[n] \in ToSet(Subregions[Owner[RegionOf[n]]])
      BY <3>1, <3>3, OwnerOf
    <3>6. NodeItem(Owner[RegionOf[n]]) \notin D
      BY <1>7, <3>2, <3>4, <3>5 DEF Swept
    <3> QED BY <3>3, <3>4, <3>6
  <2> HIDE DEF B
  <2> QED BY <2>1, <2>2, ComesOut
<1>9. \A n \in nodes : NodeSwept(n)
  BY <1>7, <1>8 DEF Swept
<1> QED BY <1>1, <1>2, <1>4, <1>5, <1>7, <1>9 DEF RootSwept

\* Sequences that correspond, as functions.
LEMMA MatchesFunction ==
  ASSUME NEW P, NEW s \in Seq(P), NEW Q, NEW t \in Seq(Q), NEW f, Matches(f, s, t)
  PROVE  [k \in DOMAIN s |-> f[s[k]]] = t
<1>1. DOMAIN s = 1 .. Len(s) /\ DOMAIN t = 1 .. Len(t) /\ t = [k \in DOMAIN t |-> t[k]]
  BY SeqIndex
<1>2. DOMAIN s = DOMAIN t /\ \A k \in DOMAIN s : f[s[k]] = t[k]
  BY <1>1 DEF Matches
<1> QED BY <1>1, <1>2

LEMMA NoneTwiceIs ==
  ASSUME NEW n \in Nodes
  PROVE  /\ NoneTwice(Inputs[n]) /\ NoneTwice(Outputs[n])
         /\ \A q \in Regions : NoneTwice(Arguments[q]) /\ NoneTwice(Results[q])
BY Places, OneIndex DEF NoneTwice

\* One more at the beginning.
LEMMA OneMore ==
  ASSUME NEW S, NEW h \in S, NEW t \in Seq(S), NEW y \in Seq(S)
  PROVE  /\ << h >> \o t \in Seq(S) /\ ToSet(<< h >> \o t) = {h} \cup ToSet(t)
         /\ InOrder(t, y) => InOrder(<< h >> \o t, << h >> \o y)
         /\ NoneTwice(t) /\ h \notin ToSet(t) => NoneTwice(<< h >> \o t)
<1>1. << h >> \o t \in Seq(S) /\ ToSet(<< h >> \o t) = {h} \cup ToSet(t) /\ << h >> \o y \in Seq(S)
  BY ConsIs
<1>2. /\ Len(t) \in Nat /\ DOMAIN t = 1 .. Len(t) /\ Len(y) \in Nat /\ DOMAIN y = 1 .. Len(y)
      /\ \A k \in DOMAIN t : t[k] \in ToSet(t)
  BY SeqIndex
<1> DEFINE u == << h >> \o t
           v == << h >> \o y
<1>3. /\ DOMAIN u = 1 .. Len(t) + 1 /\ DOMAIN v = 1 .. Len(y) + 1
      /\ \A k \in 1 .. Len(t) + 1 : u[k] = IF k = 1 THEN h ELSE t[k - 1]
      /\ \A k \in 1 .. Len(y) + 1 : v[k] = IF k = 1 THEN h ELSE y[k - 1]
  BY <1>2
<1> HIDE DEF u, v
<1>4. ASSUME InOrder(t, y)
      PROVE  InOrder(u, v)
  <2>1. PICK g \in [1 .. Len(t) -> 1 .. Len(y)] :
           /\ \A j, k \in 1 .. Len(t) : j < k => g[j] < g[k]
           /\ \A k \in 1 .. Len(t) : t[k] = y[g[k]]
    BY <1>2, <1>4 DEF InOrder
  <2> DEFINE f == [k \in DOMAIN u |-> IF k = 1 THEN 1 ELSE g[k - 1] + 1]
  <2>2. ASSUME NEW k \in DOMAIN u, k # 1
        PROVE  k - 1 \in 1 .. Len(t) /\ g[k - 1] \in 1 .. Len(y) /\ f[k] = g[k - 1] + 1
    <3>1. k - 1 \in 1 .. Len(t)
      BY <1>2, <1>3, <2>2
    <3> QED BY <2>1, <2>2, <3>1
  <2>3. 1 \in DOMAIN u /\ 1 \in DOMAIN v /\ f[1] = 1
    BY <1>2, <1>3
  <2> HIDE DEF f
  <2>4. \A k \in DOMAIN u : f[k] \in DOMAIN v /\ f[k] \in Nat
    <3> TAKE k \in DOMAIN u
    <3>1. CASE k = 1
      BY <2>3, <3>1
    <3>2. CASE k # 1
      BY <1>2, <1>3, <2>2, <3>2
    <3> QED BY <3>1, <3>2
  <2>5. f \in [DOMAIN u -> DOMAIN v]
    BY <2>4 DEF f
  <2>6. ASSUME NEW j \in DOMAIN u, NEW k \in DOMAIN u, j < k
        PROVE  f[j] < f[k]
    <3>1. k # 1 /\ k - 1 \in 1 .. Len(t)
      BY <1>2, <1>3, <2>6
    <3>2. f[k] = g[k - 1] + 1 /\ g[k - 1] \in 1 .. Len(y)
      BY <2>2, <3>1
    <3>3. CASE j = 1
      BY <1>2, <2>3, <3>2, <3>3
    <3>4. CASE j # 1
      <4>1. f[j] = g[j - 1] + 1 /\ g[j - 1] \in 1 .. Len(y) /\ j - 1 \in 1 .. Len(t)
        BY <2>2, <3>4
      <4>2. j - 1 < k - 1
        BY <1>2, <1>3, <2>6
      <4>3. g[j - 1] < g[k - 1]
        BY <2>1, <3>1, <4>1, <4>2
      <4> QED BY <1>2, <3>2, <4>1, <4>3
    <3> QED BY <3>3, <3>4
  <2>7. ASSUME NEW k \in DOMAIN u
        PROVE  u[k] = v[f[k]]
    <3>1. CASE k = 1
      BY <1>2, <1>3, <2>3, <3>1
    <3>2. CASE k # 1
      <4>1. PICK x \in 1 .. Len(y) : x = g[k - 1] /\ f[k] = x + 1 /\ k - 1 \in 1 .. Len(t)
        BY <2>2, <3>2
      <4>2. x + 1 \in 1 .. Len(y) + 1 /\ x + 1 # 1 /\ (x + 1) - 1 = x
        BY <1>2
      <4>3. v[x + 1] = y[x]
        BY <1>3, <4>2
      <4>4. u[k] = t[k - 1]
        BY <1>3, <3>2
      <4> QED BY <2>1, <4>1, <4>3, <4>4
    <3> QED BY <3>1, <3>2
  <2> QED BY <2>5, <2>6, <2>7 DEF InOrder
<1>5. ASSUME NoneTwice(t), h \notin ToSet(t)
      PROVE  NoneTwice(u)
  <2> SUFFICES ASSUME NEW j \in DOMAIN u, NEW k \in DOMAIN u, u[j] = u[k] PROVE j = k
    BY DEF NoneTwice
  <2>1. \A i \in DOMAIN u : i # 1 => i - 1 \in DOMAIN t /\ u[i] = t[i - 1] /\ u[i] # h
    BY <1>2, <1>3, <1>5
  <2>2. u[1] = h
    BY <1>2, <1>3
  <2>3. j = 1 <=> k = 1
    BY <2>1, <2>2
  <2>4. CASE j # 1
    <3>1. j - 1 = k - 1
      BY <1>5, <2>1, <2>3, <2>4 DEF NoneTwice
    <3> QED BY <1>2, <1>3, <3>1
  <2> QED BY <2>3, <2>4
<1> QED BY <1>1, <1>4, <1>5 DEF u, v

\* The rows of a loop are left as long as each other.
LEMMA ThetaAligned ==
  ASSUME IInv, SweepInv, Done, NEW n \in nodes, Kind[n] = "theta"
  PROVE  /\ Matches(LoopOutput, inputs[n], outputs[n])
         /\ Matches(InputOf, arguments[Body(n)], inputs[n])
         /\ Matches(OutputOf, results[Body(n)], << None >> \o outputs[n])
         /\ inputs[n] \in Seq(Members(Inputs)) /\ outputs[n] \in Seq(Members(Outputs))
         /\ arguments[Body(n)] \in Seq(Members(Arguments)) /\ results[Body(n)] \in Seq(Members(Results))
<1>1. /\ GraphOK /\ Shape /\ Kept /\ ThetaOK /\ n \in Nodes
      /\ Balanced(n) /\ NodeSwept(n) /\ TiedAt(n) /\ RowsAt(n)
  <2>1. GraphOK /\ Shape /\ Kept /\ ThetaOK /\ (\A m \in Nodes : Balanced(m)) /\ \A m \in nodes : NodeSwept(m)
    BY EndSwept
  <2> QED BY <2>1 DEF Shape, GraphOK
<1>2. /\ Body(n) \in Regions /\ Body(n) \in ToSet(Subregions[n])
      /\ Matches(LoopOutput, Inputs[n], Outputs[n])
      /\ Matches(InputOf, Arguments[Body(n)], Inputs[n])
      /\ Matches(OutputOf, Results[Body(n)], << None >> \o Outputs[n])
  <2>1. n \in Nodes /\ Kind[n] = "theta"
    BY <1>1
  <2>2. /\ Matches(LoopOutput, Inputs[n], Outputs[n])
        /\ Matches(InputOf, Arguments[Body(n)], Inputs[n])
        /\ Matches(OutputOf, Results[Body(n)], << None >> \o Outputs[n])
    BY <2>1, KindAssumption
  <2>3. Body(n) \in Regions /\ Body(n) \in ToSet(Subregions[n])
    BY <2>1, BodyIs
  <2> QED BY <2>2, <2>3
<1>3. /\ inputs[n] \in Seq(Members(Inputs)) /\ outputs[n] \in Seq(Members(Outputs))
      /\ arguments[Body(n)] \in Seq(Members(Arguments)) /\ results[Body(n)] \in Seq(Members(Results))
      /\ Inputs[n] \in Seq(Members(Inputs)) /\ Outputs[n] \in Seq(Members(Outputs))
      /\ Arguments[Body(n)] \in Seq(Members(Arguments)) /\ Results[Body(n)] \in Seq(Members(Results))
      /\ ToSet(inputs[n]) \subseteq ToSet(Inputs[n]) /\ ToSet(outputs[n]) \subseteq ToSet(Outputs[n])
      /\ ToSet(arguments[Body(n)]) \subseteq ToSet(Arguments[Body(n)])
  BY <1>1, <1>2, Places DEF Shape
<1>4. /\ InOrder(inputs[n], Inputs[n]) /\ InOrder(outputs[n], Outputs[n])
      /\ InOrder(arguments[Body(n)], Arguments[Body(n)]) /\ InOrder(results[Body(n)], Results[Body(n)])
  BY <1>1 DEF RowsAt
<1>5. NoneTwice(Inputs[n]) /\ NoneTwice(Outputs[n])
  BY <1>1, NoneTwiceIs
<1>6. SameImage(LoopOutput, inputs[n], outputs[n])
  BY <1>1 DEF Balanced, ThetaOK, SameImage
<1>7. SameImage(InputOf, arguments[Body(n)], inputs[n])
  <2>1. \A a \in ToSet(arguments[Body(n)]) : InputOf[a] \in ToSet(inputs[n])
    <3> TAKE a \in ToSet(arguments[Body(n)])
    <3>1. InputOf[a] \in ToSet(Inputs[n])
      BY <1>1, <1>3, ThetaIs
    <3>2. InputOf[a] # None
      BY <1>1, <3>1, OwnershipAssumption, Places, MemberOf
    <3> QED BY <1>1, <1>2, <3>2 DEF TiedAt
  <2> QED BY <1>1, <2>1 DEF TiedAt, SameImage
<1>8. PICK S : S = Members(Outputs) \cup {None}
  OBVIOUS
<1>9. None \in S /\ outputs[n] \in Seq(S) /\ Outputs[n] \in Seq(S) /\ None \notin ToSet(Outputs[n])
  <2>1. Members(Outputs) \subseteq S /\ None \in S
    BY <1>8
  <2>2. outputs[n] \in Seq(S) /\ Outputs[n] \in Seq(S)
    BY <1>3, <2>1, SeqWithin
  <2> QED BY <1>1, <2>1, <2>2, OwnershipAssumption, Places, MemberOf
<1>10. PICK t : t = << None >> \o outputs[n]
  OBVIOUS
<1>11. PICK y : y = << None >> \o Outputs[n]
  OBVIOUS
<1>12. /\ t \in Seq(S) /\ ToSet(t) = {None} \cup ToSet(outputs[n]) /\ InOrder(t, y)
       /\ y \in Seq(S) /\ NoneTwice(y)
  <2>1. /\ << None >> \o outputs[n] \in Seq(S) /\ ToSet(<< None >> \o outputs[n]) = {None} \cup ToSet(outputs[n])
        /\ InOrder(<< None >> \o outputs[n], << None >> \o Outputs[n])
    BY <1>4, <1>9, OneMore
  <2>2. << None >> \o Outputs[n] \in Seq(S) /\ NoneTwice(<< None >> \o Outputs[n])
    BY <1>5, <1>9, OneMore
  <2> QED BY <1>10, <1>11, <2>1, <2>2
<1>13. SameImage(OutputOf, results[Body(n)], t)
  <2>1. \A u \in ToSet(results[Body(n)]) : OutputOf[u] \in ToSet(t)
    BY <1>1, <1>2, <1>12 DEF TiedAt
  <2>2. \E u \in ToSet(results[Body(n)]) : OutputOf[u] = None
    <3>1. PICK o \in Live : o \in ToSet(Outputs[n])
      BY <1>1 DEF NodeSwept
    <3>2. PICK i \in ToSet(Inputs[n]) : Feeds[o] = LoopFeeds(n, i)
      BY <1>1, <3>1, OutputFeedsAre
    <3>3. Results[Body(n)][1] \in Fed
      BY <3>1, <3>2 DEF Fed, FeedsOf, LoopFeeds
    <3>4. Results[Body(n)][1] \in ToSet(Results[Body(n)]) /\ OutputOf[Results[Body(n)][1]] = None
      BY <1>1, ThetaIs
    <3> QED BY <1>1, <1>2, <3>3, <3>4 DEF Kept
  <2>3. \A o \in ToSet(outputs[n]) : \E u \in ToSet(results[Body(n)]) : OutputOf[u] = o
    BY <1>1 DEF TiedAt
  <2> QED BY <1>12, <2>1, <2>2, <2>3 DEF SameImage
<1>14. Matches(LoopOutput, inputs[n], outputs[n])
  BY <1>2, <1>3, <1>4, <1>5, <1>6, StillMatches
<1>15. Matches(InputOf, arguments[Body(n)], inputs[n])
  BY <1>2, <1>3, <1>4, <1>5, <1>7, StillMatches
<1>16. Matches(OutputOf, Results[Body(n)], y)
  BY <1>2, <1>11
<1>17. Matches(OutputOf, results[Body(n)], t)
  BY <1>3, <1>4, <1>12, <1>13, <1>16, StillMatches
<1> QED BY <1>3, <1>10, <1>14, <1>15, <1>17

\* The recursion arguments come first, in the order of the outputs.
LEMMA PhiAligned ==
  ASSUME RecursionFirst, IInv, SweepInv, Done, NEW n \in nodes, Kind[n] = "phi"
  PROVE  \A k \in DOMAIN outputs[n] : RecArgument[outputs[n][k]] = arguments[Body(n)][k]
<1>1. /\ GraphOK /\ Shape /\ n \in Nodes /\ Balanced(n) /\ TiedAt(n) /\ RowsAt(n)
  <2>1. GraphOK /\ Shape /\ \A m \in Nodes : Balanced(m)
    BY EndSwept
  <2> QED BY <2>1 DEF Shape, GraphOK
<1>2. Body(n) \in Regions
  BY <1>1, BodyIs
<1>3. PICK s : s = outputs[n]
  OBVIOUS
<1>4. PICK x : x = Outputs[n]
  OBVIOUS
<1>5. PICK t : t = arguments[Body(n)]
  OBVIOUS
<1>6. PICK y : y = Arguments[Body(n)]
  OBVIOUS
<1>7. /\ s \in Seq(Members(Outputs)) /\ x \in Seq(Members(Outputs))
      /\ t \in Seq(Members(Arguments)) /\ y \in Seq(Members(Arguments))
      /\ ToSet(s) \subseteq ToSet(x) /\ InOrder(s, x) /\ InOrder(t, y)
      /\ NoneTwice(x) /\ NoneTwice(y)
  BY <1>1, <1>2, <1>3, <1>4, <1>5, <1>6, Places, NoneTwiceIs DEF Shape, RowsAt
<1>8. PICK h : Indexes(h, s, x)
  BY <1>7, InOrderIs
<1>9. PICK g : Indexes(g, t, y)
  BY <1>7, InOrderIs
<1>a. PICK a : a = Len(t)
  OBVIOUS
<1>b. PICK b : b = Len(s)
  OBVIOUS
<1>M. PICK M : M = Len(x)
  OBVIOUS
<1>10. /\ a \in Nat /\ b \in Nat /\ M \in Nat /\ DOMAIN s = 1 .. b /\ DOMAIN x = 1 .. M /\ DOMAIN y = 1 .. Len(y)
       /\ Len(y) \in Nat
  BY <1>7, <1>a, <1>b, <1>M, SeqIndex
<1>11. h \in [1 .. b -> Nat] /\ Rising(h, b) /\ \A k \in 1 .. b : h[k] \in 1 .. M /\ s[k] = x[h[k]]
  BY <1>8, <1>b, <1>M DEF Indexes
<1>12. g \in [1 .. a -> Nat] /\ Rising(g, a) /\ \A k \in 1 .. a : g[k] \in 1 .. Len(y) /\ t[k] = y[g[k]]
  BY <1>9, <1>a DEF Indexes
<1>13. /\ \A e \in ToSet(s) : \E k \in 1 .. b : s[k] = e
       /\ \A k \in 1 .. b : s[k] \in ToSet(s)
       /\ \A e \in ToSet(t) : \E k \in 1 .. a : t[k] = e
       /\ \A k \in 1 .. a : t[k] \in ToSet(t)
       /\ \A k \in 1 .. M : x[k] \in ToSet(x)
  BY <1>7, <1>a, <1>b, <1>M, IndexOf
<1>14. \A k \in 1 .. M : k \in 1 .. Len(y) /\ RecArgument[x[k]] = y[k]
  BY <1>1, <1>4, <1>6, <1>10 DEF RecursionFirst
<1>15. \A o \in ToSet(x) : RecArgument[o] \in ToSet(t) <=> o \in ToSet(s)
  BY <1>1, <1>3, <1>4, <1>5, <1>7 DEF TiedAt, Balanced
<1>16. /\ \A j, k \in 1 .. M : x[j] = x[k] => j = k
       /\ \A j, k \in 1 .. Len(y) : y[j] = y[k] => j = k
  BY <1>7, <1>10 DEF NoneTwice
<1>17. Covered(h, b, M, g, a)
  <2> SUFFICES ASSUME NEW k \in 1 .. b PROVE \E i \in 1 .. a : g[i] = h[k]
    BY DEF Covered
  <2>1. s[k] \in ToSet(s) /\ s[k] \in ToSet(x) /\ s[k] = x[h[k]] /\ h[k] \in 1 .. M
    BY <1>7, <1>11, <1>13
  <2>2. RecArgument[s[k]] \in ToSet(t)
    BY <1>15, <2>1
  <2>3. PICK i \in 1 .. a : t[i] = RecArgument[s[k]]
    BY <1>13, <2>2
  <2>4. t[i] = y[g[i]] /\ g[i] \in 1 .. Len(y)
    BY <1>12
  <2>5. RecArgument[s[k]] = y[h[k]] /\ h[k] \in 1 .. Len(y)
    BY <1>14, <2>1
  <2> QED BY <1>16, <2>3, <2>4, <2>5
<1>18. Covered(g, a, M, h, b)
  <2> SUFFICES ASSUME NEW i \in 1 .. a, g[i] <= M PROVE \E k \in 1 .. b : h[k] = g[i]
    BY DEF Covered
  <2>1. t[i] \in ToSet(t) /\ t[i] = y[g[i]] /\ g[i] \in 1 .. Len(y)
    BY <1>12, <1>13
  <2>2. g[i] \in 1 .. M
    BY <1>10, <2>1
  <2>3. RecArgument[x[g[i]]] = t[i] /\ x[g[i]] \in ToSet(x)
    BY <1>13, <1>14, <2>1, <2>2
  <2>4. x[g[i]] \in ToSet(s)
    BY <1>15, <2>1, <2>3
  <2>5. PICK k \in 1 .. b : s[k] = x[g[i]]
    BY <1>13, <2>4
  <2>6. s[k] = x[h[k]] /\ h[k] \in 1 .. M
    BY <1>11
  <2> QED BY <1>16, <2>2, <2>5, <2>6
<1>19. \A k \in 1 .. b : h[k] <= M
  BY <1>10, <1>11
<1>20. b <= a /\ \A k \in 1 .. b : g[k] = h[k]
  <2>1. /\ a \in Nat /\ b \in Nat /\ M \in Nat /\ g \in [1 .. a -> Nat] /\ h \in [1 .. b -> Nat]
        /\ Rising(g, a) /\ Rising(h, b) /\ Covered(h, b, M, g, a) /\ Covered(g, a, M, h, b)
        /\ \A k \in 1 .. b : h[k] <= M
    BY <1>10, <1>11, <1>12, <1>17, <1>18, <1>19
  <2> QED BY <2>1, SamePrefix
<1>21. \A k \in 1 .. b : RecArgument[s[k]] = t[k]
  <2> TAKE k \in 1 .. b
  <2>1. s[k] = x[h[k]] /\ h[k] \in 1 .. M /\ g[k] = h[k]
    BY <1>11, <1>20
  <2>2. k \in 1 .. a
    BY <1>10, <1>20
  <2>3. t[k] = y[g[k]]
    BY <1>12, <2>2
  <2> QED BY <1>14, <2>1, <2>3
<1> QED BY <1>3, <1>5, <1>10, <1>21

\* The row that f makes of s.
AsRow(f, s) == [k \in DOMAIN s |-> f[s[k]]]

LEMMA MatchesRow ==
  ASSUME NEW P, NEW s \in Seq(P), NEW Q, NEW t \in Seq(Q), NEW f, Matches(f, s, t)
  PROVE  AsRow(f, s) = t
BY MatchesFunction DEF AsRow

\* The elements of a variable keep the same index everywhere: the rows of each
\* node that is left correspond when the pass is done, because each variable that
\* lost a part has lost all of them, and none has overtaken another.
THEOREM StaysAligned == RecursionFirst => (Spec => []Aligned)
<1> SUFFICES ASSUME RecursionFirst PROVE Spec => []Aligned
  OBVIOUS
<1>1. IInv /\ SweepInv => Aligned
  <2> SUFFICES ASSUME IInv, SweepInv, Done, NEW n \in nodes
               PROVE  /\ Kind[n] = "gamma" => \A r \in ToSet(Subregions[n]) :
                           /\ [k \in DOMAIN results[r] |-> OutputOf[results[r][k]]] = outputs[n]
                           /\ [k \in DOMAIN arguments[r] |-> InputOf[arguments[r][k]]] = Tail(inputs[n])
                      /\ Kind[n] = "theta" =>
                           /\ [k \in DOMAIN inputs[n] |-> LoopOutput[inputs[n][k]]] = outputs[n]
                           /\ [k \in DOMAIN arguments[Body(n)] |-> InputOf[arguments[Body(n)][k]]] = inputs[n]
                           /\ [k \in DOMAIN results[Body(n)] |-> OutputOf[results[Body(n)][k]]]
                                = << None >> \o outputs[n]
                      /\ Kind[n] = "phi" => \A k \in DOMAIN outputs[n] :
                           RecArgument[outputs[n][k]] = arguments[Body(n)][k]
    BY DEF Aligned
  <2>1. Shape /\ GammaOK /\ n \in Nodes
    BY EndSwept DEF Shape
  <2>2. ASSUME Kind[n] = "gamma", NEW r \in ToSet(Subregions[n])
        PROVE  /\ [k \in DOMAIN results[r] |-> OutputOf[results[r][k]]] = outputs[n]
               /\ [k \in DOMAIN arguments[r] |-> InputOf[arguments[r][k]]] = Tail(inputs[n])
    <3>1. r \in Regions
      BY <2>1, OwnerIs
    <3>2. /\ results[r] \in Seq(Members(Results)) /\ outputs[n] \in Seq(Members(Outputs))
          /\ arguments[r] \in Seq(Members(Arguments)) /\ inputs[n] \in Seq(Members(Inputs))
          /\ Matches(OutputOf, results[r], outputs[n]) /\ Matches(InputOf, arguments[r], Tail(inputs[n]))
          /\ inputs[n] # << >>
      BY <2>1, <2>2, <3>1 DEF Shape, GammaOK
    <3>3. Tail(inputs[n]) \in Seq(Members(Inputs))
      BY <3>2, HeadTail
    <3>4. AsRow(OutputOf, results[r]) = outputs[n]
      BY <3>2, MatchesRow
    <3>5. AsRow(InputOf, arguments[r]) = Tail(inputs[n])
      BY <3>2, <3>3, MatchesRow
    <3> QED BY <3>4, <3>5 DEF AsRow
  <2>3. ASSUME Kind[n] = "theta"
        PROVE  /\ [k \in DOMAIN inputs[n] |-> LoopOutput[inputs[n][k]]] = outputs[n]
               /\ [k \in DOMAIN arguments[Body(n)] |-> InputOf[arguments[Body(n)][k]]] = inputs[n]
               /\ [k \in DOMAIN results[Body(n)] |-> OutputOf[results[Body(n)][k]]]
                    = << None >> \o outputs[n]
    <3>1. /\ Matches(LoopOutput, inputs[n], outputs[n])
          /\ Matches(InputOf, arguments[Body(n)], inputs[n])
          /\ Matches(OutputOf, results[Body(n)], << None >> \o outputs[n])
          /\ inputs[n] \in Seq(Members(Inputs)) /\ outputs[n] \in Seq(Members(Outputs))
          /\ arguments[Body(n)] \in Seq(Members(Arguments)) /\ results[Body(n)] \in Seq(Members(Results))
      BY <2>3, ThetaAligned
    <3>2. PICK t : t = << None >> \o outputs[n]
      OBVIOUS
    <3>3. t \in Seq(Members(Outputs) \cup {None})
      <4>1. PICK S : S = Members(Outputs) \cup {None}
        OBVIOUS
      <4>2. None \in S /\ Members(Outputs) \subseteq S
        BY <4>1
      <4>3. outputs[n] \in Seq(S)
        BY <3>1, <4>2, SeqWithin
      <4>4. << None >> \o outputs[n] \in Seq(S)
        BY <4>2, <4>3, ConsIs
      <4> QED BY <3>2, <4>1, <4>4
    <3>4. Matches(OutputOf, results[Body(n)], t)
      BY <3>1, <3>2
    <3>5. AsRow(OutputOf, results[Body(n)]) = t
      BY <3>1, <3>3, <3>4, MatchesRow
    <3>6. AsRow(LoopOutput, inputs[n]) = outputs[n]
      BY <3>1, MatchesRow
    <3>7. AsRow(InputOf, arguments[Body(n)]) = inputs[n]
      BY <3>1, MatchesRow
    <3>8. AsRow(OutputOf, results[Body(n)]) = << None >> \o outputs[n]
      BY <3>2, <3>5
    <3> QED BY <3>6, <3>7, <3>8 DEF AsRow
  <2> QED BY <2>2, <2>3, PhiAligned
<1> QED BY <1>1, SweepInvariant, PTL

-----------------------------------------------------------------------------
(* What the mark phase reaches beyond what is needed. *)

\* With origins f, N holds what the results of the graph and N itself are
\* computed from.
Closed(f, N) == N \subseteq AllSources /\ \A u \in FeedsOf(N) : f[u] \in N

LEMMA NeededIsClosed ==
  ASSUME origin \in Wirings
  PROVE  Closed(origin, Needed)
<1> DEFINE N == Cardinality(AllSources)
<1>1. \A u \in FeedsOf(AllSources) : origin[u] \in AllSources
  <2>1. FeedsOf(AllSources) \subseteq AllUses
    <3>1. Root \in DOMAIN Results
      BY OwnershipAssumption
    <3>2. ToSet(Results[Root]) \subseteq AllUses
      BY <3>1, MemberOf DEF AllUses
    <3> QED BY <3>2, FeedsTyped DEF FeedsOf
  <2> QED BY <2>1, OriginRegion
<1>2. PICK f : AreRounds(f, AllSources)
  BY <1>1, NeededRounds
<1>3. IsFiniteSet(AllSources) /\ N \in Nat
  BY <1>1, NeededRounds
<1>4. /\ \A k \in Nat : f[k] \in SUBSET AllSources /\ f[k + 1] = Further(f[k])
      /\ f[0] = From(ToSet(Results[Root])) /\ Needed = f[N]
  BY <1>2 DEF AreRounds
<1> HIDE DEF N
<1>5. \A k \in Nat : IsFiniteSet(f[k]) /\ Cardinality(f[k]) \in Nat /\ Cardinality(f[k]) <= N
  <2> TAKE k \in Nat
  <2>1. f[k] \in SUBSET AllSources
    BY <1>4
  <2>2. IsFiniteSet(f[k]) /\ Cardinality(f[k]) <= N
    BY <1>3, <2>1, FS_Subset DEF N
  <2> QED BY <2>2, FS_CardinalityType
<1> DEFINE A == {k \in Nat : f[0] \subseteq f[k] /\ (f[k + 1] = f[k] \/ Cardinality(f[k]) >= k)}
<1>6. 0 \in A
  BY <1>5
<1>7. ASSUME NEW k \in Nat, k \in A
      PROVE  k + 1 \in A
  <2>1. /\ k + 1 \in Nat /\ f[k + 1] = Further(f[k]) /\ f[(k + 1) + 1] = Further(f[k + 1])
        /\ f[k] \subseteq f[k + 1]
    <3>1. k + 1 \in Nat
      OBVIOUS
    <3> QED BY <1>4, <3>1 DEF Further
  <2>2. f[0] \subseteq f[k + 1]
    BY <1>7, <2>1
  <2>3. CASE f[k + 1] = f[k]
    BY <2>1, <2>2, <2>3
  <2>4. CASE f[k + 1] # f[k]
    <3>1. Cardinality(f[k]) >= k
      BY <1>7, <2>4
    <3>2. f[k] \in SUBSET f[k + 1] /\ IsFiniteSet(f[k + 1])
      BY <1>5, <2>1
    <3>3. Cardinality(f[k]) <= Cardinality(f[k + 1]) /\ Cardinality(f[k]) # Cardinality(f[k + 1])
      BY <2>4, <3>2, FS_Subset
    <3>4. Cardinality(f[k]) \in Nat /\ Cardinality(f[k + 1]) \in Nat
      BY <1>5, <2>1
    <3>5. Cardinality(f[k + 1]) >= k + 1
      BY <3>1, <3>3, <3>4
    <3> QED BY <2>1, <2>2, <3>5
  <2> QED BY <2>3, <2>4
<1>8. Nat \subseteq A
  <2> HIDE DEF A
  <2> QED BY <1>6, <1>7, SetInduction
<1>9. f[0] \subseteq f[N] /\ f[N] \in SUBSET AllSources
  BY <1>3, <1>4, <1>8
<1>10. f[N + 1] = f[N]
  <2>1. CASE Cardinality(f[N]) >= N
    <3>1. Cardinality(f[N]) = N
      BY <1>3, <1>5, <2>1
    <3>2. f[N] = AllSources
      BY <1>3, <1>9, <3>1, FS_Subset DEF N
    <3>3. N + 1 \in Nat
      BY <1>3
    <3>4. f[N] \subseteq f[N + 1] /\ f[N + 1] \subseteq AllSources
      BY <1>3, <1>4, <3>3 DEF Further
    <3> QED BY <3>2, <3>4
  <2> QED BY <1>3, <1>8, <2>1
<1>11. Further(Needed) = Needed /\ From(ToSet(Results[Root])) \subseteq Needed /\ Needed \subseteq AllSources
  BY <1>3, <1>4, <1>9, <1>10
<1> QED BY <1>11 DEF Closed, FeedsOf, Further, From

\* What is inside a node is needed only with an output of the node.
LEMMA NeededFromOutside ==
  ASSUME origin \in Wirings, NEW m \in Nodes, NEW r \in Inside[m], NEW x \in SourcesIn(r), x \in Needed
  PROVE  ToSet(Outputs[m]) \cap Needed # {}
<1> DEFINE Outer(s) == \A q \in Regions : s \in SourcesIn(q) =>
                         \A p \in Nodes : q \in Inside[p] => ToSet(Outputs[p]) \cap Needed # {}
           L == {s \in Needed : Outer(s)}
<1>1. Closed(origin, Needed)
  BY NeededIsClosed
<1>2. L \subseteq AllSources
  BY <1>1 DEF Closed
<1>3. ASSUME NEW u \in FeedsOf(L)
      PROVE  origin[u] \in L
  <2>1. origin[u] \in Needed
    BY <1>1, <1>3 DEF Closed, FeedsOf
  <2>2. ASSUME NEW q \in Regions, origin[u] \in SourcesIn(q), NEW p \in Nodes, q \in Inside[p]
        PROVE  ToSet(Outputs[p]) \cap Needed # {}
    <3>1. CASE u \in ToSet(Results[Root])
      <4>1. origin[u] \in SourcesIn(Root) /\ Root \in Regions
        BY <3>1, OriginRegion, OwnershipAssumption
      <4>2. q = Root
        BY <2>2, <4>1, OneRegion
      <4> QED BY <2>2, <4>2, InsideIs
    <3>2. CASE u \notin ToSet(Results[Root])
      <4>1. PICK s \in L : u \in Feeds[s]
        BY <1>3, <3>2 DEF FeedsOf
      <4>2. s \in AllSources /\ s \in Needed /\ Outer(s)
        BY <1>2, <4>1
      <4>3. PICK n \in Nodes : Belongs(s, n)
        BY <4>1, <4>2, BelongsSomewhere, RootFeeds
      <4>4. PartOf(u, n)
        BY <4>1, <4>3, FedPart
      <4> HIDE DEF L, Outer
      <4>5. RegionOf[n] \in Inside[p] => ToSet(Outputs[p]) \cap Needed # {}
        <5> SUFFICES ASSUME RegionOf[n] \in Inside[p] PROVE ToSet(Outputs[p]) \cap Needed # {}
          OBVIOUS
        <5>1. CASE s \in ToSet(Outputs[n])
          BY <4>2, <5>1, SourceRegion DEF Outer
        <5>2. CASE \E z \in ToSet(Subregions[n]) : s \in ToSet(Arguments[z])
          <6>1. PICK z \in ToSet(Subregions[n]) : s \in ToSet(Arguments[z])
            BY <5>2
          <6>2. z \in Regions \ {Root} /\ Owner[z] = n
            BY OwnerIs
          <6>3. z \in Inside[p]
            BY <6>2, InsideIs
          <6> QED BY <4>2, <6>1, <6>2, <6>3, SourceRegion DEF Outer
        <5> QED BY <4>3, <5>1, <5>2 DEF Belongs
      <4>6. CASE u \in ToSet(Inputs[n])
        <5>1. origin[u] \in SourcesIn(RegionOf[n]) /\ RegionOf[n] \in Regions
          BY <4>6, OriginRegion, SourceRegion
        <5>2. q = RegionOf[n]
          BY <2>2, <5>1, OneRegion
        <5> QED BY <2>2, <4>5, <5>2
      <4>7. CASE \E z \in ToSet(Subregions[n]) : u \in ToSet(Results[z])
        <5>1. PICK z \in ToSet(Subregions[n]) : u \in ToSet(Results[z])
          BY <4>7
        <5>2. z \in Regions \ {Root} /\ Owner[z] = n
          BY OwnerIs
        <5>3. origin[u] \in SourcesIn(z)
          BY <5>1, <5>2, OriginRegion
        <5>4. q = z
          BY <2>2, <5>2, <5>3, OneRegion
        <5>5. n = p \/ RegionOf[n] \in Inside[p]
          BY <2>2, <5>2, <5>4, InsideIs
        <5>6. CASE n = p
          <6>1. CASE s \in ToSet(Outputs[n])
            BY <4>2, <5>6, <6>1
          <6>2. CASE \E y \in ToSet(Subregions[n]) : s \in ToSet(Arguments[y])
            <7>1. PICK y \in ToSet(Subregions[n]) : s \in ToSet(Arguments[y])
              BY <6>2
            <7>2. y \in Regions \ {Root} /\ Owner[y] = n
              BY OwnerIs
            <7>3. y \in Inside[p]
              BY <5>6, <7>2, InsideIs
            <7> QED BY <4>2, <7>1, <7>2, <7>3, SourceRegion DEF Outer
          <6> QED BY <4>3, <6>1, <6>2 DEF Belongs
        <5> QED BY <4>5, <5>5, <5>6
      <4> QED BY <4>4, <4>6, <4>7 DEF PartOf
    <3> QED BY <3>1, <3>2
  <2> QED BY <2>1, <2>2
<1>4. Needed \subseteq L
  <2> HIDE DEF L
  <2> QED BY <1>2, <1>3, NeededRounds
<1>5. r \in Regions
  BY InsideIs
<1> QED BY <1>4, <1>5

\* s is in N, or is marked along with what is: the outputs of a simple node are
\* marked together, and the output of a loop variable with its argument.
Along(N, s) ==
  \/ s \in N
  \/ \E n \in Nodes : /\ Kind[n] = "simple" /\ s \in ToSet(Outputs[n])
                      /\ ToSet(Outputs[n]) \cap N # {}
  \/ \E n \in Nodes : /\ Kind[n] = "theta" /\ s \in ToSet(Outputs[n])
                      /\ \E a \in ToSet(Arguments[Body(n)]) \cap N : LoopOutput[InputOf[a]] = s

LEMMA OneOwner ==
  ASSUME NEW n \in Nodes, NEW m \in Nodes, NEW s \in ToSet(Outputs[n]), s \in ToSet(Outputs[m])
  PROVE  n = m
BY Places, OnePlace

\* Arguments are not outputs.
LEMMA ArgumentAlong ==
  ASSUME NEW N, NEW s \in Members(Arguments), Along(N, s)
  PROVE  s \in N
<1>1. \A n \in Nodes : s \notin ToSet(Outputs[n])
  BY FeedsOut, OwnershipAssumption
<1> QED BY <1>1 DEF Along

LEMMA MarkedAlong ==
  ASSUME NEW f \in Wirings, NEW N, Closed(f, N), NEW s \in AllSources, Along(N, s),
         NEW t, t \in Group(s) \/ t \in CallsOf(f, s)
  PROVE  Along(N, t)
<1>1. \A z \in N : \A u \in Feeds[z] : f[u] \in N
  BY DEF Closed, FeedsOf
<1>2. CASE t \in Group(s)
  <2>1. CASE t = s
    BY <2>1
  <2>2. CASE t # s
    <3>1. PICK n \in Nodes : Kind[n] = "simple" /\ s \in ToSet(Outputs[n]) /\ t \in ToSet(Outputs[n])
      BY <1>2, <2>2, GroupIs
    <3>2. \A m \in Nodes : s \in ToSet(Outputs[m]) => m = n
      BY <3>1, OneOwner
    <3>3. ToSet(Outputs[n]) \cap N # {}
      BY <3>1, <3>2 DEF Along
    <3> QED BY <3>1, <3>3 DEF Along
  <2> QED BY <2>1, <2>2
<1>3. CASE t \in CallsOf(f, s)
  <2>1. CASE IsLoopArgument(s)
    <3>1. PICK n \in Nodes : Kind[n] = "theta" /\ s \in ToSet(Arguments[Body(n)])
      BY <2>1 DEF IsLoopArgument
    <3>2. Body(n) \in ToSet(Subregions[n]) /\ Body(n) \in Regions
      BY <3>1, BodyIs
    <3>3. s \in Members(Arguments)
      BY <3>1, <3>2, FeedsArgument
    <3>4. s \in N
      BY <3>3, ArgumentAlong
    <3>5. InputOf[s] \in ToSet(Inputs[n]) /\ LoopOutput[InputOf[s]] \in ToSet(Outputs[n])
      BY <3>1, ThetaIs
    <3>6. Feeds[s] = LoopFeeds(n, InputOf[s])
      BY <3>1, <3>2, ArgumentFeedsAre
    <3>7. CASE t = LoopOutput[InputOf[s]]
      BY <3>1, <3>4, <3>5, <3>7 DEF Along
    <3>8. CASE t = f[InputOf[s]]
      <4>1. InputOf[s] \in Feeds[s]
        BY <3>6 DEF LoopFeeds
      <4> QED BY <1>1, <3>4, <3>8, <4>1 DEF Along
    <3> QED BY <1>3, <2>1, <3>7, <3>8 DEF CallsOf
  <2>2. CASE ~IsLoopArgument(s)
    <3>1. PICK u \in Feeds[s] : t = f[u]
      BY <1>3, <2>2 DEF CallsOf
    <3>2. CASE s \in N
      BY <1>1, <3>1, <3>2 DEF Along
    <3>3. CASE \E n \in Nodes : Kind[n] = "simple" /\ s \in ToSet(Outputs[n]) /\ ToSet(Outputs[n]) \cap N # {}
      <4>1. PICK n \in Nodes : Kind[n] = "simple" /\ s \in ToSet(Outputs[n]) /\ ToSet(Outputs[n]) \cap N # {}
        BY <3>3
      <4>2. PICK o \in ToSet(Outputs[n]) : o \in N
        BY <4>1
      <4>3. Feeds[o] = ToSet(Inputs[n]) /\ Feeds[s] = ToSet(Inputs[n])
        BY <4>1, <4>2, OutputFeedsAre
      <4> QED BY <1>1, <3>1, <4>2, <4>3 DEF Along
    <3>4. CASE \E n \in Nodes : /\ Kind[n] = "theta" /\ s \in ToSet(Outputs[n])
                                /\ \E a \in ToSet(Arguments[Body(n)]) \cap N : LoopOutput[InputOf[a]] = s
      <4>1. PICK n \in Nodes : /\ Kind[n] = "theta" /\ s \in ToSet(Outputs[n])
                               /\ \E a \in ToSet(Arguments[Body(n)]) \cap N : LoopOutput[InputOf[a]] = s
        BY <3>4
      <4>2. PICK a \in ToSet(Arguments[Body(n)]) \cap N : LoopOutput[InputOf[a]] = s
        BY <4>1
      <4>3. PICK i \in ToSet(Inputs[n]) : LoopOutput[i] = s /\ Feeds[s] = LoopFeeds(n, i)
        BY <4>1, OutputFeedsAre
      <4>4. Body(n) \in ToSet(Subregions[n])
        BY <4>1, BodyIs
      <4>5. InputOf[a] \in ToSet(Inputs[n]) /\ Feeds[a] = LoopFeeds(n, InputOf[a])
        BY <4>1, <4>2, <4>4, ArgumentFeedsAre
      <4>6. InputOf[a] = i
        BY <4>1, <4>2, <4>3, <4>5, ThetaIs
      <4> QED BY <1>1, <3>1, <4>2, <4>3, <4>5, <4>6 DEF Along
    <3> QED BY <3>2, <3>3, <3>4 DEF Along
  <2> QED BY <2>1, <2>2
<1> QED BY <1>2, <1>3

\* The mark phase reaches nothing else.
NoneElse == \A N : Closed(origin, N) => \A s \in Reach : Along(N, s)

LEMMA MarkOutputReaches ==
  ASSUME RecursionFirst, IInv, NoneElse, MarkOutput
  PROVE  NoneElse'
<1>1. origin \in Wirings /\ MarkInv
  BY DEF IInv, MarkInv
<1>2. /\ origin' = origin
      /\ \/ Reach' = Reach
         \/ \E s \in Reach : s \in AllSources /\ Reach' = Reach \cup Group(s) \cup CallsOf(origin, s)
  BY <1>1, MarkOutputMarks
<1>3. ASSUME NEW N, Closed(origin, N), NEW t \in Reach'
      PROVE  Along(N, t)
  <2>1. CASE t \in Reach
    BY <1>3, <2>1 DEF NoneElse
  <2>2. CASE t \notin Reach
    <3>1. PICK s \in Reach : s \in AllSources /\ (t \in Group(s) \/ t \in CallsOf(origin, s))
      BY <1>2, <1>3, <2>2
    <3>2. Along(N, s)
      BY <1>3, <3>1 DEF NoneElse
    <3> QED BY <1>1, <1>3, <3>1, <3>2, MarkedAlong
  <2> QED BY <2>1, <2>2
<1> QED BY <1>2, <1>3 DEF NoneElse, Along, Closed

LEMMA StartReaches ==
  ASSUME Init
  PROVE  NoneElse
<1>1. IInv
  BY InitHolds
<1>2. marks = Origins(results[Root]) /\ results = Results /\ alive = {} /\ Root \in Regions
  BY OwnershipAssumption DEF Init
<1>3. Results[Root] \in Seq(Members(Results))
  BY <1>2, Places
<1>4. ToSet(marks) = {origin[u] : u \in ToSet(Results[Root])}
  BY <1>2, <1>3, OriginsAre
<1>5. Reach = {origin[u] : u \in ToSet(Results[Root])}
  BY <1>2, <1>4 DEF Reach, Live, LiveIn
<1>6. \A u \in ToSet(Results[Root]) : \A N : Closed(origin, N) => origin[u] \in N
  BY DEF Closed, FeedsOf
<1> QED BY <1>5, <1>6 DEF NoneElse, Along

\* The sweep marks nothing and changes no origin.
LEMMA SweepMarksNone ==
  ASSUME Next, ~MarkOutput
  PROVE  alive' = alive /\ marks' = marks /\ origin' = origin
<1>1. CASE StartSweep
  BY <1>1 DEF StartSweep, graph
<1>2. CASE Prune
  BY <1>2 DEF Prune, Destroy, graph
<1>3. CASE CollectNodes \/ SweptRegion
  BY <1>3 DEF CollectNodes, SweptRegion, graph
<1>4. CASE Visit
  <2>1. alive' = alive /\ marks' = marks
    BY <1>4 DEF Visit
  <2>2. PICK n \in Deepest :
          \/ RemoveDead(n) \/ SkipSimple(n) \/ SweepGamma(n) \/ SweepTheta(n)
          \/ SweepLambda(n) \/ SweepDelta(n) \/ SweepPhi(n)
    BY <1>4 DEF Visit
  <2>3. CASE RemoveDead(n)
    BY <2>1, <2>3 DEF RemoveDead, Destroy
  <2>4. CASE SkipSimple(n) \/ SweepLambda(n) \/ SweepDelta(n)
    BY <2>1, <2>4 DEF SkipSimple, SweepLambda, SweepDelta, graph
  <2>5. CASE SweepGamma(n)
    BY <2>1, <2>5 DEF SweepGamma
  <2>6. CASE SweepTheta(n)
    BY <2>1, <2>6 DEF SweepTheta, RemoveOutputs
  <2>7. CASE SweepPhi(n)
    BY <2>1, <2>7 DEF SweepPhi, RemoveOutputs
  <2> QED BY <2>2, <2>3, <2>4, <2>5, <2>6, <2>7
<1>5. CASE GammaInputs \/ RemoveImports
  BY <1>5 DEF GammaInputs, RemoveImports
<1>6. CASE ThetaInputs
  BY <1>6 DEF ThetaInputs, RemoveInputs
<1>7. CASE ContextInputs
  BY <1>7 DEF ContextInputs, RemoveInputs
<1>8. CASE PhiArguments
  BY <1>8 DEF PhiArguments, RemoveInputs
<1>9. CASE Terminated
  BY <1>9 DEF Terminated, vars, graph
<1> QED BY <1>1, <1>2, <1>3, <1>4, <1>5, <1>6, <1>7, <1>8, <1>9 DEF Next

LEMMA NextReaches ==
  ASSUME RecursionFirst, IInv, NoneElse, [Next]_vars
  PROVE  NoneElse'
<1>1. CASE MarkOutput
  BY <1>1, MarkOutputReaches
<1>2. CASE ~MarkOutput
  <2>1. alive' = alive /\ marks' = marks /\ origin' = origin
    BY <1>2, SweepMarksNone DEF vars, graph
  <2> QED BY <2>1 DEF NoneElse, Reach, Live, Along, Closed
<1> QED BY <1>1, <1>2

\* So what is live when the pass is done is needed, or left with what is.
LEMMA EndNeeded ==
  ASSUME IInv, SweepInv, NoneElse, Done
  PROVE  /\ Needed \subseteq Live
         /\ \A s \in Live \cap Members(Arguments) : s \in Needed
         /\ \A n \in Nodes : ToSet(Outputs[n]) \cap Live # {} => ToSet(Outputs[n]) \cap Needed # {}
         /\ \A n \in Nodes : Kind[n] \notin {"simple", "theta"} => ToSet(Outputs[n]) \cap Live \subseteq Needed
         /\ \A n \in Nodes : Kind[n] = "theta" => \A o \in ToSet(Outputs[n]) \cap Live :
              o \in Needed \/ \E a \in ToSet(Arguments[Body(n)]) \cap Needed : LoopOutput[InputOf[a]] = o
<1>1. origin \in Wirings /\ Reached(origin, Live, Live)
  BY EndSwept
<1>2. Needed \subseteq Live /\ Closed(origin, Needed)
  BY <1>1, NeededIsMarked, NeededIsClosed
<1>3. \A s \in Live : Along(Needed, s)
  BY <1>2 DEF NoneElse, Reach
<1>4. \A s \in Live \cap Members(Arguments) : s \in Needed
  BY <1>3, ArgumentAlong
<1>5. ASSUME NEW n \in Nodes, NEW o \in ToSet(Outputs[n]), o \in Live
      PROVE  /\ ToSet(Outputs[n]) \cap Needed # {}
             /\ Kind[n] \notin {"simple", "theta"} => o \in Needed
             /\ Kind[n] = "theta" =>
                  o \in Needed \/ \E a \in ToSet(Arguments[Body(n)]) \cap Needed : LoopOutput[InputOf[a]] = o
  <2>1. Along(Needed, o)
    BY <1>3, <1>5
  <2>2. CASE o \in Needed
    BY <1>5, <2>2
  <2>3. CASE \E m \in Nodes : /\ Kind[m] = "simple" /\ o \in ToSet(Outputs[m])
                              /\ ToSet(Outputs[m]) \cap Needed # {}
    <3>1. PICK m \in Nodes : /\ Kind[m] = "simple" /\ o \in ToSet(Outputs[m])
                             /\ ToSet(Outputs[m]) \cap Needed # {}
      BY <2>3
    <3>2. m = n
      BY <1>5, <3>1, OneOwner
    <3> QED BY <3>1, <3>2
  <2>4. CASE \E m \in Nodes : /\ Kind[m] = "theta" /\ o \in ToSet(Outputs[m])
                              /\ \E a \in ToSet(Arguments[Body(m)]) \cap Needed : LoopOutput[InputOf[a]] = o
    <3>1. PICK m \in Nodes : /\ Kind[m] = "theta" /\ o \in ToSet(Outputs[m])
                             /\ \E a \in ToSet(Arguments[Body(m)]) \cap Needed : LoopOutput[InputOf[a]] = o
      BY <2>4
    <3>2. m = n
      BY <1>5, <3>1, OneOwner
    <3>3. PICK a \in ToSet(Arguments[Body(n)]) : a \in Needed /\ LoopOutput[InputOf[a]] = o
      BY <3>1, <3>2
    <3>4. Body(n) \in Regions \ {Root} /\ Owner[Body(n)] = n
      BY <3>1, <3>2, BodyIs
    <3>5. Body(n) \in Inside[n] /\ a \in SourcesIn(Body(n))
      BY <3>4, InsideIs, SourceRegion
    <3>6. ToSet(Outputs[n]) \cap Needed # {}
      BY <1>1, <3>3, <3>5, NeededFromOutside
    <3> QED BY <3>1, <3>2, <3>3, <3>6
  <2> QED BY <2>1, <2>2, <2>3, <2>4 DEF Along
<1> QED BY <1>2, <1>4, <1>5

\* The arguments that are there and stand for input i.
ArgumentsOf(i) == {a \in Members(arguments) : InputOf[a] = i}

LEMMA ArgumentsOfIs ==
  ASSUME Shape, NEW n \in Nodes, NEW i \in ToSet(inputs[n])
  PROVE  \A a \in ArgumentsOf(i) : \E r \in ToSet(Subregions[n]) : a \in ToSet(arguments[r])
<1> TAKE a \in ArgumentsOf(i)
<1>1. a \in Members(arguments) /\ InputOf[a] = i /\ DOMAIN arguments = Regions
  BY DEF ArgumentsOf, Shape
<1>2. PICK r \in Regions : a \in ToSet(arguments[r])
  BY <1>1, PlaceOf
<1>3. a \in ToSet(Arguments[r]) /\ InputOf[a] \in ToSet(Inputs[n])
  BY <1>1, <1>2 DEF Shape
<1> QED BY <1>2, <1>3, ArgumentPlace

\* What is left of a node, and of its variables.
OnlyNeeded(n) ==
  /\ ToSet(outputs[n]) \cap Needed # {}
  /\ Kind[n] = "gamma" =>
       /\ ToSet(outputs[n]) \subseteq Needed
       /\ \A i \in ToSet(Tail(inputs[n])) : ArgumentsOf(i) \cap Needed # {}
  /\ Kind[n] = "theta" => \A i \in ToSet(inputs[n]) :
       ({LoopOutput[i]} \cup ArgumentsOf(i)) \cap Needed # {}
  /\ Kind[n] \in {"lambda", "delta", "phi"} =>
       \A i \in ToSet(inputs[n]) : ArgumentsOf(i) \subseteq Needed
  /\ Kind[n] = "phi" =>
       \A o \in ToSet(outputs[n]) : {o, RecArgument[o]} \cap Needed # {}

LEMMA NodeOnlyNeeded ==
  ASSUME IInv, SweepInv, NoneElse, Done, NEW n \in nodes
  PROVE  OnlyNeeded(n)
<1>1. Shape /\ Kept /\ GammaOK /\ NodeSwept(n) /\ n \in Nodes
  BY EndSwept DEF Shape
<1>2. /\ Needed \subseteq Live
      /\ \A s \in Live \cap Members(Arguments) : s \in Needed
      /\ ToSet(Outputs[n]) \cap Live # {} => ToSet(Outputs[n]) \cap Needed # {}
      /\ Kind[n] \notin {"simple", "theta"} => ToSet(Outputs[n]) \cap Live \subseteq Needed
      /\ Kind[n] = "theta" => \A o \in ToSet(Outputs[n]) \cap Live :
           o \in Needed \/ \E a \in ToSet(Arguments[Body(n)]) \cap Needed : LoopOutput[InputOf[a]] = o
  BY <1>1, EndNeeded
<1>3. /\ ToSet(outputs[n]) \subseteq ToSet(Outputs[n]) /\ ToSet(inputs[n]) \subseteq ToSet(Inputs[n])
      /\ \A o \in ToSet(Outputs[n]) \cap Live : o \in ToSet(outputs[n])
  BY <1>1 DEF Shape, Kept
<1>4. ASSUME NEW r \in ToSet(Subregions[n]), NEW a \in ToSet(Arguments[r]), a \in Live, NEW i, InputOf[a] = i
      PROVE  a \in ArgumentsOf(i) \cap Needed
  <2>1. r \in Regions /\ r \in DOMAIN Arguments /\ r \in DOMAIN arguments
    BY <1>1, OwnerIs, Places DEF Shape
  <2>2. a \in ToSet(arguments[r]) /\ a \in Members(Arguments)
    BY <1>1, <1>4, <2>1, MemberOf DEF Kept
  <2>3. a \in Members(arguments)
    BY <2>1, <2>2, MemberOf
  <2> QED BY <1>2, <1>4, <2>2, <2>3 DEF ArgumentsOf
<1>5. ToSet(outputs[n]) \cap Needed # {}
  BY <1>1, <1>2, <1>3 DEF NodeSwept
<1>6. ASSUME Kind[n] = "gamma"
      PROVE  /\ ToSet(outputs[n]) \subseteq Needed
             /\ \A i \in ToSet(Tail(inputs[n])) : ArgumentsOf(i) \cap Needed # {}
  <2>1. ToSet(outputs[n]) \subseteq Needed
    BY <1>1, <1>2, <1>3, <1>6 DEF NodeSwept
  <2>2. ASSUME NEW i \in ToSet(Tail(inputs[n]))
        PROVE  ArgumentsOf(i) \cap Needed # {}
    <3>1. inputs[n] \in Seq(Members(Inputs)) /\ inputs[n] # << >>
      BY <1>1, <1>6 DEF GammaOK, Shape
    <3>2. i \in ToSet(inputs[n])
      BY <3>1, HeadTail
    <3>3. i \in ToSet(Tail(Inputs[n]))
      BY <1>1, <1>6 DEF GammaOK
    <3>4. PICK a \in Live : StandsFor(a, i, n)
      BY <1>1, <1>6, <3>2, <3>3 DEF NodeSwept
    <3> QED BY <1>4, <3>4 DEF StandsFor
  <2> QED BY <2>1, <2>2
<1>7. ASSUME Kind[n] = "theta", NEW i \in ToSet(inputs[n])
      PROVE  ({LoopOutput[i]} \cup ArgumentsOf(i)) \cap Needed # {}
  <2>1. LoopOutput[i] \in Live /\ LoopOutput[i] \in ToSet(Outputs[n]) /\ i \in ToSet(Inputs[n])
    BY <1>1, <1>3, <1>7, ThetaIs DEF NodeSwept
  <2>2. CASE LoopOutput[i] \in Needed
    BY <2>2
  <2>3. CASE LoopOutput[i] \notin Needed
    <3>1. PICK a \in ToSet(Arguments[Body(n)]) : a \in Needed /\ LoopOutput[InputOf[a]] = LoopOutput[i]
      BY <1>2, <1>7, <2>1, <2>3
    <3>2. InputOf[a] = i
      BY <1>1, <1>7, <2>1, <3>1, ThetaIs
    <3>3. Body(n) \in ToSet(Subregions[n])
      BY <1>1, <1>7, BodyIs
    <3>4. a \in ArgumentsOf(i) \cap Needed
      BY <1>2, <1>4, <3>1, <3>2, <3>3
    <3> QED BY <3>4
  <2> QED BY <2>2, <2>3
<1>8. ASSUME Kind[n] \in {"lambda", "delta", "phi"}, NEW i \in ToSet(inputs[n]), NEW a \in ArgumentsOf(i)
      PROVE  a \in Needed
  <2>1. ToSet(Subregions[n]) = {Body(n)} /\ Body(n) \in Regions
    BY <1>1, <1>8, BodyIs
  <2>2. a \in ToSet(arguments[Body(n)])
    BY <1>1, <1>8, <2>1, ArgumentsOfIs
  <2>3. InputOf[a] # None
    <3>1. i \in Members(Inputs)
      BY <1>1, <1>3, <1>8, Places, MemberOf
    <3> QED BY <1>8, <3>1, OwnershipAssumption DEF ArgumentsOf
  <2>4. a \in Live
    BY <1>1, <1>8, <2>2, <2>3 DEF NodeSwept
  <2>5. a \in Members(Arguments)
    BY <1>1, <2>1, <2>2, Places, MemberOf DEF Shape
  <2> QED BY <1>2, <2>4, <2>5
<1>9. ASSUME Kind[n] = "phi", NEW o \in ToSet(outputs[n])
      PROVE  {o, RecArgument[o]} \cap Needed # {}
  <2>1. RecursionLive(o) /\ o \in ToSet(Outputs[n])
    BY <1>1, <1>3, <1>9 DEF NodeSwept
  <2>2. CASE o \in Live
    BY <1>2, <1>9, <2>1, <2>2
  <2>3. CASE RecArgument[o] \in Live
    <3>1. RecArgument[o] \in ToSet(Arguments[Body(n)])
      BY <1>1, <1>9, <2>1, PhiIs
    <3>2. Body(n) \in DOMAIN Arguments
      BY <1>1, <1>9, BodyIs, Places
    <3>3. RecArgument[o] \in Members(Arguments)
      BY <3>1, <3>2, MemberOf
    <3> QED BY <1>2, <2>3, <3>3
  <2> QED BY <2>1, <2>2, <2>3 DEF RecursionLive
<1>10. Kind[n] \in {"lambda", "delta", "phi"} => \A i \in ToSet(inputs[n]) : ArgumentsOf(i) \subseteq Needed
  BY <1>8
<1>11. Kind[n] = "theta" => \A i \in ToSet(inputs[n]) : ({LoopOutput[i]} \cup ArgumentsOf(i)) \cap Needed # {}
  BY <1>7
<1> QED BY <1>5, <1>6, <1>9, <1>10, <1>11 DEF OnlyNeeded

\* The pass removes everything else in one run: the mark phase reaches no more
\* than what is needed, the outputs of the same simple nodes and the outputs of
\* the same loop variables, and what it does not reach is not left.
THEOREM NothingElseStays == RecursionFirst => (Spec => []KeepsNothingElse)
<1> SUFFICES ASSUME RecursionFirst PROVE Spec => []KeepsNothingElse
  OBVIOUS
<1>1. Init => NoneElse
  BY StartReaches
<1>2. IInv /\ NoneElse /\ [Next]_vars => NoneElse'
  BY NextReaches
<1>3. IInv /\ SweepInv /\ NoneElse => KeepsNothingElse
  <2> SUFFICES ASSUME IInv, SweepInv, NoneElse, Done PROVE KeepsNothingElse
    BY DEF KeepsNothingElse
  <2>1. \A n \in nodes : OnlyNeeded(n)
    BY NodeOnlyNeeded
  <2>2. ToSet(arguments[Root]) \subseteq Needed
    <3>1. ToSet(arguments[Root]) \subseteq Live /\ Shape
      BY EndSwept
    <3>2. Root \in Regions /\ Root \in DOMAIN Arguments
      BY OwnershipAssumption
    <3>3. ToSet(arguments[Root]) \subseteq Members(Arguments)
      BY <3>1, <3>2, MemberOf DEF Shape
    <3> QED BY <3>1, <3>3, EndNeeded
  <2> QED BY <2>1, <2>2 DEF KeepsNothingElse, OnlyNeeded, ArgumentsOf
<1> QED BY <1>1, <1>2, <1>3, SweepInvariant, PTL DEF Spec
=============================================================================

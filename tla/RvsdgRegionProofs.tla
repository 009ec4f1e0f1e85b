-------------------------- MODULE RvsdgRegionProofs --------------------------
(***************************************************************************)
(* Proofs about RvsdgRegion, for regions of any size.                      *)
(***************************************************************************)
EXTENDS RvsdgRegion, FiniteSetTheorems, TLAPS

-----------------------------------------------------------------------------
(* The elements of sequences. *)

LEMMA OneElement ==
  ASSUME NEW S, NEW x \in S
  PROVE  << x >> \in Seq(S) /\ ToSet(<< x >>) = {x}
BY DEF ToSet

LEMMA NoElement ==
  ASSUME NEW S
  PROVE  /\ << >> \in Seq(S)
         /\ \A s \in Seq(S) : ToSet(s) = {} <=> s = << >>
BY DEF ToSet

LEMMA ConcatElements ==
  ASSUME NEW S, NEW s \in Seq(S), NEW t \in Seq(S)
  PROVE  s \o t \in Seq(S) /\ ToSet(s \o t) = ToSet(s) \cup ToSet(t)
<1> DEFINE c == s \o t
<1>0. c \in Seq(S)
  OBVIOUS
<1>1. \A k \in DOMAIN s : k \in DOMAIN c /\ c[k] = s[k]
  OBVIOUS
<1>2. \A k \in DOMAIN t : \E l \in DOMAIN c : c[l] = t[k]
  <2> TAKE k \in DOMAIN t
  <2>1. Len(s) + k \in DOMAIN c /\ c[Len(s) + k] = t[k]
    OBVIOUS
  <2> QED BY <2>1
<1>3. \A k \in DOMAIN c : \/ k \in DOMAIN s /\ c[k] = s[k]
                         \/ \E l \in DOMAIN t : c[k] = t[l]
  <2> TAKE k \in DOMAIN c
  <2>1. CASE k \in DOMAIN s
    BY <2>1
  <2>2. CASE k \notin DOMAIN s
    <3>1. k - Len(s) \in DOMAIN t /\ c[k] = t[k - Len(s)]
      BY <2>2
    <3> QED BY <3>1
  <2> QED BY <2>1, <2>2
<1> HIDE DEF c
<1>4. ToSet(c) = ToSet(s) \cup ToSet(t)
  <2>1. \A x : x \in ToSet(s) \/ x \in ToSet(t) => x \in ToSet(c)
    BY <1>1, <1>2 DEF ToSet
  <2>2. \A x : x \in ToSet(c) => x \in ToSet(s) \/ x \in ToSet(t)
    BY <1>3 DEF ToSet
  <2> QED BY <2>1, <2>2
<1> QED BY <1>0, <1>4 DEF c

LEMMA TailElements ==
  ASSUME NEW S, NEW s \in Seq(S), s # << >>
  PROVE  /\ Head(s) \in S /\ Tail(s) \in Seq(S)
         /\ ToSet(s) = {Head(s)} \cup ToSet(Tail(s))
<1> DEFINE t == Tail(s)
           h == Head(s)
<1>1. h \in S /\ t \in Seq(S) /\ h = s[1] /\ 1 \in DOMAIN s
  OBVIOUS
<1>2. \A k \in DOMAIN t : \E l \in DOMAIN s : t[k] = s[l]
  <2> TAKE k \in DOMAIN t
  <2>1. k + 1 \in DOMAIN s /\ t[k] = s[k + 1]
    OBVIOUS
  <2> QED BY <2>1
<1>3. \A k \in DOMAIN s : s[k] = h \/ \E l \in DOMAIN t : s[k] = t[l]
  <2> TAKE k \in DOMAIN s
  <2>1. CASE k = 1
    BY <2>1
  <2>2. CASE k # 1
    <3>1. k - 1 \in DOMAIN t /\ t[k - 1] = s[k]
      BY <2>2
    <3> QED BY <3>1
  <2> QED BY <2>1, <2>2
<1> HIDE DEF t, h
<1>4. ToSet(s) = {h} \cup ToSet(t)
  <2>1. \A x : x = h \/ x \in ToSet(t) => x \in ToSet(s)
    BY <1>1, <1>2 DEF ToSet
  <2>2. \A x : x \in ToSet(s) => x = h \/ x \in ToSet(t)
    BY <1>3 DEF ToSet
  <2> QED BY <2>1, <2>2
<1> QED BY <1>1, <1>4 DEF t, h

LEMMA TailOfOne ==
  ASSUME NEW S, NEW s \in Seq(S), Len(s) = 1
  PROVE  Tail(s) = << >>
<1>1. Tail(s) \in Seq(S) /\ Len(Tail(s)) = 0
  OBVIOUS
<1>2. \A t \in Seq(S) : Len(t) = 0 => t = << >>
  OBVIOUS
<1> QED BY <1>1, <1>2

LEMMA AppendElements ==
  ASSUME NEW S, NEW s \in Seq(S), NEW x \in S
  PROVE  Append(s, x) \in Seq(S) /\ ToSet(Append(s, x)) = ToSet(s) \cup {x}
<1>1. \A k \in DOMAIN s : k \in DOMAIN Append(s, x) /\ Append(s, x)[k] = s[k]
  OBVIOUS
<1>2. Len(s) + 1 \in DOMAIN Append(s, x) /\ Append(s, x)[Len(s) + 1] = x
  OBVIOUS
<1>3. \A k \in DOMAIN Append(s, x) : k \in DOMAIN s \/ k = Len(s) + 1
  OBVIOUS
<1> QED BY <1>1, <1>2, <1>3 DEF ToSet

LEMMA RemoveAtType ==
  ASSUME NEW S, NEW s \in Seq(S), NEW i \in DOMAIN s
  PROVE  /\ RemoveAt(s, i) \in Seq(S) /\ Len(RemoveAt(s, i)) = Len(s) - 1
         /\ \A k \in 1 .. Len(s) - 1 :
              RemoveAt(s, i)[k] = IF k < i THEN s[k] ELSE s[k + 1]
<1> DEFINE a == SubSeq(s, 1, i - 1)
           b == SubSeq(s, i + 1, Len(s))
<1>0. i \in 1 .. Len(s) /\ Len(s) \in Nat
  OBVIOUS
<1>1. a \in Seq(S) /\ Len(a) = i - 1 /\ \A k \in 1 .. i - 1 : a[k] = s[k]
  BY <1>0
<1>2. b \in Seq(S) /\ Len(b) = Len(s) - i /\ \A k \in 1 .. Len(s) - i : b[k] = s[k + i]
  BY <1>0
<1>3. RemoveAt(s, i) = a \o b
  BY DEF RemoveAt
<1> HIDE DEF a, b
<1> DEFINE c == a \o b
<1>4. c \in Seq(S) /\ Len(c) = Len(s) - 1
  BY <1>0, <1>1, <1>2
<1>5. \A k \in 1 .. Len(s) - 1 : c[k] = IF k < i THEN a[k] ELSE b[k - i + 1]
  <2> TAKE k \in 1 .. Len(s) - 1
  <2>1. k \in 1 .. Len(a) + Len(b)
    BY <1>0, <1>1, <1>2
  <2>0. a \in Seq(S) /\ b \in Seq(S)
    BY <1>1, <1>2
  <2>2. c[k] = IF k <= Len(a) THEN a[k] ELSE b[k - Len(a)]
    BY <2>0, <2>1
  <2>3. k <= Len(a) <=> k < i
    BY <1>0, <1>1
  <2>4. k - Len(a) = k - i + 1
    BY <1>0, <1>1
  <2> QED BY <2>2, <2>3, <2>4
<1> HIDE DEF c
<1>6. \A k \in 1 .. Len(s) - 1 : c[k] = IF k < i THEN s[k] ELSE s[k + 1]
  <2> TAKE k \in 1 .. Len(s) - 1
  <2>1. CASE k < i
    BY <2>1, <1>0, <1>1, <1>5
  <2>2. CASE ~(k < i)
    <3>1. k - i + 1 \in 1 .. Len(s) - i /\ k - i + 1 + i = k + 1
      BY <2>2, <1>0
    <3> QED BY <2>2, <3>1, <1>2, <1>5
  <2> QED BY <2>1, <2>2
<1>7. RemoveAt(s, i) = c
  BY <1>3 DEF c
<1> QED BY <1>4, <1>6, <1>7

\* Detaching one input of many, and diverting it.
LEMMA RemoveElements ==
  ASSUME NEW S, NEW s \in Seq(S), NEW i \in DOMAIN s
  PROVE  RemoveAt(s, i) \in Seq(S) /\ ToSet(s) = ToSet(RemoveAt(s, i)) \cup {s[i]}
<1> DEFINE r == RemoveAt(s, i)
<1>1. /\ r \in Seq(S) /\ Len(r) = Len(s) - 1
      /\ \A k \in 1 .. Len(r) : r[k] = IF k < i THEN s[k] ELSE s[k + 1]
  BY RemoveAtType
<1> HIDE DEF r
<1>2. \A k \in DOMAIN r : \E l \in DOMAIN s : r[k] = s[l]
  BY <1>1
<1>3. \A l \in DOMAIN s : l # i => \E k \in DOMAIN r : r[k] = s[l]
  <2> TAKE l \in DOMAIN s
  <2> HAVE l # i
  <2>1. CASE l < i
    BY <2>1, <1>1
  <2>2. CASE l > i
    BY <2>2, <1>1, l - 1 \in 1 .. Len(r)
  <2> QED BY <2>1, <2>2
<1> QED BY <1>1, <1>2, <1>3 DEF ToSet, r

LEMMA DivertElements ==
  ASSUME NEW S, NEW s \in Seq(S), NEW i \in DOMAIN s, NEW d,
         DOMAIN d = DOMAIN s, \A k \in DOMAIN s : k # i => d[k] = s[k]
  PROVE  ToSet(d) = ToSet(RemoveAt(s, i)) \cup {d[i]}
<1> DEFINE r == RemoveAt(s, i)
<1>1. /\ r \in Seq(S) /\ Len(r) = Len(s) - 1
      /\ \A k \in 1 .. Len(r) : r[k] = IF k < i THEN s[k] ELSE s[k + 1]
  BY RemoveAtType
<1> HIDE DEF r
<1>2. DOMAIN d = 1 .. Len(s) /\ Len(s) \in Nat
  OBVIOUS
<1>3. \A k \in DOMAIN r : \E l \in DOMAIN d : r[k] = d[l]
  <2> TAKE k \in DOMAIN r
  <2>1. CASE k < i
    BY <2>1, <1>1, <1>2
  <2>2. CASE ~(k < i)
    BY <2>2, <1>1, <1>2, k + 1 \in DOMAIN s
  <2> QED BY <2>1, <2>2
<1>4. \A l \in DOMAIN d : l # i => \E k \in DOMAIN r : r[k] = d[l]
  <2> TAKE l \in DOMAIN d
  <2> HAVE l # i
  <2>1. CASE l < i
    BY <2>1, <1>1, <1>2
  <2>2. CASE l > i
    BY <2>2, <1>1, <1>2, l - 1 \in 1 .. Len(r)
  <2> QED BY <2>1, <2>2, <1>2
<1> QED BY <1>1, <1>2, <1>3, <1>4 DEF ToSet, r

-----------------------------------------------------------------------------
(* Numbers, and finite sets of them. *)

\* Induction over the natural numbers, for a set of numbers.
LEMMA SetInduction ==
  ASSUME NEW A, 0 \in A, \A k \in Nat : k \in A => k + 1 \in A
  PROVE  Nat \subseteq A
<1> SUFFICES ASSUME Nat \ A # {} PROVE FALSE
  OBVIOUS
<1>1. IsWellFoundedOn(OpToRel(<, Nat), Nat)
  BY NatLessThanWellFounded
<1>2. PICK k \in Nat \ A : \A j \in Nat \ A : << j, k >> \notin OpToRel(<, Nat)
  <2>1. Nat \ A \subseteq Nat
    OBVIOUS
  <2> QED BY <1>1, <2>1, WFMin
<1>3. k \in Nat /\ k \notin A /\ k # 0
  BY <1>2
<1>4. k - 1 \in Nat /\ k - 1 < k /\ (k - 1) + 1 = k
  BY <1>3
<1>5. k - 1 \in A
  BY <1>2, <1>3, <1>4 DEF OpToRel
<1> QED BY <1>3, <1>4, <1>5

\* A function may be defined by saying where it starts and what comes next.
Iterations(S, s, G) ==
  {f \in [Nat -> S] : f[0] = s /\ \A k \in Nat : f[k + 1] = G[f[k]]}

LEMMA Iterates ==
  ASSUME NEW S, NEW s \in S, NEW G \in [S -> S]
  PROVE  Iterations(S, s, G) # {}
<1> DEFINE Starts(k) == {g \in [0 .. k -> S] :
                          /\ g[0] = s
                          /\ \A j \in 0 .. k : j < k => g[j + 1] = G[g[j]]}
<1>1. ASSUME NEW k \in Nat
      PROVE  Starts(k) # {}
  <2> DEFINE A == {j \in Nat : Starts(j) # {}}
  <2>1. 0 \in A
    <3> DEFINE g == [j \in 0 .. 0 |-> s]
    <3>1. g \in Starts(0)
      OBVIOUS
    <3> QED BY <3>1
  <2>2. ASSUME NEW j \in Nat, j \in A
        PROVE  j + 1 \in A
    <3>1. PICK g \in Starts(j) : TRUE
      BY <2>2
    <3> DEFINE h == [i \in 0 .. j + 1 |-> IF i = j + 1 THEN G[g[j]] ELSE g[i]]
    <3>2. /\ g \in [0 .. j -> S] /\ g[0] = s /\ j \in 0 .. j
          /\ \A i \in 0 .. j : i < j => g[i + 1] = G[g[i]]
      BY <3>1
    <3>3. \A i \in 0 .. j + 1 : i # j + 1 => i \in 0 .. j
      OBVIOUS
    <3>4. h \in [0 .. j + 1 -> S] /\ h[0] = s
      BY <3>2, <3>3
    <3>5. ASSUME NEW i \in 0 .. j + 1, i < j + 1
          PROVE  h[i + 1] = G[h[i]]
      <4>1. CASE i = j
        BY <4>1, <3>2
      <4>2. CASE i # j
        <5>1. i \in 0 .. j /\ i < j /\ i + 1 \in 0 .. j /\ i + 1 # j + 1
          BY <3>5, <4>2
        <5> QED BY <5>1, <3>2
      <4> QED BY <4>1, <4>2
    <3> HIDE DEF h
    <3>6. h \in Starts(j + 1)
      BY <3>4, <3>5
    <3> QED BY <3>6
  <2> HIDE DEF A
  <2>3. Nat \subseteq A
    BY <2>1, <2>2, SetInduction
  <2> QED BY <2>3 DEF A
<1>2. ASSUME NEW k \in Nat, NEW l \in Nat, NEW g \in Starts(k), NEW h \in Starts(l)
      PROVE  \A j \in Nat : j <= k /\ j <= l => g[j] = h[j]
  <2> DEFINE A == {j \in Nat : j <= k /\ j <= l => g[j] = h[j]}
  <2>1. 0 \in A
    OBVIOUS
  <2>2. ASSUME NEW j \in Nat, j \in A
        PROVE  j + 1 \in A
    <3> SUFFICES ASSUME j + 1 <= k, j + 1 <= l
                 PROVE  g[j + 1] = h[j + 1]
      OBVIOUS
    <3>1. j <= k /\ j <= l /\ j < k /\ j < l /\ j \in 0 .. k /\ j \in 0 .. l
      OBVIOUS
    <3>2. g[j] = h[j]
      BY <3>1, <2>2
    <3>3. g[j + 1] = G[g[j]] /\ h[j + 1] = G[h[j]]
      BY <3>1
    <3> QED BY <3>2, <3>3
  <2> HIDE DEF A
  <2>3. Nat \subseteq A
    BY <2>1, <2>2, SetInduction
  <2> QED BY <2>3 DEF A
<1> DEFINE start == [k \in Nat |-> CHOOSE g \in Starts(k) : TRUE]
           f == [k \in Nat |-> start[k][k]]
<1>3. \A k \in Nat : start[k] \in Starts(k)
  <2> HIDE DEF Starts
  <2> QED BY <1>1
<1> HIDE DEF start
<1>4. f \in [Nat -> S] /\ f[0] = s
  <2>1. \A k \in Nat : start[k] \in [0 .. k -> S] /\ k \in 0 .. k
    BY <1>3
  <2>2. start[0][0] = s
    BY <1>3
  <2> QED BY <2>1, <2>2
<1>5. ASSUME NEW k \in Nat
      PROVE  f[k + 1] = G[f[k]]
  <2>1. start[k] \in Starts(k) /\ start[k + 1] \in Starts(k + 1) /\ k + 1 \in Nat
    BY <1>3
  <2>2. k \in 0 .. k + 1 /\ k < k + 1 /\ k <= k /\ k <= k + 1
    OBVIOUS
  <2>3. start[k + 1][k + 1] = G[start[k + 1][k]]
    BY <2>1, <2>2
  <2>4. start[k + 1][k] = start[k][k]
    <3> HIDE DEF Starts
    <3> QED BY <2>1, <2>2, <1>2
  <2> QED BY <2>1, <2>3, <2>4
<1> HIDE DEF f
<1> QED BY <1>4, <1>5 DEF Iterations

LEMMA MaxIs ==
  ASSUME NEW S, NEW x \in S, S \subseteq Nat, \A y \in S : y <= x
  PROVE  Max(S) = x
<1>1. \A y \in S : x >= y
  OBVIOUS
<1>2. Max(S) \in S /\ \A y \in S : Max(S) >= y
  <2> DEFINE P(z) == \A y \in S : z >= y
  <2>1. \E z \in S : P(z)
    BY <1>1
  <2> QED BY <2>1 DEF Max
<1>3. Max(S) \in Nat /\ x \in Nat /\ Max(S) >= x /\ Max(S) <= x
  BY <1>2
<1> HIDE DEF Max
<1> QED BY <1>3

LEMMA MinIs ==
  ASSUME NEW S, NEW x \in S, S \subseteq Nat, \A y \in S : x <= y
  PROVE  Min(S) = x
<1>1. Min(S) \in S /\ \A y \in S : Min(S) <= y
  BY DEF Min
<1>2. Min(S) \in Nat /\ x \in Nat /\ Min(S) <= x /\ x <= Min(S)
  BY <1>1
<1> QED BY <1>2

\* A finite set of numbers has a smallest and a largest element.  (A smallest
\* counterexample would be a singleton, or have an element less than it.)
LEMMA Extremes ==
  ASSUME NEW S \in SUBSET Nat, IsFiniteSet(S), S # {}
  PROVE  /\ Min(S) \in S /\ \A x \in S : Min(S) <= x
         /\ Max(S) \in S /\ \A x \in S : x <= Max(S)
<1> DEFINE Bounded(A) == \E l \in A, h \in A : \A x \in A : l <= x /\ x <= h
           Bad == {A \in FiniteSubsetsOf(Nat) : A # {} /\ ~ Bounded(A)}
<1>1. Bad = {}
  <2> SUFFICES ASSUME Bad # {} PROVE FALSE
    OBVIOUS
  <2>1. IsWellFoundedOn(StrictSubsetOrdering(Nat), FiniteSubsetsOf(Nat))
    BY FS_StrictSubsetOrderingWellFounded
  <2>2. PICK A \in Bad : \A B \in Bad : << B, A >> \notin StrictSubsetOrdering(Nat)
    <3> HIDE DEF Bounded
    <3> QED BY <2>1, WFMin
  <2>3. A \in SUBSET Nat /\ IsFiniteSet(A) /\ A # {} /\ ~ Bounded(A)
    BY <2>2 DEF FiniteSubsetsOf
  <2>4. PICK a \in A : TRUE
    BY <2>3
  <2> DEFINE B == A \ {a}
  <2>5. B \in SUBSET Nat /\ IsFiniteSet(B) /\ B # A
    BY <2>3, <2>4, FS_RemoveElement
  <2>6. B \notin Bad
    BY <2>2, <2>3, <2>5 DEF StrictSubsetOrdering
  <2>7. B = {} \/ Bounded(B)
    BY <2>5, <2>6 DEF FiniteSubsetsOf
  <2>8. CASE B = {}
    <3>1. \A x \in A : x = a
      BY <2>8
    <3> QED BY <3>1, <2>3, <2>4
  <2>9. CASE Bounded(B)
    <3>1. PICK l \in B, h \in B : \A x \in B : l <= x /\ x <= h
      BY <2>9
    <3> DEFINE g == IF a < l THEN a ELSE l
               k == IF h < a THEN a ELSE h
    <3>2. g \in A /\ k \in A
      BY <3>1, <2>4
    <3>3. ASSUME NEW x \in A
          PROVE  g <= x /\ x <= k
      <4>1. x = a \/ (l <= x /\ x <= h)
        BY <3>1
      <4>2. x \in Nat /\ a \in Nat /\ l \in Nat /\ h \in Nat /\ l <= h
        BY <2>3, <3>1
      <4> HIDE DEF B, Bad, Bounded
      <4>3. CASE x = a
        BY <4>2, <4>3
      <4>4. CASE l <= x /\ x <= h
        BY <4>2, <4>4
      <4> QED BY <4>1, <4>3, <4>4
    <3> HIDE DEF g, k
    <3> QED BY <3>2, <3>3, <2>3
  <2> QED BY <2>7, <2>8, <2>9
<1>2. Bounded(S)
  <2> HIDE DEF Bounded
  <2> QED BY <1>1 DEF FiniteSubsetsOf
<1>3. PICK l \in S, h \in S : \A x \in S : l <= x /\ x <= h
  BY <1>2
<1>4. Min(S) = l /\ Max(S) = h
  BY <1>3, MinIs, MaxIs
<1> QED BY <1>3, <1>4

LEMMA DepthsFinite ==
  ASSUME NEW M \in SUBSET Nodes, NEW dep \in [Nodes -> Nat]
  PROVE  /\ IsFiniteSet(M)
         /\ IsFiniteSet({dep[n] : n \in M}) /\ {dep[n] : n \in M} \subseteq Nat
<1>1. IsFiniteSet(M)
  BY NodesAssumption, FS_Subset
<1> DEFINE D == {dep[n] : n \in M}
           f == [n \in M |-> dep[n]]
<1>2. f \in Surjection(M, D)
  BY DEF Surjection
<1>3. IsFiniteSet(D)
  <2> HIDE DEF D, f
  <2> QED BY <1>1, <1>2, FS_Surjection
<1> QED BY <1>1, <1>3

-----------------------------------------------------------------------------
(* What depends on a node. *)

\* Downstream(ins, n) is the last of Cardinality(Nodes) rounds.
LEMMA DownstreamRounds ==
  ASSUME NEW ins, NEW n \in Nodes
  PROVE  \E f \in [Nat -> SUBSET Nodes] :
           /\ f[0] = {n}
           /\ \A k \in Nat : f[k + 1] = f[k] \cup {m \in Nodes : Producers(ins, m) \cap f[k] # {}}
           /\ Downstream(ins, n) = f[Cardinality(Nodes)]
<1> DEFINE G == [X \in SUBSET Nodes |-> X \cup {m \in Nodes : Producers(ins, m) \cap X # {}}]
           Rounds(f) == f = [k \in Nat |->
                               IF k = 0 THEN {n}
                               ELSE f[k - 1] \cup {m \in Nodes :
                                                    Producers(ins, m) \cap f[k - 1] # {}}]
           r == CHOOSE f : Rounds(f)
<1>1. PICK f \in [Nat -> SUBSET Nodes] : f[0] = {n} /\ \A k \in Nat : f[k + 1] = G[f[k]]
  <2>1. G \in [SUBSET Nodes -> SUBSET Nodes] /\ {n} \in SUBSET Nodes
    OBVIOUS
  <2> HIDE DEF G
  <2>2. Iterations(SUBSET Nodes, {n}, G) # {}
    BY <2>1, Iterates
  <2> QED BY <2>2 DEF Iterations
<1>2. Rounds(f)
  <2>1. ASSUME NEW k \in Nat, k # 0
        PROVE  f[k] = f[k - 1] \cup {m \in Nodes : Producers(ins, m) \cap f[k - 1] # {}}
    <3>1. k - 1 \in Nat /\ (k - 1) + 1 = k
      BY <2>1
    <3> QED BY <3>1, <1>1
  <2>2. f = [k \in Nat |-> f[k]]
    OBVIOUS
  <2> QED BY <1>1, <2>1, <2>2
<1>3. Rounds(r)
  <2> HIDE DEF Rounds
  <2> QED BY <1>2
<1>4. r[0] = {n} /\ \A k \in Nat : r[k + 1] = r[k] \cup {m \in Nodes : Producers(ins, m) \cap r[k] # {}}
  <2>1. ASSUME NEW k \in Nat
        PROVE  k + 1 \in Nat /\ k + 1 # 0 /\ (k + 1) - 1 = k
    OBVIOUS
  <2> HIDE DEF r
  <2>2. r[0] = {n}
    BY <1>3
  <2>3. ASSUME NEW k \in Nat
        PROVE  r[k + 1] = r[k] \cup {m \in Nodes : Producers(ins, m) \cap r[k] # {}}
    BY <1>3, <2>1
  <2> QED BY <2>2, <2>3
<1>5. r \in [Nat -> SUBSET Nodes]
  <2> DEFINE A == {k \in Nat : r[k] \in SUBSET Nodes}
  <2> HIDE DEF r
  <2>1. 0 \in A
    BY <1>4
  <2>2. \A k \in Nat : k \in A => k + 1 \in A
    BY <1>4
  <2>3. Nat \subseteq A
    <3> HIDE DEF A
    <3> QED BY <2>1, <2>2, SetInduction
  <2>4. r = [k \in Nat |-> r[k]]
    <3>1. \E F : r = [k \in Nat |-> F[k]]
      <4> DEFINE F == [k \in Nat |->
                         IF k = 0 THEN {n}
                         ELSE r[k - 1] \cup {m \in Nodes :
                                              Producers(ins, m) \cap r[k - 1] # {}}]
      <4>1. r = F
        BY <1>3
      <4> QED BY <4>1
    <3> QED BY <3>1
  <2> QED BY <2>3, <2>4
<1>6. Downstream(ins, n) = r[Cardinality(Nodes)]
  BY Zenon DEF Downstream
<1> HIDE DEF r
<1> QED BY <1>4, <1>5, <1>6

\* Those rounds suffice: in each one that is not the last, something is new.
LEMMA DownstreamClosed ==
  ASSUME NEW ins, NEW n \in Nodes
  PROVE  /\ n \in Downstream(ins, n) /\ Downstream(ins, n) \subseteq Nodes
         /\ \A m \in Nodes : Producers(ins, m) \cap Downstream(ins, n) # {}
              => m \in Downstream(ins, n)
<1> DEFINE N == Cardinality(Nodes)
<1>1. PICK f \in [Nat -> SUBSET Nodes] :
        /\ f[0] = {n}
        /\ \A k \in Nat : f[k + 1] = f[k] \cup {m \in Nodes : Producers(ins, m) \cap f[k] # {}}
        /\ Downstream(ins, n) = f[N]
  BY DownstreamRounds
<1>2. N \in Nat /\ \A k \in Nat : /\ IsFiniteSet(f[k]) /\ Cardinality(f[k]) \in Nat
                                 /\ Cardinality(f[k]) <= N
  <2>1. \A X \in SUBSET Nodes : IsFiniteSet(X) /\ Cardinality(X) <= N
    BY NodesAssumption, FS_Subset
  <2>2. \A k \in Nat : f[k] \in SUBSET Nodes
    OBVIOUS
  <2> QED BY <2>1, <2>2, NodesAssumption, FS_CardinalityType
<1> HIDE DEF N
<1> DEFINE A == {k \in Nat : f[k + 1] = f[k] \/ Cardinality(f[k]) > k}
<1>3. 0 \in A
  <2>1. Cardinality(f[0]) = 1
    BY <1>1, FS_Singleton
  <2> QED BY <2>1
<1>4. ASSUME NEW k \in Nat, k \in A
      PROVE  k + 1 \in A
  <2>1. CASE f[k + 1] = f[k]
    <3> DEFINE New(X) == {m \in Nodes : Producers(ins, m) \cap X # {}}
    <3>1. \A i \in Nat : f[i + 1] = f[i] \cup New(f[i])
      BY <1>1
    <3> HIDE DEF New
    <3>2. PICK j \in Nat : j = k + 1
      OBVIOUS
    <3>3. f[j + 1] = f[j]
      BY <3>1, <3>2, <2>1
    <3> QED BY <3>2, <3>3
  <2>2. CASE f[k + 1] # f[k] /\ Cardinality(f[k]) > k
    <3>1. f[k] \in SUBSET f[k + 1] /\ k + 1 \in Nat
      BY <1>1
    <3>2. Cardinality(f[k]) <= Cardinality(f[k + 1]) /\ Cardinality(f[k]) # Cardinality(f[k + 1])
      BY <3>1, <2>2, <1>2, FS_Subset
    <3>3. Cardinality(f[k]) \in Nat /\ Cardinality(f[k + 1]) \in Nat
      BY <3>1, <1>2
    <3> QED BY <3>1, <3>2, <3>3, <2>2
  <2> QED BY <2>1, <2>2, <1>4
<1>5. N \in A
  <2> HIDE DEF A
  <2> QED BY <1>2, <1>3, <1>4, SetInduction
<1>6. f[N + 1] = f[N]
  BY <1>2, <1>5
<1>7. \A m \in Nodes : Producers(ins, m) \cap f[N] # {} => m \in f[N]
  BY <1>1, <1>2, <1>6
<1>8. n \in f[N]
  <2> DEFINE B == {k \in Nat : n \in f[k]}
  <2>1. 0 \in B /\ \A k \in Nat : k \in B => k + 1 \in B
    BY <1>1
  <2> HIDE DEF B
  <2>2. N \in B
    BY <2>1, <1>2, SetInduction
  <2> QED BY <2>2 DEF B
<1> QED BY <1>1, <1>2, <1>7, <1>8

LEMMA DownstreamLeast ==
  ASSUME NEW ins, NEW n \in Nodes, NEW X, n \in X,
         \A m \in Nodes : Producers(ins, m) \cap X # {} => m \in X
  PROVE  Downstream(ins, n) \subseteq X
<1>1. PICK f \in [Nat -> SUBSET Nodes] :
        /\ f[0] = {n}
        /\ \A k \in Nat : f[k + 1] = f[k] \cup {m \in Nodes : Producers(ins, m) \cap f[k] # {}}
        /\ Downstream(ins, n) = f[Cardinality(Nodes)]
  BY DownstreamRounds
<1> DEFINE A == {k \in Nat : f[k] \subseteq X}
<1>2. 0 \in A /\ \A k \in Nat : k \in A => k + 1 \in A
  BY <1>1
<1> HIDE DEF A
<1>3. Cardinality(Nodes) \in A
  BY <1>2, SetInduction, NodesAssumption, FS_CardinalityType
<1> QED BY <1>1, <1>3 DEF A

-----------------------------------------------------------------------------
(* The inductive invariant. *)

\* What is left to be done makes sense: it concerns nodes that exist, prune and
\* the link of a new top node are the last thing to be done, and an input that
\* is still to be added does not come from the node itself.
WorkOK ==
  /\ \A c \in ToSet(work) :
       /\ c.op # "prune" => c.node \in nodes
       /\ c.op = "prune" => work = << c >>
       /\ c.op = "add_input" => /\ c.origin \in Origins
                                /\ Producer(c.origin) \in nodes \cup {Region}
                                /\ Producer(c.origin) # c.node
       /\ c.op = "push_top" => /\ c = Call("push_top", c.node, Region)
                               /\ operands[c.node] = << >>
                               /\ \A b \in ToSet(work) :
                                    b.op \in {"push_top", "recompute_depth"}
       /\ c.op = "recompute_depth" => c = Recomputing(c.node)
  /\ \A k \in DOMAIN work : work[k].op = "push_top" => k = Len(work)

\* No node uses its own outputs.
NoSelf == \A n \in Nodes : n \notin Producers(operands, n)

\* Freed memory.
Freed == \A n \in Nodes \ nodes : operands[n] = << >> /\ depth[n] = 0

\* The two halves of ListsExact.
BottomExact ==
  \A n \in Nodes :
    bottom_nodes[n] = One(n \in nodes /\ ~HasUsers(operands, results, n))
TopExact ==
  \A n \in Nodes :
    top_nodes[n] = One(/\ n \in nodes /\ operands[n] = << >>
                       /\ ~Pending(Call("push_top", n, Region)))

IInv ==
  /\ TypeOK /\ WorkOK /\ NoDangling /\ NoSelf /\ Freed
  /\ DepthsCorrect /\ BottomExact /\ TopExact

LEMMA ListsHalves == BottomExact /\ TopExact <=> ListsExact
BY DEF BottomExact, TopExact, ListsExact

-----------------------------------------------------------------------------
(* Lemmas about the graph. *)

LEMMA CallType ==
  ASSUME NEW n \in Nodes, NEW o \in Origins
  PROVE  /\ \A name \in {"recompute_depth", "push_top", "node_create"} :
              Call(name, n, Region) \in Calls
         /\ \A name \in {"add_input", "input_change"} : Call(name, n, o) \in Calls
         /\ Recomputing(n) \in Calls
         /\ Call("prune", Region, Region) \in Calls
BY DEF Call, Calls, Recomputing

\* Only a node that exists has users.
LEMMA UsersExist ==
  ASSUME NoDangling, NEW p \in Nodes, HasUsers(operands, results, p)
  PROVE  p \in nodes
BY RegionAssumption DEF NoDangling, HasUsers, HasSuccessors

\* The list of bottom nodes follows the users.
LEMMA BottomFollows ==
  ASSUME TypeOK, NoDangling, BottomExact, NEW ins, NEW res,
         \A p \in Nodes : HasUsers(ins, res, p) => p \in nodes
  PROVE  /\ BottomAfter(operands, results, ins, res) \in [Nodes -> Int]
         /\ \A n \in Nodes : BottomAfter(operands, results, ins, res)[n]
                             = One(n \in nodes /\ ~HasUsers(ins, res, n))
<1> DEFINE B == BottomAfter(operands, results, ins, res)
<1>1. B \in [Nodes -> Int]
  BY DEF TypeOK, BottomAfter, One
<1>2. ASSUME NEW n \in Nodes
      PROVE  B[n] = One(n \in nodes /\ ~HasUsers(ins, res, n))
  <2>1. B[n] = bottom_nodes[n]
                 + One(HasUsers(operands, results, n) /\ ~HasUsers(ins, res, n))
                 - One(~HasUsers(operands, results, n) /\ HasUsers(ins, res, n))
    BY DEF BottomAfter
  <2>2. bottom_nodes[n] = One(n \in nodes /\ ~HasUsers(operands, results, n))
    BY DEF BottomExact
  <2>3. HasUsers(operands, results, n) => n \in nodes
    BY UsersExist
  <2>4. HasUsers(ins, res, n) => n \in nodes
    OBVIOUS
  <2> QED BY <2>1, <2>2, <2>3, <2>4 DEF One
<1> QED BY <1>1, <1>2

\* The depth of a node depends on the depths of its producers only.
LEMMA DepthLocal ==
  ASSUME NEW d, NEW m, NEW ins, NEW jns, NEW dep, NEW eep,
         Producers(ins, m) = Producers(jns, m),
         \A p \in Producers(ins, m) : dep[p] = eep[p]
  PROVE  IsDepth(d, ins, dep, m) <=> IsDepth(d, jns, eep, m)
BY DEF IsDepth

LEMMA ProducersOf ==
  ASSUME NEW ins, NEW jns, NEW m, ToSet(ins[m]) = ToSet(jns[m])
  PROVE  Producers(ins, m) = Producers(jns, m)
BY DEF Producers

\* What the calls of the users of n are.
LEMMA UsersCalled ==
  ASSUME TypeOK, NEW n \in Nodes, NEW users \in Orders(UserInputs(operands, n))
  PROVE  LET q == [k \in DOMAIN users |-> Recomputing(users[k][1])]
         IN  /\ q \in Seq(Calls)
             /\ ToSet(q) = {Recomputing(m) : m \in {l \in Nodes : n \in Producers(operands, l)}}
<1> DEFINE U == UserInputs(operands, n)
           q == [k \in DOMAIN users |-> Recomputing(users[k][1])]
           In(m) == {i \in DOMAIN operands[m] : Producer(operands[m][i]) = n}
           pairs == [m \in Nodes |-> {m} \X In(m)]
           family == {{m} \X In(m) : m \in Nodes}
<1>1. n # Region
  BY RegionAssumption
<1>2. \A m \in Nodes : (\E i \in DOMAIN operands[m] : Producer(operands[m][i]) = n)
                         <=> n \in Producers(operands, m)
  BY <1>1 DEF Producers, ToSet
<1>3. IsFiniteSet(U)
  <2>1. \A m \in Nodes : IsFiniteSet(In(m))
    <3> TAKE m \in Nodes
    <3>1. DOMAIN operands[m] = 1 .. Len(operands[m]) /\ Len(operands[m]) \in Nat
      BY DEF TypeOK
    <3>2. IsFiniteSet(1 .. Len(operands[m]))
      BY <3>1, FS_Interval
    <3> QED BY <3>1, <3>2, FS_Subset
  <2>2. \A m \in Nodes : IsFiniteSet({m} \X In(m))
    BY <2>1, FS_Singleton, FS_Product
  <2>3. pairs \in Surjection(Nodes, family)
    BY DEF Surjection
  <2>4. IsFiniteSet(family)
    BY <2>3, NodesAssumption, FS_Surjection
  <2>5. IsFiniteSet(UNION family)
    BY <2>2, <2>4, FS_UNION
  <2> QED BY <2>5 DEF UserInputs
<1>4. DOMAIN users = 1 .. Cardinality(U) /\ Cardinality(U) \in Nat
  BY <1>3, FS_CardinalityType DEF Orders
<1>5. /\ \A k \in DOMAIN users : users[k] \in U
      /\ \A u \in U : \E k \in DOMAIN users : users[k] = u
  BY <1>4 DEF Orders
<1>6. /\ \A u \in U : u[1] \in Nodes /\ n \in Producers(operands, u[1])
      /\ \A m \in Nodes : n \in Producers(operands, m) => \E u \in U : u[1] = m
  <2>1. ASSUME NEW u \in U
        PROVE  u[1] \in Nodes /\ n \in Producers(operands, u[1])
    <3>1. PICK m \in Nodes : u \in {m} \X In(m)
      BY <2>1 DEF UserInputs
    <3>2. u[1] = m /\ u[2] \in In(m)
      BY <3>1
    <3> QED BY <3>2, <1>2
  <2>2. ASSUME NEW m \in Nodes, n \in Producers(operands, m)
        PROVE  \E u \in U : u[1] = m
    <3>1. PICK i \in DOMAIN operands[m] : Producer(operands[m][i]) = n
      BY <2>2, <1>2
    <3>2. << m, i >> \in {m} \X In(m)
      BY <3>1
    <3>3. << m, i >> \in U
      BY <3>2 DEF UserInputs
    <3> QED BY <3>3, << m, i >>[1] = m
  <2> QED BY <2>1, <2>2
<1>7. \A m \in Nodes : Recomputing(m) \in Calls
  BY DEF Recomputing, Call, Calls
<1>8. q \in Seq(Calls)
  BY <1>4, <1>5, <1>6, <1>7
<1>9. ToSet(q) = {Recomputing(m) : m \in {l \in Nodes : n \in Producers(operands, l)}}
  <2> HIDE DEF U
  <2>1. \A k \in DOMAIN users : q[k] = Recomputing(users[k][1])
    OBVIOUS
  <2>2. DOMAIN q = DOMAIN users
    OBVIOUS
  <2> HIDE DEF q
  <2> QED BY <1>5, <1>6, <2>1, <2>2 DEF ToSet
<1> QED BY <1>8, <1>9

-----------------------------------------------------------------------------
(* Every action preserves the invariant. *)

\* Actions that leave the graph and its lists alone, and after which nothing
\* is to be done that was not to be done before.
LEMMA WorkShrinks ==
  ASSUME IInv, work' \in Seq(Calls), ToSet(work') \subseteq ToSet(work),
         \A k \in DOMAIN work' : work'[k].op = "push_top" => k = Len(work'),
         \A c \in ToSet(work') : c.op # "prune",
         UNCHANGED << nodes, operands, results >>
  PROVE  WorkOK'
<1> USE DEF IInv, WorkOK
<1>1. ASSUME NEW c \in ToSet(work')
      PROVE  /\ c.node \in nodes'
             /\ c.op = "add_input" => /\ c.origin \in Origins
                                      /\ Producer(c.origin) \in nodes' \cup {Region}
                                      /\ Producer(c.origin) # c.node
             /\ c.op = "push_top" => /\ c = Call("push_top", c.node, Region)
                                     /\ operands'[c.node] = << >>
                                     /\ \A b \in ToSet(work') :
                                          b.op \in {"push_top", "recompute_depth"}
             /\ c.op = "recompute_depth" => c = Recomputing(c.node)
  <2>1. c \in ToSet(work) /\ c.op # "prune"
    BY <1>1
  <2> QED BY <2>1
<1> QED BY <1>1

\* The tail of the work.
LEMMA WorkTail ==
  ASSUME IInv, work # << >>
  PROVE  /\ Head(work) \in Calls /\ Head(work) \in ToSet(work) /\ Tail(work) \in Seq(Calls)
         /\ ToSet(work) = {Head(work)} \cup ToSet(Tail(work))
         /\ \A k \in DOMAIN Tail(work) : Tail(work)[k].op = "push_top" => k = Len(Tail(work))
         /\ \A c \in ToSet(Tail(work)) : c.op # "prune"
         /\ Head(work).op = "push_top" => Tail(work) = << >>
<1>1. work \in Seq(Calls)
  BY DEF IInv, TypeOK
<1>2. /\ Head(work) \in Calls /\ Tail(work) \in Seq(Calls)
      /\ ToSet(work) = {Head(work)} \cup ToSet(Tail(work))
  BY <1>1, TailElements
<1>3. \A k \in DOMAIN work : work[k].op = "push_top" => k = Len(work)
  BY DEF IInv, WorkOK
<1>4. ASSUME NEW k \in DOMAIN Tail(work), Tail(work)[k].op = "push_top"
      PROVE  k = Len(Tail(work))
  <2>1. k + 1 \in DOMAIN work /\ Tail(work)[k] = work[k + 1]
    BY <1>1, <1>4
  <2>2. k + 1 = Len(work) /\ k \in Int
    BY <2>1, <1>3, <1>4, <1>1
  <2>3. Len(Tail(work)) = Len(work) - 1
    BY <1>1
  <2> QED BY <2>2, <2>3, <1>1
<1>5. ASSUME NEW c \in ToSet(Tail(work)), c.op = "prune"
      PROVE  FALSE
  <2>1. work = << c >>
    BY <1>2, <1>5 DEF IInv, WorkOK
  <2>2. Len(work) = 1
    BY <2>1
  <2>3. Tail(work) = << >>
    BY <2>2, <1>1, TailOfOne
  <2> QED BY <1>5, <2>3 DEF ToSet
<1>6. ASSUME Head(work).op = "push_top"
      PROVE  Tail(work) = << >>
  <2>1. 1 \in DOMAIN work /\ work[1] = Head(work)
    BY <1>1
  <2>2. Len(work) = 1
    BY <2>1, <1>3, <1>6
  <2> QED BY <1>1, <2>2, TailOfOne
<1> QED BY <1>2, <1>4, <1>5, <1>6

\* The head of the work is dropped and nothing else happens.
LEMMA ReturningInv ==
  ASSUME IInv, work # << >>, Returning, Head(work).op # "push_top",
         Head(work).op = "recompute_depth" =>
           IsDepth(depth[Head(work).node], operands, depth, Head(work).node),
         UNCHANGED << nodes, operands, results, depth, top_nodes, bottom_nodes >>
  PROVE  IInv'
<1>0. /\ Head(work) \in Calls /\ Tail(work) \in Seq(Calls)
      /\ ToSet(work) = {Head(work)} \cup ToSet(Tail(work))
      /\ \A k \in DOMAIN Tail(work) : Tail(work)[k].op = "push_top" => k = Len(Tail(work))
      /\ \A c \in ToSet(Tail(work)) : c.op # "prune"
  BY WorkTail
<1>1. TypeOK'
  BY <1>0 DEF IInv, TypeOK, Returning
<1>2. WorkOK'
  BY <1>0, WorkShrinks DEF Returning
<1>3. NoDangling' /\ NoSelf' /\ Freed' /\ BottomExact'
  BY DEF IInv, NoDangling, NoSelf, Freed, BottomExact
<1>4. DepthsCorrect'
  <2> SUFFICES ASSUME NEW n \in nodes
               PROVE  \/ IsDepth(depth[n], operands, depth, n)
                      \/ Recomputing(n) \in ToSet(Tail(work))
    BY DEF DepthsCorrect, Pending, Returning
  <2>1. \/ IsDepth(depth[n], operands, depth, n)
        \/ Recomputing(n) \in ToSet(work)
    BY DEF IInv, DepthsCorrect, Pending
  <2>2. CASE Recomputing(n) = Head(work)
    BY <2>2 DEF Recomputing, Call
  <2> QED BY <2>1, <2>2, <1>0
<1>5. TopExact'
  <2>1. \A n \in Nodes : Call("push_top", n, Region) # Head(work)
    BY DEF Call
  <2>2. \A n \in Nodes : Call("push_top", n, Region) \in ToSet(work)
                          <=> Call("push_top", n, Region) \in ToSet(Tail(work))
    BY <2>1, <1>0
  <2> QED BY <2>2 DEF IInv, TopExact, Pending, Returning
<1> QED BY <1>1, <1>2, <1>3, <1>4, <1>5 DEF IInv

LEMMA PushTopInv ==
  ASSUME IInv, PushTop
  PROVE  IInv'
<1> DEFINE n == Head(work).node
<1>0. /\ work # << >> /\ Head(work).op = "push_top" /\ Head(work) \in ToSet(work)
      /\ Tail(work) = << >> /\ ToSet(work) = {Head(work)} \cup ToSet(Tail(work))
      /\ Tail(work) \in Seq(Calls)
  BY WorkTail DEF PushTop, Calling
<1>1. /\ Head(work) = Call("push_top", n, Region) /\ operands[n] = << >> /\ n \in nodes
  BY <1>0 DEF IInv, WorkOK
<1>2. ToSet(work') = {} /\ work' = << >>
  <2>1. work' = << >>
    BY <1>0 DEF PushTop, Returning
  <2> QED BY <2>1 DEF ToSet
<1>3. TypeOK'
  BY <1>0, <1>1 DEF IInv, TypeOK, PushTop, Returning
<1>4. WorkOK'
  BY <1>2, <1>0, WorkShrinks DEF PushTop, Returning
<1>5. NoDangling' /\ NoSelf' /\ Freed' /\ BottomExact'
  BY DEF IInv, NoDangling, NoSelf, Freed, BottomExact, PushTop
<1>6. DepthsCorrect'
  <2>1. \A m \in nodes : Recomputing(m) \notin ToSet(work)
    BY <1>0, <1>2 DEF Recomputing, Call, PushTop, Returning
  <2> QED BY <2>1 DEF IInv, DepthsCorrect, Pending, PushTop
<1>7. TopExact'
  <2>1. ASSUME NEW m \in Nodes
        PROVE  top_nodes'[m] = One(m \in nodes /\ operands[m] = << >>)
    <3>1. Pending(Call("push_top", m, Region)) <=> m = n
      <4>1. ToSet(work) = {Call("push_top", n, Region)}
        BY <1>0, <1>1, <1>2 DEF PushTop, Returning
      <4> QED BY <4>1 DEF Pending, Call
    <3>2. top_nodes[m] = One(m \in nodes /\ operands[m] = << >> /\ m # n)
      BY <3>1 DEF IInv, TopExact
    <3>3. top_nodes'[m] = IF m = n THEN top_nodes[m] + 1 ELSE top_nodes[m]
      BY DEF PushTop, IInv, TypeOK
    <3> QED BY <3>2, <3>3, <1>1 DEF One
  <2> QED BY <2>1, <1>2 DEF TopExact, Pending, PushTop
<1> QED BY <1>3, <1>4, <1>5, <1>6, <1>7 DEF IInv

LEMMA RecomputeChangedInv ==
  ASSUME IInv, RecomputeChanged
  PROVE  IInv'
<1> DEFINE n == Head(work).node
           Dependent == {l \in Nodes : n \in Producers(operands, l)}
<1>0. /\ work # << >> /\ Head(work).op = "recompute_depth"
      /\ Head(work) \in ToSet(work) /\ Head(work) \in Calls
      /\ Tail(work) \in Seq(Calls)
      /\ ToSet(work) = {Head(work)} \cup ToSet(Tail(work))
      /\ \A k \in DOMAIN Tail(work) : Tail(work)[k].op = "push_top" => k = Len(Tail(work))
      /\ \A c \in ToSet(Tail(work)) : c.op # "prune"
  BY WorkTail DEF RecomputeChanged, Calling
<1>1. n \in nodes /\ n \in Nodes /\ Head(work) = Recomputing(n)
  BY <1>0 DEF IInv, WorkOK, TypeOK
<1>2. PICK d \in {0} \cup {depth[p] + 1 : p \in Producers(operands, n)} :
        IsDepth(d, operands, depth, n) /\ depth' = [depth EXCEPT ![n] = d]
  BY DEF RecomputeChanged
<1>3. PICK users \in Orders(UserInputs(operands, n)) :
        work' = [k \in DOMAIN users |-> Recomputing(users[k][1])] \o Tail(work)
  BY DEF RecomputeChanged
<1> DEFINE q == [k \in DOMAIN users |-> Recomputing(users[k][1])]
<1>4. q \in Seq(Calls) /\ ToSet(q) = {Recomputing(m) : m \in Dependent}
  BY <1>1, UsersCalled DEF IInv
<1> HIDE DEF q
<1>5. work' = q \o Tail(work)
  BY <1>3 DEF q
<1>6. work' \in Seq(Calls) /\ ToSet(work') = ToSet(q) \cup ToSet(Tail(work))
  <2> DEFINE t == Tail(work)
  <2>1. q \in Seq(Calls) /\ t \in Seq(Calls)
    BY <1>0, <1>4
  <2> HIDE DEF t
  <2>2. q \o t \in Seq(Calls) /\ ToSet(q \o t) = ToSet(q) \cup ToSet(t)
    BY <2>1, ConcatElements
  <2> QED BY <2>2, <1>5 DEF t
<1>7. d \in Nat
  <2>1. \A p \in Producers(operands, n) : p \in nodes
    BY <1>1 DEF IInv, NoDangling
  <2> QED BY <2>1, <1>2 DEF IInv, TypeOK
<1>8. TypeOK'
  BY <1>1, <1>2, <1>6, <1>7 DEF IInv, TypeOK, RecomputeChanged
<1>9. \A l \in Dependent : l \in nodes
  BY DEF IInv, Freed, Producers, ToSet
<1>10. WorkOK'
  <2>1. ASSUME NEW k \in DOMAIN work', work'[k].op = "push_top"
        PROVE  k = Len(work')
    <3>1. CASE k \in DOMAIN q
      <4>1. work'[k] = q[k]
        BY <3>1, <1>4, <1>5, <1>0
      <4>2. q[k] \in ToSet(q)
        BY <3>1 DEF ToSet
      <4> QED BY <4>1, <4>2, <1>4, <2>1 DEF Recomputing, Call
    <3>2. CASE k \notin DOMAIN q
      <4>1. /\ k - Len(q) \in DOMAIN Tail(work) /\ work'[k] = Tail(work)[k - Len(q)]
            /\ Len(work') = Len(q) + Len(Tail(work))
        BY <3>2, <2>1, <1>4, <1>5, <1>0
      <4>2. k - Len(q) = Len(Tail(work))
        BY <4>1, <1>0, <2>1
      <4> QED BY <4>1, <4>2, <1>4, <1>0
    <3> QED BY <3>1, <3>2
  <2>2. \A c \in ToSet(q) : /\ c = Recomputing(c.node) /\ c.op = "recompute_depth"
                            /\ c.node \in nodes
    BY <1>4, <1>9 DEF Recomputing, Call
  <2>3. \A c \in ToSet(work') : c \in ToSet(work) \/ c \in ToSet(q)
    BY <1>0, <1>6
  <2>4. \A c \in ToSet(work') : c.op # "prune"
    BY <1>0, <1>6, <2>2
  <2>5. UNCHANGED << nodes, operands >>
    BY DEF RecomputeChanged
  <2>6. ASSUME NEW c \in ToSet(work'), c \in ToSet(work), c.op = "push_top"
        PROVE  \A b \in ToSet(work') : b.op \in {"push_top", "recompute_depth"}
    BY <2>2, <2>3, <2>6 DEF IInv, WorkOK
  <2> HIDE DEF n, Dependent
  <2> QED BY <2>1, <2>2, <2>3, <2>4, <2>5, <2>6 DEF IInv, WorkOK
<1>11. NoDangling' /\ NoSelf' /\ BottomExact'
  BY DEF IInv, NoDangling, NoSelf, BottomExact, RecomputeChanged
<1>12. Freed'
  BY <1>1, <1>2 DEF IInv, Freed, RecomputeChanged, TypeOK
<1>13. DepthsCorrect'
  <2> SUFFICES ASSUME NEW m \in nodes
               PROVE  \/ IsDepth(depth'[m], operands, depth', m)
                      \/ Recomputing(m) \in ToSet(work')
    BY DEF DepthsCorrect, Pending, RecomputeChanged
  <2>0. m \in Nodes /\ \A p \in Nodes : p # n => depth'[p] = depth[p]
    BY <1>2 DEF IInv, TypeOK
  <2>1. CASE m = n
    <3>1. \A p \in Producers(operands, n) : depth[p] = depth'[p]
      BY <2>0, <1>1 DEF IInv, NoSelf, NoDangling, TypeOK
    <3>2. IsDepth(d, operands, depth', n)
      BY <1>2, <3>1, DepthLocal
    <3>3. depth'[n] = d
      BY <1>1, <1>2 DEF IInv, TypeOK
    <3> QED BY <2>1, <3>2, <3>3
  <2>2. CASE m # n /\ n \in Producers(operands, m)
    BY <2>0, <2>2, <1>4, <1>6
  <2>3. CASE m # n /\ n \notin Producers(operands, m)
    <3>1. \A p \in Producers(operands, m) : depth[p] = depth'[p]
      BY <2>0, <2>3 DEF IInv, NoDangling, TypeOK
    <3>2. IsDepth(depth[m], operands, depth, m) <=> IsDepth(depth'[m], operands, depth', m)
      BY <3>1, <2>0, <2>3, DepthLocal
    <3>3. IsDepth(depth[m], operands, depth, m) \/ Recomputing(m) \in ToSet(work)
      BY DEF IInv, DepthsCorrect, Pending
    <3>4. Recomputing(m) # Head(work)
      BY <1>1, <2>3 DEF Recomputing, Call
    <3> QED BY <3>2, <3>3, <3>4, <1>0, <1>6
  <2> QED BY <2>1, <2>2, <2>3
<1>14. TopExact'
  <2>1. ASSUME NEW m \in Nodes
        PROVE  Call("push_top", m, Region) \in ToSet(work')
                 <=> Call("push_top", m, Region) \in ToSet(work)
    <3>1. \A c \in ToSet(q) : c.op = "recompute_depth"
      BY <1>4 DEF Recomputing, Call
    <3>2. Call("push_top", m, Region).op = "push_top"
      BY DEF Call
    <3> QED BY <3>1, <3>2, <1>0, <1>6
  <2> QED BY <2>1 DEF IInv, TopExact, Pending, RecomputeChanged
<1> QED BY <1>8, <1>10, <1>11, <1>12, <1>13, <1>14 DEF IInv

-----------------------------------------------------------------------------
(* The calls of a pass. *)

LEMMA EmptyProducers ==
  ASSUME NEW ins, NEW m, ins[m] = << >>
  PROVE  Producers(ins, m) = {}
BY DEF Producers, ToSet

LEMMA InitInv == Init => IInv
<1> SUFFICES ASSUME Init PROVE IInv
  OBVIOUS
<1>1. TypeOK
  BY DEF Init, TypeOK
<1>2. ToSet(work) = {} /\ DOMAIN work = {} /\ ToSet(results) = {}
  BY DEF Init, ToSet
<1>3. \A n \in Nodes : Producers(operands, n) = {}
  BY EmptyProducers DEF Init
<1>4. WorkOK /\ NoDangling /\ NoSelf /\ Freed /\ DepthsCorrect
  BY <1>2, <1>3 DEF WorkOK, NoDangling, NoSelf, Freed, DepthsCorrect, Init
<1>5. BottomExact /\ TopExact
  BY DEF BottomExact, TopExact, Init, One
<1> QED BY <1>1, <1>4, <1>5 DEF IInv

\* Between the calls of a pass nothing is pending, so every depth is right.
LEMMA IdleFacts ==
  ASSUME IInv, Idle
  PROVE  /\ ToSet(work) = {}
         /\ \A m \in nodes : IsDepth(depth[m], operands, depth, m)
         /\ \A m \in Nodes : top_nodes[m] = One(m \in nodes /\ operands[m] = << >>)
<1>1. ToSet(work) = {}
  BY DEF Idle, ToSet
<1> QED BY <1>1 DEF IInv, DepthsCorrect, TopExact, Pending

\* Two kinds of work that satisfy WorkOK.
LEMMA WorkOfOne ==
  ASSUME NEW c \in Calls, work' = << c >>, c.op \notin {"push_top", "prune"},
         c.node \in nodes',
         c.op = "add_input" => /\ c.origin \in Origins
                               /\ Producer(c.origin) \in nodes' \cup {Region}
                               /\ Producer(c.origin) # c.node,
         c.op = "recompute_depth" => c = Recomputing(c.node)
  PROVE  work' \in Seq(Calls) /\ ToSet(work') = {c} /\ WorkOK'
<1>1. work' \in Seq(Calls) /\ ToSet(work') = {c}
  BY OneElement
<1>2. \A k \in DOMAIN work' : work'[k].op # "push_top"
  BY <1>1 DEF ToSet
<1> QED BY <1>1, <1>2 DEF WorkOK

LEMMA ConstructInv ==
  ASSUME IInv, NEW n \in Nodes, NEW origins \in Seq(Origins), Construct(n, origins),
         \A o \in ToSet(origins) : Producer(o) \in nodes \cup {Region}
  PROVE  IInv'
<1> DEFINE q == [k \in 1 .. Len(origins) |-> Call("add_input", n, origins[k])]
           last == Call("node_create", n, Region)
           lasts == << last >>
<1>1. n \notin nodes /\ nodes' = nodes \cup {n} /\ work' = q \o lasts
      /\ top_nodes' = [top_nodes EXCEPT ![n] = @ + 1]
      /\ bottom_nodes' = [bottom_nodes EXCEPT ![n] = @ + 1]
      /\ UNCHANGED << operands, results, depth >> /\ Idle
  BY DEF Construct
<1>2. \A k \in DOMAIN origins : origins[k] \in ToSet(origins) /\ origins[k] \in Origins
  BY DEF ToSet
<1>3. q \in Seq(Calls) /\ \A c \in ToSet(q) : \E o \in ToSet(origins) : c = Call("add_input", n, o)
  <2>1. \A k \in 1 .. Len(origins) : q[k] \in Calls /\ q[k] = Call("add_input", n, origins[k])
    BY <1>2, CallType
  <2>2. q \in Seq(Calls) /\ DOMAIN q = DOMAIN origins
    BY <2>1
  <2> QED BY <2>1, <2>2, <1>2 DEF ToSet
<1> HIDE DEF q
<1>4. lasts \in Seq(Calls) /\ ToSet(lasts) = {last}
  <2>1. last \in Calls
    BY DEF Call, Calls
  <2> HIDE DEF last
  <2> QED BY <2>1, OneElement
<1> HIDE DEF last, lasts
<1>5. work' \in Seq(Calls) /\ ToSet(work') = ToSet(q) \cup {last}
  BY <1>1, <1>3, <1>4, ConcatElements
<1>6. TypeOK'
  BY <1>1, <1>5 DEF IInv, TypeOK
<1>7. \A c \in ToSet(work') :
        /\ c.op \in {"add_input", "node_create"} /\ c.node = n
        /\ c.op = "add_input" => c.origin \in ToSet(origins)
  BY <1>3, <1>5 DEF Call, last
<1>8. \A o \in ToSet(origins) : o \in Origins /\ Producer(o) # n
  BY <1>1, <1>2, RegionAssumption DEF ToSet
<1>9. WorkOK'
  <2>1. \A k \in DOMAIN work' : work'[k].op # "push_top"
    BY <1>7 DEF ToSet
  <2> QED BY <2>1, <1>1, <1>7, <1>8 DEF WorkOK
<1>10. NoDangling' /\ NoSelf' /\ Freed'
  BY <1>1 DEF IInv, NoDangling, NoSelf, Freed
<1>11. operands[n] = << >> /\ depth[n] = 0
  BY <1>1 DEF IInv, Freed
<1>12. DepthsCorrect'
  <2>1. IsDepth(depth[n], operands, depth, n)
    BY <1>11, EmptyProducers DEF IsDepth
  <2> QED BY <2>1, <1>1, IdleFacts DEF DepthsCorrect
<1>13. BottomExact'
  <2>1. ~HasUsers(operands, results, n)
    BY <1>1, UsersExist DEF IInv
  <2> QED BY <2>1, <1>1 DEF IInv, TypeOK, BottomExact, One
<1>14. TopExact'
  <2>1. \A m \in Nodes : ~Pending(Call("push_top", m, Region))'
    BY <1>7 DEF Pending, Call
  <2>2. ASSUME NEW m \in Nodes
        PROVE  top_nodes'[m] = One(m \in nodes' /\ operands'[m] = << >>)
    <3>1. top_nodes[m] = One(m \in nodes /\ operands[m] = << >>)
      BY <1>1, IdleFacts
    <3>2. top_nodes'[m] = IF m = n THEN top_nodes[m] + 1 ELSE top_nodes[m]
      BY <1>1 DEF IInv, TypeOK
    <3> QED BY <3>1, <3>2, <1>1, <1>11 DEF One
  <2> QED BY <2>1, <2>2 DEF TopExact
<1> QED BY <1>6, <1>9, <1>10, <1>12, <1>13, <1>14 DEF IInv

LEMMA AppendInputInv ==
  ASSUME IInv, NEW n \in Nodes, NEW o \in Origins, AppendInput(n, o)
  PROVE  IInv'
<1> DEFINE c == Call("add_input", n, o)
<1>1. /\ n \in nodes /\ o \in Upstream(n) /\ work' = << c >> /\ Idle
      /\ UNCHANGED << nodes, operands, results, depth, top_nodes, bottom_nodes >>
  BY DEF AppendInput
<1>2. Producer(o) \in nodes \cup {Region} /\ Producer(o) # n
  BY <1>1 DEF Upstream, Available
<1>3. c \in Calls /\ c.op = "add_input" /\ c.node = n /\ c.origin = o
  BY CallType DEF Call
<1> HIDE DEF c
<1>4. work' \in Seq(Calls) /\ ToSet(work') = {c} /\ WorkOK'
  BY <1>1, <1>2, <1>3, WorkOfOne
<1>5. TypeOK'
  BY <1>1, <1>4 DEF IInv, TypeOK
<1>6. NoDangling' /\ NoSelf' /\ Freed' /\ BottomExact'
  BY <1>1 DEF IInv, NoDangling, NoSelf, Freed, BottomExact
<1>7. DepthsCorrect'
  BY <1>1, IdleFacts DEF DepthsCorrect
<1>8. TopExact'
  <2>1. \A m \in Nodes : ~Pending(Call("push_top", m, Region))'
    BY <1>3, <1>4 DEF Pending, Call
  <2> QED BY <2>1, <1>1, IdleFacts DEF TopExact
<1> QED BY <1>4, <1>5, <1>6, <1>7, <1>8 DEF IInv

LEMMA PruneInv ==
  ASSUME IInv, Prune
  PROVE  IInv'
<1> DEFINE c == Call("prune", Region, Region)
<1>1. /\ work' = << c >> /\ Idle
      /\ UNCHANGED << nodes, operands, results, depth, top_nodes, bottom_nodes >>
  BY DEF Prune
<1>2. c \in Calls /\ c.op = "prune"
  BY DEF Call, Calls
<1> HIDE DEF c
<1>3. work' \in Seq(Calls) /\ ToSet(work') = {c}
  BY <1>1, <1>2, OneElement
<1>4. WorkOK'
  <2>1. \A k \in DOMAIN work' : work'[k].op # "push_top"
    BY <1>2, <1>3 DEF ToSet
  <2> QED BY <2>1, <1>1, <1>2, <1>3 DEF WorkOK
<1>5. TypeOK'
  BY <1>1, <1>3 DEF IInv, TypeOK
<1>6. NoDangling' /\ NoSelf' /\ Freed' /\ BottomExact'
  BY <1>1 DEF IInv, NoDangling, NoSelf, Freed, BottomExact
<1>7. DepthsCorrect'
  BY <1>1, IdleFacts DEF DepthsCorrect
<1>8. TopExact'
  <2>1. \A m \in Nodes : ~Pending(Call("push_top", m, Region))'
    BY <1>2, <1>3 DEF Pending, Call
  <2> QED BY <2>1, <1>1, IdleFacts DEF TopExact
<1> QED BY <1>4, <1>5, <1>6, <1>7, <1>8 DEF IInv

\* The results change.
LEMMA ResultsInv ==
  ASSUME IInv, Idle, results' \in Seq(Origins),
         \A o \in ToSet(results') : Producer(o) \in nodes \cup {Region},
         bottom_nodes' = BottomAfter(operands, results, operands, results'),
         UNCHANGED << nodes, operands, depth, top_nodes, work >>
  PROVE  IInv'
<1>1. \A p \in Nodes : HasUsers(operands, results', p) => p \in nodes
  BY RegionAssumption DEF HasUsers, HasSuccessors, IInv, NoDangling
<1>2. bottom_nodes' \in [Nodes -> Int] /\ BottomExact'
  BY <1>1, BottomFollows DEF IInv, BottomExact
<1>3. TypeOK' /\ WorkOK'
  BY <1>2 DEF IInv, TypeOK, WorkOK
<1>4. NoDangling' /\ NoSelf' /\ Freed'
  BY DEF IInv, NoDangling, NoSelf, Freed
<1>5. DepthsCorrect' /\ TopExact'
  BY DEF IInv, DepthsCorrect, TopExact, Pending
<1> QED BY <1>2, <1>3, <1>4, <1>5 DEF IInv

LEMMA AppendResultInv ==
  ASSUME IInv, NEW o \in Origins, AppendResult(o)
  PROVE  IInv'
<1>1. results' \in Seq(Origins) /\ ToSet(results') = ToSet(results) \cup {o}
  BY AppendElements DEF AppendResult, IInv, TypeOK
<1> QED BY <1>1, ResultsInv DEF AppendResult, Available, IInv, NoDangling

LEMMA RemoveResultInv ==
  ASSUME IInv, NEW j, RemoveResult(j)
  PROVE  IInv'
<1>1. results' \in Seq(Origins) /\ ToSet(results') \subseteq ToSet(results)
  BY RemoveElements DEF RemoveResult, IInv, TypeOK
<1> QED BY <1>1, ResultsInv DEF RemoveResult, IInv, NoDangling

LEMMA DivertResultInv ==
  ASSUME IInv, NEW j, NEW o \in Origins, DivertResult(j, o)
  PROVE  IInv'
<1>1. j \in DOMAIN results /\ results \in Seq(Origins)
      /\ results' = [results EXCEPT ![j] = o]
  BY DEF DivertResult, IInv, TypeOK
<1>2. results' \in Seq(Origins) /\ ToSet(results') \subseteq ToSet(results) \cup {o}
  <2> DEFINE d == [results EXCEPT ![j] = o]
             r == RemoveAt(results, j)
  <2>0. /\ d \in Seq(Origins) /\ DOMAIN d = DOMAIN results /\ d[j] = o
        /\ \A k \in DOMAIN results : k # j => d[k] = results[k]
    BY <1>1
  <2>1. ToSet(d) = ToSet(r) \cup {o}
    <3> HIDE DEF d
    <3> QED BY <1>1, <2>0, DivertElements
  <2>2. ToSet(results) = ToSet(r) \cup {results[j]}
    BY <1>1, RemoveElements
  <2>3. results' = d
    BY <1>1
  <2> HIDE DEF d, r
  <2> QED BY <2>0, <2>1, <2>2, <2>3
<1>3. \A r \in ToSet(results') : Producer(r) \in nodes \cup {Region}
  BY <1>2 DEF DivertResult, Available, IInv, NoDangling
<1>4. bottom_nodes' = BottomAfter(operands, results, operands, results')
  BY DEF DivertResult
<1>5. Idle /\ UNCHANGED << nodes, operands, depth, top_nodes, work >>
  BY DEF DivertResult
<1> QED BY <1>2, <1>3, <1>4, <1>5, ResultsInv

\* Detaching the i-th input of n: which nodes have users afterwards.
LEMMA Detached ==
  ASSUME TypeOK, NEW n \in Nodes, NEW i \in DOMAIN operands[n]
  PROVE  LET unused == [operands EXCEPT ![n] = RemoveAt(@, i)]
             p == Producer(operands[n][i])
         IN  /\ unused \in [Nodes -> Seq(Origins)]
             /\ \A m \in Nodes : m # n => unused[m] = operands[m]
             /\ ToSet(operands[n]) = ToSet(unused[n]) \cup {operands[n][i]}
             /\ Producers(operands, n) = Producers(unused, n) \cup ({p} \ {Region})
             /\ \A q \in Nodes : HasUsers(operands, results, q)
                                   <=> HasUsers(unused, results, q) \/ q = p
<1> DEFINE unused == [operands EXCEPT ![n] = RemoveAt(@, i)]
           p == Producer(operands[n][i])
<1>1. operands[n] \in Seq(Origins)
  BY DEF TypeOK
<1>2. /\ RemoveAt(operands[n], i) \in Seq(Origins)
      /\ ToSet(operands[n]) = ToSet(RemoveAt(operands[n], i)) \cup {operands[n][i]}
  BY <1>1, RemoveElements
<1>3. /\ unused \in [Nodes -> Seq(Origins)] /\ unused[n] = RemoveAt(operands[n], i)
      /\ \A m \in Nodes : m # n => unused[m] = operands[m]
  BY <1>2 DEF TypeOK
<1> HIDE DEF unused
<1>4. ToSet(operands[n]) = ToSet(unused[n]) \cup {operands[n][i]}
  BY <1>2, <1>3
<1>5. Producers(operands, n) = Producers(unused, n) \cup ({p} \ {Region})
  BY <1>4 DEF Producers
<1>6. \A m \in Nodes : m # n => Producers(unused, m) = Producers(operands, m)
  BY <1>3 DEF Producers
<1>7. ASSUME NEW q \in Nodes
      PROVE  HasSuccessors(operands, q) <=> HasSuccessors(unused, q) \/ q = p
  <2>1. q # Region
    BY RegionAssumption
  <2> QED BY <2>1, <1>5, <1>6 DEF HasSuccessors
<1>8. \A q \in Nodes : HasUsers(operands, results, q)
                          <=> HasUsers(unused, results, q) \/ q = p
  BY <1>7 DEF HasUsers
<1> QED BY <1>3, <1>4, <1>5, <1>8 DEF unused

\* A new input of n from o: which nodes have users afterwards.
LEMMA Attached ==
  ASSUME NEW ins, NEW jns, NEW n \in Nodes, NEW o \in Origins,
         ToSet(jns[n]) = ToSet(ins[n]) \cup {o},
         \A m \in Nodes : m # n => jns[m] = ins[m]
  PROVE  /\ Producers(jns, n) = Producers(ins, n) \cup ({Producer(o)} \ {Region})
         /\ \A m \in Nodes : m # n => Producers(jns, m) = Producers(ins, m)
         /\ \A q \in Nodes : HasUsers(jns, results, q)
                               <=> HasUsers(ins, results, q) \/ q = Producer(o)
<1>1. Producers(jns, n) = Producers(ins, n) \cup ({Producer(o)} \ {Region})
  BY DEF Producers
<1>2. \A m \in Nodes : m # n => Producers(jns, m) = Producers(ins, m)
  BY DEF Producers
<1>3. ASSUME NEW q \in Nodes
      PROVE  HasSuccessors(jns, q) <=> HasSuccessors(ins, q) \/ q = Producer(o)
  <2>1. q # Region
    BY RegionAssumption
  <2> QED BY <2>1, <1>1, <1>2 DEF HasSuccessors
<1>4. \A q \in Nodes : HasUsers(jns, results, q)
                          <=> HasUsers(ins, results, q) \/ q = Producer(o)
  BY <1>3 DEF HasUsers
<1> QED BY <1>1, <1>2, <1>4

\* A node of which one input at least is looked at exists.
LEMMA InputExists ==
  ASSUME IInv, NEW n \in Nodes, NEW i \in DOMAIN operands[n]
  PROVE  n \in nodes /\ operands[n] # << >>
BY DEF IInv, Freed

LEMMA DivertInputInv ==
  ASSUME IInv, NEW n \in Nodes, NEW i, NEW o \in Origins, DivertInput(n, i, o)
  PROVE  IInv'
<1> DEFINE old == operands[n][i]
           unused == [operands EXCEPT ![n] = RemoveAt(@, i)]
           d == [operands[n] EXCEPT ![i] = o]
           c1 == Recomputing(n)
           c2 == Call("input_change", n, old)
<1>1. /\ i \in DOMAIN operands[n] /\ o \in Upstream(n) /\ Idle
      /\ operands' = [operands EXCEPT ![n][i] = o]
      /\ bottom_nodes' = [p \in Nodes |-> bottom_nodes[p]
              + One(p = Producer(old) /\ ~HasUsers(unused, results, p))
              - One(p = Producer(o) /\ ~HasUsers(unused, results, p))]
      /\ work' = << c1, c2 >>
      /\ UNCHANGED << nodes, results, depth, top_nodes >>
  BY DEF DivertInput
<1>2. n \in nodes /\ operands[n] # << >> /\ TypeOK /\ operands[n] \in Seq(Origins)
      /\ old \in Origins
  BY <1>1, InputExists DEF IInv, TypeOK
<1>3. Producer(o) \in nodes \cup {Region} /\ Producer(o) # n
  BY <1>1 DEF Upstream, Available
<1>4. d \in Seq(Origins) /\ ToSet(d) = ToSet(RemoveAt(operands[n], i)) \cup {o} /\ d # << >>
  <2>0. /\ d \in Seq(Origins) /\ DOMAIN d = DOMAIN operands[n] /\ d[i] = o
        /\ \A k \in DOMAIN operands[n] : k # i => d[k] = operands[n][k]
    BY <1>1, <1>2
  <2>1. ToSet(d) = ToSet(RemoveAt(operands[n], i)) \cup {o}
    <3> HIDE DEF d
    <3> QED BY <1>1, <1>2, <2>0, DivertElements
  <2>2. i \in DOMAIN d
    BY <1>1
  <2> QED BY <2>0, <2>1, <2>2
<1>5. operands' \in [Nodes -> Seq(Origins)] /\ operands'[n] = d
      /\ \A m \in Nodes : m # n => operands'[m] = operands[m]
  <2>1. operands' = [operands EXCEPT ![n] = d]
    BY <1>1
  <2> HIDE DEF d
  <2> QED BY <2>1, <1>4 DEF IInv, TypeOK
<1>6. /\ unused[n] = RemoveAt(operands[n], i)
      /\ \A m \in Nodes : m # n => unused[m] = operands[m]
  BY <1>2 DEF TypeOK
<1>7. /\ Producers(operands, n) = Producers(unused, n) \cup ({Producer(old)} \ {Region})
      /\ \A q \in Nodes : HasUsers(operands, results, q)
                            <=> HasUsers(unused, results, q) \/ q = Producer(old)
  BY <1>1, <1>2, Detached
<1> HIDE DEF d, unused, old
<1>8. ToSet(operands'[n]) = ToSet(unused[n]) \cup {o}
      /\ \A m \in Nodes : m # n => operands'[m] = unused[m]
  BY <1>4, <1>5, <1>6
<1>9. /\ Producers(operands', n) = Producers(unused, n) \cup ({Producer(o)} \ {Region})
      /\ \A m \in Nodes : m # n => Producers(operands', m) = Producers(unused, m)
      /\ \A q \in Nodes : HasUsers(operands', results, q)
                            <=> HasUsers(unused, results, q) \/ q = Producer(o)
  <2> DEFINE jns == operands'
  <2>1. ToSet(jns[n]) = ToSet(unused[n]) \cup {o} /\ \A m \in Nodes : m # n => jns[m] = unused[m]
    BY <1>8
  <2> HIDE DEF jns
  <2>2. Producers(jns, n) = Producers(unused, n) \cup ({Producer(o)} \ {Region})
    BY <2>1 DEF Producers
  <2>3. \A m \in Nodes : m # n => Producers(jns, m) = Producers(unused, m)
    BY <2>1 DEF Producers
  <2>4. ASSUME NEW q \in Nodes
        PROVE  HasUsers(jns, results, q) <=> HasUsers(unused, results, q) \/ q = Producer(o)
    <3>1. q # Region
      BY RegionAssumption
    <3>2. HasSuccessors(jns, q) <=> HasSuccessors(unused, q) \/ q = Producer(o)
      BY <2>2, <2>3, <3>1 DEF HasSuccessors
    <3> QED BY <3>2 DEF HasUsers
  <2> QED BY <2>2, <2>3, <2>4 DEF jns
<1>10. /\ \A m \in Nodes : m # n => Producers(operands', m) = Producers(operands, m)
       /\ Producers(operands', n) \subseteq Producers(operands, n) \cup ({Producer(o)} \ {Region})
  BY <1>5, <1>7, <1>9 DEF Producers
<1>11. c1 \in Calls /\ c2 \in Calls /\ c1.node = n /\ c2.node = n
       /\ c1.op = "recompute_depth" /\ c2.op = "input_change" /\ c1 = Recomputing(c1.node)
  BY <1>2, CallType DEF Call, Recomputing
<1> HIDE DEF c1, c2
<1>12. work' \in Seq(Calls) /\ ToSet(work') = {c1, c2}
  BY <1>1, <1>11 DEF ToSet
<1>13. TypeOK'
  <2>1. bottom_nodes' \in [Nodes -> Int]
    BY <1>1, <1>2 DEF TypeOK, One
  <2> QED BY <2>1, <1>1, <1>2, <1>5, <1>12 DEF TypeOK
<1>14. WorkOK'
  <2>1. \A k \in DOMAIN work' : work'[k].op # "push_top"
    BY <1>11, <1>12 DEF ToSet
  <2> QED BY <2>1, <1>1, <1>2, <1>11, <1>12 DEF WorkOK
<1>15. NoDangling'
  BY <1>1, <1>3, <1>10 DEF IInv, NoDangling
<1>16. NoSelf'
  BY <1>3, <1>10 DEF IInv, NoSelf
<1>17. Freed'
  BY <1>1, <1>2, <1>5 DEF IInv, Freed
<1>18. BottomExact'
  <2> SUFFICES ASSUME NEW q \in Nodes
               PROVE  bottom_nodes'[q] = One(q \in nodes /\ ~HasUsers(operands', results, q))
    BY <1>1 DEF BottomExact
  <2>1. bottom_nodes[q] = One(q \in nodes /\ ~HasUsers(operands, results, q))
    BY DEF IInv, BottomExact
  <2>2. bottom_nodes'[q] = bottom_nodes[q]
              + One(q = Producer(old) /\ ~HasUsers(unused, results, q))
              - One(q = Producer(o) /\ ~HasUsers(unused, results, q))
    BY <1>1
  <2>3. q = Producer(old) => q \in nodes
    BY <1>7, UsersExist DEF IInv
  <2>4. q = Producer(o) => q \in nodes
    BY <1>3, RegionAssumption
  <2>5. HasUsers(operands, results, q) <=> HasUsers(unused, results, q) \/ q = Producer(old)
    BY <1>7
  <2>6. HasUsers(operands', results, q) <=> HasUsers(unused, results, q) \/ q = Producer(o)
    BY <1>9
  <2> QED BY <2>1, <2>2, <2>3, <2>4, <2>5, <2>6 DEF One
<1>19. DepthsCorrect'
  <2> SUFFICES ASSUME NEW m \in nodes
               PROVE  \/ IsDepth(depth[m], operands', depth, m)
                      \/ Recomputing(m) \in ToSet(work')
    BY <1>1 DEF DepthsCorrect, Pending
  <2>1. CASE m = n
    BY <2>1, <1>11, <1>12
  <2>2. CASE m # n
    <3>1. Producers(operands', m) = Producers(operands, m)
      BY <2>2, <1>2, <1>10 DEF TypeOK
    <3> QED BY <3>1, <1>1, IdleFacts, DepthLocal
  <2> QED BY <2>1, <2>2
<1>20. TopExact'
  <2>1. \A m \in Nodes : Call("push_top", m, Region) \notin ToSet(work')
    BY <1>11, <1>12 DEF Call
  <2>2. \A m \in Nodes : operands'[m] = << >> <=> operands[m] = << >>
    BY <1>2, <1>4, <1>5
  <2> QED BY <2>1, <2>2, <1>1, IdleFacts DEF TopExact, Pending
<1> QED BY <1>13, <1>14, <1>15, <1>16, <1>17, <1>18, <1>19, <1>20 DEF IInv

LEMMA RemoveInputInv ==
  ASSUME IInv, NEW n \in Nodes, NEW i, RemoveInput(n, i)
  PROVE  IInv'
<1> DEFINE removed == [operands EXCEPT ![n] = RemoveAt(@, i)]
           p == Producer(operands[n][i])
           c1 == Recomputing(n)
           c2 == Call("push_top", n, Region)
           kept == p # Region /\ depth[p] # depth[n] - 1
           calls == IF kept THEN << >>
                    ELSE IF removed[n] = << >> THEN << c1, c2 >> ELSE << c1 >>
<1>1. /\ i \in DOMAIN operands[n] /\ Idle
      /\ operands' = removed
      /\ bottom_nodes' = BottomAfter(operands, results, removed, results)
      /\ work' = calls
      /\ UNCHANGED << nodes, results, depth, top_nodes >>
  BY DEF RemoveInput
<1>2. n \in nodes /\ operands[n] # << >> /\ TypeOK
  BY <1>1, InputExists DEF IInv
<1>3. /\ removed \in [Nodes -> Seq(Origins)]
      /\ \A m \in Nodes : m # n => removed[m] = operands[m]
      /\ Producers(operands, n) = Producers(removed, n) \cup ({p} \ {Region})
      /\ \A q \in Nodes : HasUsers(operands, results, q)
                            <=> HasUsers(removed, results, q) \/ q = p
  BY <1>1, <1>2, Detached
<1> HIDE DEF removed, p
<1>4. /\ c1 \in Calls /\ c2 \in Calls /\ c1.node = n /\ c2.node = n
      /\ c1.op = "recompute_depth" /\ c2.op = "push_top" /\ c1 = Recomputing(c1.node)
      /\ c2 = Call("push_top", c2.node, Region)
      /\ \A m : c2 = Call("push_top", m, Region) => m = n
      /\ \A m : c1 # Call("push_top", m, Region)
  BY CallType DEF Call, Calls, Recomputing
<1> HIDE DEF c1, c2
<1>5. \/ /\ kept /\ work' = << >>
      \/ /\ ~kept /\ removed[n] # << >> /\ work' = << c1 >>
      \/ /\ ~kept /\ removed[n] = << >> /\ work' = << c1, c2 >>
  BY <1>1
<1>6. kept => removed[n] # << >> /\ IsDepth(depth[n], removed, depth, n)
  <2> SUFFICES ASSUME kept
               PROVE  removed[n] # << >> /\ IsDepth(depth[n], removed, depth, n)
    OBVIOUS
  <2>1. IsDepth(depth[n], operands, depth, n)
    BY <1>1, <1>2, IdleFacts
  <2>2. p \in Producers(operands, n) /\ p \in Nodes
    BY <1>2, <1>3 DEF IInv, NoDangling, TypeOK
  <2>3. depth[n] # 0
    BY <1>2, <2>1, <2>2 DEF IsDepth, TypeOK
  <2>4. PICK q \in Producers(operands, n) : depth[q] = depth[n] - 1
    BY <2>1, <2>3 DEF IsDepth
  <2>5. q \in Producers(removed, n)
    BY <2>4, <1>3
  <2>6. removed[n] # << >>
    BY <2>5, EmptyProducers
  <2>7. IsDepth(depth[n], removed, depth, n)
    BY <2>1, <2>4, <2>5, <1>3 DEF IsDepth
  <2> QED BY <2>6, <2>7
<1> HIDE DEF kept, calls
<1>7. /\ work' \in Seq(Calls) /\ WorkOK'
      /\ ToSet(work') \in {{}, {c1}, {c1, c2}}
      /\ c1 \in ToSet(work') <=> ~kept
      /\ c2 \in ToSet(work') <=> ~kept /\ removed[n] = << >>
  <2>1. CASE kept /\ work' = << >>
    <3>1. ToSet(work') = {} /\ DOMAIN work' = {} /\ work' \in Seq(Calls)
      BY <2>1 DEF ToSet
    <3> QED BY <3>1, <2>1 DEF WorkOK
  <2>2. CASE ~kept /\ removed[n] # << >> /\ work' = << c1 >>
    <3>1. ToSet(work') = {c1} /\ DOMAIN work' = {1} /\ work' \in Seq(Calls) /\ work'[1] = c1
      BY <2>2, <1>4 DEF ToSet
    <3>2. WorkOK'
      BY <3>1, <1>1, <1>2, <1>4 DEF WorkOK
    <3>3. c1 # c2
      BY <1>4
    <3> QED BY <3>1, <3>2, <3>3, <2>2
  <2>3. CASE ~kept /\ removed[n] = << >> /\ work' = << c1, c2 >>
    <3>1. ToSet(work') = {c1, c2} /\ DOMAIN work' = {1, 2} /\ work' \in Seq(Calls)
          /\ work'[1] = c1 /\ work'[2] = c2 /\ Len(work') = 2
      BY <2>3, <1>4 DEF ToSet
    <3>2. WorkOK'
      BY <3>1, <2>3, <1>1, <1>2, <1>4 DEF WorkOK
    <3> QED BY <3>1, <3>2, <2>3
  <2> QED BY <2>1, <2>2, <2>3, <1>5
<1>8. /\ \A m \in Nodes : Producers(removed, m) \subseteq Producers(operands, m)
      /\ \A m \in Nodes : m # n => Producers(removed, m) = Producers(operands, m)
  BY <1>3 DEF Producers
<1>9. \A q \in Nodes : HasUsers(removed, results, q) => q \in nodes
  BY <1>3, UsersExist DEF IInv
<1>10. bottom_nodes' \in [Nodes -> Int] /\ BottomExact'
  <2>1. /\ bottom_nodes' \in [Nodes -> Int]
        /\ \A m \in Nodes : bottom_nodes'[m]
                              = One(m \in nodes /\ ~HasUsers(removed, results, m))
    BY <1>1, <1>9, BottomFollows DEF IInv
  <2> QED BY <2>1, <1>1 DEF BottomExact
<1>11. Freed'
  BY <1>1, <1>2, <1>3 DEF IInv, Freed
<1>12. TypeOK'
  BY <1>1, <1>3, <1>7, <1>10, <1>11 DEF TypeOK, IInv, Freed
<1>13. NoDangling' /\ NoSelf'
  BY <1>1, <1>8 DEF IInv, NoDangling, NoSelf
<1>14. DepthsCorrect'
  <2> SUFFICES ASSUME NEW m \in nodes
               PROVE  \/ IsDepth(depth[m], removed, depth, m)
                      \/ Recomputing(m) \in ToSet(work')
    BY <1>1 DEF DepthsCorrect, Pending
  <2>1. CASE m = n
    BY <2>1, <1>4, <1>6, <1>7
  <2>2. CASE m # n
    <3>1. Producers(removed, m) = Producers(operands, m)
      BY <2>2, <1>2, <1>8 DEF TypeOK
    <3> QED BY <3>1, <1>1, IdleFacts, DepthLocal
  <2> QED BY <2>1, <2>2
<1>15. TopExact'
  <2> SUFFICES ASSUME NEW m \in Nodes
               PROVE  top_nodes[m] = One(/\ m \in nodes /\ removed[m] = << >>
                                         /\ Call("push_top", m, Region) \notin ToSet(work'))
    BY <1>1 DEF TopExact, Pending
  <2>1. top_nodes[m] = One(m \in nodes /\ operands[m] = << >>)
    BY <1>1, IdleFacts
  <2>2. CASE m = n
    <3>1. removed[n] = << >> => c2 \in ToSet(work')
      BY <1>6, <1>7
    <3> QED BY <3>1, <2>1, <2>2, <1>2, <1>4 DEF One
  <2>3. CASE m # n
    <3>1. Call("push_top", m, Region) \notin ToSet(work')
      BY <2>3, <1>4, <1>7
    <3> QED BY <3>1, <2>1, <2>3, <1>3
  <2> QED BY <2>2, <2>3
<1> QED BY <1>7, <1>10, <1>11, <1>12, <1>13, <1>14, <1>15 DEF IInv

-----------------------------------------------------------------------------
(* The calls that those calls make, and the destruction of a node. *)

LEMMA AddInputInv ==
  ASSUME IInv, AddInput
  PROVE  IInv'
<1>0. PICK n, o : n = Head(work).node /\ o = Head(work).origin
  OBVIOUS
<1> DEFINE p == Producer(o)
           rest == Tail(work)
           c1 == Recomputing(n)
           added == [operands EXCEPT ![n] = Append(@, o)]
           new_depth == IF p = Region THEN 0 ELSE depth[p] + 1
<1>1. /\ work # << >> /\ Head(work).op = "add_input"
      /\ operands' = added
      /\ bottom_nodes' = BottomAfter(operands, results, added, results)
      /\ top_nodes' = [top_nodes EXCEPT ![n] = @ - One(operands[n] = << >>)]
      /\ work' = IF new_depth > depth[n] THEN << c1 >> \o rest ELSE rest
      /\ UNCHANGED << nodes, results, depth >>
  BY <1>0 DEF AddInput, Calling
<1>2. /\ Head(work) \in Calls /\ Head(work) \in ToSet(work) /\ rest \in Seq(Calls)
      /\ ToSet(work) = {Head(work)} \cup ToSet(rest)
      /\ \A k \in DOMAIN rest : rest[k].op = "push_top" => k = Len(rest)
      /\ \A c \in ToSet(rest) : c.op # "prune"
  BY <1>1, WorkTail
<1>3. /\ n \in nodes /\ n \in Nodes /\ o \in Origins
      /\ p \in nodes \cup {Region} /\ p # n
  BY <1>0, <1>1, <1>2 DEF IInv, WorkOK, TypeOK
<1>4. \A c \in ToSet(work) : c.op # "push_top"
  BY <1>1, <1>2 DEF IInv, WorkOK
<1>5. /\ added \in [Nodes -> Seq(Origins)] /\ added[n] # << >>
      /\ ToSet(added[n]) = ToSet(operands[n]) \cup {o}
      /\ \A m \in Nodes : m # n => added[m] = operands[m]
  <2> DEFINE a == Append(operands[n], o)
  <2>1. operands[n] \in Seq(Origins)
    BY <1>3 DEF IInv, TypeOK
  <2>2. a \in Seq(Origins) /\ ToSet(a) = ToSet(operands[n]) \cup {o}
    BY <1>3, <2>1, AppendElements
  <2>3. a # << >>
    BY <2>2, NoElement
  <2> HIDE DEF a
  <2>4. added = [operands EXCEPT ![n] = a]
    BY DEF a
  <2> QED BY <1>3, <2>2, <2>3, <2>4 DEF IInv, TypeOK
<1> HIDE DEF rest, added
<1>6. /\ Producers(added, n) = Producers(operands, n) \cup ({p} \ {Region})
      /\ \A m \in Nodes : m # n => Producers(added, m) = Producers(operands, m)
      /\ \A q \in Nodes : HasUsers(added, results, q)
                            <=> HasUsers(operands, results, q) \/ q = p
  <2>1. /\ ToSet(added[n]) = ToSet(operands[n]) \cup {o} /\ n \in Nodes /\ o \in Origins
        /\ \A m \in Nodes : m # n => added[m] = operands[m]
    BY <1>3, <1>5
  <2>2. Producers(added, n) = Producers(operands, n) \cup ({p} \ {Region})
    BY <2>1 DEF Producers
  <2>3. \A m \in Nodes : m # n => Producers(added, m) = Producers(operands, m)
    BY <2>1 DEF Producers
  <2>4. ASSUME NEW q \in Nodes
        PROVE  HasUsers(added, results, q) <=> HasUsers(operands, results, q) \/ q = p
    <3>1. q # Region
      BY RegionAssumption
    <3> HIDE DEF p
    <3>2. HasSuccessors(added, q) <=> HasSuccessors(operands, q) \/ q = p
      BY <1>3, <2>2, <2>3, <3>1 DEF HasSuccessors
    <3> QED BY <3>2 DEF HasUsers
  <2> QED BY <2>2, <2>3, <2>4
<1>7. c1 \in Calls /\ c1.node = n /\ c1.op = "recompute_depth" /\ << c1 >> \in Seq(Calls)
      /\ ToSet(<< c1 >>) = {c1}
  <2>1. c1 \in Calls /\ c1.node = n /\ c1.op = "recompute_depth"
    BY <1>3, CallType DEF Call, Recomputing
  <2> HIDE DEF c1
  <2> QED BY <2>1, OneElement
<1> HIDE DEF p, new_depth
<1>8. /\ work' \in Seq(Calls) /\ ToSet(rest) \subseteq ToSet(work')
      /\ \/ new_depth > depth[n] /\ ToSet(work') = {c1} \cup ToSet(rest)
         \/ ~(new_depth > depth[n]) /\ ToSet(work') = ToSet(rest)
  <2>1. CASE new_depth > depth[n]
    <3> DEFINE one == << c1 >>
    <3>1. work' = one \o rest /\ one \in Seq(Calls) /\ ToSet(one) = {c1}
      BY <2>1, <1>1, <1>7
    <3> HIDE DEF one, c1
    <3>2. work' \in Seq(Calls) /\ ToSet(work') = {c1} \cup ToSet(rest)
      BY <3>1, <1>2, ConcatElements
    <3> QED BY <2>1, <3>2
  <2>2. CASE ~(new_depth > depth[n])
    BY <2>2, <1>1, <1>2
  <2> QED BY <2>1, <2>2
<1>9. \A c \in ToSet(work') : c = c1 \/ c \in ToSet(work)
  BY <1>2, <1>8
<1>10. WorkOK'
  <2>1. \A k \in DOMAIN work' : work'[k].op # "push_top"
    BY <1>4, <1>7, <1>9 DEF ToSet
  <2>2. \A c \in ToSet(work') : c.op # "prune"
    BY <1>2, <1>7, <1>8
  <2> HIDE DEF c1
  <2>3. c1 = Recomputing(c1.node)
    BY <1>7 DEF c1
  <2> QED BY <1>1, <1>3, <1>4, <1>7, <1>9, <2>1, <2>2, <2>3 DEF IInv, WorkOK
<1>11. \A q \in Nodes : HasUsers(added, results, q) => q \in nodes
  BY <1>3, <1>6, UsersExist, RegionAssumption DEF IInv
<1>12. bottom_nodes' \in [Nodes -> Int] /\ BottomExact'
  <2>1. /\ bottom_nodes' \in [Nodes -> Int]
        /\ \A m \in Nodes : bottom_nodes'[m]
                              = One(m \in nodes /\ ~HasUsers(added, results, m))
    BY <1>1, <1>11, BottomFollows DEF IInv
  <2> QED BY <2>1, <1>1 DEF BottomExact
<1>13. Freed'
  BY <1>1, <1>3, <1>5 DEF IInv, Freed
<1>14. TypeOK'
  <2>0. One(operands[n] = << >>) \in Int
    BY DEF One
  <2>1. top_nodes' \in [Nodes -> Int]
    BY <1>1, <1>3, <2>0 DEF IInv, TypeOK
  <2> QED BY <2>1, <1>1, <1>5, <1>8, <1>12, <1>13 DEF TypeOK, IInv, Freed
<1>15. NoDangling'
  BY <1>1, <1>3, <1>6 DEF IInv, NoDangling
<1>16. NoSelf'
  BY <1>1, <1>3, <1>6 DEF IInv, NoSelf
<1>17. DepthsCorrect'
  <2> SUFFICES ASSUME NEW m \in nodes
               PROVE  \/ IsDepth(depth[m], added, depth, m)
                      \/ Recomputing(m) \in ToSet(work')
    BY <1>1 DEF DepthsCorrect, Pending
  <2>1. \/ IsDepth(depth[m], operands, depth, m)
        \/ Recomputing(m) \in ToSet(work')
    <3>1. Recomputing(m) # Head(work)
      BY <1>1 DEF Recomputing, Call
    <3> QED BY <3>1, <1>2, <1>8 DEF IInv, DepthsCorrect, Pending
  <2>2. CASE m # n
    <3>1. Producers(added, m) = Producers(operands, m)
      BY <2>2, <1>6 DEF IInv, TypeOK
    <3> QED BY <3>1, <2>1, DepthLocal
  <2>3. CASE m = n /\ new_depth > depth[n]
    BY <2>3, <1>8
  <2>4. CASE m = n /\ ~(new_depth > depth[n]) /\ IsDepth(depth[n], operands, depth, n)
    <3>1. p # Region => p \in Nodes /\ depth[p] < depth[n]
      BY <2>4, <1>3 DEF IInv, TypeOK, new_depth
    <3>2. \A q \in Producers(added, n) : depth[q] < depth[n]
      BY <2>4, <3>1, <1>6 DEF IsDepth
    <3>3. depth[n] # 0 => \E q \in Producers(added, n) : depth[q] = depth[n] - 1
      BY <2>4, <1>6 DEF IsDepth
    <3> QED BY <2>4, <3>2, <3>3 DEF IsDepth
  <2> QED BY <2>1, <2>2, <2>3, <2>4
<1>18. TopExact'
  <2>0. \A m \in Nodes : Call("push_top", m, Region) \notin ToSet(work')
    BY <1>4, <1>7, <1>9 DEF Call
  <2> SUFFICES ASSUME NEW m \in Nodes
               PROVE  top_nodes'[m] = One(m \in nodes /\ added[m] = << >>)
    BY <2>0, <1>1 DEF TopExact, Pending
  <2>1. Call("push_top", m, Region) \notin ToSet(work)
    BY <1>4 DEF Call
  <2>2. top_nodes[m] = One(m \in nodes /\ operands[m] = << >>)
    BY <2>1 DEF IInv, TopExact, Pending
  <2>3. top_nodes'[m] = IF m = n THEN top_nodes[m] - One(operands[m] = << >>) ELSE top_nodes[m]
    BY <1>1 DEF IInv, TypeOK
  <2> QED BY <2>2, <2>3, <1>3, <1>5 DEF One
<1> QED BY <1>10, <1>12, <1>13, <1>14, <1>15, <1>16, <1>17, <1>18 DEF IInv

LEMMA DestroyInv ==
  ASSUME IInv, NEW n \in nodes, ~HasUsers(operands, results, n),
         \A c \in ToSet(work) : c.op = "prune", Destroy(n), UNCHANGED work
  PROVE  IInv'
<1> DEFINE freed == [operands EXCEPT ![n] = << >>]
           left == BottomAfter(operands, results, freed, results)
<1>1. /\ nodes' = nodes \ {n} /\ operands' = freed
      /\ depth' = [depth EXCEPT ![n] = 0]
      /\ top_nodes' = [top_nodes EXCEPT ![n] = @ - One(operands[n] = << >>)]
      /\ bottom_nodes' = [left EXCEPT ![n] = @ - 1]
      /\ UNCHANGED << results, work >>
  BY DEF Destroy
<1>2. n \in Nodes
  BY DEF IInv, TypeOK
<1>3. /\ freed \in [Nodes -> Seq(Origins)] /\ freed[n] = << >>
      /\ \A m \in Nodes : m # n => freed[m] = operands[m]
  BY <1>2 DEF IInv, TypeOK
<1> HIDE DEF freed
<1>4. /\ \A m \in Nodes : Producers(freed, m) \subseteq Producers(operands, m)
      /\ \A m \in Nodes : m # n => Producers(freed, m) = Producers(operands, m)
  BY <1>3, EmptyProducers DEF Producers
<1>5. /\ \A m \in Nodes : n \notin Producers(operands, m)
      /\ \A o \in ToSet(results) : Producer(o) # n
  BY DEF HasUsers, HasSuccessors
<1>6. \A q \in Nodes : HasUsers(freed, results, q) => HasUsers(operands, results, q)
  BY <1>4 DEF HasUsers, HasSuccessors
<1>7. /\ left \in [Nodes -> Int]
      /\ \A m \in Nodes : left[m] = One(m \in nodes /\ ~HasUsers(freed, results, m))
  BY <1>6, UsersExist, BottomFollows DEF IInv
<1> HIDE DEF left
<1>8. BottomExact'
  <2> SUFFICES ASSUME NEW m \in Nodes
               PROVE  bottom_nodes'[m] = One(m \in nodes \ {n} /\ ~HasUsers(freed, results, m))
    BY <1>1 DEF BottomExact
  <2>1. ~HasUsers(freed, results, n)
    BY <1>2, <1>6
  <2>2. bottom_nodes'[m] = IF m = n THEN left[m] - 1 ELSE left[m]
    BY <1>1, <1>7
  <2>3. left[m] = One(m \in nodes /\ ~HasUsers(freed, results, m))
    BY <1>7
  <2> QED BY <2>1, <2>2, <2>3 DEF One
<1>9. Freed'
  BY <1>1, <1>2, <1>3 DEF IInv, TypeOK, Freed
<1>10. TypeOK'
  <2>1. top_nodes' \in [Nodes -> Int] /\ bottom_nodes' \in [Nodes -> Int]
        /\ depth' \in [Nodes -> Nat]
    BY <1>1, <1>2, <1>7 DEF IInv, TypeOK, One
  <2> QED BY <2>1, <1>1, <1>3, <1>9 DEF IInv, TypeOK, Freed
<1>11. WorkOK'
  BY <1>1 DEF IInv, WorkOK, ToSet
<1>12. NoDangling' /\ NoSelf'
  BY <1>1, <1>4, <1>5 DEF IInv, NoDangling, NoSelf
<1>13. DepthsCorrect'
  <2> SUFFICES ASSUME NEW m \in nodes, m # n
               PROVE  IsDepth(depth'[m], freed, depth', m)
    BY <1>1 DEF DepthsCorrect
  <2>1. m \in Nodes /\ Producers(freed, m) = Producers(operands, m)
    BY <1>4 DEF IInv, TypeOK
  <2>2. \A p \in Nodes : p # n => depth'[p] = depth[p]
    BY <1>1 DEF IInv, TypeOK
  <2>3. \A p \in Producers(operands, m) : depth'[p] = depth[p]
    BY <2>1, <2>2, <1>5 DEF IInv, NoDangling, TypeOK
  <2>4. IsDepth(depth[m], operands, depth, m)
    BY DEF IInv, DepthsCorrect, Pending, Recomputing, Call
  <2> QED BY <2>1, <2>2, <2>3, <2>4 DEF IsDepth
<1>14. TopExact'
  <2>0. \A m \in Nodes : Call("push_top", m, Region) \notin ToSet(work)
    BY DEF Call
  <2> SUFFICES ASSUME NEW m \in Nodes
               PROVE  top_nodes'[m] = One(m \in nodes \ {n} /\ freed[m] = << >>)
    BY <2>0, <1>1 DEF TopExact, Pending
  <2>1. top_nodes[m] = One(m \in nodes /\ operands[m] = << >>)
    BY <2>0 DEF IInv, TopExact, Pending
  <2>2. top_nodes'[m] = IF m = n THEN top_nodes[m] - One(operands[m] = << >>) ELSE top_nodes[m]
    BY <1>1, <1>2 DEF IInv, TypeOK
  <2> QED BY <2>1, <2>2, <1>3 DEF One
<1> QED BY <1>8, <1>9, <1>10, <1>11, <1>12, <1>13, <1>14 DEF IInv

-----------------------------------------------------------------------------
(* The theorems. *)

\* The operands a pass gives a new node.
LEMMA OperandListElements ==
  ASSUME NEW origins \in OperandLists
  PROVE  /\ origins \in Seq(Origins)
         /\ \A o \in ToSet(origins) : Producer(o) \in nodes \cup {Region}
<1>1. PICK k \in 0 .. MaxInputs : origins \in [1 .. k -> Available]
  BY DEF OperandLists
<1>2. k \in Nat /\ Available \subseteq Origins
  BY <1>1, BoundsAssumption DEF Available
<1>3. origins \in Seq(Origins)
  BY <1>1, <1>2
<1>4. \A o \in ToSet(origins) : o \in Available
  BY <1>1 DEF ToSet
<1> QED BY <1>3, <1>4 DEF Available

LEMMA PassInv ==
  ASSUME IInv, Pass
  PROVE  IInv'
<1>1. ASSUME NEW n \in Nodes, NEW origins \in OperandLists, CreateSimple(n, origins)
      PROVE  IInv'
  BY <1>1, OperandListElements, ConstructInv DEF CreateSimple
<1>2. ASSUME NEW n \in Nodes, CreateStructural(n)
      PROVE  IInv'
  <2>1. << >> \in Seq(Origins) /\ ToSet(<< >>) = {}
    BY DEF ToSet
  <2> QED BY <2>1, <1>2, ConstructInv DEF CreateStructural
<1>3. ASSUME NEW n \in Nodes, RemoveNode(n)
      PROVE  IInv'
  <2>1. \A c \in ToSet(work) : c.op = "prune"
    BY <1>3, IdleFacts DEF RemoveNode
  <2> QED BY <1>3, <2>1, DestroyInv DEF RemoveNode
<1>4. ASSUME NEW n \in Nodes, NEW o \in Origins, AppendInput(n, o)
      PROVE  IInv'
  BY <1>4, AppendInputInv
<1>5. ASSUME NEW n \in Nodes, NEW i \in 1 .. MaxInputs, NEW o \in Origins, DivertInput(n, i, o)
      PROVE  IInv'
  BY <1>5, DivertInputInv
<1>6. ASSUME NEW n \in Nodes, NEW i \in 1 .. MaxInputs, RemoveInput(n, i)
      PROVE  IInv'
  BY <1>6, RemoveInputInv
<1>7. ASSUME NEW o \in Origins, AppendResult(o)
      PROVE  IInv'
  BY <1>7, AppendResultInv
<1>8. ASSUME NEW j \in 1 .. MaxResults, RemoveResult(j)
      PROVE  IInv'
  BY <1>8, RemoveResultInv
<1>9. ASSUME NEW j \in 1 .. MaxResults, NEW o \in Origins, DivertResult(j, o)
      PROVE  IInv'
  BY <1>9, DivertResultInv
<1>10. CASE Prune
  BY <1>10, PruneInv
<1> QED
  BY <1>1, <1>2, <1>3, <1>4, <1>5, <1>6, <1>7, <1>8, <1>9, <1>10 DEF Pass

\* A step of prune destroys a node nobody uses, for the list of bottom nodes is
\* exact.
LEMMA PruneNodeInv ==
  ASSUME IInv, NEW n \in Nodes, PruneNode(n)
  PROVE  IInv'
<1>1. n \in nodes /\ ~HasUsers(operands, results, n)
  BY DEF IInv, BottomExact, PruneNode, One
<1>2. work # << >> /\ Head(work).op = "prune" /\ Head(work) \in ToSet(work)
  BY WorkTail DEF PruneNode, Calling
<1>3. work = << Head(work) >>
  BY <1>2 DEF IInv, WorkOK
<1>4. \A c \in ToSet(work) : c.op = "prune"
  <2> DEFINE h == Head(work)
  <2>1. work = << h >> /\ h \in Calls
    BY <1>2, <1>3, WorkTail
  <2> HIDE DEF h
  <2>2. ToSet(<< h >>) = {h}
    BY <2>1, OneElement
  <2> QED BY <1>2, <2>1, <2>2 DEF h
<1> QED BY <1>1, <1>4, DestroyInv DEF PruneNode

LEMMA StepInv ==
  ASSUME IInv, Step
  PROVE  IInv'
<1>1. CASE AddInput
  BY <1>1, AddInputInv
<1>2. CASE RecomputeSame
  BY <1>2, ReturningInv DEF RecomputeSame, Calling
<1>3. CASE RecomputeChanged
  BY <1>3, RecomputeChangedInv
<1>4. CASE PushTop
  BY <1>4, PushTopInv
<1>5. CASE Notify
  BY <1>5, ReturningInv DEF Notify, Calling
<1>6. ASSUME NEW n \in Nodes, PruneNode(n)
      PROVE  IInv'
  BY <1>6, PruneNodeInv
<1>7. CASE PruneDone
  BY <1>7, ReturningInv DEF PruneDone, Calling
<1> QED BY <1>1, <1>2, <1>3, <1>4, <1>5, <1>6, <1>7 DEF Step

LEMMA StutterInv ==
  ASSUME IInv, UNCHANGED region
  PROVE  IInv'
<1> USE DEF region
<1>1. TypeOK' /\ WorkOK' /\ NoDangling'
  BY DEF IInv, TypeOK, WorkOK, NoDangling
<1>2. NoSelf' /\ Freed' /\ DepthsCorrect' /\ BottomExact' /\ TopExact'
  BY DEF IInv, NoSelf, Freed, DepthsCorrect, BottomExact, TopExact, Pending
<1> QED BY <1>1, <1>2 DEF IInv

\* The invariant is inductive: it holds of the empty region, and every call of
\* a pass and every call made by it preserves it.
THEOREM Invariant == Spec => []IInv
<1>1. ASSUME IInv, [Next]_region
      PROVE  IInv'
  BY <1>1, PassInv, StepInv, StutterInv DEF Next
<1> QED BY <1>1, InitInv, PTL DEF Spec

\* Type correctness, of a region with any number of nodes.
THEOREM TypeCorrect == Spec => []TypeOK
<1>1. IInv => TypeOK
  BY DEF IInv
<1> QED BY <1>1, Invariant, PTL

\* The shortcuts of node::add_input and node::RemoveInput are right: a depth
\* that is out of date is always waiting to be recomputed.
THEOREM DepthsStayCorrect == Spec => []DepthsCorrect
<1>1. IInv => DepthsCorrect
  BY DEF IInv
<1> QED BY <1>1, Invariant, PTL

\* The intrusive lists of top and bottom nodes are exact at every moment: no
\* call links a node twice, unlinks one that is not linked, or forgets one.
THEOREM ListsStayExact == Spec => []ListsExact
<1>1. IInv => ListsExact
  BY ListsHalves DEF IInv
<1> QED BY <1>1, Invariant, PTL

\* No input and no result ever refers to a node that was destroyed, by
\* region::remove_node or by region::prune.
THEOREM NeverDangling == Spec => []NoDangling
<1>1. IInv => NoDangling
  BY DEF IInv
<1> QED BY <1>1, Invariant, PTL

-----------------------------------------------------------------------------
(* region::prune. *)

\* While region::prune runs nothing else is to be done.
LEMMA OnlyPrune ==
  ASSUME IInv, Calling("prune")
  PROVE  \A n \in Nodes : ~Pending(Recomputing(n))
<1>1. work # << >> /\ Head(work).op = "prune" /\ Head(work) \in ToSet(work)
  BY WorkTail DEF Calling
<1>2. work = << Head(work) >>
  BY <1>1 DEF IInv, WorkOK
<1> DEFINE h == Head(work)
<1>3. work = << h >> /\ h \in Calls
  BY <1>1, <1>2, WorkTail
<1> HIDE DEF h
<1>4. ToSet(<< h >>) = {h}
  BY <1>3, OneElement
<1> QED BY <1>1, <1>3, <1>4 DEF h, Pending, Recomputing, Call

\* A result that depends on what depends on a node depends on the node.
LEMMA NeededUpstream ==
  ASSUME NEW n \in nodes, nodes \subseteq Nodes, NEW m \in Needed,
         n \in Producers(operands, m)
  PROVE  n \in Needed
<1>1. n \in Nodes /\ m \in Nodes
  BY DEF Needed
<1>2. PICK k \in Downstream(operands, m) : \E o \in ToSet(results) : Producer(o) = k
  BY DEF Needed
<1> DEFINE X == Downstream(operands, n)
<1>3. /\ n \in X
      /\ \A u \in Nodes : Producers(operands, u) \cap X # {} => u \in X
  BY <1>1, DownstreamClosed
<1>4. m \in X
  BY <1>1, <1>3
<1>5. Downstream(operands, m) \subseteq X
  <2> HIDE DEF X
  <2> QED BY <1>1, <1>3, <1>4, DownstreamLeast
<1> QED BY <1>2, <1>5 DEF Needed

\* A node no result depends on has a user that is not needed either, and that
\* is deeper.  So when every node has users, none is left.
LEMMA PruneDoneLeaves ==
  ASSUME IInv, PruneDone
  PROVE  nodes = Needed
<1>1. nodes \subseteq Nodes /\ depth \in [Nodes -> Nat]
  BY DEF IInv, TypeOK
<1>2. \A n \in nodes : HasUsers(operands, results, n)
  BY <1>1 DEF IInv, BottomExact, PruneDone, One
<1>3. \A n \in nodes : IsDepth(depth[n], operands, depth, n)
  BY <1>1, OnlyPrune DEF IInv, DepthsCorrect, PruneDone
<1> DEFINE M == nodes \ Needed
           D == {depth[n] : n \in M}
<1> SUFFICES ASSUME M # {} PROVE FALSE
  BY DEF Needed
<1>4. PICK n \in M : \A m \in M : depth[m] <= depth[n]
  <2>1. M \in SUBSET Nodes
    BY <1>1
  <2>2. IsFiniteSet(D) /\ D \subseteq Nat
    <3> HIDE DEF M
    <3> QED BY <1>1, <2>1, DepthsFinite
  <2>3. D # {}
    OBVIOUS
  <2>4. Max(D) \in D /\ \A x \in D : x <= Max(D)
    <3> HIDE DEF D
    <3> QED BY <2>2, <2>3, Extremes
  <2>5. PICK n \in M : depth[n] = Max(D)
    BY <2>4
  <2>6. \A m \in M : depth[m] \in D
    OBVIOUS
  <2> HIDE DEF M, D
  <2> QED BY <2>4, <2>5, <2>6
<1>5. n \in Nodes /\ n \in nodes /\ n \notin Needed
  BY <1>1, <1>4
<1>6. CASE \E o \in ToSet(results) : Producer(o) = n
  <2>1. n \in Downstream(operands, n)
    BY <1>5, DownstreamClosed
  <2> QED BY <1>5, <1>6, <2>1 DEF Needed
<1>7. CASE HasSuccessors(operands, n)
  <2>1. PICK m \in Nodes : n \in Producers(operands, m)
    BY <1>7 DEF HasSuccessors
  <2>2. m \in nodes
    BY <2>1, EmptyProducers DEF IInv, Freed
  <2>3. depth[n] < depth[m]
    BY <2>1, <2>2, <1>3 DEF IsDepth
  <2>4. m \notin M
    BY <2>3, <1>4, <1>5, <1>1, <2>1
  <2>5. m \in Needed
    BY <2>2, <2>4
  <2> QED BY <1>1, <1>5, <2>1, <2>5, NeededUpstream
<1> QED BY <1>2, <1>5, <1>6, <1>7 DEF HasUsers

\* What prune destroys has no users, so nothing depends on it but itself.
LEMMA PruneKeepsNeeded ==
  ASSUME IInv, Calling("prune"), Next
  PROVE  Needed \subseteq nodes'
<1>1. ~Idle /\ Head(work).op = "prune"
  BY DEF Calling, Idle
<1>2. ~Pass
  BY <1>1 DEF Pass, Idle, CreateSimple, CreateStructural, Construct, RemoveNode,
       AppendInput, DivertInput, RemoveInput, AppendResult, RemoveResult,
       DivertResult, Prune
<1>3. Step
  BY <1>2 DEF Next
<1>4. PruneDone \/ \E n \in Nodes : PruneNode(n)
  BY <1>1, <1>3 DEF Step, Calling, AddInput, RecomputeSame, RecomputeChanged,
       PushTop, Notify
<1>5. CASE PruneDone
  BY <1>5 DEF PruneDone, Needed
<1>6. ASSUME NEW n \in Nodes, PruneNode(n)
      PROVE  Needed \subseteq nodes'
  <2>1. nodes' = nodes \ {n}
    BY <1>6 DEF PruneNode, Destroy
  <2>2. ~HasUsers(operands, results, n)
    BY <1>6 DEF IInv, BottomExact, PruneNode, One
  <2>3. \A m \in Nodes : Producers(operands, m) \cap {n} # {} => m \in {n}
    BY <2>2 DEF HasUsers, HasSuccessors
  <2>4. Downstream(operands, n) \subseteq {n}
    BY <2>3, DownstreamLeast
  <2>5. n \notin Needed
    BY <2>2, <2>4 DEF Needed, HasUsers
  <2> QED BY <2>1, <2>5 DEF Needed
<1> QED BY <1>4, <1>5, <1>6

\* region::prune destroys no node a result depends on, and leaves no other.
THEOREM PruneIsExact == Spec => PruneExact
<1>1. ASSUME IInv, [Next]_region
      PROVE  [/\ Calling("prune") => Needed \subseteq nodes'
              /\ PruneDone => nodes = Needed]_region
  <2>1. CASE Next
    BY <1>1, <2>1, PruneKeepsNeeded, PruneDoneLeaves
  <2> QED BY <1>1, <2>1
<1> QED BY <1>1, Invariant, PTL DEF Spec, PruneExact

-----------------------------------------------------------------------------
(* Recursion over a finite set. *)

\* A set of parts of a finite set, of which each but the whole can be enlarged,
\* has the whole.
LEMMA GrowsToAll ==
  ASSUME NEW N, IsFiniteSet(N), NEW A \in SUBSET SUBSET N, {} \in A,
         \A S \in A : S # N => \E T \in A : S \subseteq T /\ S # T
  PROVE  N \in A
<1> DEFINE Rest == {N \ S : S \in A}
<1>1. Rest # {} /\ Rest \subseteq FiniteSubsetsOf(N)
  <2>1. \A S \in SUBSET N : IsFiniteSet(S)
    BY FS_Subset
  <2> QED BY <2>1 DEF FiniteSubsetsOf
<1>2. PICK B \in Rest : \A C \in Rest : << C, B >> \notin StrictSubsetOrdering(N)
  <2>1. IsWellFoundedOn(StrictSubsetOrdering(N), FiniteSubsetsOf(N))
    BY FS_StrictSubsetOrderingWellFounded
  <2> HIDE DEF Rest
  <2> QED BY <1>1, <2>1, WFMin
<1>3. PICK S \in A : B = N \ S
  BY <1>2
<1>4. ASSUME S # N
      PROVE  FALSE
  <2>1. PICK T \in A : S \subseteq T /\ S # T
    BY <1>4
  <2>2. N \ T \in Rest
    BY <2>1
  <2>3. N \ T \subseteq N /\ B \subseteq N /\ N \ T \subseteq B /\ N \ T # B
    BY <1>3, <2>1
  <2>4. << N \ T, B >> \in StrictSubsetOrdering(N)
    BY <2>3 DEF StrictSubsetOrdering
  <2> HIDE DEF Rest
  <2> QED BY <1>2, <2>2, <2>4
<1> QED BY <1>4

\* P has no circles; G[n][f] depends on the values of f at the elements of P[n] only.
NoCircles(N, P) == \A S \in SUBSET N : S # {} => \E n \in S : P[n] \cap S = {}
Local(N, P, G) ==
  \A n \in N : \A f, h \in [N -> Nat] : (\A p \in P[n] : f[p] = h[p]) => G[n][f] = G[n][h]

\* A definition by recursion over N.
Recursive(N, P, G) ==
  /\ IsFiniteSet(N) /\ P \in [N -> SUBSET N] /\ NoCircles(N, P)
  /\ G \in [N -> [[N -> Nat] -> Nat]] /\ Local(N, P, G)

\* The value of d at n may be defined from its values at the elements of P[n],
\* when P has no circles.
LEMMA Recursion ==
  ASSUME NEW N, NEW P, NEW G, Recursive(N, P, G)
  PROVE  \E d \in [N -> Nat] : \A n \in N : d[n] = G[n][d]
<1>0. /\ IsFiniteSet(N) /\ P \in [N -> SUBSET N] /\ NoCircles(N, P)
      /\ G \in [N -> [[N -> Nat] -> Nat]] /\ Local(N, P, G)
  BY DEF Recursive
<1> DEFINE Solves(d, S) == \A n \in S : P[n] \subseteq S /\ d[n] = G[n][d]
           Solved == {S \in SUBSET N : \E d \in [N -> Nat] : Solves(d, S)}
<1>1. {} \in Solved
  <2>1. [n \in N |-> 0] \in [N -> Nat] /\ Solves([n \in N |-> 0], {})
    OBVIOUS
  <2> QED BY <2>1
<1>2. ASSUME NEW S \in Solved, S # N
      PROVE  \E T \in Solved : S \subseteq T /\ S # T
  <2>1. PICK d \in [N -> Nat] : Solves(d, S)
    OBVIOUS
  <2>2. N \ S \in SUBSET N /\ N \ S # {}
    BY <1>2
  <2>3. PICK n \in N \ S : P[n] \cap (N \ S) = {}
    BY <1>0, <2>2 DEF NoCircles
  <2>4. n \in N /\ n \notin S /\ P[n] \subseteq S /\ S \subseteq N
    BY <1>0, <2>3
  <2> DEFINE T == S \cup {n}
             e == [d EXCEPT ![n] = G[n][d]]
  <2>5. e \in [N -> Nat] /\ \A m \in N : m # n => e[m] = d[m]
    BY <1>0, <2>4
  <2>6. e[n] = G[n][d]
    BY <2>4
  <2> HIDE DEF e
  <2>7. ASSUME NEW m \in T
        PROVE  P[m] \subseteq T /\ e[m] = G[m][e]
    <3>1. P[m] \subseteq S /\ m \in N
      BY <2>1, <2>4
    <3>2. \A p \in P[m] : e[p] = d[p]
      BY <2>4, <2>5, <3>1
    <3>3. G[m][e] = G[m][d]
      <4>1. e \in [N -> Nat] /\ d \in [N -> Nat] /\ m \in N
        BY <2>5, <3>1
      <4>2. \A f, h \in [N -> Nat] : (\A p \in P[m] : f[p] = h[p]) => G[m][f] = G[m][h]
        BY <1>0, <4>1, Zenon DEF Local
      <4> HIDE DEF T
      <4> QED BY <4>1, <4>2, <3>2, Zenon
    <3>4. e[m] = G[m][d]
      BY <2>1, <2>4, <2>5, <2>6
    <3> QED BY <3>1, <3>3, <3>4
  <2>8. T \in SUBSET N
    BY <2>4
  <2>9. T \in Solved
    BY <2>5, <2>7, <2>8
  <2>10. S \subseteq T /\ S # T
    BY <2>4
  <2> HIDE DEF T, Solved
  <2> QED BY <2>9, <2>10
<1>3. N \in Solved
  <2>1. Solved \in SUBSET SUBSET N
    OBVIOUS
  <2> HIDE DEF Solved
  <2> QED BY <1>0, <1>1, <1>2, <2>1, GrowsToAll
<1> QED BY <1>3

-----------------------------------------------------------------------------
(* Sums over finite sets. *)

\* What MapThenSumSet iterates: an element of the set after the other.
Chosen(s) == CHOOSE x \in s : TRUE
Adds(it, g, S) ==
  it = [s \in SUBSET S |-> IF s = {} THEN 0 ELSE g[Chosen(s)] + it[s \ {Chosen(s)}]]

\* it[s] is the sum of g over s, in whatever order.
IsSum(it, g, S) ==
  /\ it \in [SUBSET S -> Nat] /\ it[{}] = 0
  /\ \A s \in SUBSET S : \A x \in s : it[s] = g[x] + it[s \ {x}]

LEMMA AddsExists ==
  ASSUME NEW S, IsFiniteSet(S), NEW g \in [S -> Nat]
  PROVE  \E it \in [SUBSET S -> Nat] : Adds(it, g, S)
<1> DEFINE N == SUBSET S
           P == [s \in N |-> IF s = {} THEN {} ELSE {s \ {Chosen(s)}}]
           G == [s \in N |-> [f \in [N -> Nat] |->
                   IF s = {} THEN 0 ELSE g[Chosen(s)] + f[s \ {Chosen(s)}]]]
<1>1. IsFiniteSet(N)
  BY FS_SUBSET
<1>2. \A s \in N : s # {} => Chosen(s) \in s /\ Chosen(s) \in S /\ s \ {Chosen(s)} \in N
  BY DEF Chosen
<1>3. P \in [N -> SUBSET N]
  BY <1>2
<1>4. ASSUME NEW A \in SUBSET N, A # {}
      PROVE  \E s \in A : P[s] \cap A = {}
  <2>1. A \subseteq FiniteSubsetsOf(S)
    <3>1. \A s \in SUBSET S : IsFiniteSet(s)
      BY FS_Subset
    <3> QED BY <3>1 DEF FiniteSubsetsOf
  <2>2. IsWellFoundedOn(StrictSubsetOrdering(S), FiniteSubsetsOf(S))
    BY FS_StrictSubsetOrderingWellFounded
  <2>3. PICK s \in A : \A t \in A : << t, s >> \notin StrictSubsetOrdering(S)
    <3> HIDE DEF N, P
    <3> QED BY <1>4, <2>1, <2>2, WFMin
  <2>4. CASE s = {}
    BY <2>4
  <2>5. CASE s # {}
    <3>1. P[s] = {s \ {Chosen(s)}}
      BY <2>5
    <3>2. s \ {Chosen(s)} \subseteq S /\ s \subseteq S /\ s \ {Chosen(s)} # s
      BY <1>2, <2>5
    <3>3. << s \ {Chosen(s)}, s >> \in StrictSubsetOrdering(S)
      BY <3>2 DEF StrictSubsetOrdering
    <3> QED BY <2>3, <3>1, <3>3
  <2> QED BY <2>4, <2>5
<1>5. G \in [N -> [[N -> Nat] -> Nat]]
  <2>1. ASSUME NEW s \in N, NEW f \in [N -> Nat], s # {}
        PROVE  g[Chosen(s)] + f[s \ {Chosen(s)}] \in Nat
    BY <1>2, <2>1
  <2> QED BY <2>1
<1>6. ASSUME NEW s \in N, NEW f \in [N -> Nat], NEW h \in [N -> Nat], \A p \in P[s] : f[p] = h[p]
      PROVE  G[s][f] = G[s][h]
  BY <1>6
<1>7. PICK it \in [N -> Nat] : \A s \in N : it[s] = G[s][it]
  <2>1. NoCircles(N, P)
    BY <1>4 DEF NoCircles
  <2>2. Local(N, P, G)
    <3> HIDE DEF N, P, G
    <3> QED BY <1>6 DEF Local
  <2>3. Recursive(N, P, G)
    BY <1>1, <1>3, <1>5, <2>1, <2>2 DEF Recursive
  <2> HIDE DEF N, P, G
  <2> QED BY <2>3, Recursion
<1>8. \A s \in N : it[s] = IF s = {} THEN 0 ELSE g[Chosen(s)] + it[s \ {Chosen(s)}]
  BY <1>7
<1>9. it = [s \in SUBSET S |-> IF s = {} THEN 0 ELSE g[Chosen(s)] + it[s \ {Chosen(s)}]]
  BY <1>8
<1> QED BY <1>9 DEF Adds

\* Of some subsets of a finite set, one has no other of them in it.
LEMMA SmallestSubset ==
  ASSUME NEW S, IsFiniteSet(S), NEW B \in SUBSET SUBSET S, B # {}
  PROVE  \E s \in B : \A t \in B : t \subseteq s => t = s
<1>1. B \subseteq FiniteSubsetsOf(S)
  <2>1. \A s \in SUBSET S : IsFiniteSet(s)
    BY FS_Subset
  <2> QED BY <2>1 DEF FiniteSubsetsOf
<1>2. IsWellFoundedOn(StrictSubsetOrdering(S), FiniteSubsetsOf(S))
  BY FS_StrictSubsetOrderingWellFounded
<1>3. PICK s \in B : \A t \in B : << t, s >> \notin StrictSubsetOrdering(S)
  BY <1>1, <1>2, WFMin
<1>4. ASSUME NEW t \in B, t \subseteq s, t # s
      PROVE  FALSE
  <2>1. << t, s >> \in StrictSubsetOrdering(S)
    BY <1>4 DEF StrictSubsetOrdering
  <2> QED BY <1>3, <2>1
<1> QED BY <1>4

LEMMA AddsIsSum ==
  ASSUME NEW S, IsFiniteSet(S), NEW g \in [S -> Nat], NEW it, Adds(it, g, S)
  PROVE  IsSum(it, g, S)
<1>1. /\ DOMAIN it = SUBSET S /\ it[{}] = 0
      /\ \A s \in SUBSET S : s # {} => it[s] = g[Chosen(s)] + it[s \ {Chosen(s)}]
  <2>1. it = [s \in SUBSET S |-> IF s = {} THEN 0 ELSE g[Chosen(s)] + it[s \ {Chosen(s)}]]
    BY DEF Adds
  <2>2. DOMAIN it = SUBSET S
    BY <2>1, Zenon
  <2>3. \A s \in SUBSET S : it[s] = IF s = {} THEN 0 ELSE g[Chosen(s)] + it[s \ {Chosen(s)}]
    BY <2>1, Zenon
  <2> QED BY <2>2, <2>3
<1>2. \A s \in SUBSET S : s # {} => Chosen(s) \in s /\ Chosen(s) \in S
  BY DEF Chosen
<1>3. ASSUME NEW s \in SUBSET S
      PROVE  it[s] \in Nat
  <2> DEFINE B == {t \in SUBSET S : it[t] \notin Nat}
  <2>1. ASSUME B # {}
        PROVE  FALSE
    <3>1. PICK t \in B : \A r \in B : r \subseteq t => r = t
      <4>1. B \in SUBSET SUBSET S
        OBVIOUS
      <4> HIDE DEF B
      <4> QED BY <2>1, <4>1, SmallestSubset
    <3>2. t \in SUBSET S /\ t # {}
      BY <1>1
    <3> DEFINE c == Chosen(t)
    <3>3. c \in t /\ c \in S /\ it[t] = g[c] + it[t \ {c}]
      BY <1>1, <1>2, <3>2
    <3> HIDE DEF c
    <3>4. t \ {c} \notin B /\ t \ {c} \in SUBSET S
      BY <3>1, <3>2, <3>3
    <3>5. it[t \ {c}] \in Nat /\ g[c] \in Nat
      BY <3>3, <3>4
    <3> QED BY <3>1, <3>3, <3>5
  <2> QED BY <2>1
<1>4. ASSUME NEW s \in SUBSET S, NEW x \in s
      PROVE  it[s] = g[x] + it[s \ {x}]
  <2> DEFINE Right(t) == \A y \in t : it[t] = g[y] + it[t \ {y}]
             B == {t \in SUBSET S : ~Right(t)}
  <2>1. ASSUME B # {}
        PROVE  FALSE
    <3>1. PICK t \in B : \A r \in B : r \subseteq t => r = t
      <4>1. B \in SUBSET SUBSET S
        OBVIOUS
      <4> HIDE DEF B
      <4> QED BY <2>1, <4>1, SmallestSubset
    <3>2. PICK y \in t : it[t] # g[y] + it[t \ {y}]
      OBVIOUS
    <3> DEFINE c == Chosen(t)
    <3>3. t \in SUBSET S /\ y \in S /\ c \in t /\ c \in S /\ it[t] = g[c] + it[t \ {c}]
      BY <1>1, <1>2, <3>2
    <3> HIDE DEF c
    <3>4. y # c
      BY <3>2, <3>3
    <3>5. t \ {c} \in SUBSET S /\ t \ {y} \in SUBSET S /\ Right(t \ {c}) /\ Right(t \ {y})
      BY <3>1, <3>2, <3>3
    <3>6. it[t \ {c}] = g[y] + it[(t \ {c}) \ {y}] /\ it[t \ {y}] = g[c] + it[(t \ {y}) \ {c}]
      BY <3>2, <3>3, <3>4, <3>5
    <3>7. (t \ {c}) \ {y} = (t \ {y}) \ {c} /\ (t \ {c}) \ {y} \in SUBSET S
      BY <3>3
    <3>8. PICK k \in Nat : k = it[(t \ {y}) \ {c}]
      BY <1>3, <3>7
    <3>9. it[t \ {c}] = g[y] + k /\ it[t \ {y}] = g[c] + k
      BY <3>6, <3>7, <3>8
    <3>10. g[c] \in Nat /\ g[y] \in Nat
      BY <3>3
    <3> QED BY <3>2, <3>3, <3>9, <3>10
  <2> QED BY <2>1
<1>5. it \in [SUBSET S -> Nat]
  <2>1. it = [s \in SUBSET S |-> it[s]]
    BY DEF Adds
  <2> QED BY <1>3, <2>1
<1> QED BY <1>1, <1>4, <1>5 DEF IsSum

\* A sum depends on the values of its elements only.
LEMMA SumIsUnique ==
  ASSUME NEW S, NEW T, NEW W, IsFiniteSet(W), W \subseteq S, W \subseteq T,
         NEW it, NEW g, IsSum(it, g, S), NEW jt, NEW h, IsSum(jt, h, T),
         \A x \in W : g[x] = h[x]
  PROVE  it[W] = jt[W]
<1> DEFINE A == {s \in SUBSET W : it[s] = jt[s]}
<1>1. {} \in A
  BY DEF IsSum
<1>2. ASSUME NEW s \in A, s # W
      PROVE  \E t \in A : s \subseteq t /\ s # t
  <2>1. PICK x \in W : x \notin s
    BY <1>2
  <2> DEFINE t == s \cup {x}
  <2>2. t \in SUBSET W /\ t \in SUBSET S /\ t \in SUBSET T /\ x \in t /\ t \ {x} = s
    BY <2>1
  <2> HIDE DEF t
  <2>3. it[t] = g[x] + it[s] /\ jt[t] = h[x] + jt[s]
    BY <2>2 DEF IsSum
  <2>4. t \in A
    BY <2>1, <2>2, <2>3
  <2> QED BY <2>1, <2>4 DEF t
<1>3. W \in A
  <2>1. A \in SUBSET SUBSET W
    OBVIOUS
  <2> HIDE DEF A
  <2> QED BY <1>1, <1>2, <2>1, GrowsToAll
<1> QED BY <1>3

LEMMA SumStep ==
  ASSUME NEW S, NEW g, NEW it, IsSum(it, g, S), NEW s \in SUBSET S, NEW x \in s, NEW r, s \ {x} = r
  PROVE  it[s] = g[x] + it[r]
BY DEF IsSum

\* The sum of all values of a function.
Total(g) == (CHOOSE it : IsSum(it, g, DOMAIN g))[DOMAIN g]

LEMMA TotalIs ==
  ASSUME NEW S, IsFiniteSet(S), NEW g \in [S -> Nat]
  PROVE  /\ IsSum(CHOOSE it : IsSum(it, g, S), g, S)
         /\ \A it : IsSum(it, g, S) => it[S] = Total(g)
         /\ \A it : Adds(it, g, S) => it[S] = Total(g)
<1>1. PICK it : Adds(it, g, S)
  BY AddsExists
<1>2. IsSum(it, g, S)
  BY <1>1, AddsIsSum
<1> DEFINE jt == CHOOSE jt : IsSum(jt, g, S)
<1>3. IsSum(jt, g, S)
  BY <1>2
<1>4. Total(g) = jt[S]
  BY DEF Total
<1> HIDE DEF jt
<1>5. ASSUME NEW kt, IsSum(kt, g, S)
      PROVE  kt[S] = Total(g)
  BY <1>3, <1>4, <1>5, SumIsUnique
<1>6. ASSUME NEW kt, Adds(kt, g, S)
      PROVE  kt[S] = Total(g)
  BY <1>5, <1>6, AddsIsSum
<1> QED BY <1>3, <1>5, <1>6 DEF jt

LEMMA TotalOfOne ==
  ASSUME NEW x, NEW g \in [{x} -> Nat]
  PROVE  Total(g) = g[x]
<1> DEFINE S == {x}
           it == CHOOSE it : IsSum(it, g, S)
<1>1. IsFiniteSet(S) /\ g \in [S -> Nat]
  BY FS_Singleton
<1>2. x \in S /\ S \in SUBSET S /\ S \ {x} = {}
  OBVIOUS
<1> HIDE DEF S
<1>3. IsSum(it, g, S) /\ it[S] = Total(g)
  BY <1>1, TotalIs
<1> HIDE DEF it
<1>4. it[S] = g[x] + it[{}]
  BY <1>2, <1>3, SumStep
<1>5. g[x] \in Nat /\ it[{}] = 0
  BY <1>1, <1>2, <1>3 DEF IsSum
<1> QED BY <1>3, <1>4, <1>5

\* The same values under other names, b.
Renames(b, S, g, T, h) ==
  /\ IsFiniteSet(S) /\ g \in [S -> Nat] /\ IsFiniteSet(T) /\ h \in [T -> Nat]
  /\ b \in [S -> T] /\ \A x, y \in S : b[x] = b[y] => x = y
  /\ \A z \in T : \E x \in S : b[x] = z
  /\ \A x \in S : g[x] = h[b[x]]

LEMMA TotalRenamed ==
  ASSUME NEW S, NEW T, NEW g, NEW h, NEW b, Renames(b, S, g, T, h)
  PROVE  Total(g) = Total(h)
<1>0. /\ IsFiniteSet(S) /\ g \in [S -> Nat] /\ IsFiniteSet(T) /\ h \in [T -> Nat]
      /\ b \in [S -> T] /\ \A x, y \in S : b[x] = b[y] => x = y
      /\ \A z \in T : \E x \in S : b[x] = z
      /\ \A x \in S : g[x] = h[b[x]]
  BY DEF Renames
<1> DEFINE it == CHOOSE it : IsSum(it, g, S)
           jt == CHOOSE jt : IsSum(jt, h, T)
           Image(s) == {b[x] : x \in s}
           A == {s \in SUBSET S : it[s] = jt[Image(s)]}
<1>1. IsSum(it, g, S) /\ it[S] = Total(g)
  BY <1>0, TotalIs
<1>2. IsSum(jt, h, T) /\ jt[T] = Total(h)
  BY <1>0, TotalIs
<1> HIDE DEF it, jt
<1>3. {} \in A
  <2>1. Image({}) = {}
    OBVIOUS
  <2> QED BY <1>1, <1>2, <2>1 DEF IsSum
<1>4. ASSUME NEW s \in A, s # S
      PROVE  \E t \in A : s \subseteq t /\ s # t
  <2>1. PICK x \in S : x \notin s
    BY <1>4
  <2> DEFINE t == s \cup {x}
  <2>2. t \in SUBSET S /\ x \in t /\ t \ {x} = s /\ s \in SUBSET S
    BY <2>1
  <2>3. Image(t) \in SUBSET T /\ b[x] \in Image(t) /\ Image(t) \ {b[x]} = Image(s)
    <3>1. \A y \in s : b[y] # b[x]
      BY <1>0, <2>1, <2>2
    <3> QED BY <1>0, <2>2, <3>1
  <2> HIDE DEF t, Image
  <2>4. it[t] = g[x] + it[s]
    BY <1>1, <2>2, SumStep
  <2>5. jt[Image(t)] = h[b[x]] + jt[Image(s)]
    BY <1>2, <2>3, SumStep
  <2>6. t \in A
    BY <1>0, <2>1, <2>2, <2>4, <2>5
  <2> QED BY <2>1, <2>6 DEF t
<1>5. S \in A
  <2>1. A \in SUBSET SUBSET S
    OBVIOUS
  <2> HIDE DEF A
  <2> QED BY <1>0, <1>3, <1>4, <2>1, GrowsToAll
<1>6. Image(S) = T
  BY <1>0
<1> QED BY <1>1, <1>2, <1>5, <1>6

\* Two disjoint sets.
Joins(f, S, g, T, h) ==
  /\ IsFiniteSet(S) /\ g \in [S -> Nat] /\ IsFiniteSet(T) /\ h \in [T -> Nat]
  /\ S \cap T = {} /\ f \in [S \cup T -> Nat]
  /\ \A x \in S : f[x] = g[x]
  /\ \A x \in T : f[x] = h[x]

LEMMA TotalUnion ==
  ASSUME NEW S, NEW T, NEW g, NEW h, NEW f, Joins(f, S, g, T, h)
  PROVE  Total(f) = Total(g) + Total(h) /\ Total(g) \in Nat /\ Total(h) \in Nat
<1> DEFINE U == S \cup T
           it == CHOOSE it : IsSum(it, g, S)
           jt == CHOOSE jt : IsSum(jt, h, T)
           kt == CHOOSE kt : IsSum(kt, f, U)
           A == {s \in SUBSET T : kt[S \cup s] = kt[S] + kt[s]}
<1>1. /\ IsFiniteSet(S) /\ g \in [S -> Nat] /\ IsFiniteSet(T) /\ h \in [T -> Nat]
      /\ S \cap T = {} /\ f \in [S \cup T -> Nat]
      /\ \A x \in S : f[x] = g[x]
      /\ \A x \in T : f[x] = h[x]
  BY DEF Joins
<1>2. IsFiniteSet(U)
  BY <1>1, FS_Union
<1>3. IsSum(it, g, S) /\ it[S] = Total(g)
  BY <1>1, TotalIs
<1>4. IsSum(jt, h, T) /\ jt[T] = Total(h)
  BY <1>1, TotalIs
<1>5. IsSum(kt, f, U) /\ kt[U] = Total(f)
  <2> HIDE DEF U
  <2>1. f \in [U -> Nat]
    BY <1>1 DEF U
  <2> QED BY <1>2, <2>1, TotalIs
<1> HIDE DEF it, jt, kt
<1>6. kt[S] = it[S] /\ kt[T] = jt[T]
  <2>1. S \subseteq U /\ T \subseteq U
    OBVIOUS
  <2> HIDE DEF U
  <2>2. kt[S] = it[S]
    BY <1>1, <1>3, <1>5, <2>1, SumIsUnique
  <2>3. kt[T] = jt[T]
    BY <1>1, <1>4, <1>5, <2>1, SumIsUnique
  <2> QED BY <2>2, <2>3
<1>7. {} \in A
  <2>1. S \cup {} = S /\ S \in SUBSET U
    OBVIOUS
  <2>2. kt[S] \in Nat /\ kt[{}] = 0
    BY <1>5, <2>1 DEF IsSum
  <2> QED BY <2>1, <2>2
<1>8. ASSUME NEW s \in A, s # T
      PROVE  \E t \in A : s \subseteq t /\ s # t
  <2>1. PICK x \in T : x \notin s
    BY <1>8
  <2> DEFINE t == s \cup {x}
  <2>2. t \in SUBSET T /\ x \in t /\ t \ {x} = s /\ t \in SUBSET U /\ s \in SUBSET U /\ S \in SUBSET U
    BY <2>1
  <2>3. x \in S \cup t /\ (S \cup t) \ {x} = S \cup s /\ S \cup t \in SUBSET U
    BY <1>1, <2>1
  <2> HIDE DEF t, U
  <2>4. kt[t] = f[x] + kt[s] /\ kt[S \cup t] = f[x] + kt[S \cup s]
    BY <1>5, <2>2, <2>3, SumStep
  <2>5. kt[S] \in Nat /\ kt[s] \in Nat /\ f[x] \in Nat
    BY <1>1, <1>5, <2>1, <2>2 DEF IsSum, U
  <2>6. t \in A
    BY <2>2, <2>4, <2>5
  <2> QED BY <2>1, <2>6 DEF t
<1>9. T \in A
  <2>1. A \in SUBSET SUBSET T
    OBVIOUS
  <2> HIDE DEF A
  <2> QED BY <1>1, <1>7, <1>8, <2>1, GrowsToAll
<1>10. it[S] \in Nat /\ jt[T] \in Nat
  BY <1>3, <1>4 DEF IsSum
<1> QED BY <1>3, <1>4, <1>5, <1>6, <1>9, <1>10

LEMMA TotalConcat ==
  ASSUME NEW q \in Seq(Nat), NEW t \in Seq(Nat)
  PROVE  Total(q \o t) = Total(q) + Total(t) /\ Total(q) \in Nat /\ Total(t) \in Nat
<1> DEFINE m == Len(q)
           n == Len(t)
           S == 1 .. m
           T == m + 1 .. m + n
           h == [k \in T |-> t[k - m]]
           b == [k \in T |-> k - m]
<1>1. /\ m \in Nat /\ n \in Nat /\ q \in [S -> Nat] /\ t \in [1 .. n -> Nat]
  OBVIOUS
<1>2. q \o t \in [1 .. m + n -> Nat] /\ (\A k \in 1 .. m + n : (q \o t)[k] = IF k <= m THEN q[k] ELSE t[k - m])
  <2> DEFINE c == q \o t
  <2>1. c \in Seq(Nat) /\ Len(c) = m + n
    OBVIOUS
  <2>2. \A k \in 1 .. m + n : c[k] = IF k <= m THEN q[k] ELSE t[k - m]
    OBVIOUS
  <2> HIDE DEF c
  <2>3. c \in [1 .. Len(c) -> Nat]
    BY <2>1
  <2>4. c \in [1 .. m + n -> Nat]
    BY <2>1, <2>3
  <2> QED BY <2>2, <2>4 DEF c
<1> HIDE DEF m, n
<1>3. IsFiniteSet(S) /\ IsFiniteSet(T) /\ IsFiniteSet(1 .. n) /\ S \cap T = {} /\ S \cup T = 1 .. m + n
  BY <1>1, FS_Interval
<1>4. h \in [T -> Nat] /\ b \in [T -> 1 .. n]
  BY <1>1
<1>5. Total(q \o t) = Total(q) + Total(h) /\ Total(q) \in Nat /\ Total(h) \in Nat
  <2>1. (\A x \in S : (q \o t)[x] = q[x]) /\ (\A x \in T : (q \o t)[x] = h[x])
    <3>1. \A x \in S : x \in 1 .. m + n /\ x <= m
      BY <1>1
    <3>2. \A x \in T : x \in 1 .. m + n /\ ~(x <= m)
      BY <1>1
    <3> QED BY <1>2, <3>1, <3>2
  <2>2. q \o t \in [S \cup T -> Nat]
    BY <1>2, <1>3
  <2>3. q \in [S -> Nat] /\ h \in [T -> Nat]
    BY <1>1, <1>4
  <2> DEFINE c == q \o t
  <2> HIDE DEF S, T, h, c
  <2>4. IsFiniteSet(S) /\ IsFiniteSet(T) /\ S \cap T = {}
    BY <1>3
  <2>5. c \in [S \cup T -> Nat] /\ (\A x \in S : c[x] = q[x]) /\ (\A x \in T : c[x] = h[x])
    BY <2>1, <2>2 DEF c
  <2>7. Joins(c, S, q, T, h)
    BY <2>3, <2>4, <2>5 DEF Joins
  <2>6. Total(c) = Total(q) + Total(h) /\ Total(q) \in Nat /\ Total(h) \in Nat
    BY <2>7, TotalUnion
  <2> QED BY <2>6 DEF c
<1>6. Total(h) = Total(t)
  <2>1. (\A x, y \in T : b[x] = b[y] => x = y) /\ (\A x \in T : h[x] = t[b[x]])
    BY <1>1
  <2>2. \A z \in 1 .. n : \E x \in T : b[x] = z
    <3> TAKE z \in 1 .. n
    <3>1. z + m \in T /\ b[z + m] = z
      BY <1>1
    <3> QED BY <3>1
  <2> DEFINE N == 1 .. n
  <2>3. IsFiniteSet(T) /\ IsFiniteSet(N) /\ h \in [T -> Nat] /\ t \in [N -> Nat] /\ b \in [T -> N]
    BY <1>1, <1>3, <1>4
  <2>4. \A z \in N : \E x \in T : b[x] = z
    BY <2>2
  <2> HIDE DEF S, T, h, b, N
  <2>5. Renames(b, T, h, N, t)
    BY <2>1, <2>3, <2>4 DEF Renames
  <2> QED BY <2>5, TotalRenamed
<1> QED BY <1>5, <1>6

-----------------------------------------------------------------------------
(* Every call returns. *)

\* The sums of StepsLeft.
LEMMA UserSum ==
  ASSUME NEW U, IsFiniteSet(U), NEW d, \A u \in U : d[u[1]] \in Nat
  PROVE  MapThenSumSet(LAMBDA u : d[u[1]], U) = Total([u \in U |-> d[u[1]]])
<1> DEFINE g == [u \in U |-> d[u[1]]]
           Eq(it) == it = [s \in SUBSET U |->
                             IF s = {} THEN 0
                             ELSE LET x == CHOOSE x \in s : TRUE IN d[x[1]] + it[s \ {x}]]
           sum == CHOOSE it : Eq(it)
<1>1. MapThenSumSet(LAMBDA u : d[u[1]], U) = sum[U]
  BY DEF MapThenSumSet, MapThenFoldSet
<1>2. g \in [U -> Nat]
  OBVIOUS
<1>3. ASSUME NEW it
      PROVE  Eq(it) <=> Adds(it, g, U)
  <2>1. \A s \in SUBSET U : s # {} => Chosen(s) \in U
    BY DEF Chosen
  <2>2. \A s \in SUBSET U : s # {} => g[Chosen(s)] = d[Chosen(s)[1]]
    BY <2>1
  <2> HIDE DEF g
  <2>3. Eq(it) <=> it = [s \in SUBSET U |->
                           IF s = {} THEN 0 ELSE d[Chosen(s)[1]] + it[s \ {Chosen(s)}]]
    BY DEF Chosen
  <2> HIDE DEF Eq
  <2> QED BY <2>2, <2>3 DEF Adds
<1>4. \E it : Adds(it, g, U)
  <2> HIDE DEF g
  <2> QED BY <1>2, AddsExists
<1>5. Adds(sum, g, U)
  <2>1. \E it : Eq(it)
    <3> HIDE DEF Eq, g
    <3> QED BY <1>3, <1>4
  <2>2. Eq(sum)
    <3> HIDE DEF Eq
    <3> QED BY <2>1
  <2> HIDE DEF sum, Eq
  <2> QED BY <1>3, <2>2
<1>6. sum[U] = Total(g)
  <2> HIDE DEF g, sum
  <2> QED BY <1>2, <1>5, TotalIs
<1> QED BY <1>1, <1>6

\* The steps that the calls w take, in a graph ins of nodes N.
Cost(p, N, call) ==
  CASE call.op = "recompute_depth" -> p[call.node]
    [] call.op = "add_input" -> 1 + p[call.node]
    [] call.op = "prune" -> 1 + Cardinality(N)
    [] OTHER -> 1
Costs(p, N, w) == [k \in DOMAIN w |-> Cost(p, N, w[k])]

Steps(w, ins, N) ==
  LET paths[n \in Nodes] == 1 + MapThenSumSet(LAMBDA u : paths[u[1]], UserInputs(ins, n))
      CostOf(call) == CASE call.op = "recompute_depth" -> paths[call.node]
                        [] call.op = "add_input" -> 1 + paths[call.node]
                        [] call.op = "prune" -> 1 + Cardinality(N)
                        [] OTHER -> 1
  IN  MapThenSumSet(LAMBDA k : CostOf(w[k]), DOMAIN w)

LEMMA StepsLeftIs == StepsLeft = Steps(work, operands, nodes)
BY DEF StepsLeft, Steps

LEMMA StepsLeftAfter == StepsLeft' = Steps(work', operands', nodes')
<1>1. (StepsLeft = Steps(work, operands, nodes))'
  BY StepsLeftIs, PTL
<1> QED BY <1>1

LEMMA CostSum ==
  ASSUME NEW p, NEW N, NEW w, IsFiniteSet(DOMAIN w), \A k \in DOMAIN w : Cost(p, N, w[k]) \in Nat
  PROVE  MapThenSumSet(LAMBDA k : Cost(p, N, w[k]), DOMAIN w) = Total(Costs(p, N, w))
<1> DEFINE S == DOMAIN w
           g == Costs(p, N, w)
           Eq(it) == it = [s \in SUBSET S |->
                             IF s = {} THEN 0
                             ELSE LET x == CHOOSE x \in s : TRUE IN Cost(p, N, w[x]) + it[s \ {x}]]
           sum == CHOOSE it : Eq(it)
<1>1. MapThenSumSet(LAMBDA k : Cost(p, N, w[k]), S) = sum[S]
  BY DEF MapThenSumSet, MapThenFoldSet
<1>2. IsFiniteSet(S) /\ g \in [S -> Nat] /\ \A k \in S : g[k] = Cost(p, N, w[k])
  BY DEF Costs
<1> HIDE DEF g
<1>3. ASSUME NEW it
      PROVE  Eq(it) <=> Adds(it, g, S)
  <2>1. \A s \in SUBSET S : s # {} => Chosen(s) \in S
    BY DEF Chosen
  <2>2. \A s \in SUBSET S : s # {} => g[Chosen(s)] = Cost(p, N, w[Chosen(s)])
    BY <1>2, <2>1
  <2>3. Eq(it) <=> it = [s \in SUBSET S |->
                           IF s = {} THEN 0 ELSE Cost(p, N, w[Chosen(s)]) + it[s \ {Chosen(s)}]]
    BY DEF Chosen
  <2> HIDE DEF Eq
  <2> QED BY <2>2, <2>3 DEF Adds
<1>4. \E it : Adds(it, g, S)
  <2> HIDE DEF S
  <2> QED BY <1>2, AddsExists
<1>5. Adds(sum, g, S)
  <2>1. \E it : Eq(it)
    <3> HIDE DEF Eq
    <3> QED BY <1>3, <1>4
  <2>2. Eq(sum)
    <3> HIDE DEF Eq
    <3> QED BY <2>1
  <2> HIDE DEF sum, Eq
  <2> QED BY <1>3, <2>2
<1>6. sum[S] = Total(g)
  <2> HIDE DEF S, sum
  <2> QED BY <1>2, <1>5, TotalIs
<1> QED BY <1>1, <1>6 DEF g

-----------------------------------------------------------------------------
(* The graph has no circles, and so there are finitely many paths. *)

Acyclic(ins) ==
  \A S \in SUBSET Nodes : S # {} => \E n \in S : \A m \in S : n \notin Producers(ins, m)

\* The users of n, one by one.
LEMMA UsersAre ==
  ASSUME NEW ins \in [Nodes -> Seq(Origins)], NEW n \in Nodes
  PROVE  /\ IsFiniteSet(UserInputs(ins, n))
         /\ \A u \in UserInputs(ins, n) : u[1] \in Nodes /\ n \in Producers(ins, u[1])
<1> DEFINE At(m) == {m} \X {i \in DOMAIN ins[m] : Producer(ins[m][i]) = n}
           All == {At(m) : m \in Nodes}
<1>1. ASSUME NEW m \in Nodes
      PROVE  IsFiniteSet(At(m))
  <2> DEFINE I == {i \in DOMAIN ins[m] : Producer(ins[m][i]) = n}
  <2>1. DOMAIN ins[m] = 1 .. Len(ins[m]) /\ Len(ins[m]) \in Nat
    OBVIOUS
  <2>2. IsFiniteSet(DOMAIN ins[m])
    BY <2>1, FS_Interval
  <2>3. I \in SUBSET DOMAIN ins[m]
    OBVIOUS
  <2> HIDE DEF I
  <2>4. IsFiniteSet(I)
    BY <2>2, <2>3, FS_Subset
  <2>5. IsFiniteSet({m})
    BY FS_Singleton
  <2>6. IsFiniteSet({m} \X I)
    BY <2>4, <2>5, FS_Product
  <2> QED BY <2>6 DEF I
<1>2. IsFiniteSet(UNION All)
  <2>1. IsFiniteSet(All)
    <3> DEFINE f == [m \in Nodes |-> At(m)]
    <3>1. f \in Surjection(Nodes, All)
      <4> HIDE DEF At
      <4> QED BY DEF Surjection
    <3> HIDE DEF f, All
    <3> QED BY <3>1, NodesAssumption, FS_Surjection
  <2>2. \A T \in All : IsFiniteSet(T)
    <3> HIDE DEF At
    <3> QED BY <1>1
  <2> HIDE DEF All
  <2> QED BY <2>1, <2>2, FS_UNION
<1>3. ASSUME NEW u \in UserInputs(ins, n)
      PROVE  u[1] \in Nodes /\ n \in Producers(ins, u[1])
  <2>1. PICK m \in Nodes : u \in At(m)
    BY DEF UserInputs
  <2>2. PICK i \in DOMAIN ins[m] : Producer(ins[m][i]) = n /\ u = << m, i >>
    BY <2>1
  <2> QED BY <2>2, RegionAssumption DEF Producers, ToSet
<1> QED BY <1>2, <1>3 DEF UserInputs

\* p[n] is one more than the paths from the users of n.
PathsAre(p, ins) ==
  /\ p \in [Nodes -> Nat]
  /\ \A n \in Nodes : p[n] = 1 + Total([u \in UserInputs(ins, n) |-> p[u[1]]])

LEMMA UserTotal ==
  ASSUME NEW ins \in [Nodes -> Seq(Origins)], NEW n \in Nodes, NEW p \in [Nodes -> Nat]
  PROVE  /\ [u \in UserInputs(ins, n) |-> p[u[1]]] \in [UserInputs(ins, n) -> Nat]
         /\ Total([u \in UserInputs(ins, n) |-> p[u[1]]]) \in Nat
<1> DEFINE U == UserInputs(ins, n)
           g == [u \in U |-> p[u[1]]]
           it == CHOOSE it : IsSum(it, g, U)
<1>1. IsFiniteSet(U) /\ \A u \in U : u[1] \in Nodes
  BY UsersAre
<1> HIDE DEF U
<1>2. g \in [U -> Nat]
  BY <1>1
<1>3. IsSum(it, g, U) /\ it[U] = Total(g)
  <2> HIDE DEF g
  <2> QED BY <1>1, <1>2, TotalIs
<1>4. Total(g) \in Nat
  <2> HIDE DEF g, it
  <2> QED BY <1>3 DEF IsSum
<1> QED BY <1>2, <1>4 DEF U

\* Two graphs in which the same depends on the nodes of X.
SameUsers(ins, jns, X) ==
  /\ X \subseteq Nodes
  /\ \A n \in X : UserInputs(ins, n) = UserInputs(jns, n)
  /\ \A n \in X : \A m \in Nodes : n \in Producers(ins, m) => m \in X

LEMMA PathsAgree ==
  ASSUME NEW ins \in [Nodes -> Seq(Origins)], NEW jns, NEW p, PathsAre(p, ins),
         NEW q, PathsAre(q, jns), Acyclic(ins), NEW X, SameUsers(ins, jns, X)
  PROVE  \A n \in X : p[n] = q[n]
<1>0. /\ X \subseteq Nodes
      /\ \A n \in X : UserInputs(ins, n) = UserInputs(jns, n)
      /\ \A n \in X : \A m \in Nodes : n \in Producers(ins, m) => m \in X
  BY DEF SameUsers
<1> DEFINE S == {n \in X : p[n] # q[n]}
<1> SUFFICES ASSUME S # {} PROVE FALSE
  OBVIOUS
<1>1. PICK n \in S : \A m \in S : n \notin Producers(ins, m)
  <2>1. S \in SUBSET Nodes
    BY <1>0
  <2> QED BY <2>1 DEF Acyclic
<1>2. n \in X /\ n \in Nodes /\ p[n] # q[n]
  BY <1>0
<1>3. \A u \in UserInputs(ins, n) : u[1] \in X /\ u[1] \notin S
  BY <1>0, <1>1, <1>2, UsersAre
<1>4. \A u \in UserInputs(ins, n) : p[u[1]] = q[u[1]]
  BY <1>3
<1>5. [u \in UserInputs(ins, n) |-> p[u[1]]] = [u \in UserInputs(jns, n) |-> q[u[1]]]
  BY <1>0, <1>2, <1>4
<1> QED BY <1>2, <1>5 DEF PathsAre

LEMMA PathsExist ==
  ASSUME NEW ins \in [Nodes -> Seq(Origins)], Acyclic(ins)
  PROVE  \E p : PathsAre(p, ins)
<1> DEFINE Users(n) == {u[1] : u \in UserInputs(ins, n)}
           P == [n \in Nodes |-> Users(n)]
           Sum(n, p) == 1 + Total([u \in UserInputs(ins, n) |-> p[u[1]]])
           G == [n \in Nodes |-> [p \in [Nodes -> Nat] |-> Sum(n, p)]]
<1>1. P \in [Nodes -> SUBSET Nodes]
  BY UsersAre
<1>2. NoCircles(Nodes, P)
  <2> SUFFICES ASSUME NEW S \in SUBSET Nodes, S # {}
               PROVE  \E n \in S : P[n] \cap S = {}
    BY DEF NoCircles
  <2>1. PICK n \in S : \A m \in S : n \notin Producers(ins, m)
    BY DEF Acyclic
  <2>2. \A u \in UserInputs(ins, n) : u[1] \notin S
    BY <2>1, UsersAre
  <2> QED BY <2>2
<1>3. G \in [Nodes -> [[Nodes -> Nat] -> Nat]]
  <2>1. \A n \in Nodes : \A p \in [Nodes -> Nat] : Sum(n, p) \in Nat
    <3> TAKE n \in Nodes
    <3> TAKE p \in [Nodes -> Nat]
    <3> DEFINE t == Total([u \in UserInputs(ins, n) |-> p[u[1]]])
    <3>1. t \in Nat
      BY UserTotal
    <3> HIDE DEF t
    <3>2. 1 + t \in Nat
      BY <3>1
    <3> QED BY <3>2 DEF t
  <2> HIDE DEF Sum
  <2> QED BY <2>1
<1>4. Local(Nodes, P, G)
  <2> SUFFICES ASSUME NEW n \in Nodes, NEW f \in [Nodes -> Nat], NEW h \in [Nodes -> Nat],
                      \A m \in P[n] : f[m] = h[m]
               PROVE  G[n][f] = G[n][h]
    BY DEF Local
  <2>1. \A u \in UserInputs(ins, n) : f[u[1]] = h[u[1]]
    OBVIOUS
  <2>2. [u \in UserInputs(ins, n) |-> f[u[1]]] = [u \in UserInputs(ins, n) |-> h[u[1]]]
    BY <2>1
  <2>3. Sum(n, f) = Sum(n, h)
    BY <2>2
  <2> HIDE DEF Sum
  <2> QED BY <2>3
<1>5. Recursive(Nodes, P, G)
  BY <1>1, <1>2, <1>3, <1>4, NodesAssumption DEF Recursive
<1>6. PICK p \in [Nodes -> Nat] : \A n \in Nodes : p[n] = G[n][p]
  <2> HIDE DEF P, G
  <2> QED BY <1>5, Recursion
<1>7. \A n \in Nodes : p[n] = Sum(n, p)
  <2> HIDE DEF Sum
  <2> QED BY <1>6
<1>8. PathsAre(p, ins)
  BY <1>7 DEF PathsAre
<1> QED BY <1>8

LEMMA TotalNat ==
  ASSUME NEW S, IsFiniteSet(S), NEW g \in [S -> Nat]
  PROVE  Total(g) \in Nat
<1> DEFINE it == CHOOSE it : IsSum(it, g, S)
<1>1. IsSum(it, g, S) /\ it[S] = Total(g)
  BY TotalIs
<1> HIDE DEF it
<1> QED BY <1>1 DEF IsSum

LEMMA StepsAre ==
  ASSUME NEW ins \in [Nodes -> Seq(Origins)], Acyclic(ins), NEW N, IsFiniteSet(N),
         NEW w \in Seq(Calls),
         \A c \in ToSet(w) : c.op \in {"recompute_depth", "add_input"} => c.node \in Nodes
  PROVE  \E p : PathsAre(p, ins) /\ Steps(w, ins, N) = Total(Costs(p, N, w))
<1> DEFINE Eq(d) == d = [n \in Nodes |-> 1 + MapThenSumSet(LAMBDA u : d[u[1]], UserInputs(ins, n))]
           p == CHOOSE d : Eq(d)
<1>1. ASSUME NEW d, \A n \in Nodes : d[n] \in Nat
      PROVE  \A n \in Nodes : MapThenSumSet(LAMBDA u : d[u[1]], UserInputs(ins, n))
                              = Total([u \in UserInputs(ins, n) |-> d[u[1]]])
  <2> TAKE n \in Nodes
  <2>1. IsFiniteSet(UserInputs(ins, n)) /\ \A u \in UserInputs(ins, n) : d[u[1]] \in Nat
    BY <1>1, UsersAre
  <2> QED BY <2>1, UserSum
<1>2. \E d : Eq(d)
  <2>1. PICK d : PathsAre(d, ins)
    BY PathsExist
  <2>2. d \in [Nodes -> Nat] /\ \A n \in Nodes : d[n] = 1 + Total([u \in UserInputs(ins, n) |-> d[u[1]]])
    BY <2>1 DEF PathsAre
  <2>3. \A n \in Nodes : d[n] = 1 + MapThenSumSet(LAMBDA u : d[u[1]], UserInputs(ins, n))
    BY <1>1, <2>2
  <2>4. d = [n \in Nodes |-> d[n]]
    BY <2>2
  <2>5. Eq(d)
    BY <2>3, <2>4
  <2> QED BY <2>5
<1>3. Eq(p)
  <2> HIDE DEF Eq
  <2> QED BY <1>2
<1> HIDE DEF p
<1>4. p = [n \in Nodes |-> p[n]]
  BY <1>3
<1>5. \A n \in Nodes : p[n] = 1 + MapThenSumSet(LAMBDA u : p[u[1]], UserInputs(ins, n))
  BY <1>3
<1>6. ASSUME NEW n \in Nodes
      PROVE  p[n] \in Nat
  <2> DEFINE S == {m \in Nodes : p[m] \notin Nat}
  <2>1. ASSUME S # {}
        PROVE  FALSE
    <3>1. PICK m \in S : \A l \in S : m \notin Producers(ins, l)
      BY <2>1 DEF Acyclic
    <3>2. m \in Nodes /\ p[m] \notin Nat
      OBVIOUS
    <3> DEFINE U == UserInputs(ins, m)
               g == [u \in U |-> p[u[1]]]
    <3>3. IsFiniteSet(U) /\ \A u \in U : p[u[1]] \in Nat
      BY <3>1, <3>2, UsersAre
    <3>4. MapThenSumSet(LAMBDA u : p[u[1]], U) = Total(g)
      BY <3>3, UserSum
    <3>5. g \in [U -> Nat]
      BY <3>3
    <3>6. Total(g) \in Nat
      <4> HIDE DEF U, g
      <4> QED BY <3>3, <3>5, TotalNat
    <3>7. p[m] = 1 + Total(g)
      BY <1>5, <3>2, <3>4
    <3> HIDE DEF g
    <3> QED BY <3>2, <3>6, <3>7
  <2> QED BY <2>1
<1>7. PathsAre(p, ins)
  <2>1. \A n \in Nodes : p[n] = 1 + Total([u \in UserInputs(ins, n) |-> p[u[1]]])
    BY <1>1, <1>5, <1>6
  <2>2. p \in [Nodes -> Nat]
    BY <1>4, <1>6
  <2> QED BY <2>1, <2>2 DEF PathsAre
<1>8. Steps(w, ins, N) = MapThenSumSet(LAMBDA k : Cost(p, N, w[k]), DOMAIN w)
  BY DEF Steps, Cost, p
<1>9. \A k \in DOMAIN w : Cost(p, N, w[k]) \in Nat
  <2> TAKE k \in DOMAIN w
  <2>1. w[k] \in ToSet(w)
    BY DEF ToSet
  <2>2. Cardinality(N) \in Nat
    BY FS_CardinalityType
  <2> QED BY <1>6, <2>1, <2>2 DEF Cost
<1>10. IsFiniteSet(DOMAIN w)
  <2>1. DOMAIN w = 1 .. Len(w) /\ Len(w) \in Nat
    OBVIOUS
  <2> QED BY <2>1, FS_Interval
<1>11. Steps(w, ins, N) = Total(Costs(p, N, w))
  <2>1. MapThenSumSet(LAMBDA k : Cost(p, N, w[k]), DOMAIN w) = Total(Costs(p, N, w))
    BY <1>9, <1>10, CostSum
  <2> QED BY <1>8, <2>1
<1> QED BY <1>7, <1>11

\* What calls that are made one after the other cost.
LEMMA CostsAre ==
  ASSUME NEW p \in [Nodes -> Nat], NEW N, IsFiniteSet(N), NEW w \in Seq(Calls),
         \A c \in ToSet(w) : c.op \in {"recompute_depth", "add_input"} => c.node \in Nodes
  PROVE  Costs(p, N, w) \in Seq(Nat) /\ Total(Costs(p, N, w)) \in Nat
<1>1. \A k \in DOMAIN w : Cost(p, N, w[k]) \in Nat
  <2> TAKE k \in DOMAIN w
  <2>1. w[k] \in ToSet(w)
    BY DEF ToSet
  <2>2. Cardinality(N) \in Nat
    BY FS_CardinalityType
  <2> QED BY <2>1, <2>2 DEF Cost
<1>2. DOMAIN w = 1 .. Len(w) /\ Len(w) \in Nat
  OBVIOUS
<1>3. Costs(p, N, w) \in [1 .. Len(w) -> Nat]
  BY <1>1, <1>2 DEF Costs
<1>4. IsFiniteSet(1 .. Len(w))
  BY <1>2, FS_Interval
<1>5. Total(Costs(p, N, w)) \in Nat
  <2> DEFINE S == 1 .. Len(w)
             c == Costs(p, N, w)
  <2> HIDE DEF S, c
  <2>1. IsFiniteSet(S) /\ c \in [S -> Nat]
    BY <1>3, <1>4 DEF S, c
  <2>2. Total(c) \in Nat
    BY <2>1, TotalNat
  <2> QED BY <2>2 DEF c
<1> QED BY <1>2, <1>3, <1>5

LEMMA CostsConcat ==
  ASSUME NEW p \in [Nodes -> Nat], NEW N, IsFiniteSet(N), NEW q \in Seq(Calls), NEW t \in Seq(Calls),
         \A c \in ToSet(q) \cup ToSet(t) :
           c.op \in {"recompute_depth", "add_input"} => c.node \in Nodes
  PROVE  Total(Costs(p, N, q \o t)) = Total(Costs(p, N, q)) + Total(Costs(p, N, t))
<1>1. Costs(p, N, q) \in Seq(Nat) /\ Costs(p, N, t) \in Seq(Nat)
  BY CostsAre
<1> DEFINE w == q \o t
           cq == Costs(p, N, q)
           ct == Costs(p, N, t)
           cw == Costs(p, N, w)
<1>2. /\ w \in Seq(Calls) /\ Len(w) = Len(q) + Len(t)
      /\ \A k \in 1 .. Len(q) + Len(t) : w[k] = IF k <= Len(q) THEN q[k] ELSE t[k - Len(q)]
  OBVIOUS
<1> HIDE DEF w
<1>3. /\ cq \in Seq(Nat) /\ Len(cq) = Len(q) /\ (\A k \in 1 .. Len(q) : cq[k] = Cost(p, N, q[k]))
      /\ ct \in Seq(Nat) /\ Len(ct) = Len(t) /\ (\A k \in 1 .. Len(t) : ct[k] = Cost(p, N, t[k]))
  BY <1>1 DEF Costs
<1>4. /\ DOMAIN cw = 1 .. Len(q) + Len(t)
      /\ \A k \in 1 .. Len(q) + Len(t) : cw[k] = Cost(p, N, w[k])
      /\ cw = [k \in DOMAIN cw |-> cw[k]]
  BY <1>2 DEF Costs
<1> HIDE DEF cq, ct, cw
<1> DEFINE c == cq \o ct
<1>5. /\ c \in Seq(Nat) /\ Len(c) = Len(q) + Len(t)
      /\ \A k \in 1 .. Len(q) + Len(t) : c[k] = IF k <= Len(q) THEN cq[k] ELSE ct[k - Len(q)]
  <2>1. /\ c \in Seq(Nat) /\ Len(c) = Len(cq) + Len(ct)
        /\ \A k \in 1 .. Len(cq) + Len(ct) : c[k] = IF k <= Len(cq) THEN cq[k] ELSE ct[k - Len(cq)]
    <3>1. cq \in Seq(Nat) /\ ct \in Seq(Nat)
      BY <1>3
    <3> QED BY <3>1
  <2> HIDE DEF c
  <2> QED BY <1>3, <2>1
<1> HIDE DEF c
<1>6. \A k \in 1 .. Len(q) + Len(t) : cw[k] = c[k]
  <2> TAKE k \in 1 .. Len(q) + Len(t)
  <2>1. CASE k <= Len(q)
    <3>1. k \in 1 .. Len(q)
      BY <2>1
    <3> QED BY <2>1, <3>1, <1>2, <1>3, <1>4, <1>5
  <2>2. CASE ~(k <= Len(q))
    <3>1. k - Len(q) \in 1 .. Len(t)
      BY <2>2
    <3> QED BY <2>2, <3>1, <1>2, <1>3, <1>4, <1>5
  <2> QED BY <2>1, <2>2
<1>7. cw = c
  <2>1. c = [k \in 1 .. Len(c) |-> c[k]]
    BY <1>5
  <2> QED BY <2>1, <1>4, <1>5, <1>6
<1>8. Total(c) = Total(cq) + Total(ct)
  BY <1>3, TotalConcat DEF c
<1> QED BY <1>7, <1>8 DEF cw, cq, ct, w

-----------------------------------------------------------------------------
(* The graph stays free of circles. *)

\* An input that is to be added closes no circle; while the inputs of a node are
\* added, nothing else is pending but that the node is announced.
Adding(w, ins) ==
  /\ \A c \in ToSet(w) : c.op = "add_input" => Producer(c.origin) \notin Downstream(ins, c.node)
  /\ \A i, j \in DOMAIN w : i < j /\ w[i].op = "add_input" =>
       w[j].op \in {"add_input", "node_create"} /\ w[j].node = w[i].node

NoCirclesInv == Acyclic(operands) /\ Adding(work, operands)

LEMMA AcyclicShrinks ==
  ASSUME NEW ins, Acyclic(ins), NEW jns,
         \A m \in Nodes : Producers(jns, m) \subseteq Producers(ins, m)
  PROVE  Acyclic(jns)
<1> SUFFICES ASSUME NEW S \in SUBSET Nodes, S # {}
             PROVE  \E n \in S : \A m \in S : n \notin Producers(jns, m)
  BY DEF Acyclic
<1>1. PICK n \in S : \A m \in S : n \notin Producers(ins, m)
  BY DEF Acyclic
<1> QED BY <1>1

\* Node n gets the producer p, which does not depend on it.
LEMMA AcyclicGrows ==
  ASSUME NEW ins, Acyclic(ins), NEW jns, NEW n \in Nodes, NEW p,
         \A m \in Nodes : m # n => Producers(jns, m) \subseteq Producers(ins, m),
         Producers(jns, n) \subseteq Producers(ins, n) \cup {p},
         p \notin Downstream(ins, n)
  PROVE  Acyclic(jns)
<1> SUFFICES ASSUME NEW S \in SUBSET Nodes, S # {}
             PROVE  \E x \in S : \A m \in S : x \notin Producers(jns, m)
  BY DEF Acyclic
<1> DEFINE D == Downstream(ins, n)
<1>1. n \in D /\ \A m \in Nodes : Producers(ins, m) \cap D # {} => m \in D
  BY DownstreamClosed
<1> HIDE DEF D
<1>2. CASE n \notin S
  <2>1. PICK x \in S : \A m \in S : x \notin Producers(ins, m)
    BY DEF Acyclic
  <2> QED BY <1>2, <2>1
<1>3. CASE n \in S
  <2>1. S \cap D \in SUBSET Nodes /\ S \cap D # {}
    BY <1>1, <1>3
  <2>2. PICK x \in S \cap D : \A m \in S \cap D : x \notin Producers(ins, m)
    BY <2>1 DEF Acyclic
  <2>3. \A m \in S : x \notin Producers(ins, m)
    BY <1>1, <2>2
  <2>4. x # p
    BY <2>2 DEF D
  <2> QED BY <2>2, <2>3, <2>4
<1> QED BY <1>2, <1>3

\* What n itself uses does not matter for what depends on it.
LEMMA DownstreamShrinks ==
  ASSUME NEW ins, NEW jns, NEW n \in Nodes,
         \A m \in Nodes : m # n => Producers(jns, m) \subseteq Producers(ins, m)
  PROVE  Downstream(jns, n) \subseteq Downstream(ins, n)
<1> DEFINE D == Downstream(ins, n)
<1>1. n \in D /\ \A m \in Nodes : Producers(ins, m) \cap D # {} => m \in D
  BY DownstreamClosed
<1> HIDE DEF D
<1>2. \A m \in Nodes : Producers(jns, m) \cap D # {} => m \in D
  BY <1>1
<1>3. Downstream(jns, n) \subseteq D
  BY <1>1, <1>2, DownstreamLeast
<1> QED BY <1>3 DEF D

LEMMA AddingNone ==
  ASSUME NEW w, \A c \in ToSet(w) : c.op # "add_input", NEW ins
  PROVE  Adding(w, ins)
BY DEF Adding, ToSet

LEMMA AddingTail ==
  ASSUME NEW w \in Seq(Calls), w # << >>, NEW ins, Adding(w, ins)
  PROVE  /\ Adding(Tail(w), ins)
         /\ Head(w).op = "add_input" =>
              \A c \in ToSet(Tail(w)) : c.op \in {"add_input", "node_create"} /\ c.node = Head(w).node
<1> DEFINE t == Tail(w)
<1>1. t \in Seq(Calls) /\ Len(t) = Len(w) - 1 /\ Len(w) \in Nat /\ \A k \in 1 .. Len(t) : t[k] = w[k + 1]
  OBVIOUS
<1>2. ToSet(t) \subseteq ToSet(w)
  BY TailElements
<1>3. Head(w) = w[1] /\ 1 \in DOMAIN w /\ DOMAIN w = 1 .. Len(w)
  OBVIOUS
<1> HIDE DEF t
<1>4. \A k \in DOMAIN t : k + 1 \in DOMAIN w /\ t[k] = w[k + 1] /\ k \in Nat /\ 1 < k + 1
  BY <1>1
<1>5. \A c \in ToSet(t) : \E k \in DOMAIN t : c = t[k]
  BY DEF ToSet
<1>6. Adding(t, ins)
  <2>1. \A c \in ToSet(t) : c.op = "add_input" => Producer(c.origin) \notin Downstream(ins, c.node)
    BY <1>2 DEF Adding
  <2>2. ASSUME NEW i \in DOMAIN t, NEW j \in DOMAIN t, i < j, t[i].op = "add_input"
        PROVE  t[j].op \in {"add_input", "node_create"} /\ t[j].node = t[i].node
    <3>1. i + 1 < j + 1
      BY <1>4, <2>2
    <3> QED BY <1>4, <2>2, <3>1 DEF Adding
  <2> QED BY <2>1, <2>2 DEF Adding
<1>7. ASSUME Head(w).op = "add_input", NEW c \in ToSet(t)
      PROVE  c.op \in {"add_input", "node_create"} /\ c.node = Head(w).node
  <2>1. PICK k \in DOMAIN t : c = t[k]
    BY <1>5
  <2> QED BY <1>3, <1>4, <1>7, <2>1 DEF Adding
<1> QED BY <1>6, <1>7 DEF t

LEMMA AddingAfter ==
  ASSUME NEW q \in Seq(Calls), \A c \in ToSet(q) : c.op # "add_input",
         NEW t \in Seq(Calls), NEW ins, Adding(t, ins)
  PROVE  Adding(q \o t, ins)
<1> DEFINE w == q \o t
<1>1. ToSet(w) = ToSet(q) \cup ToSet(t)
  BY ConcatElements
<1>2. /\ DOMAIN w = 1 .. Len(q) + Len(t) /\ Len(q) \in Nat /\ Len(t) \in Nat
      /\ \A k \in 1 .. Len(q) + Len(t) : w[k] = IF k <= Len(q) THEN q[k] ELSE t[k - Len(q)]
  OBVIOUS
<1> HIDE DEF w
<1>3. ASSUME NEW i \in DOMAIN w, NEW j \in DOMAIN w, i < j, w[i].op = "add_input"
      PROVE  w[j].op \in {"add_input", "node_create"} /\ w[j].node = w[i].node
  <2>1. ~(i <= Len(q))
    <3>1. i <= Len(q) => i \in DOMAIN q /\ w[i] = q[i]
      BY <1>2
    <3> QED BY <1>3, <3>1 DEF ToSet
  <2>2. ~(j <= Len(q))
    BY <1>2, <1>3, <2>1
  <2>3. /\ i - Len(q) \in DOMAIN t /\ j - Len(q) \in DOMAIN t /\ i - Len(q) < j - Len(q)
        /\ w[i] = t[i - Len(q)] /\ w[j] = t[j - Len(q)]
    BY <1>2, <1>3, <2>1, <2>2
  <2> QED BY <1>3, <2>3 DEF Adding
<1>4. \A c \in ToSet(w) : c.op = "add_input" => Producer(c.origin) \notin Downstream(ins, c.node)
  BY <1>1 DEF Adding
<1>5. Adding(w, ins)
  BY <1>3, <1>4 DEF Adding
<1> QED BY <1>5 DEF w

LEMMA InitNoCircles == Init => NoCirclesInv
<1> SUFFICES ASSUME Init PROVE NoCirclesInv
  OBVIOUS
<1>1. \A m \in Nodes : Producers(operands, m) = {}
  BY EmptyProducers DEF Init
<1>2. Acyclic(operands)
  BY <1>1 DEF Acyclic
<1>3. ToSet(work) = {}
  BY DEF Init, ToSet
<1> QED BY <1>2, <1>3, AddingNone DEF NoCirclesInv

\* Nothing depends on a node that does not exist yet.
LEMMA ConstructNoCircles ==
  ASSUME IInv, NoCirclesInv, NEW n \in Nodes, NEW origins \in Seq(Origins), Construct(n, origins),
         \A o \in ToSet(origins) : Producer(o) \in nodes \cup {Region}
  PROVE  NoCirclesInv'
<1> DEFINE q == [k \in 1 .. Len(origins) |-> Call("add_input", n, origins[k])]
           last == Call("node_create", n, Region)
           lasts == << last >>
<1>1. n \notin nodes /\ work' = q \o lasts /\ operands' = operands
  BY DEF Construct
<1>2. \A k \in DOMAIN origins : origins[k] \in ToSet(origins) /\ origins[k] \in Origins
  BY DEF ToSet
<1>3. q \in Seq(Calls) /\ \A c \in ToSet(q) : \E o \in ToSet(origins) : c = Call("add_input", n, o)
  <2>1. \A k \in 1 .. Len(origins) : q[k] \in Calls /\ q[k] = Call("add_input", n, origins[k])
    BY <1>2, CallType
  <2>2. q \in Seq(Calls) /\ DOMAIN q = DOMAIN origins
    BY <2>1
  <2> QED BY <2>1, <2>2, <1>2 DEF ToSet
<1> HIDE DEF q
<1>4. lasts \in Seq(Calls) /\ ToSet(lasts) = {last}
  <2>1. last \in Calls
    BY DEF Call, Calls
  <2> HIDE DEF last
  <2> QED BY <2>1, OneElement
<1> HIDE DEF last, lasts
<1>5. work' \in Seq(Calls) /\ ToSet(work') = ToSet(q) \cup {last}
  BY <1>1, <1>3, <1>4, ConcatElements
<1>6. \A c \in ToSet(work') :
        /\ c.op \in {"add_input", "node_create"} /\ c.node = n
        /\ c.op = "add_input" => c.origin \in ToSet(origins)
  BY <1>3, <1>5 DEF Call, last
<1>7. Downstream(operands, n) \subseteq {n}
  <2>1. \A m \in Nodes : Producers(operands, m) \cap {n} # {} => m \in {n}
    BY <1>1 DEF IInv, NoDangling
  <2> QED BY <2>1, DownstreamLeast
<1>8. \A o \in ToSet(origins) : Producer(o) \notin Downstream(operands, n)
  BY <1>1, <1>7, RegionAssumption
<1>9. \A k \in DOMAIN work' : work'[k] \in ToSet(work')
  BY DEF ToSet
<1>10. Adding(work', operands)
  BY <1>6, <1>8, <1>9 DEF Adding
<1> QED BY <1>1, <1>10 DEF NoCirclesInv

LEMMA AppendInputNoCircles ==
  ASSUME IInv, NoCirclesInv, NEW n \in Nodes, NEW o \in Origins, AppendInput(n, o)
  PROVE  NoCirclesInv'
<1> DEFINE c == Call("add_input", n, o)
<1>1. o \in Upstream(n) /\ work' = << c >> /\ operands' = operands
  BY DEF AppendInput
<1>2. Producer(o) \notin Downstream(operands, n)
  BY <1>1 DEF Upstream
<1>3. c.op = "add_input" /\ c.node = n /\ c.origin = o
  BY DEF Call
<1> HIDE DEF c
<1>4. DOMAIN work' = {1} /\ work'[1] = c
  BY <1>1
<1>5. \A i, j \in DOMAIN work' : ~(i < j)
  BY <1>4
<1>6. ToSet(work') = {c}
  BY <1>4 DEF ToSet
<1>7. Adding(work', operands)
  BY <1>2, <1>3, <1>5, <1>6 DEF Adding
<1> QED BY <1>1, <1>7 DEF NoCirclesInv

\* Calls of which none adds an input.
LEMMA AddsNothing ==
  ASSUME NEW w, NEW c1, NEW c2, w \in {<< >>, << c1 >>, << c1, c2 >>},
         c1.op # "add_input", c2.op # "add_input", NEW ins
  PROVE  Adding(w, ins)
<1>1. \A k \in DOMAIN w : w[k] \in {c1, c2}
  OBVIOUS
<1> QED BY <1>1, AddingNone DEF ToSet

LEMMA DivertInputNoCircles ==
  ASSUME IInv, NoCirclesInv, NEW n \in Nodes, NEW i, NEW o \in Origins, DivertInput(n, i, o)
  PROVE  NoCirclesInv'
<1> DEFINE old == operands[n][i]
           d == [operands[n] EXCEPT ![i] = o]
           c1 == Recomputing(n)
           c2 == Call("input_change", n, old)
           p == Producer(o)
<1>1. /\ i \in DOMAIN operands[n] /\ o \in Upstream(n)
      /\ operands' = [operands EXCEPT ![n][i] = o] /\ work' = << c1, c2 >>
  BY DEF DivertInput
<1>2. operands[n] \in Seq(Origins) /\ operands \in [Nodes -> Seq(Origins)]
  BY DEF IInv, TypeOK
<1>3. operands'[n] = d /\ \A m \in Nodes : m # n => operands'[m] = operands[m]
  BY <1>1, <1>2
<1>4. ToSet(d) \subseteq ToSet(operands[n]) \cup {o}
  BY <1>1, <1>2 DEF ToSet
<1> HIDE DEF d
<1>5. /\ Producers(operands', n) \subseteq Producers(operands, n) \cup {p}
      /\ \A m \in Nodes : m # n => Producers(operands', m) \subseteq Producers(operands, m)
  BY <1>3, <1>4 DEF Producers
<1>6. p \notin Downstream(operands, n)
  BY <1>1 DEF Upstream
<1>7. Acyclic(operands)'
  <2> HIDE DEF p
  <2>1. Acyclic(operands)
    BY DEF NoCirclesInv
  <2>2. Acyclic(operands')
    BY <1>5, <1>6, <2>1, AcyclicGrows
  <2> QED BY <2>2
<1>8. c1.op # "add_input" /\ c2.op # "add_input"
  BY DEF Call, Recomputing
<1> HIDE DEF c1, c2
<1>9. Adding(work', operands')
  BY <1>1, <1>8, AddsNothing
<1> QED BY <1>7, <1>9 DEF NoCirclesInv

LEMMA RemoveInputNoCircles ==
  ASSUME IInv, NoCirclesInv, NEW n \in Nodes, NEW i, RemoveInput(n, i)
  PROVE  NoCirclesInv'
<1> DEFINE removed == [operands EXCEPT ![n] = RemoveAt(@, i)]
           p == Producer(operands[n][i])
           c1 == Recomputing(n)
           c2 == Call("push_top", n, Region)
<1>1. i \in DOMAIN operands[n] /\ operands' = removed
  BY DEF RemoveInput
<1>2. work' \in {<< >>, << c1 >>, << c1, c2 >>}
  BY DEF RemoveInput
<1>3. /\ \A m \in Nodes : m # n => removed[m] = operands[m]
      /\ Producers(operands, n) = Producers(removed, n) \cup ({p} \ {Region})
  BY <1>1, Detached DEF IInv
<1> HIDE DEF removed, p
<1>4. \A m \in Nodes : Producers(operands', m) \subseteq Producers(operands, m)
  BY <1>1, <1>3 DEF Producers
<1>5. Acyclic(operands)'
  BY <1>4, AcyclicShrinks DEF NoCirclesInv
<1>6. c1.op # "add_input" /\ c2.op # "add_input"
  BY DEF Call, Recomputing
<1> HIDE DEF c1, c2
<1>7. Adding(work', operands')
  BY <1>2, <1>6, AddsNothing
<1> QED BY <1>5, <1>7 DEF NoCirclesInv

LEMMA DestroyNoCircles ==
  ASSUME IInv, NoCirclesInv, NEW n \in Nodes, Destroy(n), UNCHANGED work,
         \A c \in ToSet(work) : c.op = "prune"
  PROVE  NoCirclesInv'
<1>1. operands' = [operands EXCEPT ![n] = << >>] /\ operands \in [Nodes -> Seq(Origins)]
  BY DEF Destroy, IInv, TypeOK
<1>2. operands'[n] = << >> /\ \A m \in Nodes : m # n => operands'[m] = operands[m]
  BY <1>1
<1>3. \A m \in Nodes : Producers(operands', m) \subseteq Producers(operands, m)
  BY <1>2, EmptyProducers DEF Producers
<1>4. Acyclic(operands)'
  BY <1>3, AcyclicShrinks DEF NoCirclesInv
<1>5. Adding(work', operands')
  BY AddingNone
<1> QED BY <1>4, <1>5 DEF NoCirclesInv

LEMMA PassNoCircles ==
  ASSUME IInv, NoCirclesInv, Pass
  PROVE  NoCirclesInv'
<1>1. ASSUME NEW n \in Nodes, NEW origins \in OperandLists, CreateSimple(n, origins)
      PROVE  NoCirclesInv'
  BY <1>1, OperandListElements, ConstructNoCircles DEF CreateSimple
<1>2. ASSUME NEW n \in Nodes, CreateStructural(n)
      PROVE  NoCirclesInv'
  <2>1. << >> \in Seq(Origins) /\ ToSet(<< >>) = {}
    BY DEF ToSet
  <2> QED BY <2>1, <1>2, ConstructNoCircles DEF CreateStructural
<1>3. ASSUME NEW n \in Nodes, RemoveNode(n)
      PROVE  NoCirclesInv'
  <2>1. \A c \in ToSet(work) : c.op = "prune"
    BY <1>3, IdleFacts DEF RemoveNode
  <2> QED BY <1>3, <2>1, DestroyNoCircles DEF RemoveNode
<1>4. ASSUME NEW n \in Nodes, NEW o \in Origins, AppendInput(n, o)
      PROVE  NoCirclesInv'
  BY <1>4, AppendInputNoCircles
<1>5. ASSUME NEW n \in Nodes, NEW i \in 1 .. MaxInputs, NEW o \in Origins, DivertInput(n, i, o)
      PROVE  NoCirclesInv'
  BY <1>5, DivertInputNoCircles
<1>6. ASSUME NEW n \in Nodes, NEW i \in 1 .. MaxInputs, RemoveInput(n, i)
      PROVE  NoCirclesInv'
  BY <1>6, RemoveInputNoCircles
<1>7. ASSUME \/ \E o \in Origins : AppendResult(o)
             \/ \E j \in 1 .. MaxResults : RemoveResult(j) \/ \E o \in Origins : DivertResult(j, o)
      PROVE  NoCirclesInv'
  <2>1. UNCHANGED << operands, work >>
    BY <1>7 DEF AppendResult, RemoveResult, DivertResult
  <2> QED BY <2>1 DEF NoCirclesInv, Acyclic, Adding
<1>8. CASE Prune
  <2> DEFINE c == Call("prune", Region, Region)
  <2>1. work' = << c >> /\ operands' = operands
    BY <1>8 DEF Prune
  <2>2. c.op # "add_input"
    BY DEF Call
  <2> HIDE DEF c
  <2>3. Adding(work', operands')
    BY <2>1, <2>2, AddsNothing
  <2> QED BY <2>1, <2>3 DEF NoCirclesInv
<1> QED BY <1>1, <1>2, <1>3, <1>4, <1>5, <1>6, <1>7, <1>8 DEF Pass

-----------------------------------------------------------------------------
\* A call that leaves the graph alone and adds calls that add no input.
LEMMA CallsNoCircles ==
  ASSUME IInv, NoCirclesInv, work # << >>, UNCHANGED operands,
         NEW q \in Seq(Calls), \A c \in ToSet(q) : c.op # "add_input",
         work' = q \o Tail(work)
  PROVE  NoCirclesInv'
<1> DEFINE t == Tail(work)
<1>1. work \in Seq(Calls) /\ t \in Seq(Calls) /\ Adding(t, operands)
  <2>1. work \in Seq(Calls)
    BY DEF IInv, TypeOK
  <2> QED BY <2>1, AddingTail DEF NoCirclesInv
<1> HIDE DEF t
<1>2. Adding(q \o t, operands)
  BY <1>1, AddingAfter
<1> QED BY <1>2 DEF NoCirclesInv, t

LEMMA ReturningNoCircles ==
  ASSUME IInv, NoCirclesInv, work # << >>, Returning, UNCHANGED operands
  PROVE  NoCirclesInv'
<1>1. work \in Seq(Calls)
  BY DEF IInv, TypeOK
<1>2. Adding(Tail(work), operands)
  BY <1>1, AddingTail DEF NoCirclesInv
<1> QED BY <1>2 DEF NoCirclesInv, Returning

LEMMA RecomputeChangedNoCircles ==
  ASSUME IInv, NoCirclesInv, RecomputeChanged
  PROVE  NoCirclesInv'
<1> DEFINE n == Head(work).node
<1>1. work # << >> /\ Head(work).op = "recompute_depth" /\ UNCHANGED operands
      /\ Head(work) \in ToSet(work)
  BY WorkTail DEF RecomputeChanged, Calling
<1>2. n \in Nodes
  BY <1>1 DEF IInv, WorkOK, TypeOK
<1>3. PICK users \in Orders(UserInputs(operands, n)) :
        work' = [k \in DOMAIN users |-> Recomputing(users[k][1])] \o Tail(work)
  BY DEF RecomputeChanged
<1> DEFINE q == [k \in DOMAIN users |-> Recomputing(users[k][1])]
<1>4. q \in Seq(Calls) /\ \A c \in ToSet(q) : \E m : c = Recomputing(m)
  BY <1>2, UsersCalled DEF IInv
<1>5. work' = q \o Tail(work)
  BY <1>3
<1> HIDE DEF q
<1>6. \A c \in ToSet(q) : c.op # "add_input"
  BY <1>4 DEF Recomputing, Call
<1> QED BY <1>1, <1>4, <1>5, <1>6, CallsNoCircles

\* What AddInput does to the graph and to the calls.
LEMMA AddInputGraph ==
  ASSUME IInv, NoCirclesInv, AddInput, NEW n, NEW o, n = Head(work).node, o = Head(work).origin
  PROVE  /\ n \in Nodes /\ o \in Origins /\ operands' \in [Nodes -> Seq(Origins)]
         /\ operands' = [operands EXCEPT ![n] = Append(@, o)]
         /\ Producers(operands', n) \subseteq Producers(operands, n) \cup {Producer(o)}
         /\ \A m \in Nodes : m # n => operands'[m] = operands[m]
                                      /\ Producers(operands', m) = Producers(operands, m)
         /\ Producer(o) \notin Downstream(operands, n)
         /\ work # << >> /\ Tail(work) \in Seq(Calls) /\ Head(work) \in Calls
         /\ Head(work).op = "add_input" /\ Head(work) \in ToSet(work)
         /\ \A c \in ToSet(Tail(work)) : c.op \in {"add_input", "node_create"} /\ c.node = n
         /\ Recomputing(n) \in Calls
         /\ \/ work' = Tail(work)
            \/ work' = << Recomputing(n) >> \o Tail(work)
<1>1. /\ work # << >> /\ Head(work).op = "add_input"
      /\ operands' = [operands EXCEPT ![n] = Append(@, o)]
      /\ \/ work' = Tail(work) \/ work' = << Recomputing(n) >> \o Tail(work)
  BY DEF AddInput, Calling
<1>2. Head(work) \in Calls /\ Head(work) \in ToSet(work) /\ Tail(work) \in Seq(Calls)
  BY <1>1, WorkTail
<1>3. n \in Nodes /\ o \in Origins /\ operands \in [Nodes -> Seq(Origins)] /\ work \in Seq(Calls)
  BY <1>1, <1>2 DEF IInv, WorkOK, TypeOK
<1> DEFINE a == Append(operands[n], o)
<1>4. a \in Seq(Origins) /\ ToSet(a) = ToSet(operands[n]) \cup {o}
  BY <1>3, AppendElements
<1> HIDE DEF a
<1>5. operands' = [operands EXCEPT ![n] = a]
  BY <1>1 DEF a
<1>6. operands'[n] = a /\ operands' \in [Nodes -> Seq(Origins)]
      /\ \A m \in Nodes : m # n => operands'[m] = operands[m]
  BY <1>3, <1>4, <1>5
<1>7. /\ Producers(operands', n) \subseteq Producers(operands, n) \cup {Producer(o)}
      /\ \A m \in Nodes : m # n => Producers(operands', m) = Producers(operands, m)
  BY <1>4, <1>6 DEF Producers
<1>8. /\ Producer(o) \notin Downstream(operands, n)
      /\ \A c \in ToSet(Tail(work)) : c.op \in {"add_input", "node_create"} /\ c.node = n
  BY <1>1, <1>2, <1>3, AddingTail DEF NoCirclesInv, Adding
<1>9. Recomputing(n) \in Calls
  BY <1>3, CallType
<1> QED BY <1>1, <1>2, <1>3, <1>6, <1>7, <1>8, <1>9

LEMMA AddInputNoCircles ==
  ASSUME IInv, NoCirclesInv, AddInput
  PROVE  NoCirclesInv'
<1>0. PICK n, o : n = Head(work).node /\ o = Head(work).origin
  OBVIOUS
<1> DEFINE p == Producer(o)
           t == Tail(work)
           c1 == Recomputing(n)
<1>1. /\ n \in Nodes
      /\ Producers(operands', n) \subseteq Producers(operands, n) \cup {p}
      /\ \A m \in Nodes : m # n => Producers(operands', m) = Producers(operands, m)
      /\ p \notin Downstream(operands, n)
      /\ t \in Seq(Calls) /\ work # << >>
      /\ \A c \in ToSet(t) : c.node = n
      /\ c1 \in Calls
      /\ \/ work' = t \/ work' = << c1 >> \o t
  BY <1>0, AddInputGraph
<1>2. c1.op # "add_input"
  BY DEF Recomputing, Call
<1> HIDE DEF p, t, c1
<1>3. Acyclic(operands) /\ Adding(work, operands) /\ work \in Seq(Calls)
  BY DEF NoCirclesInv, IInv, TypeOK
<1>4. Acyclic(operands')
  BY <1>1, <1>3, AcyclicGrows
<1>5. Adding(t, operands)
  BY <1>1, <1>3, AddingTail DEF t
<1>6. Downstream(operands', n) \subseteq Downstream(operands, n)
  BY <1>1, DownstreamShrinks
<1>7. Adding(t, operands')
  BY <1>1, <1>5, <1>6 DEF Adding
<1>8. Adding(work', operands')
  <2>1. CASE work' = t
    BY <1>7, <2>1
  <2>2. CASE work' = << c1 >> \o t
    <3> DEFINE one == << c1 >>
    <3>1. one \in Seq(Calls) /\ ToSet(one) = {c1} /\ work' = one \o t
      BY <1>1, <2>2, OneElement
    <3> HIDE DEF one
    <3>2. Adding(one \o t, operands')
      BY <1>1, <1>2, <1>7, <3>1, AddingAfter
    <3> QED BY <3>1, <3>2
  <2> QED BY <1>1, <2>1, <2>2
<1> QED BY <1>4, <1>8 DEF NoCirclesInv

\* While prune runs, nothing else is pending.
LEMMA PruneAlone ==
  ASSUME IInv, Calling("prune")
  PROVE  /\ work = << Head(work) >> /\ Head(work) \in Calls /\ Head(work).op = "prune"
         /\ \A c \in ToSet(work) : c.op = "prune"
<1>1. work # << >> /\ Head(work).op = "prune" /\ Head(work) \in ToSet(work) /\ Head(work) \in Calls
  BY WorkTail DEF Calling
<1>2. work = << Head(work) >>
  BY <1>1 DEF IInv, WorkOK
<1> DEFINE h == Head(work)
<1>3. work = << h >> /\ h \in Calls /\ h.op = "prune"
  BY <1>1, <1>2
<1> HIDE DEF h
<1>4. ToSet(<< h >>) = {h}
  BY <1>3, OneElement
<1> QED BY <1>1, <1>2, <1>3, <1>4

LEMMA StepNoCircles ==
  ASSUME IInv, NoCirclesInv, Step
  PROVE  NoCirclesInv'
<1>1. CASE AddInput
  BY <1>1, AddInputNoCircles
<1>2. CASE RecomputeSame \/ PushTop \/ Notify \/ PruneDone
  BY <1>2, ReturningNoCircles DEF RecomputeSame, PushTop, Notify, PruneDone, Calling
<1>3. CASE RecomputeChanged
  BY <1>3, RecomputeChangedNoCircles
<1>4. ASSUME NEW n \in Nodes, PruneNode(n)
      PROVE  NoCirclesInv'
  BY <1>4, PruneAlone, DestroyNoCircles DEF PruneNode
<1> QED BY <1>1, <1>2, <1>3, <1>4 DEF Step

\* The graph never has a circle, whatever the passes do.
LEMMA NeverCircles == Spec => []NoCirclesInv
<1>1. ASSUME IInv, NoCirclesInv, [Next]_region
      PROVE  NoCirclesInv'
  <2>1. CASE Next
    BY <1>1, <2>1, PassNoCircles, StepNoCircles DEF Next
  <2>2. CASE UNCHANGED region
    BY <1>1, <2>2 DEF region, NoCirclesInv, Acyclic, Adding
  <2> QED BY <1>1, <2>1, <2>2
<1> QED BY <1>1, InitNoCircles, Invariant, PTL DEF Spec

-----------------------------------------------------------------------------
(* Every step leaves fewer to be made. *)

\* What makes the steps of the calls w a number.
Measurable(w, ins, N) ==
  /\ ins \in [Nodes -> Seq(Origins)] /\ Acyclic(ins) /\ IsFiniteSet(N) /\ w \in Seq(Calls)
  /\ \A c \in ToSet(w) : c.op \in {"recompute_depth", "add_input"} => c.node \in Nodes

LEMMA Measured == IInv /\ NoCirclesInv => Measurable(work, operands, nodes)
<1> SUFFICES ASSUME IInv, NoCirclesInv PROVE Measurable(work, operands, nodes)
  OBVIOUS
<1>1. nodes \in SUBSET Nodes
  BY DEF IInv, TypeOK
<1>2. IsFiniteSet(nodes)
  BY <1>1, NodesAssumption, FS_Subset
<1>3. \A c \in ToSet(work) : c.op \in {"recompute_depth", "add_input"} => c.node \in Nodes
  BY <1>1 DEF IInv, WorkOK
<1> QED BY <1>2, <1>3 DEF IInv, TypeOK, NoCirclesInv, Measurable

LEMMA MeasuredAfter ==
  ASSUME IInv', NoCirclesInv'
  PROVE  Measurable(work', operands', nodes')
<1>1. (IInv /\ NoCirclesInv => Measurable(work, operands, nodes))'
  BY Measured, PTL
<1> QED BY <1>1

\* The paths, and the sum of the costs of w.
LEMMA MeasuredIs ==
  ASSUME NEW w, NEW ins, NEW N, Measurable(w, ins, N)
  PROVE  \E p : PathsAre(p, ins) /\ Steps(w, ins, N) = Total(Costs(p, N, w))
BY StepsAre DEF Measurable

\* There is only one way to count the paths.
LEMMA SamePaths ==
  ASSUME NEW ins \in [Nodes -> Seq(Origins)], Acyclic(ins), NEW p, PathsAre(p, ins),
         NEW q, PathsAre(q, ins)
  PROVE  p = q
<1>1. \A n \in Nodes : p[n] = q[n]
  <2> DEFINE X == Nodes
  <2>1. SameUsers(ins, ins, X)
    BY DEF SameUsers
  <2> HIDE DEF X
  <2>2. \A n \in X : p[n] = q[n]
    BY <2>1, PathsAgree
  <2> QED BY <2>2 DEF X
<1> QED BY <1>1 DEF PathsAre

\* The first call, and those after it.
LEMMA CostsHead ==
  ASSUME NEW w, NEW ins, NEW N, Measurable(w, ins, N), w # << >>, NEW p \in [Nodes -> Nat]
  PROVE  /\ Measurable(Tail(w), ins, N)
         /\ Cost(p, N, Head(w)) \in Nat /\ Total(Costs(p, N, Tail(w))) \in Nat
         /\ Total(Costs(p, N, w)) = Cost(p, N, Head(w)) + Total(Costs(p, N, Tail(w)))
<1> DEFINE h == Head(w)
           t == Tail(w)
           one == << h >>
<1>0. w \in Seq(Calls) /\ IsFiniteSet(N)
  BY DEF Measurable
<1>1. h \in Calls /\ t \in Seq(Calls) /\ ToSet(w) = {h} \cup ToSet(t)
  BY <1>0, TailElements
<1>2. w = one \o t
  BY <1>0
<1>3. one \in Seq(Calls) /\ ToSet(one) = {h} /\ DOMAIN one = {1} /\ one[1] = h
  <2> HIDE DEF h
  <2> QED BY <1>1, OneElement
<1> HIDE DEF h, t, one
<1>4. \A c \in ToSet(one) \cup ToSet(t) : c.op \in {"recompute_depth", "add_input"} => c.node \in Nodes
  BY <1>1, <1>3 DEF Measurable
<1>5. Total(Costs(p, N, w)) = Total(Costs(p, N, one)) + Total(Costs(p, N, t))
  BY <1>0, <1>1, <1>2, <1>3, <1>4, CostsConcat
<1>6. Total(Costs(p, N, t)) \in Nat
  BY <1>0, <1>1, <1>4, CostsAre
<1>7. Cost(p, N, h) \in Nat
  <2>1. Cardinality(N) \in Nat
    BY <1>0, FS_CardinalityType
  <2> QED BY <2>1, <1>3, <1>4 DEF Cost
<1>8. Total(Costs(p, N, one)) = Cost(p, N, h)
  <2> DEFINE g == Costs(p, N, one)
  <2>1. g \in [{1} -> Nat] /\ g[1] = Cost(p, N, h)
    BY <1>3, <1>7 DEF Costs
  <2> HIDE DEF g
  <2>2. Total(g) = g[1]
    BY <2>1, TotalOfOne
  <2> QED BY <2>1, <2>2 DEF g
<1>9. Measurable(t, ins, N)
  BY <1>1, <1>4 DEF Measurable
<1> QED BY <1>5, <1>6, <1>7, <1>8, <1>9 DEF h, t

LEMMA NodesPositive ==
  ASSUME NEW ins \in [Nodes -> Seq(Origins)], NEW p, PathsAre(p, ins), NEW n \in Nodes
  PROVE  p[n] \in Nat /\ p[n] >= 1
<1> DEFINE T == Total([u \in UserInputs(ins, n) |-> p[u[1]]])
<1>1. p \in [Nodes -> Nat] /\ p[n] = 1 + T
  BY DEF PathsAre
<1>2. T \in Nat
  BY <1>1, UserTotal
<1> HIDE DEF T
<1> QED BY <1>1, <1>2

\* A call that returns, and leaves the graph alone.
LEMMA ReturningLess ==
  ASSUME IInv, NoCirclesInv, IInv', NoCirclesInv', work # << >>, Returning,
         UNCHANGED << nodes, operands >>
  PROVE  StepsLeft' < StepsLeft
<1>1. Measurable(work, operands, nodes) /\ Measurable(work', operands, nodes)
  BY Measured, MeasuredAfter
<1>2. PICK p : PathsAre(p, operands) /\ StepsLeft = Total(Costs(p, nodes, work))
  BY <1>1, MeasuredIs, StepsLeftIs
<1>3. PICK q : PathsAre(q, operands) /\ StepsLeft' = Total(Costs(q, nodes, work'))
  BY <1>1, MeasuredIs, StepsLeftAfter
<1>4. p = q /\ operands \in [Nodes -> Seq(Origins)] /\ p \in [Nodes -> Nat]
  BY <1>1, <1>2, <1>3, SamePaths DEF Measurable, PathsAre
<1> DEFINE h == Head(work)
           c == Cost(p, nodes, h)
           r == Total(Costs(p, nodes, Tail(work)))
<1>5. c \in Nat /\ r \in Nat /\ StepsLeft = c + r
  BY <1>1, <1>2, <1>4, CostsHead
<1>6. c >= 1
  <2>1. h \in ToSet(work)
    BY WorkTail
  <2>2. h.op \in {"recompute_depth", "add_input"} => h.node \in Nodes
    BY <1>1, <2>1 DEF Measurable
  <2>3. h.op \in {"recompute_depth", "add_input"} => p[h.node] \in Nat /\ p[h.node] >= 1
    BY <1>2, <1>4, <2>2, NodesPositive
  <2>4. Cardinality(nodes) \in Nat
    BY <1>1, FS_CardinalityType DEF Measurable
  <2> HIDE DEF h
  <2> QED BY <2>3, <2>4 DEF Cost
<1>7. StepsLeft' = r
  BY <1>3, <1>4 DEF Returning
<1> HIDE DEF c, r
<1> QED BY <1>5, <1>6, <1>7

\* A node is recomputed once more for every input that uses it.
UsersVisited(q, ins, n) ==
  \E users \in Orders(UserInputs(ins, n)) : q = [k \in DOMAIN users |-> Recomputing(users[k][1])]
UsersPaths(p, ins, n) == [u \in UserInputs(ins, n) |-> p[u[1]]]

LEMMA UsersCost ==
  ASSUME NEW ins \in [Nodes -> Seq(Origins)], NEW n \in Nodes, NEW p \in [Nodes -> Nat], NEW N,
         NEW q, UsersVisited(q, ins, n)
  PROVE  Total(Costs(p, N, q)) = Total(UsersPaths(p, ins, n))
<1>0. PICK users \in Orders(UserInputs(ins, n)) : q = [k \in DOMAIN users |-> Recomputing(users[k][1])]
  BY DEF UsersVisited
<1> DEFINE U == UserInputs(ins, n)
           g == Costs(p, N, q)
           h == UsersPaths(p, ins, n)
           S == 1 .. Cardinality(U)
<1>1. IsFiniteSet(U) /\ \A u \in U : u[1] \in Nodes
  BY UsersAre
<1>2. users \in [S -> U] /\ \A u \in U : \E k \in S : users[k] = u
  BY DEF Orders
<1>3. Cardinality(U) \in Nat /\ IsFiniteSet(S) /\ Cardinality(S) = Cardinality(U)
  <2>1. Cardinality(U) \in Nat
    BY <1>1, FS_CardinalityType
  <2> HIDE DEF U
  <2> QED BY <2>1, FS_Interval
<1>4. h \in [U -> Nat] /\ \A u \in U : h[u] = p[u[1]]
  BY <1>1 DEF UsersPaths
<1>5. DOMAIN q = DOMAIN users /\ \A k \in DOMAIN users : Cost(p, N, q[k]) = p[users[k][1]]
  BY <1>0 DEF Cost, Recomputing, Call
<1> HIDE DEF U, S, h
<1>6. DOMAIN users = S /\ \A k \in S : users[k] \in U
  BY <1>2
<1>7. g \in [S -> Nat] /\ \A k \in S : g[k] = h[users[k]]
  BY <1>1, <1>4, <1>5, <1>6 DEF Costs
<1>8. \A x, y \in S : users[x] = users[y] => x = y
  <2>1. users \in Surjection(S, U)
    BY <1>2 DEF Surjection
  <2>2. users \in Injection(S, U)
    BY <1>1, <1>3, <2>1, FS_SurjSameCardinalityImpliesInj
  <2> QED BY <1>2, <2>2 DEF Injection, IsInjective, S
<1> HIDE DEF g
<1>9. Renames(users, S, g, U, h)
  BY <1>1, <1>2, <1>3, <1>4, <1>7, <1>8 DEF Renames
<1>10. Total(g) = Total(h)
  BY <1>9, TotalRenamed
<1> QED BY <1>10 DEF g, h

LEMMA RecomputeChangedLess ==
  ASSUME IInv, NoCirclesInv, IInv', NoCirclesInv', RecomputeChanged
  PROVE  StepsLeft' < StepsLeft
<1> DEFINE n == Head(work).node
           t == Tail(work)
<1>1. /\ work # << >> /\ Head(work).op = "recompute_depth" /\ UNCHANGED << nodes, operands >>
      /\ Head(work) \in ToSet(work) /\ t \in Seq(Calls)
  BY WorkTail DEF RecomputeChanged, Calling
<1>2. PICK users \in Orders(UserInputs(operands, n)) :
        work' = [k \in DOMAIN users |-> Recomputing(users[k][1])] \o t
  BY DEF RecomputeChanged
<1> DEFINE q == [k \in DOMAIN users |-> Recomputing(users[k][1])]
<1>3. Measurable(work, operands, nodes) /\ Measurable(work', operands, nodes)
  BY <1>1, Measured, MeasuredAfter
<1>4. PICK p : PathsAre(p, operands) /\ StepsLeft = Total(Costs(p, nodes, work))
  BY <1>3, MeasuredIs, StepsLeftIs
<1>5. PICK r : PathsAre(r, operands) /\ StepsLeft' = Total(Costs(r, nodes, work'))
  <2>1. \E r : PathsAre(r, operands) /\ Steps(work', operands, nodes) = Total(Costs(r, nodes, work'))
    BY <1>3, MeasuredIs
  <2>2. StepsLeft' = Steps(work', operands, nodes)
    BY <1>1, StepsLeftAfter
  <2> QED BY <2>1, <2>2
<1>6. p = r /\ operands \in [Nodes -> Seq(Origins)] /\ p \in [Nodes -> Nat]
  BY <1>3, <1>4, <1>5, SamePaths DEF Measurable, PathsAre
<1>7. n \in Nodes /\ TypeOK
  BY <1>1, <1>3 DEF Measurable, IInv
<1> DEFINE U == UsersPaths(p, operands, n)
<1>8. Total(Costs(p, nodes, q)) = Total(U) /\ Total(U) \in Nat /\ p[n] = 1 + Total(U)
  <2>1. Total(Costs(p, nodes, q)) = Total(U)
    <3>1. UsersVisited(q, operands, n)
      BY DEF UsersVisited
    <3>2. operands \in [Nodes -> Seq(Origins)] /\ p \in [Nodes -> Nat] /\ n \in Nodes
      BY <1>6, <1>7
    <3> HIDE DEF q, n
    <3>3. Total(Costs(p, nodes, q)) = Total(UsersPaths(p, operands, n))
      BY <3>1, <3>2, UsersCost
    <3> QED BY <3>3
  <2>2. Total(U) \in Nat
    BY <1>6, <1>7, UserTotal DEF UsersPaths
  <2>3. p[n] = 1 + Total(U)
    BY <1>4, <1>7 DEF PathsAre, UsersPaths
  <2> QED BY <2>1, <2>2, <2>3
<1>9. q \in Seq(Calls) /\ \A c \in ToSet(q) : c \in {Recomputing(m) : m \in Nodes}
  BY <1>7, UsersCalled
<1> HIDE DEF q, t, U
<1>10. work' = q \o t
  BY <1>2 DEF q
<1>11. \A c \in ToSet(q) : c.node \in Nodes
  BY <1>9 DEF Recomputing, Call
<1>12. Total(Costs(p, nodes, t)) \in Nat /\ Measurable(t, operands, nodes)
       /\ Total(Costs(p, nodes, work)) = Cost(p, nodes, Head(work)) + Total(Costs(p, nodes, t))
  BY <1>1, <1>3, <1>6, CostsHead DEF t
<1>13. Cost(p, nodes, Head(work)) = p[n]
  BY <1>1 DEF Cost
<1>14. Total(Costs(p, nodes, work')) = Total(U) + Total(Costs(p, nodes, t))
  <2>1. \A c \in ToSet(q) \cup ToSet(t) : c.op \in {"recompute_depth", "add_input"} => c.node \in Nodes
    BY <1>11, <1>12 DEF Measurable
  <2>2. IsFiniteSet(nodes)
    BY <1>3 DEF Measurable
  <2>3. Total(Costs(p, nodes, q \o t)) = Total(Costs(p, nodes, q)) + Total(Costs(p, nodes, t))
    BY <1>1, <1>6, <1>9, <2>1, <2>2, CostsConcat
  <2> QED BY <1>8, <1>10, <2>3
<1> QED BY <1>4, <1>5, <1>6, <1>8, <1>12, <1>13, <1>14

\* A new input of n is seen by nobody but its producer, on which n does not count.
LEMMA AddInputPaths ==
  ASSUME IInv, NoCirclesInv, AddInput, NEW n, n = Head(work).node,
         NEW p, PathsAre(p, operands), NEW q, PathsAre(q, operands')
  PROVE  p[n] = q[n]
<1>0. PICK o : o = Head(work).origin
  OBVIOUS
<1> DEFINE a == Append(operands[n], o)
           X == Downstream(operands, n)
<1>1. /\ n \in Nodes /\ o \in Origins /\ operands' = [operands EXCEPT ![n] = a]
      /\ Producer(o) \notin X
      /\ \A m \in Nodes : m # n => operands'[m] = operands[m]
  BY <1>0, AddInputGraph
<1>2. operands \in [Nodes -> Seq(Origins)] /\ Acyclic(operands)
  BY DEF IInv, TypeOK, NoCirclesInv
<1>3. operands'[n] = a
  BY <1>1, <1>2
<1>4. /\ DOMAIN a = 1 .. Len(operands[n]) + 1 /\ DOMAIN operands[n] = 1 .. Len(operands[n])
      /\ a[Len(operands[n]) + 1] = o /\ Len(operands[n]) \in Nat
      /\ \A k \in DOMAIN operands[n] : a[k] = operands[n][k]
  BY <1>1, <1>2
<1> HIDE DEF a
<1>5. n \in X /\ X \subseteq Nodes
      /\ \A m \in Nodes : Producers(operands, m) \cap X # {} => m \in X
  BY <1>1, DownstreamClosed
<1> HIDE DEF X
<1>6. ASSUME NEW m \in X
      PROVE  UserInputs(operands, m) = UserInputs(operands', m)
  <2> DEFINE At(ins, k) == {i \in DOMAIN ins[k] : Producer(ins[k][i]) = m}
  <2>1. At(operands', n) = At(operands, n)
    BY <1>1, <1>3, <1>4
  <2>2. \A k \in Nodes : At(operands', k) = At(operands, k)
    BY <1>1, <2>1
  <2> QED BY <2>2 DEF UserInputs
<1>7. \A l \in X : \A m \in Nodes : l \in Producers(operands, m) => m \in X
  BY <1>5
<1>8. \A m \in X : p[m] = q[m]
  <2>1. SameUsers(operands, operands', X)
    BY <1>5, <1>6, <1>7 DEF SameUsers
  <2> QED BY <1>2, <2>1, PathsAgree
<1> QED BY <1>5, <1>8

LEMMA AddInputLess ==
  ASSUME IInv, NoCirclesInv, IInv', NoCirclesInv', AddInput
  PROVE  StepsLeft' < StepsLeft
<1>0. PICK n, o : n = Head(work).node /\ o = Head(work).origin
  OBVIOUS
<1> DEFINE t == Tail(work)
           c1 == Recomputing(n)
<1>1. /\ n \in Nodes /\ work # << >> /\ t \in Seq(Calls)
      /\ Head(work).op = "add_input"
      /\ \A c \in ToSet(t) : c.op \in {"add_input", "node_create"} /\ c.node = n
      /\ c1 \in Calls /\ (work' = t \/ work' = << c1 >> \o t)
  BY <1>0, AddInputGraph
<1>2. nodes' = nodes
  BY DEF AddInput
<1>3. Measurable(work, operands, nodes) /\ Measurable(work', operands', nodes)
  BY <1>2, Measured, MeasuredAfter
<1>4. PICK p : PathsAre(p, operands) /\ StepsLeft = Total(Costs(p, nodes, work))
  BY <1>3, MeasuredIs, StepsLeftIs
<1>5. PICK q : PathsAre(q, operands') /\ StepsLeft' = Total(Costs(q, nodes, work'))
  <2>1. \E q : PathsAre(q, operands') /\ Steps(work', operands', nodes) = Total(Costs(q, nodes, work'))
    BY <1>3, MeasuredIs
  <2>2. StepsLeft' = Steps(work', operands', nodes)
    BY <1>2, StepsLeftAfter
  <2> QED BY <2>1, <2>2
<1>6. p \in [Nodes -> Nat] /\ q \in [Nodes -> Nat]
  BY <1>4, <1>5 DEF PathsAre
<1>7. p[n] = q[n] /\ p[n] \in Nat
  BY <1>0, <1>1, <1>4, <1>5, <1>6, AddInputPaths
<1>8. Costs(p, nodes, t) = Costs(q, nodes, t)
  <2>1. \A k \in DOMAIN t : t[k] \in ToSet(t)
    BY DEF ToSet
  <2>2. \A k \in DOMAIN t : Cost(p, nodes, t[k]) = Cost(q, nodes, t[k])
    BY <1>1, <1>7, <2>1 DEF Cost
  <2> QED BY <2>2 DEF Costs
<1> DEFINE r == Total(Costs(p, nodes, t))
<1>9. r \in Nat /\ StepsLeft = Cost(p, nodes, Head(work)) + r
  BY <1>1, <1>3, <1>4, <1>6, CostsHead
<1>10. Cost(p, nodes, Head(work)) = 1 + p[n]
  BY <1>0, <1>1 DEF Cost
<1>11. CASE work' = t
  <2>1. StepsLeft' = r
    BY <1>5, <1>8, <1>11
  <2> HIDE DEF r
  <2> QED BY <1>7, <1>9, <1>10, <2>1
<1>12. CASE work' = << c1 >> \o t
  <2> HIDE DEF c1, t
  <2>1. work' # << >> /\ Head(work') = c1 /\ Tail(work') = t
    BY <1>1, <1>12
  <2>2. Total(Costs(q, nodes, work')) = Cost(q, nodes, c1) + Total(Costs(q, nodes, t))
    BY <1>3, <1>6, <2>1, CostsHead
  <2>3. Cost(q, nodes, c1) = q[n]
    BY DEF Cost, c1, Recomputing, Call
  <2>4. StepsLeft' = p[n] + r
    BY <1>5, <1>7, <1>8, <2>2, <2>3
  <2> HIDE DEF r
  <2> QED BY <1>7, <1>9, <1>10, <2>4
<1> QED BY <1>1, <1>11, <1>12

LEMMA PruneNodeLess ==
  ASSUME IInv, NoCirclesInv, IInv', NoCirclesInv', NEW n \in Nodes, PruneNode(n)
  PROVE  StepsLeft' < StepsLeft
<1> DEFINE h == Head(work)
           Left(N) == Steps(work, operands, N)
<1>1. n \in nodes /\ nodes' = nodes \ {n} /\ work' = work /\ Calling("prune")
  BY DEF IInv, BottomExact, PruneNode, Destroy, One
<1>2. work = << h >> /\ h \in Calls /\ h.op = "prune"
  BY <1>1, PruneAlone
<1>3. work # << >> /\ Tail(work) = << >>
  <2> HIDE DEF h
  <2> QED BY <1>2
<1>4. Measurable(work, operands, nodes) /\ Measurable(work, operands', nodes')
  BY <1>1, Measured, MeasuredAfter
<1>5. ASSUME NEW ins, NEW N, Measurable(work, ins, N)
      PROVE  Steps(work, ins, N) = 1 + Cardinality(N)
  <2>1. PICK p : PathsAre(p, ins) /\ Steps(work, ins, N) = Total(Costs(p, N, work))
    BY <1>5, MeasuredIs
  <2>2. p \in [Nodes -> Nat]
    BY <2>1 DEF PathsAre
  <2> DEFINE g == Costs(p, N, work)
  <2>3. DOMAIN work = {1} /\ work[1] = h
    <3> HIDE DEF h
    <3> QED BY <1>2
  <2>4. Cost(p, N, h) = 1 + Cardinality(N) /\ Cardinality(N) \in Nat
    BY <1>2, <1>5, FS_CardinalityType DEF Cost, Measurable
  <2> HIDE DEF h
  <2>5. g \in [{1} -> Nat] /\ g[1] = 1 + Cardinality(N)
    BY <2>3, <2>4 DEF Costs
  <2> HIDE DEF g
  <2>6. Total(g) = g[1]
    BY <2>5, TotalOfOne
  <2> QED BY <2>1, <2>5, <2>6 DEF g
<1>6. StepsLeft = 1 + Cardinality(nodes) /\ StepsLeft' = 1 + Cardinality(nodes')
  BY <1>1, <1>4, <1>5, StepsLeftIs, StepsLeftAfter
<1>7. Cardinality(nodes) \in Nat /\ Cardinality(nodes') = Cardinality(nodes) - 1
  BY <1>1, <1>4, FS_CardinalityType, FS_RemoveElement DEF Measurable
<1> QED BY <1>6, <1>7

\* Every call returns: while calls are pending, each step leaves fewer to be
\* made, so that neither the recursion of node::recompute_depth nor the loop of
\* region::prune goes on for ever, in a graph of any size.
THEOREM EveryCallReturns == Spec => CallsReturn
<1>1. ASSUME IInv, NoCirclesInv, IInv', NoCirclesInv', [Next]_region
      PROVE  [~Idle => StepsLeft' < StepsLeft]_region
  <2> SUFFICES ASSUME Next, ~Idle PROVE StepsLeft' < StepsLeft
    BY <1>1
  <2>1. ~Pass
    BY DEF Pass, CreateSimple, CreateStructural, Construct, RemoveNode, AppendInput,
         DivertInput, RemoveInput, AppendResult, RemoveResult, DivertResult, Prune
  <2>2. Step
    BY <2>1 DEF Next
  <2>3. CASE AddInput
    BY <1>1, <2>3, AddInputLess
  <2>4. CASE RecomputeSame \/ PushTop \/ Notify \/ PruneDone
    BY <1>1, <2>4, ReturningLess DEF RecomputeSame, PushTop, Notify, PruneDone, Calling
  <2>5. CASE RecomputeChanged
    BY <1>1, <2>5, RecomputeChangedLess
  <2>6. ASSUME NEW n \in Nodes, PruneNode(n)
        PROVE  StepsLeft' < StepsLeft
    BY <1>1, <2>6, PruneNodeLess
  <2> QED BY <2>2, <2>3, <2>4, <2>5, <2>6 DEF Step
<1> QED BY <1>1, Invariant, NeverCircles, PTL DEF Spec, CallsReturn
=============================================================================

------------------------ MODULE RvsdgTraverserProofs ------------------------
(***************************************************************************)
(* Proofs about RvsdgTraverser, for regions of any size.  The traverser    *)
(* only sees its region through notifications; that its tracker and its    *)
(* frontier keep up with it rests on the invariant of the region (the      *)
(* depths, the lists, what is left to be done), proved in                  *)
(* RvsdgRegionProofs.                                                      *)
(***************************************************************************)
EXTENDS RvsdgTraverser, RvsdgRegionProofs

-----------------------------------------------------------------------------
(* The tracker. *)

\* What tracker_depth_state t should be when its nodes are M, at the depths dep.
Exact(t, M, dep) ==
  /\ t = [at |-> t.at, count |-> t.count, top |-> t.top, bottom |-> t.bottom]
  /\ t.at = {<< dep[n], n >> : n \in M}
  /\ t.count = Cardinality(M)
  /\ M # {} => t.top = Min({dep[n] : n \in M}) /\ t.bottom = Max({dep[n] : n \in M})

LEMMA ExactDepths ==
  ASSUME NEW t, NEW M, NEW dep, NEW eep, Exact(t, M, dep), \A n \in M : eep[n] = dep[n]
  PROVE  Exact(t, M, eep)
<1>1. /\ {eep[n] : n \in M} = {dep[n] : n \in M}
      /\ {<< eep[n], n >> : n \in M} = {<< dep[n], n >> : n \in M}
  OBVIOUS
<1> QED BY <1>1 DEF Exact

LEMMA ExactEmpty ==
  ASSUME NEW dep
  PROVE  Exact(NoNodes, {}, dep)
BY FS_EmptySet DEF Exact, NoNodes

LEMMA AddAllExact ==
  ASSUME NEW t, NEW M \in SUBSET Nodes, NEW A \in SUBSET Nodes, M \cap A = {},
         NEW dep \in [Nodes -> Nat], Exact(t, M, dep)
  PROVE  Exact(AddAll(t, A, dep), M \cup A, dep)
<1> DEFINE D == {dep[n] : n \in M}
           E == {dep[n] : n \in A}
           F == {dep[n] : n \in M \cup A}
           G == E \cup (IF t.count = 0 THEN {} ELSE {t.top, t.bottom})
<1>0. CASE A = {}
  BY <1>0 DEF AddAll
<1>1. CASE A # {}
  <2>1. AddAll(t, A, dep) = [at |-> t.at \cup {<< dep[n], n >> : n \in A},
                             count |-> t.count + Cardinality(A),
                             top |-> Min(G), bottom |-> Max(G)]
    BY <1>1 DEF AddAll
  <2>2. IsFiniteSet(M) /\ IsFiniteSet(A) /\ IsFiniteSet(D) /\ D \subseteq Nat
        /\ IsFiniteSet(F) /\ F \subseteq Nat /\ F # {}
    BY <1>1, DepthsFinite
  <2>3. Cardinality(M \cup A) = Cardinality(M) + Cardinality(A)
    <3>1. /\ Cardinality(M \cup A) = Cardinality(M) + Cardinality(A) - Cardinality(M \cap A)
          /\ Cardinality(M) \in Nat /\ Cardinality(A) \in Nat
      BY <2>2, FS_Union, FS_CardinalityType
    <3>2. Cardinality(M \cap A) = 0
      BY FS_EmptySet
    <3> QED BY <3>1, <3>2
  <2>4. t.count = 0 <=> M = {}
    BY <2>2, FS_EmptySet DEF Exact
  <2>5. M # {} => /\ t.top = Min(D) /\ Min(D) \in D /\ \A x \in D : Min(D) <= x
                  /\ t.bottom = Max(D) /\ Max(D) \in D /\ \A x \in D : x <= Max(D)
    <3> SUFFICES ASSUME M # {}
                 PROVE  /\ t.top = Min(D) /\ Min(D) \in D /\ \A x \in D : Min(D) <= x
                        /\ t.bottom = Max(D) /\ Max(D) \in D /\ \A x \in D : x <= Max(D)
      OBVIOUS
    <3>1. t.top = Min(D) /\ t.bottom = Max(D) /\ D # {}
      BY DEF Exact
    <3> HIDE DEF D
    <3> QED BY <3>1, <2>2, Extremes
  <2>6. F = D \cup E /\ (M = {} <=> D = {})
    OBVIOUS
  <2>7. /\ Min(F) \in F /\ \A x \in F : Min(F) <= x
        /\ Max(F) \in F /\ \A x \in F : x <= Max(F)
    BY <2>2, Extremes
  <2>8. Min(G) = Min(F) /\ Max(G) = Max(F)
    <3> HIDE DEF D, E, F
    <3>1. CASE M = {}
      BY <3>1, <2>4, <2>6
    <3>2. CASE M # {}
      <4>1. G = E \cup {Min(D), Max(D)} /\ G \subseteq F
        BY <3>2, <2>4, <2>5, <2>6
      <4>2. Min(F) \in G /\ Max(F) \in G
        BY <3>2, <4>1, <2>2, <2>5, <2>6, <2>7
      <4> HIDE DEF G
      <4> QED BY <4>1, <4>2, <2>2, <2>7, MinIs, MaxIs
    <3> QED BY <3>1, <3>2
  <2>9. t.at \cup {<< dep[n], n >> : n \in A} = {<< dep[n], n >> : n \in M \cup A}
    BY DEF Exact
  <2> HIDE DEF F, G
  <2> QED BY <2>1, <2>3, <2>8, <2>9 DEF Exact, F
<1> QED BY <1>0, <1>1

LEMMA RemovedExact ==
  ASSUME NEW t, NEW M \in SUBSET Nodes, NEW n \in M,
         NEW dep \in [Nodes -> Nat], Exact(t, M, dep)
  PROVE  Exact(Removed(t, n, dep[n]), M \ {n}, dep)
<1> DEFINE L == M \ {n}
           D == {dep[m] : m \in M}
           E == {dep[m] : m \in L}
           d == dep[n]
           left == t.at \ {<< d, n >>}
           depths == {e[1] : e \in left}
           r == Removed(t, n, d)
<1>1. IsFiniteSet(M) /\ IsFiniteSet(L) /\ IsFiniteSet(D) /\ D \subseteq Nat
      /\ IsFiniteSet(E) /\ E \subseteq Nat /\ d \in Nat
  BY DepthsFinite
<1>2. left = {<< dep[m], m >> : m \in L}
  BY DEF Exact
<1>3. depths = E
  <2>1. ASSUME NEW e \in left
        PROVE  e[1] \in E
    <3>1. PICK m \in L : e = << dep[m], m >>
      BY <1>2, Zenon
    <3> QED BY <3>1
  <2>2. ASSUME NEW m \in L
        PROVE  dep[m] \in depths
    <3>1. << dep[m], m >> \in left /\ << dep[m], m >>[1] = dep[m]
      BY <1>2
    <3> HIDE DEF left
    <3> QED BY <3>1
  <2> HIDE DEF L, left
  <2> QED BY <2>1, <2>2
<1>4. Cardinality(L) = t.count - 1 /\ (t.count = 1 <=> L = {})
  <2>1. Cardinality(L) = Cardinality(M) - 1 /\ t.count = Cardinality(M)
    BY <1>1, FS_RemoveElement DEF Exact
  <2>2. Cardinality(L) = 0 <=> L = {}
    BY <1>1, FS_EmptySet
  <2>3. Cardinality(M) \in Nat
    BY <1>1, FS_CardinalityType
  <2> HIDE DEF L
  <2> QED BY <2>1, <2>2, <2>3
<1>5. r = [at |-> left, count |-> t.count - 1,
           top |-> IF t.count = 1 \/ d # t.top THEN t.top ELSE Min({k \in E : k >= t.top}),
           bottom |-> IF t.count = 1 \/ d # t.bottom THEN t.bottom
                      ELSE Max({k \in E : k <= t.bottom})]
  BY <1>3, Zenon DEF Removed
<1>6. ASSUME L # {}
      PROVE  r.top = Min(E) /\ r.bottom = Max(E)
  <2>1. /\ t.top = Min(D) /\ Min(D) \in D /\ \A x \in D : Min(D) <= x
        /\ t.bottom = Max(D) /\ Max(D) \in D /\ \A x \in D : x <= Max(D)
    <3>1. t.top = Min(D) /\ t.bottom = Max(D) /\ D # {}
      BY DEF Exact
    <3> HIDE DEF D
    <3> QED BY <3>1, <1>1, Extremes
  <2>2. E # {} /\ D = E \cup {d} /\ E \subseteq D
    BY <1>6
  <2>3. /\ Min(E) \in E /\ \A x \in E : Min(E) <= x
        /\ Max(E) \in E /\ \A x \in E : x <= Max(E)
    BY <1>1, <2>2, Extremes
  <2> HIDE DEF D, E, d, left, depths, r, L
  <2>4. {k \in E : k >= t.top} = E /\ {k \in E : k <= t.bottom} = E
    BY <1>1, <2>1, <2>2
  <2>5. d # t.top => t.top = Min(E)
    <3>1. d # t.top => t.top \in E
      BY <2>1, <2>2
    <3> QED BY <3>1, <2>1, <2>2, <1>1, MinIs
  <2>6. d # t.bottom => t.bottom = Max(E)
    <3>1. d # t.bottom => t.bottom \in E
      BY <2>1, <2>2
    <3> QED BY <3>1, <2>1, <2>2, <1>1, MaxIs
  <2>7. t.count # 1
    BY <1>4, <1>6
  <2> QED BY <1>5, <2>4, <2>5, <2>6, <2>7
<1> HIDE DEF left, E, r, L
<1>7. r = [at |-> r.at, count |-> r.count, top |-> r.top, bottom |-> r.bottom]
      /\ r.at = left /\ r.count = t.count - 1
  BY <1>5
<1> QED BY <1>2, <1>4, <1>6, <1>7 DEF Exact, r, L, E

-----------------------------------------------------------------------------
(* The inductive invariant. *)

States == {"ahead", "frontier", "behind"}
Listed == {"frontier", "behind"}

\* Tracker tr holds the nodes under the states ns they are in, at the depths dep.
Filed(ns, tr, dep) ==
  /\ ns \in [Nodes -> States]
  /\ tr = [s \in Listed |-> tr[s]]
  /\ \A s \in Listed : Exact(tr[s], {n \in Nodes : ns[n] = s}, dep)

\* What is left to be done tells a traverser of one thing at most, and last: of
\* a new node, whose inputs are added before, or of a diverted input, of which
\* the old origin belongs to one of the nodes N.
Shape(w, N) ==
  /\ \A k \in DOMAIN w : w[k].op \in {"node_create", "input_change"} => k = Len(w)
  /\ \A c, b \in ToSet(w) : c.op = "node_create" =>
       /\ b.op \in {"add_input", "recompute_depth", "node_create"}
       /\ b.op = "add_input" => b.node = c.node
  /\ \A c, b \in ToSet(w) : c.op = "input_change" =>
       /\ b.op \in {"recompute_depth", "input_change"}
       /\ Producer(c.origin) \in N \cup {Region}

\* Node n is still to be announced; an input of n was diverted, or one that came
\* from n, and the traverser is still to be told.
Announcing(n)   == \E c \in ToSet(work) : c.op = "node_create" /\ c.node = n
Diverted(n)     == \E c \in ToSet(work) : c.op = "input_change" /\ c.node = n
DivertedFrom(n) == \E c \in ToSet(work) : c.op = "input_change" /\ Producer(c.origin) = n

\* A node that is still to be announced has no users and is in no state.
Fresh ==
  \A n \in Nodes : Announcing(n) => ~ HasSuccessors(operands, n) /\ nodestate[n] = "ahead"

\* The tracker is exact, for the nodes that the traverser has put in it.
Tracking ==
  /\ traverser \in Kinds \cup {"none"}
  /\ Filed(nodestate, tracked, depth)
  /\ \A n \in Nodes \ nodes : nodestate[n] = "ahead"
  /\ traverser = "none" => \A n \in Nodes : nodestate[n] = "ahead"

\* A node stays ahead for a reason that the traverser will meet: one of its
\* producers (topdown) or users (bottom-up) is still to be visited.
AheadTopdown ==
  traverser = "topdown" =>
    \A n \in nodes : nodestate[n] = "ahead" =>
      \/ Announcing(n) \/ Diverted(n)
      \/ \E p \in Producers(operands, n) : nodestate[p] # "behind"
AheadBottomUp ==
  BottomUp =>
    \A n \in nodes : nodestate[n] = "ahead" =>
      \/ Announcing(n) \/ DivertedFrom(n)
      \/ \E m \in Nodes : /\ n \in Producers(operands, m)
                          /\ nodestate[m] # "behind" /\ ~ Announcing(m)

TInv == Shape(work, nodes) /\ Fresh /\ Tracking /\ AheadTopdown /\ AheadBottomUp

-----------------------------------------------------------------------------
(* What is left to be done. *)

Told == {"node_create", "input_change"}

\* No traverser is waiting to be told of anything between the calls of a pass.
LEMMA NothingTold ==
  ASSUME Idle
  PROVE  \A n : ~ Announcing(n) /\ ~ Diverted(n) /\ ~ DivertedFrom(n)
BY DEF Idle, ToSet, Announcing, Diverted, DivertedFrom

LEMMA ShapeOfNothing ==
  ASSUME NEW N
  PROVE  Shape(<< >>, N)
BY DEF Shape, ToSet

LEMMA ShapeOfOne ==
  ASSUME NEW c, c.op \notin Told, NEW N
  PROVE  Shape(<< c >>, N)
<1>1. ToSet(<< c >>) = {c}
  BY OneElement
<1> QED BY <1>1 DEF Shape, Told

LEMMA ShapeTail ==
  ASSUME NEW w \in Seq(Calls), w # << >>, NEW N, Shape(w, N)
  PROVE  Shape(Tail(w), N) /\ (Head(w).op \in Told => Tail(w) = << >>)
<1> DEFINE t == Tail(w)
<1>1. t \in Seq(Calls) /\ Len(t) = Len(w) - 1 /\ \A k \in DOMAIN t : t[k] = w[k + 1]
  OBVIOUS
<1>2. ToSet(t) \subseteq ToSet(w)
  BY TailElements
<1>3. \A k \in DOMAIN t : t[k].op \in Told => k = Len(t)
  BY <1>1 DEF Shape, Told
<1>4. ASSUME Head(w).op \in Told
      PROVE  Tail(w) = << >>
  <2>1. 1 \in DOMAIN w /\ Head(w) = w[1]
    OBVIOUS
  <2>2. Len(w) = 1
    BY <2>1, <1>4 DEF Shape, Told
  <2> QED BY <2>2, TailOfOne
<1> QED BY <1>2, <1>3, <1>4 DEF Shape, Told

LEMMA ShapePrefix ==
  ASSUME NEW t \in Seq(Calls), NEW N, Shape(t, N), NEW q \in Seq(Calls),
         \A c \in ToSet(q) : c.op = "recompute_depth"
  PROVE  Shape(q \o t, N)
<1> DEFINE w == q \o t
<1>1. /\ w \in Seq(Calls) /\ Len(w) = Len(q) + Len(t)
      /\ \A k \in 1 .. Len(w) : w[k] = IF k <= Len(q) THEN q[k] ELSE t[k - Len(q)]
  OBVIOUS
<1>2. ToSet(w) = ToSet(q) \cup ToSet(t)
  BY ConcatElements
<1>3. ASSUME NEW k \in DOMAIN w, w[k].op \in Told
      PROVE  k = Len(w)
  <2>1. CASE k <= Len(q)
    <3>1. w[k] = q[k] /\ k \in DOMAIN q
      BY <1>1, <1>3, <2>1
    <3>2. w[k].op = "recompute_depth"
      BY <3>1 DEF ToSet
    <3> QED BY <3>2, <1>3 DEF Told
  <2>2. CASE ~ (k <= Len(q))
    <3>1. w[k] = t[k - Len(q)] /\ k - Len(q) \in DOMAIN t
      BY <1>1, <1>3, <2>2
    <3>2. k - Len(q) = Len(t)
      BY <3>1, <1>3 DEF Shape, Told
    <3> QED BY <3>2, <1>1, <1>3
  <2> QED BY <2>1, <2>2
<1> HIDE DEF w
<1> QED BY <1>2, <1>3 DEF Shape, Told, w

\* A step that does the next thing, and leaves depths to be recomputed first.
LEMMA WorkStep ==
  ASSUME TypeOK, Shape(work, nodes), work # << >>, NEW q \in Seq(Calls),
         \A c \in ToSet(q) : c.op = "recompute_depth",
         work' = q \o Tail(work), UNCHANGED nodes
  PROVE  /\ Shape(work, nodes)'
         /\ Head(work).op \in Told => Tail(work) = << >>
         /\ Head(work).op \notin Told =>
              \A n : /\ Announcing(n)' <=> Announcing(n)
                     /\ Diverted(n)' <=> Diverted(n)
                     /\ DivertedFrom(n)' <=> DivertedFrom(n)
<1>1. work \in Seq(Calls) /\ Tail(work) \in Seq(Calls)
  BY TailElements DEF TypeOK
<1>2. Shape(Tail(work), nodes) /\ (Head(work).op \in Told => Tail(work) = << >>)
  BY <1>1, ShapeTail
<1>3. Shape(work', nodes)
  BY <1>1, <1>2, ShapePrefix
<1>4. ToSet(work') = ToSet(q) \cup ToSet(Tail(work))
      /\ ToSet(work) = {Head(work)} \cup ToSet(Tail(work))
  <2>1. ToSet(q \o Tail(work)) = ToSet(q) \cup ToSet(Tail(work))
    BY <1>1, ConcatElements
  <2>2. ToSet(work) = {Head(work)} \cup ToSet(Tail(work))
    BY <1>1, TailElements
  <2> QED BY <2>1, <2>2
<1>5. ASSUME Head(work).op \notin Told
      PROVE  \A c : c.op \in Told => (c \in ToSet(work') <=> c \in ToSet(work))
  BY <1>4, <1>5 DEF Told
<1> QED BY <1>2, <1>3, <1>5 DEF Announcing, Diverted, DivertedFrom, Told

\* The same when nothing is left to be done before.
LEMMA WorkReturns ==
  ASSUME TypeOK, Shape(work, nodes), work # << >>, Returning, UNCHANGED nodes
  PROVE  /\ Shape(work, nodes)'
         /\ Head(work).op \in Told => Tail(work) = << >>
         /\ Head(work).op \notin Told =>
              \A n : /\ Announcing(n)' <=> Announcing(n)
                     /\ Diverted(n)' <=> Diverted(n)
                     /\ DivertedFrom(n)' <=> DivertedFrom(n)
<1> DEFINE q == << >>
<1>1. q \in Seq(Calls) /\ ToSet(q) = {}
  BY NoElement
<1>2. work' = q \o Tail(work)
  <2>1. Tail(work) \in Seq(Calls)
    BY TailElements DEF TypeOK
  <2> QED BY <2>1 DEF Returning
<1> HIDE DEF q
<1> QED BY <1>1, <1>2, WorkStep

-----------------------------------------------------------------------------
(* Steps that leave the traversal and the edges alone. *)

LEMMA CalmInv ==
  ASSUME TInv, Shape(work, nodes)', UNCHANGED << nodes, operands, depth, traversal >>,
         \A n : /\ Announcing(n)' <=> Announcing(n)
                /\ Diverted(n)' <=> Diverted(n)
                /\ DivertedFrom(n)' <=> DivertedFrom(n)
  PROVE  TInv'
<1> USE DEF traversal
<1>1. Fresh'
  BY DEF TInv, Fresh
<1>2. Tracking'
  BY DEF TInv, Tracking
<1>3. AheadTopdown'
  BY DEF TInv, AheadTopdown
<1>4. AheadBottomUp'
  BY DEF TInv, AheadBottomUp, BottomUp
<1> QED BY <1>1, <1>2, <1>3, <1>4 DEF TInv

\* Between two calls, a call whose only effect is to leave something to be done.
LEMMA CalmCallInv ==
  ASSUME TInv, Idle, UNCHANGED << nodes, operands, depth, traversal >>,
         work' = << >> \/ \E c : c.op \notin Told /\ work' = << c >>
  PROVE  TInv'
<1>1. Shape(work, nodes)'
  BY ShapeOfNothing, ShapeOfOne
<1>2. \A c \in ToSet(work') : c.op \notin Told
  <2>1. CASE work' = << >>
    BY <2>1 DEF ToSet
  <2>2. ASSUME NEW c, c.op \notin Told, work' = << c >>
        PROVE  \A b \in ToSet(work') : b.op \notin Told
    BY <2>2 DEF ToSet
  <2> QED BY <2>1, <2>2
<1>3. \A n : ~ Announcing(n)' /\ ~ Diverted(n)' /\ ~ DivertedFrom(n)'
  BY <1>2 DEF Told, Announcing, Diverted, DivertedFrom
<1> QED BY <1>1, <1>3, NothingTold, CalmInv

\* The traversal goes on as before when the region grows.
LEMMA TrackingQuiet ==
  ASSUME Tracking, nodes \subseteq nodes', UNCHANGED << depth, traversal >>
  PROVE  Tracking'
BY DEF Tracking, traversal

-----------------------------------------------------------------------------
(* Steps of the region that change its nodes or edges. *)

LEMMA ConstructTInv ==
  ASSUME IInv, TInv, NEW n \in Nodes, NEW origins \in Seq(Origins), Construct(n, origins),
         UNCHANGED traversal
  PROVE  TInv'
<1> DEFINE q == [k \in 1 .. Len(origins) |-> Call("add_input", n, origins[k])]
           last == Call("node_create", n, Region)
<1>1. /\ n \notin nodes /\ nodes' = nodes \cup {n} /\ work' = q \o << last >>
      /\ UNCHANGED << operands, depth >> /\ Idle
  BY DEF Construct
<1>2. last.op = "node_create" /\ last.node = n
  BY DEF Call
<1>3. \A k \in 1 .. Len(origins) : q[k].op = "add_input" /\ q[k].node = n
  BY DEF Call
<1> HIDE DEF last
<1>4. /\ Len(work') = Len(origins) + 1 /\ DOMAIN work' = 1 .. Len(work')
      /\ \A k \in DOMAIN work' : work'[k] = IF k <= Len(origins) THEN q[k] ELSE last
  BY <1>1
<1> HIDE DEF q
<1>5. Len(origins) \in Nat
  OBVIOUS
<1>6. \A c \in ToSet(work') : /\ c.node = n /\ c.op \in {"add_input", "node_create"}
                              /\ c.op = "node_create" => c = last
  BY <1>2, <1>3, <1>4, <1>5 DEF ToSet
<1>7. \A k \in DOMAIN work' : work'[k].op \in Told => k = Len(work')
  BY <1>3, <1>4, <1>5 DEF Told
<1>8. Shape(work, nodes)'
  BY <1>6, <1>7 DEF Shape, Told
<1>9. \A m : (Announcing(m)' => m = n) /\ ~ Diverted(m)' /\ ~ DivertedFrom(m)'
  BY <1>6 DEF Announcing, Diverted, DivertedFrom
<1>10. Announcing(n)'
  <2>1. Len(work') \in DOMAIN work' /\ work'[Len(work')] = last
    BY <1>4, <1>5
  <2>2. last \in ToSet(work')
    BY <2>1 DEF ToSet
  <2> QED BY <2>2, <1>2 DEF Announcing
<1>11. \A m \in Nodes : n \notin Producers(operands, m)
  BY <1>1 DEF IInv, NoDangling
<1>12. Producers(operands, n) = {}
  BY <1>1, EmptyProducers DEF IInv, Freed
<1>13. Fresh'
  BY <1>1, <1>9, <1>11 DEF TInv, Tracking, Fresh, HasSuccessors, traversal
<1>14. Tracking'
  BY <1>1, TrackingQuiet DEF TInv
<1>15. AheadTopdown'
  <2> SUFFICES ASSUME traverser = "topdown", NEW m \in nodes, nodestate[m] = "ahead"
               PROVE  \E p \in Producers(operands, m) : nodestate[p] # "behind"
    BY <1>1, <1>10 DEF AheadTopdown, traversal
  <2> QED BY <1>1, NothingTold DEF TInv, AheadTopdown
<1>16. AheadBottomUp'
  <2> SUFFICES ASSUME BottomUp, NEW m \in nodes, nodestate[m] = "ahead"
               PROVE  \E l \in Nodes : /\ m \in Producers(operands, l)
                                       /\ nodestate[l] # "behind" /\ ~ Announcing(l)'
    BY <1>1, <1>10 DEF AheadBottomUp, BottomUp, traversal
  <2>1. PICK l \in Nodes : m \in Producers(operands, l) /\ nodestate[l] # "behind"
    BY <1>1, NothingTold DEF TInv, AheadBottomUp
  <2>2. l # n
    BY <2>1, <1>12
  <2> QED BY <2>1, <2>2, <1>9
<1> QED BY <1>8, <1>13, <1>14, <1>15, <1>16 DEF TInv

LEMMA AddInputTInv ==
  ASSUME IInv, TInv, AddInput, UNCHANGED traversal
  PROVE  TInv'
<1> DEFINE n == Head(work).node
           o == Head(work).origin
<1>1. /\ work # << >> /\ Head(work).op = "add_input"
      /\ operands' = [operands EXCEPT ![n] = Append(@, o)]
      /\ work' = << Recomputing(n) >> \o Tail(work) \/ Returning
      /\ UNCHANGED << nodes, depth >>
  BY DEF AddInput, Calling, Returning
<1>2. /\ n \in nodes /\ n \in Nodes /\ o \in Origins /\ Producer(o) # n
      /\ Head(work) \in ToSet(work)
  BY <1>1, WorkTail DEF IInv, WorkOK, TypeOK
<1>3. /\ Shape(work, nodes)'
      /\ \A m : /\ Announcing(m)' <=> Announcing(m)
                /\ Diverted(m)' <=> Diverted(m)
                /\ DivertedFrom(m)' <=> DivertedFrom(m)
  <2>1. Head(work).op \notin Told
    BY <1>1 DEF Told
  <2>2. CASE Returning
    BY <2>1, <2>2, <1>1, WorkReturns DEF IInv, TInv
  <2>3. CASE work' = << Recomputing(n) >> \o Tail(work)
    <3> DEFINE q == << Recomputing(n) >>
    <3>1. q \in Seq(Calls) /\ \A c \in ToSet(q) : c.op = "recompute_depth"
      <4>1. Recomputing(n) \in Calls /\ Recomputing(n).op = "recompute_depth"
        BY <1>2 DEF Recomputing, Call, Calls
      <4> HIDE DEF n
      <4> QED BY <4>1, OneElement
    <3> HIDE DEF q
    <3>2. work' = q \o Tail(work)
      BY <2>3 DEF q
    <3> QED BY <2>1, <3>1, <3>2, <1>1, WorkStep DEF IInv, TInv
  <2> QED BY <2>2, <2>3, <1>1
<1>4. /\ Producers(operands', n) = Producers(operands, n) \cup ({Producer(o)} \ {Region})
      /\ \A m \in Nodes : m # n => Producers(operands', m) = Producers(operands, m)
  <2>1. operands[n] \in Seq(Origins)
    BY <1>2 DEF IInv, TypeOK
  <2>2. ToSet(operands'[n]) = ToSet(operands[n]) \cup {o}
    BY <1>1, <1>2, <2>1, AppendElements DEF IInv, TypeOK
  <2>3. \A m \in Nodes : m # n => operands'[m] = operands[m]
    BY <1>1 DEF IInv, TypeOK
  <2> HIDE DEF n, o
  <2>4. /\ Producers(operands', n) = Producers(operands, n) \cup ({Producer(o)} \ {Region})
        /\ \A m \in Nodes : m # n => Producers(operands', m) = Producers(operands, m)
    BY <2>2, <2>3 DEF Producers
  <2> QED BY <2>4
<1> HIDE DEF n, o
<1>5. Fresh'
  <2> SUFFICES ASSUME NEW m \in Nodes, Announcing(m)'
               PROVE  nodestate[m] = "ahead" /\ \A l \in Nodes : m \notin Producers(operands', l)
    BY DEF Fresh, HasSuccessors, traversal
  <2>1. Announcing(m) /\ nodestate[m] = "ahead" /\ \A l \in Nodes : m \notin Producers(operands, l)
    BY <1>3 DEF TInv, Fresh, HasSuccessors
  <2>2. m = n
    BY <2>1, <1>1, <1>2 DEF TInv, Shape, Announcing, n
  <2> QED BY <2>1, <2>2, <1>2, <1>4
<1>6. Tracking'
  BY <1>1, TrackingQuiet DEF TInv
<1>7. AheadTopdown'
  BY <1>1, <1>2, <1>3, <1>4 DEF TInv, AheadTopdown, traversal, IInv, TypeOK
<1>8. AheadBottomUp'
  <2> SUFFICES ASSUME BottomUp, NEW m \in nodes, nodestate[m] = "ahead",
                      ~ Announcing(m), ~ DivertedFrom(m)
               PROVE  \E l \in Nodes : /\ m \in Producers(operands', l)
                                       /\ nodestate[l] # "behind" /\ ~ Announcing(l)
    BY <1>1, <1>3 DEF AheadBottomUp, BottomUp, traversal
  <2> QED BY <1>2, <1>4 DEF TInv, AheadBottomUp
<1> QED BY <1>3, <1>5, <1>6, <1>7, <1>8 DEF TInv

LEMMA DivertInputTInv ==
  ASSUME IInv, TInv, NEW n \in Nodes, NEW i, NEW o \in Origins, DivertInput(n, i, o),
         UNCHANGED traversal
  PROVE  TInv'
<1> DEFINE old == operands[n][i]
           c1 == Recomputing(n)
           c2 == Call("input_change", n, old)
<1>1. /\ i \in DOMAIN operands[n] /\ Idle
      /\ operands' = [operands EXCEPT ![n][i] = o]
      /\ work' = << c1, c2 >>
      /\ UNCHANGED << nodes, depth >>
  BY DEF DivertInput
<1>2. operands[n] \in Seq(Origins) /\ old \in Origins /\ n \in nodes
  BY <1>1, InputExists DEF IInv, TypeOK
<1>3. Producer(old) \in nodes \cup {Region}
  <2>1. old \in ToSet(operands[n])
    BY <1>1 DEF ToSet
  <2> QED BY <2>1 DEF IInv, NoDangling, Producers
<1>4. /\ ToSet(work') = {c1, c2} /\ DOMAIN work' = 1 .. 2 /\ Len(work') = 2
      /\ work'[1] = c1 /\ work'[2] = c2
  BY <1>1 DEF ToSet
<1>5. /\ c1.op = "recompute_depth"
      /\ c2.op = "input_change" /\ c2.node = n /\ c2.origin = old
  BY DEF Recomputing, Call
<1> HIDE DEF c1, c2
<1>6. Shape(work, nodes)'
  BY <1>1, <1>3, <1>4, <1>5 DEF Shape, Told
<1>7. Diverted(n)' /\ (\A p : p = Producer(old) => DivertedFrom(p)') /\ \A m : ~ Announcing(m)'
  BY <1>4, <1>5 DEF Announcing, Diverted, DivertedFrom
<1>8. \A m \in Nodes : m # n => Producers(operands', m) = Producers(operands, m)
  BY <1>1 DEF IInv, TypeOK, Producers
<1>9. Producers(operands, n) \subseteq Producers(operands', n) \cup {Producer(old)}
  <2> SUFFICES ASSUME NEW a \in ToSet(operands[n]), Producer(a) # Producer(old)
               PROVE  a \in ToSet(operands'[n])
    BY DEF Producers
  <2>1. PICK k \in DOMAIN operands[n] : operands[n][k] = a
    BY DEF ToSet
  <2>2. k # i
    BY <2>1
  <2>3. k \in DOMAIN operands'[n] /\ operands'[n][k] = a
    BY <2>1, <2>2, <1>1, <1>2 DEF IInv, TypeOK
  <2> QED BY <2>3 DEF ToSet
<1> HIDE DEF old
<1>10. Fresh'
  BY <1>7 DEF Fresh
<1>11. Tracking'
  BY <1>1, TrackingQuiet DEF TInv
<1>12. AheadTopdown'
  <2> SUFFICES ASSUME traverser = "topdown", NEW m \in nodes, nodestate[m] = "ahead", m # n
               PROVE  \E p \in Producers(operands', m) : nodestate[p] # "behind"
    BY <1>1, <1>7 DEF AheadTopdown, traversal
  <2>1. m \in Nodes
    BY DEF IInv, TypeOK
  <2> QED BY <2>1, <1>1, <1>8, NothingTold DEF TInv, AheadTopdown
<1>13. AheadBottomUp'
  <2> SUFFICES ASSUME BottomUp, NEW m \in nodes, nodestate[m] = "ahead", m # Producer(old)
               PROVE  \E l \in Nodes : m \in Producers(operands', l) /\ nodestate[l] # "behind"
    BY <1>1, <1>7 DEF AheadBottomUp, BottomUp, traversal
  <2>1. PICK l \in Nodes : m \in Producers(operands, l) /\ nodestate[l] # "behind"
    BY <1>1, NothingTold DEF TInv, AheadBottomUp
  <2> QED BY <2>1, <1>8, <1>9
<1> QED BY <1>6, <1>10, <1>11, <1>12, <1>13 DEF TInv

LEMMA RemoveInputTInv ==
  ASSUME IInv, TInv, NEW n \in Nodes, NEW i, Removable(n), RemoveInput(n, i),
         UNCHANGED traversal
  PROVE  TInv'
<1> DEFINE c1 == Recomputing(n)
           c2 == Call("push_top", n, Region)
<1>1. /\ i \in DOMAIN operands[n] /\ Idle
      /\ operands' = [operands EXCEPT ![n] = RemoveAt(@, i)]
      /\ work' = << >> \/ work' = << c1, c2 >> \/ work' = << c1 >>
      /\ UNCHANGED << nodes, depth >>
  BY DEF RemoveInput
<1>2. c1.op \notin Told /\ c2.op \notin Told
  BY DEF Recomputing, Call, Told
<1> HIDE DEF c1, c2
<1>3. \A c \in ToSet(work') : c.op \notin Told
  BY <1>1, <1>2 DEF ToSet
<1>4. \A k \in DOMAIN work' : work'[k] \in ToSet(work')
  BY DEF ToSet
<1>5. Shape(work, nodes)'
  BY <1>3, <1>4 DEF Shape, Told
<1>6. \A m : ~ Announcing(m)' /\ ~ Diverted(m)' /\ ~ DivertedFrom(m)'
  BY <1>3 DEF Told, Announcing, Diverted, DivertedFrom
<1>7. \A m \in Nodes : m # n => Producers(operands', m) = Producers(operands, m)
  BY <1>1 DEF IInv, TypeOK, Producers
<1>8. traverser # "none" => nodestate[n] = "behind"
  BY DEF Removable
<1>9. Fresh'
  BY <1>6 DEF Fresh
<1>10. Tracking'
  BY <1>1, TrackingQuiet DEF TInv
<1>11. AheadTopdown'
  <2> SUFFICES ASSUME traverser = "topdown", NEW m \in nodes, nodestate[m] = "ahead"
               PROVE  \E p \in Producers(operands', m) : nodestate[p] # "behind"
    BY <1>1 DEF AheadTopdown, traversal
  <2>1. m \in Nodes /\ m # n
    BY <1>8 DEF IInv, TypeOK
  <2> QED BY <2>1, <1>1, <1>7, NothingTold DEF TInv, AheadTopdown
<1>12. AheadBottomUp'
  <2> SUFFICES ASSUME BottomUp, NEW m \in nodes, nodestate[m] = "ahead"
               PROVE  \E l \in Nodes : m \in Producers(operands', l) /\ nodestate[l] # "behind"
    BY <1>1, <1>6 DEF AheadBottomUp, BottomUp, traversal
  <2>1. PICK l \in Nodes : m \in Producers(operands, l) /\ nodestate[l] # "behind"
    BY <1>1, NothingTold DEF TInv, AheadBottomUp
  <2>2. l # n
    BY <2>1, <1>8 DEF BottomUp
  <2> QED BY <2>1, <2>2, <1>7
<1> QED BY <1>5, <1>9, <1>10, <1>11, <1>12 DEF TInv

-----------------------------------------------------------------------------
(* The tracker follows the states and the depths of the nodes. *)

LEMMA FileNodes ==
  ASSUME NEW ns, NEW tr, NEW dep \in [Nodes -> Nat], Filed(ns, tr, dep),
         NEW s \in Listed, NEW A \in SUBSET Nodes, \A n \in A : ns[n] = "ahead"
  PROVE  Filed([n \in Nodes |-> IF n \in A THEN s ELSE ns[n]],
               [tr EXCEPT ![s] = AddAll(@, A, dep)], dep)
<1> DEFINE ms == [n \in Nodes |-> IF n \in A THEN s ELSE ns[n]]
           ur == [tr EXCEPT ![s] = AddAll(@, A, dep)]
           M(t) == {n \in Nodes : ns[n] = t}
<1>1. ns \in [Nodes -> States] /\ tr = [t \in Listed |-> tr[t]]
      /\ \A t \in Listed : Exact(tr[t], M(t), dep)
  BY DEF Filed
<1>2. ms \in [Nodes -> States]
  BY <1>1 DEF States, Listed
<1>3. ur = [t \in Listed |-> ur[t]]
      /\ \A t \in Listed : ur[t] = IF t = s THEN AddAll(tr[s], A, dep) ELSE tr[t]
  BY <1>1
<1>4. M(s) \cap A = {} /\ {n \in Nodes : ms[n] = s} = M(s) \cup A
  BY <1>1 DEF Listed
<1>5. Exact(AddAll(tr[s], A, dep), M(s) \cup A, dep)
  <2>1. M(s) \in SUBSET Nodes /\ Exact(tr[s], M(s), dep)
    BY <1>1
  <2> HIDE DEF M
  <2> QED BY <2>1, <1>4, AddAllExact
<1>6. ASSUME NEW t \in Listed, t # s
      PROVE  {n \in Nodes : ms[n] = t} = M(t)
  BY <1>1, <1>6 DEF Listed
<1> HIDE DEF ms, ur, M
<1>7. ASSUME NEW t \in Listed
      PROVE  Exact(ur[t], {n \in Nodes : ms[n] = t}, dep)
  <2>1. CASE t = s
    BY <1>3, <1>4, <1>5, <2>1
  <2>2. CASE t # s
    BY <1>1, <1>3, <1>6, <2>2
  <2> QED BY <2>1, <2>2
<1>8. Filed(ms, ur, dep)
  BY <1>2, <1>3, <1>7 DEF Filed
<1> QED BY <1>8 DEF ms, ur

LEMMA UnfileNode ==
  ASSUME NEW ns, NEW tr, NEW dep \in [Nodes -> Nat], Filed(ns, tr, dep),
         NEW s \in Listed, NEW n \in Nodes, ns[n] = s
  PROVE  Filed([ns EXCEPT ![n] = "ahead"],
               [tr EXCEPT ![s] = Removed(@, n, dep[n])], dep)
<1> DEFINE ms == [ns EXCEPT ![n] = "ahead"]
           ur == [tr EXCEPT ![s] = Removed(@, n, dep[n])]
           M(t) == {m \in Nodes : ns[m] = t}
<1>1. ns \in [Nodes -> States] /\ tr = [t \in Listed |-> tr[t]]
      /\ \A t \in Listed : Exact(tr[t], M(t), dep)
  BY DEF Filed
<1>2. ms \in [Nodes -> States] /\ \A m \in Nodes : ms[m] = IF m = n THEN "ahead" ELSE ns[m]
  BY <1>1 DEF States
<1>3. ur = [t \in Listed |-> ur[t]]
      /\ \A t \in Listed : ur[t] = IF t = s THEN Removed(tr[s], n, dep[n]) ELSE tr[t]
  BY <1>1
<1> HIDE DEF ms
<1>4. n \in M(s) /\ {m \in Nodes : ms[m] = s} = M(s) \ {n}
  BY <1>2 DEF Listed
<1>5. Exact(Removed(tr[s], n, dep[n]), M(s) \ {n}, dep)
  <2>1. M(s) \in SUBSET Nodes /\ Exact(tr[s], M(s), dep)
    BY <1>1
  <2> HIDE DEF M
  <2> QED BY <2>1, <1>4, RemovedExact
<1>6. ASSUME NEW t \in Listed, t # s
      PROVE  {m \in Nodes : ms[m] = t} = M(t)
  BY <1>2, <1>6 DEF Listed
<1> HIDE DEF ur, M
<1>7. ASSUME NEW t \in Listed
      PROVE  Exact(ur[t], {m \in Nodes : ms[m] = t}, dep)
  BY <1>1, <1>3, <1>4, <1>5, <1>6
<1>8. Filed(ms, ur, dep)
  BY <1>2, <1>3, <1>7 DEF Filed
<1> QED BY <1>8 DEF ms, ur

LEMMA FiledDepths ==
  ASSUME NEW ns, NEW tr, NEW dep, NEW eep, Filed(ns, tr, dep),
         \A n \in Nodes : ns[n] # "ahead" => eep[n] = dep[n]
  PROVE  Filed(ns, tr, eep)
<1>1. ASSUME NEW s \in Listed
      PROVE  Exact(tr[s], {n \in Nodes : ns[n] = s}, eep)
  <2> DEFINE M == {n \in Nodes : ns[n] = s}
  <2>1. Exact(tr[s], M, dep)
    BY DEF Filed
  <2>2. \A n \in M : eep[n] = dep[n]
    BY DEF Listed
  <2> HIDE DEF M
  <2>3. Exact(tr[s], M, eep)
    BY <2>1, <2>2, ExactDepths
  <2> QED BY <2>3 DEF M
<1> QED BY <1>1 DEF Filed

LEMMA MarkAheadFiled ==
  ASSUME Filed(nodestate, tracked, depth), depth \in [Nodes -> Nat],
         NEW S \in SUBSET Nodes, MarkAhead(S)
  PROVE  /\ Filed(nodestate', tracked', depth)
         /\ \A n \in Nodes : nodestate'[n] = IF n \in S /\ nodestate[n] = "ahead"
                                             THEN "frontier" ELSE nodestate[n]
<1> DEFINE marked == {n \in S : nodestate[n] = "ahead"}
<1>1. /\ nodestate' = [n \in Nodes |-> IF n \in marked THEN "frontier" ELSE nodestate[n]]
      /\ tracked' = [tracked EXCEPT !["frontier"] = AddAll(@, marked, depth)]
  BY Zenon DEF MarkAhead
<1>2. marked \in SUBSET Nodes /\ \A n \in marked : nodestate[n] = "ahead"
  OBVIOUS
<1>3. "frontier" \in Listed
  BY DEF Listed
<1> HIDE DEF marked
<1>4. Filed(nodestate', tracked', depth)
  BY <1>1, <1>2, <1>3, FileNodes
<1> QED BY <1>1, <1>4 DEF marked

LEMMA RecomputeTInv ==
  ASSUME IInv, TInv, Recompute
  PROVE  TInv'
<1> DEFINE n == Head(work).node
           s == nodestate[n]
<1>1. /\ work # << >> /\ Head(work).op = "recompute_depth"
      /\ \E d : depth' = [depth EXCEPT ![n] = d]
      /\ \E users \in Orders(UserInputs(operands, n)) :
           work' = [k \in DOMAIN users |-> Recomputing(users[k][1])] \o Tail(work)
      /\ UNCHANGED << nodes, operands, traverser, nodestate >>
      /\ tracked' = IF s = "ahead" THEN tracked
                    ELSE [tracked EXCEPT ![s] = AddAll(Removed(@, n, depth[n]), {n}, depth')]
  BY DEF Recompute, RecomputeChanged, Calling
<1>2. n \in nodes /\ n \in Nodes
  BY <1>1, WorkTail DEF IInv, WorkOK, TypeOK
<1>3. depth \in [Nodes -> Nat] /\ depth' \in [Nodes -> Nat]
  BY RecomputeChangedInv DEF Recompute, IInv, TypeOK
<1> HIDE DEF n
<1>4. /\ Shape(work, nodes)'
      /\ \A m : /\ Announcing(m)' <=> Announcing(m)
                /\ Diverted(m)' <=> Diverted(m)
                /\ DivertedFrom(m)' <=> DivertedFrom(m)
  <2>1. Head(work).op \notin Told
    BY <1>1 DEF Told
  <2>2. PICK users \in Orders(UserInputs(operands, n)) :
          work' = [k \in DOMAIN users |-> Recomputing(users[k][1])] \o Tail(work)
    BY <1>1
  <2> DEFINE q == [k \in DOMAIN users |-> Recomputing(users[k][1])]
  <2>3. q \in Seq(Calls) /\ \A c \in ToSet(q) : c.op = "recompute_depth"
    <3>1. q \in Seq(Calls)
          /\ ToSet(q) = {Recomputing(m) : m \in {l \in Nodes : n \in Producers(operands, l)}}
      BY <1>2, UsersCalled DEF IInv
    <3> HIDE DEF q
    <3> QED BY <3>1 DEF Recomputing, Call
  <2> HIDE DEF q
  <2>4. work' = q \o Tail(work)
    BY <2>2 DEF q
  <2> QED BY <2>1, <2>3, <2>4, <1>1, WorkStep DEF IInv, TInv
<1>5. \A m \in Nodes : m # n => depth'[m] = depth[m]
  BY <1>1, <1>3
<1>6. Filed(nodestate, tracked, depth) /\ s \in States
  BY <1>2 DEF TInv, Tracking, Filed
<1>7. Filed(nodestate', tracked', depth')
  <2>1. CASE s = "ahead"
    BY <2>1, <1>1, <1>5, <1>6, FiledDepths
  <2>2. CASE s # "ahead"
    <3> DEFINE ms == [nodestate EXCEPT ![n] = "ahead"]
               ur == [tracked EXCEPT ![s] = Removed(@, n, depth[n])]
               ls == [m \in Nodes |-> IF m \in {n} THEN s ELSE ms[m]]
               vr == [ur EXCEPT ![s] = AddAll(@, {n}, depth')]
    <3>1. s \in Listed /\ nodestate \in [Nodes -> States] /\ tracked = [t \in Listed |-> tracked[t]]
      BY <2>2, <1>6 DEF States, Listed, Filed
    <3>2. Filed(ms, ur, depth)
      BY <3>1, <1>2, <1>3, <1>6, UnfileNode
    <3>3. \A m \in Nodes : ms[m] # "ahead" => depth'[m] = depth[m]
      BY <1>2, <1>5, <3>1
    <3>4. ms[n] = "ahead"
      BY <1>2, <3>1
    <3>5. ls = nodestate /\ vr = tracked'
      BY <1>1, <1>2, <2>2, <3>1
    <3> HIDE DEF ms, ur, s
    <3>6. Filed(ms, ur, depth')
      BY <3>2, <3>3, FiledDepths
    <3>7. Filed(ls, vr, depth')
      BY <3>1, <3>4, <3>6, <1>2, <1>3, FileNodes
    <3> QED BY <3>5, <3>7, <1>1
  <2> QED BY <2>1, <2>2
<1>8. Tracking'
  BY <1>1, <1>7 DEF TInv, Tracking
<1>9. Fresh'
  BY <1>1, <1>4 DEF TInv, Fresh
<1>10. AheadTopdown' /\ AheadBottomUp'
  BY <1>1, <1>4 DEF TInv, AheadTopdown, AheadBottomUp, BottomUp
<1> QED BY <1>4, <1>8, <1>9, <1>10 DEF TInv

LEMMA NotifiedTInv ==
  ASSUME IInv, TInv, Notified
  PROVE  TInv'
<1> DEFINE c == Head(work)
<1>1. /\ work # << >> /\ c.op \in Told /\ Returning
      /\ UNCHANGED << nodes, operands, depth, traverser >>
  BY DEF Notified, Notify, Calling, Told
<1>2. /\ Shape(work, nodes)' /\ work' = << >>
      /\ c \in ToSet(work) /\ ToSet(work) = {c} /\ c.node \in nodes
  <2>1. Shape(work, nodes)' /\ Tail(work) = << >>
    BY <1>1, WorkReturns DEF IInv, TInv
  <2>2. ToSet(work) = {c} \cup ToSet(Tail(work)) /\ c \in ToSet(work)
    BY <1>1, WorkTail
  <2>3. ToSet(Tail(work)) = {}
    BY <2>1 DEF ToSet
  <2> QED BY <2>1, <2>2, <2>3, <1>1 DEF Returning, Told, IInv, WorkOK
<1>3. \A m : ~ Announcing(m)' /\ ~ Diverted(m)' /\ ~ DivertedFrom(m)'
  BY <1>2 DEF Announcing, Diverted, DivertedFrom, ToSet
<1>4. /\ nodestate \in [Nodes -> States] /\ depth \in [Nodes -> Nat]
      /\ Filed(nodestate, tracked, depth) /\ nodes \subseteq Nodes
  BY DEF TInv, Tracking, Filed, IInv, TypeOK
<1>5. Fresh'
  BY <1>3 DEF Fresh
<1>6. CASE traverser = "none"
  <2>1. UNCHANGED << nodestate, tracked >>
    BY <1>6 DEF Notified, NodeCreate, InputChange, BottomUp
  <2>2. Tracking'
    BY <2>1, <1>1 DEF TInv, Tracking
  <2>3. AheadTopdown' /\ AheadBottomUp'
    BY <1>1, <1>6 DEF AheadTopdown, AheadBottomUp, BottomUp
  <2> QED BY <2>2, <2>3, <1>2, <1>5 DEF TInv
<1>7. CASE traverser # "none" /\ NodeCreate
  <2> DEFINE n == c.node
  <2>1. c.op = "node_create" /\ n \in nodes /\ n \in Nodes
    BY <1>2, <1>4, <1>7 DEF NodeCreate
  <2>2. Announcing(n) /\ nodestate[n] = "ahead" /\ \A l \in Nodes : n \notin Producers(operands, l)
    BY <2>1, <1>2 DEF TInv, Fresh, Announcing, HasSuccessors
  <2>3. \A m : (Announcing(m) => m = n) /\ ~ Diverted(m) /\ ~ DivertedFrom(m)
    BY <2>1, <1>2 DEF Announcing, Diverted, DivertedFrom
  <2> DEFINE s == CASE traverser = "topdown" ->
                          IF PredecessorsVisited(n) THEN "behind" ELSE "frontier"
                     [] traverser = "bottomup" -> "behind"
                     [] traverser = "bottomup revisiting" -> "frontier"
  <2>4. /\ nodestate' = [nodestate EXCEPT ![n] = s]
        /\ tracked' = [tracked EXCEPT ![s] = AddAll(@, {n}, depth)]
    BY <1>7, Zenon DEF NodeCreate
  <2>5. s \in Listed
    BY <1>7 DEF Listed, TInv, Tracking, Kinds
  <2> HIDE DEF n, s
  <2>6. nodestate' = [m \in Nodes |-> IF m \in {n} THEN s ELSE nodestate[m]]
    BY <2>1, <2>4, <1>4
  <2>7. Filed(nodestate', tracked', depth)
    <3> DEFINE A == {n}
    <3>1. /\ A \in SUBSET Nodes /\ \A m \in A : nodestate[m] = "ahead"
          /\ nodestate' = [m \in Nodes |-> IF m \in A THEN s ELSE nodestate[m]]
          /\ tracked' = [tracked EXCEPT ![s] = AddAll(@, A, depth)]
      BY <2>1, <2>2, <2>4, <2>6
    <3> HIDE DEF A
    <3>2. Filed([m \in Nodes |-> IF m \in A THEN s ELSE nodestate[m]],
                [tracked EXCEPT ![s] = AddAll(@, A, depth)], depth)
      BY <3>1, <2>5, <1>4, FileNodes
    <3> QED BY <3>1, <3>2
  <2>8. Tracking'
    BY <2>1, <2>6, <2>7, <1>1, <1>7 DEF TInv, Tracking
  <2>9. AheadTopdown'
    <3> SUFFICES ASSUME traverser = "topdown", NEW m \in nodes, nodestate'[m] = "ahead"
                 PROVE  \E p \in Producers(operands, m) : nodestate'[p] # "behind"
      BY <1>1 DEF AheadTopdown
    <3>1. m \in Nodes /\ m # n /\ nodestate[m] = "ahead"
      BY <2>5, <2>6, <1>4 DEF Listed
    <3>2. PICK p \in Producers(operands, m) : nodestate[p] # "behind"
      BY <3>1, <2>3 DEF TInv, AheadTopdown
    <3>3. p \in Nodes /\ p # n
      BY <3>1, <3>2, <2>2, <1>4 DEF IInv, NoDangling
    <3> QED BY <3>2, <3>3, <2>6
  <2>10. AheadBottomUp'
    <3> SUFFICES ASSUME BottomUp, NEW m \in nodes, nodestate'[m] = "ahead"
                 PROVE  \E l \in Nodes : m \in Producers(operands, l) /\ nodestate'[l] # "behind"
      BY <1>1, <1>3 DEF AheadBottomUp, BottomUp
    <3>1. m \in Nodes /\ m # n /\ nodestate[m] = "ahead"
      BY <2>5, <2>6, <1>4 DEF Listed
    <3>2. PICK l \in Nodes : /\ m \in Producers(operands, l)
                             /\ nodestate[l] # "behind" /\ ~ Announcing(l)
      BY <3>1, <2>3 DEF TInv, AheadBottomUp
    <3> QED BY <3>2, <2>2, <2>6
  <2> QED BY <2>8, <2>9, <2>10, <1>2, <1>5 DEF TInv
<1>8. CASE traverser # "none" /\ InputChange
  <2> DEFINE S == IF traverser = "topdown" THEN {c.node} ELSE {Producer(c.origin)} \ {Region}
  <2>1. c.op = "input_change" /\ MarkAhead(S)
    BY <1>8, <1>4 DEF InputChange, BottomUp, TInv, Tracking, Kinds
  <2>2. S \subseteq nodes
    BY <2>1, <1>2 DEF TInv, Shape
  <2>3. /\ Filed(nodestate', tracked', depth)
        /\ \A n \in Nodes : nodestate'[n] = IF n \in S /\ nodestate[n] = "ahead"
                                            THEN "frontier" ELSE nodestate[n]
    <3> HIDE DEF S
    <3>1. S \in SUBSET Nodes
      BY <2>2, <1>4
    <3> QED BY <2>1, <3>1, <1>4, MarkAheadFiled
  <2>4. Tracking'
    BY <2>2, <2>3, <1>1, <1>8 DEF TInv, Tracking
  <2>5. AheadTopdown'
    <3> SUFFICES ASSUME traverser = "topdown", NEW m \in nodes, nodestate'[m] = "ahead"
                 PROVE  \E p \in Producers(operands, m) : nodestate'[p] # "behind"
      BY <1>1 DEF AheadTopdown
    <3>1. m \in Nodes /\ m # c.node /\ nodestate[m] = "ahead"
      BY <2>3, <1>4
    <3>2. ~ Diverted(m) /\ ~ Announcing(m)
      BY <3>1, <2>1, <1>2 DEF Diverted, Announcing
    <3>3. PICK p \in Producers(operands, m) : nodestate[p] # "behind"
      BY <3>1, <3>2 DEF TInv, AheadTopdown
    <3>4. p \in Nodes
      BY <3>1, <3>3, <1>4 DEF IInv, NoDangling
    <3> QED BY <3>3, <3>4, <2>3
  <2>6. AheadBottomUp'
    <3> SUFFICES ASSUME BottomUp, NEW m \in nodes, nodestate'[m] = "ahead"
                 PROVE  \E l \in Nodes : m \in Producers(operands, l) /\ nodestate'[l] # "behind"
      BY <1>1, <1>3 DEF AheadBottomUp, BottomUp
    <3>1. m \in Nodes /\ nodestate[m] = "ahead" /\ m # Producer(c.origin)
      <4>1. m \in Nodes /\ nodestate[m] = "ahead" /\ m \notin S
        BY <2>3, <1>4
      <4>2. traverser # "topdown" /\ m # Region
        BY <4>1, RegionAssumption DEF BottomUp
      <4> QED BY <4>1, <4>2
    <3>2. ~ DivertedFrom(m) /\ ~ Announcing(m)
      BY <3>1, <2>1, <1>2 DEF DivertedFrom, Announcing
    <3>3. PICK l \in Nodes : m \in Producers(operands, l) /\ nodestate[l] # "behind"
      BY <3>1, <3>2 DEF TInv, AheadBottomUp
    <3> QED BY <3>3, <2>3
  <2> QED BY <2>4, <2>5, <2>6, <1>2, <1>5 DEF TInv
<1> QED BY <1>6, <1>7, <1>8 DEF Notified

\* What the node that is being destroyed used, the bottom-up traversers take up.
LEMMA DestroyedTInv ==
  ASSUME IInv, TInv, NEW n \in Nodes, Destroyed(n)
  PROVE  TInv'
<1>1. /\ n \in nodes /\ ~ HasUsers(operands, results, n) /\ Destroy(n)
      /\ UNCHANGED << work, traverser >>
  <2>1. CASE RemoveNode(n)
    BY <2>1 DEF RemoveNode, Destroyed
  <2>2. CASE PruneNode(n)
    BY <2>2 DEF PruneNode, Destroyed, IInv, BottomExact, One
  <2> QED BY <2>1, <2>2 DEF Destroyed
<1>2. \A c \in ToSet(work) : c.op \notin Told
  <2>1. CASE Idle
    BY <2>1 DEF Idle, ToSet
  <2>2. CASE Calling("prune")
    <3>1. Head(work) \in ToSet(work) /\ Head(work).op = "prune"
      BY <2>2, WorkTail DEF Calling
    <3>2. work = << Head(work) >>
      BY <3>1 DEF IInv, WorkOK
    <3> DEFINE h == Head(work)
    <3>3. work = << h >> /\ h.op = "prune"
      BY <3>1, <3>2
    <3> HIDE DEF h
    <3>4. ToSet(work) = {h}
      BY <3>3, OneElement
    <3> QED BY <3>3, <3>4 DEF Told
  <2> QED BY <2>1, <2>2 DEF Destroyed, RemoveNode, PruneNode
<1>3. /\ nodes' = nodes \ {n} /\ operands' = [operands EXCEPT ![n] = << >>]
      /\ depth' = [depth EXCEPT ![n] = 0]
  BY <1>1 DEF Destroy
<1>4. \A m : /\ ~ Announcing(m) /\ ~ Diverted(m) /\ ~ DivertedFrom(m)
             /\ ~ Announcing(m)' /\ ~ Diverted(m)' /\ ~ DivertedFrom(m)'
  BY <1>1, <1>2 DEF Told, Announcing, Diverted, DivertedFrom
<1>5. Shape(work, nodes)'
  <2>1. \A k \in DOMAIN work : work[k] \in ToSet(work)
    BY DEF ToSet
  <2> QED BY <2>1, <1>1, <1>2 DEF Shape, Told
<1>6. Fresh'
  BY <1>4 DEF Fresh
<1>7. /\ operands \in [Nodes -> Seq(Origins)]
      /\ \A m \in Nodes : m # n => Producers(operands', m) = Producers(operands, m)
  BY <1>3 DEF IInv, TypeOK, Producers
<1>8. /\ \A l \in Nodes : n \notin Producers(operands, l) /\ Producers(operands, l) \subseteq nodes
      /\ nodes \subseteq Nodes /\ depth \in [Nodes -> Nat]
  BY <1>1 DEF IInv, TypeOK, NoDangling, HasUsers, HasSuccessors
<1>9. nodestate \in [Nodes -> States] /\ Filed(nodestate, tracked, depth)
      /\ tracked = [t \in Listed |-> tracked[t]]
  BY DEF TInv, Tracking, Filed
<1> DEFINE s == nodestate[n]
           freed == IF s = "ahead" THEN tracked
                    ELSE [tracked EXCEPT ![s] = Removed(@, n, depth[n])]
           reached == {p \in IF BottomUp THEN Producers(operands, n) ELSE {} :
                         nodestate[p] = "ahead"}
           ms == [nodestate EXCEPT ![n] = "ahead"]
<1>10. /\ nodestate' = [m \in Nodes |-> IF m = n THEN "ahead"
                                        ELSE IF m \in reached THEN "frontier"
                                        ELSE nodestate[m]]
       /\ tracked' = [freed EXCEPT !["frontier"] = AddAll(@, reached, depth)]
  BY Zenon DEF Destroyed, NodeDestroy
<1>11. Filed(ms, freed, depth)
  <2>1. CASE s = "ahead"
    <3>1. ms = nodestate
      BY <2>1, <1>9
    <3> HIDE DEF ms
    <3> QED BY <2>1, <3>1, <1>9
  <2>2. CASE s # "ahead"
    <3>1. s \in Listed
      BY <2>2, <1>9 DEF States, Listed
    <3>2. freed = [tracked EXCEPT ![s] = Removed(@, n, depth[n])]
      BY <2>2
    <3> HIDE DEF freed
    <3> QED BY <3>1, <3>2, <1>8, <1>9, UnfileNode
  <2> QED BY <2>1, <2>2
<1>12. /\ reached \in SUBSET Nodes /\ n \notin reached
       /\ \A m \in reached : ms[m] = "ahead"
       /\ nodestate' = [m \in Nodes |-> IF m \in reached THEN "frontier" ELSE ms[m]]
  <2>1. reached \subseteq nodes /\ n \notin reached
    BY <1>8
  <2> HIDE DEF reached
  <2>2. \A m \in Nodes : ms[m] = IF m = n THEN "ahead" ELSE nodestate[m]
    BY <1>9
  <2>3. \A m \in reached : ms[m] = "ahead"
    BY <2>1, <2>2, <1>8 DEF reached
  <2> HIDE DEF ms
  <2> QED BY <2>1, <2>2, <2>3, <1>8, <1>10
<1>13. \A m \in Nodes : nodestate'[m] = IF m = n THEN "ahead"
                                        ELSE IF m \in reached THEN "frontier" ELSE nodestate[m]
  <2> HIDE DEF reached
  <2> QED BY <1>10
<1>14. Filed(nodestate', tracked', depth)
  <2> HIDE DEF ms, freed, reached
  <2>1. "frontier" \in Listed
    BY DEF Listed
  <2>2. Filed([m \in Nodes |-> IF m \in reached THEN "frontier" ELSE ms[m]],
              [freed EXCEPT !["frontier"] = AddAll(@, reached, depth)], depth)
    BY <2>1, <1>8, <1>11, <1>12, FileNodes
  <2> QED BY <2>2, <1>10, <1>12
<1>15. Filed(nodestate', tracked', depth')
  <2>1. \A m \in Nodes : nodestate'[m] # "ahead" => depth'[m] = depth[m]
    BY <1>3, <1>8, <1>13
  <2> QED BY <2>1, <1>14, FiledDepths
<1>16. Tracking'
  <2>1. \A m \in reached : m \in nodes /\ BottomUp
    BY <1>8
  <2> HIDE DEF reached
  <2>2. \A m \in Nodes \ nodes' : nodestate'[m] = "ahead"
    BY <2>1, <1>3, <1>13 DEF TInv, Tracking
  <2>3. traverser' = "none" => \A m \in Nodes : nodestate'[m] = "ahead"
    BY <2>1, <1>1, <1>13 DEF TInv, Tracking, BottomUp
  <2> QED BY <2>2, <2>3, <1>1, <1>15 DEF TInv, Tracking
<1>17. AheadTopdown'
  <2> SUFFICES ASSUME traverser = "topdown", NEW m \in nodes', nodestate'[m] = "ahead"
               PROVE  \E p \in Producers(operands', m) : nodestate'[p] # "behind"
    BY <1>1 DEF AheadTopdown
  <2> HIDE DEF reached
  <2>1. m \in nodes /\ m \in Nodes /\ m # n /\ nodestate[m] = "ahead"
    BY <1>3, <1>8, <1>13
  <2>2. PICK p \in Producers(operands, m) : nodestate[p] # "behind"
    BY <2>1, <1>4 DEF TInv, AheadTopdown
  <2>3. p \in Nodes /\ p # n
    BY <2>1, <2>2, <1>8
  <2> QED BY <2>1, <2>2, <2>3, <1>7, <1>13
<1>18. AheadBottomUp'
  <2> SUFFICES ASSUME BottomUp, NEW m \in nodes', nodestate'[m] = "ahead"
               PROVE  \E l \in Nodes : m \in Producers(operands', l) /\ nodestate'[l] # "behind"
    BY <1>1, <1>4 DEF AheadBottomUp, BottomUp
  <2>1. m \in nodes /\ m \in Nodes /\ m # n /\ nodestate[m] = "ahead" /\ m \notin reached
    <3> HIDE DEF reached
    <3> QED BY <1>3, <1>8, <1>13
  <2>2. PICK l \in Nodes : m \in Producers(operands, l) /\ nodestate[l] # "behind"
    BY <2>1, <1>4 DEF TInv, AheadBottomUp
  <2>3. l # n
    BY <2>1, <2>2
  <2> HIDE DEF reached
  <2> QED BY <2>2, <2>3, <1>7, <1>13
<1> QED BY <1>5, <1>6, <1>16, <1>17, <1>18 DEF TInv

-----------------------------------------------------------------------------
(* The calls of the traverser. *)

\* Only nodes that exist have producers, and only those that do are producers.
LEMMA EdgesExist ==
  ASSUME IInv, NEW m \in Nodes, NEW p \in Producers(operands, m)
  PROVE  m \in nodes /\ p \in nodes /\ p \in Nodes /\ m # p
<1>1. m \in nodes
  <2>1. operands[m] # << >>
    BY EmptyProducers
  <2> QED BY <2>1 DEF IInv, Freed
<1>2. p \in nodes /\ p \in Nodes /\ m # p
  BY DEF IInv, TypeOK, NoDangling, NoSelf
<1> QED BY <1>1, <1>2

\* What next() returns is in the frontier, at its first or last depth.
LEMMA Peeked ==
  ASSUME Tracking, NEW n,
         n \in PeekTop(tracked["frontier"]) \/ n \in PeekBottom(tracked["frontier"])
  PROVE  /\ n \in Nodes /\ nodestate[n] = "frontier"
         /\ n \in PeekTop(tracked["frontier"]) =>
              depth[n] = Min({depth[m] : m \in {l \in Nodes : nodestate[l] = "frontier"}})
         /\ n \in PeekBottom(tracked["frontier"]) =>
              depth[n] = Max({depth[m] : m \in {l \in Nodes : nodestate[l] = "frontier"}})
<1> DEFINE t == tracked["frontier"]
           M == {l \in Nodes : nodestate[l] = "frontier"}
<1>1. Exact(t, M, depth)
  <2>1. "frontier" \in Listed
    BY DEF Listed
  <2> QED BY <2>1 DEF Tracking, Filed
<1> HIDE DEF t, M
<1>2. ASSUME NEW d, n \in NodesAt(t, d)
      PROVE  n \in M /\ d = depth[n]
  <2>1. PICK e \in t.at : e[1] = d /\ e[2] = n
    BY <1>2 DEF NodesAt
  <2>2. PICK m \in M : e = << depth[m], m >>
    BY <1>1, <2>1 DEF Exact
  <2> QED BY <2>1, <2>2
<1>3. /\ n \in PeekTop(t) => n \in M /\ depth[n] = t.top
      /\ n \in PeekBottom(t) => n \in M /\ depth[n] = t.bottom
  BY <1>2 DEF PeekTop, PeekBottom
<1>4. n \in M
  BY <1>3 DEF t
<1>5. t.top = Min({depth[m] : m \in M}) /\ t.bottom = Max({depth[m] : m \in M})
  BY <1>1, <1>4 DEF Exact
<1> QED BY <1>3, <1>4, <1>5 DEF t, M

LEMMA VisitTInv ==
  ASSUME IInv, TInv, NEW n \in Nodes, Visit(n)
  PROVE  TInv'
<1> DEFINE reached == {m \in IF BottomUp THEN Producers(operands, n) ELSE Users(n) :
                         nodestate[m] = "ahead"}
           ms == [nodestate EXCEPT ![n] = "ahead"]
           mr == [tracked EXCEPT !["frontier"] = Removed(@, n, depth[n])]
           A == {n}
           ns == [m \in Nodes |-> IF m \in A THEN "behind" ELSE ms[m]]
           nr == [mr EXCEPT !["behind"] = AddAll(@, A, depth)]
<1>1. /\ Idle /\ UNCHANGED << region, traverser >>
      /\ nodestate' = [m \in Nodes |-> IF m = n THEN "behind"
                                       ELSE IF m \in reached THEN "frontier"
                                       ELSE nodestate[m]]
      /\ tracked' = [frontier |-> AddAll(Removed(tracked["frontier"], n, depth[n]), reached, depth),
                     behind   |-> AddAll(tracked["behind"], {n}, depth)]
  BY Zenon DEF Visit
<1>2. nodestate[n] = "frontier"
  BY Peeked DEF TInv, Visit
<1>3. /\ nodestate \in [Nodes -> States] /\ Filed(nodestate, tracked, depth)
      /\ tracked = [t \in Listed |-> tracked[t]]
      /\ depth \in [Nodes -> Nat] /\ nodes \subseteq Nodes
      /\ "frontier" \in Listed /\ "behind" \in Listed
  BY DEF TInv, Tracking, Filed, IInv, TypeOK, Listed
<1>4. reached \subseteq nodes /\ n \notin reached
  BY <1>2, EdgesExist DEF Users
<1>5. \A m : /\ ~ Announcing(m) /\ ~ Diverted(m) /\ ~ DivertedFrom(m)
             /\ ~ Announcing(m)' /\ ~ Diverted(m)' /\ ~ DivertedFrom(m)'
  <2>1. Idle'
    BY <1>1 DEF Idle, region
  <2> QED BY <2>1, <1>1, NothingTold DEF Idle, ToSet, Announcing, Diverted, DivertedFrom
<1>6. Shape(work, nodes)'
  BY <1>1, ShapeOfNothing DEF Idle, region
<1>7. Fresh'
  BY <1>5 DEF Fresh
<1>8. \A m \in Nodes : nodestate'[m] = IF m = n THEN "behind"
                                       ELSE IF m \in reached THEN "frontier" ELSE nodestate[m]
  <2> HIDE DEF reached
  <2> QED BY <1>1
<1>9. Filed(nodestate', tracked', depth)
  <2>1. Filed(ms, mr, depth)
    BY <1>2, <1>3, UnfileNode
  <2>2. /\ \A m \in Nodes : ms[m] = IF m = n THEN "ahead" ELSE nodestate[m]
        /\ \A m \in Nodes : ns[m] = IF m = n THEN "behind" ELSE nodestate[m]
    BY <1>3
  <2>3. A \in SUBSET Nodes /\ \A m \in A : ms[m] = "ahead"
    BY <2>2
  <2>4. Filed(ns, nr, depth)
    <3>1. depth \in [Nodes -> Nat] /\ "behind" \in Listed
      BY <1>3
    <3> HIDE DEF ms, mr, A
    <3>2. Filed([m \in Nodes |-> IF m \in A THEN "behind" ELSE ms[m]],
                [mr EXCEPT !["behind"] = AddAll(@, A, depth)], depth)
      BY <2>1, <2>3, <3>1, FileNodes
    <3> QED BY <3>2
  <2>5. reached \in SUBSET Nodes /\ \A m \in reached : ns[m] = "ahead"
    <3>1. \A m \in reached : nodestate[m] = "ahead"
      OBVIOUS
    <3> HIDE DEF reached, ns
    <3> QED BY <2>2, <3>1, <1>3, <1>4
  <2> DEFINE os == [m \in Nodes |-> IF m \in reached THEN "frontier" ELSE ns[m]]
             or == [nr EXCEPT !["frontier"] = AddAll(@, reached, depth)]
  <2>6. Filed(os, or, depth)
    <3> HIDE DEF ns, nr, reached
    <3> QED BY <2>4, <2>5, <1>3, FileNodes
  <2>7. os = nodestate'
    <3> HIDE DEF reached, ns
    <3> QED BY <2>2, <1>1, <1>4
  <2>8. or = tracked'
    <3>1. /\ or = [t \in Listed |-> or[t]]
          /\ or["frontier"] = AddAll(Removed(tracked["frontier"], n, depth[n]), reached, depth)
          /\ or["behind"] = AddAll(tracked["behind"], {n}, depth)
      <4> HIDE DEF reached
      <4> QED BY <1>3
    <3> HIDE DEF or, reached
    <3>2. /\ tracked' = [t \in Listed |-> tracked'[t]]
          /\ tracked'["frontier"] = or["frontier"] /\ tracked'["behind"] = or["behind"]
      BY <3>1, <1>1 DEF Listed
    <3> QED BY <3>1, <3>2 DEF Listed
  <2> HIDE DEF os, or
  <2> QED BY <2>6, <2>7, <2>8
<1>10. Tracking'
  <2> HIDE DEF reached
  <2>1. traverser # "none"
    BY <1>2 DEF TInv, Tracking
  <2>2. \A m \in Nodes \ nodes : nodestate'[m] = "ahead"
    BY <1>2, <1>4, <1>8 DEF TInv, Tracking
  <2> QED BY <2>1, <2>2, <1>1, <1>9 DEF TInv, Tracking, region
<1>11. AheadTopdown'
  <2> SUFFICES ASSUME traverser = "topdown", NEW m \in nodes, nodestate'[m] = "ahead"
               PROVE  \E p \in Producers(operands, m) : nodestate'[p] # "behind"
    BY <1>1 DEF AheadTopdown, region
  <2>1. m \in Nodes /\ m # n /\ m \notin reached /\ nodestate[m] = "ahead"
    <3> HIDE DEF reached
    <3> QED BY <1>3, <1>8
  <2>2. PICK p \in Producers(operands, m) : nodestate[p] # "behind"
    BY <2>1, <1>5 DEF TInv, AheadTopdown
  <2>3. p # n /\ p \in Nodes
    BY <2>1, <2>2, EdgesExist DEF Users, BottomUp
  <2> HIDE DEF reached
  <2> QED BY <2>2, <2>3, <1>8
<1>12. AheadBottomUp'
  <2> SUFFICES ASSUME BottomUp, NEW m \in nodes, nodestate'[m] = "ahead"
               PROVE  \E l \in Nodes : m \in Producers(operands, l) /\ nodestate'[l] # "behind"
    BY <1>1, <1>5 DEF AheadBottomUp, BottomUp, region
  <2>1. m \in Nodes /\ m # n /\ m \notin reached /\ nodestate[m] = "ahead"
    <3> HIDE DEF reached
    <3> QED BY <1>3, <1>8
  <2>2. PICK l \in Nodes : m \in Producers(operands, l) /\ nodestate[l] # "behind"
    BY <2>1, <1>5 DEF TInv, AheadBottomUp
  <2>3. l # n
    BY <2>1, <2>2
  <2> HIDE DEF reached
  <2> QED BY <2>2, <2>3, <1>8
<1> QED BY <1>6, <1>7, <1>10, <1>11, <1>12 DEF TInv

\* Nothing is tracked when no traverser is in use.
LEMMA NothingFiled ==
  ASSUME NEW ns, ns = [n \in Nodes |-> "ahead"], NEW tr, tr = [s \in Listed |-> NoNodes], NEW dep
  PROVE  Filed(ns, tr, dep)
<1>1. ns \in [Nodes -> States]
  BY DEF States
<1>2. ASSUME NEW s \in Listed
      PROVE  Exact(tr[s], {n \in Nodes : ns[n] = s}, dep)
  <2>1. {n \in Nodes : ns[n] = s} = {} /\ tr[s] = NoNodes
    BY DEF Listed
  <2> QED BY <2>1, ExactEmpty
<1> QED BY <1>1, <1>2 DEF Filed

LEMMA StopTInv ==
  ASSUME IInv, TInv, Stop
  PROVE  TInv'
<1>1. /\ Idle /\ UNCHANGED region /\ traverser' = "none"
      /\ nodestate' = [n \in Nodes |-> "ahead"]
      /\ tracked' = [s \in Listed |-> NoNodes]
  BY DEF Stop, Listed
<1>2. Shape(work, nodes)' /\ Fresh'
  BY <1>1, ShapeOfNothing DEF Idle, region, Fresh, Announcing, ToSet
<1>3. Filed(nodestate', tracked', depth')
  BY <1>1, NothingFiled
<1>4. Tracking'
  BY <1>1, <1>3 DEF Tracking, IInv, TypeOK, region
<1> QED BY <1>1, <1>2, <1>4 DEF TInv, AheadTopdown, AheadBottomUp, BottomUp

\* A new traverser starts at every node that nothing in the region keeps back.
LEMMA StartTInv ==
  ASSUME IInv, TInv, NEW kind \in Kinds, Start(kind)
  PROVE  TInv'
<1> DEFINE S == IF kind = "topdown"
                THEN {n \in Nodes : top_nodes[n] > 0}
                       \cup {n \in nodes : /\ \E o \in ToSet(operands[n]) : Producer(o) = Region
                                           /\ PredecessorsVisited(n)}
                ELSE {n \in Nodes : bottom_nodes[n] > 0}
                       \cup {n \in nodes : /\ \E o \in ToSet(results) : Producer(o) = n
                                           /\ ~HasSuccessors(operands, n)}
<1>1. /\ Idle /\ UNCHANGED region /\ traverser = "none" /\ traverser' = kind
      /\ MarkAhead(S)
  BY Zenon DEF Start
<1>2. /\ \A n \in Nodes : top_nodes[n] = One(n \in nodes /\ operands[n] = << >>)
      /\ \A n \in Nodes : bottom_nodes[n] = One(n \in nodes /\ ~ HasUsers(operands, results, n))
  BY <1>1, IdleFacts DEF IInv, BottomExact
<1>3. nodes \subseteq Nodes /\ depth \in [Nodes -> Nat] /\ operands \in [Nodes -> Seq(Origins)]
      /\ Filed(nodestate, tracked, depth)
  BY DEF IInv, TypeOK, TInv, Tracking
<1>4. S \in SUBSET Nodes /\ S \subseteq nodes
  BY <1>2, <1>3 DEF One
<1>5. /\ Filed(nodestate', tracked', depth)
      /\ \A n \in Nodes : nodestate'[n] = IF n \in S THEN "frontier" ELSE "ahead"
  <2> HIDE DEF S
  <2>1. /\ Filed(nodestate', tracked', depth)
        /\ \A n \in Nodes : nodestate'[n] = IF n \in S /\ nodestate[n] = "ahead"
                                            THEN "frontier" ELSE nodestate[n]
    BY <1>1, <1>3, <1>4, MarkAheadFiled
  <2> QED BY <2>1, <1>1 DEF TInv, Tracking
<1>6. Shape(work, nodes)' /\ \A m : ~ Announcing(m)' /\ ~ Diverted(m)' /\ ~ DivertedFrom(m)'
  BY <1>1, ShapeOfNothing DEF Idle, region, Announcing, Diverted, DivertedFrom, ToSet
<1>7. Fresh'
  BY <1>6 DEF Fresh
<1>8. Tracking'
  <2> HIDE DEF S
  <2> QED BY <1>1, <1>4, <1>5 DEF Tracking, Kinds, region
<1>9. AheadTopdown'
  <2> SUFFICES ASSUME kind = "topdown", NEW m \in nodes, nodestate'[m] = "ahead"
               PROVE  \E p \in Producers(operands, m) : nodestate'[p] # "behind"
    BY <1>1 DEF AheadTopdown, region
  <2>1. m \in Nodes /\ m \notin S
    <3> HIDE DEF S
    <3> QED BY <1>3, <1>5
  <2>2. operands[m] # << >>
    BY <2>1, <1>2 DEF One
  <2>3. PICK o \in ToSet(operands[m]) : TRUE
    BY <2>1, <2>2, <1>3, NoElement
  <2>4. PICK p \in Producers(operands, m) : TRUE
    <3> SUFFICES ASSUME Producers(operands, m) = {}
                 PROVE  FALSE
      OBVIOUS
    <3>1. Producer(o) = Region
      BY <2>3 DEF Producers
    <3>2. PredecessorsVisited(m)
      BY DEF PredecessorsVisited
    <3> QED BY <3>1, <3>2, <2>1, <2>3
  <2>5. p \in Nodes
    BY <2>1, <2>4, EdgesExist
  <2> HIDE DEF S
  <2> QED BY <2>4, <2>5, <1>5
<1>10. AheadBottomUp'
  <2> SUFFICES ASSUME kind # "topdown", NEW m \in nodes, nodestate'[m] = "ahead"
               PROVE  \E l \in Nodes : m \in Producers(operands, l) /\ nodestate'[l] # "behind"
    BY <1>1, <1>6 DEF AheadBottomUp, BottomUp, region
  <2>1. m \in Nodes /\ m \notin S
    <3> HIDE DEF S
    <3> QED BY <1>3, <1>5
  <2>2. HasUsers(operands, results, m)
    BY <2>1, <1>2 DEF One
  <2>3. PICK l \in Nodes : m \in Producers(operands, l)
    BY <2>1, <2>2 DEF HasUsers, HasSuccessors
  <2> HIDE DEF S
  <2> QED BY <2>3, <1>5
<1> QED BY <1>6, <1>7, <1>8, <1>9, <1>10 DEF TInv

-----------------------------------------------------------------------------
(* All steps. *)

LEMMA SilentTInv ==
  ASSUME IInv, TInv, Silent, UNCHANGED traversal
  PROVE  TInv'
<1>1. ASSUME NEW n \in Nodes, NEW origins \in OperandLists, CreateSimple(n, origins)
      PROVE  TInv'
  BY <1>1, OperandListElements, ConstructTInv DEF CreateSimple
<1>2. ASSUME NEW n \in Nodes, CreateStructural(n)
      PROVE  TInv'
  <2>1. << >> \in Seq(Origins)
    OBVIOUS
  <2> QED BY <2>1, <1>2, ConstructTInv DEF CreateStructural
<1>3. ASSUME NEW n \in Nodes, NEW o \in Origins, AppendInput(n, o)
      PROVE  TInv'
  <2>1. Call("add_input", n, o).op \notin Told
    BY DEF Call, Told
  <2> QED BY <2>1, <1>3, CalmCallInv DEF AppendInput
<1>4. ASSUME NEW n \in Nodes, NEW i \in 1 .. MaxInputs, NEW o \in Origins, DivertInput(n, i, o)
      PROVE  TInv'
  BY <1>4, DivertInputTInv
<1>5. ASSUME NEW n \in Nodes, NEW i \in 1 .. MaxInputs, Removable(n), RemoveInput(n, i)
      PROVE  TInv'
  BY <1>5, RemoveInputTInv
<1>6. ASSUME \/ \E o \in Origins : AppendResult(o)
             \/ \E j \in 1 .. MaxResults : RemoveResult(j) \/ \E o \in Origins : DivertResult(j, o)
      PROVE  TInv'
  <2>1. Idle /\ UNCHANGED << nodes, operands, depth, work >>
    BY <1>6 DEF AppendResult, RemoveResult, DivertResult
  <2>2. work' = << >>
    BY <2>1 DEF Idle
  <2> QED BY <2>1, <2>2, CalmCallInv
<1>7. CASE Prune
  <2>1. Call("prune", Region, Region).op \notin Told
    BY DEF Call, Told
  <2> QED BY <2>1, <1>7, CalmCallInv DEF Prune
<1>8. CASE AddInput
  BY <1>8, AddInputTInv
<1>9. CASE RecomputeSame \/ PushTop \/ PruneDone
  <2>1. /\ work # << >> /\ Head(work).op \notin Told /\ Returning
        /\ UNCHANGED << nodes, operands, depth >>
    BY <1>9 DEF RecomputeSame, PushTop, PruneDone, Calling, Told
  <2>2. /\ Shape(work, nodes)'
        /\ \A n : /\ Announcing(n)' <=> Announcing(n)
                  /\ Diverted(n)' <=> Diverted(n)
                  /\ DivertedFrom(n)' <=> DivertedFrom(n)
    BY <2>1, WorkReturns DEF IInv, TInv
  <2> QED BY <2>1, <2>2, CalmInv
<1> QED BY <1>1, <1>2, <1>3, <1>4, <1>5, <1>6, <1>7, <1>8, <1>9 DEF Silent

LEMMA TInvStep ==
  ASSUME IInv, TInv, [NextTraversal]_vars
  PROVE  TInv'
<1>1. CASE Silent /\ UNCHANGED traversal
  BY <1>1, SilentTInv
<1>2. CASE Recompute
  BY <1>2, RecomputeTInv
<1>3. CASE Notified
  BY <1>3, NotifiedTInv
<1>4. ASSUME NEW n \in Nodes, Destroyed(n)
      PROVE  TInv'
  BY <1>4, DestroyedTInv
<1>5. ASSUME NEW n \in Nodes, Visit(n)
      PROVE  TInv'
  BY <1>5, VisitTInv
<1>6. ASSUME NEW kind \in Kinds, Start(kind)
      PROVE  TInv'
  BY <1>6, StartTInv
<1>7. CASE Stop
  BY <1>7, StopTInv
<1>8. CASE UNCHANGED vars
  <2>1. /\ UNCHANGED << nodes, operands, depth, traversal, work >>
    BY <1>8 DEF vars, region
  <2>2. /\ Shape(work, nodes)'
        /\ \A n : /\ Announcing(n)' <=> Announcing(n)
                  /\ Diverted(n)' <=> Diverted(n)
                  /\ DivertedFrom(n)' <=> DivertedFrom(n)
    BY <2>1 DEF TInv, Announcing, Diverted, DivertedFrom
  <2> QED BY <2>1, <2>2, CalmInv
<1> QED BY <1>1, <1>2, <1>3, <1>4, <1>5, <1>6, <1>7, <1>8 DEF NextTraversal

LEMMA InitTInv == InitTraversal => TInv
<1> SUFFICES ASSUME InitTraversal PROVE TInv
  OBVIOUS
<1>1. /\ work = << >> /\ nodes = {} /\ traverser = "none"
      /\ nodestate = [n \in Nodes |-> "ahead"]
      /\ tracked = [s \in Listed |-> NoNodes]
  BY DEF InitTraversal, Init, Listed
<1>2. Shape(work, nodes) /\ Fresh
  BY <1>1, ShapeOfNothing DEF Fresh, Announcing, ToSet
<1>3. Filed(nodestate, tracked, depth)
  BY <1>1, NothingFiled
<1> QED BY <1>1, <1>2, <1>3 DEF TInv, Tracking, AheadTopdown, AheadBottomUp, BottomUp

\* Every step of the traversal is a step of the region, or none.
LEMMA StepsOfRegion ==
  ASSUME [NextTraversal]_vars
  PROVE  [Next]_region
<1>1. CASE Silent
  BY <1>1, Zenon DEF Silent, Next, Pass, Step
<1>2. CASE Recompute \/ Notified
  BY <1>2 DEF Recompute, Notified, Next, Step
<1>3. ASSUME NEW n \in Nodes, Destroyed(n)
      PROVE  Next
  BY <1>3 DEF Destroyed, Next, Pass, Step
<1>4. CASE \/ \E n \in Nodes : Visit(n)
           \/ \E kind \in Kinds : Start(kind)
           \/ Stop
  BY <1>4, Zenon DEF Visit, Start, Stop
<1>5. CASE UNCHANGED vars
  BY <1>5 DEF vars
<1> QED BY <1>1, <1>2, <1>3, <1>4, <1>5 DEF NextTraversal

-----------------------------------------------------------------------------
(* The theorems. *)

\* A traverser only follows its region: whatever is true of every region is true
\* of one that is traversed (and changed by the pass that traverses it).
THEOREM Follows == TraversalSpec => Spec
<1>1. InitTraversal => Init
  BY DEF InitTraversal
<1>2. [NextTraversal]_vars => [Next]_region
  BY StepsOfRegion
<1> QED BY <1>1, <1>2, PTL DEF TraversalSpec, Spec

\* The inductive invariant of a region that is traversed.
THEOREM TraversalInvariant == TraversalSpec => [](IInv /\ TInv)
<1>1. InitTraversal => TInv
  BY InitTInv
<1>2. ASSUME IInv, TInv, [NextTraversal]_vars
      PROVE  TInv'
  BY <1>2, TInvStep
<1> QED BY <1>1, <1>2, Follows, Invariant, PTL DEF TraversalSpec

\* Whatever is still to be visited, the frontier has a node that is to be visited
\* before it, or is that node.
LEMMA FrontierLeads ==
  ASSUME IInv, TInv, Idle, traverser # "none", NEW m \in nodes, nodestate[m] # "behind"
  PROVE  \E f \in Nodes : /\ nodestate[f] = "frontier"
                          /\ BottomUp => depth[m] <= depth[f]
                          /\ ~ BottomUp => depth[f] <= depth[m]
<1>1. /\ nodes \subseteq Nodes /\ depth \in [Nodes -> Nat]
      /\ nodestate \in [Nodes -> States]
  BY DEF IInv, TypeOK, TInv, Tracking, Filed
<1>2. ASSUME NEW l \in Nodes, NEW p \in Producers(operands, l)
      PROVE  l \in nodes /\ p \in nodes /\ depth[p] < depth[l]
  <2>1. l \in nodes /\ p \in nodes
    BY EdgesExist
  <2>2. IsDepth(depth[l], operands, depth, l)
    BY <2>1, IdleFacts
  <2> QED BY <2>1, <2>2 DEF IsDepth
<1>3. CASE ~ BottomUp
  <2> DEFINE H == {l \in nodes : nodestate[l] # "behind" /\ depth[l] <= depth[m]}
             D == {depth[l] : l \in H}
  <2>1. m \in H /\ H \in SUBSET Nodes
    BY <1>1
  <2>2. IsFiniteSet(D) /\ D \subseteq Nat /\ D # {}
    <3> HIDE DEF H
    <3> QED BY <1>1, <2>1, DepthsFinite
  <2>3. Min(D) \in D /\ \A x \in D : Min(D) <= x
    <3> HIDE DEF D
    <3> QED BY <2>2, Extremes
  <2>4. PICK f \in H : depth[f] = Min(D)
    <3> HIDE DEF H
    <3> QED BY <2>3
  <2>5. \A l \in H : depth[f] <= depth[l]
    <3> HIDE DEF H
    <3> QED BY <2>3, <2>4
  <2>6. f \in Nodes /\ f \in nodes /\ nodestate[f] # "behind" /\ depth[f] <= depth[m]
    BY <2>1
  <2>7. nodestate[f] # "ahead"
    <3> SUFFICES ASSUME nodestate[f] = "ahead"
                 PROVE  FALSE
      OBVIOUS
    <3>1. traverser = "topdown"
      BY <1>3 DEF TInv, Tracking, BottomUp, Kinds
    <3>2. PICK p \in Producers(operands, f) : nodestate[p] # "behind"
      BY <2>6, <3>1, NothingTold DEF TInv, AheadTopdown
    <3>3. p \in nodes /\ depth[p] < depth[f]
      BY <2>6, <1>2
    <3>4. depth[p] \in Nat /\ depth[f] \in Nat /\ depth[m] \in Nat
      BY <1>1, <2>6, <3>3
    <3>5. p \in H
      BY <2>6, <3>2, <3>3, <3>4
    <3> QED BY <2>5, <3>3, <3>4, <3>5
  <2>8. nodestate[f] = "frontier"
    BY <2>6, <2>7, <1>1 DEF States
  <2> QED BY <2>6, <2>8, <1>3
<1>4. CASE BottomUp
  <2> DEFINE H == {l \in nodes : nodestate[l] # "behind" /\ depth[m] <= depth[l]}
             D == {depth[l] : l \in H}
  <2>1. m \in H /\ H \in SUBSET Nodes
    BY <1>1
  <2>2. IsFiniteSet(D) /\ D \subseteq Nat /\ D # {}
    <3> HIDE DEF H
    <3> QED BY <1>1, <2>1, DepthsFinite
  <2>3. Max(D) \in D /\ \A x \in D : x <= Max(D)
    <3> HIDE DEF D
    <3> QED BY <2>2, Extremes
  <2>4. PICK f \in H : depth[f] = Max(D)
    <3> HIDE DEF H
    <3> QED BY <2>3
  <2>5. \A l \in H : depth[l] <= depth[f]
    <3> HIDE DEF H
    <3> QED BY <2>3, <2>4
  <2>6. f \in Nodes /\ f \in nodes /\ nodestate[f] # "behind" /\ depth[m] <= depth[f]
    BY <2>1
  <2>7. nodestate[f] # "ahead"
    <3> SUFFICES ASSUME nodestate[f] = "ahead"
                 PROVE  FALSE
      OBVIOUS
    <3>1. PICK l \in Nodes : f \in Producers(operands, l) /\ nodestate[l] # "behind"
      BY <2>6, <1>4, NothingTold DEF TInv, AheadBottomUp
    <3>2. l \in nodes /\ depth[f] < depth[l]
      BY <3>1, <1>2
    <3>3. depth[l] \in Nat /\ depth[f] \in Nat /\ depth[m] \in Nat
      BY <1>1, <2>6, <3>2
    <3>4. l \in H
      BY <2>6, <3>1, <3>2, <3>3
    <3> QED BY <2>5, <3>2, <3>3, <3>4
  <2>8. nodestate[f] = "frontier"
    BY <2>6, <2>7, <1>1 DEF States
  <2> QED BY <2>6, <2>8, <1>4
<1> QED BY <1>3, <1>4

\* The tracker agrees with the region at every moment, also while the depths of
\* a whole chain of users are being recomputed.
THEOREM TrackerStaysExact == TraversalSpec => []TrackerExact
<1>1. ASSUME TInv
      PROVE  TrackerExact
  <2>1. ASSUME NEW s \in {"frontier", "behind"}
        PROVE  Exact(tracked[s], {n \in Nodes : nodestate[n] = s}, depth)
    BY <1>1 DEF TInv, Tracking, Filed, Listed
  <2>2. \A n \in Nodes \ nodes : nodestate[n] = "ahead"
    BY <1>1 DEF TInv, Tracking
  <2> QED BY <2>1, <2>2 DEF TrackerExact, Exact
<1> QED BY <1>1, TraversalInvariant, PTL

\* When next() has nothing left to return, it has returned every node, or has
\* been told of it when it was created behind the traverser: nothing the pass
\* does to the region in between makes a traverser skip a node.
THEOREM VisitsEveryNode == TraversalSpec => []VisitsAll
<1>1. ASSUME IInv, TInv
      PROVE  VisitsAll
  <2> SUFFICES ASSUME Idle, traverser # "none", tracked["frontier"].count = 0,
                      NEW m \in nodes, nodestate[m] # "behind"
               PROVE  FALSE
    BY DEF VisitsAll
  <2> DEFINE M == {n \in Nodes : nodestate[n] = "frontier"}
  <2>1. PICK f \in Nodes : nodestate[f] = "frontier"
    BY <1>1, FrontierLeads
  <2>2. Cardinality(M) = 0
    <3>1. "frontier" \in Listed
      BY DEF Listed
    <3> QED BY <3>1, <1>1 DEF TInv, Tracking, Filed, Exact
  <2>3. IsFiniteSet(M)
    BY NodesAssumption, FS_Subset
  <2>4. f \in M
    BY <2>1
  <2> HIDE DEF M
  <2> QED BY <2>2, <2>3, <2>4, FS_EmptySet
<1> QED BY <1>1, TraversalInvariant, PTL

\* What next() returns comes before everything that is still to be visited, in
\* the order of the traverser: by depth, and so along every edge.
THEOREM VisitsStayInOrder == TraversalSpec => VisitsInOrder
<1>1. ASSUME IInv, TInv, NEW n \in Nodes, Visit(n),
             NEW m \in nodes \ {n}, nodestate[m] # "behind"
      PROVE  IF BottomUp THEN depth[m] <= depth[n] /\ n \notin Producers(operands, m)
                         ELSE depth[n] <= depth[m] /\ m \notin Producers(operands, n)
  <2> DEFINE M == {l \in Nodes : nodestate[l] = "frontier"}
             D == {depth[l] : l \in M}
  <2>1. /\ Idle /\ nodestate[n] = "frontier"
        /\ ~ BottomUp => depth[n] = Min(D)
        /\ BottomUp => depth[n] = Max(D)
    BY <1>1, Peeked DEF TInv, Visit
  <2>2. traverser # "none"
    BY <1>1, <2>1 DEF TInv, Tracking
  <2>3. PICK f \in Nodes : /\ nodestate[f] = "frontier"
                           /\ BottomUp => depth[m] <= depth[f]
                           /\ ~ BottomUp => depth[f] <= depth[m]
    BY <1>1, <2>1, <2>2, FrontierLeads
  <2>4. f \in M /\ M \in SUBSET Nodes /\ depth \in [Nodes -> Nat] /\ m \in Nodes
    BY <1>1, <2>3 DEF IInv, TypeOK
  <2>5. IsFiniteSet(D) /\ D \subseteq Nat /\ depth[f] \in D
    <3> HIDE DEF M
    <3> QED BY <2>4, DepthsFinite
  <2>6. /\ Min(D) \in D /\ Min(D) <= depth[f]
        /\ Max(D) \in D /\ depth[f] <= Max(D)
    <3> HIDE DEF D
    <3> QED BY <2>5, Extremes
  <2>7. \A l \in Nodes : \A p \in Producers(operands, l) : depth[p] < depth[l]
    BY <1>1, <2>1, IdleFacts, EdgesExist DEF IsDepth
  <2> HIDE DEF D, M
  <2>8. depth[f] \in Nat /\ depth[m] \in Nat /\ depth[n] \in Nat
    BY <2>4
  <2>9. CASE BottomUp
    <3>1. depth[m] <= depth[n]
      BY <2>1, <2>3, <2>6, <2>8, <2>9
    <3>2. n \notin Producers(operands, m)
      BY <3>1, <2>4, <2>7, <2>8
    <3> QED BY <3>1, <3>2, <2>9
  <2>10. CASE ~ BottomUp
    <3>1. depth[n] <= depth[m]
      BY <2>1, <2>3, <2>6, <2>8, <2>10
    <3>2. m \notin Producers(operands, n)
      BY <3>1, <2>4, <2>7, <2>8
    <3> QED BY <3>1, <3>2, <2>10
  <2> QED BY <2>9, <2>10
<1>2. IInv /\ TInv =>
        \A n \in Nodes : Visit(n) =>
          \A m \in nodes \ {n} : nodestate[m] # "behind" =>
            IF BottomUp THEN depth[m] <= depth[n] /\ n \notin Producers(operands, m)
                        ELSE depth[n] <= depth[m] /\ m \notin Producers(operands, n)
  BY <1>1
<1> QED BY <1>2, TraversalInvariant, PTL DEF VisitsInOrder

\* No node is visited twice while the traverser lives: no notification takes a
\* node that is behind the traverser back.
THEOREM NeverTwice == TraversalSpec => NeverRevisits
<1>1. ASSUME IInv, TInv, [NextTraversal]_vars, NEW n \in nodes, n \in nodes',
             nodestate[n] = "behind", traverser' # "none"
      PROVE  nodestate'[n] = "behind"
  <2>1. n \in Nodes /\ nodestate \in [Nodes -> States]
    BY <1>1 DEF IInv, TypeOK, TInv, Tracking, Filed
  <2>2. CASE (Silent /\ UNCHANGED traversal) \/ Recompute \/ UNCHANGED vars
    BY <2>2, <1>1 DEF Recompute, traversal, vars
  <2>3. CASE Notified /\ NodeCreate
    <3>1. Announcing(Head(work).node)
      <4>1. work # << >> /\ Head(work).op = "node_create"
        BY <2>3 DEF Notified, Notify, Calling, NodeCreate
      <4> QED BY <4>1, <1>1, WorkTail DEF Announcing
    <3>2. n # Head(work).node
      BY <3>1, <2>1, <1>1 DEF TInv, Fresh
    <3>3. nodestate' = nodestate \/ \E s : nodestate' = [nodestate EXCEPT ![Head(work).node] = s]
      BY <2>3, Zenon DEF NodeCreate
    <3> QED BY <3>2, <3>3, <2>1, <1>1
  <2>4. CASE Notified /\ InputChange
    <3>1. \/ nodestate' = nodestate
          \/ MarkAhead({Head(work).node})
          \/ MarkAhead({Producer(Head(work).origin)} \ {Region})
      BY <2>4, <1>1 DEF InputChange, BottomUp, TInv, Tracking, Kinds
    <3>2. ASSUME NEW S, MarkAhead(S)
          PROVE  nodestate'[n] = nodestate[n]
      BY <3>2, <2>1, <1>1 DEF MarkAhead
    <3> QED BY <3>1, <3>2, <1>1
  <2>5. ASSUME NEW k \in Nodes, Destroyed(k)
        PROVE  nodestate'[n] = "behind"
    <3>1. n # k
      BY <2>5, <1>1 DEF Destroyed, RemoveNode, PruneNode, Destroy
    <3> QED BY <3>1, <2>1, <2>5, <1>1 DEF Destroyed, NodeDestroy
  <2>6. ASSUME NEW k \in Nodes, Visit(k)
        PROVE  nodestate'[n] = "behind"
    BY <2>1, <2>6, <1>1 DEF Visit
  <2>7. CASE (\E kind \in Kinds : Start(kind)) \/ Stop
    BY <2>1, <2>7, <1>1 DEF Start, Stop, TInv, Tracking
  <2> QED BY <1>1, <2>2, <2>3, <2>4, <2>5, <2>6, <2>7 DEF NextTraversal, Notified
<1>2. IInv /\ TInv /\ [NextTraversal]_vars =>
        \A n \in nodes \cap nodes' :
          nodestate[n] = "behind" /\ traverser' # "none" => nodestate'[n] = "behind"
  BY <1>1
<1> QED BY <1>2, TraversalInvariant, PTL DEF NeverRevisits, TraversalSpec
=============================================================================

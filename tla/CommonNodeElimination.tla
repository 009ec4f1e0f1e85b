------------------------ MODULE CommonNodeElimination ------------------------
(***************************************************************************)
(* Common node elimination (src/jlm/llvm/opt/cne.cpp).  The mark phase     *)
(* finds origins that always have the same value, the divert phase gives   *)
(* the users of all of them to one.  The congruence sets are a partition,  *)
(* of which the sets of one element are left out.                          *)
(*                                                                         *)
(* Invariant value redirection (src/jlm/llvm/opt/InvariantValueRedirection *)
(* .cpp): the users of an output of a gamma node that passes one value     *)
(* through every subregion, or of a theta node that never changes its      *)
(* variable, take the value from in front of the node.                     *)
(***************************************************************************)
EXTENDS Rvsdg

SetOf(sets, o) == IF \E S \in sets : o \in S THEN CHOOSE S \in sets : o \in S ELSE {o}
Marked(sets, o, p) == p \in SetOf(sets, o)
Mark(sets, o, p) ==
  IF Marked(sets, o, p) THEN sets
  ELSE (sets \ {SetOf(sets, o), SetOf(sets, p)}) \cup {SetOf(sets, o) \cup SetOf(sets, p)}
RECURSIVE MarkAll(_, _)
MarkAll(sets, pairs) ==
  IF pairs = <<>> THEN sets ELSE MarkAll(Mark(sets, Head(pairs)[1], Head(pairs)[2]), Tail(pairs))

IsArgumentOf(g, o, kind) == IsArgument(g, o) /\ Owner(g, o[1]) # o[1] /\ Kind(g, Owner(g, o[1])) = kind
(* alloca and malloc operations are never equal.                           *)
SameOperation(g, n, m) ==
  g.node[n].op = g.node[m].op /\ g.node[n].outs = g.node[m].outs /\ Kind(g, n) \notin {"alloca", "malloc"}

(* Two origins are congruent if nothing tells them apart: a pair of them   *)
(* that is not marked must be of the same kind; its obligations are the    *)
(* pairs that must be congruent as well.                                   *)
SameKind(g, o, p) ==
  /\ TypeOf(g, o) = TypeOf(g, p)
  /\ \/ \E kind \in {"theta", "gamma"} : IsArgumentOf(g, o, kind) /\ IsArgumentOf(g, p, kind)
     \/ /\ IsOutput(g, o) /\ IsOutput(g, p)
        /\ \/ o[1] = p[1] /\ Kind(g, o[1]) \in {"theta", "gamma"}
           \/ /\ IsSimple(g, o[1]) /\ IsSimple(g, p[1]) /\ SameOperation(g, o[1], p[1])
              /\ Len(g.node[o[1]].ins) = Len(g.node[p[1]].ins) /\ o[2] = p[2]

(* An argument depends on the input; that of a theta node on the output,   *)
(* and so on the result of its loop variable, too.                         *)
InputOf(g, a) == g.node[Owner(g, a[1])].ins[IF Kind(g, Owner(g, a[1])) = "gamma" THEN a[2] + 1 ELSE a[2]]
ResultIn(g, r, o) == g.region[r].results[IF Kind(g, o[1]) = "theta" THEN o[2] + 1 ELSE o[2]]
Obligations(g, o, p) ==
  CASE IsArgumentOf(g, o, "gamma") -> {<<InputOf(g, o), InputOf(g, p)>>}
    [] IsArgument(g, o) ->
         {<<InputOf(g, o), InputOf(g, p)>>, << <<Owner(g, o[1]), o[2]>>, <<Owner(g, p[1]), p[2]>> >>}
    [] IsSimple(g, o[1]) -> {<<g.node[o[1]].ins[k], g.node[p[1]].ins[k]>> : k \in DOMAIN g.node[o[1]].ins}
    [] OTHER -> {<<ResultIn(g, r, o), ResultIn(g, r, p)>> : r \in Range(g.node[o[1]].subs)}

(* seen: the pairs whose obligations have been looked at.                  *)
RECURSIVE AllCongruent(_, _, _, _)
AllCongruent(g, sets, pairs, seen) ==
  LET open == {q \in pairs \ seen : ~Marked(sets, q[1], q[2])}
  IN  \/ open = {}
      \/ /\ \A q \in open : SameKind(g, q[1], q[2])
         /\ AllCongruent(g, sets, UNION {Obligations(g, q[1], q[2]) : q \in open}, seen \cup open)

(***************************************************************************)
(* The mark phase.  A candidate is [pairs, known, mark]: if the pairs are  *)
(* congruent, or marked as such already where known, mark is marked too.   *)
(***************************************************************************)
Pairs(count) == FlattenSeq([i \in 1 .. count |-> [d \in 1 .. count - i |-> <<i, i + d>>]])
Of(s, ij) == <<s[ij[1]], s[ij[2]]>>
Searched(pair, mark) == [pairs |-> {pair}, known |-> FALSE, mark |-> mark]
Known(pairs, mark) == [pairs |-> pairs, known |-> TRUE, mark |-> mark]
ForAllPairs(count, Op(_)) == [k \in DOMAIN Pairs(count) |-> Op(Pairs(count)[k])]

EntryCandidates(g, n) ==
  FlattenSeq(ForAllPairs(Len(g.node[n].ins) - 1, LAMBDA ij :
    [i \in DOMAIN g.node[n].subs |->
       LET pair == Of(Arguments(g, Sub(g, n, i)), ij) IN Searched(pair, <<pair>>)]))
ExitCandidates(g, n) ==
  ForAllPairs(Len(g.node[n].outs), LAMBDA ij : Searched(Of(Outputs(g, n), ij), <<Of(Outputs(g, n), ij)>>))
LoopCandidates(g, n) ==
  ForAllPairs(Len(g.node[n].ins), LAMBDA ij :
    LET pair == Of(Arguments(g, Body(g, n)), ij) IN Searched(pair, <<pair, Of(Outputs(g, n), ij)>>))
(* Of a lambda node, context variables whose origins are marked.           *)
ContextCandidates(g, n) ==
  LET context == SubSeq(Arguments(g, Body(g, n)), Len(g.region[Body(g, n)].args) - Len(g.node[n].ins) + 1,
                        Len(g.region[Body(g, n)].args))
  IN  ForAllPairs(Len(g.node[n].ins), LAMBDA ij : Known({Of(g.node[n].ins, ij)}, <<Of(context, ij)>>))
(* Of a simple node, the same operation on operands that are marked.       *)
Twins(g, n) ==
  {m \in NodesIn(g, g.node[n].home) \ {n} : SameOperation(g, n, m) /\ Len(g.node[n].ins) = Len(g.node[m].ins)}
TwinCandidates(g, n) ==
  LET twins == InTurn(Twins(g, n))
  IN  [i \in DOMAIN twins |->
         Known({<<g.node[n].ins[k], g.node[twins[i]].ins[k]>> : k \in DOMAIN g.node[n].ins},
               [k \in DOMAIN g.node[n].outs |-> << <<n, k>>, <<twins[i], k>> >>])]

(* All candidates of the regions, in the order they come up.               *)
RECURSIVE CandidatesIn(_, _)
CandidatesOf(g, n) ==
  CASE Kind(g, n) = "gamma" -> EntryCandidates(g, n) \o CandidatesIn(g, g.node[n].subs) \o ExitCandidates(g, n)
    [] Kind(g, n) = "theta" -> LoopCandidates(g, n) \o CandidatesIn(g, g.node[n].subs)
    [] Kind(g, n) = "lambda" -> ContextCandidates(g, n) \o CandidatesIn(g, g.node[n].subs)
    [] OTHER -> TwinCandidates(g, n)
CandidatesIn(g, regions) ==
  FlattenSeq([i \in DOMAIN regions |->
    FlattenSeq([k \in DOMAIN TopDown(g, regions[i]) |-> CandidatesOf(g, TopDown(g, regions[i])[k])])])

AreCongruent(g, sets, c) ==
  IF c.known THEN \A q \in c.pairs : Marked(sets, q[1], q[2]) ELSE AllCongruent(g, sets, c.pairs, {})
RECURSIVE MarkCandidates(_, _, _)
MarkCandidates(g, sets, list) ==
  IF list = <<>> THEN sets
  ELSE MarkCandidates(g, IF AreCongruent(g, sets, Head(list)) THEN MarkAll(sets, Head(list).mark) ELSE sets, Tail(list))

(***************************************************************************)
(* The divert phase: the origin of a set that comes first in the order of  *)
(* the traversal gets the users of all.                                    *)
(***************************************************************************)
RECURSIVE DivertOrder(_, _)
Visits(g, n) ==
  CASE Kind(g, n) = "gamma" ->
         FlattenSeq([i \in DOMAIN g.node[n].subs |-> Arguments(g, Sub(g, n, i))])
           \o FlattenSeq([i \in DOMAIN g.node[n].subs |-> DivertOrder(g, Sub(g, n, i))]) \o Outputs(g, n)
    [] Kind(g, n) = "theta" -> Arguments(g, Body(g, n)) \o Outputs(g, n) \o DivertOrder(g, Body(g, n))
    [] Kind(g, n) = "lambda" -> Arguments(g, Body(g, n)) \o DivertOrder(g, Body(g, n))
    [] OTHER -> Outputs(g, n)
DivertOrder(g, r) == FlattenSeq([k \in DOMAIN TopDown(g, r) |-> Visits(g, TopDown(g, r)[k])])

First(order, S) == Head(SelectSeq(order, LAMBDA o : o \in S))
Divert(g, sets, order) == DivertUsers(g, [o \in UNION sets |-> First(order, SetOf(sets, o))])

EliminateCommonNodes(g, root) == Divert(g, MarkCandidates(g, {}, CandidatesIn(g, <<root>>)), DivertOrder(g, root))

-----------------------------------------------------------------------------
(* What the k-th result is in each of the subregions of a gamma node.      *)
Exits(g, n, k) == {g.region[r].results[k] : r \in Range(g.node[n].subs)}

IsInvariantExit(g, n, k) ==
  /\ \A o \in Exits(g, n, k) : IsArgument(g, o)
  /\ Cardinality({EntryOrigin(g, o) : o \in Exits(g, n, k)}) = 1
InvariantGammaOutputs(g, n) ==
  [o \in {o \in Range(Outputs(g, n)) : IsInvariantExit(g, n, o[2])} |->
     EntryOrigin(g, g.region[Body(g, n)].results[o[2]])]

(* A loop state is left alone: the loop may not terminate.                 *)
IsInvariantLoopVar(g, n, k) == g.region[Body(g, n)].results[k + 1] = <<Body(g, n), k>>
InvariantThetaOutputs(g, n) ==
  [o \in {o \in Range(Outputs(g, n)) : TypeOf(g, o) # "loop" /\ IsInvariantLoopVar(g, n, o[2])} |->
     g.node[n].ins[o[2]]]

RedirectInvariantValues(g, n) ==
  CASE Kind(g, n) = "gamma" -> DivertUsers(g, InvariantGammaOutputs(g, n))
    [] Kind(g, n) = "theta" -> DivertUsers(g, InvariantThetaOutputs(g, n))
    [] OTHER -> g
==============================================================================

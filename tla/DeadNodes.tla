------------------------------- MODULE DeadNodes -------------------------------
(***************************************************************************)
(* Dead node elimination on a whole module (src/jlm/llvm/opt/              *)
(* DeadNodeElimination.cpp): what the results of the root region need is   *)
(* alive, directly or through others; all else goes.  Module               *)
(* DeadNodeElimination takes the steps of the pass one by one.             *)
(***************************************************************************)
EXTENDS Rvsdg

(***************************************************************************)
(* Mark                                                                    *)
(***************************************************************************)
MarkedByArgument(g, a) ==
  LET owner == Owner(g, a[1])  ins == g.node[owner].ins
  IN  CASE Kind(g, owner) = "gamma" -> {EntryOrigin(g, a)}
        [] Kind(g, owner) = "theta" -> {<<owner, a[2]>>, ins[a[2]]}
        [] Kind(g, owner) \in {"lambda", "delta"} ->
             LET k == ContextPosition(g, a[1], a[2]) IN IF k < 1 THEN {} ELSE {ins[k]}
MarkedByOutput(g, o) ==
  LET n == o[1]  node == g.node[n]
      results(i) == g.region[node.subs[i]].results
  IN  CASE Kind(g, n) = "gamma" -> {node.ins[1]} \cup {results(i)[o[2]] : i \in DOMAIN node.subs}
        [] Kind(g, n) = "theta" -> {results(1)[1], results(1)[o[2] + 1], node.ins[o[2]]}
        [] Kind(g, n) \in {"lambda", "delta"} -> Range(results(1))
        [] OTHER -> Range(node.ins)
MarkOutput(g, o) ==
  IF IsOutput(g, o) THEN MarkedByOutput(g, o)
  ELSE IF o[1] = Root(g) THEN {} ELSE MarkedByArgument(g, o)
RECURSIVE Alive(_, _, _)
(* new: those of the alive ones that have not been looked at.              *)
Alive(g, alive, new) ==
  IF new = {} THEN alive
  ELSE LET more == UNION {MarkOutput(g, o) : o \in new} IN Alive(g, alive \cup more, more \ alive)
MarkRegion(g, r) == LET results == Range(g.region[r].results) IN Alive(g, results, results)

(***************************************************************************)
(* Sweep.  What stays of a node and of a region, as sets of positions; the *)
(* root region keeps its arguments here, where imports are known by        *)
(* position.                                                               *)
(***************************************************************************)
IsDeadNode(g, alive, n) == \A o \in Range(Outputs(g, n)) : o \notin alive
KeptArguments(g, alive, r) ==
  LET owner == Owner(g, r)
      all == DOMAIN g.region[r].args
      live(q) == {k \in all : <<q, k>> \in alive}
  IN  IF owner = r THEN all
      ELSE CASE Kind(g, owner) = "gamma" -> UNION {live(q) : q \in Range(g.node[owner].subs)}
             [] Kind(g, owner) = "theta" -> live(r) \cup {k \in all : <<owner, k>> \in alive}
             [] OTHER -> {k \in all : ContextPosition(g, r, k) < 1} \cup live(r)
KeptOutputs(g, alive, n) ==
  CASE Kind(g, n) = "gamma" -> {k \in DOMAIN g.node[n].outs : <<n, k>> \in alive}
    [] Kind(g, n) = "theta" -> KeptArguments(g, alive, Body(g, n))
    [] OTHER -> DOMAIN g.node[n].outs
KeptInputs(g, alive, n) ==
  LET kept == KeptArguments(g, alive, Body(g, n))
  IN  CASE Kind(g, n) = "gamma" -> {1} \cup {k + 1 : k \in kept}
        [] Kind(g, n) = "theta" -> kept
        [] Kind(g, n) \in {"lambda", "delta"} -> {ContextPosition(g, Body(g, n), k) : k \in kept} \cap (Nat \ {0})
        [] OTHER -> DOMAIN g.node[n].ins
KeptResults(g, alive, r) ==
  LET owner == Owner(g, r)
  IN  IF owner = r THEN DOMAIN g.region[r].results
      ELSE CASE Kind(g, owner) = "gamma" -> KeptOutputs(g, alive, owner)
             [] Kind(g, owner) = "theta" -> {1} \cup {k + 1 : k \in KeptOutputs(g, alive, owner)}
             [] OTHER -> DOMAIN g.region[r].results

Chosen(s, K) == LET ks == SelectSeq([k \in DOMAIN s |-> k], LAMBDA k : k \in K) IN [i \in DOMAIN ks |-> s[ks[i]]]
(* Where an output or argument is once others have gone.                   *)
Renumbered(g, alive, o) ==
  LET kept == IF IsOutput(g, o) THEN KeptOutputs(g, alive, o[1]) ELSE KeptArguments(g, alive, o[1])
  IN  <<o[1], Cardinality({k \in kept : k <= o[2]})>>
RenumberedAll(g, alive, s) == [k \in DOMAIN s |-> Renumbered(g, alive, s[k])]
SweepNode(g, alive, n) ==
  [g.node[n] EXCEPT !.ins = RenumberedAll(g, alive, Chosen(@, KeptInputs(g, alive, n))),
                    !.outs = Chosen(@, KeptOutputs(g, alive, n))]
SweepRegion(g, alive, r) ==
  [g.region[r] EXCEPT !.args = Chosen(@, KeptArguments(g, alive, r)),
                      !.results = RenumberedAll(g, alive, Chosen(@, KeptResults(g, alive, r)))]
Sweep(g, alive) ==
  LET gone == InsideOf(g, {n \in DOMAIN g.node : IsDeadNode(g, alive, n)})
  IN  [g EXCEPT !.node = [n \in DOMAIN @ \ gone |-> SweepNode(g, alive, n)],
                !.region = [r \in DOMAIN @ \ gone |-> SweepRegion(g, alive, r)]]
EliminateDeadNodes(g) == Sweep(g, MarkRegion(g, Root(g)))
==============================================================================

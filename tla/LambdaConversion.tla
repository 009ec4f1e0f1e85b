--------------------------- MODULE LambdaConversion ---------------------------
(***************************************************************************)
(* The conversion of an annotated aggregation tree into the body of a      *)
(* lambda node (src/jlm/llvm/frontend/InterProceduralGraphConversion.cpp): *)
(* a block becomes the nodes of its operations, a branch a gamma node and  *)
(* a loop a theta node.                                                    *)
(*                                                                         *)
(* The state of the conversion of one region is the map from variables to  *)
(* outputs (the top of RegionalizedVariableMap), the nodes of the region   *)
(* so far, the next unused output, and whether every lookup found its      *)
(* variable.  An output is a number; the arguments of an entry variable    *)
(* in the subregions of a gamma share one, as only one subregion runs.     *)
(***************************************************************************)
EXTENDS Integers, Sequences, FiniteSets, SequencesExt, FiniteSetsExt

RECURSIVE Listed(_)
Listed(S) == IF S = {} THEN <<>>
             ELSE LET x == CHOOSE x \in S : TRUE IN <<x>> \o Listed(S \ {x})

Lookup(c, v) == IF v \in DOMAIN c.vm THEN c.vm[v] ELSE -1
Lookups(c, vars) == [k \in DOMAIN vars |-> Lookup(c, vars[k])]
Demands(c, V) == [c EXCEPT !.ok = @ /\ V \subseteq DOMAIN c.vm]
Insert(c, v, o) == [c EXCEPT !.vm = (v :> o) @@ @]
AddNodes(c, nodes) == [c EXCEPT !.nodes = @ \o nodes]

(* Each variable of the sequence becomes an output of its own.             *)
InsertNew(c, vars) ==
  [c EXCEPT !.vm = [v \in ToSet(vars) |-> c.n + SelectInSeq(vars, LAMBDA w : w = v) - 1] @@ @,
            !.n = @ + Len(vars)]

UndefNodes(c, vars) ==
  AddNodes(InsertNew(c, vars),
           [k \in DOMAIN vars |-> [op |-> "undef", in |-> <<>>, out |-> <<c.n + k - 1>>]])

(* ConvertThreeAddressCode: an assignment gives its variable the output of *)
(* the other, a branch is ignored, any other operation becomes a node.     *)
ConvertThreeAddressCode(c, t) ==
  CASE t.op = "assign" -> Insert(Demands(c, ToSet(t.in)), t.out[1], Lookup(c, t.in[1]))
    [] t.op = "branch" -> c
    [] OTHER ->
         AddNodes(InsertNew(Demands(c, ToSet(t.in)), t.out),
                  <<[t EXCEPT !.in = Lookups(c, @), !.out = [k \in DOMAIN @ |-> c.n + k - 1]]>>)

(* The block at the end of a tree, whose branch holds the predicate.       *)
RECURSIVE LastBlock(_)
LastBlock(node) == IF node.kids = <<>> THEN node ELSE LastBlock(Last(node.kids))
EndsInBranch(node) ==
  LET b == LastBlock(node)
  IN  b.kind = "block" /\ b.tacs # <<>> /\ Last(b.tacs).op = "branch"
Predicate(node) == Last(LastBlock(node).tacs).in[1]

Region(vm, n, ok) == [vm |-> vm, nodes |-> <<>>, n |-> n, ok |-> ok]

(* split is the sibling in front of node, which ends in the branch that a  *)
(* gamma takes its predicate from.                                         *)
RECURSIVE ConvertAggregationNode(_, _, _)

(* The variables that come from outside: the arguments of the function,    *)
(* and the globals in use, which become context variables of the lambda.   *)
RECURSIVE EntryVariables(_)
EntryVariables(node) ==
  IF node.kids # <<>> THEN EntryVariables(node.kids[1])
  ELSE node.tacs[1].out \o SelectSeq(node.tacs[1].globals, LAMBDA v : v \in node.demand.top)

ConvertEntry(c, node) ==
  UndefNodes(InsertNew(c, EntryVariables(node)), Listed(node.demand.top \ ToSet(EntryVariables(node))))

ConvertLinear(c, node) ==
  FoldLeftDomain(LAMBDA d, k : ConvertAggregationNode(d, node.kids[k], IF k = 1 THEN node ELSE node.kids[k - 1]),
                 c, node.kids)

WithSubregion(s, r) == [list |-> Append(s.list, r), n |-> r.n, ok |-> r.ok]

(* subs: the subregions, the next unused output, and ok.                   *)
GammaFinished(c, pred, entry, outputs, subs) ==
  LET exit == [j \in DOMAIN outputs |->
                 [out |-> subs.n + j - 1,
                  origins |-> [k \in DOMAIN subs.list |-> Lookup(subs.list[k], outputs[j])]]]
      gamma == [op |-> "gamma", pred |-> pred, entry |-> entry,
                subregions |-> [k \in DOMAIN subs.list |-> subs.list[k].nodes], exit |-> exit]
  IN  InsertNew([c EXCEPT !.nodes = Append(@, gamma), !.n = subs.n, !.ok = subs.ok], outputs)

(* Convert(branchaggnode): an entry variable for every input of the        *)
(* branch, an exit variable for every output.                              *)
ConvertBranchNode(c, node, split) ==
  LET inputs == Listed(node.demand.inputs)
      outputs == Listed(node.demand.outputs)
      d == Demands(c, node.demand.inputs \cup {Predicate(split)})
      arg == [v \in ToSet(inputs) |-> c.n + SelectInSeq(inputs, LAMBDA w : w = v) - 1]
      Subregion(s, kid) ==
        WithSubregion(s, Demands(ConvertAggregationNode(Region(arg, s.n, s.ok), kid, node), node.demand.outputs))
      entry == [k \in DOMAIN inputs |-> [origin |-> Lookup(c, inputs[k]), arg |-> arg[inputs[k]]]]
  IN  GammaFinished(c, Lookup(c, Predicate(split)), entry, outputs,
                    FoldLeft(Subregion, [list |-> <<>>, n |-> c.n + Len(inputs), ok |-> d.ok], node.kids))

(* r: the body.                                                            *)
ThetaFinished(c, vars, predicate, r) ==
  LET theta == [op |-> "theta", pred |-> Lookup(r, predicate), body |-> r.nodes,
                vars |-> [k \in DOMAIN vars |->
                           [init |-> c.vm[vars[k]], arg |-> c.n + k - 1,
                            result |-> Lookup(r, vars[k]), out |-> r.n + k - 1]]]
  IN  InsertNew([c EXCEPT !.nodes = Append(@, theta), !.n = r.n, !.ok = r.ok], vars)

(* Convert(loopaggnode): every variable of the loop becomes a loop         *)
(* variable, one that has no value yet begins undefined.                   *)
ConvertLoopNode(c, node) ==
  LET vars == Listed(node.demand.variables)
      d == UndefNodes(c, SelectSeq(vars, LAMBDA v : v \notin DOMAIN c.vm))
      body == ConvertAggregationNode(InsertNew(Region(<<>>, d.n, d.ok), vars), node.kids[1], node)
  IN  ThetaFinished(d, vars, Predicate(node), Demands(body, ToSet(vars) \cup {Predicate(node)}))

ConvertAggregationNode(c, node, split) ==
  CASE node.kind = "entry" -> ConvertEntry(c, node)
    [] node.kind = "exit" -> Demands(c, ToSet(node.tacs[1].in))
    [] node.kind = "block" -> FoldLeft(ConvertThreeAddressCode, c, node.tacs)
    [] node.kind = "linear" -> ConvertLinear(c, node)
    [] node.kind = "branch" ->
         IF EndsInBranch(split) THEN ConvertBranchNode(c, node, split) ELSE [c EXCEPT !.ok = FALSE]
    [] node.kind = "loop" ->
         IF EndsInBranch(node) THEN ConvertLoopNode(c, node) ELSE [c EXCEPT !.ok = FALSE]

ConvertAggregationTree(root) == ConvertAggregationNode(Region(<<>>, 0, TRUE), root, root)
=============================================================================

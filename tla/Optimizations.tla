---------------------------- MODULE Optimizations ----------------------------
(***************************************************************************)
(* The optimizations of a module (src/jlm/llvm/opt/OptimizationSequence    *)
(* .cpp): passes run one after the other, in any order.  A pass takes the  *)
(* nodes of the graph one at a time; agenda is what it still has to take.  *)
(***************************************************************************)
EXTENDS RvsdgExecution, CommonNodeElimination, LoopTransformations,
        MemoryStateEncoder
A == INSTANCE Andersen
S == INSTANCE Steensgaard

(* A set of [graph, entry, inputs, locations, passes, encodings]: passes is the length of sequences, encodings *)
(* are the encodings of memory states among them.                          *)
CONSTANT Programs

VARIABLES program, graph, pass, agenda, passes
vars == <<program, graph, pass, agenda, passes>>

(***************************************************************************)
(* Which nodes a pass takes.                                               *)
(***************************************************************************)
(* The nodes of the regions, those of its subregions before each.          *)
RECURSIVE InnerFirst(_, _)
InnerFirst(g, regions) ==
  FlattenSeq([i \in DOMAIN regions |->
    LET nodes == TopDown(g, regions[i])
    IN  FlattenSeq([k \in DOMAIN nodes |-> Append(InnerFirst(g, g.node[nodes[k]].subs), nodes[k])])])
Structural(g, nodes) == SelectSeq(nodes, LAMBDA n : ~IsSimple(g, n))
InRegions(g, regions) == Structural(g, FlattenSeq([i \in DOMAIN regions |-> TopDown(g, regions[i])]))

Encodings == {"Andersen-Agnostic", "Andersen-RegionAware", "Steensgaard-Agnostic", "Steensgaard-RegionAware"}
AgendaOf(p, g) ==
  CASE p \in {"redirect", "push", "invert"} -> Structural(g, InnerFirst(g, <<Root(g)>>))
    [] p = "reduce" -> InnerFirst(g, <<Root(g)>>)
    [] p = "pull" -> InRegions(g, <<Root(g)>>)
    [] p = "inline" -> SelectSeq(InRegions(g, <<Root(g)>>), LAMBDA n : Kind(g, n) = "lambda")
    [] p = "unroll" -> LoopsToUnroll(g, Root(g)).list
    [] p \in {"eliminate", "dead"} \cup Encodings -> <<Root(g)>>
Passes == {"redirect", "push", "invert", "reduce", "pull", "inline", "unroll", "eliminate", "dead"}

(***************************************************************************)
(* The steps                                                               *)
(***************************************************************************)
Init ==
  /\ program \in Programs /\ graph = program.graph
  /\ pass = "none" /\ agenda = <<>> /\ passes = 0

Begin ==
  /\ pass = "none" /\ passes < program.passes
  /\ \E p \in Passes \cup program.encodings :
       (p \in Encodings => CanEncode(graph)) /\ pass' = p /\ agenda' = AgendaOf(p, graph)
  /\ passes' = passes + 1
  /\ graph' = IF pass' = "reduce" THEN EnabledReductions(graph) ELSE graph
  /\ UNCHANGED program

Takes(p) == pass = p /\ agenda # <<>>
Proceeds(graphs) == graph' \in graphs /\ agenda' = Tail(agenda) /\ UNCHANGED <<program, pass, passes>>

Redirect == Takes("redirect") /\ Proceeds({RedirectInvariantValues(graph, Head(agenda))})
Eliminate == Takes("eliminate") /\ Proceeds({EliminateCommonNodes(graph, Head(agenda))})
PushOut == Takes("push") /\ Proceeds({Push(graph, Head(agenda))})
InvertLoop ==
  Takes("invert") /\ Proceeds(IF Kind(graph, Head(agenda)) = "theta" THEN Invert(graph, Head(agenda)) ELSE {graph})
EliminateDead == Takes("dead") /\ Proceeds({EliminateDeadNodes(graph)})
UnrollLoop == Takes("unroll") /\ Proceeds({Unroll(graph, Head(agenda))})
InlineFunction == Takes("inline") /\ Proceeds({Inline(graph, Head(agenda))})
(* A node that has been removed is not taken any more.                     *)
Reduce ==
  Takes("reduce") /\ Proceeds(IF Head(agenda) \in DOMAIN graph.node THEN Normalized(graph, Head(agenda)) ELSE {graph})
(* The subregions are taken as they are once nodes have been pulled in.    *)
PullInto ==
  /\ Takes("pull")
  /\ graph' = IF Kind(graph, Head(agenda)) = "gamma" THEN Pull(graph, Head(agenda)) ELSE graph
  /\ agenda' = InRegions(graph', graph'.node[Head(agenda)].subs) \o Tail(agenda)
  /\ UNCHANGED <<program, pass, passes>>

(* An alias analysis, the provision of memory nodes, and the encoding.     *)
PointsTo(g, p) ==
  IF p \in {"Andersen-Agnostic", "Andersen-RegionAware"} THEN A!Analyze(g) ELSE S!Analyze(g)
Provisioned(g, p, pointsTo) ==
  IF p \in {"Andersen-Agnostic", "Steensgaard-Agnostic"} THEN ProvisionAgnostic(g, pointsTo)
  ELSE ProvisionRegionAware(g, pointsTo)
EncodeWith(g, p, pointsTo) == Encode(g, pointsTo.targets, Provisioned(g, p, pointsTo))
EncodeMemoryStates == \E p \in Encodings : Takes(p) /\ Proceeds({EncodeWith(graph, p, PointsTo(graph, p))})

End == pass # "none" /\ agenda = <<>> /\ pass' = "none" /\ UNCHANGED <<program, graph, agenda, passes>>

Next ==
  \/ Begin \/ Redirect \/ Eliminate \/ PushOut \/ InvertLoop \/ UnrollLoop \/ InlineFunction \/ Reduce \/ PullInto
  \/ EliminateDead \/ EncodeMemoryStates \/ End
Spec == Init /\ [][Next]_vars

(***************************************************************************)
(* What the passes promise                                                 *)
(***************************************************************************)
Refines(new, old) ==
  old.odd = {} => /\ new.odd = {} /\ new.memory = old.memory
                  /\ \A k \in DOMAIN old.numbers : old.numbers[k] \in {Undef, new.numbers[k]}

(* After every step a call of the program's entry function gives the same  *)
(* numbers, leaves the same values in memory and shows the outside the     *)
(* same calls in the same order as before the first pass; no pass makes a  *)
(* loop endless, branches on an undefined value, or leaves two accesses to *)
(* one location without an order.                                          *)
SameBehaviour ==
  \A args \in program.inputs :
     Refines(Outcome(graph, program.entry, args, program.locations),
             Outcome(program.graph, program.entry, args, program.locations))

(* Every operand and result is in the region of its user, regions have no  *)
(* cycles, and the types on both sides of every variable of a structural   *)
(* node agree.                                                             *)
InScope(g, o, r) ==
  \/ o[1] \in NodesIn(g, r) /\ o[2] \in DOMAIN g.node[o[1]].outs
  \/ o[1] = r /\ o[2] \in DOMAIN g.region[r].args
VariablesAgree(g, n) ==
  LET node == g.node[n]  ins == Types(g, node.ins)
      results(r) == Types(g, g.region[r].results)
  IN  CASE Kind(g, n) = "gamma" ->
             \A r \in Range(node.subs) : g.region[r].args = Tail(ins) /\ results(r) = node.outs
        [] Kind(g, n) = "theta" ->
             /\ g.region[Body(g, n)].args = ins /\ node.outs = ins
             /\ Tail(results(Body(g, n))) = ins
        [] OTHER -> TRUE
WellFormed ==
  /\ \A n \in DOMAIN graph.node :
       /\ graph.node[n].home \in DOMAIN graph.region
       /\ \A o \in Range(graph.node[n].ins) : InScope(graph, o, graph.node[n].home)
       /\ \A i \in DOMAIN graph.node[n].subs : Owner(graph, Sub(graph, n, i)) = n
       /\ VariablesAgree(graph, n)
  /\ \A r \in DOMAIN graph.region :
       /\ \A o \in Range(graph.region[r].results) : InScope(graph, o, r)
       /\ Len(TopDown(graph, r)) = Cardinality(NodesIn(graph, r))

(* At its end a pass has left nothing that it would do: redirection of     *)
(* invariant values, elimination of dead nodes and of common nodes,        *)
(* pulling and inlining, run again on what they made, change nothing.      *)
Nodes(kind) == {n \in DOMAIN graph.node : Kind(graph, n) = kind}
Settles ==
  agenda = <<>> =>
    CASE pass = "redirect" -> \A n \in DOMAIN graph.node : RedirectInvariantValues(graph, n) = graph
      [] pass = "dead" -> EliminateDeadNodes(graph) = graph
      [] pass = "eliminate" -> EliminateCommonNodes(graph, Root(graph)) = graph
      [] pass = "pull" -> \A n \in Nodes("gamma") : Pull(graph, n) = graph
      [] pass = "inline" -> \A n \in Nodes("lambda") : Inline(graph, n) = graph
      [] OTHER -> TRUE
==============================================================================

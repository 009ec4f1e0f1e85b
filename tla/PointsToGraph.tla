---------------------------- MODULE PointsToGraph ----------------------------
(***************************************************************************)
(* What the alias analyses find out (src/jlm/llvm/opt/alias-analyses/      *)
(* PointsToGraph.hpp): a record [targets, escaped].  targets: for each     *)
(* register, an output or argument that holds a pointer, the memory nodes  *)
(* it may point to.  escaped: the memory nodes whose addresses the outside *)
(* may know.  A memory node is named by the register that holds its        *)
(* address where it is made: the first output of an alloca, malloc, lambda *)
(* or delta node, or an argument of the root region, an import.  External  *)
(* is all memory outside the module.                                       *)
(*                                                                         *)
(* The edges from memory nodes to memory nodes are left out: no pass looks *)
(* at them.                                                                *)
(***************************************************************************)
EXTENDS Calls

External == <<0, 0>>

IsPointer(g, o) == TypeOf(g, o) = "ptr"
Pointers(g, origins) == SelectSeq(origins, LAMBDA o : IsPointer(g, o))
Imports(g) == Pointers(g, Arguments(g, Root(g)))
Exports(g) == Pointers(g, g.region[Root(g)].results)
Allocating == {"alloca", "malloc", "delta", "lambda"}
NodesOf(g, kinds) == {n \in DOMAIN g.node : Kind(g, n) \in kinds}
Allocated(g, kinds) == {<<n, 1>> : n \in NodesOf(g, kinds)}
MemoryNodes(g) == Allocated(g, Allocating) \cup Range(Imports(g))

(* The arguments of a lambda node's function, and its context variables.   *)
ContextArguments(g, n) ==
  LET args == Arguments(g, Body(g, n)) IN SubSeq(args, Len(args) - Len(g.node[n].ins) + 1, Len(args))
FunctionArguments(g, n) ==
  LET args == Arguments(g, Body(g, n)) IN SubSeq(args, 1, Len(args) - Len(g.node[n].ins))
Results(g, r) == g.region[r].results
IsExported(g, n) == \E o \in Range(Results(g, Root(g))) : o = <<n, 1>>

(* The operands of a call and its results have the types of the function.  *)
Operands(g, n) == Tail(g.node[n].ins)
CallsAsDeclared(g, call, lambda) ==
  /\ Types(g, Operands(g, call)) = Types(g, FunctionArguments(g, lambda))
  /\ g.node[call].outs = Types(g, Results(g, Body(g, lambda)))

------------------------------------------------------------------------------
(***************************************************************************)
(* Which memory states a region and a call need (src/jlm/llvm/opt/         *)
(* alias-analyses/AgnosticMemoryNodeProvider.cpp and                       *)
(* RegionAwareMemoryNodeProvider.cpp): a record [regions, calls], for each *)
(* region and each call the memory nodes whose states go in and come out.  *)
(* p is a points-to graph.                                                 *)
(***************************************************************************)

(* All memory nodes everywhere.                                            *)
ProvisionAgnostic(g, p) ==
  LET all == MemoryNodes(g) \cup {External}
  IN  [regions |-> [r \in DOMAIN g.region |-> all], calls |-> [n \in NodesOf(g, {"call"}) |-> all]]

(***************************************************************************)
(* Region-aware: a region needs the memory nodes that what runs in it      *)
(* refers to.  A summary is [nodes, unknown], the memory nodes and the     *)
(* calls of which nothing is known.                                        *)
(***************************************************************************)
IsUnknownCall(g, n) == Kind(g, n) = "call" /\ ClassifyCall(g, n) = "IndirectCall"
OutsideNodes(p) == p.escaped \cup {External}
AnnotateCall(g, p, n) ==
  CASE ClassifyCall(g, n) = "ExternalCall" -> OutsideNodes(p)
    [] ClassifyCall(g, n) = "IndirectCall" -> {External}
    [] OTHER -> {}
AnnotateSimpleNode(g, p, n) ==
  LET ins == g.node[n].ins
  IN  CASE Kind(g, n) \in {"load", "store"} -> p.targets[ins[1]]
        [] Kind(g, n) = "memcpy" -> p.targets[ins[1]] \cup p.targets[ins[2]]
        [] Kind(g, n) \in {"alloca", "malloc"} -> {<<n, 1>>}
        [] Kind(g, n) = "call" -> AnnotateCall(g, p, n)
        [] OTHER -> {}
HasSummary(g, r) == r # Root(g) /\ Kind(g, Owner(g, r)) # "delta"
AnnotateRegion(g, p, r) ==
  [nodes |-> UNION {AnnotateSimpleNode(g, p, n) : n \in NodesIn(g, r)},
   unknown |-> {n \in NodesIn(g, r) : IsUnknownCall(g, n)}]
Annotate(g, p) == [r \in {r \in DOMAIN g.region : HasSummary(g, r)} |-> AnnotateRegion(g, p, r)]

(* What runs in a region: the subregions of its nodes, and the functions   *)
(* that its direct calls call.                                             *)
DirectCallees(g, r) ==
  {Body(g, CalledLambda(g, n)) :
     n \in {n \in NodesIn(g, r) : Kind(g, n) = "call" /\ ClassifyCall(g, n) = "NonRecursiveDirectCall"}}
RunsDirectly(g, R) ==
  UNION {UNION {Range(g.node[n].subs) : n \in NodesIn(g, r)} \cup DirectCallees(g, r) : r \in R}
RECURSIVE RunsIn(_, _)
RunsIn(g, R) == IF RunsDirectly(g, R) \subseteq R THEN R ELSE RunsIn(g, R \cup RunsDirectly(g, R))

Propagate(g, summaries) ==
  [r \in DOMAIN summaries |->
     LET R == RunsIn(g, {r})
     IN  [nodes |-> UNION {summaries[q].nodes : q \in R}, unknown |-> UNION {summaries[q].unknown : q \in R}]]

(* An unknown call may refer to all that the functions it is called from   *)
(* refer to.                                                               *)
ExtractTailNodes(g) == {n \in NodesIn(g, Root(g)) : \A o \in Range(Outputs(g, n)) : NodeUsers(g, o) = {}}
TailLambdas(g) == ExtractTailNodes(g) \cap NodesOf(g, {"lambda"})
ResolveUnknownMemoryNodeReferences(g, summaries) ==
  LET callers(r) == {Body(g, n) : n \in {n \in TailLambdas(g) :
                                           \E m \in summaries[Body(g, n)].unknown : g.node[m].home = r}}
  IN  [r \in DOMAIN summaries |-> [summaries[r] EXCEPT !.nodes = @ \cup UNION {summaries[q].nodes : q \in callers(r)}]]

GetCallNodes(g, p, summaries, n) ==
  CASE ClassifyCall(g, n) = "NonRecursiveDirectCall" -> summaries[Body(g, CalledLambda(g, n))].nodes
    [] ClassifyCall(g, n) = "ExternalCall" -> OutsideNodes(p)
    [] ClassifyCall(g, n) = "IndirectCall" -> summaries[g.node[n].home].nodes
Summarized(g, p, summaries) ==
  [regions |-> [r \in DOMAIN summaries |-> summaries[r].nodes],
   calls |-> [n \in NodesOf(g, {"call"}) |-> GetCallNodes(g, p, summaries, n)]]
ProvisionRegionAware(g, p) ==
  Summarized(g, p, Propagate(g, ResolveUnknownMemoryNodeReferences(g, Propagate(g, Annotate(g, p)))))

(* A gamma node needs what one of its subregions needs.                    *)
GammaNodes(g, provisioning, n) == UNION {provisioning.regions[r] : r \in Range(g.node[n].subs)}
==============================================================================

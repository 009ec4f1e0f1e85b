-------------------------- MODULE MemoryStateEncoder --------------------------
(***************************************************************************)
(* Encoding of memory states (src/jlm/llvm/opt/alias-analyses/             *)
(* MemoryStateEncoder.cpp): every memory node gets a state of its own, and *)
(* loads, stores, calls and structural nodes are linked by the states of   *)
(* the memory nodes they may touch.  What they were linked by before is    *)
(* dead in the end and removed.                                            *)
(*                                                                         *)
(* The state of the encoding is [graph, states, targets].  states: for     *)
(* each region entered, the origin that holds the current state of each of *)
(* its memory nodes.  targets: what the addresses may point to, the new    *)
(* ones as well.  p is the provisioning.                                   *)
(***************************************************************************)
EXTENDS PointsToGraph, DeadNodes

(* Memory nodes in an order of theirs, the same everywhere.                *)
IsBefore(a, b) == a[1] < b[1] \/ (a[1] = b[1] /\ a[2] < b[2])
RECURSIVE Listed(_)
Listed(nodes) ==
  IF nodes = {} THEN <<>>
  ELSE LET first == CHOOSE a \in nodes : \A b \in nodes \ {a} : IsBefore(a, b) IN <<first>> \o Listed(nodes \ {first})

GetStates(c, r, nodes) == [k \in DOMAIN nodes |-> c.states[r][nodes[k]]]
ReplaceStates(c, r, nodes, states) ==
  [c EXCEPT !.states[r] = [m \in DOMAIN @ |-> IF m \in Range(nodes) THEN states[SelectInSeq(nodes, LAMBDA l : l = m)]
                                              ELSE @[m]]]
PushRegion(c, r, nodes, states) ==
  [c EXCEPT !.states = (r :> [m \in Range(nodes) |-> states[SelectInSeq(nodes, LAMBDA l : l = m)]]) @@ @]
Mems(count) == [k \in 1 .. count |-> "mem"]

(* A new node with a state for each of the memory nodes, the state outputs *)
(* of which are these from then on; the first of them is output first.     *)
WithNode(c, home, op, ins, outs) == [c EXCEPT !.graph = NewNode(@, home, op, ins, outs)]
Linked(c, n, ins, outs, nodes) ==
  LET g == c.graph  home == g.node[n].home
      states == [k \in DOMAIN nodes |-> <<g.fresh, Len(outs) + k>>]
  IN  ReplaceStates(WithNode(c, home, g.node[n].op, ins \o GetStates(c, home, nodes), outs \o Mems(Len(nodes))),
                    home, nodes, states)

(***************************************************************************)
(* Simple nodes                                                            *)
(***************************************************************************)
EncodeAlloca(c, n) == ReplaceStates(c, c.graph.node[n].home, << <<n, 1>> >>, << <<n, 2>> >>)
(* One memory node stands for all that the node allocates.                 *)
EncodeMalloc(c, n) ==
  LET home == c.graph.node[n].home
  IN  ReplaceStates(WithNode(c, home, [kind |-> "merge"], <<<<n, 2>>, c.states[home][<<n, 1>>]>>, <<"mem">>),
                    home, << <<n, 1>> >>, << <<c.graph.fresh, 1>> >>)

EncodeLoad(c, n) ==
  LET g == c.graph  address == g.node[n].ins[1]  new == <<g.fresh, 1>>
      linked == Linked(c, n, <<address>>, <<TypeOf(g, <<n, 1>>)>>, Listed(c.targets[address]))
  IN  [linked EXCEPT !.graph = DivertTo(@, <<n, 1>>, new),
                     !.targets = IF IsPointer(g, <<n, 1>>) THEN (new :> @[<<n, 1>>]) @@ @ ELSE @]
EncodeStore(c, n) ==
  LET ins == c.graph.node[n].ins IN Linked(c, n, <<ins[1], ins[2]>>, <<>>, Listed(c.targets[ins[1]]))

(* A memory node that both addresses may point to has two states after it, *)
(* the source's counts.                                                    *)
EncodeMemcpy(c, n) ==
  LET g == c.graph  home == g.node[n].home
      dst == g.node[n].ins[1]  src == g.node[n].ins[2]
      to == Listed(c.targets[dst])  from == Listed(c.targets[src])
      state(k) == <<g.fresh, k>>
      made == WithNode(c, home, g.node[n].op, <<dst, src>> \o GetStates(c, home, to \o from), Mems(Len(to \o from)))
  IN  ReplaceStates(ReplaceStates(made, home, to, [k \in DOMAIN to |-> state(k)]),
                    home, from, [k \in DOMAIN from |-> state(Len(to) + k)])

(* All states go into the call as one, and come out of it.                 *)
StateInput(g, n) == SelectInSeq(g.node[n].ins, LAMBDA o : TypeOf(g, o) = "mem")
StateOutput(g, n) == <<n, SelectInSeq(g.node[n].outs, LAMBDA t : t = "mem")>>
EncodeCallEntry(c, n, nodes) ==
  LET g == c.graph  home == g.node[n].home
  IN  [WithNode(c, home, [kind |-> "callEntry"], GetStates(c, home, nodes), <<"mem">>) EXCEPT
         !.graph.node[n].ins[StateInput(g, n)] = <<g.fresh, 1>>]
EncodeCallExit(c, n, nodes) ==
  LET g == c.graph  home == g.node[n].home
  IN  ReplaceStates(WithNode(c, home, [kind |-> "callExit"], <<StateOutput(g, n)>>, Mems(Len(nodes))),
                    home, nodes, [k \in DOMAIN nodes |-> <<g.fresh, k>>])
EncodeCall(c, n, p) ==
  LET nodes == Listed(p.calls[n]) IN EncodeCallExit(EncodeCallEntry(c, n, nodes), n, nodes)

EncodeSimpleNode(c, n, p) ==
  CASE Kind(c.graph, n) = "alloca" -> EncodeAlloca(c, n)
    [] Kind(c.graph, n) = "malloc" -> EncodeMalloc(c, n)
    [] Kind(c.graph, n) = "load" -> EncodeLoad(c, n)
    [] Kind(c.graph, n) = "store" -> EncodeStore(c, n)
    [] Kind(c.graph, n) = "call" -> EncodeCall(c, n, p)
    [] Kind(c.graph, n) = "memcpy" -> EncodeMemcpy(c, n)
    [] OTHER -> c

(***************************************************************************)
(* Structural nodes                                                        *)
(***************************************************************************)
RECURSIVE EncodeNodes(_, _, _)
EncodeRegion(c, r, p) == EncodeNodes(c, TopDown(c.graph, r), p)
RECURSIVE EncodeRegions(_, _, _)
EncodeRegions(c, regions, p) ==
  IF regions = <<>> THEN c ELSE EncodeRegions(EncodeRegion(c, Head(regions), p), Tail(regions), p)

(* The function's state is split, and its user waits for the split.        *)
StateArgument(g, n) == <<Body(g, n), SelectInSeq(g.region[Body(g, n)].args, LAMBDA t : t = "mem")>>
StateResult(g, n) == SelectInSeq(g.region[Body(g, n)].results, LAMBDA o : TypeOf(g, o) = "mem")
EncodeLambdaEntry(c, n, nodes) ==
  LET g == c.graph  r == Body(g, n)  arg == StateArgument(g, n)
      states == [k \in DOMAIN nodes |-> <<g.fresh, k>>]
      merged == <<g.fresh + 1, 1>>
      split(h) == NewNode(h, r, [kind |-> "lambdaEntry"], <<arg>>, Mems(Len(nodes)))
  IN  PushRegion([c EXCEPT !.graph =
                    IF nodes = <<>> THEN split(@)
                    ELSE NewNode(split(DivertTo(@, arg, merged)), r, [kind |-> "merge"], states, <<"mem">>)],
                 r, nodes, states)
EncodeLambdaExit(c, n, nodes) ==
  LET g == c.graph  r == Body(g, n)
  IN  [WithNode(c, r, [kind |-> "lambdaExit"], GetStates(c, r, nodes), <<"mem">>) EXCEPT
         !.graph.region[r].results[StateResult(g, n)] = <<g.fresh, 1>>]
EncodeLambda(c, n, p) ==
  LET r == Body(c.graph, n)  nodes == Listed(p.regions[r])
  IN  EncodeLambdaExit(EncodeRegion(EncodeLambdaEntry(c, n, nodes), r, p), n, nodes)

(* The states become variables of the gamma node.                          *)
RECURSIVE PushRegions(_, _, _)
PushRegions(c, regions, nodes) ==
  IF regions = <<>> THEN c
  ELSE LET r == Head(regions)  before == Len(c.graph.region[r].args) - Len(nodes)
       IN  PushRegions(PushRegion(c, r, nodes, [k \in DOMAIN nodes |-> <<r, before + k>>]), Tail(regions), nodes)
EncodeGammaEntry(c, n, nodes) ==
  LET g == c.graph
  IN  PushRegions([c EXCEPT !.graph = AddEntryVars(@, n, GetStates(c, g.node[n].home, nodes))], g.node[n].subs, nodes)
EncodeGammaExit(c, n, nodes) ==
  LET g == c.graph  node == g.node[n]
  IN  ReplaceStates([c EXCEPT !.graph = AddExitVars(@, n, [i \in DOMAIN node.subs |-> GetStates(c, node.subs[i], nodes)])],
                    node.home, nodes, [k \in DOMAIN nodes |-> <<n, Len(node.outs) + k>>])
EncodeGamma(c, n, p) ==
  LET nodes == Listed(GammaNodes(c.graph, p, n))
  IN  EncodeGammaExit(EncodeRegions(EncodeGammaEntry(c, n, nodes), c.graph.node[n].subs, p), n, nodes)

(* ... and loop variables of the theta node.                               *)
EncodeThetaEntry(c, n, nodes) ==
  LET g == c.graph
  IN  PushRegions([c EXCEPT !.graph = AddLoopVars(@, n, GetStates(c, g.node[n].home, nodes))], g.node[n].subs, nodes)
EncodeThetaExit(c, n, nodes) ==
  LET g == c.graph  r == Body(g, n)
      before == Len(g.node[n].outs) - Len(nodes)
      kept == SubSeq(g.region[r].results, 1, before + 1)
  IN  ReplaceStates([c EXCEPT !.graph.region[r].results = kept \o GetStates(c, r, nodes)],
                    g.node[n].home, nodes, [k \in DOMAIN nodes |-> <<n, before + k>>])
EncodeTheta(c, n, p) ==
  LET r == Body(c.graph, n)  nodes == Listed(p.regions[r])
  IN  EncodeThetaExit(EncodeRegion(EncodeThetaEntry(c, n, nodes), r, p), n, nodes)

EncodeNode(c, n, p) ==
  CASE Kind(c.graph, n) = "lambda" -> EncodeLambda(c, n, p)
    [] Kind(c.graph, n) = "gamma" -> EncodeGamma(c, n, p)
    [] Kind(c.graph, n) = "theta" -> EncodeTheta(c, n, p)
    [] Kind(c.graph, n) = "delta" -> c
    [] OTHER -> EncodeSimpleNode(c, n, p)
EncodeNodes(c, nodes, p) ==
  IF nodes = <<>> THEN c ELSE EncodeNodes(EncodeNode(c, Head(nodes), p), Tail(nodes), p)

Encode(g, targets, p) ==
  EliminateDeadNodes(EncodeRegion([graph |-> g, states |-> <<>>, targets |-> targets], Root(g), p).graph)

(* A function whose memory state has one user can be encoded.              *)
HasOneStateUser(g, n) ==
  /\ "mem" \in Range(g.region[Body(g, n)].args) /\ StateResult(g, n) > 0
  /\ Cardinality(Users(g, StateArgument(g, n))) = 1
CanEncode(g) == g.mutable = {} /\ \A n \in NodesOf(g, {"lambda"}) : HasOneStateUser(g, n)
==============================================================================

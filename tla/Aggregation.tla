----------------------------- MODULE Aggregation -----------------------------
(***************************************************************************)
(* The aggregation of a proper structured control flow graph into a tree   *)
(* (src/jlm/llvm/ir/aggregation.cpp): blocks, sequences (linear), branches *)
(* and tail-controlled loops.                                              *)
(*                                                                         *)
(* The state of the aggregation is the graph, the tree of every node of it *)
(* (the aggregation map), the entry and the exit of the region at hand,    *)
(* and whether an assertion failed.  A reduced subgraph keeps the name of  *)
(* its first node, where the code makes a new one.                         *)
(***************************************************************************)
EXTENDS ControlFlowGraph

Leaf(kind, tacs) == [kind |-> kind, kids |-> <<>>, tacs |-> tacs]
Tree(kind, kids) == [kind |-> kind, kids |-> kids, tacs |-> <<>>]

is_linear(s, n) == NumOut(s.g, n) = 1 /\ NumIn(s.g, s.g.succ[n][1]) = 1

reduce_linear(s, source) ==
  LET sink == s.g.succ[source][1]
  IN  [s EXCEPT !.g = RemoveNodes([s.g EXCEPT !.succ[source] = s.g.succ[sink]], {sink}),
                !.map[source] = Tree("linear", <<s.map[source], s.map[sink]>>),
                !.exit = IF sink = s.exit THEN source ELSE s.exit]

reduce_branch(s, split) ==
  LET alternatives == s.g.succ[split]
      join == s.g.succ[alternatives[1]][1]
      branch == Tree("branch", [i \in DOMAIN alternatives |-> s.map[alternatives[i]]])
  IN  [s EXCEPT !.g = RemoveNodes([s.g EXCEPT !.succ[split] = <<join>>], ToSet(alternatives)),
                !.map[split] = Tree("linear", <<s.map[split], branch>>)]

Failed(s) == [s EXCEPT !.ok = FALSE]

(* aggregate_acyclic_sese: reduces what begins at node, up to the exit of  *)
(* the region or to a node where several alternatives meet.                *)
RECURSIVE aggregate_acyclic_sese(_, _)
aggregate_acyclic_sese(s, node) ==
  LET Alternatives[i \in 0 .. NumOut(s.g, node)] ==
        IF i = 0 THEN s
        ELSE LET t == Alternatives[i - 1] IN aggregate_acyclic_sese(t, t.g.succ[node][i])
      t == Alternatives[NumOut(s.g, node)]
  IN  IF ~s.ok THEN s
      ELSE IF s.entry = s.exit THEN [s EXCEPT !.ok = (node = s.entry)]
      ELSE IF node = s.exit THEN s
      ELSE IF is_linear(s, node) THEN aggregate_acyclic_sese(reduce_linear(s, node), node)
      ELSE IF NumOut(s.g, node) > 1
      THEN IF t.ok /\ is_proper_branch(t.g, node)
           THEN aggregate_acyclic_sese(reduce_branch(t, node), node)
           ELSE Failed(t)
      ELSE IF NumIn(s.g, node) = 1 /\ NumOut(s.g, node) = 1
      THEN aggregate_acyclic_sese(s, s.g.succ[node][1])
      ELSE IF NumIn(s.g, node) > 1 THEN s
      ELSE Failed(s)

(* aggregate: first every loop of the region loses its repetition edge and *)
(* becomes one node, then the acyclic rest does.                           *)
OfOneNode(s) == [s EXCEPT !.ok = @ /\ s.entry = s.exit]
AsLoop(s) == [s EXCEPT !.map[s.entry] = Tree("loop", <<@>>)]

RECURSIVE aggregate_sese(_, _, _)
aggregate_sese(s, entry, exit) ==
  LET sccs == find_sccs(s.g, entry, exit)
      reduce_loop(t, scc) ==
        LET struct == sccstructure(t.g, scc)
            ne == The(struct.enodes)
            nx == The(struct.xedges)[1]
            redge == The(struct.redges)
        IN  IF ~is_tcloop(struct) THEN Failed(t)
            ELSE AsLoop(aggregate_sese([t EXCEPT !.g.succ[nx] = RemoveAt(@, redge[2])], ne, nx))
      loops == FoldLeft(LAMBDA t, scc : IF t.ok THEN reduce_loop(t, scc) ELSE t, s, sccs)
  IN  OfOneNode(aggregate_acyclic_sese([loops EXCEPT !.entry = entry, !.exit = exit], entry))

Root(s) == [ok |-> s.ok, root |-> s.map[s.entry]]

aggregate(g) ==
  LET Kind(n) == CASE n = Entry -> "entry" [] n = Exit -> "exit" [] OTHER -> "block"
  IN  Root(aggregate_sese([g |-> g, map |-> [n \in Nodes(g) |-> Leaf(Kind(n), g.code[n])],
                           entry |-> Entry, exit |-> Exit, ok |-> TRUE], Entry, Exit))

(* aggnode::normalize: a sequence takes the children of the sequences      *)
(* among its children.                                                     *)
RECURSIVE Flat(_)
Flat(node) ==
  LET Of[k \in 0 .. Len(node.kids)] ==
        IF k = 0 THEN <<>>
        ELSE Of[k - 1] \o (IF node.kids[k].kind = "linear" THEN Flat(node.kids[k])
                                                           ELSE <<node.kids[k]>>)
  IN  Of[Len(node.kids)]

RECURSIVE normalize(_)
normalize(node) ==
  LET kids == IF node.kind = "linear" THEN Flat(node) ELSE node.kids
  IN  [node EXCEPT !.kids = [k \in DOMAIN kids |-> normalize(kids[k])]]

(***************************************************************************)
(* Annotation (src/jlm/llvm/ir/Annotation.cpp).  AnnotateReadWrite goes up *)
(* the tree: the variables a node reads before it writes them, those it    *)
(* may write and those it writes on every path.                            *)
(***************************************************************************)
ReadsWrites(reads, all, full) == [reads |-> reads, all |-> all, full |-> full]

(* What a part does before the rest.                                       *)
Before(part, rest) == ReadsWrites((rest.reads \ part.full) \cup part.reads,
                                  rest.all \cup part.all, rest.full \cup part.full)

Nothing == ReadsWrites({}, {}, {})

(* An assignment reads its second operand and writes its first.            *)
TacReadsWrites(t) == ReadsWrites(ToSet(t.in), ToSet(t.out), ToSet(t.out))

(* The entry writes the arguments of the function, the exit reads its      *)
(* results.                                                                *)
RECURSIVE AnnotateReadWrite(_)
AnnotateReadWrite(node) ==
  LET kids == <<>> \o [k \in DOMAIN node.kids |-> AnnotateReadWrite(node.kids[k])]
      Union(set(_)) == UNION {set(kids[k].rw) : k \in DOMAIN kids}
      rw == CASE node.kind \in {"entry", "block", "exit"} ->
                   FoldRight(Before, [k \in DOMAIN node.tacs |-> TacReadsWrites(node.tacs[k])], Nothing)
              [] node.kind = "linear" ->
                   FoldRight(Before, [k \in DOMAIN kids |-> kids[k].rw], Nothing)
              [] node.kind = "branch" ->
                   ReadsWrites(Union(LAMBDA x : x.reads), Union(LAMBDA x : x.all),
                               {v \in kids[1].rw.full : \A k \in DOMAIN kids : v \in kids[k].rw.full})
              [] node.kind = "loop" -> kids[1].rw
  IN  [kind |-> node.kind, kids |-> kids, tacs |-> node.tacs, rw |-> rw]

(***************************************************************************)
(* AnnotateDemandSet goes back from the exit with the variables demanded   *)
(* there: in and out are the demand before and behind a node.  A branch    *)
(* has as outputs what is demanded and it may write, as inputs what it     *)
(* reads and what it may leave unwritten; the variables of a loop are what *)
(* is demanded behind it and what it reads.                                *)
(***************************************************************************)
DemandAfter(node, out) == (out \ node.rw.full) \cup node.rw.reads

RECURSIVE AnnotateDemandSet(_, _)
AnnotateDemandSet(node, out) ==
  LET outputs == out \cap node.rw.all
      inputs == DemandAfter(node, outputs)
      variables == out \cup node.rw.reads
      Children[k \in 1 .. Len(node.kids) + 1] ==
        IF k > Len(node.kids) THEN [kids |-> <<>>, in |-> out]
        ELSE LET behind == Children[k + 1]
                 kid == AnnotateDemandSet(node.kids[k], behind.in)
             IN  [kids |-> <<kid>> \o behind.kids, in |-> kid.in]
      children == Children[1]
      Annotated(kids, in, demand) ==
        [kind |-> node.kind, kids |-> kids, tacs |-> node.tacs, in |-> in, demand |-> demand]
  IN  CASE node.kind = "entry" -> Annotated(<<>>, out \ node.rw.full, [top |-> out \ node.rw.full])
        [] node.kind = "exit" -> Annotated(<<>>, out \cup node.rw.reads, <<>>)
        [] node.kind = "block" -> Annotated(<<>>, DemandAfter(node, out), <<>>)
        [] node.kind = "linear" -> Annotated(children.kids, DemandAfter(node, children.in), <<>>)
        [] node.kind = "branch" ->
             Annotated([k \in DOMAIN node.kids |-> AnnotateDemandSet(node.kids[k], outputs)],
                       out \cup inputs, [inputs |-> inputs, outputs |-> outputs])
        [] node.kind = "loop" ->
             LET body == AnnotateDemandSet(node.kids[1], variables)
             IN  Annotated(<<body>>, body.in, [variables |-> variables])

Annotate(tree) == AnnotateDemandSet(AnnotateReadWrite(tree), {})
=============================================================================

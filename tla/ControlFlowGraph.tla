------------------------- MODULE ControlFlowGraph -------------------------
(***************************************************************************)
(* The control flow graphs of the LLVM frontend and the operations on them *)
(* that every later stage uses: edges, strongly connected components and   *)
(* their structure, straightening, purging, pruning, and the reduction     *)
(* that recognises a proper structured graph                               *)
(* (src/jlm/llvm/ir/cfg-node.cpp, cfg-structure.cpp).                      *)
(*                                                                         *)
(* A graph is a record: succ[n] is the sequence of sinks of the outgoing   *)
(* edges of node n, code[n] its three-address code.  An edge is named by   *)
(* its source and its index there, a name that diverting it keeps.  The    *)
(* incoming edges of a node are derived, as the code keeps both ends of an *)
(* edge in step.  The code goes over sets of nodes and edges in the order  *)
(* of their addresses; the definitions take one fixed order.               *)
(***************************************************************************)
EXTENDS Integers, Sequences, FiniteSets, SequencesExt, FiniteSetsExt

Entry == 0
Exit == -1

Nodes(g) == DOMAIN g.succ
Blocks(g) == Nodes(g) \ {Entry, Exit}

OutEdges(g, n) == {n} \X DOMAIN g.succ[n]
Edges(g) == UNION {OutEdges(g, n) : n \in Nodes(g)}
Sink(g, e) == g.succ[e[1]][e[2]]
InEdges(g, n) == {e \in Edges(g) : Sink(g, e) = n}
NumIn(g, n) == Cardinality(InEdges(g, n))
NumOut(g, n) == Len(g.succ[n])

Fresh(g) == 1 + Max(Nodes(g))

(* basic_block::create, and add_outedge for each of the sinks.             *)
AddNode(g, tacs, sinks) ==
  [succ |-> Fresh(g) :> sinks @@ g.succ, code |-> Fresh(g) :> tacs @@ g.code]

(* cfg_edge::divert for a set of edges, cfg_node::divert_inedges.          *)
Divert(g, E, n) ==
  [g EXCEPT !.succ = [m \in Nodes(g) |-> [i \in DOMAIN g.succ[m] |->
                        IF <<m, i>> \in E THEN n ELSE g.succ[m][i]]]]
DivertInEdges(g, n, m) == Divert(g, InEdges(g, n), m)

(* cfg_edge::split, with code for the new block.                           *)
Split(g, e, tacs) == AddNode(Divert(g, {e}, Fresh(g)), tacs, <<Sink(g, e)>>)

(* Each edge e of the domain of code is diverted to n and split by a block *)
(* with code[e].                                                           *)
RECURSIVE Intercept(_, _, _)
Intercept(g, code, n) ==
  IF DOMAIN code = {} THEN g
  ELSE LET e == CHOOSE e \in DOMAIN code : TRUE
       IN  Intercept(Split(Divert(g, {e}, n), e, code[e]),
                     [d \in DOMAIN code \ {e} |-> code[d]], n)

RemoveNodes(g, N) == [succ |-> [n \in Nodes(g) \ N |-> g.succ[n]],
                      code |-> [n \in Nodes(g) \ N |-> g.code[n]]]

SetCode(g, n, tacs) == [g EXCEPT !.code[n] = tacs]

(* basic_block::insert_before_branch *)
InsertBeforeBranch(g, n, t) ==
  LET tacs == g.code[n]
  IN  IF tacs # <<>> /\ Last(tacs).op = "branch"
      THEN SetCode(g, n, Front(tacs) \o <<t, Last(tacs)>>)
      ELSE SetCode(g, n, Append(tacs, t))

(***************************************************************************)
(* Strongly connected components                                           *)
(***************************************************************************)
RECURSIVE Closure(_, _, _)
Closure(next, seen, front) ==
  IF front = {} THEN seen
  ELSE LET new == UNION {next[n] : n \in front} \ seen
       IN  Closure(next, seen \cup new, new)

(* The components of the region from entry to exit, whose outgoing edges   *)
(* are not followed; a single node counts only with an edge to itself.     *)
(* Tarjan's algorithm delivers a component after the ones it leads to.     *)
find_sccs(g, entry, exit) ==
  LET next == [n \in Nodes(g) |-> IF n = exit THEN {} ELSE ToSet(g.succ[n])]
      region == Closure(next, {entry}, {entry})
      path == UNION {{n} \X Closure(next, next[n], next[n]) : n \in region}
      cyclic == {n \in region : <<n, n>> \in path \/ n \in ToSet(g.succ[n])}
      sccs == {{m \in cyclic : m = n \/ {<<m, n>>, <<n, m>>} \subseteq path} : n \in cyclic}
      Before(S, T) == \E m \in S, n \in T : <<n, m>> \in path
      Ordered[R \in SUBSET sccs] ==
        IF R = {} THEN <<>>
        ELSE LET S == CHOOSE S \in R : \A T \in R \ {S} : ~Before(T, S)
             IN  <<S>> \o Ordered[R \ {S}]
  IN  Ordered[sccs]

(* sccstructure::create *)
sccstructure(g, S) ==
  LET inner == UNION {OutEdges(g, n) : n \in S}
      eedges == {e \in Edges(g) \ inner : Sink(g, e) \in S}
      enodes == {Sink(g, e) : e \in eedges}
      xedges == {e \in inner : Sink(g, e) \notin S}
  IN  [eedges |-> eedges, enodes |-> enodes,
       xedges |-> xedges, xnodes |-> {Sink(g, e) : e \in xedges},
       redges |-> {e \in inner : Sink(g, e) \in enodes}]

The(S) == CHOOSE x \in S : TRUE

\* Mutant: repetition and exit may leave from different nodes.
is_tcloopApart(s) == Cardinality(s.enodes) = 1 /\ Cardinality(s.redges) = 1 /\ Cardinality(s.xedges) = 1

is_tcloop(s) ==
  /\ Cardinality(s.enodes) = 1
  /\ Cardinality(s.redges) = 1
  /\ Cardinality(s.xedges) = 1
  /\ The(s.redges)[1] = The(s.xedges)[1]

(***************************************************************************)
(* Clean-up                                                                *)
(***************************************************************************)
is_linear_reduction(g, n) == NumOut(g, n) = 1 /\ NumIn(g, g.succ[n][1]) = 1

(* A block whose only successor has no other predecessor moves its code    *)
(* there and is removed.  The blocks this holds for stay the same when one *)
(* of them goes, so that their order does not matter.                      *)
straighten(g) ==
  LET merged == {n \in Blocks(g) : is_linear_reduction(g, n) /\ g.succ[n][1] # Exit}
      Into(n) == {p \in merged : g.succ[p][1] = n}
      End[n \in Nodes(g)] == IF n \in merged THEN End[g.succ[n][1]] ELSE n
      Code[n \in Nodes(g)] ==
        IF Into(n) = {} THEN g.code[n] ELSE Code[The(Into(n))] \o g.code[n]
      kept == Nodes(g) \ merged
  IN  [succ |-> [n \in kept |-> [i \in DOMAIN g.succ[n] |-> End[g.succ[n][i]]]],
       code |-> [n \in kept |-> Code[n]]]

(* An empty block gives its incoming edges to its successor, unless it is  *)
(* its own.                                                                *)
RECURSIVE PurgeFrom(_, _)
PurgeFrom(g, N) ==
  IF N = {} THEN g
  ELSE LET n == CHOOSE n \in N : TRUE
       IN  IF g.code[n] = <<>> /\ g.succ[n] # <<n>>
           THEN PurgeFrom(RemoveNodes(DivertInEdges(g, n, g.succ[n][1]), {n}), N \ {n})
           ELSE PurgeFrom(g, N \ {n})
purge(g) == PurgeFrom(g, Blocks(g))

LiveNodes(g) == Closure([n \in Nodes(g) |-> ToSet(g.succ[n])], {Entry}, {Entry})

(* update_phi_operands: the phi forgets the operands from dead blocks.     *)
LivePhi(t, live) ==
  LET index == SelectSeq([k \in DOMAIN t.in |-> k], LAMBDA k : t.nodes[k] \in live)
  IN  IF t.op = "phi"
      THEN [t EXCEPT !.nodes = [k \in DOMAIN index |-> t.nodes[index[k]]],
                     !.in = [k \in DOMAIN index |-> t.in[index[k]]]]
      ELSE t

(* prune: the blocks no path from the entry reaches are removed; the exit  *)
(* stays.                                                                  *)
prune(g) ==
  LET live == LiveNodes(g)
      h == RemoveNodes(g, Blocks(g) \ live)
  IN  [h EXCEPT !.code = [n \in Nodes(h) |->
         [k \in DOMAIN h.code[n] |-> LivePhi(h.code[n][k], live)]]]

(***************************************************************************)
(* Validity and structure                                                  *)
(***************************************************************************)
has_valid_phis(g, n) ==
  LET tacs == g.code[n]
  IN  \A k \in DOMAIN tacs : tacs[k].op = "phi" =>
        /\ Len(tacs[k].in) = NumIn(g, n)
        /\ k > 1 => tacs[k - 1].op = "phi"
        /\ \A i, j \in DOMAIN tacs[k].in :
             tacs[k].nodes[i] = tacs[k].nodes[j] => tacs[k].in[i] = tacs[k].in[j]

is_valid(g) ==
  /\ NumIn(g, Entry) = 0 /\ NumOut(g, Entry) = 1
  /\ NumOut(g, Exit) = 0
  /\ \A n \in Blocks(g) : NumOut(g, n) # 0 /\ has_valid_phis(g, n)

is_closed(g) == is_valid(g) /\ \A n \in Blocks(g) : NumIn(g, n) # 0

is_loop(g, n) == NumIn(g, n) = 2 /\ NumOut(g, n) = 2 /\ n \in ToSet(g.succ[n])

(* Every alternative of the split is a node of its own that leads to one   *)
(* and the same node, the join.                                            *)
is_proper_branch(g, n) ==
  /\ NumOut(g, n) > 1
  /\ \E join \in Nodes(g) : \A i \in DOMAIN g.succ[n] :
       NumIn(g, g.succ[n][i]) = 1 /\ g.succ[g.succ[n][i]] = <<join>>

(* The reductions of is_proper_structured; the reduced node keeps the name *)
(* of the first one.  A branch takes away every edge into its join, with   *)
(* exact only the ones of its alternatives.                                *)
ReduceOne(g, n, exact) ==
  LET m == g.succ[n][1]
      join == g.succ[m][1]
      Into(x) == [k \in Nodes(g) |-> SelectSeq(g.succ[k], LAMBDA s : s # x \/ exact)]
  IN  CASE is_loop(g, n) -> [g EXCEPT !.succ[n] = SelectSeq(@, LAMBDA s : s # n)]
        [] is_proper_branch(g, n) ->
             RemoveNodes([g EXCEPT !.succ = [Into(join) EXCEPT ![n] = <<join>>]], ToSet(g.succ[n]))
        [] OTHER -> RemoveNodes([g EXCEPT !.succ[n] = g.succ[m]], {m})

IsReducible(g, n) == is_loop(g, n) \/ is_proper_branch(g, n) \/ is_linear_reduction(g, n)

RECURSIVE ReducesToOne(_, _)
ReducesToOne(g, exact) ==
  LET R == {n \in Nodes(g) : IsReducible(g, n)}
  IN  IF R = {} THEN Cardinality(Nodes(g)) = 1
      ELSE ReducesToOne(ReduceOne(g, CHOOSE n \in R : TRUE, exact), exact)

is_proper_structured(g) == ReducesToOne(g, FALSE)

(* What the check is for: the graph is made of sequences, of branches with *)
(* one join and of loops with one repetition and one exit, at their tail.  *)
ProperStructured(g) == ReducesToOne(g, TRUE)
=============================================================================

---------------------- MODULE ControlFlowRestructuring ----------------------
(***************************************************************************)
(* RestructureControlFlow                                                  *)
(* (src/jlm/llvm/frontend/ControlFlowRestructuring.cpp): an arbitrary      *)
(* closed control flow graph is turned into a proper structured one, whose *)
(* loops have one entry and one exit at their tail and whose branches join *)
(* in one place.  Loops are restructured from the outermost, taken out of  *)
(* the graph, and put back when the branches of the acyclic rest are done. *)
(*                                                                         *)
(* The code is a set of functions that call each other; work is their      *)
(* stack of calls still to be made, the next one first.  A step is one     *)
(* call, or one component of the loop of restructure_loops.                *)
(***************************************************************************)
EXTENDS ControlFlowGraph

VARIABLES
  g,          \* the control flow graph
  work,       \* the calls still to be made
  loops,      \* the loops taken out so far: [ne, insert, replacement]
  inverted,   \* history: some loop was accepted that repeats on its first edge
  failed      \* the assertions of the code found violated

restructuringVars == <<g, work, loops, inverted, failed>>

Unless(holds, assertion) == IF holds THEN {} ELSE {assertion}

(***************************************************************************)
(* Three-address code: an operation reads the variables of in and writes   *)
(* the variables of out.  The control constant and its assignment are one. *)
(***************************************************************************)
Undef(v) == [op |-> "undef", in |-> <<>>, out |-> <<v>>]
Constant(v, k) == [op |-> "const", in |-> <<>>, out |-> <<v>>, val |-> k]
Assignment(v, w) == [op |-> "assign", in |-> <<w>>, out |-> <<v>>]
Branch(v) == [op |-> "branch", in |-> <<v>>, out |-> <<>>]

RECURSIVE Ascending(_)
Ascending(S) == IF S = {} THEN <<>> ELSE <<Min(S)>> \o Ascending(S \ {Min(S)})
IndexIn(S, x) == Cardinality({y \in S : y < x})

Call(f, entry, exit) == [call |-> f, entry |-> entry, exit |-> exit]
restructure(entry, exit) ==
  <<Call("restructure_loops", entry, exit), Call("restructure_branches", entry, exit)>>

IsCall(f) == failed = {} /\ work # <<>> /\ Head(work).call = f

(***************************************************************************)
(* Loops                                                                   *)
(***************************************************************************)
restructure_loops ==
  LET c == Head(work)
      sccs == IF c.entry = c.exit THEN <<>> ELSE find_sccs(g, c.entry, c.exit)
  IN  /\ IsCall("restructure_loops")
      /\ work' = [k \in DOMAIN sccs |-> [call |-> "scc", scc |-> sccs[k],
                                         entry |-> c.entry, exit |-> c.exit]] \o Tail(work)
      /\ UNCHANGED <<g, loops, inverted, failed>>

(* A component that is a tail-controlled loop stays as it is.              *)
KeepLoop ==
  LET s == sccstructure(g, Head(work).scc)
      ne == The(s.enodes)
      nx == The(s.xedges)[1]
  IN  /\ IsCall("scc")
      /\ is_tcloop(s)
      /\ work' = restructure(ne, nx) \o <<Call("extract_tcloop", ne, nx)>> \o Tail(work)
      /\ inverted' = (inverted \/ The(s.redges)[2] = 1)
      /\ UNCHANGED <<g, loops, failed>>

find_tvariable_bb(h, n) == IF n \in Blocks(h) THEN n ELSE h.succ[n][1]

(* Any other component gets one entry ne, which branches on ev to the      *)
(* entries it had; one repetition nr, which branches on rv; and one exit   *)
(* nx, which branches on xv to the exits it had.  Every edge into, out of  *)
(* or back in the loop sets these variables on its way.  A loop without an *)
(* exit gets an edge to the end of the region that is never taken.         *)
LoopRestructured(h, s, entry, exit) ==
  LET ne == Fresh(h)
      nr == ne + 1
      nx == ne + 2
      ev == <<"e", ne>>
      rv == <<"r", ne>>
      xv == <<"q", ne>>
      If(several, t) == IF Cardinality(several) > 1 THEN <<t>> ELSE <<>>
      Enter(e) == If(s.enodes, Constant(ev, IndexIn(s.enodes, Sink(h, e))))
      Leave(e) == If(s.xnodes, Constant(xv, IndexIn(s.xnodes, Sink(h, e))))
      h1 == IF Cardinality(s.enodes) > 1
            THEN InsertBeforeBranch(h, find_tvariable_bb(h, entry), Undef(ev)) ELSE h
      h2 == AddNode(h1, <<Undef(rv)>> \o If(s.xnodes, Undef(xv)) \o If(s.enodes, Branch(ev)),
                    Ascending(s.enodes))
      h3 == AddNode(h2, <<Branch(rv)>>, <<nx, ne>>)
      h4 == AddNode(h3, If(s.xnodes, Branch(xv)),
                    IF s.xedges = {} THEN <<exit>> ELSE Ascending(s.xnodes))
      h5 == IF Cardinality(s.enodes) > 1
            THEN Intercept(h4, [e \in s.eedges |-> Enter(e)], ne)
            ELSE Divert(h4, s.eedges, ne)
      h6 == Intercept(h5, [e \in s.xedges |-> Leave(e) \o <<Constant(rv, 0)>>], nr)
  IN  Intercept(h6, [e \in s.redges |-> Enter(e) \o <<Constant(rv, 1)>>], nr)

RestructureLoop ==
  LET c == Head(work)
      s == sccstructure(g, c.scc)
      ne == Fresh(g)
      nr == ne + 1
  IN  /\ IsCall("scc")
      /\ ~is_tcloop(s)
      /\ g' = LoopRestructured(g, s, c.entry, c.exit)
      /\ work' = restructure(ne, nr) \o <<Call("extract_tcloop", ne, nr)>> \o Tail(work)
      /\ UNCHANGED <<loops, inverted, failed>>

(* The loop from ne to nx leaves the graph: replacement takes its place,   *)
(* and insert ends it.                                                     *)
LoopExtracted(h, ne, nx, er, ex) ==
  LET insert == Fresh(h)
      replacement == insert + 1
      h1 == AddNode(AddNode(h, <<>>, <<>>), <<>>, <<Sink(h, ex)>>)
      h2 == DivertInEdges(h1, ne, replacement)
  IN  Divert(Divert(h2, {ex}, insert), {er}, ne)

extract_tcloop ==
  LET ne == Head(work).entry
      nx == Head(work).exit
      two == NumOut(g, nx) = 2
      repeats == ne \in ToSet(g.succ[nx])
      er == IF g.succ[nx][1] = ne THEN 1 ELSE 2
  IN  /\ IsCall("extract_tcloop")
      /\ failed' = Unless(two, "nx->noutedges() == 2") \cup Unless(repeats, "er->sink() == ne")
      /\ IF two /\ repeats
         THEN /\ g' = LoopExtracted(g, ne, nx, <<nx, er>>, <<nx, 3 - er>>)
              /\ loops' = Append(loops, [ne |-> ne, insert |-> Fresh(g), replacement |-> Fresh(g) + 1])
         ELSE UNCHANGED <<g, loops>>
      /\ work' = Tail(work)
      /\ UNCHANGED inverted

(***************************************************************************)
(* Branches                                                                *)
(***************************************************************************)
RECURSIVE find_head_branch(_, _, _)
find_head_branch(h, start, end) ==
  IF NumOut(h, start) # 1 \/ start = end THEN start ELSE find_head_branch(h, h.succ[start][1], end)

(* The nodes all of whose incoming edges are the edge e or come from these *)
(* nodes.                                                                  *)
RECURSIVE DominatedBy(_, _, _)
DominatedBy(h, e, N) ==
  LET edges == {e} \cup UNION {OutEdges(h, n) : n \in N}
      new == {n \in {Sink(h, d) : d \in edges} \ N : InEdges(h, n) \subseteq edges}
  IN  IF new = {} THEN N ELSE DominatedBy(h, e, N \cup new)
find_dominator_graph(h, e) == DominatedBy(h, e, {})

(* For each alternative of hb the edges on which it is left.               *)
compute_continuation(h, hb) ==
  [e \in OutEdges(h, hb) |->
     LET dgraph == find_dominator_graph(h, e)
     IN  IF dgraph = {} THEN {e}
         ELSE {d \in UNION {OutEdges(h, n) : n \in dgraph} : Sink(h, d) \notin dgraph}]

\* Mutant: every alternative that is not empty gets a common end.
OnePointAlternativeJoined(r, e, cedges, cpoint) ==
  LET null == Fresh(r.g)
  IN  IF Sink(r.g, e) = cpoint THEN [r EXCEPT !.g = Split(r.g, e, <<>>)]
      ELSE [g |-> Divert(AddNode(r.g, <<>>, <<cpoint>>), cedges, null),
            calls |-> Append(r.calls, Call("restructure_branches", Sink(r.g, e), null))]

(* One continuation point: an empty alternative gets a block, an           *)
(* alternative that is left on several edges gets a common end.  The       *)
(* result is the graph and the calls for the alternatives.                 *)
OnePointAlternative(r, e, cedges, cpoint) ==
  LET h == r.g
      null == Fresh(h)
  IN  IF Sink(h, e) = cpoint THEN [r EXCEPT !.g = Split(h, e, <<>>)]
      ELSE IF Cardinality(cedges) = 1
      THEN [r EXCEPT !.calls = Append(@, Call("restructure_branches", Sink(h, e), The(cedges)[1]))]
      ELSE [g |-> Divert(AddNode(h, <<>>, <<cpoint>>), cedges, null),
            calls |-> Append(r.calls, Call("restructure_branches", Sink(h, e), null))]

(* Several continuation points: all alternatives end in the new point cn,  *)
(* which branches on p, set where each alternative is left.                *)
ManyPointsAlternative(r, e, cedges, cn, points) ==
  LET null == Fresh(r.g)
      set == [d \in cedges |-> <<Constant(<<"p", cn>>, IndexIn(points, Sink(r.g, d)))>>]
      h == Intercept(AddNode(r.g, <<>>, <<cn>>), set, null)
  IN  [g |-> h, calls |-> Append(r.calls, Call("restructure_branches", Sink(h, e), null))]

BranchesRestructured(h, hb, exit) ==
  LET c == compute_continuation(h, hb)
      points == {Sink(h, d) : d \in UNION {c[e] : e \in DOMAIN c}}
      single == Cardinality(points) = 1
      cn == IF single THEN The(points) ELSE Fresh(h)
      start == IF single THEN h
               ELSE AddNode(InsertBeforeBranch(h, hb, Undef(<<"p", cn>>)),
                            <<Branch(<<"p", cn>>)>>, Ascending(points))
      Alternatives[i \in 0 .. NumOut(h, hb)] ==
        IF i = 0 THEN [g |-> start, calls |-> <<>>]
        ELSE IF single THEN OnePointAlternative(Alternatives[i - 1], <<hb, i>>, c[<<hb, i>>], cn)
        ELSE ManyPointsAlternative(Alternatives[i - 1], <<hb, i>>, c[<<hb, i>>], cn, points)
      done == Alternatives[NumOut(h, hb)]
  IN  [done EXCEPT !.calls = Append(@, Call("restructure_branches", cn, exit))]

restructure_branches ==
  /\ IsCall("restructure_branches")
  /\ \E hb \in {find_head_branch(g, Head(work).entry, Head(work).exit)} :
       \/ /\ hb = Head(work).exit
          /\ work' = Tail(work)
          /\ UNCHANGED <<g, failed>>
       \/ /\ hb # Head(work).exit
          /\ failed' = Unless(g.succ[hb] # <<>>, "n < noutedges()")
          /\ \E r \in IF failed' = {} THEN {BranchesRestructured(g, hb, Head(work).exit)}
                                     ELSE {[g |-> g, calls |-> <<>>]} :
               g' = r.g /\ work' = r.calls \o Tail(work)
  /\ UNCHANGED <<loops, inverted>>

(***************************************************************************)
(* The loops return, in the order in which they left.                      *)
(***************************************************************************)
LoopReinserted(h, l) ==
  LET h1 == DivertInEdges(h, l.replacement, l.ne)
      h2 == DivertInEdges(h1, l.insert, h1.succ[l.replacement][1])
  IN  RemoveNodes(h2, {l.insert, l.replacement})

reinsert_tcloop ==
  LET l == Head(loops)
      inserted == NumIn(g, l.insert) = 1
      replaced == NumOut(g, l.replacement) = 1
  IN  /\ failed = {} /\ work = <<>> /\ loops # <<>>
      /\ failed' = Unless(inserted, "l.insert->ninedges() == 1")
                     \cup Unless(replaced, "l.replacement->noutedges() == 1")
      /\ g' = IF failed' = {} THEN LoopReinserted(g, l) ELSE g
      /\ loops' = Tail(loops)
      /\ UNCHANGED <<work, inverted>>

RestructuringStep ==
  \/ restructure_loops \/ KeepLoop \/ RestructureLoop \/ extract_tcloop
  \/ restructure_branches \/ reinsert_tcloop
=============================================================================

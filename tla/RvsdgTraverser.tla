---------------------------- MODULE RvsdgTraverser ----------------------------
(***************************************************************************)
(* The traversers of an RVSDG region, jlm/rvsdg/traverser.cpp, and the     *)
(* tracker they keep their nodes in, jlm/rvsdg/tracker.cpp.                *)
(*                                                                         *)
(* A pass visits the nodes of a region with a traverser, and changes the   *)
(* region between two calls of next().  The traverser learns of it from    *)
(* notifications: a node was created, is destroyed, has changed its depth, *)
(* or an input was diverted.  The removal of an input is not notified.     *)
(***************************************************************************)
EXTENDS RvsdgRegion, FiniteSetsExt

VARIABLES
  traverser,  \* the kind of traverser in use, or "none"
  nodestate,  \* nodestate[n]: the traversal state of n
  tracked     \* tracked[s]: the nodes in state s, by depth

traversal == << traverser, nodestate, tracked >>
vars == << region, traversal >>

Kinds == {"topdown", "bottomup", "bottomup revisiting"}
BottomUp == traverser \in {"bottomup", "bottomup revisiting"}

-----------------------------------------------------------------------------
(* tracker_depth_state: pairs of a depth and a node, how many there are,   *)
(* and the first and the last depth that has one.                          *)

NoNodes == [at |-> {}, count |-> 0, top |-> 0, bottom |-> 0]

NodesAt(t, d) == {e[2] : e \in {f \in t.at : f[1] = d}}

\* The additions of several nodes, which may come in any order.
AddAll(t, added, dep) ==
  LET depths == {dep[n] : n \in added}
                  \cup (IF t.count = 0 THEN {} ELSE {t.top, t.bottom})
  IN  IF added = {} THEN t
      ELSE [at |-> t.at \cup {<< dep[n], n >> : n \in added},
            count |-> t.count + Cardinality(added),
            top |-> Min(depths), bottom |-> Max(depths)]

Removed(t, n, d) ==
  LET left == t.at \ {<< d, n >>}
      depths == {e[1] : e \in left}
  IN  [at |-> left,
       count |-> t.count - 1,
       top |-> IF t.count = 1 \/ d # t.top THEN t.top
               ELSE Min({k \in depths : k >= t.top}),
       bottom |-> IF t.count = 1 \/ d # t.bottom THEN t.bottom
                  ELSE Max({k \in depths : k <= t.bottom})]

\* Mutant: the depth is not looked at.
PeekTopAny(t) == {e[2] : e \in t.at}

\* What peek_top and peek_bottom may return.
PeekTop(t) == IF t.count = 0 THEN {} ELSE NodesAt(t, t.top)
PeekBottom(t) == IF t.count = 0 THEN {} ELSE NodesAt(t, t.bottom)

-----------------------------------------------------------------------------
(* The traversers. *)

\* Mutant: the present state is not looked at.
MarkAheadAny(S) ==
  /\ nodestate' = [n \in Nodes |-> IF n \in S THEN "frontier" ELSE nodestate[n]]
  /\ tracked' = [tracked EXCEPT !["frontier"] = AddAll(@, S, depth)]

\* set_nodestate(n, frontier) for the nodes of S that are ahead.
MarkAhead(S) ==
  LET marked == {n \in S : nodestate[n] = "ahead"}
  IN  /\ nodestate' = [n \in Nodes |-> IF n \in marked THEN "frontier" ELSE nodestate[n]]
      /\ tracked' = [tracked EXCEPT !["frontier"] = AddAll(@, marked, depth)]

PredecessorsVisited(n) == \A p \in Producers(operands, n) : nodestate[p] = "behind"

Users(p) == {n \in Nodes : p \in Producers(operands, n)}

InitTraversal ==
  /\ Init
  /\ traverser = "none"
  /\ nodestate = [n \in Nodes |-> "ahead"]
  /\ tracked = [s \in {"frontier", "behind"} |-> NoNodes]

Start(kind) ==
  /\ Idle
  /\ traverser = "none"
  /\ traverser' = kind
  /\ MarkAhead(
       IF kind = "topdown"
       THEN {n \in Nodes : top_nodes[n] > 0}
              \cup {n \in nodes : /\ \E o \in ToSet(operands[n]) : Producer(o) = Region
                                  /\ PredecessorsVisited(n)}
       ELSE {n \in Nodes : bottom_nodes[n] > 0}
              \cup {n \in nodes : /\ \E o \in ToSet(results) : Producer(o) = n
                                  /\ ~HasSuccessors(operands, n)})
  /\ UNCHANGED region

\* The traverser goes out of scope, and the tracker with it.
Stop ==
  /\ Idle
  /\ traverser # "none"
  /\ traverser' = "none"
  /\ nodestate' = [n \in Nodes |-> "ahead"]
  /\ tracked' = [s \in {"frontier", "behind"} |-> NoNodes]
  /\ UNCHANGED region

\* next() returns n.
Visit(n) ==
  /\ Idle
  /\ n \in (IF BottomUp THEN PeekBottom(tracked["frontier"])
                        ELSE PeekTop(tracked["frontier"]))
  /\ LET reached == {m \in IF BottomUp THEN Producers(operands, n) ELSE Users(n) :
                       nodestate[m] = "ahead"}
     IN  /\ nodestate' = [m \in Nodes |-> IF m = n THEN "behind"
                                          ELSE IF m \in reached THEN "frontier"
                                          ELSE nodestate[m]]
         /\ tracked' =
              [frontier |-> AddAll(Removed(tracked["frontier"], n, depth[n]), reached, depth),
               behind   |-> AddAll(tracked["behind"], {n}, depth)]
  /\ UNCHANGED << region, traverser >>

-----------------------------------------------------------------------------
(* The calls of the region, and what the traverser does when it is told.   *)

\* Mutant: the node is looked for under its new depth.
RecomputeNewDepth ==
  /\ RecomputeChanged
  /\ LET n == Head(work).node
         s == nodestate[n]
     IN  tracked' = IF s = "ahead" THEN tracked
                    ELSE [tracked EXCEPT ![s] =
                            AddAll(Removed(@, n, depth'[n]), {n}, depth')]
  /\ UNCHANGED << traverser, nodestate >>

\* tracker::node_depth_change
Recompute ==
  /\ RecomputeChanged
  /\ LET n == Head(work).node
         s == nodestate[n]
     IN  tracked' = IF s = "ahead" THEN tracked
                    ELSE [tracked EXCEPT ![s] =
                            AddAll(Removed(@, n, depth[n]), {n}, depth')]
  /\ UNCHANGED << traverser, nodestate >>

\* topdown_traverser::node_create and bottomup_traverser::node_create
NodeCreate ==
  /\ Head(work).op = "node_create"
  /\ IF traverser = "none" THEN UNCHANGED << nodestate, tracked >>
     ELSE LET n == Head(work).node
              s == CASE traverser = "topdown" ->
                          IF PredecessorsVisited(n) THEN "behind" ELSE "frontier"
                     [] traverser = "bottomup" -> "behind"
                     [] traverser = "bottomup revisiting" -> "frontier"
          IN  /\ nodestate' = [nodestate EXCEPT ![n] = s]
              /\ tracked' = [tracked EXCEPT ![s] = AddAll(@, {n}, depth)]

\* topdown_traverser::input_change and bottomup_traverser::input_change
InputChange ==
  /\ Head(work).op = "input_change"
  /\ CASE traverser = "none" -> UNCHANGED << nodestate, tracked >>
       [] traverser = "topdown" -> MarkAhead({Head(work).node})
       [] BottomUp -> MarkAhead({Producer(Head(work).origin)} \ {Region})

\* Mutant: the bottom-up traverser does not react.
NodeDestroyUnseen(n) ==
  LET s == nodestate[n]
  IN  /\ nodestate' = [nodestate EXCEPT ![n] = "ahead"]
      /\ tracked' = IF s = "ahead" THEN tracked
                    ELSE [tracked EXCEPT ![s] = Removed(@, n, depth[n])]

\* tracker::node_destroy, then bottomup_traverser::node_destroy
NodeDestroy(n) ==
  LET s == nodestate[n]
      freed == IF s = "ahead" THEN tracked
               ELSE [tracked EXCEPT ![s] = Removed(@, n, depth[n])]
      reached == {p \in IF BottomUp THEN Producers(operands, n) ELSE {} :
                    nodestate[p] = "ahead"}
  IN  /\ nodestate' = [m \in Nodes |-> IF m = n THEN "ahead"
                                       ELSE IF m \in reached THEN "frontier"
                                       ELSE nodestate[m]]
      /\ tracked' = [freed EXCEPT !["frontier"] = AddAll(@, reached, depth)]

Notified ==
  /\ Notify
  /\ NodeCreate \/ InputChange
  /\ UNCHANGED traverser

Destroyed(n) ==
  /\ RemoveNode(n) \/ PruneNode(n)
  /\ NodeDestroy(n)
  /\ UNCHANGED traverser

-----------------------------------------------------------------------------
\* The passes of the repository remove inputs only of nodes that they have
\* visited (remove-unused-state.cpp:94,192, rhls-dne.cpp:48, pull.cpp:91), or use
\* no traverser.  The topdown traverser relies on it: a node whose last producer
\* ahead leaves this way would never be visited, as no one is notified.
Removable(n) == traverser = "none" \/ nodestate[n] = "behind"

\* The steps of the region that a traverser is not told of.
Silent ==
  \/ \E n \in Nodes, origins \in OperandLists : CreateSimple(n, origins)
  \/ \E n \in Nodes : CreateStructural(n)
  \/ \E n \in Nodes, o \in Origins : AppendInput(n, o)
  \/ \E n \in Nodes, i \in 1 .. MaxInputs, o \in Origins : DivertInput(n, i, o)
  \/ \E n \in Nodes, i \in 1 .. MaxInputs : Removable(n) /\ RemoveInput(n, i)
  \/ \E o \in Origins : AppendResult(o)
  \/ \E j \in 1 .. MaxResults : RemoveResult(j) \/ \E o \in Origins : DivertResult(j, o)
  \/ Prune
  \/ AddInput
  \/ RecomputeSame
  \/ PushTop
  \/ PruneDone

NextTraversal ==
  \/ Silent /\ UNCHANGED traversal
  \/ Recompute
  \/ Notified
  \/ \E n \in Nodes : Destroyed(n) \/ Visit(n)
  \/ \E kind \in Kinds : Start(kind)
  \/ Stop

TraversalSpec == InitTraversal /\ [][NextTraversal]_vars

-----------------------------------------------------------------------------
(* Properties. *)

\* The tracker agrees with the region at every moment, also in the middle of
\* recompute_depth: a node in state s is filed under its present depth, once,
\* and the count and the first and the last depth are exact.  A node that has
\* been destroyed is in no state.
TrackerExact ==
  /\ \A n \in Nodes \ nodes : nodestate[n] = "ahead"
  /\ \A s \in {"frontier", "behind"} :
       LET members == {n \in Nodes : nodestate[n] = s}
           depths == {depth[n] : n \in members}
       IN  /\ tracked[s].at = {<< depth[n], n >> : n \in members}
           /\ tracked[s].count = Cardinality(members)
           /\ members # {} => /\ tracked[s].top = Min(depths)
                              /\ tracked[s].bottom = Max(depths)

\* "The repeated invocation of next() traverses all nodes in the region"
\* (traverser.hpp:129): when next() has nothing left to return, no node is
\* left out, whatever the pass has done to the region in between.
VisitsAll ==
  Idle /\ traverser # "none" /\ tracked["frontier"].count = 0
    => \A n \in nodes : nodestate[n] = "behind"

\* "from the topmost nodes to the nodes at the bottom": a topdown traverser
\* returns a node after everything it depends on directly, and a bottom-up
\* traverser after all its users; no node that is still to be visited lies
\* beyond it.
VisitsInOrder ==
  [][\A n \in Nodes : Visit(n) =>
       \A m \in nodes \ {n} : nodestate[m] # "behind" =>
         IF BottomUp THEN depth[m] <= depth[n] /\ n \notin Producers(operands, m)
                     ELSE depth[n] <= depth[m] /\ m \notin Producers(operands, n)]_vars

\* No node is visited twice, and none that was created behind the traverser
\* is visited at all, as long as the traverser lives.
NeverRevisits ==
  [][\A n \in nodes \cap nodes' :
       nodestate[n] = "behind" /\ traverser' # "none" => nodestate'[n] = "behind"]_vars
=============================================================================

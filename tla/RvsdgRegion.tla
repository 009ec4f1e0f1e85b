----------------------------- MODULE RvsdgRegion -----------------------------
(***************************************************************************)
(* A region of an RVSDG: jlm/rvsdg/{node,region,simple-node,               *)
(* structural-node}.cpp.                                                   *)
(*                                                                         *)
(* A region holds nodes, whose inputs have an origin each: an output of    *)
(* another node of the region or an argument of the region.  Every node    *)
(* caches its depth, and the region keeps intrusive lists of the nodes     *)
(* without inputs and of the nodes without users.  Passes change the graph *)
(* one call at a time; the calls that such a call makes in turn, up to the *)
(* notifications of the traversers, are the steps of this model, and       *)
(* `work' is the stack of those that have not been made yet.               *)
(***************************************************************************)
EXTENDS Integers, Sequences, FiniteSets, SequencesExt

CONSTANTS
  Nodes,       \* the nodes (their addresses: a node may be freed and reused)
  Structural,  \* those of them that are structural nodes
  Region,      \* the region, which owns the arguments
  Ports,       \* the indices of outputs and arguments
  MaxInputs,   \* bound: the inputs of all nodes together
  MaxResults   \* bound: the results of the region

ASSUME NodesAssumption == IsFiniteSet(Nodes)
ASSUME StructuralAssumption == Structural \subseteq Nodes
ASSUME RegionAssumption == Region \notin Nodes
ASSUME BoundsAssumption == MaxInputs \in Nat /\ MaxResults \in Nat

VARIABLES
  nodes,         \* the nodes that exist
  operands,      \* operands[n]: the origins of the inputs of n
  results,       \* the origins of the results of the region
  depth,         \* depth[n]: the cached depth of n
  top_nodes,     \* how often a node is linked in the list of top nodes
  bottom_nodes,  \* how often it is linked in the list of bottom nodes
  work           \* the calls that are still to be made, the next one first

region == << nodes, operands, results, depth, top_nodes, bottom_nodes, work >>

\* An origin: the owner (its producer, or the region) and the output's index.
Origins == (Nodes \cup {Region}) \X Ports
Producer(origin) == origin[1]

Call(name, n, origin) == [op |-> name, node |-> n, origin |-> origin]
Calls == [op : {"add_input", "recompute_depth", "push_top", "node_create",
                "input_change", "prune"},
          node : Nodes \cup {Region}, origin : Origins \cup {Region}]

Recomputing(n) == Call("recompute_depth", n, Region)

One(condition) == IF condition THEN 1 ELSE 0

-----------------------------------------------------------------------------
(* The graph.  `ins' and `res' are the inputs and results to look at.      *)

Producers(ins, n) == {Producer(o) : o \in ToSet(ins[n])} \ {Region}

\* The inputs of nodes that originate from p, one by one.
UserInputs(ins, p) ==
  UNION {{n} \X {i \in DOMAIN ins[n] : Producer(ins[n][i]) = p} : n \in Nodes}

\* node::has_users and node::has_successors
HasSuccessors(ins, p) == \E n \in Nodes : p \in Producers(ins, n)
HasUsers(ins, res, p) ==
  HasSuccessors(ins, p) \/ \E o \in ToSet(res) : Producer(o) = p

\* What depends on n, n included.
Downstream(ins, n) ==
  LET reached[k \in Nat] ==
        IF k = 0 THEN {n}
        ELSE reached[k - 1] \cup {m \in Nodes :
                                   Producers(ins, m) \cap reached[k - 1] # {}}
  IN  reached[Cardinality(Nodes)]

\* The depth recompute_depth gives n: one more than its deepest producer has.
IsDepth(d, ins, dep, n) ==
  /\ \A p \in Producers(ins, n) : dep[p] < d
  /\ d # 0 => \E p \in Producers(ins, n) : dep[p] = d - 1

\* A call that is still to be made.
Pending(call) == call \in ToSet(work)

\* The list of bottom nodes when the users change from (ins, res).
BottomAfter(ins, res, newIns, newRes) ==
  [n \in Nodes |-> bottom_nodes[n]
                     + One(HasUsers(ins, res, n) /\ ~HasUsers(newIns, newRes, n))
                     - One(~HasUsers(ins, res, n) /\ HasUsers(newIns, newRes, n))]

\* The order in which an unordered set of users is iterated is arbitrary.
Orders(S) == {q \in [1 .. Cardinality(S) -> S] : \A s \in S : \E k \in DOMAIN q : q[k] = s}

-----------------------------------------------------------------------------
Init ==
  /\ nodes = {}
  /\ operands = [n \in Nodes |-> << >>]
  /\ results = << >>
  /\ depth = [n \in Nodes |-> 0]
  /\ top_nodes = [n \in Nodes |-> 0]
  /\ bottom_nodes = [n \in Nodes |-> 0]
  /\ work = << >>

\* The calls of a pass.
Idle == work = << >>

Inputs == UNION {{n} \X DOMAIN operands[n] : n \in Nodes}

Available == {o \in Origins : Producer(o) \in nodes \cup {Region}}

\* Origins of which an input of n does not make the graph cyclic.
Upstream(n) == {o \in Available : Producer(o) \notin Downstream(operands, n) \cup {n}}

\* node::node: the new node is linked in both lists, and its inputs are added
\* one by one before the node is announced.
Construct(n, origins) ==
  /\ Idle
  /\ n \notin nodes
  /\ Cardinality(Inputs) + Len(origins) <= MaxInputs
  /\ nodes' = nodes \cup {n}
  /\ top_nodes' = [top_nodes EXCEPT ![n] = @ + 1]
  /\ bottom_nodes' = [bottom_nodes EXCEPT ![n] = @ + 1]
  /\ work' = [k \in 1 .. Len(origins) |-> Call("add_input", n, origins[k])]
               \o << Call("node_create", n, Region) >>
  /\ UNCHANGED << operands, results, depth >>

CreateSimple(n, origins) ==
  /\ n \notin Structural
  /\ Construct(n, origins)

\* A structural node is announced before it has any input.
CreateStructural(n) ==
  /\ n \in Structural
  /\ Construct(n, << >>)

AppendInput(n, origin) ==
  /\ Idle
  /\ n \in nodes \cap Structural
  /\ Cardinality(Inputs) < MaxInputs
  /\ origin \in Upstream(n)
  /\ work' = << Call("add_input", n, origin) >>
  /\ UNCHANGED << nodes, operands, results, depth, top_nodes, bottom_nodes >>

\* Mutant: add_user does not take the new origin off the list of bottom nodes.
DivertInputStaysBottom(n, i, origin) ==
  /\ Idle
  /\ i \in DOMAIN operands[n]
  /\ origin \in Upstream(n) \ {operands[n][i]}
  /\ operands' = [operands EXCEPT ![n][i] = origin]
  /\ LET unused == [operands EXCEPT ![n] = RemoveAt(@, i)]
     IN  bottom_nodes' =
           [p \in Nodes |-> bottom_nodes[p]
              + One(p = Producer(operands[n][i]) /\ ~HasUsers(unused, results, p))]
  /\ work' = << Recomputing(n), Call("input_change", n, operands[n][i]) >>
  /\ UNCHANGED << nodes, results, depth, top_nodes >>

DivertInput(n, i, origin) ==
  /\ Idle
  /\ i \in DOMAIN operands[n]
  /\ origin \in Upstream(n) \ {operands[n][i]}
  /\ operands' = [operands EXCEPT ![n][i] = origin]
  /\ LET unused == [operands EXCEPT ![n] = RemoveAt(@, i)]  \* the input detached
     IN  bottom_nodes' =
           [p \in Nodes |-> bottom_nodes[p]
              + One(p = Producer(operands[n][i]) /\ ~HasUsers(unused, results, p))
              - One(p = Producer(origin) /\ ~HasUsers(unused, results, p))]
  /\ work' = << Recomputing(n), Call("input_change", n, operands[n][i]) >>
  /\ UNCHANGED << nodes, results, depth, top_nodes >>

\* Mutants: the shortcut is taken whenever an input is left; the node is not
\* linked in the list of top nodes.
RemoveInputShort(n, i) ==
  LET removed == [operands EXCEPT ![n] = RemoveAt(@, i)]
  IN  /\ Idle
      /\ n \in Structural
      /\ i \in DOMAIN operands[n]
      /\ operands' = removed
      /\ bottom_nodes' = BottomAfter(operands, results, removed, results)
      /\ work' = IF removed[n] # << >> THEN << >>
                 ELSE << Recomputing(n), Call("push_top", n, Region) >>
      /\ UNCHANGED << nodes, results, depth, top_nodes >>

RemoveInputUnlinked(n, i) ==
  LET removed == [operands EXCEPT ![n] = RemoveAt(@, i)]
  IN  /\ Idle
      /\ n \in Structural
      /\ i \in DOMAIN operands[n]
      /\ operands' = removed
      /\ bottom_nodes' = BottomAfter(operands, results, removed, results)
      /\ work' = << Recomputing(n) >>
      /\ UNCHANGED << nodes, results, depth, top_nodes >>

RemoveInput(n, i) ==
  LET removed == [operands EXCEPT ![n] = RemoveAt(@, i)]
      p == Producer(operands[n][i])
  IN  /\ Idle
      /\ n \in Structural
      /\ i \in DOMAIN operands[n]
      /\ operands' = removed
      /\ bottom_nodes' = BottomAfter(operands, results, removed, results)
      /\ work' = IF p # Region /\ depth[p] # depth[n] - 1
                 THEN << >>
                 ELSE IF removed[n] = << >>
                      THEN << Recomputing(n), Call("push_top", n, Region) >>
                      ELSE << Recomputing(n) >>
      /\ UNCHANGED << nodes, results, depth, top_nodes >>

AppendResult(origin) ==
  /\ Idle
  /\ Len(results) < MaxResults
  /\ origin \in Available
  /\ results' = Append(results, origin)
  /\ bottom_nodes' = BottomAfter(operands, results, operands, results')
  /\ UNCHANGED << nodes, operands, depth, top_nodes, work >>

RemoveResult(j) ==
  /\ Idle
  /\ j \in DOMAIN results
  /\ results' = RemoveAt(results, j)
  /\ bottom_nodes' = BottomAfter(operands, results, operands, results')
  /\ UNCHANGED << nodes, operands, depth, top_nodes, work >>

DivertResult(j, origin) ==
  /\ Idle
  /\ j \in DOMAIN results
  /\ origin \in Available \ {results[j]}
  /\ results' = [results EXCEPT ![j] = origin]
  /\ bottom_nodes' = BottomAfter(operands, results, operands, results')
  /\ UNCHANGED << nodes, operands, depth, top_nodes, work >>

\* Mutants: the inputs are not detached; a producer is not linked again.
DestroyKeepsInputs(n) ==
  /\ nodes' = nodes \ {n}
  /\ depth' = [depth EXCEPT ![n] = 0]
  /\ top_nodes' = [top_nodes EXCEPT ![n] = @ - One(operands[n] = << >>)]
  /\ bottom_nodes' = [bottom_nodes EXCEPT ![n] = @ - 1]
  /\ UNCHANGED << operands, results >>

DestroyForgetsProducers(n) ==
  /\ nodes' = nodes \ {n}
  /\ operands' = [operands EXCEPT ![n] = << >>]
  /\ depth' = [depth EXCEPT ![n] = 0]
  /\ top_nodes' = [top_nodes EXCEPT ![n] = @ - One(operands[n] = << >>)]
  /\ bottom_nodes' = [bottom_nodes EXCEPT ![n] = @ - 1]
  /\ UNCHANGED results

\* node::~node; the depth is left behind in freed memory, here as 0.
Destroy(n) ==
  LET freed == [operands EXCEPT ![n] = << >>]
      left  == BottomAfter(operands, results, freed, results)
  IN  /\ nodes' = nodes \ {n}
      /\ operands' = freed
      /\ depth' = [depth EXCEPT ![n] = 0]
      /\ top_nodes' = [top_nodes EXCEPT ![n] = @ - One(operands[n] = << >>)]
      /\ bottom_nodes' = [left EXCEPT ![n] = @ - 1]
      /\ UNCHANGED results

RemoveNode(n) ==
  /\ Idle
  /\ n \in nodes
  /\ ~HasUsers(operands, results, n)
  /\ Destroy(n)
  /\ UNCHANGED work

Prune ==
  /\ Idle
  /\ work' = << Call("prune", Region, Region) >>
  /\ UNCHANGED << nodes, operands, results, depth, top_nodes, bottom_nodes >>

-----------------------------------------------------------------------------
(* The calls those calls make. *)

Calling(name) == work # << >> /\ Head(work).op = name
Returning == work' = Tail(work)

\* input::input, which registers the user, and node::add_input
AddInput ==
  /\ Calling("add_input")
  /\ LET n == Head(work).node
         o == Head(work).origin
         added == [operands EXCEPT ![n] = Append(@, o)]
         new_depth == IF Producer(o) = Region THEN 0 ELSE depth[Producer(o)] + 1
     IN  /\ operands' = added
         /\ bottom_nodes' = BottomAfter(operands, results, added, results)
         /\ top_nodes' = [top_nodes EXCEPT ![n] = @ - One(operands[n] = << >>)]
         /\ work' = IF new_depth > depth[n] THEN << Recomputing(n) >> \o Tail(work)
                                            ELSE Tail(work)
  /\ UNCHANGED << nodes, results, depth >>

\* Mutant: the users are visited, and the node again, until nothing changes.
RecomputeSameAgain ==
  /\ Calling("recompute_depth")
  /\ LET n == Head(work).node IN
       /\ IsDepth(depth[n], operands, depth, n)
       /\ \E users \in Orders(UserInputs(operands, n)) :
            work' = [k \in DOMAIN users |-> Recomputing(users[k][1])]
                      \o (IF users = << >> THEN Tail(work) ELSE work)
  /\ UNCHANGED << nodes, operands, results, depth, top_nodes, bottom_nodes >>

RecomputeSame ==
  /\ Calling("recompute_depth")
  /\ IsDepth(depth[Head(work).node], operands, depth, Head(work).node)
  /\ Returning
  /\ UNCHANGED << nodes, operands, results, depth, top_nodes, bottom_nodes >>

\* The depth changes, and so may that of every user of the node.
RecomputeChanged ==
  /\ Calling("recompute_depth")
  /\ LET n == Head(work).node IN
       /\ \E d \in {0} \cup {depth[p] + 1 : p \in Producers(operands, n)} :
            /\ d # depth[n]
            /\ IsDepth(d, operands, depth, n)
            /\ depth' = [depth EXCEPT ![n] = d]
       /\ \E users \in Orders(UserInputs(operands, n)) :
            work' = [k \in DOMAIN users |-> Recomputing(users[k][1])] \o Tail(work)
  /\ UNCHANGED << nodes, operands, results, top_nodes, bottom_nodes >>

PushTop ==
  /\ Calling("push_top")
  /\ top_nodes' = [top_nodes EXCEPT ![Head(work).node] = @ + 1]
  /\ Returning
  /\ UNCHANGED << nodes, operands, results, depth, bottom_nodes >>

\* on_node_create and on_input_change: the region itself does nothing.
Notify ==
  /\ Calling("node_create") \/ Calling("input_change")
  /\ Returning
  /\ UNCHANGED << nodes, operands, results, depth, top_nodes, bottom_nodes >>

\* One round of the loop of region::prune.
PruneNode(n) ==
  /\ Calling("prune")
  /\ bottom_nodes[n] > 0
  /\ Destroy(n)
  /\ UNCHANGED work

PruneDone ==
  /\ Calling("prune")
  /\ \A n \in Nodes : bottom_nodes[n] <= 0
  /\ Returning
  /\ UNCHANGED << nodes, operands, results, depth, top_nodes, bottom_nodes >>

-----------------------------------------------------------------------------
OperandLists == UNION {[1 .. k -> Available] : k \in 0 .. MaxInputs}

Pass ==
  \/ \E n \in Nodes, origins \in OperandLists : CreateSimple(n, origins)
  \/ \E n \in Nodes : CreateStructural(n) \/ RemoveNode(n)
  \/ \E n \in Nodes, o \in Origins : AppendInput(n, o)
  \/ \E n \in Nodes, i \in 1 .. MaxInputs, o \in Origins : DivertInput(n, i, o)
  \/ \E n \in Nodes, i \in 1 .. MaxInputs : RemoveInput(n, i)
  \/ \E o \in Origins : AppendResult(o)
  \/ \E j \in 1 .. MaxResults : RemoveResult(j) \/ \E o \in Origins : DivertResult(j, o)
  \/ Prune

Step ==
  \/ AddInput
  \/ RecomputeSame
  \/ RecomputeChanged
  \/ PushTop
  \/ Notify
  \/ \E n \in Nodes : PruneNode(n)
  \/ PruneDone

Next == Pass \/ Step

Spec == Init /\ [][Next]_region

-----------------------------------------------------------------------------
(* Properties. *)

\* The type invariant: the state of node.hpp and region.hpp; a node that does
\* not exist has no inputs.
TypeOK ==
  /\ nodes \subseteq Nodes
  /\ operands \in [Nodes -> Seq(Origins)]
  /\ \A n \in Nodes \ nodes : operands[n] = << >>
  /\ results \in Seq(Origins)
  /\ depth \in [Nodes -> Nat]
  /\ top_nodes \in [Nodes -> Int]
  /\ bottom_nodes \in [Nodes -> Int]
  /\ work \in Seq(Calls)

\* A node whose cached depth is out of date is waiting to be recomputed, at
\* every moment: neither the shortcut of add_input nor that of RemoveInput
\* leaves a depth behind.
DepthsCorrect ==
  \A n \in nodes :
    \/ IsDepth(depth[n], operands, depth, n)
    \/ Pending(Recomputing(n))

\* The lists are exact: a node without inputs is linked once in the list of
\* top nodes, a node without users once in that of bottom nodes, no other node
\* is linked, and none is linked twice, whatever order users come and go in.
ListsExact ==
  \A n \in Nodes :
    /\ bottom_nodes[n] = One(n \in nodes /\ ~HasUsers(operands, results, n))
    /\ top_nodes[n] = One(/\ n \in nodes /\ operands[n] = << >>
                          /\ ~Pending(Call("push_top", n, Region)))

\* An origin belongs to a node that exists: no step leaves a dangling input.
NoDangling ==
  /\ \A n \in Nodes : Producers(operands, n) \subseteq nodes
  /\ \A o \in ToSet(results) : Producer(o) \in nodes \cup {Region}

\* What a result depends on.
Needed == {n \in nodes : \E m \in Downstream(operands, n) :
                           \E o \in ToSet(results) : Producer(o) = m}

\* region::prune: no node a result depends on is ever destroyed, and when
\* prune returns no other node is left.
PruneExact ==
  [][/\ Calling("prune") => Needed \subseteq nodes'
     /\ PruneDone => nodes = Needed]_region

\* The steps a pending call still takes: recompute_depth visits what depends
\* on its node once for every path to it.
StepsLeft ==
  LET paths[n \in Nodes] ==
        1 + MapThenSumSet(LAMBDA u : paths[u[1]], UserInputs(operands, n))
      Cost(call) == CASE call.op = "recompute_depth" -> paths[call.node]
                      [] call.op = "add_input" -> 1 + paths[call.node]
                      [] call.op = "prune" -> 1 + Cardinality(nodes)
                      [] OTHER -> 1
  IN  MapThenSumSet(LAMBDA k : Cost(work[k]), DOMAIN work)

\* Every call returns, the recursion of recompute_depth and the loop of prune
\* included: each step leaves fewer to be made, and no call waits in vain.
CallsReturn == [][~Idle => StepsLeft' < StepsLeft]_region
=============================================================================

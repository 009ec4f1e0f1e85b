-------------------------------- MODULE Rvsdg --------------------------------
(***************************************************************************)
(* The graph that the optimizations work on (src/jlm/rvsdg): regions with  *)
(* arguments and results, nodes with inputs and outputs, structural nodes  *)
(* with subregions.                                                        *)
(*                                                                         *)
(* A graph is a record [node, region, fresh, mutable].  Nodes and regions  *)
(* are numbered from one counter, fresh is the next unused number.  An     *)
(* output is << node, k >>, an argument << region, k >>: an origin is one  *)
(* or the other.  A user is << node, k >> or << region, k >>, for an input *)
(* or a result.  mutable: the normal forms that may change the graph (see  *)
(* module NodeReduction). Of a node:                                        *)
(*   op    its operation, a record with field kind                         *)
(*   ins   the origins of its inputs      outs  the types of its outputs   *)
(*   subs  its subregions                 home  the region it lies in      *)
(* Of a region: owner, the node it belongs to (its own number for the      *)
(* root), args, the types of its arguments, and results, the origins.      *)
(*                                                                         *)
(* The variables of a structural node are positions.  Gamma: input 1 is    *)
(* the predicate, input k + 1 belongs to argument k of every subregion,    *)
(* result k of every subregion to output k.  Theta: input k, argument k,   *)
(* result k + 1 and output k are one loop variable, result 1 is the        *)
(* predicate.  Lambda: the arguments are those of the function, then the   *)
(* context variables, one for each input.                                  *)
(***************************************************************************)
EXTENDS Integers, Sequences, FiniteSets, SequencesExt

CONSTANT Width      \* bits of a number
ASSUME WidthAssumption == Width \in Nat \ {0}

Kind(g, n) == g.node[n].op.kind
IsSimple(g, n) == g.node[n].subs = <<>>
NodesIn(g, r) == {n \in DOMAIN g.node : g.node[n].home = r}
IsOutput(g, o) == o[1] \in DOMAIN g.node
IsArgument(g, o) == o[1] \in DOMAIN g.region
RegionOf(g, o) == IF IsOutput(g, o) THEN g.node[o[1]].home ELSE o[1]
TypeOf(g, o) == IF IsOutput(g, o) THEN g.node[o[1]].outs[o[2]] ELSE g.region[o[1]].args[o[2]]
Types(g, origins) == [k \in DOMAIN origins |-> TypeOf(g, origins[k])]
Owner(g, r) == g.region[r].owner
(* What an argument of a subregion of a gamma node gets.                  *)
EntryOrigin(g, a) == g.node[Owner(g, a[1])].ins[a[2] + 1]
Root(g) == CHOOSE r \in DOMAIN g.region : Owner(g, r) = r
Sub(g, n, i) == g.node[n].subs[i]
Body(g, n) == Sub(g, n, 1)
StateTypes == {"mem", "io", "loop"}
Forms == {"binary", "load", "store", "gamma", "other"}

Outputs(g, n) == [k \in DOMAIN g.node[n].outs |-> <<n, k>>]
Arguments(g, r) == [k \in DOMAIN g.region[r].args |-> <<r, k>>]

(* The users of an origin.                                                 *)
NodeUsers(g, o) ==
  UNION {{<<n, k>> : k \in {k \in DOMAIN g.node[n].ins : g.node[n].ins[k] = o}} : n \in NodesIn(g, RegionOf(g, o))}
ResultUsers(g, o) ==
  LET r == RegionOf(g, o) IN {<<r, k>> : k \in {k \in DOMAIN g.region[r].results : g.region[r].results[k] = o}}
Users(g, o) == NodeUsers(g, o) \cup ResultUsers(g, o)

Successors(g, n) == {u[1] : u \in UNION {NodeUsers(g, o) : o \in Range(Outputs(g, n))}}

(***************************************************************************)
(* Substitutions are functions from origins to origins.                    *)
(***************************************************************************)
Lookup(m, o) == IF o \in DOMAIN m THEN m[o] ELSE o
LookupAll(m, s) == [k \in DOMAIN s |-> Lookup(m, s[k])]
Mapping(from, to) == [o \in Range(from) |-> to[SelectLastInSeq(from, LAMBDA p : p = o)]]

(* The users of the outputs in m go over to what m gives for them.         *)
DivertUsers(g, m) ==
  [g EXCEPT !.node = [n \in DOMAIN g.node |-> [g.node[n] EXCEPT !.ins = LookupAll(m, g.node[n].ins)]],
            !.region = [r \in DOMAIN g.region |->
                          [g.region[r] EXCEPT !.results = LookupAll(m, g.region[r].results)]]]
DivertTo(g, from, to) == DivertUsers(g, from :> to)

(***************************************************************************)
(* Nodes in the order of a top-down traversal: by depth, then by age.      *)
(***************************************************************************)
Producers(g, n) == {g.node[n].ins[k][1] : k \in DOMAIN g.node[n].ins} \cap DOMAIN g.node

RECURSIVE Layers(_, _)
Layers(g, rest) ==
  LET top == {n \in rest : Producers(g, n) \cap rest = {}}
  IN  IF top = {} THEN <<>> ELSE <<top>> \o Layers(g, rest \ top)
RECURSIVE InTurn(_)
InTurn(S) == IF S = {} THEN <<>> ELSE <<Min(S)>> \o InTurn(S \ {Min(S)})
Depths(g, r) == Layers(g, NodesIn(g, r))
TopDown(g, r) == FlattenSeq([d \in DOMAIN Depths(g, r) |-> InTurn(Depths(g, r)[d])])
TopNodes(g, r) == {n \in NodesIn(g, r) : g.node[n].ins = <<>>}

(* The node a value comes from, through the variables that do not change   *)
(* it: producer() goes from an argument to the origin of its input, unless *)
(* it is a loop variable that changes.                                     *)
IsInvariantArgument(g, a) == IsArgument(g, a) /\ g.region[a[1]].results[a[2] + 1] = a
ContextPosition(g, r, k) == k - (Len(g.region[r].args) - Len(g.node[Owner(g, r)].ins))
InputPosition(g, a) ==
  CASE Kind(g, Owner(g, a[1])) = "gamma" -> a[2] + 1
    [] Kind(g, Owner(g, a[1])) = "theta" -> IF IsInvariantArgument(g, a) THEN a[2] ELSE 0
    [] OTHER -> ContextPosition(g, a[1], a[2])
RECURSIVE Producer(_, _)
Producer(g, o) ==
  IF IsOutput(g, o) THEN o[1]
  ELSE IF Owner(g, o[1]) = o[1] \/ InputPosition(g, o) < 1 THEN 0
  ELSE Producer(g, g.node[Owner(g, o[1])].ins[InputPosition(g, o)])

(***************************************************************************)
(* Creation and removal.                                                   *)
(***************************************************************************)
NewNode(g, home, op, ins, outs) ==
  [g EXCEPT !.node = (g.fresh :> [op |-> op, ins |-> ins, outs |-> outs, subs |-> <<>>, home |-> home]) @@ @,
            !.fresh = @ + 1]

(* A structural node and its subregions, with arguments of the given types *)
NewStructural(g, home, op, ins, outs, args, count) ==
  LET n == g.fresh
  IN  [g EXCEPT !.node = (n :> [op |-> op, ins |-> ins, outs |-> outs, subs |-> [i \in 1 .. count |-> n + i],
                                home |-> home]) @@ @,
                !.region = [r \in n + 1 .. n + count |-> [owner |-> n, args |-> args, results |-> <<>>]] @@ @,
                !.fresh = n + count + 1]

AddEntryVars(g, n, origins) ==
  [g EXCEPT !.node[n].ins = @ \o origins,
            !.region = [r \in DOMAIN @ |->
                          IF @[r].owner = n
                          THEN [@[r] EXCEPT !.args = @ \o [k \in DOMAIN origins |-> TypeOf(g, origins[k])]] ELSE @[r]]]
(* lists: for each subregion the origins of its new results.               *)
AddExitVars(g, n, lists) ==
  [g EXCEPT !.node[n].outs = @ \o [k \in DOMAIN lists[1] |-> TypeOf(g, lists[1][k])],
            !.region = [r \in DOMAIN @ |->
                          IF @[r].owner = n
                          THEN [@[r] EXCEPT !.results = @ \o lists[SelectInSeq(g.node[n].subs, LAMBDA s : s = r)]]
                          ELSE @[r]]]
(* New loop variables are invariant.                                       *)
AddLoopVars(g, n, origins) ==
  LET r == Body(g, n)
      types == [k \in DOMAIN origins |-> TypeOf(g, origins[k])]
  IN  [g EXCEPT !.node[n].ins = @ \o origins, !.node[n].outs = @ \o types,
                !.region[r].args = @ \o types,
                !.region[r].results = @ \o [k \in DOMAIN origins |-> <<r, Len(g.region[r].args) + k>>]]

(***************************************************************************)
(* Copies.  A step of a copy is [graph, map]: the graph so far and the     *)
(* substitution, which says what each origin has been copied to.           *)
(***************************************************************************)
RECURSIVE CopyNodes(_, _, _)

(* The node without the contents of its subregions.                        *)
CopyShell(c, n, target) ==
  LET g == c.graph  old == g.node[n]
      made == [g EXCEPT
        !.node = (g.fresh :> [old EXCEPT !.ins = LookupAll(c.map, @), !.home = target,
                                         !.subs = [i \in DOMAIN @ |-> g.fresh + i]]) @@ @,
        !.region = [r \in {g.fresh + i : i \in DOMAIN old.subs} |->
                      [owner |-> g.fresh, args |-> g.region[old.subs[r - g.fresh]].args, results |-> <<>>]] @@ @,
        !.fresh = @ + Len(old.subs) + 1]
  IN  [graph |-> made, map |-> Mapping(Outputs(g, n), Outputs(made, g.fresh)) @@ c.map]

WithResults(c, from, to) == [c.graph EXCEPT !.region[to].results = LookupAll(c.map, c.graph.region[from].results)]

(* Subregion from of a node into the subregion to of its copy.             *)
CopyRegion(g, from, to) ==
  WithResults(CopyNodes([graph |-> g, map |-> Mapping(Arguments(g, from), Arguments(g, to))], TopDown(g, from), to),
              from, to)

RECURSIVE CopySubregions(_, _, _)
CopySubregions(g, from, to) ==
  IF from = <<>> THEN g ELSE CopySubregions(CopyRegion(g, Head(from), Head(to)), Tail(from), Tail(to))

(* A theta node that has been copied leaves all normal forms mutable.      *)
CopyInto(c, n, new) ==
  [c EXCEPT !.graph = CopySubregions(@, @.node[n].subs, @.node[new].subs),
            !.graph.mutable = IF Kind(c.graph, n) = "theta" THEN Forms ELSE @]
CopyNode(c, n, target) == CopyInto(CopyShell(c, n, target), n, c.graph.fresh)

CopyNodes(c, nodes, target) ==
  IF nodes = <<>> THEN c ELSE CopyNodes(CopyNode(c, Head(nodes), target), Tail(nodes), target)

(* The nodes of a region into another, under a substitution.               *)
Copied(g, r, target, m) == CopyNodes([graph |-> g, map |-> m], TopDown(g, r), target)

(***************************************************************************)
(* Removal of nodes, with all that lies in their subregions.               *)
(***************************************************************************)
RECURSIVE InsideOf(_, _)
InsideOf(g, N) ==
  IF N = {} THEN {}
  ELSE LET R == UNION {Range(g.node[n].subs) : n \in N}
       IN  N \cup R \cup InsideOf(g, UNION {NodesIn(g, r) : r \in R})

Without(g, gone) ==
  [g EXCEPT !.node = [n \in DOMAIN @ \ gone |-> @[n]], !.region = [r \in DOMAIN @ \ gone |-> @[r]]]
Removed(g, N) == Without(g, InsideOf(g, N))
==============================================================================

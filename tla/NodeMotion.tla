----------------------------- MODULE NodeMotion -----------------------------
(***************************************************************************)
(* Pulling nodes into gamma nodes (src/jlm/llvm/opt/pull.cpp): a node in   *)
(* front of a gamma node that only one of its subregions uses, and, for    *)
(* the inversion of loops, any node in front of it that only the gamma     *)
(* node uses and the nodes behind it.                                      *)
(***************************************************************************)
EXTENDS NodeReduction

(* The users of a node: nodes, and the region for any result.              *)
UsingNodes(g, n) == {u[1] : u \in UNION {Users(g, o) : o \in Range(Outputs(g, n))}}
SingleSuccessor(g, n) == Cardinality(UsingNodes(g, n)) = 1

EmptyGamma(g, gamma) == \A r \in Range(g.node[gamma].subs) : NodesIn(g, r) = {}
EntryVars(g, gamma) == 2 .. Len(g.node[gamma].ins)
EntriesFrom(g, gamma, n) == {k \in EntryVars(g, gamma) : g.node[gamma].ins[k][1] = n}
PredicateNode(g, gamma) == g.node[gamma].ins[1][1]

(* Entry variables go, and the arguments behind them are renumbered.       *)
Kept(s, gone) == [k \in 1 .. Len(s) - Cardinality(gone) |->
                    s[CHOOSE i \in DOMAIN s \ gone : Cardinality((1 .. i) \ gone) = k]]
\* Mutant: the arguments behind a removed one keep their numbers.
MovedNot(g, gamma, gone) == [a \in UNION {Range(Arguments(g, r)) : r \in Range(g.node[gamma].subs)} |-> a]
Moved(g, gamma, gone) ==
  [a \in UNION {Range(Arguments(g, r)) : r \in Range(g.node[gamma].subs)} |->
     <<a[1], Cardinality((1 .. a[2]) \ gone)>>]
WithoutEntryVars(g, gamma, gone) ==
  LET args == {k - 1 : k \in gone}
      moved == DivertUsers(g, Moved(g, gamma, args))
  IN  [moved EXCEPT !.node[gamma].ins = Kept(@, gone),
                    !.region = [r \in DOMAIN @ |-> IF @[r].owner = gamma
                                                   THEN [@[r] EXCEPT !.args = Kept(@, args)] ELSE @[r]]]

(* A copy of node n in a subregion, whose arguments from first on are the  *)
(* operands, takes over from the arguments that stood for n.               *)
Substitutes(c, gamma, n, r) ==
  DivertUsers(c.graph, [a \in {<<r, k - 1>> : k \in EntriesFrom(c.graph, gamma, n)} |->
                          c.map[c.graph.node[gamma].ins[a[2] + 1]]])
CopyForRegion(g, gamma, n, r, first) ==
  Substitutes(CopyNode([graph |-> g, map |-> Mapping(g.node[n].ins, [k \in DOMAIN g.node[n].ins |-> <<r, first + k>>])],
                       n, r), gamma, n, r)
RECURSIVE CopyForRegions(_, _, _, _, _)
CopyForRegions(g, gamma, n, regions, first) ==
  IF regions = <<>> THEN g
  ELSE CopyForRegions(CopyForRegion(g, gamma, n, Head(regions), first), gamma, n, Tail(regions), first)

PullInNode(g, gamma, n) ==
  CopyForRegions(AddEntryVars(g, gamma, g.node[n].ins), gamma, n, g.node[gamma].subs, Len(g.node[gamma].ins) - 1)
CleanUp(g, gamma, n) == Removed(WithoutEntryVars(g, gamma, EntriesFrom(g, gamma, n)), {n})

(* The first entry variable whose node may be pulled in, as far as P says. *)
Candidates(g, gamma) ==
  {k \in EntryVars(g, gamma) :
     LET n == g.node[gamma].ins[k][1]
     IN  n \in DOMAIN g.node /\ n # PredicateNode(g, gamma) /\ SingleSuccessor(g, n)}

RECURSIVE PullInTop(_, _)
PulledIn(g, gamma, n) == CleanUp(PullInNode(g, gamma, n), gamma, n)
PullInTop(g, gamma) ==
  IF Candidates(g, gamma) = {} THEN g
  ELSE PullInTop(PulledIn(g, gamma, g.node[gamma].ins[Min(Candidates(g, gamma))][1]), gamma)

SubregionsUsing(g, gamma, n) ==
  {r \in Range(g.node[gamma].subs) : \E k \in EntriesFrom(g, gamma, n) : Users(g, <<r, k - 1>>) # {}}
UsedInOne(g, gamma) ==
  {k \in Candidates(g, gamma) : Cardinality(SubregionsUsing(g, gamma, g.node[gamma].ins[k][1])) = 1}

RECURSIVE PullUsed(_, _)
\* Mutant: the entry variables are gone through only once.
PullUsedOnce(g, gamma) ==
  IF UsedInOne(g, gamma) = {} THEN g ELSE PulledIn(g, gamma, g.node[gamma].ins[Min(UsedInOne(g, gamma))][1])
PullUsed(g, gamma) ==
  IF UsedInOne(g, gamma) = {} THEN g
  ELSE PullUsed(PulledIn(g, gamma, g.node[gamma].ins[Min(UsedInOne(g, gamma))][1]), gamma)

(* Empty gamma nodes with two subregions become select instructions.       *)
Pull(g, gamma) ==
  IF Len(g.node[gamma].subs) = 2 /\ EmptyGamma(g, gamma) THEN g ELSE PullUsed(g, gamma)

(***************************************************************************)
(* The nodes behind a gamma node.  The nodes to be pulled in are in a hash *)
(* set of pointers: any of them may be next.                               *)
(***************************************************************************)
DepthOf(g, n) == CHOOSE d \in DOMAIN Depths(g, g.node[n].home) : n \in Depths(g, g.node[n].home)[d]
NextBehind(g, n) == {m \in Successors(g, n) : DepthOf(g, m) = DepthOf(g, n) + 1}

(* The operands of n in the i-th subregion.  For each subregion the        *)
(* operands that do not come from the gamma node are made entry variables  *)
(* again; before is the number of arguments before that.                   *)
Foreign(g, gamma, n) == SelectSeq(g.node[n].ins, LAMBDA o : o[1] # gamma)
OperandsIn(g, gamma, n, i, before) ==
  [o \in Range(g.node[n].ins) |->
     IF o[1] = gamma THEN g.region[Sub(g, gamma, i)].results[o[2]]
     ELSE <<Sub(g, gamma, i), before + (i - 1) * Len(Foreign(g, gamma, n))
                                + SelectInSeq(Foreign(g, gamma, n), LAMBDA p : p = o)>>]
WithOperands(g, gamma, n) ==
  AddEntryVars(g, gamma, FlattenSeq([i \in DOMAIN g.node[gamma].subs |-> Foreign(g, gamma, n)]))

(* c: [graph, lists], the lists of the outputs of the copies so far.       *)
RECURSIVE CopyBehind(_, _, _, _)
CopyOne(c, n, made) == [graph |-> made.graph, lists |-> Append(c.lists, LookupAll(made.map, Outputs(c.graph, n)))]
CopyBehind(c, gamma, n, before) ==
  LET i == Len(c.lists) + 1
  IN  IF i > Len(c.graph.node[gamma].subs) THEN c
      ELSE CopyBehind(CopyOne(c, n, CopyNode([graph |-> c.graph, map |-> OperandsIn(c.graph, gamma, n, i, before)],
                                             n, Sub(c.graph, gamma, i))), gamma, n, before)
(* The outputs of n go over to the new outputs of the gamma node.          *)
TakeOver(c, gamma, n) ==
  DivertUsers(AddExitVars(c.graph, gamma, c.lists),
              [o \in Range(Outputs(c.graph, n)) |-> <<gamma, Len(c.graph.node[gamma].outs) + o[2]>>])

(* A node that becomes its own successor: the depths never settle.         *)
Cyclic(g, r) == UNION Range(Depths(g, r)) # NodesIn(g, r)

RECURSIVE PullInBehind(_, _, _)
PullBehind(g, gamma, n, workset, before) ==
  IF Cyclic(g, g.node[gamma].home) THEN {g}
  ELSE PullInBehind(TakeOver(CopyBehind([graph |-> g, lists |-> <<>>], gamma, n, before), gamma, n), gamma,
                    (workset \ {n}) \cup NextBehind(g, n))
PullInBehind(g, gamma, workset) ==
  IF workset = {} THEN {g}
  ELSE UNION {PullBehind(WithOperands(g, gamma, n), gamma, n, workset, Len(g.node[gamma].ins) - 1) : n \in workset}
PullInBottom(g, gamma) == PullInBehind(g, gamma, NextBehind(g, gamma))

(***************************************************************************)
(* Pushing nodes out of gamma and theta nodes (src/jlm/llvm/opt/push.cpp). *)
(* A node is copied in front of the structural node, and an entry or loop  *)
(* variable brings its value back in; the node stays behind without users. *)
(* A store at the end of a loop moves behind the loop.                     *)
(***************************************************************************)

HasSideEffects(g, n) == Range(g.node[n].outs) \cap StateTypes # {}
IsTop(g, n) == Producers(g, n) = {}
Consumers(g, args) == {u[1] : u \in UNION {NodeUsers(g, a) : a \in args}}
LastArguments(g, r, count) == {<<r, k>> : k \in Len(g.region[r].args) - count + 1 .. Len(g.region[r].args)}

(* The worklist takes nodes in the order they were found, each only once.  *)
PushBack(list, nodes) == list \o SelectSeq(InTurn(nodes), LAMBDA n : n \notin Range(list))

(***************************************************************************)
(* Gamma nodes                                                             *)
(***************************************************************************)
OuterOrigin(g, a) ==
  LET n == Owner(g, a[1]) IN g.node[n].ins[IF Kind(g, n) = "gamma" THEN a[2] + 1 ELSE a[2]]
(* The copy in front of the node; the copy has number g.fresh.             *)
CopyInFront(g, n) ==
  CopyNode([graph |-> g, map |-> [a \in Range(g.node[n].ins) |-> OuterOrigin(g, a)]],
           n, g.node[Owner(g, g.node[n].home)].home).graph

(* The users of the outputs of n take the last arguments of its region.    *)
UseArguments(g, n) ==
  DivertUsers(g, [o \in Range(Outputs(g, n)) |->
     <<g.node[n].home, Len(g.region[g.node[n].home].args) - Len(g.node[n].outs) + o[2]>>])
WithEntries(g, n, copy) == UseArguments(AddEntryVars(g, Owner(g, g.node[n].home), Outputs(g, copy)), n)
CopyFromGamma(g, n) == WithEntries(CopyInFront(g, n), n, g.fresh)

RECURSIVE CopyAllFromGamma(_, _)
CopyAllFromGamma(g, nodes) ==
  IF nodes = <<>> THEN g ELSE CopyAllFromGamma(CopyFromGamma(g, Head(nodes)), Tail(nodes))
PureTopNodes(g, r) == InTurn({n \in TopNodes(g, r) : ~HasSideEffects(g, n)})

(* A load is pushed out as if it always had a valid address.               *)
IsGammaTopPushable(g, n) == Kind(g, n) = "load" \/ ~HasSideEffects(g, n)
RECURSIVE PushListed(_, _)
PushedOne(g, r, n, rest) ==
  PushListed(g, PushBack(rest, {m \in Consumers(g, LastArguments(g, r, Len(g.node[n].outs))) : IsTop(g, m)}))
PushListed(g, list) ==
  IF list = <<>> THEN g
  ELSE LET n == Head(list)
       IN  IF ~IsGammaTopPushable(g, n) THEN PushListed(g, Tail(list))
           ELSE PushedOne(CopyFromGamma(g, n), g.node[n].home, n, Tail(list))

PushArgumentUsers(g, r) ==
  PushListed(g, InTurn({n \in Consumers(g, Range(Arguments(g, r))) : IsTop(g, n)}))
PushFromSubregion(g, r) == PushArgumentUsers(CopyAllFromGamma(g, PureTopNodes(g, r)), r)
RECURSIVE PushFromSubregions(_, _)
PushFromSubregions(g, regions) ==
  IF regions = <<>> THEN g ELSE PushFromSubregions(PushFromSubregion(g, Head(regions)), Tail(regions))
PushGamma(g, gamma) == PushFromSubregions(g, g.node[gamma].subs)

(***************************************************************************)
(* Theta nodes                                                             *)
(***************************************************************************)
WithLoopVars(g, n, copy) == UseArguments(AddLoopVars(g, Owner(g, g.node[n].home), Outputs(g, copy)), n)
CopyFromTheta(g, n) == WithLoopVars(CopyInFront(g, n), n, g.fresh)
RECURSIVE CopyAllFromTheta(_, _)
CopyAllFromTheta(g, nodes) ==
  IF nodes = <<>> THEN g ELSE CopyAllFromTheta(CopyFromTheta(g, Head(nodes)), Tail(nodes))

IsThetaInvariant(g, n, invariants) == IsTop(g, n) /\ Range(g.node[n].ins) \subseteq invariants
Invariants(g, r) == {a \in Range(Arguments(g, r)) : IsInvariantArgument(g, a)}

RECURSIVE PushInvariant(_, _, _)
PushedInvariant(g, n, list, invariants, new) ==
  PushInvariant(g, PushBack(list, {m \in Consumers(g, new) : IsThetaInvariant(g, m, invariants \cup new)}),
                invariants \cup new)
PushInvariant(g, list, invariants) ==
  IF list = <<>> THEN g
  ELSE LET n == Head(list)  r == g.node[n].home
           args == Len(g.region[r].args)
       IN  IF HasSideEffects(g, n) THEN PushInvariant(g, Tail(list), invariants)
           ELSE PushedInvariant(CopyFromTheta(g, n), n, Tail(list), invariants,
                                {<<r, args + k>> : k \in DOMAIN g.node[n].outs})

PushInvariantUsers(g, r) ==
  PushInvariant(g, InTurn({n \in Consumers(g, Range(Arguments(g, r))) : IsThetaInvariant(g, n, Invariants(g, r))}),
                Invariants(g, r))
PushTop(g, theta) ==
  PushInvariantUsers(CopyAllFromTheta(g, PureTopNodes(g, Body(g, theta))), Body(g, theta))

(* A store whose address stays the same, whose states nothing else uses,   *)
(* and whose outputs are results.                                          *)
IsMovableStore(g, n) ==
  LET ins == g.node[n].ins
  IN  /\ Kind(g, n) = "store" /\ IsInvariantArgument(g, ins[1]) /\ Cardinality(Users(g, ins[1])) = 2
      /\ \A k \in 3 .. Len(ins) : IsArgument(g, ins[k]) /\ Cardinality(Users(g, ins[k])) <= 1
      /\ \A o \in Range(Outputs(g, n)) : Cardinality(Users(g, o)) = 1 /\ ResultUsers(g, o) # {}
MovableStores(g, theta) ==
  {k \in 2 .. Len(g.region[Body(g, theta)].results) :
     LET o == g.region[Body(g, theta)].results[k] IN IsOutput(g, o) /\ IsMovableStore(g, o[1])}

(* The value becomes a loop variable, undefined at first; the states pass  *)
(* the store by; a new store behind the loop takes the outputs of the      *)
(* variables whose results the old one was, and their users.               *)
WithLoopVar(c, theta) == AddLoopVars(c.graph, theta, << <<c.node, 1>> >>)
WithUndef(g, theta, type) ==
  WithLoopVar(Created(g, g.node[theta].home, [kind |-> "undef"], <<>>, <<type>>), theta)
PassBy(g, theta, n) ==
  [DivertUsers(g, [o \in Range(Outputs(g, n)) |-> g.node[n].ins[o[2] + 2]])
     EXCEPT !.region[Body(g, theta)].results[Len(g.region[Body(g, theta)].results)] = g.node[n].ins[2]]
StatesOf(g, theta, n) ==
  [k \in DOMAIN g.node[n].outs |->
     <<theta, (CHOOSE u \in ResultUsers(g, <<n, k>>) : TRUE)[2] - 1>>]
StoreBehind(g, theta, n, states, address, value) ==
  NewNode(Removed(DivertUsers(g, Mapping(states, [k \in DOMAIN states |-> <<g.fresh, k>>])), {n}),
          g.node[theta].home, g.node[n].op, <<address, value>> \o states, g.node[n].outs)
PushOutStore(g, theta, n) ==
  LET m == WithUndef(g, theta, TypeOf(g, g.node[n].ins[2]))
  IN  StoreBehind(PassBy(m, theta, n), theta, n, StatesOf(g, theta, n), OuterOrigin(g, g.node[n].ins[1]),
                  <<theta, Len(g.node[theta].outs) + 1>>)

RECURSIVE PushTheta(_, _)
PushBottom(g, theta) ==
  IF MovableStores(g, theta) = {} THEN g
  ELSE PushTheta(PushOutStore(g, theta, g.region[Body(g, theta)].results[Min(MovableStores(g, theta))][1]), theta)
PushTheta(g, theta) == PushBottom(PushTop(g, theta), theta)

Push(g, n) ==
  CASE Kind(g, n) = "gamma" -> PushGamma(g, n)
    [] Kind(g, n) = "theta" -> PushTheta(g, n)
    [] OTHER -> g
==============================================================================

---------------------------- MODULE NodeReduction ----------------------------
(***************************************************************************)
(* Normal forms (src/jlm/rvsdg/*-normal-form.cpp): what is done with a     *)
(* node when it is created, or found by the reduction of a graph.  The     *)
(* frontend makes all normal forms immutable; which ones are mutable is    *)
(* part of the graph.  A mutable normal form does not create a node twice, *)
(* and that of the binary operations computes what constant operands       *)
(* decide.  The frontend disables the flattening of nested operations, and *)
(* the reduction that of unary operations: match nodes are left as are.    *)
(***************************************************************************)
EXTENDS Rvsdg, BitStrings

(* All normal forms follow that of the class of all operations, but only   *)
(* when it changes.                                                        *)
Immutable(g) == [g EXCEPT !.mutable = IF "other" \in @ THEN {} ELSE @]
Mutable(g) == [g EXCEPT !.mutable = IF "other" \in @ THEN @ ELSE Forms]

FormOf(op) ==
  CASE op.kind \in {"binary", "compare"} -> "binary" [] op.kind = "load" -> "load" [] op.kind = "store" -> "store"
    [] op.kind = "match" -> "unary"  [] OTHER -> "other"

(***************************************************************************)
(* Constant operands                                                       *)
(***************************************************************************)
IsConstant(g, o) == Producer(g, o) # 0 /\ Kind(g, Producer(g, o)) = "constant"
ConstantValue(g, o) == g.node[Producer(g, o)].op.value
WidthOf(type) == IF type = "bit1" THEN 1 ELSE Width
(* An operand that is not constant is a string of unknown bits.            *)
OperandBits(g, o) ==
  IF IsConstant(g, o) THEN ToBits(ConstantValue(g, o), WidthOf(TypeOf(g, o)))
  ELSE Repeated("D", WidthOf(TypeOf(g, o)))

(* Operations at compile time.                                             *)
Folded(fn, a, b) == ToUInt(BinaryBits(fn, ToBits(a, Width), ToBits(b, Width)))
KnownBits(bits) == IF Range(bits) \subseteq {"0", "1"} THEN {ToUInt(bits)} ELSE {}
(* The value that the operands decide, if they do.                         *)
DecidedValue(g, op, ins) ==
  CASE op.kind = "compare" -> KnownBits(<<CompareBits(op.fn, OperandBits(g, ins[1]), OperandBits(g, ins[2]))>>)
    [] op.kind = "binary" /\ IsConstant(g, ins[1]) /\ IsConstant(g, ins[2]) ->
         KnownBits(BinaryBits(op.fn, OperandBits(g, ins[1]), OperandBits(g, ins[2])))
    [] OTHER -> {}

(***************************************************************************)
(* Creation.  What is created is [graph, node].                            *)
(***************************************************************************)
(* No two alloca operations are the same, and no two malloc operations.    *)
SameNodes(g, home, op, ins, outs) ==
  {n \in NodesIn(g, home) :
     op.kind \notin {"alloca", "malloc"} /\ g.node[n].op = op /\ g.node[n].ins = ins /\ g.node[n].outs = outs}
Shared(g, home, op, ins, outs) ==
  IF FormOf(op) \in g.mutable /\ SameNodes(g, home, op, ins, outs) # {}
  THEN [graph |-> g, node |-> Min(SameNodes(g, home, op, ins, outs))]
  ELSE [graph |-> NewNode(g, home, op, ins, outs), node |-> g.fresh]
Constant(value) == [kind |-> "constant", value |-> value]

(* A value that the operands decide becomes a constant.                    *)
CreatedFrom(g, home, op, ins, outs, decided) ==
  IF decided = {} THEN Shared(g, home, op, ins, outs)
  ELSE Shared(g, home, Constant(CHOOSE v \in decided : TRUE), <<>>, outs)
Created(g, home, op, ins, outs) ==
  CreatedFrom(g, home, op, ins, outs, IF "binary" \in g.mutable THEN DecidedValue(g, op, ins) ELSE {})

(* Nodes of a list of [op, ins, outs], one after the other; << 0, k >> as  *)
(* an operand is the output of the k-th.  origins: their outputs.          *)
Simple(op, ins, type) == [op |-> op, ins |-> ins, outs |-> <<type>>]
Resolved(ins, origins) == [k \in DOMAIN ins |-> IF ins[k][1] = 0 THEN origins[ins[k][2]] ELSE ins[k]]
RECURSIVE CreatedAll(_, _, _, _)
NextCreated(c, home, list, origins) == CreatedAll(c.graph, home, list, Append(origins, <<c.node, 1>>))
CreatedAll(g, home, list, origins) ==
  IF list = <<>> THEN [graph |-> g, origins |-> origins]
  ELSE NextCreated(Created(g, home, Head(list).op, Resolved(Head(list).ins, origins), Head(list).outs),
                   home, Tail(list), origins)

(***************************************************************************)
(* Node reduction (src/jlm/llvm/opt/reduction.cpp): every node is brought  *)
(* into its normal form, the nodes of the subregions first.  Gamma nodes   *)
(* with a constant predicate give way to the subregion it chooses; loads   *)
(* and stores get rid of memory states that do not matter to them.         *)
(***************************************************************************)

(* The nodes of the outputs given take over from n.                        *)
ReplacedNode(g, n, outputs) == Removed(DivertUsers(g, Mapping(Outputs(g, n), outputs)), {n})
MadeBy(g, o, kind) == IsOutput(g, o) /\ Kind(g, o[1]) = kind

(* The oldest node that is the same.                                       *)
Unified(g, n) ==
  LET same == Min({n} \cup SameNodes(g, g.node[n].home, g.node[n].op, g.node[n].ins, g.node[n].outs))
  IN  IF same = n \/ FormOf(g.node[n].op) \notin g.mutable THEN g ELSE ReplacedNode(g, n, Outputs(g, same))

(***************************************************************************)
(* Gamma nodes and binary operations                                       *)
(***************************************************************************)
ReplacedByCopies(c, n, r) == ReplacedNode(c.graph, n, LookupAll(c.map, c.graph.region[r].results))
ReplacedByRegion(g, n, r) ==
  ReplacedByCopies(Copied(g, r, g.node[n].home, Mapping(Arguments(g, r), Tail(g.node[n].ins))), n, r)
ReduceGamma(g, n) ==
  LET predicate == g.node[n].ins[1]
  IN  IF MadeBy(g, predicate, "control")
      THEN ReplacedByRegion(g, n, Sub(g, n, g.node[predicate[1]].op.value + 1)) ELSE g

ReplacedByConstant(c, n) == ReplacedNode(c.graph, n, Outputs(c.graph, c.node))
ReduceBinary(g, n) ==
  LET node == g.node[n]
      decided == DecidedValue(g, node.op, node.ins)
  IN  IF decided = {} THEN Unified(g, n)
      ELSE ReplacedByConstant(CreatedFrom(g, node.home, node.op, node.ins, node.outs, decided), n)

(***************************************************************************)
(* Loads.  The first operand is the address, the others are states.  The   *)
(* new load is node g.fresh; kept: the states that it still has.           *)
(***************************************************************************)
AddressNode(g, n) == g.node[n].ins[1][1]
States(g, n, first) == SubSeq(g.node[n].ins, first, Len(g.node[n].ins))
(* Memory operations of n's kind on other states.                          *)
WithStates(g, n, before, states) ==
  NewNode(g, g.node[n].home, g.node[n].op, before \o states,
          SelectSeq(g.node[n].outs, LAMBDA t : t # "mem") \o [k \in DOMAIN states |-> "mem"])
NewLoad(g, n, states) == WithStates(g, n, <<g.node[n].ins[1]>>, states)
LoadState(g, k) == <<g.fresh, k + 1>>

(* The state of a merge: the load takes the merged states one by one.      *)
MergesOne(g, n) == Len(g.node[n].ins) = 2 /\ MadeBy(g, g.node[n].ins[2], "merge")
ReplacedAndMerged(c, n, before) == ReplacedNode(c.graph, n, Append(before, <<c.node, 1>>))
MergedAgain(g, n, states, before) ==
  ReplacedAndMerged(Created(g, g.node[n].home, [kind |-> "merge"], states, <<"mem">>), n, before)
ReduceLoadMux(g, n) ==
  LET states == g.node[g.node[n].ins[2][1]].ins
  IN  MergedAgain(NewLoad(g, n, states), n, [k \in DOMAIN states |-> LoadState(g, k)], << <<g.fresh, 1>> >>)

(* The load stays behind the states for which drops is false; the others   *)
(* pass it by, in their places.                                            *)
PassingBy(g, n, drops) ==
  LET states == States(g, n, 2)
      kept == SelectSeq([k \in DOMAIN states |-> k], LAMBDA k : ~drops[k])
  IN  ReplacedNode(NewLoad(g, n, [i \in DOMAIN kept |-> states[kept[i]]]), n,
                   << <<g.fresh, 1>> >> \o [k \in DOMAIN states |->
                      IF drops[k] THEN states[k] ELSE LoadState(g, SelectInSeq(kept, LAMBDA i : i = k))])

(* The states of other alloca nodes: their outputs come last.              *)
IsOtherAlloca(g, n, o) == MadeBy(g, o, "alloca") /\ o[1] # AddressNode(g, n)
LoadsAlloca(g, n) == MadeBy(g, g.node[n].ins[1], "alloca")
ReduceLoadAlloca(g, n) ==
  LET kept == SelectSeq(States(g, n, 2), LAMBDA o : ~IsOtherAlloca(g, n, o))
      others == SelectSeq(States(g, n, 2), LAMBDA o : IsOtherAlloca(g, n, o))
  IN  ReplacedNode(NewLoad(g, n, kept), n,
                   << <<g.fresh, 1>> >> \o [k \in DOMAIN kept |-> LoadState(g, k)] \o others)
(* The states of stores to other alloca nodes, if they are not all.        *)
StoresElsewhere(g, n) ==
  [k \in DOMAIN States(g, n, 2) |->
     LET o == States(g, n, 2)[k]
     IN  MadeBy(g, o, "store") /\ MadeBy(g, g.node[o[1]].ins[1], "alloca") /\ AddressNode(g, o[1]) # AddressNode(g, n)]
(* States that come a second time.                                         *)
Repetitions(s) == [k \in DOMAIN s |-> s[k] \in Range(SubSeq(s, 1, k - 1))]

(* The only store to an alloca node, and the only load: no memory at all.  *)
IsForwarded(g, n) ==
  LET address == g.node[n].ins[1]  store == g.node[n].ins[2][1]
  IN  /\ Len(g.node[n].ins) = 2 /\ LoadsAlloca(g, n) /\ MadeBy(g, g.node[n].ins[2], "store")
      /\ g.node[store].ins[1] = address /\ Len(g.node[store].ins) = 3 /\ g.node[store].ins[3] = <<address[1], 2>>
      /\ Cardinality(Users(g, <<address[1], 2>>)) = 1 /\ Cardinality(Users(g, address)) = 2
Forward(g, n) == ReplacedNode(g, n, <<g.node[g.node[n].ins[2][1]].ins[2], <<AddressNode(g, n), 2>> >>)

(* Some but not all.                                                       *)
Partly(drops) == {TRUE, FALSE} = Range(drops)
ReduceLoad(g, n) ==
  IF MergesOne(g, n) THEN ReduceLoadMux(g, n)
  ELSE IF LoadsAlloca(g, n) /\ \E o \in Range(States(g, n, 2)) : IsOtherAlloca(g, n, o) THEN ReduceLoadAlloca(g, n)
  ELSE IF LoadsAlloca(g, n) /\ Partly(StoresElsewhere(g, n)) THEN PassingBy(g, n, StoresElsewhere(g, n))
  ELSE IF TRUE \in Range(Repetitions(States(g, n, 2))) THEN PassingBy(g, n, Repetitions(States(g, n, 2)))
  ELSE IF IsForwarded(g, n) THEN Forward(g, n)
  ELSE Unified(g, n)

(***************************************************************************)
(* Stores.  The operands are the address, the value, and states.           *)
(***************************************************************************)
NewStore(g, n, states) == WithStates(g, n, SubSeq(g.node[n].ins, 1, 2), states)
StoreStates(g, count) == [k \in 1 .. count |-> <<g.fresh, k>>]

IsStoreMux(g, n) ==
  \A o \in Range(States(g, n, 3)) : MadeBy(g, o, "merge") /\ o[1] = g.node[n].ins[3][1]
ReduceStoreMux(g, n) ==
  LET states == g.node[g.node[n].ins[3][1]].ins
  IN  MergedAgain(NewStore(g, n, states), n, StoreStates(g, Len(states)), <<>>)

(* A store to the same address right before, that nothing else sees.       *)
IsStoreStore(g, n) ==
  LET other == g.node[n].ins[3][1]
  IN  /\ MadeBy(g, g.node[n].ins[3], "store") /\ Len(g.node[other].outs) = Len(g.node[n].outs)
      /\ g.node[n].ins[1] = g.node[other].ins[1]
      /\ \A o \in Range(States(g, n, 3)) : o[1] = other /\ Cardinality(Users(g, o)) = 1
ReduceStoreStore(g, n) ==
  LET states == States(g, g.node[n].ins[3][1], 3)
  IN  ReplacedNode(NewStore(g, n, states), n, StoreStates(g, Len(states)))

(* A store to an alloca node whose state only it uses: the other states    *)
(* pass it by.  The new outputs come from a hash set, in any order.        *)
IsStoreAlloca(g, n) ==
  LET state == <<AddressNode(g, n), 2>>
  IN  /\ Len(g.node[n].ins) > 3 /\ MadeBy(g, g.node[n].ins[1], "alloca")
      /\ state \in Range(States(g, n, 3)) /\ Cardinality(Users(g, state)) = 1
StoreAllocaOutputs(g, n) ==
  SetToSeqs((Range(States(g, n, 3)) \ {<<AddressNode(g, n), 2>>}) \cup {<<g.fresh, 1>>})
ReduceStoreAlloca(g, n) ==
  {ReplacedNode(NewStore(g, n, << <<AddressNode(g, n), 2>> >>), n, outputs) : outputs \in StoreAllocaOutputs(g, n)}

(* Every state once.                                                       *)
ReduceStoreOrigins(g, n) ==
  LET states == SetToSeq(Range(States(g, n, 3)))
  IN  ReplacedNode(NewStore(g, n, states), n,
                   [k \in DOMAIN g.node[n].outs |->
                      <<g.fresh, SelectInSeq(states, LAMBDA o : o = g.node[n].ins[k + 2])>>])

ReduceStore(g, n) ==
  IF IsStoreMux(g, n) THEN {ReduceStoreMux(g, n)}
  ELSE IF IsStoreStore(g, n) THEN {ReduceStoreStore(g, n)}
  ELSE IF IsStoreAlloca(g, n) THEN ReduceStoreAlloca(g, n)
  ELSE IF TRUE \in Range(Repetitions(States(g, n, 3))) THEN {ReduceStoreOrigins(g, n)}
  ELSE {Unified(g, n)}

(***************************************************************************)
(* The graphs that normalize_node may leave.                               *)
(***************************************************************************)
Normalized(g, n) ==
  CASE Kind(g, n) = "gamma" -> {ReduceGamma(g, n)}
    [] Kind(g, n) \in {"theta", "lambda"} -> {g}
    [] Kind(g, n) \in {"binary", "compare"} -> {ReduceBinary(g, n)}
    [] Kind(g, n) = "load" -> {ReduceLoad(g, n)}
    [] Kind(g, n) = "store" -> ReduceStore(g, n)
    [] OTHER -> {Unified(g, n)}
EnabledReductions(g) == [g EXCEPT !.mutable = @ \cup {"binary", "load", "store", "gamma"}]
==============================================================================

--------------------------- MODULE RvsdgExecution ---------------------------
(***************************************************************************)
(* What a graph of module Rvsdg computes: the meaning that the backend     *)
(* gives its nodes (src/jlm/llvm/backend/jlm2llvm).  A node has one value  *)
(* per output, a gamma node runs the subregion of its predicate, a theta   *)
(* node repeats its subregion until the predicate is 0, a call runs the    *)
(* body of a lambda node.  Only what the results need is run.              *)
(*                                                                         *)
(* Numbers are bit strings of Width bits; addresses lie above them.        *)
(*                                                                         *)
(* The value of a memory state is a history: for each location the writes  *)
(* in their order, each with the reads that came before it, and the reads  *)
(* since the last write.  Where states are merged, one history of a        *)
(* location must go on from the others; if none does, two accesses are in  *)
(* no order though one of them is a write: a race.  What a region has done *)
(* is the merge of all that ran in it, so that an access whose state is    *)
(* dropped counts as well.                                                 *)
(***************************************************************************)
EXTENDS Rvsdg

CONSTANT Fuel       \* iterations after which a loop counts as endless
ASSUME FuelAssumption == Fuel \in Nat \ {0}

Size == 2 ^ Width
Undef == Size
Endless == Size + 1
Race == Size + 2
(* Addresses of nodes, and of what is imported.                            *)
Address(n) == Size + 50 + n
Imported(k) == Size + 10 + k
(* What the outside has seen is a location, where imported functions write *)
World == Size + 5
IsAddress(v) == v > World
Odd == {Undef, Endless, Race}

(***************************************************************************)
(* Memory states                                                           *)
(***************************************************************************)
NoMemory == [l \in {} |-> 0]
Cell(v) == [writes |-> <<[value |-> v, readers |-> {}]>>, readers |-> {}, race |-> FALSE]
Fresh == [writes |-> <<>>, readers |-> {}, race |-> FALSE]
At(m, l) == IF l \in DOMAIN m THEN m[l] ELSE Fresh

GoesOnFrom(b, a) ==
  \/ a.writes = b.writes
  \/ /\ Len(a.writes) < Len(b.writes)
     /\ a.writes = SubSeq(b.writes, 1, Len(a.writes))
     /\ a.readers \subseteq b.writes[Len(a.writes) + 1].readers

MergedCell(C) ==
  LET last == CHOOSE c \in C : \A d \in C : Len(d.writes) <= Len(c.writes)
      same == {c \in C : c.writes = last.writes}
  IN  [last EXCEPT !.readers = UNION {c.readers : c \in same},
                   !.race = \E c \in C : c.race \/ ~GoesOnFrom(last, c)]
Merged(M) == [l \in UNION {DOMAIN m : m \in M} |-> MergedCell({At(m, l) : m \in M})]

ValueAt(m, l) ==
  IF At(m, l).race THEN Race
  ELSE IF At(m, l).writes = <<>> THEN Undef ELSE Last(At(m, l).writes).value
Read(m, l, n) == (l :> [At(m, l) EXCEPT !.readers = @ \cup {n}]) @@ m
Write(m, l, v) ==
  (l :> [At(m, l) EXCEPT !.writes = Append(@, [value |-> v, readers |-> At(m, l).readers]), !.readers = {}]) @@ m

(***************************************************************************)
(* Operations on numbers                                                   *)
(***************************************************************************)
Signed(a) == IF 2 * a >= Size THEN a - Size ELSE a
Truth(b) == IF b THEN 1 ELSE 0
Quotient(a, b) ==
  LET size == (IF a < 0 THEN -a ELSE a) \div (IF b < 0 THEN -b ELSE b) IN IF (a < 0) = (b < 0) THEN size ELSE -size
Bit(a, k) == (a \div 2 ^ k) % 2
RECURSIVE Bitwise(_, _, _, _)
Bitwise(on, a, b, k) ==
  IF k = Width THEN 0 ELSE (IF Bit(a, k) + Bit(b, k) \in on THEN 2 ^ k ELSE 0) + Bitwise(on, a, b, k + 1)
(* A division by zero, or a shift by all bits or more, is undefined.       *)
IsUndefined(fn, b) ==
  (fn \in {"udiv", "umod", "sdiv", "smod"} /\ b = 0) \/ (fn \in {"shl", "shr", "ashr"} /\ b >= Width)
Applied(fn, a, b) ==
  CASE IsUndefined(fn, b) -> Undef
    [] fn = "add" -> (a + b) % Size
    [] fn = "sub" -> (a + Size - b) % Size
    [] fn = "mul" -> (a * b) % Size
    [] fn = "umulh" -> (a * b) \div Size
    [] fn = "smulh" -> ((Signed(a) * Signed(b)) \div Size) % Size
    [] fn = "udiv" -> a \div b          [] fn = "umod" -> a % b
    [] fn = "sdiv" -> Quotient(Signed(a), Signed(b)) % Size
    [] fn = "smod" -> (Signed(a) - Signed(b) * Quotient(Signed(a), Signed(b))) % Size
    [] fn = "and" -> Bitwise({2}, a, b, 0)  [] fn = "or" -> Bitwise({1, 2}, a, b, 0)
    [] fn = "xor" -> Bitwise({1}, a, b, 0)
    [] fn = "shl" -> (a * 2 ^ b) % Size  [] fn = "shr" -> a \div 2 ^ b
    [] fn = "ashr" -> (Signed(a) \div 2 ^ b) % Size
    [] fn = "eq" -> Truth(a = b)          [] fn = "ne" -> Truth(a # b)
    [] fn = "ult" -> Truth(a < b)         [] fn = "ule" -> Truth(a <= b)
    [] fn = "ugt" -> Truth(a > b)         [] fn = "uge" -> Truth(a >= b)
    [] fn = "slt" -> Truth(Signed(a) < Signed(b))  [] fn = "sle" -> Truth(Signed(a) <= Signed(b))
    [] fn = "sgt" -> Truth(Signed(a) > Signed(b))  [] fn = "sge" -> Truth(Signed(a) >= Signed(b))
Alternative(op, v) == IF v \in DOMAIN op.map THEN op.map[v] ELSE op.default

(***************************************************************************)
(* Running a region.  What a run yields is [outs, memory, odd]: the        *)
(* values, the merge of all histories that came up, and what was odd about *)
(* the run: an endless loop, or a branch on an undefined value.  s is the  *)
(* schedule: for each region the nodes its results need, in order.         *)
(***************************************************************************)
RECURSIVE NeededNodes(_, _)
NeededNodes(g, N) ==
  LET before == UNION {Producers(g, n) : n \in N} IN IF before \subseteq N THEN N ELSE NeededNodes(g, N \cup before)
ResultNodes(g, r) == {o[1] : o \in Range(g.region[r].results)} \cap DOMAIN g.node
InOrder(order, N) == SelectSeq(order, LAMBDA n : n \in N)
Schedule(g) == [r \in DOMAIN g.region |-> InOrder(TopDown(g, r), NeededNodes(g, ResultNodes(g, r)))]

RECURSIVE RunRegion(_, _, _, _)
RECURSIVE Repeat(_, _, _, _, _)

Yields(outs) == [outs |-> outs, memory |-> NoMemory, odd |-> {}]
Odder(run, what) == [run EXCEPT !.odd = @ \cup what]
After(run, earlier) == [run EXCEPT !.memory = Merged({@, earlier.memory}), !.odd = @ \cup earlier.odd]

(* The memory of a node's memory states, and the outputs of a node that    *)
(* leaves memory m behind it.                                              *)
MemoryOf(g, n, v) == Merged({v[k] : k \in {k \in DOMAIN v : TypeOf(g, g.node[n].ins[k]) = "mem"}})
Leaving(g, n, m) == [k \in DOMAIN g.node[n].outs |-> m]

(* What an origin of the root region stands for: functions and globals.    *)
RootValue(g, o) == IF IsOutput(g, o) THEN Address(o[1]) ELSE Imported(o[2])
Context(g, n) == [k \in DOMAIN g.node[n].ins |-> RootValue(g, g.node[n].ins[k])]

RunSimple(g, n, v, m) ==
  LET op == g.node[n].op
  IN  CASE op.kind \in {"constant", "control"} -> <<op.value>>
        [] op.kind = "undef" -> <<Undef>>
        [] op.kind \in {"binary", "compare"} ->
             <<IF {v[1], v[2]} \cap Odd # {} THEN Undef ELSE Applied(op.fn, v[1], v[2])>>
        [] op.kind = "match" -> <<IF v[1] \in Odd THEN Undef ELSE Alternative(op, v[1])>>
        [] op.kind = "null" -> <<Undef>>
        [] op.kind \in {"gep", "bitcast"} -> <<v[1]>>
        [] op.kind \in {"alloca", "malloc"} -> <<Address(n), NoMemory>>
        [] op.kind = "load" -> <<ValueAt(m, v[1])>> \o Tail(Leaving(g, n, Read(m, v[1], n)))
        [] op.kind = "store" -> Leaving(g, n, Write(m, v[1], v[2]))
        [] op.kind = "memcpy" -> Leaving(g, n, Write(Read(m, v[2], n), v[1], ValueAt(m, v[2])))
        [] op.kind \in {"merge", "split", "lambdaEntry", "lambdaExit", "callEntry", "callExit"} -> Leaving(g, n, m)

RunGamma(g, s, n, v) ==
  IF v[1] \in Odd THEN Odder(RunRegion(g, s, Body(g, n), Tail(v)), {"undefined branch"})
  ELSE RunRegion(g, s, Sub(g, n, v[1] + 1), Tail(v))

(* One iteration has run.                                                  *)
Iterated(g, s, n, run, fuel) ==
  IF run.outs[1] = 0 THEN [run EXCEPT !.outs = Tail(@)]
  ELSE IF run.outs[1] \in Odd THEN Odder([run EXCEPT !.outs = Tail(@)], {"undefined branch"})
  ELSE IF fuel = 1 THEN Odder([run EXCEPT !.outs = Tail(@)], {"endless loop"})
  ELSE After(Repeat(g, s, n, Tail(run.outs), fuel - 1), run)
Repeat(g, s, n, v, fuel) == Iterated(g, s, n, RunRegion(g, s, Body(g, n), v), fuel)

(* The outside sees the numbers, and what lies at the addresses: those of  *)
(* this call and of earlier ones, those of imports, and those it finds     *)
(* there.  It writes a number wherever there was none before or a number,  *)
(* and answers with how often it has been called.                          *)
Visible(m, A) == A \cup {ValueAt(m, l) : l \in A}
RECURSIVE FindsOut(_, _)
FindsOut(m, A) ==
  LET found == {v \in Visible(m, A) : IsAddress(v)} IN IF found \subseteq A THEN A ELSE FindsOut(m, A \cup found)
Told(m) == IF At(m, World).writes = <<>> THEN {} ELSE Last(At(m, World).writes).value.addresses
KnownOutside(m, v) ==
  FindsOut(m, {a \in Range(Tail(v)) : IsAddress(a)} \cup Told(m) \cup {l \in DOMAIN m : IsAddress(l) /\ l < Address(0)})
ShownNumber(v) == IF IsAddress(v) THEN World ELSE v
Sees(m, v, known) ==
  [called |-> v[1], shown |-> [k \in DOMAIN v |-> ShownNumber(v[k])],
   contents |-> [k \in DOMAIN v |-> IF IsAddress(v[k]) THEN ShownNumber(ValueAt(m, v[k])) ELSE World],
   all |-> {ShownNumber(ValueAt(m, a)) : a \in known}, addresses |-> known]
ReadAll(m, A, n) == [l \in A |-> [At(m, l) EXCEPT !.readers = @ \cup {n}]] @@ m
WriteAll(m, A, w) ==
  [l \in A |-> [At(m, l) EXCEPT !.writes = Append(@, [value |-> w, readers |-> At(m, l).readers]), !.readers = {}]] @@ m
NonStates(g, n, v) ==
  LET others == SelectSeq([k \in DOMAIN v |-> k], LAMBDA k : TypeOf(g, g.node[n].ins[k]) # "mem")
  IN  [k \in DOMAIN others |-> v[others[k]]]
Answer(m) == (Len(At(m, World).writes) + 1) % Size
Touched(m, n, v, known) ==
  WriteAll(ReadAll(Write(m, World, Sees(m, v, known)), known, n),
           {a \in known : ~IsAddress(ValueAt(m, a))}, Answer(m))
CallOutside(g, n, v, m) ==
  LET after == Touched(m, n, v, KnownOutside(m, v))
  IN  [k \in DOMAIN g.node[n].outs |-> IF g.node[n].outs[k] = "mem" THEN after ELSE Answer(m)]
UndefinedOuts(g, n, m) == [k \in DOMAIN g.node[n].outs |-> IF g.node[n].outs[k] = "mem" THEN m ELSE Undef]
Callees(g, a) == {n \in DOMAIN g.node : Address(n) = a}
RunCall(g, s, n, v) ==
  IF v[1] \in Odd THEN Odder(Yields(UndefinedOuts(g, n, MemoryOf(g, n, v))), {"undefined branch"})
  ELSE IF Callees(g, v[1]) = {} THEN Yields(CallOutside(g, n, NonStates(g, n, v), MemoryOf(g, n, v)))
  ELSE LET lambda == CHOOSE m \in Callees(g, v[1]) : TRUE
       IN  RunRegion(g, s, Body(g, lambda), Tail(v) \o Context(g, lambda))

RunNode(g, s, n, v) ==
  CASE Kind(g, n) = "gamma" -> RunGamma(g, s, n, v)
    [] Kind(g, n) = "theta" -> Repeat(g, s, n, v, Fuel)
    [] Kind(g, n) = "call" -> RunCall(g, s, n, v)
    [] OTHER -> Yields(RunSimple(g, n, v, MemoryOf(g, n, v)))

(* env: what each origin has so far; run: what the nodes so far have done. *)
ValuesOf(env, s) == [k \in DOMAIN s |-> env[s[k]]]
NodeMemory(g, n, outs) == {outs[k] : k \in {k \in DOMAIN outs : g.node[n].outs[k] = "mem"}}
RECURSIVE RunNodes(_, _, _, _, _)
Ran(g, s, n, rest, env, run, now) ==
  RunNodes(g, s, rest, [o \in Range(Outputs(g, n)) |-> now.outs[o[2]]] @@ env,
           [run EXCEPT !.memory = Merged({@, now.memory} \cup NodeMemory(g, n, now.outs)), !.odd = @ \cup now.odd])
RunNodes(g, s, todo, env, run) ==
  IF todo = <<>> THEN [run EXCEPT !.outs = env]
  ELSE Ran(g, s, Head(todo), Tail(todo), env, run, RunNode(g, s, Head(todo), ValuesOf(env, g.node[Head(todo)].ins)))

Finished(g, r, run) == [run EXCEPT !.outs = ValuesOf(@, g.region[r].results)]
RunRegion(g, s, r, args) ==
  Finished(g, r, RunNodes(g, s, s[r], [o \in Range(Arguments(g, r)) |-> args[o[2]]], Yields(<<>>)))

(* The results of calling the lambda node n: its numbers, and of a memory  *)
(* state the last value at each of the locations given and all that the    *)
(* outside has seen.                                                       *)
Seen(m) == [k \in DOMAIN At(m, World).writes |-> [At(m, World).writes[k].value EXCEPT !.addresses = {}]]
Outcome(g, n, args, locations) ==
  LET run == RunRegion(g, Schedule(g), Body(g, n), args \o Context(g, n))
      types == [k \in DOMAIN run.outs |-> TypeOf(g, g.region[Body(g, n)].results[k])]
      states == {run.outs[k] : k \in {k \in DOMAIN types : types[k] = "mem"}}
  IN  [numbers |-> [k \in {k \in DOMAIN types : types[k] \notin {"mem", "ptr"}} |-> run.outs[k]],
       memory |-> {[seen |-> Seen(m), at |-> [l \in locations |-> ValueAt(m, l)]] : m \in states},
       odd |-> run.odd \cup IF \E l \in DOMAIN run.memory : run.memory[l].race THEN {"race"} ELSE {}]
==============================================================================

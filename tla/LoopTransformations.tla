------------------------- MODULE LoopTransformations -------------------------
(***************************************************************************)
(* Loop inversion (src/jlm/llvm/opt/inversion.cpp): a theta node whose     *)
(* predicate also decides a gamma node in its body becomes a gamma node    *)
(* with a theta node in it.  Of the old gamma node, subregion 0 is the     *)
(* exit region and subregion 1 the repetition region; the other nodes of   *)
(* the loop compute the condition.                                         *)
(***************************************************************************)
EXTENDS NodeMotion

LoopPredicate(g, theta) == g.region[Body(g, theta)].results[1]
(* The gamma nodes that share the predicate of a theta node with it.       *)
DecidedGammas(g, theta) ==
  LET o == LoopPredicate(g, theta)
  IN  IF IsOutput(g, o) /\ Kind(g, o[1]) = "match" /\ Cardinality(Users(g, o)) = 2
      THEN {u[1] : u \in {u \in NodeUsers(g, o) : Kind(g, u[1]) = "gamma"}} ELSE {}

(***************************************************************************)
(* All other nodes are pulled into the gamma node, as far as possible, and *)
(* every loop variable is brought through it.                              *)
(***************************************************************************)
WithExit(g, gamma, r, k) ==
  [AddExitVars(g, gamma, [i \in DOMAIN g.node[gamma].subs |-> << <<Sub(g, gamma, i), Len(g.node[gamma].ins) - 1>> >>])
     EXCEPT !.region[r].results[k] = <<gamma, Len(g.node[gamma].outs) + 1>>]
RECURSIVE ThroughGamma(_, _, _, _)
ThroughGamma(g, gamma, r, k) ==
  IF k > Len(g.region[r].results) THEN g
  ELSE IF g.region[r].results[k][1] = gamma THEN ThroughGamma(g, gamma, r, k + 1)
  ELSE ThroughGamma(WithExit(AddEntryVars(g, gamma, <<g.region[r].results[k]>>), gamma, r, k), gamma, r, k + 1)
FinallyTop(g, gamma) == IF Cyclic(g, g.node[gamma].home) THEN g ELSE PullInTop(g, gamma)
PullIn(g, gamma) ==
  {FinallyTop(IF Cyclic(h, h.node[gamma].home) THEN h ELSE ThroughGamma(h, gamma, h.node[gamma].home, 2), gamma) :
     h \in PullInBottom(g, gamma)}

(***************************************************************************)
(* The construction.  g is the graph with everything pulled in, c and d    *)
(* are [graph, map].                                                       *)
(***************************************************************************)
ConditionNodes(g, gamma) == SelectSeq(TopDown(g, g.node[gamma].home), LAMBDA n : n # gamma)
Entries(g, gamma) == Tail(g.node[gamma].ins)
(* Entry variables that bring in the value of a condition node.            *)
FromCondition(g, gamma) == SelectSeq([k \in DOMAIN Entries(g, gamma) |-> k], LAMBDA k : IsOutput(g, Entries(g, gamma)[k]))
LoopVarCount(g, theta) == Len(g.node[theta].ins)
(* Which loop variable of the new theta node has the value of entry k.     *)
LoopVarOf(g, theta, gamma, k) ==
  IF IsArgument(g, Entries(g, gamma)[k]) THEN Entries(g, gamma)[k][2]
  ELSE LoopVarCount(g, theta) + SelectInSeq(FromCondition(g, gamma), LAMBDA i : i = k)
(* What subregion i of the gamma node gives for the loop variables.        *)
ResultsFor(g, theta, gamma, i) ==
  [j \in 1 .. LoopVarCount(g, theta) |->
     g.region[Sub(g, gamma, i)].results[g.region[Body(g, theta)].results[j + 1][2]]]

(* The condition in front of the loop, and the new gamma node: first the   *)
(* entry variables of the old one, then the loop variables, then the       *)
(* condition values again.                                                 *)
ConditionInFront(g, theta, gamma) ==
  CopyNodes([graph |-> g, map |-> Mapping(Arguments(g, Body(g, theta)), g.node[theta].ins)],
            ConditionNodes(g, gamma), g.node[theta].home)
NewEntries(g, theta, gamma, m) ==
  LookupAll(m, Entries(g, gamma)) \o g.node[theta].ins
    \o [i \in DOMAIN FromCondition(g, gamma) |-> Lookup(m, Entries(g, gamma)[FromCondition(g, gamma)[i]])]
OuterGamma(c, g, theta, gamma) ==
  AddEntryVars(NewStructural(c.graph, g.node[theta].home, g.node[gamma].op, <<Lookup(c.map, g.node[gamma].ins[1])>>,
                             <<>>, <<>>, Len(g.node[gamma].subs)),
               c.graph.fresh, NewEntries(g, theta, gamma, c.map))

(* The exit region alone, for when the loop is not entered.                *)
ExitRegion(h, g, gamma, new) ==
  Copied(h, Sub(g, gamma, 1), Sub(h, new, 1), Mapping(Arguments(g, Sub(g, gamma, 1)), Arguments(h, Sub(h, new, 1))))

(* The new theta node is h.fresh: the repetition region, then the          *)
(* condition for the next iteration, in terms of what the repetition left. *)
InnerTheta(h, g, new, skipped) ==
  LET args == Arguments(h, Sub(h, new, 2))
      ins == SubSeq(args, skipped + 1, Len(args))
      types == [k \in DOMAIN ins |-> TypeOf(h, ins[k])]
  IN  NewStructural(h, Sub(h, new, 2), [kind |-> "theta"], ins, types, types, 1)
LoopMap(h, g, theta, gamma, loop) ==
  [a \in Range(Arguments(g, Sub(g, gamma, 2))) |-> <<Body(h, loop), LoopVarOf(g, theta, gamma, a[2])>>]
    @@ [a \in Range(Arguments(g, Body(g, theta))) |-> <<Body(h, loop), a[2]>>]
Repetition(h, g, theta, gamma, loop) == Copied(h, Sub(g, gamma, 2), Body(h, loop), LoopMap(h, g, theta, gamma, loop))
ConditionBehind(c, g, theta, gamma, loop) ==
  CopyNodes([c EXCEPT !.map = Mapping(Arguments(g, Body(g, theta)), LookupAll(@, ResultsFor(g, theta, gamma, 2))) @@ @],
            ConditionNodes(g, gamma), Body(c.graph, loop))
CloseLoop(c, g, theta, gamma, loop) ==
  [c EXCEPT !.graph.region[Body(c.graph, loop)].results =
     <<Lookup(c.map, g.node[gamma].ins[1])>> \o LookupAll(c.map, ResultsFor(g, theta, gamma, 2))
       \o [i \in DOMAIN FromCondition(g, gamma) |-> Lookup(c.map, Entries(g, gamma)[FromCondition(g, gamma)[i]])]]
Loop(h, g, theta, gamma, loop) ==
  CloseLoop(ConditionBehind(Repetition(h, g, theta, gamma, loop), g, theta, gamma, loop), g, theta, gamma, loop).graph

(* Behind the loop, the exit region again.                                 *)
ExitBehind(h, g, theta, gamma, new, loop) ==
  Copied(h, Sub(g, gamma, 1), Sub(h, new, 2),
         [a \in Range(Arguments(g, Sub(g, gamma, 1))) |-> <<loop, LoopVarOf(g, theta, gamma, a[2])>>])

(* c and d: the exit regions of the two subregions.                        *)
Replace(c, d, g, theta, gamma, new) ==
  Removed(DivertUsers(AddExitVars(d.graph, new, <<LookupAll(c.map, ResultsFor(g, theta, gamma, 1)),
                                                  LookupAll(d.map, ResultsFor(g, theta, gamma, 1))>>),
                      [o \in Range(Outputs(g, theta)) |-> <<new, o[2]>>]), {theta})
WithLoop(c, g, theta, gamma, new) ==
  Replace(c, ExitBehind(Loop(InnerTheta(c.graph, g, new, Len(Entries(g, gamma))), g, theta, gamma, c.graph.fresh),
                        g, theta, gamma, new, c.graph.fresh), g, theta, gamma, new)
WithCondition(c, g, theta, gamma) ==
  WithLoop(ExitRegion(OuterGamma(c, g, theta, gamma), g, gamma, c.graph.fresh), g, theta, gamma, c.graph.fresh)
Construct(g, theta, gamma) == WithCondition(ConditionInFront(g, theta, gamma), g, theta, gamma)

Invert(g, theta) ==
  IF DecidedGammas(g, theta) = {} THEN {g}
  ELSE LET gamma == CHOOSE n \in DecidedGammas(g, theta) : TRUE
       IN  {IF Cyclic(h, h.node[gamma].home) THEN h ELSE Construct(h, theta, gamma) : h \in PullIn(g, gamma)}

(***************************************************************************)
(* Loop unrolling (src/jlm/llvm/opt/unroll.cpp, unroll.hpp): a theta node  *)
(* whose predicate compares an induction variable with an invariant value. *)
(* With all of it known the loop is unrolled completely, or by Factor with *)
(* the residual iterations behind it; else two guarded loops replace it,   *)
(* one that takes Factor iterations at a time and one for the rest.        *)
(***************************************************************************)

CONSTANT Factor
ASSUME FactorAssumption == Factor \in Nat \ {0, 1}

(***************************************************************************)
(* What is found out of a theta node: the compare node cmp, and the node   *)
(* arm that advances the induction variable idv by step, up to end.        *)
(***************************************************************************)
ProducedBy(g, o, kind) == IsOutput(g, o) /\ Kind(g, o[1]) = kind
IsFixed(g, o) == ProducedBy(g, o, "constant") \/ (IsArgument(g, o) /\ IsInvariantArgument(g, o))
Advances(g, o) == ProducedBy(g, o, "binary") /\ g.node[o[1]].op.fn \in {"add", "sub"} /\ Len(g.node[o[1]].ins) = 2
IsInductionVariable(g, arm, o) == IsArgument(g, o) /\ g.region[o[1]].results[o[2] + 1] = <<arm, 1>>

Position(P(_), count) == {k \in 1 .. count : P(k) /\ \A i \in 1 .. k - 1 : ~P(i)}
Info(g, cmp, arm, i, e) ==
  [cmp |-> cmp, arm |-> arm, idv |-> g.node[arm].ins[i], step |-> g.node[arm].ins[3 - i], end |-> g.node[cmp].ins[e]]
InfoOfCompare(g, cmp) ==
  {Info(g, cmp, g.node[cmp].ins[3 - e][1], i, e) :
     <<e, i>> \in {p \in (1 .. 2) \X (1 .. 2) :
        /\ p[1] \in Position(LAMBDA k : IsFixed(g, g.node[cmp].ins[k]), 2)
        /\ Advances(g, g.node[cmp].ins[3 - p[1]])
        /\ LET arm == g.node[cmp].ins[3 - p[1]][1]
           IN  /\ p[2] \in Position(LAMBDA k : IsInductionVariable(g, arm, g.node[arm].ins[k]), 2)
               /\ IsFixed(g, g.node[arm].ins[3 - p[2]])}}
Predicate(g, theta) == g.region[Body(g, theta)].results[1]
LoopInfo(g, theta) ==
  IF ~ProducedBy(g, Predicate(g, theta), "match") THEN {}
  ELSE LET o == g.node[Predicate(g, theta)[1]].ins[1]
       IN  IF ProducedBy(g, o, "compare") THEN InfoOfCompare(g, o[1]) ELSE {}

(* A constant in the loop is made a loop variable.                         *)
MadeVariable(g, o) == IF IsArgument(g, o) THEN g ELSE CopyFromTheta(g, o[1])
VariableFor(g, o) == IF IsArgument(g, o) THEN o ELSE <<RegionOf(g, o), Len(g.region[RegionOf(g, o)].args) + 1>>
(* ui is [graph, info], with the end and then the step made variables.     *)
WithEnd(g, info) == [graph |-> MadeVariable(g, info.end), info |-> [info EXCEPT !.end = VariableFor(g, @)]]
WithStep(ui) == [graph |-> MadeVariable(ui.graph, ui.info.step), info |-> [ui.info EXCEPT !.step = VariableFor(ui.graph, @)]]

(***************************************************************************)
(* The number of iterations                                                *)
(***************************************************************************)
ThetaOf(g, info) == Owner(g, info.idv[1])
InputOrigin(g, a) == g.node[Owner(g, a[1])].ins[a[2]]
IsKnown(g, info) == \A o \in {InputOrigin(g, info.idv), info.step, info.end} : IsConstant(g, o)
IsAdditive(g, info) == g.node[info.arm].op.fn = "add"
ComparesEqual(g, info) == g.node[info.cmp].op.fn \in {"uge", "sge", "ule", "sle"}

Negated(a) == Folded("sub", 0, a)
StepForward(g, info) == LET s == ConstantValue(g, info.step) IN IF IsAdditive(g, info) THEN s ELSE Negated(s)
FirstValue(g, info) == ConstantValue(g, IF IsAdditive(g, info) THEN InputOrigin(g, info.idv) ELSE info.end)
\* Mutant: a comparison that holds for equal values counts like a strict one.
LastValueShort(g, info) == ConstantValue(g, IF IsAdditive(g, info) THEN info.end ELSE InputOrigin(g, info.idv))
LastValue(g, info) ==
  LET last == ConstantValue(g, IF IsAdditive(g, info) THEN info.end ELSE InputOrigin(g, info.idv))
  IN  IF ComparesEqual(g, info) THEN Folded("add", last, 1) ELSE last
IterationsOver(range, step) ==
  IF IsNegative(ToBits(range, Width)) \/ Folded("umod", range, step) # 0 THEN {} ELSE {Folded("udiv", range, step)}
Iterations(g, info) ==
  IF ~IsKnown(g, info) THEN {}
  ELSE IterationsOver(Folded("sub", LastValue(g, info), FirstValue(g, info)), StepForward(g, info))

(***************************************************************************)
(* The body of a loop, copied factor times; c is [graph, map].             *)
(***************************************************************************)
NextArguments(g, r, m) == [a \in Range(Arguments(g, r)) |-> Lookup(m, g.region[r].results[a[2] + 1])]
RECURSIVE UnrollBody(_, _, _, _)
UnrollRest(c, r, target, factor) ==
  IF factor = 1 THEN c ELSE UnrollBody([c EXCEPT !.map = NextArguments(c.graph, r, @)], r, target, factor - 1)
UnrollBody(c, r, target, factor) == UnrollRest(CopyNodes(c, TopDown(c.graph, r), target), r, target, factor)

(* The body takes the place of the theta node.                             *)
ReplacedBy(c, theta) ==
  Removed(DivertUsers(c.graph, [o \in Range(Outputs(c.graph, theta)) |->
                                  Lookup(c.map, c.graph.region[Body(c.graph, theta)].results[o[2] + 1])]), {theta})
CopyBodyAndUnroll(g, theta, factor) ==
  ReplacedBy(UnrollBody([graph |-> g, map |-> Mapping(Arguments(g, Body(g, theta)), g.node[theta].ins)],
                        Body(g, theta), g.node[theta].home, factor), theta)

(* A theta node whose body is that of theta, count times; the new node has *)
(* number g.fresh and the given operands.  While it is built its variables *)
(* are invariant, and its predicate is a constant.                         *)
Unchanging(g, r) == [g EXCEPT !.region[r].results = << <<r, 0>> >> \o Arguments(g, r)]
EmptyTheta(g, theta, home, ins) ==
  Unchanging(NewStructural(g, home, [kind |-> "theta"], ins, g.node[theta].outs, g.region[Body(g, theta)].args, 1),
             g.fresh + 1)
WithBody(g, theta, new, count) ==
  UnrollBody([graph |-> g, map |-> Mapping(Arguments(g, Body(g, theta)), Arguments(g, Body(g, new)))],
             Body(g, theta), Body(g, new), count)
Closed(c, theta, new, predicate) ==
  [c EXCEPT !.graph.region[Body(c.graph, new)].results =
     <<predicate>> \o Tail(LookupAll(c.map, c.graph.region[Body(c.graph, theta)].results))]
Unrolled(g, theta, home, ins, count) ==
  LET c == WithBody(EmptyTheta(g, theta, home, ins), theta, g.fresh, count)
  IN  Closed(c, theta, g.fresh, Lookup(c.map, Predicate(g, theta)))

(***************************************************************************)
(* Known number of iterations: the end of the unrolled loop becomes a      *)
(* multiple of the step value.                                             *)
(***************************************************************************)
NewEnd(g, info, remainder) ==
  LET rest == Folded("mul", remainder, StepForward(g, info))
  IN  Folded(IF IsAdditive(g, info) THEN "sub" ELSE "add", ConstantValue(g, info.end), rest)
EndPosition(g, cmp, end) == IF g.node[cmp].ins[1] = end THEN 1 ELSE 2
EndAt(c, cmp, end) == [c.graph EXCEPT !.node[cmp].ins[EndPosition(c.graph, cmp, end)] = <<c.node, 1>>]
WithNewEnd(g, cmp, end, value) == EndAt(Created(g, g.node[cmp].home, Constant(value), <<>>, <<TypeOf(g, end)>>), cmp, end)
AdjustEnd(c, info, remainder) ==
  IF remainder = 0 THEN c.graph
  ELSE WithNewEnd(c.graph, c.map[<<info.cmp, 1>>][1], c.map[info.end], NewEnd(c.graph, info, remainder))

AddRemainder(g, theta, new, remainder) ==
  IF remainder = 0 THEN Removed(DivertUsers(g, Mapping(Outputs(g, theta), Outputs(g, new))), {theta})
  ELSE LET behind == [g EXCEPT !.node[theta].ins = Outputs(g, new)]
       IN  IF remainder = 1 THEN CopyBodyAndUnroll(behind, theta, 1) ELSE behind

UnrollKnown(g, info, iterations) ==
  LET theta == ThetaOf(g, info)
  IN  IF iterations <= Factor THEN CopyBodyAndUnroll(g, theta, iterations)
      ELSE AddRemainder(AdjustEnd(Unrolled(g, theta, g.node[theta].home, g.node[theta].ins, Factor), info,
                                  iterations % Factor), theta, g.fresh, iterations % Factor)

(***************************************************************************)
(* Unknown number of iterations                                            *)
(***************************************************************************)
MatchOne == [kind |-> "match", map |-> (1 :> 1), default |-> 0]
(* Nodes for: can the loop go on from value for Factor more iterations?    *)
ScaledPredicate(g, info, value, step, end) ==
  LET type == TypeOf(g, info.idv)
  IN  << Simple(Constant(Factor), <<>>, type),
         Simple([kind |-> "binary", fn |-> "mul"], <<step, <<0, 1>> >>, type),
         Simple(g.node[info.arm].op, <<value, <<0, 2>> >>, type),
         Simple(g.node[info.cmp].op, << <<0, 3>>, end>>, "bit1"),
         Simple(MatchOne, << <<0, 4>> >>, "ctl2") >>
PlainPredicate(g, info, value, end) ==
  << Simple(g.node[info.cmp].op, <<value, end>>, "bit1"), Simple(MatchOne, << <<0, 1>> >>, "ctl2") >>

(* The gamma node of a guarded loop: subregion 0 passes the values by, in  *)
(* subregion 1 is the loop.                                                *)
Guard(g, home, theta, predicate, ins) ==
  NewStructural(g, home, [kind |-> "gamma"], <<predicate>> \o ins, g.node[theta].outs, g.region[Body(g, theta)].args, 2)
WithExits(g, gamma, loop) ==
  [g EXCEPT !.region[Sub(g, gamma, 1)].results = Arguments(g, Sub(g, gamma, 1)),
            !.region[Sub(g, gamma, 2)].results = Outputs(g, loop)]

(* c: the guarded loop with its body; the operands of its compare node     *)
(* give the value that is advanced and the end.                            *)
ClosedBy(c, theta, new, made) == Closed([c EXCEPT !.graph = made.graph], theta, new, Last(made.origins)).graph
WithScaledPredicate(c, theta, new, info) ==
  LET cmp == c.map[<<info.cmp, 1>>][1]
      e == EndPosition(c.graph, cmp, c.map[info.end])
      list == ScaledPredicate(c.graph, info, c.graph.node[cmp].ins[3 - e], c.map[info.step], c.graph.node[cmp].ins[e])
  IN  ClosedBy(c, theta, new, CreatedAll(c.graph, Body(c.graph, new), list, <<>>))
UnrolledLoop(g, gamma, theta, info) ==
  WithScaledPredicate(WithBody(EmptyTheta(g, theta, Sub(g, gamma, 2), Arguments(g, Sub(g, gamma, 2))), theta, g.fresh, Factor),
                      theta, g.fresh, info)
ResidualLoop(g, gamma, theta) ==
  Unrolled(g, theta, Sub(g, gamma, 2), Arguments(g, Sub(g, gamma, 2)), 1).graph

(* made: the graph and the nodes of the predicate; the gamma node is the   *)
(* next node, the loop in it the next but two.                             *)
GuardMade(made, theta, ins) ==
  Guard(made.graph, made.graph.node[theta].home, theta, Last(made.origins), ins)
GuardUnrolled(made, theta, info) ==
  LET n == made.graph.fresh
  IN  WithExits(UnrolledLoop(GuardMade(made, theta, made.graph.node[theta].ins), n, theta, info), n, n + 3)
GuardResidual(made, theta, first) ==
  LET n == made.graph.fresh
  IN  WithExits(ResidualLoop(GuardMade(made, theta, Outputs(made.graph, first)), n, theta), n, n + 3)

BeforeLoop(g, theta, info) ==
  CreatedAll(g, g.node[theta].home,
             ScaledPredicate(g, info, InputOrigin(g, info.idv), InputOrigin(g, info.step), InputOrigin(g, info.end)), <<>>)
Between(g, theta, info, first) ==
  CreatedAll(g, g.node[theta].home, PlainPredicate(g, info, <<first, info.idv[2]>>, InputOrigin(g, info.end)), <<>>)
InsteadOf(g, theta, last) == Removed(DivertUsers(g, Mapping(Outputs(g, theta), Outputs(g, last))), {theta})
WithResidual(made, theta, first) == InsteadOf(GuardResidual(made, theta, first), theta, made.graph.fresh)
BehindTest(made, theta, info) ==
  WithResidual(Between(GuardUnrolled(made, theta, info), theta, info, made.graph.fresh), theta, made.graph.fresh)
UnrollUnknown(g, info) == BehindTest(BeforeLoop(g, ThetaOf(g, info), info), ThetaOf(g, info), info)

UnrollInfo(ui) ==
  IF Iterations(ui.graph, ui.info) = {} THEN UnrollUnknown(ui.graph, ui.info)
  ELSE UnrollKnown(ui.graph, ui.info, CHOOSE n \in Iterations(ui.graph, ui.info) : TRUE)
Unroll(g, theta) ==
  IF LoopInfo(g, theta) = {} THEN g
  ELSE Mutable(UnrollInfo(WithStep(WithEnd(Immutable(g), CHOOSE info \in LoopInfo(g, theta) : TRUE))))

(* A loop of no iterations is unrolled without end.                        *)
NeverEnds(g, theta) == \E info \in LoopInfo(g, theta) : 0 \in Iterations(g, info)

(* The loops of region r that are unrolled, in their order: one around a   *)
(* loop is left alone, and so are those behind it.  unrolled: whether a    *)
(* loop has been found, as far as the region has been traversed.           *)
RECURSIVE LoopsToUnroll(_, _)
RECURSIVE SubregionLoops(_, _, _)
SubregionLoops(g, regions, found) ==
  IF regions = <<>> THEN found
  ELSE LET inner == LoopsToUnroll(g, Head(regions))
       IN  SubregionLoops(g, Tail(regions), [list |-> found.list \o inner.list, unrolled |-> inner.unrolled])
TakeLoop(g, n, found) ==
  IF found.unrolled \/ Kind(g, n) # "theta" THEN found ELSE [list |-> Append(found.list, n), unrolled |-> TRUE]
RECURSIVE LoopsAmong(_, _, _)
LoopsAmong(g, nodes, found) ==
  IF nodes = <<>> THEN found
  ELSE LoopsAmong(g, Tail(nodes), IF IsSimple(g, Head(nodes)) THEN found
                                  ELSE TakeLoop(g, Head(nodes), SubregionLoops(g, g.node[Head(nodes)].subs, found)))
LoopsToUnroll(g, r) == LoopsAmong(g, TopDown(g, r), [list |-> <<>>, unrolled |-> FALSE])
==============================================================================

-------------------------------- MODULE Calls --------------------------------
(***************************************************************************)
(* Inlining (src/jlm/llvm/opt/inlining.cpp): a function that is not        *)
(* exported and has exactly one use, a direct call, is copied to its call. *)
(* What counts as a call is found out by ComputeCallSummary                *)
(* (src/jlm/llvm/ir/operators/lambda.cpp), which follows the function      *)
(* through context, entry, exit and loop variables.                        *)
(***************************************************************************)
EXTENDS Rvsdg

IsContext(g, u) == u[1] \in DOMAIN g.node /\ Kind(g, u[1]) = "lambda"
IsStructuralInput(g, u) == u[1] \in DOMAIN g.node /\ ~IsSimple(g, u[1])
IsBranchResult(g, u) ==
  u[1] \in DOMAIN g.region /\ Owner(g, u[1]) # u[1] /\ Kind(g, Owner(g, u[1])) \in {"gamma", "theta"}

(* Where a use passes the function on to.                                  *)
PassedOn(g, u) ==
  IF IsContext(g, u) THEN {<<Body(g, u[1]), Len(g.region[Body(g, u[1])].args) - Len(g.node[u[1]].ins) + u[2]>>}
  ELSE IF IsStructuralInput(g, u)
       THEN {<<r, IF Kind(g, u[1]) = "gamma" THEN u[2] - 1 ELSE u[2]>> : r \in Range(g.node[u[1]].subs)}
  ELSE IF IsBranchResult(g, u)
       THEN {<<Owner(g, u[1]), IF Kind(g, Owner(g, u[1])) = "gamma" THEN u[2] ELSE u[2] - 1>>}
  ELSE {}

(* The uses in the end, as often as they are reached.                      *)
RECURSIVE FinalUses(_, _)
FinalUses(g, o) ==
  LET uses == SetToSeq(Users(g, o))
  IN  FlattenSeq([k \in DOMAIN uses |->
        IF PassedOn(g, uses[k]) = {} THEN <<uses[k]>>
        ELSE FlattenSeq(LET on == SetToSeq(PassedOn(g, uses[k])) IN [i \in DOMAIN on |-> FinalUses(g, on[i])])])

IsDirectCall(g, u) == u[1] \in DOMAIN g.node /\ Kind(g, u[1]) = "call" /\ u[2] = 1
HasOneDirectCall(g, lambda) ==
  LET uses == FinalUses(g, <<lambda, 1>>) IN Len(uses) = 1 /\ IsDirectCall(g, uses[1])

(***************************************************************************)
(* What the function depends on is brought to the region of the call, from *)
(* region to region.  A route is [graph, origin].                          *)
(***************************************************************************)
AddContextVar(g, n, o) == [g EXCEPT !.node[n].ins = Append(@, o), !.region[Body(g, n)].args = Append(@, TypeOf(g, o))]
WithVariable(g, n, o) ==
  CASE Kind(g, n) = "gamma" -> AddEntryVars(g, n, <<o>>)
    [] Kind(g, n) = "theta" -> AddLoopVars(g, n, <<o>>)
    [] Kind(g, n) = "lambda" -> AddContextVar(g, n, o)
IntoRegion(c, r) ==
  [graph |-> WithVariable(c.graph, Owner(c.graph, r), c.origin), origin |-> <<r, Len(c.graph.region[r].args) + 1>>]
RECURSIVE RouteToRegion(_, _, _)
RouteToRegion(g, o, r) ==
  IF RegionOf(g, o) = r THEN [graph |-> g, origin |-> o]
  ELSE IntoRegion(RouteToRegion(g, o, g.node[Owner(g, r)].home), r)

RECURSIVE RouteDependencies(_, _, _, _)
NextDependency(c, rest, r, routed) == RouteDependencies(c.graph, rest, r, Append(routed, c.origin))
RouteDependencies(g, deps, r, routed) ==
  IF deps = <<>> THEN [graph |-> g, origins |-> routed]
  ELSE NextDependency(RouteToRegion(g, Head(deps), r), Tail(deps), r, routed)

(***************************************************************************)
(* The body takes the place of the call.                                   *)
(***************************************************************************)
InsteadOfCall(c, call, r) ==
  Removed(DivertUsers(c.graph, Mapping(Outputs(c.graph, call), LookupAll(c.map, c.graph.region[r].results))), {call})
BodyAtCall(d, call, r) ==
  InsteadOfCall(Copied(d.graph, r, d.graph.node[call].home,
                       Mapping(Arguments(d.graph, r), Tail(d.graph.node[call].ins) \o d.origins)), call, r)
InlineCall(g, call, lambda) ==
  BodyAtCall(RouteDependencies(g, g.node[lambda].ins, g.node[call].home, <<>>), call, Body(g, lambda))
Inline(g, lambda) ==
  IF HasOneDirectCall(g, lambda) THEN InlineCall(g, FinalUses(g, <<lambda, 1>>)[1][1], lambda) ELSE g

(***************************************************************************)
(* What a call calls (src/jlm/llvm/ir/operators/call.cpp): the function    *)
(* input is traced upwards, through the variables of structural nodes that *)
(* pass it on unchanged, to where the function comes from.                 *)
(***************************************************************************)

(* What a variable is before its node: << the origin of its input >>, or   *)
(* << >> if the node may change it.  A gamma node takes part in a trace    *)
(* even if its subregions pass on different inputs: the last one counts.   *)
RECURSIVE InvariantInput(_, _)
RECURSIVE LeadsTo(_, _)
LeadsTo(g, o) ==
  IF IsArgument(g, o) THEN <<o>>
  ELSE FlattenSeq([i \in DOMAIN InvariantInput(g, o) |-> LeadsTo(g, InvariantInput(g, o)[i])])
InvariantInput(g, o) ==
  IF IsArgument(g, o) THEN InvariantInput(g, <<Owner(g, o[1]), o[2]>>)
  ELSE LET ends(k) == [i \in DOMAIN g.node[o[1]].subs |-> LeadsTo(g, g.region[Sub(g, o[1], i)].results[k])]
       IN  CASE Kind(g, o[1]) = "gamma" ->
                  IF <<>> \in Range(ends(o[2])) THEN <<>> ELSE <<EntryOrigin(g, Last(ends(o[2]))[1])>>
             [] Kind(g, o[1]) = "theta" ->
                  IF ends(o[2] + 1)[1] = << <<Body(g, o[1]), o[2]>> >> THEN <<g.node[o[1]].ins[o[2]]>> ELSE <<>>
             [] OTHER -> <<>>

(* One step of the trace; << >> at its end.                                *)
TracesTo(g, o) ==
  IF IsOutput(g, o) THEN InvariantInput(g, o)
  ELSE IF o[1] = Root(g) THEN <<>>
  ELSE LET owner == Owner(g, o[1])
       IN  CASE Kind(g, owner) = "gamma" -> <<EntryOrigin(g, o)>>
             [] Kind(g, owner) = "theta" -> InvariantInput(g, o)
             [] Kind(g, owner) = "lambda" ->
                  IF ContextPosition(g, o[1], o[2]) < 1 THEN <<>> ELSE <<g.node[owner].ins[ContextPosition(g, o[1], o[2])]>>
RECURSIVE Trace(_, _)
Trace(g, o) == IF TracesTo(g, o) = <<>> THEN o ELSE Trace(g, TracesTo(g, o)[1])
TraceFunctionInput(g, call) == Trace(g, g.node[call].ins[1])

ClassifyCall(g, call) ==
  LET from == TraceFunctionInput(g, call)
  IN  IF IsOutput(g, from) /\ Kind(g, from[1]) = "lambda" THEN "NonRecursiveDirectCall"
      ELSE IF from[1] = Root(g) THEN "ExternalCall" ELSE "IndirectCall"
CalledLambda(g, call) == TraceFunctionInput(g, call)[1]

(* The function is called, and has no other use.                           *)
HasOnlyDirectCalls(g, lambda) ==
  /\ FinalUses(g, <<lambda, 1>>) # <<>>
  /\ \A u \in Range(FinalUses(g, <<lambda, 1>>)) : IsDirectCall(g, u)
==============================================================================

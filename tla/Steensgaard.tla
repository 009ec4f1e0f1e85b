----------------------------- MODULE Steensgaard -----------------------------
(***************************************************************************)
(* The points-to analysis of Steensgaard (src/jlm/llvm/opt/alias-analyses/ *)
(* Steensgaard.cpp).  Locations that a pointer may be copied between are   *)
(* joined to one class, and what they point to with them.  The nodes are   *)
(* taken once, top-down.                                                   *)
(*                                                                         *)
(* The state of the analysis is [root, flags, to, escaping].  root: the    *)
(* representative of each location's class.  Of a representative, flags    *)
(* are what the class points to besides, and to is << >> or << a location  *)
(* of the class pointed to >>.  escaping: the registers whose values leave *)
(* the module.                                                             *)
(***************************************************************************)
EXTENDS PointsToGraph

Register(o) == <<"register", o>>
Memory(o) == <<"memory", o>>
Dummy(n, k) == <<"dummy", <<n, k>> >>

NoLocations == [root |-> <<>>, flags |-> <<>>, to |-> <<>>, escaping |-> {}]
Insert(s, l, flags) ==
  [s EXCEPT !.root = (l :> l) @@ @, !.flags = (l :> flags) @@ @, !.to = (l :> <<>>) @@ @]
IsKnown(s, o) == Register(o) \in DOMAIN s.root
FindOrInsert(s, o, flags) == IF IsKnown(s, o) THEN s ELSE Insert(s, Register(o), flags)

PointsTo(s, l) == s.to[s.root[l]]
SetPointsTo(s, l, target) == [s EXCEPT !.to[s.root[l]] = <<target>>]
(* A fresh memory location, named by the register that points to it.       *)
PointToFresh(s, o, flags) == SetPointsTo(Insert(s, Memory(o), flags), Register(o), Memory(o))

(* One representative for both classes, and for what they point to.        *)
Merge(s, a, b) ==
  [s EXCEPT !.root = [l \in DOMAIN @ |-> IF @[l] = b THEN a ELSE @[l]], !.flags[a] = @ \cup s.flags[b]]
RECURSIVE Join(_, _, _)
Join(s, x, y) ==
  LET a == s.root[x]  b == s.root[y]
  IN  IF a = b THEN s
      ELSE IF s.to[b] = <<>> THEN Merge(s, a, b)
      ELSE IF s.to[a] = <<>> THEN [Merge(s, a, b) EXCEPT !.to[a] = s.to[b]]
      ELSE Join(Merge(s, a, b), s.to[a][1], s.to[b][1])

(* The address points to what the location does.                           *)
PointAt(s, address, l) ==
  IF PointsTo(s, address) = <<>> THEN SetPointsTo(s, address, l) ELSE Join(s, PointsTo(s, address)[1], l)

(* A pointer goes from one register to another.                            *)
Flow(s, from, to) == Join(FindOrInsert(FindOrInsert(s, from, {}), to, {}), Register(from), Register(to))
RECURSIVE Flows(_, _)
Flows(s, pairs) == IF pairs = <<>> THEN s ELSE Flows(Flow(s, Head(pairs)[1], Head(pairs)[2]), Tail(pairs))
RECURSIVE FindOrInsertAll(_, _, _)
FindOrInsertAll(s, origins, flags) ==
  IF origins = <<>> THEN s ELSE FindOrInsertAll(FindOrInsert(s, Head(origins), flags), Tail(origins), flags)
Escape(s, origins) == [s EXCEPT !.escaping = @ \cup Range(origins)]

(* Pointers only, position by position.                                    *)
Pairs(g, from, to) ==
  LET pairs == [k \in DOMAIN from |-> <<from[k], to[k]>>] IN SelectSeq(pairs, LAMBDA p : IsPointer(g, p[1]))
PointerOutputs(g, n) == Pointers(g, Outputs(g, n))

(***************************************************************************)
(* Simple nodes                                                            *)
(***************************************************************************)
Outside == {"external", "escaped"}

AnalyzeAllocation(s, n) == PointToFresh(FindOrInsert(s, <<n, 1>>, {}), <<n, 1>>, {})
AnalyzeLoad(s, g, n) ==
  IF PointerOutputs(g, n) = <<>> THEN s
  ELSE LET address == Register(g.node[n].ins[1])
       IN  PointAt(FindOrInsert(s, <<n, 1>>, s.flags[s.root[address]]), address, Register(<<n, 1>>))
AnalyzeStore(s, g, n) ==
  LET ins == g.node[n].ins
  IN  IF IsPointer(g, ins[2]) THEN PointAt(s, Register(ins[1]), Register(ins[2])) ELSE s

(* What memcpy's addresses point to points to the same.                    *)
WithTarget(s, l, dummy) == IF PointsTo(s, l) = <<>> THEN SetPointsTo(Insert(s, dummy, {}), l, dummy) ELSE s
JoinContents(s, dst, src, n) ==
  LET with == WithTarget(WithTarget(s, PointsTo(s, src)[1], Dummy(n, 3)), PointsTo(s, dst)[1], Dummy(n, 4))
  IN  Join(with, PointsTo(with, PointsTo(s, src)[1])[1], PointsTo(with, PointsTo(s, dst)[1])[1])
AnalyzeMemcpy(s, g, n) ==
  LET dst == Register(g.node[n].ins[1])  src == Register(g.node[n].ins[2])
  IN  JoinContents(WithTarget(WithTarget(s, src, Dummy(n, 1)), dst, Dummy(n, 2)), dst, src, n)

AnalyzeIndirectCall(s, g, n) == FindOrInsertAll(s, PointerOutputs(g, n), Outside \cup {"unknown"})
AnalyzeExternalCall(s, g, n) ==
  FindOrInsertAll(Escape(s, Pointers(g, Operands(g, n))), PointerOutputs(g, n), Outside)
AnalyzeDirectCall(s, g, n, lambda) ==
  IF CallsAsDeclared(g, n, lambda)
  THEN Flows(s, Pairs(g, Operands(g, n), FunctionArguments(g, lambda))
                  \o Pairs(g, Outputs(g, n), Results(g, Body(g, lambda))))
  ELSE AnalyzeIndirectCall(s, g, n)
AnalyzeCall(s, g, n) ==
  CASE ClassifyCall(g, n) = "NonRecursiveDirectCall" -> AnalyzeDirectCall(s, g, n, CalledLambda(g, n))
    [] ClassifyCall(g, n) = "ExternalCall" -> AnalyzeExternalCall(s, g, n)
    [] OTHER -> AnalyzeIndirectCall(s, g, n)

Known(s, origins) == SelectSeq(origins, LAMBDA o : IsKnown(s, o))
AnalyzeSimpleNode(s, g, n) ==
  LET ins == g.node[n].ins
      copies(origins) == [k \in DOMAIN origins |-> <<origins[k], <<n, 1>> >>]
  IN  CASE Kind(g, n) \in {"alloca", "malloc"} -> AnalyzeAllocation(s, n)
        [] Kind(g, n) = "load" -> AnalyzeLoad(s, g, n)
        [] Kind(g, n) = "store" -> AnalyzeStore(s, g, n)
        [] Kind(g, n) = "call" -> AnalyzeCall(s, g, n)
        [] Kind(g, n) = "gep" -> Flow(s, ins[1], <<n, 1>>)
        [] Kind(g, n) = "bitcast" -> Flows(s, copies(Pointers(g, ins)))
        [] Kind(g, n) = "memcpy" -> AnalyzeMemcpy(s, g, n)
        [] Kind(g, n) \in {"array", "struct"} -> Flows(s, copies(Known(s, ins)))
        [] Kind(g, n) \in {"null", "undef", "zero"} -> FindOrInsertAll(s, PointerOutputs(g, n), {})
        [] Kind(g, n) \in {"bits2ptr", "extract"} ->
             FindOrInsertAll(s, PointerOutputs(g, n), {"unknown", "external"})
        [] OTHER -> s

(***************************************************************************)
(* Structural nodes                                                        *)
(***************************************************************************)
RECURSIVE AnalyzeNodes(_, _, _)
AnalyzeRegion(s, g, r) == AnalyzeNodes(s, g, TopDown(g, r))
RECURSIVE AnalyzeRegions(_, _, _)
AnalyzeRegions(s, g, regions) ==
  IF regions = <<>> THEN s ELSE AnalyzeRegions(AnalyzeRegion(s, g, Head(regions)), g, Tail(regions))

AnalyzeContext(s, g, n) == Flows(s, Pairs(g, g.node[n].ins, ContextArguments(g, n)))
AnalyzeParameters(s, g, n) ==
  FindOrInsertAll(s, Pointers(g, FunctionArguments(g, n)), IF HasOnlyDirectCalls(g, n) THEN {} ELSE Outside)
AnalyzeResults(s, g, n) ==
  IF IsExported(g, n) THEN Escape(s, Pointers(g, Results(g, Body(g, n)))) ELSE s
AnalyzeLambda(s, g, n) ==
  AnalyzeAllocation(
    AnalyzeResults(AnalyzeRegion(AnalyzeParameters(AnalyzeContext(s, g, n), g, n), g, Body(g, n)), g, n), n)

AnalyzeContents(s, g, n) ==
  LET o == Results(g, Body(g, n))[1] IN IF IsKnown(s, o) THEN Join(s, Memory(<<n, 1>>), Register(o)) ELSE s
AnalyzeDelta(s, g, n) ==
  AnalyzeContents(AnalyzeAllocation(AnalyzeRegion(AnalyzeContext(s, g, n), g, Body(g, n)), n), g, n)

AnalyzeGamma(s, g, n) ==
  LET subs == g.node[n].subs
      entries(r) == Pairs(g, Tail(g.node[n].ins), Arguments(g, r))
      exits(r) == Pairs(g, Results(g, r), Outputs(g, n))
      all(P(_)) == FlattenSeq([i \in DOMAIN subs |-> P(subs[i])])
  IN  Flows(AnalyzeRegions(Flows(s, all(entries)), g, subs), all(exits))
AnalyzeTheta(s, g, n) ==
  LET r == Body(g, n)  results == Tail(Results(g, r))
  IN  Flows(AnalyzeRegion(Flows(s, Pairs(g, g.node[n].ins, Arguments(g, r))), g, r),
            Pairs(g, results, Arguments(g, r)) \o Pairs(g, results, Outputs(g, n)))

AnalyzeNode(s, g, n) ==
  CASE Kind(g, n) = "lambda" -> AnalyzeLambda(s, g, n)
    [] Kind(g, n) = "delta" -> AnalyzeDelta(s, g, n)
    [] Kind(g, n) = "gamma" -> AnalyzeGamma(s, g, n)
    [] Kind(g, n) = "theta" -> AnalyzeTheta(s, g, n)
    [] OTHER -> AnalyzeSimpleNode(s, g, n)
AnalyzeNodes(s, g, nodes) ==
  IF nodes = <<>> THEN s ELSE AnalyzeNodes(AnalyzeNode(s, g, Head(nodes)), g, Tail(nodes))

(* An imported variable that holds pointers may hold any the outside has.  *)
RECURSIVE AnalyzeImports(_, _, _)
AnalyzeImports(s, g, imports) ==
  IF imports = <<>> THEN s
  ELSE LET o == Head(imports)
       IN  AnalyzeImports(PointToFresh(FindOrInsert(s, o, {}), o, IF o \in g.pointers THEN Outside ELSE {}),
                          g, Tail(imports))
AnalyzeExports(s, g) == Escape(s, Exports(g))
AnalyzeRvsdg(g) == AnalyzeExports(AnalyzeRegion(AnalyzeImports(NoLocations, g, Imports(g)), g, Root(g)), g)

(***************************************************************************)
(* The points-to graph                                                     *)
(***************************************************************************)
MemoryIn(s, a) == {l[2] : l \in {l \in DOMAIN s.root : l[1] = "memory" /\ s.root[l] = a}}
PointedTo(s, C) == {s.root[s.to[c][1]] : c \in {c \in C : s.to[c] # <<>>}}
RECURSIVE Reached(_, _)
Reached(s, C) == IF PointedTo(s, C) \subseteq C THEN C ELSE Reached(s, C \cup PointedTo(s, C))
CollectEscapedMemoryNodes(s) ==
  UNION {MemoryIn(s, a) : a \in Reached(s, PointedTo(s, {s.root[Register(o)] : o \in s.escaping}))}

(* A pointer to unknown memory may point to every memory node.             *)
Edges(s, g, a, escaped) ==
  UNION {MemoryIn(s, c) : c \in PointedTo(s, {a})}
    \cup (IF "external" \in s.flags[a] THEN {External} ELSE {})
    \cup (IF "escaped" \in s.flags[a] THEN escaped ELSE {})
    \cup (IF "unknown" \in s.flags[a] THEN MemoryNodes(g) ELSE {})
ConstructPointsToGraph(s, g, escaped) ==
  [targets |-> [o \in {l[2] : l \in {l \in DOMAIN s.root : l[1] = "register"}} |->
                  Edges(s, g, s.root[Register(o)], escaped)],
   escaped |-> escaped]
PointsToGraphOf(s, g) == ConstructPointsToGraph(s, g, CollectEscapedMemoryNodes(s))
Analyze(g) == PointsToGraphOf(AnalyzeRvsdg(g), g)
==============================================================================

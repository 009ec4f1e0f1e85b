------------------------------- MODULE Andersen -------------------------------
(***************************************************************************)
(* The points-to analysis of Andersen (src/jlm/llvm/opt/alias-analyses/    *)
(* Andersen.cpp): from the nodes to pointer objects and constraints, and   *)
(* from the solution to a points-to graph.  Module PointerObjectSet has    *)
(* the solver step by step, and that what it finds is the least solution   *)
(* whatever the order; here a round applies all constraints at once.       *)
(*                                                                         *)
(* The state is [pt, external, escaped]: what each object points to, which *)
(* objects point to external memory, and which have escaped.               *)
(***************************************************************************)
EXTENDS PointsToGraph

Register(o) == <<"register", o>>
Memory(o) == <<"memory", o>>
Dummy(n) == <<"dummy", <<n, 1>> >>

(* Registers that always hold the same pointer share one object.           *)
MapsTo(g, o) ==
  IF IsArgument(g, o)
  THEN CASE o[1] = Root(g) -> <<>>
         [] Kind(g, Owner(g, o[1])) = "gamma" -> <<EntryOrigin(g, o)>>
         [] Kind(g, Owner(g, o[1])) \in {"lambda", "delta"} /\ ContextPosition(g, o[1], o[2]) >= 1 ->
              <<g.node[Owner(g, o[1])].ins[ContextPosition(g, o[1], o[2])]>>
         [] OTHER -> <<>>
  ELSE CASE Kind(g, o[1]) \in {"gep", "bitcast"} -> <<g.node[o[1]].ins[1]>>
         [] Kind(g, o[1]) = "theta" -> <<Results(g, Body(g, o[1]))[o[2] + 1]>>
         [] OTHER -> <<>>
RECURSIVE Object(_, _)
Object(g, o) == IF MapsTo(g, o) = <<>> THEN Register(o) ELSE Object(g, MapsTo(g, o)[1])
ObjectsOf(g, origins) == {Object(g, o) : o \in Range(Pointers(g, origins))}

AllRegisters(g) ==
  {o \in UNION ({Range(Outputs(g, n)) : n \in DOMAIN g.node} \cup {Range(Arguments(g, r)) : r \in DOMAIN g.region}) :
     IsPointer(g, o)}
Lambdas(g) == {n \in DOMAIN g.node : Kind(g, n) = "lambda"}
CanPoint(g, x) == x \notin {Memory(<<n, 1>>) : n \in Lambdas(g)}

(***************************************************************************)
(* Constraints                                                             *)
(***************************************************************************)
Superset(superset, subset) == [type |-> "superset", superset |-> superset, subset |-> subset]
LoadFrom(loaded, pointer) == [type |-> "load", loaded |-> loaded, pointer |-> pointer]
StoreTo(pointer, value) == [type |-> "store", pointer |-> pointer, value |-> value]
FunctionCall(n) == [type |-> "call", call |-> n]

(* Whatever is a pointer on both sides, position by position.              *)
Links(g, to, from) ==
  {<<Object(g, to[k]), Object(g, from[k])>> : k \in {k \in DOMAIN to : IsPointer(g, to[k]) /\ IsPointer(g, from[k])}}
Supersets(links) == {Superset(l[1], l[2]) : l \in links}

Constraints(g, n) ==
  LET ins == g.node[n].ins  value == Register(<<n, 1>>)
      loop == Body(g, n)
  IN  CASE Kind(g, n) = "load" ->
             IF IsPointer(g, <<n, 1>>) THEN {LoadFrom(value, Object(g, ins[1]))} ELSE {}
        [] Kind(g, n) = "store" ->
             IF IsPointer(g, ins[2]) THEN {StoreTo(Object(g, ins[1]), Object(g, ins[2]))} ELSE {}
        [] Kind(g, n) = "memcpy" -> {LoadFrom(Dummy(n), Object(g, ins[2])), StoreTo(Object(g, ins[1]), Dummy(n))}
        [] Kind(g, n) = "call" -> {FunctionCall(n)}
        [] Kind(g, n) = "delta" ->
             {Superset(Memory(<<n, 1>>), x) : x \in ObjectsOf(g, Results(g, Body(g, n)))}
        [] Kind(g, n) = "gamma" ->
             UNION {Supersets(Links(g, Outputs(g, n), Results(g, r))) : r \in Range(g.node[n].subs)}
        [] Kind(g, n) = "theta" ->
             Supersets(Links(g, Arguments(g, loop), ins) \cup Links(g, Arguments(g, loop), Tail(Results(g, loop))))
        [] OTHER -> {}

(* What holds from the start.                                              *)
Objects(g) == {Object(g, o) : o \in AllRegisters(g)} \cup {Memory(o) : o \in MemoryNodes(g)}
                \cup {Dummy(n) : n \in {n \in DOMAIN g.node : Kind(g, n) = "memcpy"}}
ImportObjects(g) == {Memory(o) : o \in Range(Imports(g))}
Facts(g) ==
  [pt |-> [x \in Objects(g) |-> {o \in MemoryNodes(g) : x = Register(o)}],
   external |-> ImportObjects(g) \cup UNION {ObjectsOf(g, Outputs(g, n)) : n \in NodesOf(g, {"bits2ptr", "extract"})},
   escaped |-> ImportObjects(g) \cup ObjectsOf(g, Exports(g))
                 \cup UNION {ObjectsOf(g, g.node[n].ins) : n \in NodesOf(g, {"array", "struct"})}]

(***************************************************************************)
(* A round                                                                 *)
(***************************************************************************)
OfType(C, type) == {c \in C : c.type = type}
Pointees(s, x) == {Memory(o) : o \in s.pt[x]}
FunctionObject(g, n) == Object(g, g.node[n].ins[1])

(* The functions of the module that a call may call.  If the numbers of    *)
(* operands or of results do not agree it is taken to call another one.    *)
CalledFunctions(g, s, n) ==
  {f \in Lambdas(g) : /\ <<f, 1>> \in s.pt[FunctionObject(g, n)]
                      /\ Len(FunctionArguments(g, f)) = Len(Operands(g, n))
                      /\ Len(Results(g, Body(g, f))) = Len(g.node[n].outs)}
CallLinks(g, s, n) ==
  UNION {Links(g, FunctionArguments(g, f), Operands(g, n)) \cup Links(g, Outputs(g, n), Results(g, Body(g, f))) :
         f \in CalledFunctions(g, s, n)}
CallsOutside(g, s, n) ==
  FunctionObject(g, n) \in s.external \/ s.pt[FunctionObject(g, n)] \cap Range(Imports(g)) # {}
OutsideCalls(g, s, C) == {n \in {c.call : c \in OfType(C, "call")} : CallsOutside(g, s, n)}
EscapedFunctions(g, s) == {n \in Lambdas(g) : Memory(<<n, 1>>) \in s.escaped}

(* << to, from >>: to is made to point to all that from points to.         *)
MadeSuperset(g, s, C) ==
  {<<c.superset, c.subset>> : c \in OfType(C, "superset")}
    \cup UNION {{<<x, c.value>> : x \in Pointees(s, c.pointer)} : c \in OfType(C, "store")}
    \cup UNION {{<<c.loaded, x>> : x \in Pointees(s, c.pointer)} : c \in OfType(C, "load")}
    \cup UNION {CallLinks(g, s, c.call) : c \in OfType(C, "call")}
MarkedExternal(g, s, C, links) ==
  {l[1] : l \in {l \in links : l[2] \in s.external}}
    \cup {c.loaded : c \in {c \in OfType(C, "load") : c.pointer \in s.external}}
    \cup UNION {ObjectsOf(g, Outputs(g, n)) : n \in OutsideCalls(g, s, C)}
    \cup UNION {ObjectsOf(g, FunctionArguments(g, f)) : f \in EscapedFunctions(g, s)}
    \cup {x \in s.escaped : x[1] = "memory"}
MarkedEscaped(g, s, C) ==
  UNION {Pointees(s, x) : x \in s.escaped \cup {c.value : c \in {c \in OfType(C, "store") : c.pointer \in s.external}}}
    \cup UNION {ObjectsOf(g, Operands(g, n)) : n \in OutsideCalls(g, s, C)}
    \cup UNION {ObjectsOf(g, Results(g, Body(g, f))) : f \in EscapedFunctions(g, s)}

Apply(g, s, C, links) ==
  [pt |-> [x \in DOMAIN s.pt |->
             IF CanPoint(g, x) THEN s.pt[x] \cup UNION {s.pt[l[2]] : l \in {l \in links : l[1] = x}} ELSE {}],
   external |-> s.external \cup {x \in MarkedExternal(g, s, C, links) : CanPoint(g, x)},
   escaped |-> s.escaped \cup MarkedEscaped(g, s, C)]
RECURSIVE Solve(_, _, _)
SolveOn(g, s, next, C) == IF next = s THEN s ELSE Solve(g, next, C)
Solve(g, s, C) == SolveOn(g, s, Apply(g, s, C, MadeSuperset(g, s, C)), C)

(***************************************************************************)
(* The points-to graph                                                     *)
(***************************************************************************)
EscapedNodes(g, s) == {o \in MemoryNodes(g) : Memory(o) \in s.escaped}
ConstructPointsToGraph(g, s) ==
  [targets |-> [o \in AllRegisters(g) |->
                  s.pt[Object(g, o)] \cup IF Object(g, o) \in s.external THEN EscapedNodes(g, s) \cup {External} ELSE {}],
   escaped |-> EscapedNodes(g, s)]
Analyze(g) == ConstructPointsToGraph(g, Solve(g, Facts(g), UNION {Constraints(g, n) : n \in DOMAIN g.node}))
==============================================================================

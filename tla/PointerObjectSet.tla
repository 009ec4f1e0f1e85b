-------------------------- MODULE PointerObjectSet --------------------------
(***************************************************************************)
(* The points-to solver of the Andersen alias analysis:                    *)
(* jlm/llvm/opt/alias-analyses/PointerObjectSet.{hpp,cpp}.                 *)
(*                                                                         *)
(* A client creates PointerObjects, adds facts and constraints to a        *)
(* PointerObjectConstraintSet, and calls Solve().  Solve applies every     *)
(* constraint in turn, then propagates the escaped flag, until a whole     *)
(* round has modified nothing.  Each Apply iterates over a points-to set   *)
(* while it runs the primitive operations of PointerObjectSet, which may   *)
(* insert into the very set that is being iterated.                        *)
(***************************************************************************)
EXTENDS Naturals, Sequences

CONSTANTS
  Objects,        \* the PointerObjects (indices into PointerObjects_)
  Kind,           \* Kind[o]: the PointerObjectKind of o
  NonPointer,     \* stands for an argument or result that is no pointer
  LambdaArgs,     \* LambdaArgs[f]: the argument registers of lambda f
  LambdaResults,  \* LambdaResults[f]: the registers its results originate from
  Facts,          \* the facts a client may add
  Constraints,    \* the constraints a client may add
  MaxConstraints  \* bound: how many constraints a client adds

Kinds == {"Register", "Alloca", "Malloc", "Global", "Function", "Import"}

Registers == {o \in Objects : Kind[o] = "Register"}
Functions == {o \in Objects : Kind[o] = "Function"}
Imports   == {o \in Objects : Kind[o] = "Import"}

\* PointerObject::CanPoint and PointerObject::CanBePointee, as sets.
CanPoint     == {o \in Objects : Kind[o] # "Function"}
CanBePointee == {o \in Objects : Kind[o] # "Register"}

(***************************************************************************)
(* Primitive operations.  "pointee" is AddToPointsToSet, "superset" is     *)
(* MakePointsToSetSuperset, "external" and "escaped" are the two Mark      *)
(* methods, "escapePointees" is MarkAllPointeesAsEscaped and "skip" is the *)
(* `continue' for an argument or a result that is no pointer.              *)
(***************************************************************************)
Op(name, a, b) == [op |-> name, to |-> a, from |-> b]

AddToPointsToSet(a, b)        == Op("pointee", a, b)
MakePointsToSetSuperset(a, b) == Op("superset", a, b)
MarkAsPointsToExternal(a)     == Op("external", a, a)
MarkAsEscaped(a)              == Op("escaped", a, a)
MarkAllPointeesAsEscaped(a)   == Op("escapePointees", a, a)
Skip                          == Op("skip", NonPointer, NonPointer)

Ops == [op : {"pointee"}, to : Objects, from : CanBePointee]
         \cup [op : {"superset"}, to : Objects, from : Objects]
         \cup [op : {"external", "escaped", "escapePointees"},
               to : Objects, from : Objects]
         \cup {Skip}

\* Facts are executed when they are added: only additive operations.
FactOps == [op : {"pointee"}, to : Objects, from : CanBePointee]
             \cup [op : {"external"}, to : Objects, from : Objects]
             \cup [op : {"escaped"}, to : Registers, from : Registers]

(***************************************************************************)
(* Constraints.                                                            *)
(***************************************************************************)
Values == Registers \cup {NonPointer}

SupersetConstraint == [type : {"Superset"}, superset : Objects, subset : Objects]
AllPointeesPointToSupersetConstraint ==
  [type : {"Store"}, pointer1 : Objects, pointer2 : Objects]
SupersetOfAllPointeesConstraint ==
  [type : {"Load"}, loaded : Objects, pointer : Objects]
HandleEscapingFunctionConstraint == [type : {"Escape"}, lambda : Functions]
FunctionCallConstraint ==
  [type : {"Call"}, target : Registers, args : Seq(Values), results : Seq(Values)]

ConstraintVariant ==
  SupersetConstraint \cup AllPointeesPointToSupersetConstraint
    \cup SupersetOfAllPointeesConstraint \cup HandleEscapingFunctionConstraint
    \cup FunctionCallConstraint

ASSUME KindAssumption        == Kind \in [Objects -> Kinds]
ASSUME NonPointerAssumption  == NonPointer \notin Objects
ASSUME LambdaAssumption      == /\ LambdaArgs \in [Functions -> Seq(Values)]
                                /\ LambdaResults \in [Functions -> Seq(Values)]
ASSUME FactsAssumption       == Facts \subseteq FactOps
ASSUME ConstraintsAssumption == Constraints \subseteq ConstraintVariant
ASSUME MaxAssumption         == MaxConstraints \in Nat

\* mark applied to every pointer of the sequence s, in order.
MarkAll(mark(_), s) ==
  [n \in 1 .. Len(s) |-> IF s[n] = NonPointer THEN Skip ELSE mark(s[n])]

\* P(to[n]) is made a superset of P(from[n]) wherever both are pointers.
Connect(to, from) ==
  [n \in 1 .. Len(to) |->
     IF to[n] = NonPointer \/ from[n] = NonPointer
       THEN Skip
       ELSE MakePointsToSetSuperset(to[n], from[n])]

HandleCallingExternalFunction(c) ==
  MarkAll(MarkAsEscaped, c.args) \o MarkAll(MarkAsPointsToExternal, c.results)

HandleCallingLambdaFunction(c, lambda) ==
  IF \/ Len(LambdaArgs[lambda]) # Len(c.args)
     \/ Len(LambdaResults[lambda]) # Len(c.results)
    THEN << >>
    ELSE Connect(LambdaArgs[lambda], c.args) \o Connect(c.results, LambdaResults[lambda])

\* What HandleEscapingFunctionConstraint::Apply does once to an escaped lambda.
HandleEscaping(lambda) ==
  MarkAll(MarkAsPointsToExternal, LambdaArgs[lambda])
    \o MarkAll(MarkAsEscaped, LambdaResults[lambda])

Iterating(c) == c.type \in {"Store", "Load", "Call"}

\* The object whose points-to set an iterating Apply walks over.
Iterated(c) == CASE c.type = "Store" -> c.pointer1
                 [] c.type = "Load"  -> c.pointer
                 [] c.type = "Call"  -> c.target

\* The body of the loop of an iterating Apply, for the pointee x.
VisitOps(c, x) ==
  CASE c.type = "Store" -> << MakePointsToSetSuperset(x, c.pointer2) >>
    [] c.type = "Load"  -> << MakePointsToSetSuperset(c.loaded, x) >>
    [] c.type = "Call" /\ Kind[x] = "Import"   -> HandleCallingExternalFunction(c)
    [] c.type = "Call" /\ Kind[x] = "Function" -> HandleCallingLambdaFunction(c, x)
    [] OTHER -> << >>

\* What follows the loop when the iterated object points to external.
ExternalOps(c) ==
  CASE c.type = "Store" -> << MarkAllPointeesAsEscaped(c.pointer2) >>
    [] c.type = "Load"  -> << MarkAsPointsToExternal(c.loaded) >>
    [] c.type = "Call"  -> HandleCallingExternalFunction(c)

-----------------------------------------------------------------------------
VARIABLES
  pt,           \* PointsToSets_
  external,     \* the objects whose PointsToExternal_ flag is set
  escaped,      \* the objects whose HasEscaped_ flag is set
  facts,        \* history: the facts added so far
  constraints,  \* Constraints_
  handled,      \* the constraints whose EscapeHandled_ flag is set
  pc,           \* where the client or Solve() is
  idx,          \* the constraint Solve() is applying
  todo,         \* the pointees its loop has still to visit
  ops,          \* the operations it has still to run before it goes on
  escapers,     \* the queue of PropagateEscapedFlag, in any order
  modified      \* the accumulated `modified' of the current round

vars == << pt, external, escaped, facts, constraints, handled, pc, idx, todo,
           ops, escapers, modified >>

state == << pt, external, escaped >>

Init ==
  /\ pt = [o \in Objects |-> {}]
  /\ external = Imports
  /\ escaped = Imports
  /\ facts = {}
  /\ constraints = << >>
  /\ handled = {}
  /\ pc = "build"
  /\ idx = 1
  /\ todo = {}
  /\ ops = << >>
  /\ escapers = {}
  /\ modified = FALSE

\* (Definitions introduced by "mutant" are used by no specification: each is a
\* plausible mistake in the definition after it, which some property must catch.)

\* (mutant: the subset's index is inserted along with its pointees)
GainedWithSubset(o) ==
  CASE o.op = "pointee"  -> {o.from}
    [] o.op = "superset" -> {o.from} \cup pt[o.from]
    [] OTHER -> {}

\* The pointees that the operation o inserts into P(o.to) ...
Gained(o) ==
  CASE o.op = "pointee"  -> {o.from}
    [] o.op = "superset" -> pt[o.from]
    [] OTHER -> {}

\* ... the objects it marks as escaped ...
MarkedEscaped(o) ==
  CASE o.op = "escaped" -> {o.to}
    [] o.op = "escapePointees" -> pt[o.to]
    [] OTHER -> {}

\* (mutant: MarkAsEscaped does not mark as pointing to external)
MarkedExternalEscapedNot(o) ==
  CASE o.op = "superset" -> IF o.from \in external THEN {o.to} ELSE {}
    [] o.op = "external" -> {o.to}
    [] OTHER -> {}

\* (mutant: MarkAsEscaped marks registers, too)
MarkedExternalRegisters(o) ==
  CASE o.op = "superset" -> IF o.from \in external THEN {o.to} ELSE {}
    [] o.op = "external" -> {o.to}
    [] OTHER -> MarkedEscaped(o)

\* ... and those it marks as pointing to external: an object that escapes is
\* so marked when it has an address.
MarkedExternal(o) ==
  CASE o.op = "superset" -> IF o.from \in external THEN {o.to} ELSE {}
    [] o.op = "external" -> {o.to}
    [] OTHER -> MarkedEscaped(o) \cap CanBePointee

\* (mutant: the points-to set is assigned, not extended)
ExecuteAssign(o) ==
  /\ pt' = IF o.to \in CanPoint /\ Gained(o) # {} THEN [pt EXCEPT ![o.to] = Gained(o)] ELSE pt
  /\ external' = external \cup (MarkedExternal(o) \cap CanPoint)
  /\ escaped' = escaped \cup MarkedEscaped(o)

\* Running a primitive operation; objects that cannot point are skipped.
Execute(o) ==
  /\ pt' = IF o.to \in CanPoint THEN [pt EXCEPT ![o.to] = @ \cup Gained(o)] ELSE pt
  /\ external' = external \cup (MarkedExternal(o) \cap CanPoint)
  /\ escaped' = escaped \cup MarkedEscaped(o)

-----------------------------------------------------------------------------
(* The client: jlm::llvm::aa::Andersen, or a unit test. *)

\* AddPointerPointeeConstraint, AddPointsToExternalConstraint and
\* AddRegisterContentEscapedConstraint: applied on the spot.
AddFact(f) ==
  /\ pc \in {"build", "done"}
  /\ f \notin facts
  /\ facts' = facts \cup {f}
  /\ Execute(f)
  /\ pc' = "build"
  /\ UNCHANGED << constraints, handled, idx, todo, ops, escapers, modified >>

AddConstraint(c) ==
  /\ pc \in {"build", "done"}
  /\ Len(constraints) < MaxConstraints
  /\ constraints' = Append(constraints, c)
  /\ pc' = "build"
  /\ UNCHANGED << state, facts, handled, idx, todo, ops, escapers, modified >>

\* Entering Solve(): the first round begins.
Solve ==
  /\ pc = "build"
  /\ pc' = "apply"
  /\ idx' = 1
  /\ modified' = FALSE
  /\ UNCHANGED << state, facts, constraints, handled, todo, ops, escapers >>

-----------------------------------------------------------------------------
(* A round of Solve(): std::visit(... constraint.Apply(Set_) ...). *)

current == constraints[idx]

\* SupersetConstraint::Apply
ApplySuperset ==
  /\ pc = "apply" /\ idx <= Len(constraints) /\ current.type = "Superset"
  /\ ops' = << MakePointsToSetSuperset(current.superset, current.subset) >>
  /\ pc' = "finish"
  /\ UNCHANGED << state, facts, constraints, handled, idx, todo, escapers, modified >>

\* (mutant: EscapeHandled_ is set before the test of HasEscaped)
ApplyHandleEscapingFlagFirst ==
  /\ pc = "apply" /\ idx <= Len(constraints) /\ current.type = "Escape"
  /\ handled' = handled \cup {idx}
  /\ IF idx \in handled \/ current.lambda \notin escaped
       THEN UNCHANGED << ops, modified >>
       ELSE /\ ops' = HandleEscaping(current.lambda)
            /\ modified' = TRUE
  /\ pc' = "finish"
  /\ UNCHANGED << state, facts, constraints, idx, todo, escapers >>

\* (mutant: EscapeHandled_ is not tested)
ApplyHandleEscapingAgain ==
  /\ pc = "apply" /\ idx <= Len(constraints) /\ current.type = "Escape"
  /\ IF current.lambda \notin escaped
       THEN UNCHANGED << handled, ops, modified >>
       ELSE /\ handled' = handled \cup {idx}
            /\ ops' = HandleEscaping(current.lambda)
            /\ modified' = TRUE
  /\ pc' = "finish"
  /\ UNCHANGED << state, facts, constraints, idx, todo, escapers >>

\* HandleEscapingFunctionConstraint::Apply, with its early return; the other
\* exit returns true whatever the flags were before.
ApplyHandleEscaping ==
  /\ pc = "apply" /\ idx <= Len(constraints) /\ current.type = "Escape"
  /\ IF idx \in handled \/ current.lambda \notin escaped
       THEN UNCHANGED << handled, ops, modified >>
       ELSE /\ handled' = handled \cup {idx}
            /\ ops' = HandleEscaping(current.lambda)
            /\ modified' = TRUE
  /\ pc' = "finish"
  /\ UNCHANGED << state, facts, constraints, idx, todo, escapers >>

\* The other three Apply methods: begin the loop over a points-to set ...
ApplyIterating ==
  /\ pc = "apply" /\ idx <= Len(constraints) /\ Iterating(current)
  /\ todo' = pt[Iterated(current)]
  /\ pc' = "iterate"
  /\ UNCHANGED << state, facts, constraints, handled, idx, ops, escapers, modified >>

\* ... run its body for one pointee; HashSet does not say in which order ...
Visit(x) ==
  /\ pc = "iterate" /\ ops = << >>
  /\ x \in todo
  /\ todo' = todo \ {x}
  /\ ops' = VisitOps(current, x)
  /\ UNCHANGED << state, facts, constraints, handled, pc, idx, escapers, modified >>

\* ... and treat the external pointee after the last one.
LeaveLoop ==
  /\ pc = "iterate" /\ ops = << >> /\ todo = {}
  /\ ops' = IF Iterated(current) \in external THEN ExternalOps(current) ELSE << >>
  /\ pc' = "finish"
  /\ UNCHANGED << state, facts, constraints, handled, idx, todo, escapers, modified >>

\* One primitive operation of the running Apply.  When it inserts into the set
\* that is being iterated, the iterator over the hash table is invalidated: the
\* loop goes on with any part of that set.
RunOp ==
  /\ pc \in {"iterate", "finish"} /\ ops # << >>
  /\ Execute(Head(ops))
  /\ ops' = Tail(ops)
  /\ modified' = (modified \/ state' # state)
  /\ IF pc = "iterate" /\ pt'[Iterated(current)] # pt[Iterated(current)]
       THEN todo' \in SUBSET pt'[Iterated(current)]
       ELSE UNCHANGED todo
  /\ UNCHANGED << facts, constraints, handled, pc, idx, escapers >>

\* Apply returns; Solve() takes the next constraint.
NextConstraint ==
  /\ pc = "finish" /\ ops = << >>
  /\ pc' = "apply"
  /\ idx' = idx + 1
  /\ UNCHANGED << state, facts, constraints, handled, todo, ops, escapers, modified >>

-----------------------------------------------------------------------------
(* PropagateEscapedFlag(), and the end of a round. *)

StartPropagate ==
  /\ pc = "apply" /\ idx > Len(constraints)
  /\ escapers' = escaped
  /\ pc' = "propagate"
  /\ UNCHANGED << state, facts, constraints, handled, idx, todo, ops, modified >>

\* The pointees of q for which MarkAsEscaped returns true.
NewlyMarked(q) ==
  {x \in pt[q] : x \notin escaped \/ x \in (CanBePointee \cap CanPoint) \ external}

Propagate(q) ==
  /\ pc = "propagate" /\ q \in escapers
  /\ Execute(MarkAllPointeesAsEscaped(q))
  /\ escapers' = (escapers \ {q}) \cup NewlyMarked(q)
  /\ modified' = (modified \/ NewlyMarked(q) # {})
  /\ UNCHANGED << facts, constraints, handled, pc, idx, todo, ops >>

\* while (modified): another round, or Solve() returns.
EndRound ==
  /\ pc = "propagate" /\ escapers = {}
  /\ IF modified
       THEN pc' = "apply" /\ idx' = 1 /\ modified' = FALSE
       ELSE pc' = "done" /\ UNCHANGED << idx, modified >>
  /\ UNCHANGED << state, facts, constraints, handled, todo, ops, escapers >>

-----------------------------------------------------------------------------
Client == \/ \E f \in Facts : AddFact(f)
          \/ \E c \in Constraints : AddConstraint(c)
          \/ Solve

SolveStep == \/ ApplySuperset
             \/ ApplyHandleEscaping
             \/ ApplyIterating
             \/ \E x \in Objects : Visit(x)
             \/ LeaveLoop
             \/ RunOp
             \/ NextConstraint
             \/ StartPropagate
             \/ \E q \in Objects : Propagate(q)
             \/ EndRound

Next == Client \/ SolveStep

Spec == Init /\ [][Next]_vars

\* Solve() runs on its own thread of control: once called it keeps stepping.
FairSpec == Spec /\ WF_vars(SolveStep)

-----------------------------------------------------------------------------
(* What a solution <<p, x, e>> must satisfy (points-to sets, objects that     *)
(* point to external, escaped objects).                                      *)

IsEscaped(o, x, e) == o \in e /\ (o \in CanBePointee \cap CanPoint => o \in x)

Holds(o, p, x, e) ==
  CASE o.op = "pointee"  -> o.to \in CanPoint => o.from \in p[o.to]
    [] o.op = "superset" -> o.to \in CanPoint => /\ p[o.from] \subseteq p[o.to]
                                                 /\ o.from \in x => o.to \in x
    [] o.op = "external" -> o.to \in CanPoint => o.to \in x
    [] o.op = "escaped"  -> IsEscaped(o.to, x, e)
    [] o.op = "escapePointees" -> \A y \in p[o.to] : IsEscaped(y, x, e)
    [] o.op = "skip"     -> TRUE

AllHold(s, p, x, e) == \A n \in 1 .. Len(s) : Holds(s[n], p, x, e)

ConstraintHolds(c, p, x, e) ==
  /\ c.type = "Superset" =>
       Holds(MakePointsToSetSuperset(c.superset, c.subset), p, x, e)
  /\ c.type = "Escape" /\ c.lambda \in e => AllHold(HandleEscaping(c.lambda), p, x, e)
  /\ Iterating(c) => /\ \A y \in p[Iterated(c)] : AllHold(VisitOps(c, y), p, x, e)
                     /\ Iterated(c) \in x => AllHold(ExternalOps(c), p, x, e)

IsSolution(p, x, e) ==
  /\ \A o \in Imports : IsEscaped(o, x, e)
  /\ \A f \in facts : Holds(f, p, x, e)
  /\ \A i \in 1 .. Len(constraints) : ConstraintHolds(constraints[i], p, x, e)
  /\ \A o \in e : \A y \in p[o] : IsEscaped(y, x, e)

-----------------------------------------------------------------------------
(* Properties. *)

\* The type invariant.
TypeOK ==
  /\ pt \in [Objects -> SUBSET CanBePointee]
  /\ external \in SUBSET Objects
  /\ escaped \in SUBSET Objects
  /\ facts \in SUBSET Facts
  /\ constraints \in Seq(Constraints)
  /\ handled \in SUBSET Nat
  /\ pc \in {"build", "apply", "iterate", "finish", "propagate", "done"}
  /\ idx \in Nat \ {0}
  /\ pc \in {"iterate", "finish"} => idx \in 1 .. Len(constraints)
  /\ pc = "iterate" => Iterating(current)
  /\ todo \in SUBSET CanBePointee
  /\ ops \in Seq(Ops)
  /\ escapers \in SUBSET Objects
  /\ modified \in BOOLEAN

\* When Solve() returns, the points-to sets and flags satisfy every fact and
\* every constraint that was added, whatever the order, although Apply skips
\* constraints it has handled and iterates over sets that grow under it, and
\* although an unmodified round is taken to mean that all of them hold.
Solved == pc = "done" => IsSolution(pt, external, escaped)

\* The promises of the PointerObject class, at every moment of the run: an
\* escaped object that has an address and can point is flagged as pointing to
\* external, and a function never points to anything, even when a constraint
\* with a function on its left-hand side is applied.
FlagsConsistent ==
  /\ \A o \in escaped : IsEscaped(o, external, escaped)
  /\ \A o \in Objects \ CanPoint : pt[o] = {} /\ o \notin external

\* A step only ever adds pointees and flags ("Flags are never removed"); and
\* while Solve() runs, a step that adds something leaves `modified' set, so
\* that the round in which it happened is not the last one.
Grows ==
  /\ \A o \in Objects : pt[o] \subseteq pt'[o]
  /\ external \subseteq external'
  /\ escaped \subseteq escaped'
  /\ pc \in {"apply", "iterate", "finish", "propagate"} /\ state' # state => modified'
OnlyGrows == [][Grows]_vars

\* At every moment the points-to sets and flags are contained in every solution
\* of what was added: the solver never claims more than it must.
Below(p, x, e) ==
  /\ \A o \in Objects : pt[o] \subseteq p[o]
  /\ external \subseteq x
  /\ escaped \subseteq e
Least ==
  \A p \in [Objects -> SUBSET CanBePointee], x \in SUBSET Objects, e \in SUBSET Objects :
    IsSolution(p, x, e) => Below(p, x, e)

\* Every call of Solve() returns.
Termination == pc = "apply" ~> pc = "done"

-----------------------------------------------------------------------------
(* The inductive invariant behind Solved. *)

\* The operations of s hold already, except those that are pending in q.
HoldOrPending(s, q, p, x, e) ==
  \A n \in 1 .. Len(s) : \/ Holds(s[n], p, x, e)
                         \/ \E m \in 1 .. Len(q) : q[m] = s[n]

\* Facts and escaped functions that were treated need no second look: all they
\* demand is additive.
Settled ==
  /\ \A f \in facts : Holds(f, pt, external, escaped)
  /\ \A i \in handled :
       /\ i \in 1 .. Len(constraints)
       /\ constraints[i].type = "Escape"
       /\ constraints[i].lambda \in escaped
       /\ HoldOrPending(HandleEscaping(constraints[i].lambda), ops, pt, external, escaped)
       /\ \/ AllHold(HandleEscaping(constraints[i].lambda), pt, external, escaped)
          \/ pc = "finish" /\ i = idx /\ modified

\* The current constraint holds but for what its Apply has still to do: the
\* pointees in t and the operations in q.
AppliedBut(c, t, q, p, x, e) ==
  \A y \in p[Iterated(c)] \ t : HoldOrPending(VisitOps(c, y), q, p, x, e)

FinishedBut(c, q, p, x, e) ==
  /\ c.type = "Superset" =>
       HoldOrPending(<< MakePointsToSetSuperset(c.superset, c.subset) >>, q, p, x, e)
  /\ c.type = "Escape" /\ c.lambda \in e =>
       HoldOrPending(HandleEscaping(c.lambda), q, p, x, e)
  /\ Iterating(c) =>
       /\ AppliedBut(c, {}, q, p, x, e)
       /\ Iterated(c) \in x => HoldOrPending(ExternalOps(c), q, p, x, e)

\* While nothing was modified in this round, the constraints applied so far hold
\* and the escapers that were taken from the queue have escaped pointees.
Unmodified ==
  /\ pc \in {"apply", "iterate", "finish"} =>
       \A i \in 1 .. Len(constraints) :
         i < idx => ConstraintHolds(constraints[i], pt, external, escaped)
  /\ pc = "iterate" => AppliedBut(current, todo, ops, pt, external, escaped)
  /\ pc = "finish" => FinishedBut(current, ops, pt, external, escaped)
  /\ pc = "propagate" =>
       /\ \A i \in 1 .. Len(constraints) :
            ConstraintHolds(constraints[i], pt, external, escaped)
       /\ \A o \in escaped \ escapers : \A y \in pt[o] : IsEscaped(y, external, escaped)

NothingPending == pc \in {"build", "apply", "propagate", "done"} => ops = << >>

Inductive ==
  /\ TypeOK
  /\ FlagsConsistent
  /\ Imports \subseteq escaped
  /\ NothingPending
  /\ Settled
  /\ ~ modified => Unmodified
  /\ Solved

=============================================================================

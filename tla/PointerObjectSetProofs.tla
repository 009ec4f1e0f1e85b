---------------------- MODULE PointerObjectSetProofs ----------------------
(***************************************************************************)
(* Proofs about PointerObjectSet, for every set of objects, every signature *)
(* of its lambdas, and every number and order of facts and constraints.    *)
(***************************************************************************)
EXTENDS PointerObjectSet, TLAPS

-----------------------------------------------------------------------------
(* Types of the operations that constraints demand. *)

LEMMA KindSets ==
  /\ Registers \subseteq Objects /\ Functions \subseteq Objects
  /\ Imports \subseteq CanBePointee \cap CanPoint
  /\ CanPoint \subseteq Objects /\ CanBePointee \subseteq Objects
  /\ Values \subseteq Objects \cup {NonPointer}
BY DEF Registers, Functions, Imports, CanPoint, CanBePointee, Values

\* The marks put on a list of values are operations.
LEMMA MarkAllType ==
  ASSUME NEW s \in Seq(Values)
  PROVE  /\ MarkAll(MarkAsEscaped, s) \in Seq(Ops)
         /\ MarkAll(MarkAsPointsToExternal, s) \in Seq(Ops)
<1>1. \A n \in 1 .. Len(s) : s[n] \in Objects \cup {NonPointer}
  BY KindSets
<1>2. \A n \in 1 .. Len(s) :
        /\ (IF s[n] = NonPointer THEN Skip ELSE MarkAsEscaped(s[n])) \in Ops
        /\ (IF s[n] = NonPointer THEN Skip ELSE MarkAsPointsToExternal(s[n])) \in Ops
  BY <1>1 DEF Ops, Op, MarkAsEscaped, MarkAsPointsToExternal
<1>3. Len(s) \in Nat
  OBVIOUS
<1> QED BY <1>2, <1>3 DEF MarkAll

\* So are the subset edges between two lists of values of the same length.
LEMMA ConnectType ==
  ASSUME NEW s \in Seq(Values), NEW t \in Seq(Values), Len(s) = Len(t)
  PROVE  Connect(s, t) \in Seq(Ops)
<1>1. \A n \in 1 .. Len(s) : /\ s[n] \in Objects \cup {NonPointer}
                             /\ t[n] \in Objects \cup {NonPointer}
  BY KindSets
<1>2. \A n \in 1 .. Len(s) :
        (IF s[n] = NonPointer \/ t[n] = NonPointer
           THEN Skip ELSE MakePointsToSetSuperset(s[n], t[n])) \in Ops
  BY <1>1 DEF Ops, Op, MakePointsToSetSuperset
<1>3. Len(s) \in Nat
  OBVIOUS
<1> QED BY <1>2, <1>3 DEF Connect

LEMMA HandleEscapingType ==
  ASSUME NEW f \in Functions
  PROVE  HandleEscaping(f) \in Seq(Ops)
BY MarkAllType, LambdaAssumption DEF HandleEscaping

LEMMA ConcatType ==
  ASSUME NEW S, NEW s \in Seq(S), NEW t \in Seq(S)
  PROVE  s \o t \in Seq(S)
OBVIOUS

LEMMA IteratedType ==
  ASSUME NEW c \in Constraints, Iterating(c)
  PROVE  Iterated(c) \in Objects
BY ConstraintsAssumption, KindSets
   DEF Iterating, Iterated, ConstraintVariant, SupersetConstraint,
       AllPointeesPointToSupersetConstraint, SupersetOfAllPointeesConstraint,
       HandleEscapingFunctionConstraint, FunctionCallConstraint

\* Everything an iterating Apply runs is an operation.
LEMMA IteratingOpsType ==
  ASSUME NEW c \in Constraints, Iterating(c)
  PROVE  /\ \A x \in CanBePointee : VisitOps(c, x) \in Seq(Ops)
         /\ ExternalOps(c) \in Seq(Ops)
<1> USE DEF Iterating
<1>1. CASE c.type = "Store"
  <2>1. c.pointer1 \in Objects /\ c.pointer2 \in Objects
    BY <1>1, ConstraintsAssumption
       DEF ConstraintVariant, SupersetConstraint,
           AllPointeesPointToSupersetConstraint, SupersetOfAllPointeesConstraint,
           HandleEscapingFunctionConstraint, FunctionCallConstraint
  <2>2. /\ MarkAllPointeesAsEscaped(c.pointer2) \in Ops
        /\ \A x \in CanBePointee : MakePointsToSetSuperset(x, c.pointer2) \in Ops
    BY <2>1, KindSets DEF Ops, Op, MakePointsToSetSuperset, MarkAllPointeesAsEscaped
  <2> QED BY <1>1, <2>2 DEF VisitOps, ExternalOps
<1>2. CASE c.type = "Load"
  <2>1. c.loaded \in Objects /\ c.pointer \in Objects
    BY <1>2, ConstraintsAssumption
       DEF ConstraintVariant, SupersetConstraint,
           AllPointeesPointToSupersetConstraint, SupersetOfAllPointeesConstraint,
           HandleEscapingFunctionConstraint, FunctionCallConstraint
  <2>2. /\ MarkAsPointsToExternal(c.loaded) \in Ops
        /\ \A x \in CanBePointee : MakePointsToSetSuperset(c.loaded, x) \in Ops
    BY <2>1, KindSets DEF Ops, Op, MakePointsToSetSuperset, MarkAsPointsToExternal
  <2> QED BY <1>2, <2>2 DEF VisitOps, ExternalOps
<1>3. CASE c.type = "Call"
  <2>1. c.args \in Seq(Values) /\ c.results \in Seq(Values)
    BY <1>3, ConstraintsAssumption
       DEF ConstraintVariant, SupersetConstraint,
           AllPointeesPointToSupersetConstraint, SupersetOfAllPointeesConstraint,
           HandleEscapingFunctionConstraint, FunctionCallConstraint
  <2>2. HandleCallingExternalFunction(c) \in Seq(Ops)
    BY <2>1, MarkAllType, ConcatType DEF HandleCallingExternalFunction
  <2>3. ASSUME NEW x \in CanBePointee, Kind[x] = "Function"
        PROVE  HandleCallingLambdaFunction(c, x) \in Seq(Ops)
    <3>1. x \in Functions
      BY <2>3 DEF Functions, CanBePointee
    <3>2. LambdaArgs[x] \in Seq(Values) /\ LambdaResults[x] \in Seq(Values)
      BY <3>1, LambdaAssumption
    <3>3. CASE /\ Len(LambdaArgs[x]) = Len(c.args)
               /\ Len(LambdaResults[x]) = Len(c.results)
      <4>1. /\ Connect(LambdaArgs[x], c.args) \in Seq(Ops)
            /\ Connect(c.results, LambdaResults[x]) \in Seq(Ops)
        BY <2>1, <3>2, <3>3, ConnectType
      <4> QED BY <3>3, <4>1, ConcatType DEF HandleCallingLambdaFunction
    <3> QED BY <3>3 DEF HandleCallingLambdaFunction
  <2>4. \A x \in CanBePointee :
          \/ VisitOps(c, x) = HandleCallingExternalFunction(c)
          \/ Kind[x] = "Function" /\ VisitOps(c, x) = HandleCallingLambdaFunction(c, x)
          \/ VisitOps(c, x) = << >>
    BY <1>3 DEF VisitOps
  <2>5. ExternalOps(c) = HandleCallingExternalFunction(c)
    BY <1>3 DEF ExternalOps
  <2>6. << >> \in Seq(Ops)
    OBVIOUS
  <2> QED BY <2>2, <2>3, <2>4, <2>5, <2>6
<1> QED BY <1>1, <1>2, <1>3

LEMMA SupersetOpType ==
  ASSUME NEW c \in Constraints, c.type = "Superset"
  PROVE  MakePointsToSetSuperset(c.superset, c.subset) \in Ops
BY ConstraintsAssumption
   DEF ConstraintVariant, SupersetConstraint, AllPointeesPointToSupersetConstraint,
       SupersetOfAllPointeesConstraint, HandleEscapingFunctionConstraint,
       FunctionCallConstraint, Ops, Op, MakePointsToSetSuperset

LEMMA EscapeLambdaType ==
  ASSUME NEW c \in Constraints, c.type = "Escape"
  PROVE  c.lambda \in Functions
BY ConstraintsAssumption
   DEF ConstraintVariant, SupersetConstraint, AllPointeesPointToSupersetConstraint,
       SupersetOfAllPointeesConstraint, HandleEscapingFunctionConstraint,
       FunctionCallConstraint

LEMMA FactsAreOps == Facts \subseteq Ops
BY FactsAssumption, KindSets DEF FactOps, Ops

LEMMA ConstraintTypes ==
  ASSUME NEW c \in Constraints
  PROVE  c.type \in {"Superset", "Escape"} \/ Iterating(c)
BY ConstraintsAssumption
   DEF ConstraintVariant, SupersetConstraint, AllPointeesPointToSupersetConstraint,
       SupersetOfAllPointeesConstraint, HandleEscapingFunctionConstraint,
       FunctionCallConstraint, Iterating

-----------------------------------------------------------------------------
(* What executing one operation does. *)

StateType ==
  /\ pt \in [Objects -> SUBSET CanBePointee]
  /\ external \in SUBSET Objects
  /\ escaped \in SUBSET Objects

LEMMA OpNames ==
  ASSUME NEW o \in Ops
  PROVE  /\ o.op \in {"pointee", "superset", "external", "escaped", "escapePointees", "skip"}
         /\ o.op # "skip" => o.to \in Objects /\ o.from \in Objects
         /\ o.op = "pointee" => o.from \in CanBePointee
BY KindSets DEF Ops, Op, Skip

LEMMA ExecuteType ==
  ASSUME StateType, NEW o \in Ops, Execute(o)
  PROVE  StateType'
<1> USE OpNames, KindSets DEF StateType, Execute, Gained, MarkedEscaped, MarkedExternal, state
<1>1. CASE o.op = "pointee"
  BY <1>1
<1>2. CASE o.op = "superset"
  BY <1>2
<1>3. CASE o.op = "external"
  BY <1>3
<1>4. CASE o.op = "escaped"
  BY <1>4
<1>5. CASE o.op = "escapePointees"
  BY <1>5
<1>6. CASE o.op = "skip"
  BY <1>6
<1> QED BY <1>1, <1>2, <1>3, <1>4, <1>5, <1>6

\* Operations only add.
LEMMA ExecuteGrows ==
  ASSUME StateType, NEW o \in Ops, Execute(o)
  PROVE  /\ \A z \in Objects : pt[z] \subseteq pt'[z]
         /\ external \subseteq external'
         /\ escaped \subseteq escaped'
<1> USE OpNames, KindSets DEF StateType, Execute, Gained, MarkedEscaped, MarkedExternal, state
<1>1. CASE o.op = "pointee"
  BY <1>1
<1>2. CASE o.op = "superset"
  BY <1>2
<1>3. CASE o.op = "external"
  BY <1>3
<1>4. CASE o.op = "escaped"
  BY <1>4
<1>5. CASE o.op = "escapePointees"
  BY <1>5
<1>6. CASE o.op = "skip"
  BY <1>6
<1> QED BY <1>1, <1>2, <1>3, <1>4, <1>5, <1>6

\* Functions stay empty and escaped memory stays external.
LEMMA ExecuteConsistent ==
  ASSUME StateType, FlagsConsistent, NEW o \in Ops, Execute(o)
  PROVE  FlagsConsistent'
<1> USE OpNames, KindSets DEF StateType, Execute, Gained, MarkedEscaped, MarkedExternal, state, FlagsConsistent, IsEscaped
<1>1. CASE o.op = "pointee"
  BY <1>1
<1>2. CASE o.op = "superset"
  BY <1>2
<1>3. CASE o.op = "external"
  BY <1>3
<1>4. CASE o.op = "escaped"
  BY <1>4
<1>5. CASE o.op = "escapePointees"
  BY <1>5
<1>6. CASE o.op = "skip"
  BY <1>6
<1> QED BY <1>1, <1>2, <1>3, <1>4, <1>5, <1>6

\* An operation that changed nothing holds: this is what lets an unmodified
\* round of Solve() conclude.
LEMMA ExecuteUnchanged ==
  ASSUME StateType, NEW o \in Ops, Execute(o), state' = state
  PROVE  Holds(o, pt, external, escaped)
<1> USE OpNames, KindSets DEF StateType, Execute, Gained, MarkedEscaped, MarkedExternal, state, Holds, IsEscaped
<1>1. CASE o.op = "pointee"
  BY <1>1
<1>2. CASE o.op = "superset"
  BY <1>2
<1>3. CASE o.op = "external"
  BY <1>3
<1>4. CASE o.op = "escaped"
  BY <1>4
<1>5. CASE o.op = "escapePointees"
  BY <1>5
<1>6. CASE o.op = "skip"
  BY <1>6
<1> QED BY <1>1, <1>2, <1>3, <1>4, <1>5, <1>6

Additive(o) == o.op \in {"pointee", "external", "escaped", "skip"}

\* An additive operation holds once it has run ...
LEMMA ExecuteAdditive ==
  ASSUME StateType, NEW o \in Ops, Additive(o), Execute(o)
  PROVE  Holds(o, pt', external', escaped')
<1> USE OpNames, KindSets DEF StateType, Execute, Gained, MarkedEscaped, MarkedExternal, state, Holds, IsEscaped, Additive
<1>1. CASE o.op = "pointee"
  BY <1>1
<1>2. CASE o.op = "external"
  BY <1>2
<1>3. CASE o.op = "escaped"
  BY <1>3
<1>4. CASE o.op = "skip"
  BY <1>4
<1> QED BY <1>1, <1>2, <1>3, <1>4

\* ... and goes on to hold in every larger state.
LEMMA AdditiveStays ==
  ASSUME NEW o \in Ops, Additive(o),
         NEW p, NEW x, NEW e, NEW q, NEW y, NEW f,
         \A z \in Objects : p[z] \subseteq q[z], x \subseteq y, e \subseteq f,
         Holds(o, p, x, e)
  PROVE  Holds(o, q, y, f)
<1> USE OpNames DEF Holds, IsEscaped, Additive
<1>1. CASE o.op = "pointee"
  BY <1>1
<1>2. CASE o.op = "external"
  BY <1>2
<1>3. CASE o.op = "escaped"
  BY <1>3
<1>4. CASE o.op = "skip"
  BY <1>4
<1> QED BY <1>1, <1>2, <1>3, <1>4

\* Whatever satisfies the operation and lies above the state before it lies
\* above the state after it.
LEMMA ExecuteLeast ==
  ASSUME StateType, NEW o \in Ops, Execute(o),
         NEW p \in [Objects -> SUBSET CanBePointee],
         NEW x \in SUBSET Objects, NEW e \in SUBSET Objects,
         \A z \in Objects : pt[z] \subseteq p[z], external \subseteq x, escaped \subseteq e,
         Holds(o, p, x, e)
  PROVE  /\ \A z \in Objects : pt'[z] \subseteq p[z]
         /\ external' \subseteq x
         /\ escaped' \subseteq e
<1> USE OpNames, KindSets DEF StateType, Execute, Gained, MarkedEscaped, MarkedExternal, state, Holds, IsEscaped
<1>1. CASE o.op = "pointee"
  BY <1>1
<1>2. CASE o.op = "superset"
  BY <1>2
<1>3. CASE o.op = "external"
  BY <1>3
<1>4. CASE o.op = "escaped"
  BY <1>4
<1>5. CASE o.op = "escapePointees"
  BY <1>5
<1>6. CASE o.op = "skip"
  BY <1>6
<1> QED BY <1>1, <1>2, <1>3, <1>4, <1>5, <1>6

-----------------------------------------------------------------------------
(* Type correctness. *)

LEMMA PropagateOp ==
  ASSUME NEW q \in Objects
  PROVE  MarkAllPointeesAsEscaped(q) \in Ops
BY DEF MarkAllPointeesAsEscaped, Op, Ops

LEMMA InitType == Init => TypeOK
<1> SUFFICES ASSUME Init
             PROVE  TypeOK
  OBVIOUS
<1>1. constraints \in Seq(Constraints) /\ ops \in Seq(Ops)
  BY DEF Init
<1>2. pt \in [Objects -> SUBSET CanBePointee]
  BY DEF Init
<1>3. modified \in BOOLEAN
  BY Zenon DEF Init
<1> QED BY <1>1, <1>2, <1>3, KindSets DEF Init, TypeOK

LEMMA NextType == TypeOK /\ [Next]_vars => TypeOK'
<1> SUFFICES ASSUME TypeOK, [Next]_vars
             PROVE  TypeOK'
  OBVIOUS
<1> USE DEF TypeOK
<1>s. StateType
  BY DEF StateType
<1>c. idx \in 1 .. Len(constraints) => current \in Constraints
  BY DEF current
<1>1. ASSUME NEW f \in Facts, AddFact(f)
      PROVE  TypeOK'
  <2>1. StateType'
    BY <1>1, <1>s, ExecuteType, FactsAreOps DEF AddFact
  <2> QED BY <1>1, <2>1 DEF AddFact, StateType
<1>2. ASSUME NEW c \in Constraints, AddConstraint(c)
      PROVE  TypeOK'
  <2>1. constraints' \in Seq(Constraints)
    BY <1>2 DEF AddConstraint
  <2> QED BY <1>2, <2>1 DEF AddConstraint, state
<1>3. CASE Solve
  <2>1. modified' \in BOOLEAN
    BY <1>3, Zenon DEF Solve
  <2> QED BY <1>3, <2>1 DEF Solve, state
<1>4. CASE ApplySuperset
  <2>1. ops' \in Seq(Ops)
    <3>1. MakePointsToSetSuperset(current.superset, current.subset) \in Ops
      BY <1>4, <1>c, SupersetOpType DEF ApplySuperset
    <3> QED BY <1>4, <3>1 DEF ApplySuperset
  <2> QED BY <1>4, <2>1 DEF ApplySuperset, state
<1>5. CASE ApplyHandleEscaping
  <2>1. ops' \in Seq(Ops)
    BY <1>5, <1>c, EscapeLambdaType, HandleEscapingType DEF ApplyHandleEscaping
  <2>2. modified' \in BOOLEAN
    BY <1>5, Zenon DEF ApplyHandleEscaping
  <2>3. handled' \in SUBSET Nat
    BY <1>5 DEF ApplyHandleEscaping
  <2>4. /\ pc = "apply" /\ pc' = "finish" /\ idx <= Len(constraints)
        /\ UNCHANGED << state, facts, constraints, idx, todo, escapers >>
    BY <1>5 DEF ApplyHandleEscaping
  <2> QED BY <2>1, <2>2, <2>3, <2>4 DEF state
<1>6. CASE ApplyIterating
  <2>1. todo' \in SUBSET CanBePointee
    BY <1>6, <1>c, IteratedType DEF ApplyIterating
  <2>2. Iterating(current)'
    BY <1>6 DEF ApplyIterating, current
  <2> QED BY <1>6, <2>1, <2>2 DEF ApplyIterating, state
<1>7. ASSUME NEW x \in Objects, Visit(x)
      PROVE  TypeOK'
  <2>1. ops' \in Seq(Ops)
    BY <1>7, <1>c, IteratingOpsType DEF Visit
  <2>2. Iterating(current)'
    BY <1>7 DEF Visit, current
  <2> QED BY <1>7, <2>1, <2>2 DEF Visit, state
<1>8. CASE LeaveLoop
  <2>1. ops' \in Seq(Ops)
    BY <1>8, <1>c, IteratingOpsType DEF LeaveLoop
  <2> QED BY <1>8, <2>1 DEF LeaveLoop, state
<1>9. CASE RunOp
  <2>1. Head(ops) \in Ops /\ Tail(ops) \in Seq(Ops)
    BY <1>9 DEF RunOp
  <2>2. StateType'
    BY <1>9, <1>s, <2>1, ExecuteType DEF RunOp
  <2>3. pc = "iterate" => Iterated(current) \in Objects
    BY <1>c, IteratedType
  <2>4. todo' \in SUBSET CanBePointee
    BY <1>9, <2>2, <2>3 DEF RunOp, StateType
  <2>5. pc' = "iterate" => Iterating(current)'
    BY <1>9 DEF RunOp, current
  <2> QED BY <1>9, <2>1, <2>2, <2>4, <2>5 DEF RunOp, StateType
<1>10. CASE NextConstraint
  <2>1. idx' \in Nat \ {0}
    BY <1>10 DEF NextConstraint
  <2> QED BY <1>10, <2>1 DEF NextConstraint, state
<1>11. CASE StartPropagate
  BY <1>11 DEF StartPropagate, state
<1>12. ASSUME NEW q \in Objects, Propagate(q)
       PROVE  TypeOK'
  <2>1. StateType'
    BY <1>12, <1>s, ExecuteType, PropagateOp DEF Propagate
  <2>2. NewlyMarked(q) \in SUBSET Objects
    BY KindSets DEF NewlyMarked
  <2> QED BY <1>12, <2>1, <2>2 DEF Propagate, StateType
<1>13. CASE EndRound
  <2>1. modified' \in BOOLEAN
    BY <1>13, Zenon DEF EndRound
  <2> QED BY <1>13, <2>1 DEF EndRound, state
<1>14. CASE UNCHANGED vars
  BY <1>14 DEF vars, current
<1> QED BY <1>1, <1>2, <1>3, <1>4, <1>5, <1>6, <1>7, <1>8, <1>9, <1>10, <1>11,
           <1>12, <1>13, <1>14 DEF Next, Client, SolveStep

\* Points-to sets hold memory objects only, and the loop of an Apply never
\* leaves the vector of constraints.
THEOREM TypeCorrect == Spec => []TypeOK
BY InitType, NextType, PTL DEF Spec

-----------------------------------------------------------------------------
(* The inductive invariant, part by part. *)

LEMMA FactsAreAdditive ==
  ASSUME NEW f \in Facts
  PROVE  Additive(f)
BY FactsAssumption DEF FactOps, Additive

LEMMA HandleEscapingAdditive ==
  ASSUME NEW f \in Functions, NEW n \in 1 .. Len(HandleEscaping(f))
  PROVE  HandleEscaping(f)[n] \in Ops /\ Additive(HandleEscaping(f)[n])
<1> DEFINE A == LambdaArgs[f]
           R == LambdaResults[f]
           a == MarkAll(MarkAsPointsToExternal, A)
           r == MarkAll(MarkAsEscaped, R)
<1>1. A \in Seq(Values) /\ R \in Seq(Values)
  BY LambdaAssumption
<1>2. a \in Seq(Ops) /\ r \in Seq(Ops)
  BY <1>1, MarkAllType
<1>3. /\ \A m \in 1 .. Len(A) : Additive(IF A[m] = NonPointer THEN Skip ELSE MarkAsPointsToExternal(A[m]))
      /\ \A m \in 1 .. Len(R) : Additive(IF R[m] = NonPointer THEN Skip ELSE MarkAsEscaped(R[m]))
  BY DEF Additive, Skip, Op, MarkAsEscaped, MarkAsPointsToExternal
<1>4. /\ Len(a) = Len(A) /\ \A m \in 1 .. Len(A) : Additive(a[m])
      /\ Len(r) = Len(R) /\ \A m \in 1 .. Len(R) : Additive(r[m])
  BY <1>1, <1>3 DEF MarkAll
<1>5. HandleEscaping(f) = a \o r
  BY DEF HandleEscaping
<1> HIDE DEF a, r, A, R
<1>6. HandleEscaping(f)[n] \in Ops
  BY <1>2, <1>5
<1>7. /\ Len(a \o r) = Len(a) + Len(r)
      /\ \A m \in 1 .. Len(a \o r) : (a \o r)[m] = IF m <= Len(a) THEN a[m] ELSE r[m - Len(a)]
  BY <1>2
<1>8. Len(a) \in Nat /\ Len(r) \in Nat
  BY <1>2
<1>9. CASE n <= Len(a)
  <2>1. n \in 1 .. Len(A) /\ HandleEscaping(f)[n] = a[n]
    BY <1>4, <1>5, <1>7, <1>8, <1>9
  <2> QED BY <1>4, <1>6, <2>1
<1>10. CASE n > Len(a)
  <2>1. n - Len(a) \in 1 .. Len(R) /\ HandleEscaping(f)[n] = r[n - Len(a)]
    BY <1>4, <1>5, <1>7, <1>8, <1>10
  <2> QED BY <1>4, <1>6, <2>1
<1> QED BY <1>8, <1>9, <1>10

\* Every step leaves the points-to sets and the flags alone or executes an
\* operation on them.
LEMMA StepState ==
  ASSUME TypeOK, [Next]_vars
  PROVE  \/ state' = state
         \/ \E o \in Ops : Execute(o)
<1> USE DEF state
<1>1. ASSUME NEW f \in Facts, AddFact(f)
      PROVE  \E o \in Ops : Execute(o)
  BY <1>1, FactsAreOps DEF AddFact
<1>2. CASE RunOp
  <2>1. Head(ops) \in Ops
    BY <1>2 DEF RunOp, TypeOK
  <2>2. Execute(Head(ops))
    BY <1>2 DEF RunOp
  <2> QED BY <2>1, <2>2
<1>3. ASSUME NEW q \in Objects, Propagate(q)
      PROVE  \E o \in Ops : Execute(o)
  <2>1. Execute(MarkAllPointeesAsEscaped(q))
    BY <1>3 DEF Propagate
  <2> QED BY <2>1, PropagateOp
<1>4. CASE \E c \in Constraints : AddConstraint(c)
  BY <1>4 DEF AddConstraint
<1>5. CASE Solve \/ ApplySuperset \/ ApplyHandleEscaping \/ ApplyIterating \/ LeaveLoop
  BY <1>5 DEF Solve, ApplySuperset, ApplyHandleEscaping, ApplyIterating, LeaveLoop
<1>6. CASE \E x \in Objects : Visit(x)
  BY <1>6 DEF Visit
<1>7. CASE NextConstraint \/ StartPropagate \/ EndRound \/ UNCHANGED vars
  BY <1>7 DEF NextConstraint, StartPropagate, EndRound, vars
<1> QED BY <1>1, <1>2, <1>3, <1>4, <1>5, <1>6, <1>7 DEF Next, Client, SolveStep

LEMMA StepGrows ==
  ASSUME TypeOK, [Next]_vars
  PROVE  /\ \A z \in Objects : pt[z] \subseteq pt'[z]
         /\ external \subseteq external'
         /\ escaped \subseteq escaped'
<1>1. StateType
  BY DEF TypeOK, StateType
<1>2. CASE state' = state
  BY <1>2 DEF state
<1>3. ASSUME NEW o \in Ops, Execute(o)
      PROVE  /\ \A z \in Objects : pt[z] \subseteq pt'[z]
             /\ external \subseteq external'
             /\ escaped \subseteq escaped'
  BY <1>1, <1>3, ExecuteGrows
<1> QED BY <1>2, <1>3, StepState

LEMMA InitFlags == Init => FlagsConsistent /\ Imports \subseteq escaped
BY KindSets DEF Init, FlagsConsistent, IsEscaped, CanPoint, Imports

LEMMA NextFlags ==
  ASSUME TypeOK, FlagsConsistent, Imports \subseteq escaped, [Next]_vars
  PROVE  FlagsConsistent' /\ Imports \subseteq escaped'
<1>1. StateType
  BY DEF TypeOK, StateType
<1>2. CASE state' = state
  BY <1>2 DEF state, FlagsConsistent
<1>3. ASSUME NEW o \in Ops, Execute(o)
      PROVE  FlagsConsistent'
  BY <1>1, <1>3, ExecuteConsistent
<1> QED BY <1>2, <1>3, StepState, StepGrows

\* At every moment, escaped memory is flagged as pointing to external, and
\* functions point to nothing.
THEOREM FlagsAlwaysConsistent == Spec => []FlagsConsistent
<1> DEFINE J == TypeOK /\ FlagsConsistent /\ Imports \subseteq escaped
<1>1. Init => J
  BY InitType, InitFlags
<1>2. J /\ [Next]_vars => J'
  BY NextType, NextFlags
<1>3. J => FlagsConsistent
  OBVIOUS
<1> QED BY <1>1, <1>2, <1>3, PTL DEF Spec

-----------------------------------------------------------------------------
(* Pending operations. *)

LEMMA EmptyQueue ==
  ASSUME NEW s, NEW p, NEW x, NEW e, HoldOrPending(s, << >>, p, x, e)
  PROVE  AllHold(s, p, x, e)
BY DEF HoldOrPending, AllHold

LEMMA AllPending ==
  ASSUME NEW s, NEW p, NEW x, NEW e
  PROVE  HoldOrPending(s, s, p, x, e)
BY DEF HoldOrPending

LEMMA AllHoldIsEnough ==
  ASSUME NEW s, NEW q, NEW p, NEW x, NEW e, AllHold(s, p, x, e)
  PROVE  HoldOrPending(s, q, p, x, e)
BY DEF HoldOrPending, AllHold

\* Taking the head off the queue is right when it holds afterwards and
\* what held before goes on to hold.
LEMMA PendingTail ==
  ASSUME NEW s, NEW q \in Seq(Ops), q # << >>,
         NEW p, NEW x, NEW e, NEW p2, NEW x2, NEW e2,
         HoldOrPending(s, q, p, x, e),
         \A n \in 1 .. Len(s) : /\ Holds(s[n], p, x, e) => Holds(s[n], p2, x2, e2)
                                /\ s[n] = Head(q) => Holds(s[n], p2, x2, e2)
  PROVE  HoldOrPending(s, Tail(q), p2, x2, e2)
<1> SUFFICES ASSUME NEW n \in 1 .. Len(s), ~ Holds(s[n], p2, x2, e2)
             PROVE  \E m \in 1 .. Len(Tail(q)) : Tail(q)[m] = s[n]
  BY DEF HoldOrPending
<1>1. PICK k \in 1 .. Len(q) : q[k] = s[n]
  BY DEF HoldOrPending
<1>2. q[1] = Head(q) /\ k # 1
  BY <1>1
<1>3. k - 1 \in 1 .. Len(Tail(q)) /\ Tail(q)[k - 1] = q[k]
  BY <1>1, <1>2
<1> QED BY <1>1, <1>3

\* Facts and the treatment of escaped functions stay done.
LEMMA NextSettled ==
  ASSUME TypeOK, Settled, NothingPending, [Next]_vars
  PROVE  Settled'
<1>s. StateType
  BY DEF TypeOK, StateType
<1>g. /\ \A z \in Objects : pt[z] \subseteq pt'[z]
      /\ external \subseteq external'
      /\ escaped \subseteq escaped'
  BY StepGrows
<1>a. ASSUME NEW o \in Ops, Additive(o), Holds(o, pt, external, escaped)
      PROVE  Holds(o, pt', external', escaped')
  BY <1>a, <1>g, AdditiveStays
<1>f. \A f \in facts' : Holds(f, pt', external', escaped')
  <2>1. \A f \in facts : Holds(f, pt', external', escaped')
    BY <1>a, FactsAreOps, FactsAreAdditive DEF Settled, TypeOK
  <2>2. ASSUME NEW f \in Facts, AddFact(f)
        PROVE  Holds(f, pt', external', escaped') /\ facts' = facts \cup {f}
    BY <2>2, <1>s, FactsAreOps, FactsAreAdditive, ExecuteAdditive DEF AddFact
  <2>3. CASE facts' = facts
    BY <2>1, <2>3
  <2>4. CASE \E f \in Facts : AddFact(f)
    BY <2>1, <2>2, <2>4
  <2>5. CASE \/ \E c \in Constraints : AddConstraint(c)
             \/ \E x \in Objects : Visit(x)
             \/ \E q \in Objects : Propagate(q)
    BY <2>3, <2>5 DEF AddConstraint, Visit, Propagate
  <2>6. CASE Solve \/ ApplySuperset \/ ApplyHandleEscaping \/ ApplyIterating \/ LeaveLoop
    BY <2>3, <2>6 DEF Solve, ApplySuperset, ApplyHandleEscaping, ApplyIterating, LeaveLoop
  <2>7. CASE RunOp \/ NextConstraint \/ StartPropagate \/ EndRound \/ UNCHANGED vars
    BY <2>3, <2>7 DEF RunOp, NextConstraint, StartPropagate, EndRound, vars
  <2> QED BY <2>4, <2>5, <2>6, <2>7 DEF Next, Client, SolveStep
<1> DEFINE L(i) == HandleEscaping(constraints[i].lambda)
           Old(i) == /\ i \in 1 .. Len(constraints)
                     /\ constraints[i].type = "Escape"
                     /\ constraints[i].lambda \in escaped
                     /\ HoldOrPending(L(i), ops, pt, external, escaped)
                     /\ \/ AllHold(L(i), pt, external, escaped)
                        \/ pc = "finish" /\ i = idx /\ modified
<1>k. ASSUME NEW i \in 1 .. Len(constraints)
      PROVE  i \in 1 .. Len(constraints') /\ constraints'[i] = constraints[i]
  <2>1. ASSUME NEW c \in Constraints, AddConstraint(c)
        PROVE  i \in 1 .. Len(constraints') /\ constraints'[i] = constraints[i]
    BY <2>1 DEF AddConstraint, TypeOK
  <2>3. CASE constraints' = constraints
    BY <2>3
  <2>5. CASE \/ \E f \in Facts : AddFact(f)
             \/ \E x \in Objects : Visit(x)
             \/ \E q \in Objects : Propagate(q)
    BY <2>3, <2>5 DEF AddFact, Visit, Propagate
  <2>6. CASE Solve \/ ApplySuperset \/ ApplyHandleEscaping \/ ApplyIterating \/ LeaveLoop
    BY <2>3, <2>6 DEF Solve, ApplySuperset, ApplyHandleEscaping, ApplyIterating, LeaveLoop
  <2>7. CASE RunOp \/ NextConstraint \/ StartPropagate \/ EndRound \/ UNCHANGED vars
    BY <2>3, <2>7 DEF RunOp, NextConstraint, StartPropagate, EndRound, vars
  <2> QED BY <2>1, <2>5, <2>6, <2>7 DEF Next, Client, SolveStep
\* The lambda of a handled constraint, and what it demands, as constants.
<1>l. ASSUME NEW i \in 1 .. Len(constraints), constraints[i].type = "Escape"
      PROVE  /\ constraints[i].lambda \in Functions
             /\ \A n \in 1 .. Len(L(i)) : L(i)[n] \in Ops /\ Additive(L(i)[n])
  BY <1>l, EscapeLambdaType, HandleEscapingAdditive DEF TypeOK
<1> DEFINE New(i) ==
      /\ i \in 1 .. Len(constraints')
      /\ constraints'[i].type = "Escape"
      /\ constraints'[i].lambda \in escaped'
      /\ HoldOrPending(HandleEscaping(constraints'[i].lambda), ops', pt', external', escaped')
      /\ \/ AllHold(HandleEscaping(constraints'[i].lambda), pt', external', escaped')
         \/ pc' = "finish" /\ i = idx' /\ modified'
<1>o. ASSUME NEW i \in handled
      PROVE  New(i)
  <2>1. Old(i)
    BY DEF Settled
  <2>2. /\ i \in 1 .. Len(constraints')
        /\ constraints'[i] = constraints[i]
        /\ constraints[i].lambda \in escaped'
    BY <2>1, <1>k, <1>g
  <2>3. \A n \in 1 .. Len(L(i)) : L(i)[n] \in Ops /\ Additive(L(i)[n])
    BY <2>1, <1>l
  <2>4. ASSUME AllHold(L(i), pt, external, escaped)
        PROVE  New(i)
    <3>1. AllHold(L(i), pt', external', escaped')
      BY <2>3, <2>4, <1>a DEF AllHold
    <3> QED BY <2>1, <2>2, <3>1, AllHoldIsEnough
  <2>5. CASE pc = "finish" /\ i = idx /\ modified
    <3>1. CASE RunOp
      <4>1. Head(ops) \in Ops /\ ops \in Seq(Ops) /\ ops # << >> /\ Execute(Head(ops))
        BY <3>1 DEF RunOp, TypeOK
      <4>2. \A n \in 1 .. Len(L(i)) :
              /\ Holds(L(i)[n], pt, external, escaped) => Holds(L(i)[n], pt', external', escaped')
              /\ L(i)[n] = Head(ops) => Holds(L(i)[n], pt', external', escaped')
        BY <2>3, <4>1, <1>a, <1>s, ExecuteAdditive
      <4>3. HoldOrPending(L(i), Tail(ops), pt', external', escaped')
        BY <2>1, <4>1, <4>2, PendingTail
      <4>4. pc' = "finish" /\ i = idx' /\ ops' = Tail(ops)
        BY <3>1, <2>5 DEF RunOp
      <4>5. modified'
        BY <3>1, <2>5, Zenon DEF RunOp
      <4> QED BY <2>1, <2>2, <4>3, <4>4, <4>5
    <3>2. CASE NextConstraint
      <4>1. ops = << >>
        BY <3>2 DEF NextConstraint
      <4> QED BY <2>1, <2>4, <4>1, EmptyQueue
    <3>3. CASE UNCHANGED vars
      BY <3>3, <2>1 DEF vars
    <3>4. CASE Client
      BY <3>4, <2>5 DEF Client, AddFact, AddConstraint, Solve
    <3>5. CASE ApplySuperset \/ ApplyHandleEscaping \/ ApplyIterating \/ LeaveLoop
               \/ StartPropagate \/ EndRound
      BY <3>5, <2>5 DEF ApplySuperset, ApplyHandleEscaping, ApplyIterating, LeaveLoop,
                        StartPropagate, EndRound
    <3>6. CASE (\E x \in Objects : Visit(x)) \/ \E q \in Objects : Propagate(q)
      BY <3>6, <2>5 DEF Visit, Propagate
    <3> QED BY <3>1, <3>2, <3>3, <3>4, <3>5, <3>6 DEF Next, SolveStep
  <2> QED BY <2>1, <2>4, <2>5
<1>n. \A i \in handled' : New(i)
  <2>1. CASE handled' = handled
    BY <2>1, <1>o
  <2>2. CASE ApplyHandleEscaping
    <3>1. CASE idx \in handled \/ current.lambda \notin escaped
      BY <2>2, <2>1, <3>1 DEF ApplyHandleEscaping
    <3>2. CASE ~ (idx \in handled \/ current.lambda \notin escaped)
      <4>1. /\ handled' = handled \cup {idx}
            /\ ops' = HandleEscaping(current.lambda)
            /\ pc' = "finish" /\ idx' = idx /\ constraints' = constraints
            /\ current.lambda \in escaped' /\ current.type = "Escape"
            /\ idx \in 1 .. Len(constraints)
        BY <2>2, <3>2 DEF ApplyHandleEscaping, state, TypeOK
      <4>2. modified'
        BY <2>2, <3>2, Zenon DEF ApplyHandleEscaping
      <4>3. HoldOrPending(ops', ops', pt', external', escaped')
        BY AllPending
      <4>4. New(idx)
        BY <4>1, <4>2, <4>3 DEF current
      <4> QED BY <4>1, <4>4, <1>o
    <3> QED BY <3>1, <3>2
  <2>3. CASE \/ \E f \in Facts : AddFact(f)
             \/ \E c \in Constraints : AddConstraint(c)
             \/ \E x \in Objects : Visit(x)
             \/ \E q \in Objects : Propagate(q)
    BY <2>1, <2>3 DEF AddFact, AddConstraint, Visit, Propagate
  <2>4. CASE Solve \/ ApplySuperset \/ ApplyIterating \/ LeaveLoop
    BY <2>1, <2>4 DEF Solve, ApplySuperset, ApplyIterating, LeaveLoop
  <2>5. CASE RunOp \/ NextConstraint \/ StartPropagate \/ EndRound \/ UNCHANGED vars
    BY <2>1, <2>5 DEF RunOp, NextConstraint, StartPropagate, EndRound, vars
  <2> QED BY <2>2, <2>3, <2>4, <2>5 DEF Next, Client, SolveStep
<1> QED BY <1>f, <1>n DEF Settled

\* The current constraint, on its way from "but for" to "holds".
LEMMA RunOnUnchanged ==
  ASSUME NEW s, NEW q \in Seq(Ops), q # << >>, NEW p, NEW x, NEW e,
         HoldOrPending(s, q, p, x, e), Holds(Head(q), p, x, e)
  PROVE  HoldOrPending(s, Tail(q), p, x, e)
BY PendingTail

LEMMA FinishedHolds ==
  ASSUME NEW c, NEW p, NEW x, NEW e, FinishedBut(c, << >>, p, x, e)
  PROVE  ConstraintHolds(c, p, x, e)
<1>1. c.type = "Superset" => Holds(MakePointsToSetSuperset(c.superset, c.subset), p, x, e)
  <2> SUFFICES ASSUME c.type = "Superset"
               PROVE  Holds(MakePointsToSetSuperset(c.superset, c.subset), p, x, e)
    OBVIOUS
  <2> DEFINE s == << MakePointsToSetSuperset(c.superset, c.subset) >>
  <2>1. AllHold(s, p, x, e)
    BY EmptyQueue DEF FinishedBut
  <2>2. Len(s) = 1 /\ s[1] = MakePointsToSetSuperset(c.superset, c.subset)
    OBVIOUS
  <2> HIDE DEF s
  <2> QED BY <2>1, <2>2 DEF AllHold
<1> QED BY <1>1, EmptyQueue DEF FinishedBut, AppliedBut, ConstraintHolds

LEMMA FinishedAfterOp ==
  ASSUME NEW c, NEW q \in Seq(Ops), q # << >>, NEW p, NEW x, NEW e,
         FinishedBut(c, q, p, x, e), Holds(Head(q), p, x, e)
  PROVE  FinishedBut(c, Tail(q), p, x, e)
BY RunOnUnchanged DEF FinishedBut, AppliedBut

LEMMA AppliedAfterOp ==
  ASSUME NEW c, NEW t, NEW q \in Seq(Ops), q # << >>, NEW p, NEW x, NEW e,
         AppliedBut(c, t, q, p, x, e), Holds(Head(q), p, x, e)
  PROVE  AppliedBut(c, t, Tail(q), p, x, e)
BY RunOnUnchanged DEF AppliedBut

\* With an empty queue, a visited pointee is finished.
LEMMA AppliedAfterVisit ==
  ASSUME NEW c, NEW t, NEW y, NEW p, NEW x, NEW e,
         AppliedBut(c, t, << >>, p, x, e)
  PROVE  AppliedBut(c, t \ {y}, VisitOps(c, y), p, x, e)
BY EmptyQueue, AllHoldIsEnough, AllPending DEF AppliedBut

LEMMA FinishedAfterLoop ==
  ASSUME NEW c, Iterating(c), NEW q, NEW p, NEW x, NEW e,
         AppliedBut(c, {}, << >>, p, x, e),
         q = IF Iterated(c) \in x THEN ExternalOps(c) ELSE << >>
  PROVE  FinishedBut(c, q, p, x, e)
<1>1. AppliedBut(c, {}, q, p, x, e)
  BY EmptyQueue, AllHoldIsEnough DEF AppliedBut
<1>2. Iterated(c) \in x => HoldOrPending(ExternalOps(c), q, p, x, e)
  BY AllPending
<1>3. c.type \notin {"Superset", "Escape"}
  BY DEF Iterating
<1> QED BY <1>1, <1>2, <1>3 DEF FinishedBut

\* A step inside a round after which `modified' is still false has found it
\* false and changed nothing.
LEMMA QuietStep ==
  ASSUME TypeOK, SolveStep, ~ EndRound, ~ modified'
  PROVE  ~ modified /\ state' = state
<1>1. CASE RunOp
  BY <1>1, Zenon DEF RunOp
<1>2. CASE ApplyHandleEscaping
  BY <1>2, Zenon DEF ApplyHandleEscaping
<1>3. ASSUME NEW q \in Objects, Propagate(q)
      PROVE  ~ modified /\ state' = state
  <2>1. ~ modified /\ NewlyMarked(q) = {}
    BY <1>3, Zenon DEF Propagate
  <2>2. Execute(MarkAllPointeesAsEscaped(q))
    BY <1>3 DEF Propagate
  <2>3. /\ pt' = pt
        /\ escaped' = escaped \cup pt[q]
        /\ external' = external \cup (pt[q] \cap CanBePointee \cap CanPoint)
    BY <2>2 DEF Execute, Gained, MarkedEscaped, MarkedExternal, TypeOK,
             MarkAllPointeesAsEscaped, Op
  <2>4. pt[q] \subseteq escaped /\ pt[q] \cap CanBePointee \cap CanPoint \subseteq external
    BY <2>1 DEF NewlyMarked
  <2>5. escaped' = escaped /\ external' = external
    BY <2>3, <2>4
  <2> QED BY <2>1, <2>3, <2>5 DEF state
<1>4. CASE \/ ApplySuperset \/ ApplyIterating \/ (\E x \in Objects : Visit(x))
           \/ LeaveLoop \/ NextConstraint \/ StartPropagate
  <2>1. UNCHANGED << modified, state >>
    BY <1>4 DEF ApplySuperset, ApplyIterating, Visit, LeaveLoop, NextConstraint, StartPropagate
  <2> QED BY <2>1, Zenon
<1> QED BY <1>1, <1>2, <1>3, <1>4 DEF SolveStep

\* An unmodified round is a round in which everything holds so far.
LEMMA NextUnmodified ==
  ASSUME Inductive, [Next]_vars, ~ modified'
  PROVE  Unmodified'
<1> USE DEF Inductive
<1>s. StateType
  BY DEF TypeOK, StateType
<1>c. idx \in 1 .. Len(constraints) => current \in Constraints
  BY DEF current, TypeOK
<1>1. CASE Client
  BY <1>1 DEF Client, AddFact, AddConstraint, Solve, Unmodified
<1>2. CASE UNCHANGED vars
  <2>1. ~ modified
    BY <1>2, Zenon DEF vars
  <2> QED BY <1>2, <2>1 DEF vars, Unmodified, current
<1>3. CASE EndRound
  BY <1>3 DEF EndRound, Unmodified
<1>4. ASSUME SolveStep, ~ EndRound
      PROVE  Unmodified'
  <2>1. ~ modified /\ state' = state
    BY <1>4, QuietStep
  <2>2. pt' = pt /\ external' = external /\ escaped' = escaped
    BY <2>1 DEF state
  <2>3. Unmodified
    BY <2>1
  <2>4. CASE ApplySuperset
    <3>1. /\ pc = "apply" /\ pc' = "finish" /\ constraints' = constraints /\ idx' = idx
          /\ current.type = "Superset"
          /\ ops' = << MakePointsToSetSuperset(current.superset, current.subset) >>
      BY <2>4 DEF ApplySuperset
    <3>2. current' = current
      BY <3>1 DEF current
    <3>3. FinishedBut(current, ops', pt, external, escaped)
      BY <3>1, AllPending DEF FinishedBut, Iterating
    <3> QED BY <2>2, <2>3, <3>1, <3>2, <3>3 DEF Unmodified
  <2>5. CASE ApplyHandleEscaping
    <3>1. /\ pc = "apply" /\ pc' = "finish" /\ constraints' = constraints /\ idx' = idx
          /\ current.type = "Escape"
      BY <2>5 DEF ApplyHandleEscaping
    <3>2. idx \in handled \/ current.lambda \notin escaped
      BY <2>5, Zenon DEF ApplyHandleEscaping
    <3>3. current' = current
      BY <3>1 DEF current
    <3>4. ASSUME current.lambda \in escaped
          PROVE  HoldOrPending(HandleEscaping(current.lambda), ops', pt, external, escaped)
      BY <3>1, <3>2, <3>4, AllHoldIsEnough DEF Settled, current
    <3>5. FinishedBut(current, ops', pt, external, escaped)
      BY <3>1, <3>4 DEF FinishedBut, Iterating
    <3> QED BY <2>2, <2>3, <3>1, <3>3, <3>5 DEF Unmodified
  <2>6. CASE ApplyIterating
    <3>1. /\ pc = "apply" /\ pc' = "iterate" /\ constraints' = constraints /\ idx' = idx
          /\ todo' = pt[Iterated(current)]
      BY <2>6 DEF ApplyIterating
    <3>2. current' = current
      BY <3>1 DEF current
    <3>3. AppliedBut(current, todo', ops', pt, external, escaped)
      BY <3>1 DEF AppliedBut
    <3> QED BY <2>2, <2>3, <3>1, <3>2, <3>3 DEF Unmodified
  <2>7. ASSUME NEW x \in Objects, Visit(x)
        PROVE  Unmodified'
    <3>1. /\ pc = "iterate" /\ pc' = "iterate" /\ constraints' = constraints /\ idx' = idx
          /\ ops = << >> /\ todo' = todo \ {x} /\ ops' = VisitOps(current, x)
      BY <2>7 DEF Visit
    <3>2. current' = current
      BY <3>1 DEF current
    <3>3. AppliedBut(current, todo', ops', pt, external, escaped)
      BY <2>3, <3>1, AppliedAfterVisit DEF Unmodified
    <3> QED BY <2>2, <2>3, <3>1, <3>2, <3>3 DEF Unmodified
  <2>8. CASE LeaveLoop
    <3>1. /\ pc = "iterate" /\ pc' = "finish" /\ constraints' = constraints /\ idx' = idx
          /\ ops = << >> /\ todo = {} /\ Iterating(current)
          /\ ops' = IF Iterated(current) \in external THEN ExternalOps(current) ELSE << >>
      BY <2>8 DEF LeaveLoop, TypeOK
    <3>2. current' = current
      BY <3>1 DEF current
    <3>3. FinishedBut(current, ops', pt, external, escaped)
      BY <2>3, <3>1, FinishedAfterLoop DEF Unmodified
    <3> QED BY <2>2, <2>3, <3>1, <3>2, <3>3 DEF Unmodified
  <2>9. CASE RunOp
    <3>1. /\ pc \in {"iterate", "finish"} /\ pc' = pc
          /\ constraints' = constraints /\ idx' = idx
          /\ ops \in Seq(Ops) /\ ops # << >> /\ ops' = Tail(ops) /\ Execute(Head(ops))
      BY <2>9 DEF RunOp, TypeOK
    <3>2. current' = current
      BY <3>1 DEF current
    <3>3. todo' = todo
      BY <2>2, <2>9 DEF RunOp
    <3>4. Head(ops) \in Ops
      BY <3>1
    <3>5. Holds(Head(ops), pt, external, escaped)
      BY <1>s, <2>1, <3>1, <3>4, ExecuteUnchanged
    <3>6. CASE pc = "iterate"
      <4>1. AppliedBut(current, todo, ops', pt, external, escaped)
        BY <2>3, <3>1, <3>5, <3>6, AppliedAfterOp DEF Unmodified
      <4> QED BY <2>2, <2>3, <3>1, <3>2, <3>3, <3>6, <4>1 DEF Unmodified
    <3>7. CASE pc = "finish"
      <4>1. FinishedBut(current, ops', pt, external, escaped)
        BY <2>3, <3>1, <3>5, <3>7, FinishedAfterOp DEF Unmodified
      <4> QED BY <2>2, <2>3, <3>1, <3>2, <3>7, <4>1 DEF Unmodified
    <3> QED BY <3>1, <3>6, <3>7
  <2>10. CASE NextConstraint
    <3>1. /\ pc = "finish" /\ pc' = "apply" /\ constraints' = constraints /\ idx' = idx + 1
          /\ ops = << >> /\ idx \in Nat
      BY <2>10 DEF NextConstraint, TypeOK
    <3>2. ConstraintHolds(constraints[idx], pt, external, escaped)
      BY <2>3, <3>1, FinishedHolds DEF Unmodified, current
    <3>3. \A i \in 1 .. Len(constraints) : i < idx + 1 => i < idx \/ i = idx
      BY <3>1
    <3>4. \A i \in 1 .. Len(constraints) :
            i < idx + 1 => ConstraintHolds(constraints[i], pt, external, escaped)
      BY <2>3, <3>1, <3>2, <3>3 DEF Unmodified
    <3> QED BY <2>2, <3>1, <3>4 DEF Unmodified
  <2>11. CASE StartPropagate
    <3>1. /\ pc = "apply" /\ pc' = "propagate" /\ constraints' = constraints
          /\ escapers' = escaped /\ idx > Len(constraints)
          /\ idx \in Nat /\ Len(constraints) \in Nat
      BY <2>11 DEF StartPropagate, TypeOK
    <3>2. \A i \in 1 .. Len(constraints) : ConstraintHolds(constraints[i], pt, external, escaped)
      BY <2>3, <3>1 DEF Unmodified
    <3> QED BY <2>2, <3>1, <3>2 DEF Unmodified
  <2>12. ASSUME NEW q \in Objects, Propagate(q)
         PROVE  Unmodified'
    <3>1. NewlyMarked(q) = {}
      BY <2>12, Zenon DEF Propagate
    <3>2. /\ pc = "propagate" /\ pc' = "propagate" /\ constraints' = constraints
          /\ escapers' = escapers \ {q}
      BY <2>12, <3>1 DEF Propagate
    <3>3. \A y \in pt[q] : IsEscaped(y, external, escaped)
      BY <3>1 DEF NewlyMarked, IsEscaped
    <3>4. \A o \in escaped \ escapers' : \A y \in pt[o] : IsEscaped(y, external, escaped)
      BY <2>3, <3>2, <3>3 DEF Unmodified
    <3> QED BY <2>2, <2>3, <3>2, <3>4 DEF Unmodified
  <2> QED BY <1>4, <2>4, <2>5, <2>6, <2>7, <2>8, <2>9, <2>10, <2>11, <2>12 DEF SolveStep
<1> QED BY <1>1, <1>2, <1>3, <1>4 DEF Next

LEMMA NextNothingPending ==
  ASSUME TypeOK, NothingPending, [Next]_vars
  PROVE  NothingPending'
<1> USE DEF NothingPending
<1>1. CASE Client
  BY <1>1 DEF Client, AddFact, AddConstraint, Solve
<1>2. CASE ApplySuperset \/ ApplyHandleEscaping \/ ApplyIterating \/ LeaveLoop \/ RunOp
  BY <1>2 DEF ApplySuperset, ApplyHandleEscaping, ApplyIterating, LeaveLoop, RunOp
<1>3. CASE (\E x \in Objects : Visit(x)) \/ \E q \in Objects : Propagate(q)
  BY <1>3 DEF Visit, Propagate
<1>4. CASE NextConstraint \/ StartPropagate \/ EndRound \/ UNCHANGED vars
  BY <1>4 DEF NextConstraint, StartPropagate, EndRound, vars
<1> QED BY <1>1, <1>2, <1>3, <1>4 DEF Next, SolveStep

\* Solve() returns only at the end of an unmodified round.
LEMMA NextSolved ==
  ASSUME Inductive, [Next]_vars
  PROVE  Solved'
<1> USE DEF Inductive
<1>1. CASE EndRound
  <2> SUFFICES ASSUME pc' = "done"
               PROVE  IsSolution(pt, external, escaped)'
    BY DEF Solved
  <2>1. ~ modified
    BY <1>1, Zenon DEF EndRound
  <2>2. pc = "propagate" /\ escapers = {} /\ UNCHANGED << state, facts, constraints >>
    BY <1>1 DEF EndRound
  <2>3. Unmodified
    BY <2>1
  <2>4. \A o \in Imports : IsEscaped(o, external, escaped)
    BY DEF FlagsConsistent
  <2>5. IsSolution(pt, external, escaped)
    BY <2>2, <2>3, <2>4 DEF Unmodified, Settled, IsSolution
  <2> QED BY <2>2, <2>5 DEF IsSolution, state
<1>2. CASE UNCHANGED vars
  BY <1>2 DEF vars, Solved, IsSolution
<1>3. CASE Client
  BY <1>3 DEF Client, AddFact, AddConstraint, Solve, Solved
<1>4. CASE ApplySuperset \/ ApplyHandleEscaping \/ ApplyIterating \/ LeaveLoop \/ RunOp
  BY <1>4 DEF ApplySuperset, ApplyHandleEscaping, ApplyIterating, LeaveLoop, RunOp, Solved
<1>5. CASE (\E x \in Objects : Visit(x)) \/ \E q \in Objects : Propagate(q)
  BY <1>5 DEF Visit, Propagate, Solved
<1>6. CASE NextConstraint \/ StartPropagate
  BY <1>6 DEF NextConstraint, StartPropagate, Solved
<1> QED BY <1>1, <1>2, <1>3, <1>4, <1>5, <1>6 DEF Next, SolveStep

LEMMA InitInductive == Init => Inductive
<1> SUFFICES ASSUME Init
             PROVE  Inductive
  OBVIOUS
<1>1. Settled /\ NothingPending /\ Unmodified /\ Solved
  BY DEF Init, Settled, NothingPending, Unmodified, Solved
<1> QED BY <1>1, InitType, InitFlags DEF Inductive

LEMMA NextInductive == Inductive /\ [Next]_vars => Inductive'
<1> SUFFICES ASSUME Inductive, [Next]_vars
             PROVE  Inductive'
  OBVIOUS
<1>1. TypeOK'
  BY NextType DEF Inductive
<1>2. FlagsConsistent' /\ Imports \subseteq escaped'
  BY NextFlags DEF Inductive
<1>3. NothingPending'
  BY NextNothingPending DEF Inductive
<1>4. Settled'
  BY NextSettled DEF Inductive
<1>5. ~ modified' => Unmodified'
  BY NextUnmodified
<1>6. Solved'
  BY NextSolved
<1> QED BY <1>1, <1>2, <1>3, <1>4, <1>5, <1>6 DEF Inductive

\* Soundness of Solve(): whenever it returns, every fact and every constraint
\* that was added holds, whatever their order, however often Solve() is called,
\* and whatever a loop did after its iterator was invalidated.
THEOREM SolveIsSound == Spec => []Solved
<1>1. Inductive => Solved
  BY DEF Inductive
<1> QED BY <1>1, InitInductive, NextInductive, PTL DEF Spec

-----------------------------------------------------------------------------
(* The solution is the least one. *)

\* Every solution contains the state and satisfies what is still to run.
LeastSoFar(p, x, e) ==
  IsSolution(p, x, e) => Below(p, x, e) /\ AllHold(ops, p, x, e)

LeastInductive ==
  /\ TypeOK
  /\ pc = "iterate" => todo \subseteq pt[Iterated(current)]
  /\ escapers \subseteq escaped
  /\ \A p \in [Objects -> SUBSET CanBePointee], x \in SUBSET Objects, e \in SUBSET Objects :
       LeastSoFar(p, x, e)

LEMMA NextTodo ==
  ASSUME TypeOK, pc = "iterate" => todo \subseteq pt[Iterated(current)], [Next]_vars
  PROVE  pc' = "iterate" => todo' \subseteq (pt[Iterated(current)])'
<1> SUFFICES ASSUME pc' = "iterate"
             PROVE  todo' \subseteq (pt[Iterated(current)])'
  OBVIOUS
<1>1. CASE Client
  BY <1>1 DEF Client, AddFact, AddConstraint, Solve
<1>2. CASE ApplyIterating
  BY <1>2 DEF ApplyIterating, current, state
<1>3. ASSUME NEW x \in Objects, Visit(x)
      PROVE  todo' \subseteq (pt[Iterated(current)])'
  BY <1>3 DEF Visit, current, state
<1>4. CASE RunOp
  <2>1. pc = "iterate" /\ current' = current
    BY <1>4 DEF RunOp, current
  <2>2. (pt[Iterated(current)])' = pt'[Iterated(current)]
    BY <2>1
  <2> QED BY <1>4, <2>1, <2>2 DEF RunOp
<1>5. CASE \/ ApplySuperset \/ ApplyHandleEscaping \/ LeaveLoop \/ NextConstraint
           \/ StartPropagate \/ EndRound \/ \E q \in Objects : Propagate(q)
  BY <1>5 DEF ApplySuperset, ApplyHandleEscaping, LeaveLoop, NextConstraint, StartPropagate,
              EndRound, Propagate
<1>6. CASE UNCHANGED vars
  BY <1>6 DEF vars, current
<1> QED BY <1>1, <1>2, <1>3, <1>4, <1>5, <1>6 DEF Next, SolveStep

LEMMA NextEscapers ==
  ASSUME TypeOK, escapers \subseteq escaped, [Next]_vars
  PROVE  escapers' \subseteq escaped'
<1>1. escaped \subseteq escaped'
  BY StepGrows
<1>2. ASSUME NEW q \in Objects, Propagate(q)
      PROVE  escapers' \subseteq escaped'
  <2>1. escaped' = escaped \cup pt[q]
    BY <1>2 DEF Propagate, Execute, MarkedEscaped, MarkAllPointeesAsEscaped, Op
  <2>2. escapers' \subseteq escapers \cup pt[q]
    BY <1>2 DEF Propagate, NewlyMarked
  <2> QED BY <2>1, <2>2
<1>3. CASE StartPropagate
  BY <1>3, <1>1 DEF StartPropagate
<1>4. CASE \/ \E f \in Facts : AddFact(f)
           \/ \E c \in Constraints : AddConstraint(c)
           \/ \E x \in Objects : Visit(x)
  BY <1>1, <1>4 DEF AddFact, AddConstraint, Visit
<1>5. CASE Solve \/ ApplySuperset \/ ApplyHandleEscaping \/ ApplyIterating \/ LeaveLoop
  BY <1>1, <1>5 DEF Solve, ApplySuperset, ApplyHandleEscaping, ApplyIterating, LeaveLoop
<1>6. CASE RunOp \/ NextConstraint \/ EndRound \/ UNCHANGED vars
  BY <1>1, <1>6 DEF RunOp, NextConstraint, EndRound, vars
<1> QED BY <1>2, <1>3, <1>4, <1>5, <1>6 DEF Next, Client, SolveStep

LEMMA NextLeast ==
  ASSUME LeastInductive, [Next]_vars,
         NEW p \in [Objects -> SUBSET CanBePointee],
         NEW x \in SUBSET Objects, NEW e \in SUBSET Objects,
         IsSolution(p, x, e)'
  PROVE  Below(p, x, e)' /\ AllHold(ops', p, x, e)
<1> USE DEF LeastInductive
<1>s. StateType
  BY DEF TypeOK, StateType
<1>c. idx \in 1 .. Len(constraints) => current \in Constraints
  BY DEF current, TypeOK
<1>f. ASSUME facts \subseteq facts', Len(constraints) <= Len(constraints'),
             \A i \in 1 .. Len(constraints) : constraints'[i] = constraints[i]
      PROVE  IsSolution(p, x, e)
  <2>1. \A i \in 1 .. Len(constraints) : i \in 1 .. Len(constraints')
    BY <1>f DEF TypeOK
  <2> QED BY <1>f, <2>1 DEF IsSolution
<1>u. ASSUME UNCHANGED << facts, constraints >>
      PROVE  IsSolution(p, x, e)
  BY <1>u DEF IsSolution
<1>b. ASSUME IsSolution(p, x, e)
      PROVE  Below(p, x, e) /\ AllHold(ops, p, x, e)
  BY <1>b DEF LeastSoFar
<1>e. ASSUME NEW o \in Ops, Execute(o), Holds(o, p, x, e), Below(p, x, e)
      PROVE  Below(p, x, e)'
  <2>1. /\ \A z \in Objects : pt'[z] \subseteq p[z]
        /\ external' \subseteq x /\ escaped' \subseteq e
    BY <1>e, <1>s, ExecuteLeast DEF Below
  <2> QED BY <2>1 DEF Below
<1>n. ASSUME state' = state, Below(p, x, e)
      PROVE  Below(p, x, e)'
  BY <1>n DEF state, Below
<1>h. ASSUME IsSolution(p, x, e), idx \in 1 .. Len(constraints)
      PROVE  ConstraintHolds(current, p, x, e)
  BY <1>h DEF IsSolution, current
<1>1. ASSUME NEW f \in Facts, AddFact(f)
      PROVE  Below(p, x, e)' /\ AllHold(ops', p, x, e)
  <2>1. IsSolution(p, x, e)
    BY <1>1, <1>f DEF AddFact, TypeOK
  <2>2. Holds(f, p, x, e)
    BY <1>1 DEF AddFact, IsSolution
  <2>3. ops' = ops /\ Execute(f) /\ f \in Ops
    BY <1>1, FactsAreOps DEF AddFact
  <2> QED BY <1>b, <1>e, <2>1, <2>2, <2>3
<1>2. ASSUME NEW c \in Constraints, AddConstraint(c)
      PROVE  Below(p, x, e)' /\ AllHold(ops', p, x, e)
  <2>1. constraints' = Append(constraints, c) /\ facts' = facts /\ ops' = ops /\ state' = state
    BY <1>2 DEF AddConstraint
  <2>2. IsSolution(p, x, e)
    BY <1>f, <2>1 DEF TypeOK
  <2> QED BY <1>b, <1>n, <2>1, <2>2
<1>3. CASE \/ Solve \/ ApplyIterating \/ NextConstraint \/ StartPropagate \/ EndRound
           \/ UNCHANGED vars
  <2>1. UNCHANGED << facts, constraints, ops, state >>
    BY <1>3 DEF Solve, ApplyIterating, NextConstraint, StartPropagate, EndRound, vars, state
  <2> QED BY <1>b, <1>n, <1>u, <2>1
<1>4. CASE ApplySuperset
  <2>1. /\ UNCHANGED << facts, constraints, state >>
        /\ idx \in 1 .. Len(constraints) /\ current.type = "Superset"
        /\ ops' = << MakePointsToSetSuperset(current.superset, current.subset) >>
    BY <1>4 DEF ApplySuperset, TypeOK
  <2>2. Holds(MakePointsToSetSuperset(current.superset, current.subset), p, x, e)
    BY <1>h, <1>u, <2>1 DEF ConstraintHolds
  <2>3. Len(ops') = 1 /\ ops'[1] = MakePointsToSetSuperset(current.superset, current.subset)
    BY <2>1
  <2>4. AllHold(ops', p, x, e)
    BY <2>2, <2>3 DEF AllHold
  <2> QED BY <1>b, <1>n, <1>u, <2>1, <2>4
<1>5. CASE ApplyHandleEscaping
  <2>1. /\ UNCHANGED << facts, constraints, state >>
        /\ idx \in 1 .. Len(constraints) /\ current.type = "Escape"
        /\ \/ ops' = ops
           \/ current.lambda \in escaped /\ ops' = HandleEscaping(current.lambda)
    BY <1>5 DEF ApplyHandleEscaping, TypeOK
  <2>2. current.lambda \in escaped => AllHold(HandleEscaping(current.lambda), p, x, e)
    BY <1>b, <1>h, <1>u, <2>1 DEF ConstraintHolds, Below
  <2> QED BY <1>b, <1>n, <1>u, <2>1, <2>2
<1>6. ASSUME NEW y \in Objects, Visit(y)
      PROVE  Below(p, x, e)' /\ AllHold(ops', p, x, e)
  <2>1. /\ UNCHANGED << facts, constraints, state >> /\ pc = "iterate"
        /\ idx \in 1 .. Len(constraints) /\ Iterating(current)
        /\ y \in todo /\ ops' = VisitOps(current, y)
    BY <1>6 DEF Visit, TypeOK
  <2>2. Iterated(current) \in Objects
    BY <1>c, <2>1, IteratedType
  <2>3. y \in p[Iterated(current)]
    BY <1>b, <1>u, <2>1, <2>2 DEF Below
  <2>4. AllHold(VisitOps(current, y), p, x, e)
    BY <1>h, <1>u, <2>1, <2>3 DEF ConstraintHolds
  <2> QED BY <1>b, <1>n, <1>u, <2>1, <2>4
<1>7. CASE LeaveLoop
  <2>1. /\ UNCHANGED << facts, constraints, state >>
        /\ idx \in 1 .. Len(constraints) /\ Iterating(current)
        /\ ops' = IF Iterated(current) \in external THEN ExternalOps(current) ELSE << >>
    BY <1>7 DEF LeaveLoop, TypeOK
  <2>2. Iterated(current) \in external => AllHold(ExternalOps(current), p, x, e)
    BY <1>b, <1>h, <1>u, <2>1 DEF ConstraintHolds, Below
  <2>3. AllHold(<< >>, p, x, e)
    BY DEF AllHold
  <2> QED BY <1>b, <1>n, <1>u, <2>1, <2>2, <2>3
<1>8. CASE RunOp
  <2>1. /\ UNCHANGED << facts, constraints >> /\ Execute(Head(ops))
        /\ ops' = Tail(ops) /\ ops # << >> /\ ops \in Seq(Ops)
    BY <1>8 DEF RunOp, TypeOK
  <2>2. Below(p, x, e) /\ AllHold(ops, p, x, e)
    BY <1>b, <1>u, <2>1
  <2>3. Head(ops) = ops[1] /\ Head(ops) \in Ops /\ 1 \in 1 .. Len(ops)
    BY <2>1
  <2>4. Holds(Head(ops), p, x, e)
    BY <2>2, <2>3 DEF AllHold
  <2>5. \A n \in 1 .. Len(Tail(ops)) : n + 1 \in 1 .. Len(ops) /\ Tail(ops)[n] = ops[n + 1]
    BY <2>1
  <2>6. AllHold(Tail(ops), p, x, e)
    BY <2>2, <2>5 DEF AllHold
  <2> QED BY <1>e, <2>1, <2>2, <2>3, <2>4, <2>6
<1>9. ASSUME NEW q \in Objects, Propagate(q)
      PROVE  Below(p, x, e)' /\ AllHold(ops', p, x, e)
  <2>1. /\ UNCHANGED << facts, constraints, ops >> /\ q \in escapers
        /\ Execute(MarkAllPointeesAsEscaped(q))
    BY <1>9 DEF Propagate
  <2>2. IsSolution(p, x, e) /\ Below(p, x, e)
    BY <1>b, <1>u, <2>1
  <2>3. \A y \in p[q] : IsEscaped(y, x, e)
    BY <2>1, <2>2 DEF IsSolution, Below
  <2>4. Holds(MarkAllPointeesAsEscaped(q), p, x, e)
    BY <2>3 DEF Holds, MarkAllPointeesAsEscaped, Op
  <2> QED BY <1>b, <1>e, <2>1, <2>2, <2>4, PropagateOp
<1> QED BY <1>1, <1>2, <1>3, <1>4, <1>5, <1>6, <1>7, <1>8, <1>9 DEF Next, Client, SolveStep

\* Precision of Solve(): the points-to sets and flags are at all times contained
\* in every solution of the facts and constraints added so far; with
\* SolveIsSound, what Solve() returns is the least solution, and hence the same
\* for every order of the constraints and of the iteration over hash sets.
THEOREM SolveIsLeast == Spec => []Least
<1>1. Init => LeastInductive
  <2> SUFFICES ASSUME Init
               PROVE  LeastInductive
    OBVIOUS
  <2>1. TypeOK
    BY InitType
  <2>2. ASSUME NEW p \in [Objects -> SUBSET CanBePointee], NEW x \in SUBSET Objects,
               NEW e \in SUBSET Objects, IsSolution(p, x, e)
        PROVE  Below(p, x, e) /\ AllHold(ops, p, x, e)
    BY <2>2, KindSets DEF Init, IsSolution, IsEscaped, Below, AllHold
  <2> QED BY <2>1, <2>2 DEF Init, LeastInductive, LeastSoFar
<1>2. LeastInductive /\ [Next]_vars => LeastInductive'
  <2> SUFFICES ASSUME LeastInductive, [Next]_vars
               PROVE  LeastInductive'
    OBVIOUS
  <2>1. TypeOK'
    BY NextType DEF LeastInductive
  <2>2. (pc = "iterate" => todo \subseteq pt[Iterated(current)])'
    BY NextTodo DEF LeastInductive
  <2>3. escapers' \subseteq escaped'
    BY NextEscapers DEF LeastInductive
  <2>4. ASSUME NEW p \in [Objects -> SUBSET CanBePointee], NEW x \in SUBSET Objects,
               NEW e \in SUBSET Objects
        PROVE  LeastSoFar(p, x, e)'
    BY NextLeast DEF LeastSoFar
  <2> QED BY <2>1, <2>2, <2>3, <2>4 DEF LeastInductive
<1>3. LeastInductive => Least
  BY DEF LeastInductive, Least, LeastSoFar
<1> QED BY <1>1, <1>2, <1>3, PTL DEF Spec

\* Nothing is ever retracted, and a change inside a round is never forgotten.
THEOREM StateOnlyGrows == Spec => OnlyGrows
<1>1. TypeOK /\ [Next]_vars => [Grows]_vars
  <2> SUFFICES ASSUME TypeOK, Next
               PROVE  Grows
    BY DEF Grows
  <2>1. ASSUME pc \in {"apply", "iterate", "finish", "propagate"}, state' # state, ~ modified'
        PROVE  FALSE
    <3>1. CASE Client
      BY <2>1, <3>1 DEF Client, AddFact, AddConstraint, Solve
    <3>2. CASE EndRound
      BY <2>1, <3>2 DEF EndRound
    <3>3. CASE SolveStep /\ ~ EndRound
      BY <2>1, <3>3, QuietStep
    <3> QED BY <3>1, <3>2, <3>3 DEF Next
  <2> QED BY <2>1, StepGrows DEF Grows
<1> QED BY <1>1, InitType, NextType, PTL DEF Spec, OnlyGrows

=============================================================================

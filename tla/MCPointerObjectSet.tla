------------------------ MODULE MCPointerObjectSet ------------------------
(***************************************************************************)
(* A small instance of PointerObjectSet: a lambda f(a) that returns its    *)
(* register v, a global g, an import i and a register t of the caller.     *)
(***************************************************************************)
EXTENDS PointerObjectSet

MCObjects == {"t", "a", "v", "g", "f", "i"}

MCKind == [t |-> "Register", a |-> "Register", v |-> "Register",
           g |-> "Global", f |-> "Function", i |-> "Import"]

MCLambdaArgs    == [f |-> << "a", NonPointer >>]
MCLambdaResults == [f |-> << "v" >>]

\* What t may point to, and what f is called with; v comes from outside.
MCFacts == { AddToPointsToSet("t", "f"),
             AddToPointsToSet("t", "g"),
             AddToPointsToSet("t", "i"),
             AddToPointsToSet("a", "f"),
             MarkAsPointsToExternal("v") }

\* Calls, loads and stores; `a(t)' inside f inserts into P(a) while it iterates it.
MCConstraints ==
  { [type |-> "Superset", superset |-> "g", subset |-> "t"],
    [type |-> "Store", pointer1 |-> "a", pointer2 |-> "t"],
    [type |-> "Load", loaded |-> "v", pointer |-> "a"],
    [type |-> "Escape", lambda |-> "f"],
    [type |-> "Call", target |-> "t", args |-> << "v", "t" >>, results |-> << "a" >>],
    [type |-> "Call", target |-> "a", args |-> << "t", NonPointer >>, results |-> << NonPointer >>] }

-----------------------------------------------------------------------------
(* The reference: the least solution, computed by a naive Kleene iteration   *)
(* over whole triples.                                                       *)

\* The least triple above <<p, x, e>> for which the operation o holds once.
Forced(o, p, x, e) ==
  CASE o.op = "pointee" /\ o.to \in CanPoint ->
         << [p EXCEPT ![o.to] = @ \cup {o.from}], x, e >>
    [] o.op = "superset" /\ o.to \in CanPoint ->
         << [p EXCEPT ![o.to] = @ \cup p[o.from]],
            IF o.from \in x THEN x \cup {o.to} ELSE x, e >>
    [] o.op = "external" /\ o.to \in CanPoint -> << p, x \cup {o.to}, e >>
    [] o.op = "escaped" ->
         << p, x \cup ({o.to} \cap CanBePointee \cap CanPoint), e \cup {o.to} >>
    [] o.op = "escapePointees" -> << p, x \cup (p[o.to] \cap CanPoint), e \cup p[o.to] >>
    [] OTHER -> << p, x, e >>

SeqOps(s) == {s[n] : n \in 1 .. Len(s)}

\* The operations that some fact, constraint or escaped object demands.
Demanded(p, x, e) ==
  LET C == {constraints[n] : n \in 1 .. Len(constraints)}
      demands(c) ==
        CASE c.type = "Superset" -> {MakePointsToSetSuperset(c.superset, c.subset)}
          [] c.type = "Escape" -> IF c.lambda \in e THEN SeqOps(HandleEscaping(c.lambda)) ELSE {}
          [] OTHER -> UNION {SeqOps(VisitOps(c, y)) : y \in p[Iterated(c)]}
                        \cup (IF Iterated(c) \in x THEN SeqOps(ExternalOps(c)) ELSE {})
  IN facts \cup UNION {demands(c) : c \in C} \cup {MarkAllPointeesAsEscaped(o) : o \in e}

RECURSIVE Kleene(_, _, _)
Kleene(p, x, e) ==
  LET broken == {o \in Demanded(p, x, e) : ~ Holds(o, p, x, e)}
  IN IF broken = {}
       THEN << p, x, e >>
       ELSE LET n == Forced(CHOOSE o \in broken : TRUE, p, x, e)
            IN Kleene(n[1], n[2], n[3])

\* What Solve() returns is exactly the least solution: nothing depends on the
\* order in which facts and constraints were added, on the order of iteration
\* over the hash sets, or on what a loop did with an invalidated iterator
\* ("constraints can be added in any order, with the same result",
\* PointerObjectSet.hpp).
ExactlyLeast ==
  pc = "done" => state = Kleene([o \in Objects |-> {}], Imports, Imports)
=============================================================================

------------------------ MODULE MCDeadNodeElimination ------------------------
(***************************************************************************)
(* A graph with every kind of node: a global variable d, and a phi of two  *)
(* functions f and g that may call each other or themselves.  The function *)
(* f has a loop t of two loop variables, followed by a gamma h of two      *)
(* alternatives with two entry and two exit variables.                     *)
(***************************************************************************)
EXTENDS DeadNodeElimination

Map(pairs) == FoldSeq(LAMBDA p, f : (p[1] :> p[2]) @@ f, << >>, pairs)

MCKind == Map(<<
  << "d", "delta" >>, << "v", "simple" >>, << "ph", "phi" >>, << "f", "lambda" >>,
  << "g", "lambda" >>, << "s", "simple" >>, << "t", "theta" >>, << "p", "simple" >>,
  << "b", "simple" >>, << "h", "gamma" >>, << "n0", "simple" >>, << "n1", "simple" >> >>)
MCRegionOf == Map(<<
  << "d", "Root" >>, << "v", "D" >>, << "ph", "Root" >>, << "f", "P" >>, << "g", "P" >>,
  << "s", "F" >>, << "t", "F" >>, << "p", "T" >>, << "b", "T" >>, << "h", "F" >>,
  << "n0", "H0" >>, << "n1", "H1" >> >>)
MCSubregions == [n \in DOMAIN MCKind |->
  CASE n = "d" -> << "D" >> [] n = "ph" -> << "P" >> [] n = "f" -> << "F" >>
    [] n = "g" -> << "G" >> [] n = "t" -> << "T" >> [] n = "h" -> << "H0", "H1" >>
    [] OTHER -> << >>]

MCInputs == Map(<<
  << "d", << "d.i" >> >>, << "v", << "v.i" >> >>, << "ph", << "ph.i" >> >>,
  << "f", << "f.i1", "f.i2" >> >>, << "g", << "g.i1", "g.i2" >> >>, << "s", << "s.i" >> >>,
  << "t", << "t.i1", "t.i2" >> >>, << "p", << "p.i" >> >>, << "b", << "b.i" >> >>,
  << "h", << "h.p", "h.i1", "h.i2" >> >>, << "n0", << "n0.i" >> >>, << "n1", << "n1.i" >> >> >>)
MCOutputs == Map(<<
  << "d", << "d.o" >> >>, << "v", << "v.o" >> >>, << "ph", << "o1", "o2" >> >>,
  << "f", << "f.o" >> >>, << "g", << "g.o" >> >>, << "s", << "s.o1", "s.o2" >> >>,
  << "t", << "t.o1", "t.o2" >> >>, << "p", << "p.o" >> >>, << "b", << "b.o" >> >>,
  << "h", << "h.o1", "h.o2" >> >>, << "n0", << "n0.o" >> >>, << "n1", << "n1.o" >> >> >>)
\* The recursion variables of the phi were added first, as the frontend does.
MCArguments == Map(<<
  << "Root", << "m1", "m2" >> >>, << "D", << "dc" >> >>, << "P", << "ra1", "ra2", "cd" >> >>,
  << "F", << "a1", "a2", "fc1", "fc2" >> >>, << "G", << "ga", "gc1", "gc2" >> >>,
  << "T", << "x1", "x2" >> >>, << "H0", << "y1", "y2" >> >>, << "H1", << "z1", "z2" >> >> >>)
\* Its context variable was added first, as phi::node::copy does.
MCArgumentsCopied == [MCArguments EXCEPT !["P"] = << "cd", "ra1", "ra2" >>]
MCResults == Map(<<
  << "Root", << "e1", "e2" >> >>, << "D", << "D.r" >> >>, << "P", << "P.r1", "P.r2" >> >>,
  << "F", << "F.r" >> >>, << "G", << "G.r" >> >>, << "T", << "T.p", "T.r1", "T.r2" >> >>,
  << "H0", << "H0.r1", "H0.r2" >> >>, << "H1", << "H1.r1", "H1.r2" >> >> >>)

MCInputOf == [a \in UNION {ToSet(MCArguments[r]) : r \in DOMAIN MCArguments} |->
  CASE a = "dc" -> "d.i" [] a = "cd" -> "ph.i"
    [] a = "fc1" -> "f.i1" [] a = "fc2" -> "f.i2" [] a = "gc1" -> "g.i1" [] a = "gc2" -> "g.i2"
    [] a = "x1" -> "t.i1" [] a = "x2" -> "t.i2"
    [] a \in {"y1", "z1"} -> "h.i1" [] a \in {"y2", "z2"} -> "h.i2" [] OTHER -> None]
MCOutputOf == [u \in UNION {ToSet(MCResults[r]) : r \in DOMAIN MCResults} |->
  CASE u = "P.r1" -> "o1" [] u = "P.r2" -> "o2" [] u = "T.r1" -> "t.o1" [] u = "T.r2" -> "t.o2"
    [] u \in {"H0.r1", "H1.r1"} -> "h.o1" [] u \in {"H0.r2", "H1.r2"} -> "h.o2"
    [] OTHER -> None]
\* None for the inputs that are not those of a loop.
MCLoopOutput == [i \in UNION {ToSet(MCInputs[n]) : n \in DOMAIN MCInputs} |->
  CASE i = "t.i1" -> "t.o1" [] i = "t.i2" -> "t.o2" [] OTHER -> None]
MCRecArgument == ("o1" :> "ra1") @@ ("o2" :> "ra2")

------------------------------------------------------------------------------
(* The wirings vary the origins of one part of the graph at a time. *)

Usual == Map(<<
  << "e1", "o1" >>, << "e2", "o2" >>, << "d.i", "m1" >>, << "v.i", "dc" >>, << "D.r", "v.o" >>,
  << "ph.i", "d.o" >>, << "f.i1", "ra2" >>, << "f.i2", "cd" >>,
  << "g.i1", "ra1" >>, << "g.i2", "cd" >>, << "P.r1", "f.o" >>, << "P.r2", "g.o" >>,
  << "s.i", "fc1" >>, << "t.i1", "a1" >>, << "t.i2", "s.o2" >>, << "p.i", "x1" >>,
  << "b.i", "x2" >>, << "T.p", "p.o" >>, << "T.r1", "x1" >>, << "T.r2", "b.o" >>,
  << "h.p", "a2" >>, << "h.i1", "t.o1" >>, << "h.i2", "t.o2" >>, << "n0.i", "y1" >>,
  << "n1.i", "z2" >>, << "H0.r1", "n0.o" >>, << "H0.r2", "y2" >>, << "H1.r1", "z1" >>,
  << "H1.r2", "n1.o" >>, << "F.r", "h.o1" >>, << "G.r", "gc1" >> >>)

\* The functions that give use u one of the origins choice[u], or the usual one.
WiringsFrom(choice) ==
  FoldSet(LAMBDA u, fs : {[f EXCEPT ![u] = s] : f \in fs, s \in choice[u]},
          {Usual}, DOMAIN choice)

\* A loop variable may be invariant, dead, or needed by the other one only.
LoopWirings == WiringsFrom(Map(<<
  << "t.i1", {"a1", "s.o1"} >>, << "t.i2", {"fc2", "s.o2"} >>, << "p.i", {"x1", "x2"} >>,
  << "b.i", {"x1", "x2"} >>, << "T.r1", {"x1", "x2", "b.o"} >>,
  << "T.r2", {"x1", "x2", "b.o"} >>, << "h.i1", {"t.o1", "t.o2"} >> >>))

\* A variable may be needed in one alternative only, or in none.
GammaWirings == WiringsFrom(Map(<<
  << "h.p", {"a2", "s.o1"} >>, << "n0.i", {"y1", "y2"} >>,
  << "n1.i", {"z1", "z2"} >>, << "H0.r1", {"y1", "y2", "n0.o"} >>,
  << "H0.r2", {"y2", "n0.o"} >>, << "H1.r1", {"z1", "n1.o"} >>, << "F.r", {"h.o1", "h.o2"} >> >>))

\* Each function may be exported, called from the other one, from itself, or be
\* dead, and with it what it needs.
PhiWirings == WiringsFrom(Map(<<
  << "D.r", {"v.o", "dc"} >>,
  << "e1", {"o1", "o2"} >>, << "f.i1", {"ra1", "ra2", "cd"} >>,
  << "g.i1", {"ra1", "ra2"} >>, << "P.r1", {"f.o", "g.o"} >>,
  << "P.r2", {"f.o", "g.o"} >>, << "F.r", {"a1", "fc1", "fc2"} >>,
  << "G.r", {"ga", "gc1"} >> >>))

MCWirings == LoopWirings \cup GammaWirings \cup PhiWirings
=============================================================================

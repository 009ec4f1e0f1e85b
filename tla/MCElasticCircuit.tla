-------------------------- MODULE MCElasticCircuit --------------------------
(***************************************************************************)
(* Two circuits, as the conversion of RVSDG to RHLS builds them.           *)
(***************************************************************************)
EXTENDS ElasticCircuit

MCCompute(op, args) ==
  CASE op = "decrement" -> args[1] - 1
    [] op = "accumulate" -> 2 * args[1] + args[2]
    [] op = "nonzero" -> IF args[1] = 0 THEN 0 ELSE 1
    [] op = "add"   -> args[1] + 3
    [] op = "sub"   -> args[1] - 3
    [] op = "large" -> IF args[1] > 2 THEN 1 ELSE 0

(***************************************************************************)
(* A theta node followed by a gamma node that holds a theta node:          *)
(*                                                                         *)
(*   do { acc = 2 * acc + n; n = n - 1; } while (n != 0);                  *)
(*   x = acc;                                                              *)
(*   if (p) do { x = x - 3; } while (x > 2); else x = x + 3;               *)
(*   return x                                                              *)
(*                                                                         *)
(* Loops are as ThetaConversion.cpp, loop_node::create and                 *)
(* loop_node::add_loopvar build them.  As it holds a loop, the gamma is    *)
(* converted without speculation (GammaConversion.cpp): a branch for its   *)
(* entry variable, a mux for each exit variable.  Its result is used twice *)
(* (add-forks.cpp).  The second exit variable, the value of x before, and  *)
(* n are not used and go to sinks (add-sinks.cpp).                         *)
(***************************************************************************)
GammaFirstLoop ==
  << Node("buffer", << "nMux" >>, << "nBuf" >>, 2),
     Node("buffer", << "accMux" >>, << "accBuf" >>, 2),
     Node("fork", << "nBuf" >>, << "n1", "n2" >>, 0),
     Node("simple", << "n1" >>, << "nDec" >>, "decrement"),
     Node("simple", << "accBuf", "n2" >>, << "accNext" >>, "accumulate"),
     Node("fork", << "nDec" >>, << "nNext", "nTest" >>, 0),
     Node("simple", << "nTest" >>, << "nPred" >>, "nonzero"),
     Node("fork", << "nPred" >>, << "nPredBack", "predN", "predAcc" >>, 0),
     Node("predbuf", << "nPredBack" >>, << "nFirst" >>, 0),
     Node("fork", << "nFirst" >>, << "firstN", "firstAcc" >>, 0),
     Node("branch", << "predN", "nNext" >>, << "nOut", "nLoop" >>, 0),
     Node("branch", << "predAcc", "accNext" >>, << "x", "accLoop" >>, 0),
     Node("mux", << "firstN", "n", "nLoop" >>, << "nMux" >>, 0),
     Node("mux", << "firstAcc", "acc", "accLoop" >>, << "accMux" >>, 0),
     Node("sink", << "nOut" >>, << >>, 0) >>

GammaBranches ==
  << Node("fork", << "p" >>, << "pBranch", "pMux", "pUnused" >>, 0),
     Node("branch", << "pBranch", "x" >>, << "x0", "x1" >>, 0),
     \* alternative 0
     Node("fork", << "x0" >>, << "x0Add", "x0Unused" >>, 0),
     Node("simple", << "x0Add" >>, << "y0" >>, "add"),
     \* alternative 1; its argument is also what the unused exit variable gets
     Node("fork", << "x1" >>, << "x1Loop", "x1Unused" >>, 0),
     Node("buffer", << "lMux" >>, << "lBuf" >>, 2),
     Node("simple", << "lBuf" >>, << "lSub" >>, "sub"),
     Node("fork", << "lSub" >>, << "lNext", "lTest" >>, 0),
     Node("simple", << "lTest" >>, << "pred" >>, "large"),
     Node("fork", << "pred" >>, << "predBack", "predLoop" >>, 0),
     Node("predbuf", << "predBack" >>, << "first" >>, 0),
     Node("branch", << "predLoop", "lNext" >>, << "y1", "lAgain" >>, 0),
     Node("mux", << "first", "x1Loop", "lAgain" >>, << "lMux" >>, 0),
     \* the exit variables
     Node("mux", << "pMux", "y0", "y1" >>, << "y" >>, 0),
     Node("fork", << "y" >>, << "yFirst", "ySecond" >>, 0),
     Node("mux", << "pUnused", "x0Unused", "x1Unused" >>, << "unused" >>, 0),
     Node("sink", << "unused" >>, << >>, 0) >>

GammaNetlist == GammaFirstLoop \o GammaBranches

GammaSources == {"n", "acc", "p"}
GammaSinks   == {"yFirst", "ySecond"}

GammaTokens ==
  [n |-> << 2, 1, 3, 1 >>, acc |-> << 1, 3, 0, 1 >>, p |-> << 1, 0, 1, 0 >>]

\* The loops and the gamma, run by the program.
RECURSIVE Accumulated(_, _), Reduced(_)
Accumulated(n, acc) == IF n = 1 THEN 2 * acc + n ELSE Accumulated(n - 1, 2 * acc + n)
Reduced(x) == IF x - 3 > 2 THEN Reduced(x - 3) ELSE x - 3

GammaResults == [i \in Index(GammaTokens.p) |->
                LET x == Accumulated(GammaTokens.n[i], GammaTokens.acc[i])
                IN IF GammaTokens.p[i] = 1 THEN Reduced(x) ELSE x + 3]
GammaExpected == [yFirst |-> GammaResults, ySecond |-> GammaResults]

(***************************************************************************)
(* A speculative gamma whose exit variable is used twice, as add-forks.cpp *)
(* connects it:                                                            *)
(*                                                                         *)
(*   z = p ? y : x;  return (z, z)                                         *)
(***************************************************************************)
SelectNetlist ==
  << Node("dmux", << "p", "x", "y" >>, << "z" >>, 0),
     Node("fork", << "z" >>, << "z1", "z2" >>, 0) >>

SelectSources == {"p", "x", "y"}
SelectSinks   == {"z1", "z2"}

SelectTokens == [p |-> << 0, 1 >>, x |-> << 1, 2 >>, y |-> << 3, 4 >>]

\* The gamma, run by the program.
Selected == [i \in 1 .. 2 |-> IF SelectTokens.p[i] = 1 THEN SelectTokens.y[i] ELSE SelectTokens.x[i]]
SelectExpected == [z1 |-> Selected, z2 |-> Selected]

\* Every use of the exit variable gets one token per execution of the gamma, the
\* execution being over when the predicate is taken: the "1:1 input output
\* relationship" that add_forks is to "enforce" (rvsdg2rhls.cpp).
OneToOne == \A s \in Sinks : Len(received[s]) <= taken["p"] + 1
=============================================================================

---------------------------- MODULE MCRhlsLambda ----------------------------
(***************************************************************************)
(* The lambda                                                              *)
(*                                                                         *)
(*   f(p, q, x) { a = *p; *p = a + x; b = *q;                              *)
(*                if (a != 0) { y = x + b; z = b; } else { y = a; z = a; } *)
(*                print(z); return y }                                     *)
(*                                                                         *)
(* as rhls, on a memory of two words of two bits.  Its memory operations   *)
(* are ordered by the memory state s, and y is returned on the trigger of  *)
(* the print node.  The gamma is speculative, with a discarding mux for    *)
(* each exit variable, which may fall behind each other: it may return a   *)
(* before b has arrived, which is then discarded after the call has        *)
(* returned, while x still occupies its argument register.                 *)
(***************************************************************************)
EXTENDS RhlsLambda

MCCompute(op, operands) ==
  CASE op = "add" -> (operands[1] + operands[2]) % 4
    [] op = "nonzero" -> IF operands[1] = 0 THEN 0 ELSE 1

MCNetlist ==
  << Node("fork", << "p" >>, << "pLoad", "pStore" >>, 0),
     Node("fork", << "x" >>, << "xA", "xB" >>, 0),
     Node("load", << "pLoad", "s" >>, << "a", "s1" >>, "req1"),
     Node("fork", << "a" >>, << "aX", "aC", "aY", "aZ" >>, 0),
     Node("simple", << "aX", "xA" >>, << "ax" >>, "add"),
     Node("simple", << "aC" >>, << "c" >>, "nonzero"),
     Node("fork", << "c" >>, << "cY", "cZ" >>, 0),
     Node("store", << "pStore", "ax", "s1" >>, << "s2" >>, "req2"),
     Node("load", << "q", "s2" >>, << "b", "s3" >>, "req3"),
     Node("fork", << "b" >>, << "bY", "bZ" >>, 0),
     Node("simple", << "xB", "bY" >>, << "xb" >>, "add"),
     Node("dmux", << "cY", "aY", "xb" >>, << "y" >>, 0),
     Node("dmux", << "cZ", "aZ", "bZ" >>, << "z" >>, 0),
     Node("print", << "z" >>, << "printed" >>, 0),
     Node("trigger", << "printed", "y" >>, << "result" >>, 0) >>

MCSources == {"p", "q", "x", "s"}
MCSinks   == {"result", "s3"}

MCCalls == [p : 0 .. 1, q : 0 .. 1, x : {1, 2}, s : {0}]

MCInitialMemory == [m \in 0 .. 1 |-> m]

MCRun(m, call) ==
  LET a == m[call.p]
      after == [m EXCEPT ![call.p] = (a + call.x) % 4]
  IN [results |-> [result |-> IF a # 0 THEN (call.x + after[call.q]) % 4 ELSE a,
                   s3     |-> 0],
      memory  |-> after]
=============================================================================

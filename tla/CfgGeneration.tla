---------------------------- MODULE CfgGeneration ----------------------------
(***************************************************************************)
(* The conversion of the body of a lambda node back into a control flow    *)
(* graph (src/jlm/llvm/backend/rvsdg2jlm/rvsdg2jlm.cpp): a gamma node      *)
(* becomes a branch, or selects, and a theta node a loop, with a phi for   *)
(* each value that differs between the ways.                               *)
(*                                                                         *)
(* The state of the conversion is the graph so far, the block to which     *)
(* code is added (lpbb), the variable of each output (ports), and the      *)
(* violated assertions.  The variable of a result of an operation has the  *)
(* number of the output.  A select compares as the LLVM instruction does:  *)
(* its second operand is for a condition that is true.                     *)
(***************************************************************************)
EXTENDS ControlFlowGraph

Variable(c, o) == IF o \in DOMAIN c.ports THEN c.ports[o] ELSE -1
Variables(c, os) == <<>> \o [k \in DOMAIN os |-> Variable(c, os[k])]
Insert(c, o, v) == [c EXCEPT !.ports = (o :> v) @@ @]
Demand(c, holds, what) == IF holds THEN c ELSE [c EXCEPT !.failed = @ \cup {what}]

AppendLast(c, t) == SetCode(c.g, c.lpbb, Append(c.g.code[c.lpbb], t))
AppendTac(c, t) == [c EXCEPT !.g = AppendLast(c, t)]
AddOutEdge(c, n, m) == [c EXCEPT !.g.succ[n] = Append(@, m)]

(* A new block behind node n, which code is now added to.                  *)
BlockBehind(c, n) ==
  [AddOutEdge([c EXCEPT !.g = AddNode(c.g, <<>>, <<>>)], n, Fresh(c.g)) EXCEPT !.lpbb = Fresh(c.g)]

Behind(c) == BlockBehind(c, c.lpbb)

convert_simple_node(c, n) ==
  LET d == AppendTac(c, [n EXCEPT !.in = Variables(c, n.in)])
  IN  [d EXCEPT !.ports = [o \in ToSet(n.out) |-> o] @@ @]

(* The outputs that the nodes of a region use, and those its results do.   *)
Uses(n) ==
  CASE n.op = "gamma" -> {n.pred} \cup {e.origin : e \in ToSet(n.entry)}
    [] n.op = "theta" -> {v.init : v \in ToSet(n.vars)}
    [] OTHER -> ToSet(n.in)
Used(theta) ==
  {theta.pred} \cup {v.result : v \in ToSet(theta.vars)} \cup UNION {Uses(n) : n \in ToSet(theta.body)}

(* A loop variable that begins with a global never has a phi.              *)
phi_needed(c, theta, v) ==
  Variable(c, v.init) \notin c.globals /\ v.result # v.arg /\ v.arg \in Used(theta)

Ctl2Bits(o, p) == [op |-> "ctl2bits", in |-> <<p>>, out |-> <<o>>]
Select(o, p, t, f) == [op |-> "select", in |-> <<p, t, f>>, out |-> <<o>>]

(* match is the node that delivers the predicate.  Its input has to be one *)
(* bit wide for a select.                                                  *)
SelectOnMatch(c, o, match, o0, o1) ==
  LET first == IF match.default = 0 THEN o1 ELSE o0
      second == IF match.default = 0 THEN o0 ELSE o1
  IN  Select(o, Variable(c, match.in[1]), first, second)
NarrowMatch(c, match) == Demand(c, ~match.wide, "select_op has a condition of one bit")

IsMatch(nodes, pred) == \E n \in nodes : n.op = "match" /\ n.out = <<pred>>
MatchOf(nodes, pred) == CHOOSE n \in nodes : n.op = "match" /\ n.out = <<pred>>

(* Two empty alternatives: a select for each output that depends on them.  *)
(* siblings are the nodes of the region.                                   *)
ArgumentOrigin(n, arg) == The({e.origin : e \in {e \in ToSet(n.entry) : e.arg = arg}})

convert_empty_gamma_node(c, n, siblings) ==
  LET Step(d, x) ==
        LET o0 == ArgumentOrigin(n, x.origins[1])
            o1 == ArgumentOrigin(n, x.origins[2])
            bits == -2 - x.out
        IN  IF o0 = o1 THEN Insert(d, x.out, Variable(d, o0))
            ELSE IF IsMatch(siblings, n.pred)
            THEN LET m == MatchOf(siblings, n.pred)
                 IN  Insert(AppendTac(NarrowMatch(d, m),
                                      SelectOnMatch(d, x.out, m, Variable(d, o0), Variable(d, o1))),
                            x.out, x.out)
            ELSE Insert(AppendTac(AppendTac(d, Ctl2Bits(bits, Variable(d, n.pred))),
                                  Select(x.out, bits, Variable(d, o0), Variable(d, o1))),
                        x.out, x.out)
  IN  FoldLeft(LAMBDA d, x : IF d.failed = {} THEN Step(d, x) ELSE d, Behind(c), n.exit)

RECURSIVE convert_region(_, _)

(* The alternatives between the blocks entry and exit; an empty one of two *)
(* is an edge.  The result is the conversion and the block each alternative*)
(* comes from.                                                             *)
AlternativeDone(c, from, exit) == [c |-> AddOutEdge(c, c.lpbb, exit), from |-> Append(from, c.lpbb)]

Alternatives(c, n, entry, exit) ==
  LET Step(r, region) ==
        IF r.c.failed # {} THEN r
        ELSE IF region = <<>> /\ Len(n.subregions) = 2
        THEN AlternativeDone([r.c EXCEPT !.lpbb = entry], r.from, exit)
        ELSE AlternativeDone(convert_region(BlockBehind(r.c, entry), region), r.from, exit)
  IN  FoldLeft(Step, [c |-> c, from |-> <<>>], n.subregions)

(* The variable of an exit variable: the one of all alternatives, a select *)
(* when none computes it and the predicate is a match, otherwise a phi.    *)
ExitVariable(c, n, x, from, entry, exit, siblings) ==
  LET vars == Variables(c, x.origins)
      args == {e.arg : e \in ToSet(n.entry)}
      select == Len(n.subregions) = 2 /\ IsMatch(siblings, n.pred) /\ ToSet(x.origins) \subseteq args
      phi == [op |-> "phi", in |-> vars, nodes |-> from, out |-> <<x.out>>]
  IN  IF ToSet(vars) = {vars[1]} THEN Insert(c, x.out, vars[1])
      ELSE IF select
      THEN LET m == MatchOf(siblings, n.pred)
               d == NarrowMatch(c, m)
               code == <<SelectOnMatch(c, x.out, m, vars[1], vars[2])>> \o c.g.code[entry]
           IN  Insert([d EXCEPT !.g = SetCode(c.g, entry, code)], x.out, x.out)
      ELSE Insert([c EXCEPT !.g = SetCode(c.g, exit, Append(c.g.code[exit], phi))], x.out, x.out)

BranchOn(c, o) == [op |-> "branch", in |-> <<Variable(c, o)>>, out |-> <<>>]

WithEntryArguments(c, n) ==
  [c EXCEPT !.ports = [a \in {v.arg : v \in ToSet(n.entry)} |-> Variable(c, ArgumentOrigin(n, a))] @@ @]

(* r: the alternatives between entry and exit.                             *)
Joined(r, n, entry, exit, siblings) ==
  LET Step(c, x) == IF c.failed # {} THEN c
                    ELSE ExitVariable(c, n, x, r.from, entry, exit, siblings)
  IN  [FoldLeft(Step, r.c, n.exit) EXCEPT !.lpbb = exit]

convert_gamma_node(c, n, siblings) ==
  LET entry == Fresh(c.g)
      exit == entry + 1
      blocks == AddNode(AddNode(c.g, <<BranchOn(c, n.pred)>>, <<>>), <<>>, <<>>)
      d == AddOutEdge([c EXCEPT !.g = blocks], c.lpbb, entry)
  IN  IF Len(n.subregions) = 2 /\ ToSet(n.subregions) = {<<>>}
      THEN convert_empty_gamma_node(c, n, siblings)
      ELSE Joined(Alternatives(WithEntryArguments(d, n), n, entry, exit), n, entry, exit, siblings)

(* A loop variable has a phi at the head of the loop, unless it is         *)
(* invariant or not used.  (pinned: one of them has none and should.)      *)
Pinned(c, n) ==
  \E v \in ToSet(n.vars) : phi_needed([c EXCEPT !.globals = {}], n, v) # phi_needed(c, n, v)

WithLoopArguments(c, n) ==
  LET Of(a) == The({v \in ToSet(n.vars) : v.arg = a})
      args == [a \in {v.arg : v \in ToSet(n.vars)} |->
                 IF phi_needed(c, n, Of(a)) THEN a ELSE Variable(c, Of(a).init)]
  IN  [c EXCEPT !.ports = args @@ @, !.pinned = @ \/ Pinned(c, n)]

(* The phis of the loop that c comes from, and its repetition; body is the *)
(* conversion behind the body, which begins at the block head.             *)
LoopClosed(c, n, head, body) ==
  LET phis == SelectSeq(n.vars, LAMBDA v : phi_needed(c, n, v))
      Phi(v) == [op |-> "phi", in |-> <<Variable(body, v.init), Variable(body, v.result)>>,
                 nodes |-> <<c.lpbb, body.lpbb>>, out |-> <<v.arg>>]
      outs == [o \in {v.out : v \in ToSet(n.vars)} |->
                 Variable(body, The({v \in ToSet(n.vars) : v.out = o}).result)]
      closed == Behind([AppendTac(body, BranchOn(body, n.pred)) EXCEPT !.ports = outs @@ @])
  IN  [AddOutEdge(closed, body.lpbb, head)
         EXCEPT !.g = SetCode(@, head, [k \in DOMAIN phis |-> Phi(phis[k])])]

convert_theta_node(c, n) ==
  LoopClosed(c, n, Fresh(c.g), convert_region(WithLoopArguments(Behind(c), n), n.body))

convert_region(c, nodes) ==
  LET siblings == ToSet(nodes)
      Convert(d, n) == CASE n.op = "gamma" -> convert_gamma_node(d, n, siblings)
                         [] n.op = "theta" -> convert_theta_node(d, n)
                         [] OTHER -> convert_simple_node(d, n)
  IN  Behind(FoldLeft(LAMBDA d, n : IF d.failed = {} THEN Convert(d, n) ELSE d, Behind(c), nodes))

(* create_cfg: the graph of a lambda with these arguments, context         *)
(* variables, nodes and results.                                           *)
Returning(c, results) ==
  LET code == <<[op |-> "results", in |-> Variables(c, results), out |-> <<>>]>>
  IN  [AddOutEdge(c, c.lpbb, Exit) EXCEPT !.g = straighten(SetCode(@, Exit, code))]
Closed(c) == Demand(c, is_closed(c.g), "is_closed(*cfg)")

create_cfg(arguments, context, nodes, results) ==
  LET empty == [succ |-> Entry :> <<>> @@ Exit :> <<>>,
                code |-> Entry :> <<[op |-> "arguments", in |-> <<>>, out |-> arguments]>> @@ Exit :> <<>>]
      c == [g |-> empty, lpbb |-> Entry, failed |-> {},
            ports |-> [o \in ToSet(arguments) \cup context |-> o],
            globals |-> context, pinned |-> FALSE]
  IN  Closed(Returning(convert_region(Behind(c), nodes), results))
=============================================================================

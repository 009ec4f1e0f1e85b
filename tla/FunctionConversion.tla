-------------------------- MODULE FunctionConversion --------------------------
(***************************************************************************)
(* The way of a function from LLVM IR into the RVSDG and back: create_cfg  *)
(* (src/jlm/llvm/frontend/LlvmModuleConversion.cpp) builds its control     *)
(* flow graph; ConvertControlFlowGraph                                     *)
(* (InterProceduralGraphConversion.cpp) takes it out of SSA form           *)
(* (src/jlm/llvm/ir/ssa.cpp), restructures it, aggregates and annotates    *)
(* the tree and converts it into the body of a lambda node; rvsdg2jlm      *)
(* (src/jlm/llvm/backend/rvsdg2jlm/rvsdg2jlm.cpp) makes a control flow     *)
(* graph of it again, in SSA form.                                         *)
(*                                                                         *)
(* The code that comes out is then executed in lock-step with the function *)
(* that went in.  Every block of the function is one operation that reads  *)
(* the variables x and y and the memory state s, and delivers a new value  *)
(* and a condition that chooses the successor.  What the block then does   *)
(* with x and y is its move: one of them becomes the new value, or they    *)
(* are swapped, or kept.  In the LLVM IR x and y are in SSA form, with a   *)
(* phi wherever control flow meets; the memory state and the result are    *)
(* variables of the frontend, which it assigns without SSA form.           *)
(***************************************************************************)
EXTENDS ControlFlowRestructuring

CONSTANT Programs   \* the functions: [succ: block -> Seq(block), move: block -> move,
                    \* switches: the blocks that end in a switch,
                    \* lcssa: the blocks with phis for a single predecessor,
                    \* globals: those of x and y that begin as the address of a global]

VARIABLES
  prog,       \* the function
  pc,         \* the stage of the conversion
  given,      \* history: the number of nodes the restructuring was given, when
              \* the graph was already proper structured, otherwise 0
  tree,       \* the aggregation tree, and whether the aggregation succeeded
  lambda,     \* the nodes and the results of the lambda
  block,      \* execution: the block of the emitted code,
  rest,       \* what is left of its three-address code,
  env,        \* and the values of the variables
  misled,     \* history: a known deviation may have changed the values: a select
              \* on a predicate chose, or a variable of a loop begins with a global
  at,         \* execution: the block of the function that is next, 0 behind its end
  store       \* execution: the variables of the function

forms == <<tree, lambda>>
machine == <<block, rest, env, misled, at, store>>
vars == <<restructuringVars, prog, pc, given, forms, machine>>

A == INSTANCE Aggregation
L == INSTANCE LambdaConversion
G == INSTANCE CfgGeneration

(***************************************************************************)
(* The LLVM function.  Block 1 is its entry and has no predecessors; a     *)
(* block without successors returns x.                                     *)
(***************************************************************************)
PredEdges(p, b) == {e \in UNION {{a} \X DOMAIN p.succ[a] : a \in DOMAIN p.succ} : p.succ[e[1]][e[2]] = b}
Other(v) == IF v = "x" THEN "y" ELSE "x"

(* x and y have phis where several edges meet, and may have them where one *)
(* arrives; never in a function that does not change them.                 *)
Unmoved(p) == \A b \in DOMAIN p.succ : p.move[b] = "keep"
NeedsPhis(p, b) ==
  ~Unmoved(p) /\ (Cardinality(PredEdges(p, b)) > 1 \/ (b \in p.lcssa /\ PredEdges(p, b) # {}))

RECURSIVE Incoming(_, _, _)
(* The SSA name of x or y behind and in front of a block.                  *)
Outgoing(p, v, b) ==
  CASE p.move[b] = v -> <<"w", b>>
    [] p.move[b] = "swap" -> Incoming(p, Other(v), b)
    [] OTHER -> Incoming(p, v, b)
Incoming(p, v, b) ==
  LET E == PredEdges(p, b)
  IN  CASE NeedsPhis(p, b) -> <<v, b>>
        [] E = {} \/ Unmoved(p) -> <<v, 0>>
        [] OTHER -> Outgoing(p, v, The(E)[1])

Memory == <<"s", 0>>
Inputs == <<<<"x", 0>>, <<"y", 0>>, Memory>>
Result == <<"r", 0>>
Condition(b) == <<"k", b>>
Chosen(b) == <<"c", b>>

(* convert_branch_instruction puts the false successor of a conditional    *)
(* branch first; convert_switch_instruction keeps the order, with the      *)
(* default at the end.  A match turns the condition into the number of the *)
(* outgoing edge; here the condition is that number, less one, already.    *)
IsSwitch(p, b) == b \in p.switches \/ Len(p.succ[b]) > 2
JlmSuccessors(p, b) ==
  IF p.succ[b] = <<>> THEN <<Exit>>
  ELSE IF Len(p.succ[b]) = 2 /\ ~IsSwitch(p, b) THEN Reverse(p.succ[b]) ELSE p.succ[b]

Match(p, b) ==
  [op |-> "match", in |-> <<Condition(b)>>, out |-> <<Chosen(b)>>, wide |-> IsSwitch(p, b),
   default |-> IF IsSwitch(p, b) THEN Len(p.succ[b]) - 1 ELSE 0]

Phis(p, b) ==
  LET E == PredEdges(p, b)
      edges == Ascending({e[1] * 10 + e[2] : e \in E})
      preds == [k \in DOMAIN edges |-> edges[k] \div 10]
      Phi(v) == [op |-> "phi", in |-> [k \in DOMAIN preds |-> Outgoing(p, v, preds[k])],
                 nodes |-> preds, out |-> <<<<v, b>>>>]
  IN  IF NeedsPhis(p, b) THEN <<Phi("y"), Phi("x")>> ELSE <<>>

BlockCode(p, b) ==
  LET branches == Len(p.succ[b]) > 1
      operation == [op |-> "op", block |-> b,
                    in |-> <<Incoming(p, "x", b), Incoming(p, "y", b), Memory>>,
                    out |-> IF branches THEN <<<<"w", b>>, Condition(b)>> ELSE <<<<"w", b>>>>]
  IN  Phis(p, b) \o <<operation, Assignment(Memory, <<"w", b>>)>>
        \o (IF branches THEN <<Match(p, b), Branch(Chosen(b))>> ELSE <<>>)
        \o (IF p.succ[b] = <<>> THEN <<Assignment(Result, Outgoing(p, "x", b))>> ELSE <<>>)

(***************************************************************************)
(* create_cfg                                                              *)
(***************************************************************************)
ConvertedBlocks(p) ==
  LET entryBlock == Cardinality(DOMAIN p.succ) + 1
      ends == Entry :> <<entryBlock>> @@ entryBlock :> <<1>> @@ Exit :> <<>>
      arguments == [op |-> "arguments", in |-> <<>>,
                    out |-> SelectSeq(Inputs, LAMBDA v : v[1] \notin p.globals),
                    globals |-> SelectSeq(Inputs, LAMBDA v : v[1] \in p.globals)]
      results == [op |-> "results", in |-> <<Result, Memory>>, out |-> <<>>]
  IN  [succ |-> [b \in DOMAIN p.succ |-> JlmSuccessors(p, b)] @@ ends,
       code |-> [b \in DOMAIN p.succ |-> BlockCode(p, b)]
                  @@ Entry :> <<arguments>> @@ entryBlock :> <<Undef(Result)>> @@ Exit :> <<results>>]

(* The repetition edges of the first component without an exit, when no    *)
(* edge leads to the exit node.                                            *)
EndlessEdges(h) ==
  LET sccs == find_sccs(h, Entry, Exit)
      endless == SelectSeq(sccs, LAMBDA S : sccstructure(h, S).xedges = {})
  IN  IF NumIn(h, Exit) = 0 /\ endless # <<>> THEN sccstructure(h, endless[1]).redges ELSE {}

(* An endless loop gets a block that could leave it, but never does.       *)
LoopOpened(h, e) ==
  LET never == <<"l", Fresh(h)>>
  IN  AddNode(Divert(h, {e}, Fresh(h)), <<Constant(never, 1), Branch(never)>>, <<Exit, Sink(h, e)>>)

(* Several edges to the exit node meet in a block of their own.            *)
SingleInEdge(h) ==
  IF NumIn(h, Exit) = 1 THEN h
  ELSE AddNode(DivertInEdges(h, Exit, Fresh(h)), <<>>, <<Exit>>)

create_cfg ==
  LET h == ConvertedBlocks(prog)
  IN  /\ pc = "create" /\ failed = {}
      /\ \E edges \in {EndlessEdges(h)} :
         \E opened \in IF edges = {} THEN {h} ELSE {LoopOpened(h, e) : e \in edges} :
           \E s \in {straighten(SingleInEdge(opened))} :
             /\ failed' = Unless(is_valid(s), "is_valid(cfg)")
             /\ g' = IF failed' = {} THEN prune(s) ELSE s
      /\ pc' = "destruct"
      /\ UNCHANGED <<work, loops, inverted, prog, given, forms, machine>>

(***************************************************************************)
(* destruct_ssa: each operand of a phi is assigned to a new variable on    *)
(* the edge it comes from; a block in front of the block of the phi        *)
(* assigns these variables to the results.                                 *)
(***************************************************************************)
PhisOf(tacs) == SelectSeq(tacs, LAMBDA t : t.op = "phi")
\* Mutant: the operands are assigned to the results at once.
NewNone(v) == v

New(v) == <<IF v[1] = "x" THEN "vx" ELSE "vy", v[2]>>

(* One block for each operand, on the edge from the operand's block, and   *)
(* one for the results; they begin undefined in the first block.           *)
PhisEliminated(h, b) ==
  LET phis == PhisOf(h.code[b])
      first == h.succ[Entry][1]
      Edge(n) == CHOOSE e \in InEdges(h, b) : e[1] = n
      RECURSIVE Operands(_, _, _)
      Operands(i, phi, k) ==
        IF k = 0 THEN i
        ELSE Split(Operands(i, phi, k - 1), Edge(phi.nodes[k]), <<Assignment(New(phi.out[1]), phi.in[k])>>)
      RECURSIVE AllOperands(_)
      AllOperands(j) == IF j = 0 THEN h ELSE Operands(AllOperands(j - 1), phis[j], Len(phis[j].in))
      i == AllOperands(Len(phis))
      assign == [j \in DOMAIN phis |-> Assignment(phis[j].out[1], New(phis[j].out[1]))]
      undef == [j \in DOMAIN phis |-> Undef(phis[j].out[1])]
      cleared == SetCode(SetCode(i, b, SelectSeq(i.code[b], LAMBDA t : t.op # "phi")),
                         first, Reverse(undef) \o i.code[first])
  IN  AddNode(DivertInEdges(cleared, b, Fresh(i)), assign, <<b>>)

SourcesDiffer(h, b) == \A d, e \in InEdges(h, b) : d[1] = e[1] => d = e
SourcesFound(h, b) ==
  \A phi \in ToSet(PhisOf(h.code[b])) : ToSet(phi.nodes) \subseteq {e[1] : e \in InEdges(h, b)}

RECURSIVE destruct_ssa(_, _)
destruct_ssa(r, phiBlocks) ==
  LET b == Min(phiBlocks)
      failures == Unless(SourcesDiffer(r.g, b), "edges.find(inedge->source()) == edges.end()")
                    \cup Unless(SourcesFound(r.g, b), "edges.find(phi->node(n)) != edges.end()")
  IN  IF phiBlocks = {} THEN r
      ELSE IF failures # {} THEN [r EXCEPT !.failed = failures]
      ELSE destruct_ssa([r EXCEPT !.g = PhisEliminated(r.g, b)], phiBlocks \ {b})

(***************************************************************************)
(* ConvertControlFlowGraph: out of SSA form and into the restructuring,    *)
(* ...                                                                     *)
(***************************************************************************)
BeginRestructuring ==
  LET r == destruct_ssa([g |-> g, failed |-> {}],
                        {b \in Blocks(g) : g.code[b] # <<>> /\ Head(g.code[b]).op = "phi"})
  IN  /\ pc = "destruct" /\ failed = {}
      /\ g' = purge(straighten(r.g))
      /\ failed' = r.failed \cup Unless(is_closed(g'), "is_closed(*cfg)")
      /\ work' = restructure(Entry, Exit)
      /\ given' = IF is_proper_structured(g') /\ ProperStructured(g') THEN Cardinality(Nodes(g')) ELSE 0
      /\ pc' = "restructure"
      /\ UNCHANGED <<loops, inverted, prog, forms, machine>>

Restructuring ==
  /\ pc = "restructure"
  /\ RestructuringStep
  /\ UNCHANGED <<prog, pc, given, forms, machine>>

(* ... then it becomes a tree ...                                          *)
EmptyGraph == [succ |-> <<>>, code |-> <<>>]
RestructuringDone == pc = "restructure" /\ failed = {} /\ work = <<>> /\ loops = <<>>

Aggregating ==
  /\ RestructuringDone
  /\ tree' = A!aggregate(straighten(g))
  /\ failed' = Unless(is_proper_structured(g), "is_proper_structured(*cfg)")
                 \cup Unless(tree'.ok, "JLM_UNREACHABLE in aggregate")
  /\ g' = EmptyGraph
  /\ pc' = "convert"
  /\ UNCHANGED <<work, loops, inverted, prog, given, lambda, machine>>

(* ... and the annotated tree a lambda, whose first outputs are the        *)
(* variables of inputs.                                                    *)
ConvertToLambda ==
  /\ pc = "convert" /\ failed = {}
  /\ \E annotated \in {A!Annotate(A!normalize(tree.root))} : \E c \in {L!ConvertAggregationTree(annotated)} :
       /\ failed' = Unless(c.ok, "contains(v)")
       /\ lambda' = [inputs |-> L!EntryVariables(annotated), nodes |-> c.nodes,
                     results |-> L!Lookups(c, <<Result, Memory>>)]
  /\ tree' = <<>>
  /\ pc' = "generate"
  /\ UNCHANGED <<g, work, loops, inverted, prog, given, machine>>

(* rvsdg2jlm: the lambda becomes a graph again.                            *)
GenerateCode ==
  LET outputs == [k \in DOMAIN lambda.inputs |-> k - 1]
      IsGlobal(o) == lambda.inputs[o + 1][1] \in prog.globals
      Begin(v) == <<"begin", SelectInSeq(Inputs, LAMBDA w : w = v), 0>>
  IN
  /\ pc = "generate" /\ failed = {}
  /\ \E c \in {G!create_cfg(SelectSeq(outputs, LAMBDA o : ~IsGlobal(o)),
                            {o \in ToSet(outputs) : IsGlobal(o)}, lambda.nodes, lambda.results)} :
       g' = c.g /\ failed' = c.failed /\ misled' = c.pinned
  /\ lambda' = <<>>
  /\ pc' = "run"
  /\ block' = Entry /\ rest' = <<>> /\ at' = 1
  /\ env' = [o \in ToSet(outputs) |-> Begin(lambda.inputs[o + 1])]
  /\ store' = [x |-> Begin(<<"x", 0>>), y |-> Begin(<<"y", 0>>), s |-> Begin(Memory), r |-> <<"undef", 0, 0>>]
  /\ UNCHANGED <<work, loops, inverted, prog, given, tree>>

(***************************************************************************)
(* Execution                                                               *)
(***************************************************************************)
Alternative(k) == <<"alt", k, 0>>

(* The value of an instruction that does not belong to the function.       *)
Evaluated(t, e) ==
  CASE t.op = "undef" -> <<"undef", 0, 0>>
    [] t.op = "const" -> Alternative(t.val)
    [] t.op \in {"match", "ctl2bits"} -> e[t.in[1]]
    [] t.op = "select" -> IF e[t.in[1]] = Alternative(0) THEN e[t.in[3]] ELSE e[t.in[2]]

(* Execution up to the operation of a block of the function, or to the end *)
(* of the block.                                                           *)
RECURSIVE UpToOperation(_, _)
UpToOperation(tacs, e) ==
  IF tacs = <<>> \/ Head(tacs).op \in {"op", "branch", "results"} THEN [rest |-> tacs, env |-> e]
  ELSE UpToOperation(Tail(tacs), (Head(tacs).out[1] :> Evaluated(Head(tacs), e)) @@ e)

(* A select on the predicate itself, without a match, was among the code   *)
(* just executed, and its two values differ.                               *)
Misleading(tacs, r) ==
  \E k \in 2 .. Len(tacs) - Len(r.rest) :
    tacs[k - 1].op = "ctl2bits" /\ r.env[tacs[k].in[2]] # r.env[tacs[k].in[3]]

(* All phis of a block take their values at the same time.                 *)
WithPhis(n, from) ==
  LET phis == PhisOf(g.code[n])
      Taken(t) == CHOOSE k \in DOMAIN t.in : t.nodes[k] = from
      Of(v) == The({t \in ToSet(phis) : t.out[1] = v})
  IN  [v \in {t.out[1] : t \in ToSet(phis)} |-> env[Of(v).in[Taken(Of(v))]]] @@ env

Instruction(op) == pc = "run" /\ failed = {} /\ rest # <<>> /\ Head(rest).op = op

(* create_conditional_branch, create_switch: the branch takes the outgoing *)
(* edge of this number.                                                    *)
Jump ==
  LET edge == IF rest = <<>> THEN 1 ELSE env[Head(rest).in[1]][2] + 1
      n == g.succ[block][edge]
      tacs == SelectSeq(g.code[n], LAMBDA t : t.op # "phi")
  IN  /\ pc = "run" /\ failed = {} /\ block # Exit
      /\ rest = <<>> \/ Instruction("branch")
      /\ \E r \in {UpToOperation(tacs, WithPhis(n, block))} :
           rest' = r.rest /\ env' = r.env /\ misled' = (misled \/ Misleading(tacs, r))
      /\ block' = n
      /\ UNCHANGED <<restructuringVars, prog, pc, given, forms, at, store>>

(* The code executes the blocks the function executes, in the same order   *)
(* and on the same values, and returns the same value when the function    *)
(* does ...                                                                *)
Reads(vs) == \A k \in DOMAIN vs : Head(rest).in[k] \in DOMAIN env /\ env[Head(rest).in[k]] = vs[k]
SameValues ==
  /\ Instruction("op") => at = Head(rest).block /\ Reads(<<store.x, store.y>>)
  /\ Instruction("results") => at = 0 /\ Reads(<<store.r>>)

(* ... and the memory state goes through them in the same order.           *)
SameExecution ==
  /\ SameValues
  /\ Instruction("op") => Reads(<<store.x, store.y, store.s>>)
  /\ Instruction("results") => Reads(<<store.r, store.s>>)

(* The operation of a block, executed together with the block itself.      *)
Unused(b) == <<"w", b, Min({k \in 0 .. 4 : \A v \in {"x", "y", "s"} : store[v] # <<"w", b, k>>})>>

Operation ==
  LET out == Head(rest).out
      new == Unused(at)
      moved == CASE prog.move[at] = "x" -> [store EXCEPT !.x = new, !.s = new]
                 [] prog.move[at] = "y" -> [store EXCEPT !.y = new, !.s = new]
                 [] prog.move[at] = "swap" -> [store EXCEPT !.x = store.y, !.y = store.x, !.s = new]
                 [] OTHER -> [store EXCEPT !.s = new]
  IN  /\ Instruction("op")
      /\ SameExecution
      /\ \E k \in 1 .. Max({1, Len(prog.succ[at])}) :
           /\ at' = IF prog.succ[at] = <<>> THEN 0 ELSE JlmSuccessors(prog, at)[k]
           /\ \E r \in {UpToOperation(Tail(rest), [i \in ToSet(out) |->
                                   IF i = out[1] THEN new ELSE Alternative(k - 1)] @@ env)} :
                rest' = r.rest /\ env' = r.env /\ misled' = (misled \/ Misleading(Tail(rest), r))
      /\ store' = IF prog.succ[at] = <<>> THEN [moved EXCEPT !.r = moved.x] ELSE moved
      /\ UNCHANGED <<restructuringVars, prog, pc, given, forms, block>>

(* The conversion or the execution is over, or the lock-step is lost.      *)
Terminated ==
  /\ failed # {} \/ Instruction("results") \/ ~SameExecution
  /\ UNCHANGED vars

(***************************************************************************)
(* Specification                                                           *)
(***************************************************************************)
Init ==
  /\ prog \in Programs
  /\ pc = "create"
  /\ g = EmptyGraph /\ work = <<>> /\ loops = <<>> /\ inverted = FALSE /\ failed = {}
  /\ given = 0 /\ tree = <<>> /\ lambda = <<>>
  /\ block = Entry /\ rest = <<>> /\ env = <<>> /\ misled = FALSE /\ at = 0 /\ store = <<>>

Next ==
  \/ create_cfg \/ BeginRestructuring \/ Restructuring \/ Aggregating
  \/ ConvertToLambda \/ GenerateCode
  \/ Jump \/ Operation
  \/ Terminated

Spec == Init /\ [][Next]_vars

(***************************************************************************)
(* Properties                                                              *)
(***************************************************************************)
(* The conversion does not refuse a function, but for the reasons below:   *)
(* every loop that is taken out has one repetition and one exit, every     *)
(* region has its head, the result of the restructuring is proper          *)
(* structured, the aggregation never reaches a place it calls unreachable, *)
(* every variable that is looked up has an output, and both graphs are     *)
(* closed.                                                                 *)
KnownRefusals(p) ==
  LET If(shape, assertion) == IF shape THEN {assertion} ELSE {}
      several == {b \in DOMAIN p.succ : Len(p.succ[b]) > 2}
      twice == {b \in DOMAIN p.succ : Cardinality(ToSet(p.succ[b])) # Len(p.succ[b])}
  IN  If(~Unmoved(p) /\ twice # {}, "edges.find(inedge->source()) == edges.end()")
        \cup If(~Unmoved(p) /\ <<>> \notin ToSet(p.succ), "edges.find(phi->node(n)) != edges.end()")
        \cup If(several # {}, "nx->noutedges() == 2") \cup If(several # {}, "n < noutedges()")
        \cup If(p.lcssa # {}, "is_valid(cfg)")
        \cup If(p.switches # {}, "select_op has a condition of one bit")
RefusesOnlyTheKnown == failed \subseteq KnownRefusals(prog)

(* What comes out does what went in, on every path through the function:   *)
(* loops with several entries and exits, phis that swap their values, and  *)
(* values that live across a loop.  Three known deviations are left out: a *)
(* function with a loop that repeats on its first edge, one with a         *)
(* variable that changes in a loop and is the address of a global before   *)
(* it, and what follows once a select on a predicate has chosen between    *)
(* different values.                                                       *)
SameExecutionButKnown == inverted \/ misled \/ SameExecution

(* A loop of the function repeats when its condition says so, whichever    *)
(* edge of its last block repeats.                                         *)
LoopsRepeat == misled \/ SameValues

(* A gamma delivers the values of the alternative its predicate chooses.   *)
SelectsChoose == inverted \/ SameValues

(* The result of the restructuring is made of sequences, branches with one *)
(* join and loops with one repetition and one exit; and a graph that is so *)
(* already keeps its nodes.                                                *)
StructuredIsKept ==
  RestructuringDone => ProperStructured(g) /\ (given # 0 => Cardinality(Nodes(g)) = given)
=============================================================================

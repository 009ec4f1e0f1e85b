# Verification of jlm

TLA+ models of jlm -- a compiler built on the Regionalized Value State Dependence
Graph (RVSDG): the graph under modification, the points-to solver, the way of a
function from LLVM IR into the RVSDG and back, the optimizations, and the elastic
circuits of the HLS backend. TLC checks small instances; TLAPS proves theorems for
every instance. File names below are relative to `src/`.

## 1. The system

jlm reads LLVM IR, turns it into control flow graphs, restructures these, builds
an RVSDG, optimizes it, and either returns to LLVM IR or emits a circuit. It is
a sequential C++ program. What makes it hard is not threads but *re-entrancy*
(a call that changes the graph calls back into traversers; a loop inserts into
the set it iterates), *cached state* (depths, intrusive lists, traversal states
and flags that must follow every change), *fixpoints* whose end is decided by a
"modified" flag, and -- in the output of the HLS backend -- real *concurrency*:
every node of a circuit acts in every clock cycle.

| Component | State it keeps | Operations | Interacts with | What makes it correct | Here |
|---|---|---|---|---|---|
| RVSDG region, nodes, users (`jlm/rvsdg/{node,region,simple-node,structural-node}`) | nodes, inputs with origins, users, cached depth, intrusive lists of top and bottom nodes | create node, append / divert / remove input, append / remove / divert result, remove node, prune | notifies trackers and traversers by callback; every pass changes it | depths right, lists exact, no dangling origin, prune exact, recursion ends | `RvsdgRegion` |
| Traversers and tracker (`jlm/rvsdg/{traverser,tracker,notifiers}`) | state of each node (ahead, frontier, behind), filed by depth; first and last depth | start, next, reactions to five notifications | told of changes by the region; drives most passes | every node visited, once, in order, under modification | `RvsdgTraverser` |
| RVSDG operators (`gamma`, `theta`, `graph`, `substitution`, `control`) | regions, entry, exit and loop variables | build, copy, remove variables | region | subregions correspond to inputs and outputs | `Rvsdg`, `NodeMotion`, `NodeReduction` |
| Normal forms (`*-normal-form`, `binary`, `statemux`, loads and stores, ...) | flags per operation | reduction at creation, normalisation | region | rewriting preserves the value and the order of accesses | `NodeReduction` |
| Bit strings (`jlm/rvsdg/bitstring`) | none | arithmetic on four-valued bits | reductions, unrolling | equals arithmetic modulo 2^w | `BitStrings` |
| Points-to solver (`opt/alias-analyses/PointerObjectSet`) | points-to sets, flags *escaped* and *points to external*, constraints, per-constraint "handled" flag | add object, fact, constraint; `Solve` | filled by `Andersen`, read by `PointsToGraph` | least solution, in any order; ends | `PointerObjectSet` |
| Other alias analyses (`Andersen`, `Steensgaard`, `PointsToGraph`, memory node providers, `MemoryStateEncoder`) | location sets, union-find, per-region sets | analysis, propagation, encoding | region, solver | sound over-approximation; states routed through all regions | `Andersen` ... `MemoryStateEncoder`, `Optimizations` |
| Dead node elimination (`opt/DeadNodeElimination`) | set of alive simple nodes, outputs and arguments | mark, sweep | region, all structural operators | keeps what the results need, all of it, and nothing else; variables stay whole | `DeadNodeElimination` |
| Other optimizations (`jlm/llvm/opt/*`) | per-pass contexts (congruence sets, substitutions, ...) | one `run` each | region, traversers, normal forms, one another | preserve meaning, in any sequence | `CommonNodeElimination` ... `Calls`, `DeadNodes`, `Optimizations` |
| Control flow graphs (`jlm/llvm/ir/{cfg,cfg-structure,aggregation,Annotation,ssa,domtree}`) | nodes, edges, aggregation trees | classify, straighten, destruct SSA, aggregate, annotate | frontend, backend | structured, equivalent | `ControlFlowGraph`, `Aggregation` |
| LLVM IR operators, types, printing | descriptions | construction, text | | | not modelled |
| Frontend (`jlm/llvm/frontend`) | conversion contexts, maps from variables to outputs | build, restructure, convert | control flow graphs, region | the lambda does what the function does | `ControlFlowRestructuring`, `LambdaConversion`, `FunctionConversion` |
| Backend (`jlm/llvm/backend`) | conversion contexts | convert a lambda into a control flow graph | region | the code does what the lambda does | `CfgGeneration`, `FunctionConversion` |
| RVSDG to RHLS (`jlm/hls/backend/rvsdg2rhls`, `jlm/hls/ir`) | RHLS graph | gamma and theta conversion, forks, sinks, triggers, dead node elimination, checks | region | 1:1 relation of inputs and outputs | its results, as netlists |
| RHLS to FIRRTL (`jlm/hls/backend/rhls2firrtl/mlirgen`) | emitted circuit: registers of forks, buffers, discarding muxes, predicate buffers, memory ports, wrapper | one circuit per node kind | memory, harness | latency-insensitive: computes what the program computes | `ElasticNodes` ... `RhlsLambda` |
| Verilator harness (`verilator-harness-hls`) | emitted C++: clock, memory, one call at a time | call | wrapper | call returns its own result | `RhlsLambda` |
| Tooling (`jlm/tooling`, `tools`) | command lines, command graph | parse, run programs | | | not modelled: I/O |
| Utilities (`jlm/util`) | containers, callbacks, intrusive lists, disjoint sets | | everything | | not modelled by themselves |

`PROJECT.json` lists the components with their sources, the map from definitions
to source lines, and the hazards, each at the line where it bites.

## 2. The modules

### The points-to solver: `PointerObjectSet`, `PointerObjectSetProofs`, `MCPointerObjectSet`

A client adds facts (executed at once) and constraints, and calls `Solve`, as
often as it likes. The variables are the points-to sets `pt`, the flags
`external` and `escaped`, the vector `constraints`, the constraints `handled`
(`EscapeHandled_`), and the control state of `Solve`: `pc`, the index `idx`, the
pointees `todo` of the loop of an `Apply`, the primitive operations `ops` that
this round of the loop still makes, the queue `escapers`, and `modified`.

| Action | Code |
|---|---|
| `AddFact`, `AddConstraint` | `AddPointerPointeeConstraint`, `AddPointsToExternalConstraint`, `AddRegisterContentEscapedConstraint`, `AddConstraint` |
| `Solve`, `NextConstraint`, `EndRound` | the loop of `Solve` |
| `ApplySuperset`, `ApplyHandleEscaping`, `ApplyIterating`, `Visit`, `LeaveLoop`, `RunOp` | the `Apply` methods, one primitive operation at a time |
| `StartPropagate`, `Propagate` | `PropagateEscapedFlag` |

`HashSet` wraps `std::unordered_set`; inserting into it while iterating leaves it
open which new elements the loop still meets (and invalidates the iterator if the
set is rehashed). The model lets the loop meet, in any order, what was there when
it began and any of the elements inserted meanwhile.

### The RVSDG region: `RvsdgRegion`, `RvsdgRegionProofs`

A region of nodes in `Nodes` (addresses, which may be reused), some structural.
`operands[n]` are the origins of n's inputs; users are derived from them and the
results, as they are the same pointers. `depth`, `top_nodes` and `bottom_nodes`
are the cached state; the lists count how often a node is linked, so that a
double link or unlink shows. A call of a pass is an action that is enabled when
nothing is left to be done (`work` is empty). The calls it makes in turn --
`add_input` for each operand, `recompute_depth` for each user, the link of a new
top node, the notification of the traversers, the rounds of `prune` -- are pushed
on the stack `work` and are steps of their own, so that invariants are checked
between them, where a callback would look.

| Action | Code |
|---|---|
| `CreateSimple`, `CreateStructural` (`Construct`) | constructors of `node`, `simple_node`, `structural_node` |
| `AppendInput`, `AddInput` | `structural_node::append_input`, `node::add_input` |
| `DivertInput`, `DivertResult` | `input::divert_to` |
| `RemoveInput`, `PushTop` | `node::RemoveInput` |
| `RecomputeSame`, `RecomputeChanged` | `node::recompute_depth` |
| `AppendResult`, `RemoveResult` | `region::append_result`, `region::RemoveResult` |
| `RemoveNode`, `Prune`, `PruneNode`, `PruneDone` (`Destroy`) | `region::remove_node`, `region::prune`, `node::~node` |
| `Notify` | `on_node_create`, `on_input_change` |

Assumed of passes: they keep the graph acyclic (`Upstream`), as the RVSDG is by
definition, and remove inputs of structural nodes only -- all callers of
`RemoveInput` do.

### The traversers: `RvsdgTraverser`, `RvsdgTraverserProofs`, `MCRvsdgTraverser`

Composes the region with one traverser (topdown, bottomup, or bottomup that
revisits new nodes) and its tracker. Steps of the region that notify are joined
with the reaction: `Recompute` with `node_depth_change`, `Notified` with
`node_create` and `input_change`, `Destroyed` with both `node_destroy`s.
`tracked` holds the tracker's buckets with `count`, `top` and `bottom` as the
code computes them incrementally. `Start`, `Visit` and `Stop` are the
constructor, `next()` and the destructor. Passes are assumed not to remove inputs
of nodes that they have not visited (`Removable`): those of the repository do not
(`remove-unused-state.cpp:94,192`, `rhls-dne.cpp:48`, `pull.cpp:91` act on the
visited node; the others use no traverser). `node::RemoveInput` notifies nobody, so
that a node which lost its last unvisited producer that way would never be visited.

### Dead node elimination: `DeadNodeElimination`, `DeadNodeEliminationProofs`, `MCDeadNodeElimination`

A whole RVSDG with its nested regions. Everything that has an identity in the
code -- nodes, regions, inputs, outputs, arguments, results -- is an identifier;
its index is its position in `inputs[n]`, `outputs[n]`, `arguments[r]` or
`results[r]`, so that removals by index are removals by index. `origin` gives each
input and result what it uses. What belongs to what (`InputOf`, `OutputOf`,
`LoopOutput`, `RecArgument`) are pointers that the pass never changes, hence
constants. Both phases recurse: `marks` holds the calls of `MarkOutput` to come,
`work` those of the sweep; a round of a loop is a step.

| Action | Code |
|---|---|
| `MarkOutput` (`OutputCalls`, `ArgumentCalls`) | `MarkOutput`, for every kind of output and argument |
| `StartSweep`, `RemoveImports`, `Terminated` | `run`, `SweepRvsdg` |
| `Prune`, `CollectNodes`, `Visit`, `RemoveDead`, `SkipSimple`, `SweptRegion` | `SweepRegion` with `region::prune` |
| `SweepGamma`, `GammaInputs` | `SweepGamma`, before and after the sweep of the alternatives |
| `SweepTheta`, `ThetaInputs` | `SweepTheta` with `RemoveThetaOutputsWhere`, `RemoveThetaInputsWhere` |
| `SweepLambda`, `SweepDelta`, `ContextInputs` | `SweepLambda`, `SweepDelta` with `PruneLambdaInputs`, `PruneDeltaInputs` |
| `SweepPhi`, `PhiArguments` | `SweepPhi` with `RemovePhiOutputsWhere`, `RemovePhiArgumentsWhere` |

`Needed` is the reference: what reaches a result of the graph, in the graph the
pass starts with, along `Feeds`, which follows from what the operators mean -- a
loop variable needs its input, its result and the predicate; a recursion argument
stands for its own recursion variable -- and not from the code of the pass.

### From LLVM IR into the RVSDG and back: `FunctionConversion` and what it extends

`ControlFlowGraph` has graphs of basic blocks with numbered edges and what
`jlm/llvm/ir/{cfg,cfg-node,cfg-structure,ssa}` do with them;
`ControlFlowRestructuring` is a state machine of its own; `Aggregation`,
`LambdaConversion` and `CfgGeneration` are operators that `FunctionConversion`
composes into one pipeline. Control flow is kept whole; of the data, a function has
two variables that its blocks overwrite, swap or keep, one memory state, and a
condition at each branch that may be anything.

| Action | Code |
|---|---|
| `create_cfg` | `create_cfg` in `LlvmModuleConversion.cpp`: blocks, order of successors, endless loops, `straighten`, `prune` |
| `BeginRestructuring` | `ConvertControlFlowGraph`: `destruct_ssa`, `straighten`, `purge` |
| `Restructuring` (`restructure_loops`, `KeepLoop`, `RestructureLoop`, `extract_tcloop`, `restructure_branches`, `reinsert_tcloop`) | `RestructureControlFlow`, one component or branch at a time; `work` is the call stack, `loops` the loops taken out |
| `Aggregating` | `aggregate` |
| `ConvertToLambda` | `normalize`, `Annotate`, `ConvertAggregationTreeToLambda` |
| `GenerateCode` | `rvsdg2jlm`: `create_cfg`, `convert_region` of every kind of node, `straighten`, `prune` |
| `Jump`, `Operation` | the code that came out, block by block, in lock-step with the function that went in |
| `Terminated` | the end of either, or a refusal |

`failed` holds the assertions that would have stopped the program; the program
then takes no further step.

### The optimizations: `Optimizations` and the modules of its passes

`Rvsdg` is a graph with regions, nodes, gammas, thetas and lambdas, as a value:
users, copies under a substitution, diversion, the variables of structural nodes.
`RvsdgExecution` says what it computes: a gamma runs the alternative of its
predicate, a theta repeats, a call runs a lambda or shows itself to the outside.
A memory state is the history of each location -- its writes in their order with the
reads before each -- so that accesses whose order was lost are seen (`race`), which
an interpreter that executes nodes in one order would miss. Undefined values, and
branches on them, are kept apart from others.

A pass takes the nodes of the graph one at a time; `agenda` is what it still takes.

| Action | Code | Module |
|---|---|---|
| `Redirect` | `InvariantValueRedirection`: a gamma's or a theta's | `CommonNodeElimination` |
| `Eliminate` | `cne`: mark and divert, all regions | `CommonNodeElimination` |
| `PushOut` | `pushout`: nodes out of gammas and thetas, stores behind loops | `NodeMotion` |
| `InvertLoop` | `tginversion` with the pull it begins with | `LoopTransformations` |
| `PullInto` | `pullin`: nodes into gammas, down into nested ones | `NodeMotion` |
| `UnrollLoop` | `loopunroll`: recognition, trip count, both unrollings | `LoopTransformations`, `BitStrings` |
| `Reduce` | `nodereduction`: normalisation of every node, with the reductions of binary operations, loads, stores, memory state merges and gammas | `NodeReduction`, `BitStrings` |
| `InlineFunction` | `fctinline`: a lambda with one direct call | `Calls` |
| `EliminateDead` | `DeadNodeElimination`, once more, as a function on this graph: there it is a pass among others, which may run on what any of them left | `DeadNodes` |
| `EncodeMemoryStates` | an alias analysis, the provisioning of memory nodes and `MemoryStateEncoder` | see below |

`mutable` is the global state of the normal forms: whether a node is reduced when
it is created. It outlives the passes that set it, and a later copy depends on it.

Four encodings of memory states take part as passes: `Andersen` or `Steensgaard`
with `AgnosticMemoryNodeProvider` or `RegionAwareMemoryNodeProvider`
(the second half of `PointsToGraph`). `Andersen` translates the graph into the objects, facts
and constraints of the points-to solver, with the least solution for `Solve` (what
`PointerObjectSetProofs` shows it to be); `Steensgaard` is the union-find of its
location sets with its joins in the order of the code. Both end in a points-to graph.
The region-aware provider annotates regions bottom-up, resolves calls between
functions that call each other, and propagates. `MemoryStateEncoder` gives each
memory node a state of its own and links loads, stores, calls and structural nodes
by the states of what they may touch; dead node elimination then removes what was
linked before. `CanEncode` keeps the encoding to graphs it accepts: normal forms are
off, and the memory argument of every lambda has one user (`EncodeLambda` asserts it). `SameBehaviour` says that the states still order every two accesses
to one location.

### The circuits: `ElasticNodes`, `ElasticNetlist`, `ElasticCircuit`, `ElasticBuffer`, `RhlsLambda` and their proofs

`ElasticNodes` has, for every kind of RHLS node `mlirgen.cpp` emits, what it
drives (`Driven`), when it is ready (`Accepting`) and its registers at the clock
edge (`Clocked`). A token is a value, or `NoToken` for valid low; signals within
a cycle are functions, so a circuit is a synchronous state machine.
`ElasticNetlist` connects nodes and lets the wires settle; `ElasticCircuit` puts
the netlist between sources and sinks that stall at will. The netlists of
`MCElasticCircuit` are what the conversions of `rvsdg2rhls` build for a theta
followed by a non-speculative gamma around another theta (`GammaNetlist`), and for
a speculative gamma whose result is used twice (`SelectNetlist`).

`Fifo` is the abstract specification of a buffer, and `ElasticBuffer` shows that
the shift register of `MlirGenBuffer` implements it, cycle by cycle, under the
refinement mapping `queue <- content`.

`RhlsLambda` composes a netlist with memory nodes, the wrapper (argument and
result registers) and the emitted C++ harness with its memory: the function is
called repeatedly, waits for `i_ready`, starts, and waits for `o_valid`. Its
circuit (`MCRhlsLambda`) has a speculative gamma with two exit variables, forks, a
trigger and a print node between two loads and a store.

## 3. What the runs check

| Run | Instance | Shows |
|---|---|---|
| `solver` | 6 objects, 5 facts, up to 3 of 6 constraints, in any order and with repetition | `Solve` returns (`Termination`); what it returns satisfies everything (`Solved`) and equals the Kleene iteration (`ExactlyLeast`); flags agree (`FlagsConsistent`); changes are never lost (`OnlyGrows`) |
| `region` | 2 simple nodes and a structural one, 3 inputs, 1 result, under all three traversers and none | `DepthsCorrect`, `ListsExact`, `NoDangling`, `TrackerExact` after every step; `PruneExact`; `CallsReturn`; `VisitsAll`, `VisitsInOrder`, `NeverRevisits` |
| `dne` | a global, a phi of two functions, one of which has a theta and a gamma; about 1000 wirings | `NoDangling` and `NoBottomLeft` (assertions of the code) after every step; in the end `KeepsNeeded`, `KeepsNothingElse`, `Aligned`; `ComesToAnEnd` |
| `dne_phi_copied` | the same with the phi's context variable first | a violation, see below |
| `function_conversion` | every function of 4 blocks and larger ones | `SameExecutionButKnown`: what comes out executes the same blocks on the same values; `RefusesOnlyTheKnown`; `StructuredIsKept` |
| `loop_inverted`, `select_inverted` | a loop that repeats on its first edge; a loop left on two ways | violations, see below |
| `optimizations` | the programs below under sequences of up to three passes | `SameBehaviour` and `WellFormed` after every step; `Settles` at the end of a pass |
| `gamma` | theta with 2 loop variables, then a gamma around a loop; 4 invocations | `InProgramOrder`, `OffersPersist`, `Quiescent`, `Completes` |
| `select_fork` | speculative gamma, forked result | a violation, see below |
| `buffer` | 3 slots, 3 tokens | `IsFifo` (refinement), `ShowsFifo` |
| `lambda_call` | 2 loads, 1 store, a speculative gamma with 2 exit variables, a print, 2 words, 3 calls | `ReturnsResult`, `OneAwaits`, `CallsReturn` |

*Bounds.* `MaxConstraints` = 3 admits a constraint whose effect makes another one
apply whose effect makes the first apply again, the shortest way to need another
round. Three nodes give chains of depth 2, diamonds, a node with
parallel edges, and a producer to remove at, and not at, the depth below; three
inputs give two paths of different length to one node. The outputs of a node are
told apart by nothing but their users, and the safety properties of the region are
proved for any number of them, so that the run has one port. In the circuits,
invocations overlap already from two on; the streams have loops of different lengths next to each
other. Three calls of the lambda let a call find the remains of the call before
the last. In the runs of dead node elimination, two variables of each kind
are what it takes for one to be dead while the other is alive, for one to keep the
other alive, and for a removal to shift an index; the wirings are all choices among
a few origins in one part of the graph at a time -- the loop, the gamma, or the
recursion. In `region` simple nodes are symmetric.

The functions of `function_conversion` are all those of four blocks whose entry
branches, with both orders of the edges of the next two blocks, and those whose
entry leads to one block; then larger ones: nested loops, loops with two ways out or
back, exits from both of two loops, and three-way branches. Four blocks are what it
takes for a loop with two entries, and for one with two exits and something behind
each. `Special` has the shapes that are refused, switches, phis with one operand,
and globals.

In `optimizations` numbers have 4 bits (`Width`), so that every overflow is near; a
loop counts as endless after 17 iterations (`Fuel`), one more than there are
values of a counter; loops are unrolled twice (`Factor`). The fifty programs are one or
more per shape a pass looks for: a branch with work in front of it and in it, a while
loop, a counted loop with each direction and comparison, a guarded loop with a bound
from outside, a loop that stores, local memory, functions that call each other and
the outside, and one fold of every binary operation and comparison. Sequences have
up to three passes for one program of each shape (two for the other loops, one for
the other folds): the first prepares what the second finds, and a third looks at
what those two left.

*Fairness.* The program is sequential, so a call that has begun goes on: weak
fairness of the steps of `Solve` (`PointerObjectSet`), and of `Harness`
(`RhlsLambda`: the emitted loop calls `clock_cycle` until it is done). Calls on the
region (`CallsReturn` of `RvsdgRegion`) and dead node elimination
(`ComesToAnEnd`) need none: a measure (`StepsLeft`) falls with every step they make. No client
is fair: passes need not call anything. In `ElasticCircuit` the clock ticks, no
source withholds its next token for ever and no sink refuses for ever; without
these nothing could complete.

*Deadlock* is not checked where a run ends by design: the solver when no
constraint may be added any more, the optimizations when the sequence of passes is
over, and the circuits and the lambda when the streams and the calls are used up.
Dead node elimination and the conversion of functions have a step of their own for
having ended (`Terminated`), so that a deadlock there is a pass that stops before
it is done. In `dne_phi_copied`, where an index may be out of range, it is not
checked.

### Findings

- `select_fork`: `MlirGenFork` clears its fired registers whenever each output is
  ready or has fired, even if its input is not valid; `MlirGenDMux` withdraws its
  offer while it discards. Together they deliver a gamma's result twice to one of
  its uses. No circuit without a fork directly behind a discarding mux is
  affected: `gamma` and `lambda_call` pass (in `gamma`, `OffersPersist` is what the
  fork relies on).
- `dne_phi_copied`: `MarkOutput` looks for the definition of a recursion argument
  among the results of the phi by the argument's index. `phi::builder` allows
  context variables to be added first; `phi::node::copy` does so. Then the wrong
  function is marked, or an index is out of range, and a function that is still in
  use is destroyed. `dne` shows that all is well when the recursion variables
  come first, as the frontend adds them.
- `loop_inverted`: `is_tcloop` accepts a loop whichever edge of its last block
  repeats, and the condition of that block becomes the predicate of the theta as it
  is. `br c, exit, loop` thus becomes a loop that repeats when it should end. A
  loop the restructuring rebuilds is not affected.
- `select_inverted`: an empty gamma whose predicate is no match becomes a `select`
  with the value of alternative 0 as the operand for true.

### Known deviations

Met while modelling, and kept out of the passing runs by the programs they use or by
a condition named in the property:

- *Conversion* (`KnownRefusals`, `misled`): several edges from one block to one
  block of phis; phis in a function without an end; a branch of three or more ways
  at the end of a loop; a phi with one operand, which survives straightening;
  a two-way switch with empty arms, which becomes a select on something wider than
  a bit. A loop variable that begins with the address of a global is taken for
  unchanged and gets no phi (`rvsdg2jlm.cpp:366-368`, `pinned`). `is_proper_structured` accepts a few
  graphs that are not. A phi with an unreachable predecessor fails an assertion
  (not modelled).
- *Inversion and pulling*: nodes are put into a work set in no order; operands
  that need each other end in a cycle when an operand is pulled before its user.
- *Unrolling*: a loop whose start equals its end has 0 iterations and becomes
  endless -- `JLM_ASSERT(niterations != 0)` (`unroll.cpp:317`) compares a pointer. A
  loop with unknown bounds is unrolled as if it were a while loop; one that runs
  exactly once is skipped. Comparisons with `ne` or `eq` or in the wrong direction,
  an overflow of step times factor, a step of 0, and an induction variable as second
  operand of a subtraction are taken as they come.
- *Pushing*: loads and divisions leave a gamma and are then executed speculatively
  (`push.cpp:169` says so); what is left behind is pushed again by the next run.
- *Loads and stores*: the reduction of a load from an alloca permutes the states that the
  load yields, against the comment in `load.cpp`; the order of the states a store
  yields is that of a hash set; a store on several states of one merge fails an
  assertion.
- *Inlining*: a call through an argument of a gamma counts as direct if the gamma's
  operand is the lambda (`lambda.cpp`, `ComputeCallSummary`).
- *Folding*: a division by a constant zero is not guarded (`value-representation.hpp`,
  FIXME), and the reduction of invariant gamma variables, which no pass enables, has
  a wrong condition.
- *Calls through a gamma*: `invariantInput` of a gamma's output (`call.cpp:21-61`) does
  not check that all alternatives pass on the same input.
- *Alias analyses*: in `Steensgaard`, memory that escapes is not marked as pointing to
  external memory, storing a pointer to an external or imported address does not make
  its target escape, imports are never in the escaped set, the arguments of indirect calls
  do not escape, and the result of a load gets only the flags that the address has
  by then. `IsOrContains` (`types.hpp:606-628`) looks at a struct's first element only.
- *Conversion to RHLS*: `is_passthrough` of a result (`remove-unused-state.cpp:196-205`)
  holds of every function that returns one of its arguments, which then loses that
  result; `remove_region_passthrough` (182-194) does not check that the argument of a
  theta goes to its own loop variable; `trace_call` follows loop variables whether or
  not they change; `split_hls_function` does not expect a context variable that is an
  import; `IsIdentityMapping` (`mlirgen.cpp:2487-2497`, used 261-271) ignores the default
  alternative. None of these is in the netlists that the runs take.

## 4. What is proved

For every value of the constants, by TLAPS:

| Theorem | Statement |
|---|---|
| `PointerObjectSetProofs!TypeCorrect` | `Spec => []TypeOK` |
| `PointerObjectSetProofs!FlagsAlwaysConsistent` | `Spec => []FlagsConsistent` |
| `PointerObjectSetProofs!SolveIsSound` | `Spec => []Solved` |
| `PointerObjectSetProofs!SolveIsLeast` | `Spec => []Least` |
| `PointerObjectSetProofs!StateOnlyGrows` | `Spec => OnlyGrows` |
| `RvsdgRegionProofs!TypeCorrect` | `Spec => []TypeOK` |
| `RvsdgRegionProofs!DepthsStayCorrect` | `Spec => []DepthsCorrect` |
| `RvsdgRegionProofs!ListsStayExact` | `Spec => []ListsExact` |
| `RvsdgRegionProofs!NeverDangling` | `Spec => []NoDangling` |
| `RvsdgRegionProofs!PruneIsExact` | `Spec => PruneExact` |
| `RvsdgRegionProofs!EveryCallReturns` | `Spec => CallsReturn` |
| `RvsdgTraverserProofs!Follows` | `TraversalSpec => Spec` (a traversed region is a region) |
| `RvsdgTraverserProofs!TrackerStaysExact` | `TraversalSpec => []TrackerExact` |
| `RvsdgTraverserProofs!VisitsEveryNode` | `TraversalSpec => []VisitsAll` |
| `RvsdgTraverserProofs!VisitsStayInOrder` | `TraversalSpec => VisitsInOrder` |
| `RvsdgTraverserProofs!NeverTwice` | `TraversalSpec => NeverRevisits` |
| `DeadNodeEliminationProofs!TypeCorrect` | `RecursionFirst => (Spec => []TypeOK)` |
| `DeadNodeEliminationProofs!NeededStays` | `RecursionFirst => (Spec => []KeepsNeeded)` |
| `DeadNodeEliminationProofs!NoBottomIsLeft` | `RecursionFirst => (Spec => []NoBottomLeft)` |
| `DeadNodeEliminationProofs!SweepInvariant` | `RecursionFirst => (Spec => [](IInv /\ SweepInv))` |
| `DeadNodeEliminationProofs!NothingDangles` | `RecursionFirst => (Spec => []NoDangling)` |
| `DeadNodeEliminationProofs!StaysAligned` | `RecursionFirst => (Spec => []Aligned)` |
| `DeadNodeEliminationProofs!NothingElseStays` | `RecursionFirst => (Spec => []KeepsNothingElse)` |
| `ElasticBufferProofs!ImplementsFifo` | `Spec => IsFifo`, the refinement of `Fifo` |
| `ElasticBufferProofs!ShowsQueue` | `Spec => []ShowsFifo` |
| `ElasticCircuitProofs!TypeCorrect` | `Spec => []TypeOK` |
| `ElasticCircuitProofs!OffersStay` | `NoDiscarding => (Spec => OffersPersist)` |
| `RhlsLambdaProofs!TypeCorrect` | `Spec => []TypeOK` |
| `RhlsLambdaProofs!ResponsesMatch` | `Spec /\ []InBounds => []OneAwaits` |

*The solver.* `Solved` speaks of the moment `Solve` returns and is far from
inductive. `Inductive` adds what a round has achieved so far: as long as
`modified` is false, the constraints before `idx` hold, the current one holds but
for the pointees in `todo` and the operations in `ops`, and the escapers taken
from the queue have escaped pointees (`Unmodified`); constraints that are skipped
for ever hold, or their operations are pending (`Settled`). An operation that
changes something sets `modified`, and an operation that changes nothing held
already; that is the step from an unmodified round to a solution. `SolveIsLeast`
carries any solution along: every operation the solver runs is one the solution
satisfies. The assumptions are the types of the constants (`KindAssumption`,
`LambdaAssumption`, ... in `PointerObjectSet`).

*The region.* The properties need each other. `RemoveInput` is right to return
early only if depths are right; that of a node just emptied must be 0; `prune`
destroys only nodes without users only if the list of bottom nodes is exact; and a
freed node leaves nothing dangling only if it had no users. `IInv` therefore
conjoins them with
  - `WorkOK`: pending calls concern nodes that exist; `prune` is pending alone, the
    link of a new top node is the last thing pending, and no input is pending whose
    origin belongs to its own node;
  - `NoSelf`: no node uses its own outputs (otherwise recomputing a depth would
    invalidate it at once);
  - `Freed`: a node that does not exist has no inputs and depth 0.

The proof has a lemma per action, on top of lemmas about the elements of
sequences (`RemoveElements`, `DivertElements`, ...) and about how the users of
nodes change when an input is detached and attached (`Detached`, `Attached`,
`BottomFollows`). The assumptions are that `Nodes` is finite, that structural
nodes are nodes, and that the region is no node. `PruneIsExact` needs, beyond the
invariant, that what is reached downstream is the least set closed under users
(`DownstreamClosed`, `DownstreamLeast`), and, for the end of `prune`, that among the
nodes no result depends on there is a deepest one: its users are deeper, as depths
are right, so it has none, and then the list of bottom nodes would not be empty.

That every call returns (`EveryCallReturns`) rests on the graph having no circles.
`NoCirclesInv` says so (`Acyclic`: every set of nodes has one that no other of the set
uses), and adds what keeps it so while the inputs of a node are added one by one: none
that is pending comes from downstream of the node, and nothing else is pending but that
the node is announced (`Adding`). In such a graph the paths from a node to what depends
on it can be counted (`Recursion`: a function defined by recursion over a finite set
without circles exists), and `StepsLeft`, a sum over the pending calls, is a number
(`StepsAre`). A node that is recomputed and changes is replaced by its users, one call for
each use, and those cost exactly one less together (`UsersCost`: the order in which they
are visited does not matter to a sum); a new input leaves the paths from its node alone
(`AddInputPaths`); a round of `prune` has one node less before it. The sums are those of
`MapThenSumSet`: what it chooses an element at a time is the same in whatever order
(`SumIsUnique`), under other names (`TotalRenamed`) and put together (`TotalConcat`).

*The traversers.* All that a traverser knows of its region it was told. `TInv` says
what it then knows: `Tracking`, the tracker's buckets and their incremental `count`,
`top` and `bottom` are those of the nodes in each state; `AheadTopdown` and
`AheadBottomUp`, a node is ahead only while a producer (a user) has not been visited,
or while a notification about it is pending (`Announcing`, `Diverted`,
`DivertedFrom`); `Shape` and `Fresh`, which notifications are pending when. A
traversal that ends has an empty frontier. Take a node that is ahead and shallowest
(deepest): what it waits for is ahead and shallower (deeper) still, so there is none;
this step, and the order of visits, rest on `DepthsCorrect` of the region, which
`Follows` carries over.

*Dead node elimination.* `RecursionFirst` says that the recursion arguments of a phi
are its first arguments, in the order of its outputs. `MarkOutput` takes that for
granted when it looks up a result by the index of an argument, nothing in the code
establishes it for every phi, and `dne_phi_copied` shows what happens without; hence
it is a hypothesis. In `IInv`,
  - `MarkInv` says what the mark phase has achieved. `Live` is what the context holds,
    `Reach` adds what is still in `marks`. The calls for what is live are in `Reach`
    (`Complete`); what is inside a node is reached only when an output of that node is
    live (`FromOutside`), and every output and argument is reached through a use that is
    itself needed (`ThroughUses`). When `marks` is empty, `Live` is thus closed under
    `Feeds` (`MarkedIsClosed`) -- which is not what `MarkOutput` calls: of a
    loop variable, it reaches the result through the output -- and contains `Needed`, in
    any number of rounds (`NeededRounds`); and what is live has a user that is needed
    (`LiveIsUsed`).
  - `GraphInv` says what the sweep keeps: what is left is part of the graph (`Shape`),
    and nothing live, nor any use that feeds it, is gone (`Kept`). The latter needs that
    removals by index hit what they mean: `GammaOK`, the outputs of a gamma stay aligned
    with the results of each alternative, and its entry variables with the arguments
    (`AlignedStill`); `ThetaOK`, a loop variable's input does not go before its output.
  - `WorkOK` says what pending calls of the sweep rely on: the nodes that the loop of a
    region has passed have a live output, an input that is about to go belongs to an output
    that is dead and gone.

`prune` and `remove` destroy only nodes without live outputs, with everything
inside them (`DestroyKeeps`), where nothing is live either, by `FromOutside`.

That nothing dangles is another matter: a dead output may go only after all its users
have gone, and these are removed by other calls. What makes it true is the order in
which the sweep works: a region is swept from its results, its deepest nodes first, what
is inside a node before the node's inputs, and a node's inputs after its users. `SweepInv`
says so of the stack of calls, once the mark phase is over:
  - `GraphOK`: what is used exists (`UsedExist`); an argument that is there has its input, a
    result its output, and the variables of loops and recursion have all other parts that
    they must have (`TiedAt`); their rows are left in order (`RowsAt`).
  - `CallsOK`: a call is not about what a call above it in `work` is still to deal with
    (`Stacked`); it finds what it relies on (`CallReady`: the results of a region it sweeps
    are live, the outputs of a node whose inputs it removes have been cleaned up); and
    a variable that has lost its output has lost its input and argument, or the call
    that removes them is pending (`Balanced`).
  - `SweptOK`, for some set `D` of nodes and regions: they are swept, with all that is in
    them (`Swept`: what is left in them uses live origins only); and whatever a pending call
    relies on is in `D`, or is swept by a call that is made before it (`Ordered`).

`D` is existentially quantified in the invariant, and each lemma about an action says how
it grows. When a call removes a dead output or argument, `Swept` and `Ordered` give that all
its possible users are swept, hence use live origins only. That the deepest node has no
unswept user takes that depths exist at all (`DepthsGrow`, `DepthIs`: the recursive
function `Depth` is well defined as nodes of a region do not use each other in a circle).
At the end `work` is empty, and `D` holds the region of the graph.
  - `StaysAligned` follows by comparing rows: two rows that are left in order, of which
    corresponding elements are left, correspond (`SamePrefix`, `StillMatches`,
    `MatchesRow`), although each was thinned in a loop of its own, from back to front.
  - `NothingElseStays` needs one more invariant, `NoneElse`, about the mark phase: for
    *every* set `N` that is closed under what feeds it, all that is reached is in `N` or
    marked along with a part of it (`Along`: another output of the same simple node, or the
    output of a loop variable whose argument is in `N`). `Needed` is such a set, since its
    rounds come to an end within the number of sources (`NeededIsClosed`), and what is
    inside a node is needed only if an output of the node is (`NeededFromOutside`).

The assumptions are `OwnershipAssumption` (every input, output, argument, result and
region has one place, and there are finitely many nodes), `KindAssumption` (what the builders of
the structural nodes establish: which parts a variable has, that each input of a lambda,
delta or phi has an argument, and that the body of a delta has simple nodes only, as
`DeadNodeElimination.cpp:547` says), `WiringsAssumption` (an origin is in the region of its
user, and the nodes of a region do not use each other in a circle) and `NestingAssumption`
(no region is inside itself).

*The buffer.* The invariant is that the full slots are the first ones (`Packed`);
with it, a cycle of the shift register is the removal of the head and the append of
the tail of `content`, for any `Capacity` and any tokens.

*The circuits.* A cycle gives every wire the value that its node drives, and lets
readiness run against the wires. `Values` computes this node by node, from the left,
and `Readies` from the right. `ValuesAre` and `ReadiesAre` show that the
result is a fixpoint, the state that the combinational logic settles in: every output
is what its node drives given *all* the wires (`Follow`), every ready signal what its
reader accepts. This takes `NetlistAssumption`: channels are driven once and read
once, and what a node reads is driven to its left unless the node's outputs depend on
registers only. The invariant `IInv` is that registers hold what their node expects
(`RegistersOK`: a fork never has all outputs marked, slots stay packed, a discarding
mux never has to discard the alternative it passes on) and that the wires have
settled. `OffersStay` then goes from the sources along the netlist: for each kind of
node, if the inputs that were offered and not accepted stay, so do its outputs
(`NodeKeeps`). It is false for a discarding mux, which withdraws its offer while it
discards -- the reason for the finding of `select_fork` -- and so it has
`NoDiscarding` as a hypothesis. That `gamma` passes is thus no accident of its
netlist.

*The lambda.* All memory nodes of a region share one response port without
identifiers. `IInv` says that a word of the memory is always a value, and that there is
a response exactly when one node awaits it. A request is granted to the first node
only, and a node asks only when it does not await; what the node accepts, and that the
other nodes do not take it for theirs, is in `MemClocked`. `InBounds`, that requests
are for addresses the program has, is a fact about the program that was converted and
not about the circuit, hence a hypothesis of the theorem: outside its memory the
harness would crash.

Assumptions on constants are the following; TLC evaluates them in every run.
`NetlistAssumption`: what `add_forks`, `add_sinks` and `check_rhls` establish, and
that every loop has a buffer, in the order in which the netlist is written.
`PortsAssumption`: every memory node has a request port of its own.
`NoTokenAssumption`: a token is not `NoToken`. `MemoryAssumption`: the circuit between
sources and sinks has no memory nodes, those are for `RhlsLambda`. `TokensAssumption`,
`CallsAssumption`, `InitialMemoryAssumption`: the types of what the environment gives.
`CapacityAssumption`: a buffer has a slot.

*Only model-checked:*
  - everything under fairness or about `ENABLED` (`Termination`, `CallsReturn` of the
    lambda, `Completes`), which is beyond TLAPS;
  - what is defined by recursive operators, which is beyond it too: `ExactlyLeast`
    (the Kleene iteration; `SolveIsLeast` says the same without it), the conversion of
    functions and the optimizations;
  - `InProgramOrder`, `Quiescent` and `ReturnsResult`, which compare a circuit with the
    one program that it was made from;
  - `ComesToAnEnd`, whose measure is a sum over all that is inside a node.

Of dead node elimination all properties but the last are thus proved for every graph, under
`RecursionFirst`.

## 5. What is abstracted

Types of values, ports and operations; names and printing; normalization and
copying; subregions in `RvsdgRegion`, so that a structural node is a node whose inputs may be
appended and removed; removal of outputs and arguments (both require that there
are no users). Circuits carry small numbers, addresses are indices, and FIRRTL
syntax is what it means per clock cycle. `HashSet` and `unordered_map` are sets
that are iterated in any order. Assertions of the code (`JLM_ASSERT`) are no
guards, except that `FunctionConversion` stops where one fails.

In `FunctionConversion` an instruction is the operation of a block; constants and types
are left out, the io and loop states take the way of the memory state, and functions that end in
`unreachable` are left out. The nodes of a region are listed in the order of their
creation, which is a topological order, and identical nodes are found by their operation and
operands when they are created.

In `Optimizations` the agenda of a pass follows the order of the traverser: by
depth, then by age. A number is a bit string of `Width` bits or undefined; integers,
pointers and control values are numbers. Phi and delta nodes, floating point, the io state,
flattening of nested operations and the load reductions that the frontend disables are left out.
In the encoding of memory states the sets that the code hashes are taken in ascending
order; `free`, and what `memcpy` has besides its addresses, are left out. `Steensgaard`
with `RegionAwareMemoryNodeProvider` does not take part in the program whose
pointers come from outside, for the deviation named above.

In the circuits, the state edges of HLS (merges and splits of memory states) and the
operations that `MlirGenSimpleNode` rejects are left out; an undefined value is 0 in the
emitted circuit.

Not modelled: the conversion of single instructions, constants and types in both
directions, descriptions of operations, command lines and the execution of other
programs, and the textual emitters. They are tables and text, without state that could be
wrong.

## 6. Plan

1. *Model next:* the inter-procedural part of frontend and backend (recursive
   functions as phi nodes, globals as delta nodes); the passes of `rvsdg2rhls` as transformations of `Rvsdg`
   instead of netlists written by hand; `callbacks.hpp` (disconnecting while
   notifying) and the registry of active trackers with nested traversers.
2. *Prove next:* that the sweep of dead node elimination comes to an end. Its measure is a
   sum over finite sets as that of the calls of a region is, for which `RvsdgRegionProofs`
   has the lemmas; it also needs sums over the parts of a set, to compare what a node costs
   with what is inside it. Then `Quiescent` of a circuit, from what each node does with a token.

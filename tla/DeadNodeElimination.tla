------------------------ MODULE DeadNodeElimination ------------------------
(***************************************************************************)
(* Dead node elimination of an RVSDG (DeadNodeElimination.cpp): the mark   *)
(* phase follows the origins from the results of the root region, the      *)
(* sweep phase removes, region by region and bottom-up, what it did not    *)
(* reach.                                                                  *)
(*                                                                         *)
(* Both phases recurse in the program.  Here `marks` holds the calls of    *)
(* MarkOutput that are still to be made and `work` the calls of the sweep, *)
(* the first one first.  An argument, result, input or output is an        *)
(* identifier; what it belongs to, and its index, is its place in a        *)
(* sequence.  Types, normal forms and statistics are left out.             *)
(***************************************************************************)
EXTENDS Integers, Sequences, SequencesExt

CONSTANTS
  Kind,        \* Kind[n]: simple, gamma, theta, lambda, phi or delta
  RegionOf,    \* RegionOf[n]: the region that node n is in
  Subregions,  \* Subregions[n]: the regions inside node n, in order
  Root,        \* the region of the graph
  Inputs,      \* Inputs[n], Outputs[n]: what node n starts with
  Outputs,
  Arguments,   \* Arguments[r], Results[r]: what region r starts with
  Results,
  InputOf,     \* InputOf[a]: the input that argument a stands for, or None
  OutputOf,    \* OutputOf[u]: the output that result u gives its value to, or None
  LoopOutput,  \* LoopOutput[i]: the output of the loop variable with input i
  RecArgument, \* RecArgument[o]: the argument of the recursion variable with output o
  None,
  Wirings      \* the functions from inputs and results to origins to start with

Nodes   == DOMAIN Kind
Regions == DOMAIN Results

Members(s) == UNION {ToSet(s[x]) : x \in DOMAIN s}

Body(n) == Subregions[n][1]

\* No element is at two places of s.
Distinct(s) ==
  \A x, y \in DOMAIN s : \A j \in DOMAIN s[x] : \A k \in DOMAIN s[y] :
    s[x][j] = s[y][k] => x = y /\ j = k

\* s and t, through f, are the same sequence.
Matches(f, s, t) == Len(s) = Len(t) /\ \A k \in DOMAIN s : f[s[k]] = t[k]

\* What belongs to what.
ASSUME OwnershipAssumption ==
  /\ Inputs \in [Nodes -> Seq(Members(Inputs))] /\ Distinct(Inputs)
  /\ Outputs \in [Nodes -> Seq(Members(Outputs))] /\ Distinct(Outputs)
  /\ Arguments \in [Regions -> Seq(Members(Arguments))] /\ Distinct(Arguments)
  /\ Results \in [Regions -> Seq(Members(Results))] /\ Distinct(Results)
  /\ Members(Inputs) \cap Members(Results) = {}
  /\ Members(Outputs) \cap Members(Arguments) = {}
  /\ Nodes \cap (Members(Outputs) \cup Members(Arguments)) = {}
  /\ None \notin Members(Inputs) \cup Members(Outputs)
  /\ IsFiniteSet(Nodes)
  /\ IsFiniteSet(Members(Outputs)) /\ IsFiniteSet(Members(Arguments))
  /\ Root \in Regions /\ RegionOf \in [Nodes -> Regions]
  /\ Subregions \in [Nodes -> Seq(Regions \ {Root})] /\ Distinct(Subregions)
  /\ Members(Subregions) = Regions \ {Root}

\* The inputs, outputs, arguments and results of each kind of node and of its
\* regions correspond, as its builder lets them.
ASSUME KindAssumption ==
  /\ DOMAIN InputOf = Members(Arguments)
  /\ \A a \in ToSet(Arguments[Root]) : InputOf[a] = None
  /\ \A u \in ToSet(Results[Root]) : OutputOf[u] = None
  /\ \A n \in Nodes :
     \/ Kind[n] = "simple" /\ Subregions[n] = << >>
     \/ /\ Kind[n] = "gamma" /\ Inputs[n] # << >> /\ Subregions[n] # << >>
        /\ \A r \in ToSet(Subregions[n]) :
             /\ Matches(InputOf, Arguments[r], Tail(Inputs[n]))
             /\ Matches(OutputOf, Results[r], Outputs[n])
     \/ /\ Kind[n] = "theta" /\ Len(Subregions[n]) = 1
        /\ Matches(LoopOutput, Inputs[n], Outputs[n])
        /\ Matches(InputOf, Arguments[Body(n)], Inputs[n])
        /\ Matches(OutputOf, Results[Body(n)], << None >> \o Outputs[n])
     \/ /\ Kind[n] \in {"lambda", "delta", "phi"} /\ Len(Subregions[n]) = 1
        /\ {InputOf[a] : a \in ToSet(Arguments[Body(n)])} \ {None} = ToSet(Inputs[n])
        /\ \A a, b \in ToSet(Arguments[Body(n)]) :
             InputOf[a] = InputOf[b] /\ InputOf[a] # None => a = b
        /\ Kind[n] \in {"lambda", "delta"} =>
             \A u \in ToSet(Results[Body(n)]) : OutputOf[u] = None
        /\ Kind[n] = "delta" =>
             /\ Len(Results[Body(n)]) = 1
             /\ \A a \in ToSet(Arguments[Body(n)]) : InputOf[a] # None
             /\ \A m \in Nodes : RegionOf[m] = Body(n) => Kind[m] = "simple"
        /\ Kind[n] = "phi" =>
             /\ Matches(OutputOf, Results[Body(n)], Outputs[n])
             /\ {a \in ToSet(Arguments[Body(n)]) : InputOf[a] = None}
                  = {RecArgument[o] : o \in ToSet(Outputs[n])}

\* The outputs and arguments in region r, and the inputs and results, to start with.
SourcesIn(r) ==
  ToSet(Arguments[r]) \cup UNION {ToSet(Outputs[n]) : n \in {m \in Nodes : RegionOf[m] = r}}
UsesIn(r) ==
  ToSet(Results[r]) \cup UNION {ToSet(Inputs[n]) : n \in {m \in Nodes : RegionOf[m] = r}}

\* Origins do not cross the borders of regions, and in a region no nodes use each
\* other in a circle.
ASSUME WiringsAssumption ==
  \A f \in Wirings, r \in Regions :
    /\ \A u \in UsesIn(r) : f[u] \in SourcesIn(r)
    /\ \A S \in SUBSET {n \in Nodes : RegionOf[n] = r} : S # {} =>
         \E n \in S : \A p \in S : \A u \in ToSet(Inputs[n]) : f[u] \notin ToSet(Outputs[p])

VARIABLES
  nodes,      \* the nodes that exist
  inputs,     \* inputs[n], outputs[n]: those of node n, by index
  outputs,
  arguments,  \* arguments[r], results[r]: those of region r, by index
  results,
  origin,     \* origin[u]: the origin of the input or result u
  alive,      \* the Context: simple nodes, and outputs of other nodes and arguments
  marks,      \* the outputs that MarkOutput is still to be called with
  work        \* the calls of the sweep phase that are still to be made

graph == << nodes, inputs, outputs, arguments, results, origin >>
vars  == << graph, alive, marks, work >>

Owner == [r \in Regions \ {Root} |-> CHOOSE n \in Nodes : r \in ToSet(Subregions[n])]

\* The regions that are inside node n, at any depth: the least set with its
\* subregions and those of the nodes in them.
Inside ==
  [n \in Nodes |->
     {r \in Regions : \A S \in SUBSET Regions :
        (\A q \in Regions \ {Root} : Owner[q] = n \/ RegionOf[Owner[q]] \in S => q \in S)
          => r \in S}]

\* No region is inside itself.
ASSUME NestingAssumption == \A n \in Nodes : RegionOf[n] \notin Inside[n]

Uses    == Members(inputs) \cup Members(results)
Sources == Members(outputs) \cup Members(arguments)

Used        == {origin[u] : u \in Uses}
HasUsers(s) == s \in Used

\* The nodes of region r that have no users: its bottom_nodes.
Bottom(r) ==
  LET used == Used
  IN {n \in nodes : RegionOf[n] = r /\ ToSet(outputs[n]) \cap used = {}}

NodesIn(r) == {n \in nodes : RegionOf[n] = r}

\* The depths of the nodes of region r.
Depth(r) ==
  LET producers(n) ==
        {p \in NodesIn(r) : \E u \in ToSet(inputs[n]) : origin[u] \in ToSet(outputs[p])}
      depth[n \in NodesIn(r)] == Max({0} \cup {depth[p] + 1 : p \in producers(n)})
  IN depth

\* s without its elements at the positions of which x is an element of t: the
\* one that is now j-th has j - 1 of those that stay before it.
WithoutAt(s, t, x) ==
  LET kept == {k \in DOMAIN t : t[k] \notin x}
  IN [j \in 1 .. Cardinality(kept) |->
        s[CHOOSE k \in kept : Cardinality({i \in kept : i < k}) = j - 1]]

\* s without its elements that are in x.
Without(s, x) == WithoutAt(s, s, x)

------------------------------------------------------------------------------
(* The mark phase. *)

Origins(us) == [k \in DOMAIN us |-> origin[us[k]]]

\* The results that give output o of node n its value, one of each subregion.
ResultsOf(n, o) ==
  [k \in DOMAIN Subregions[n] |->
     CHOOSE u \in ToSet(results[Subregions[n][k]]) : OutputOf[u] = o]

\* (Definitions introduced by "mutant" are used by no specification: each is a
\* plausible mistake in the definition after it, which some property must catch.)

\* The calls that MarkOutput makes for output o of node n.
OutputCalls(n, o) ==
  CASE Kind[n] = "simple" -> Origins(inputs[n])
    [] Kind[n] = "gamma"  -> Origins(<< inputs[n][1] >> \o ResultsOf(n, o))
    [] Kind[n] = "theta"  -> Origins(<< results[Body(n)][1] >> \o ResultsOf(n, o)
                                \o Without(inputs[n], {i \in ToSet(inputs[n]) : LoopOutput[i] # o}))
    [] Kind[n] = "lambda" -> Origins(results[Body(n)])
    [] Kind[n] = "phi"    -> Origins(ResultsOf(n, o))
    [] Kind[n] = "delta"  -> << origin[results[Body(n)][1]] >>

Position(x, s) == CHOOSE k \in DOMAIN s : s[k] = x

\* (mutant: counted from the wrong end)
IndexedResultLast(r, a) == results[r][Len(results[r]) + 1 - Position(a, arguments[r])]

\* The result that MarkOutput takes for that of recursion argument a of region r.
IndexedResult(r, a) == results[r][Position(a, arguments[r])]

\* The calls that MarkOutput makes for argument a of region r.
ArgumentCalls(r, a) ==
  LET i == InputOf[a]
  IN IF r = Root THEN << >>
     ELSE CASE i # None /\ Kind[Owner[r]] = "theta"  -> << LoopOutput[i], origin[i] >>
            [] i # None /\ Kind[Owner[r]] # "theta"  -> << origin[i] >>
            [] i = None /\ Kind[Owner[r]] = "lambda" -> << >>
            [] i = None /\ Kind[Owner[r]] = "phi"    -> << origin[IndexedResult(r, a)] >>

\* What the context remembers of the source s.
Mark(s) == IF \E n \in nodes : Kind[n] = "simple" /\ s \in ToSet(outputs[n])
           THEN CHOOSE n \in nodes : s \in ToSet(outputs[n])
           ELSE s

IsAlive(s) == Mark(s) \in alive

\* (mutant: only structural nodes are looked up)
IsAliveNodeSimple(n) == Kind[n] = "simple" \/ \E o \in ToSet(outputs[n]) : IsAlive(o)

IsAliveNode(n) ==
  IF Kind[n] = "simple" THEN n \in alive ELSE \E o \in ToSet(outputs[n]) : IsAlive(o)

\* A recursion argument whose index is not that of a result ends in an assertion.
InRange(s) ==
  \A r \in Regions : s \in ToSet(arguments[r]) /\ r # Root /\ InputOf[s] = None
                       /\ Kind[Owner[r]] = "phi"
    => Position(s, arguments[r]) \in DOMAIN results[r]

\* The calls that MarkOutput makes for s.
CallsFor(s) ==
  IF \E n \in nodes : s \in ToSet(outputs[n])
  THEN OutputCalls(CHOOSE n \in nodes : s \in ToSet(outputs[n]), s)
  ELSE ArgumentCalls(CHOOSE r \in Regions : s \in ToSet(arguments[r]), s)

MarkOutput ==
  /\ marks # << >>
  /\ LET s == Head(marks)
     IN IF IsAlive(s)
        THEN marks' = Tail(marks) /\ UNCHANGED alive
        ELSE /\ InRange(s)
             /\ alive' = alive \cup {Mark(s)}
             /\ marks' = CallsFor(s) \o Tail(marks)
  /\ UNCHANGED << graph, work >>

------------------------------------------------------------------------------
(* The sweep phase. *)

\* A call: the function, the node or region it is for, and the nodes or
\* variables it is still to look at.
Call(op, at, set) == [op |-> op, at |-> at, set |-> set]

SweepRegion(r) == << Call("prune", r, {}), Call("collect", r, {}) >>

\* The calls of SweepRegion for one region of rs after the other.
SweepRegions(rs) ==
  [k \in 1 .. 2 * Len(rs) |-> SweepRegion(rs[(k + 1) \div 2])[2 - (k % 2)]]

\* run: the first call of the sweep, made when MarkRegion has returned.
StartSweep ==
  /\ marks = << >> /\ work = << Call("run", Root, {}) >>
  /\ work' = SweepRegion(Root) \o << Call("imports", Root, {}) >>
  /\ UNCHANGED << graph, alive, marks >>

Calling(op) == marks = << >> /\ work # << >> /\ Head(work).op = op
Returning   == work' = Tail(work)

\* (mutant: what is inside the node stays)
DestroyShallow(n) ==
  LET gone == {n}
      emptied(s, x) == [y \in DOMAIN s |-> IF y \in x THEN << >> ELSE s[y]]
  IN /\ nodes' = nodes \ gone
     /\ inputs' = emptied(inputs, gone)
     /\ outputs' = emptied(outputs, gone)
     /\ arguments' = emptied(arguments, Inside[n])
     /\ results' = emptied(results, Inside[n])
     /\ UNCHANGED origin

\* The node is destroyed, with everything inside it.
Destroy(n) ==
  LET gone == {n} \cup {m \in nodes : RegionOf[m] \in Inside[n]}
      emptied(s, x) == [y \in DOMAIN s |-> IF y \in x THEN << >> ELSE s[y]]
  IN /\ nodes' = nodes \ gone
     /\ inputs' = emptied(inputs, gone)
     /\ outputs' = emptied(outputs, gone)
     /\ arguments' = emptied(arguments, Inside[n])
     /\ results' = emptied(results, Inside[n])
     /\ UNCHANGED origin

\* region::prune(false): one round of its loop, and its end.
Prune ==
  /\ Calling("prune")
  /\ LET r == Head(work).at
     IN IF Bottom(r) = {} THEN Returning /\ UNCHANGED graph
        ELSE (\E n \in Bottom(r) : Destroy(n)) /\ UNCHANGED work
  /\ UNCHANGED << alive, marks >>

\* SweepRegion orders the nodes that are left.
CollectNodes ==
  /\ Calling("collect")
  /\ LET r == Head(work).at
     IN work' = << Call("nodes", r, NodesIn(r)) >> \o Tail(work)
  /\ UNCHANGED << graph, alive, marks >>

\* The nodes that SweepRegion's loop may look at next: of those it has left, the
\* deepest (their depths do not change meanwhile: only nodes that use what the
\* loop has looked at get another one).
Deepest ==
  LET left == Head(work).set
      depth == Depth(Head(work).at)
  IN {n \in left : \A m \in left : depth[m] <= depth[n]}

\* The loop goes on behind n, after the calls it makes for n.
\* (mutant: the iterator stays where it is)
ThenAgain(n, calls) == work' = calls \o work
Then(n, calls) ==
  work' = calls \o << [Head(work) EXCEPT !.set = @ \ {n}] >> \o Tail(work)

RemoveDead(n) ==
  /\ ~IsAliveNode(n)
  /\ Destroy(n)
  /\ Then(n, << >>)

SkipSimple(n) ==
  /\ IsAliveNode(n) /\ Kind[n] = "simple"
  /\ Then(n, << >>)
  /\ UNCHANGED graph

\* (mutant: the results of the first alternative only)
SweepGammaFirst(n) ==
  /\ IsAliveNode(n) /\ Kind[n] = "gamma"
  /\ LET dead == {o \in ToSet(outputs[n]) : ~IsAlive(o)}
     IN /\ outputs' = [outputs EXCEPT ![n] = Without(@, dead)]
        /\ results' = [r \in Regions |-> IF r = Body(n)
                                         THEN WithoutAt(results[r], outputs[n], dead)
                                         ELSE results[r]]
  /\ Then(n, SweepRegions(Subregions[n]) \o << Call("gamma_inputs", n, {}) >>)
  /\ UNCHANGED << nodes, inputs, arguments, origin >>

\* SweepGamma up to the sweep of the subregions: the outputs, and by index the
\* results of every subregion.
SweepGamma(n) ==
  /\ IsAliveNode(n) /\ Kind[n] = "gamma"
  /\ LET dead == {o \in ToSet(outputs[n]) : ~IsAlive(o)}
     IN /\ outputs' = [outputs EXCEPT ![n] = Without(@, dead)]
        /\ results' = [r \in Regions |-> IF r \in ToSet(Subregions[n])
                                         THEN WithoutAt(results[r], outputs[n], dead)
                                         ELSE results[r]]
  /\ Then(n, SweepRegions(Subregions[n]) \o << Call("gamma_inputs", n, {}) >>)
  /\ UNCHANGED << nodes, inputs, arguments, origin >>

\* (mutant: the loop ends before the first entry variable)
GammaInputsShort ==
  /\ Calling("gamma_inputs")
  /\ LET n == Head(work).at
         entries == Tail(inputs[n])
         dead == {i \in ToSet(entries) :
                    i # entries[1] /\ \A a \in Members(arguments) : InputOf[a] = i => ~IsAlive(a)}
     IN /\ inputs' = [inputs EXCEPT ![n] = << Head(@) >> \o Without(entries, dead)]
        /\ arguments' = [r \in Regions |-> IF r \in ToSet(Subregions[n])
                                           THEN WithoutAt(arguments[r], entries, dead)
                                           ELSE arguments[r]]
  /\ Returning
  /\ UNCHANGED << nodes, outputs, results, origin, alive, marks >>

\* The rest of SweepGamma: the inputs, and by index the arguments.
GammaInputs ==
  /\ Calling("gamma_inputs")
  /\ LET n == Head(work).at
         entries == Tail(inputs[n])
         dead == {i \in ToSet(entries) :
                    \A a \in Members(arguments) : InputOf[a] = i => ~IsAlive(a)}
     IN /\ inputs' = [inputs EXCEPT ![n] = << Head(@) >> \o Without(entries, dead)]
        /\ arguments' = [r \in Regions |-> IF r \in ToSet(Subregions[n])
                                           THEN WithoutAt(arguments[r], entries, dead)
                                           ELSE arguments[r]]
  /\ Returning
  /\ UNCHANGED << nodes, outputs, results, origin, alive, marks >>

\* Output o and the result that gives it its value go away.
RemoveOutputs(n, dead) ==
  /\ outputs' = [outputs EXCEPT ![n] = Without(@, dead)]
  /\ results' = [results EXCEPT ![Body(n)] = Without(@, {u \in ToSet(@) : OutputOf[u] \in dead})]
  /\ UNCHANGED << nodes, inputs, arguments, origin >>

\* The arguments a and the inputs they stand for go away.
RemoveInputs(n, dead) ==
  /\ arguments' = [arguments EXCEPT ![Body(n)] = Without(@, dead)]
  /\ inputs' = [inputs EXCEPT ![n] = Without(@, {InputOf[a] : a \in dead})]
  /\ UNCHANGED << nodes, outputs, results, origin >>

\* The argument and the input of the loop variable with output o of theta n.
LoopInput(n, o) == CHOOSE i \in ToSet(inputs[n]) : LoopOutput[i] = o
LoopArgument(n, o) == CHOOSE a \in ToSet(arguments[Body(n)]) : InputOf[a] = LoopInput(n, o)

SweepTheta(n) ==
  /\ IsAliveNode(n) /\ Kind[n] = "theta"
  /\ LET dead == {o \in ToSet(outputs[n]) : ~HasUsers(o) /\ ~IsAlive(LoopArgument(n, o))
                                              /\ ~IsAlive(o)}
     IN /\ RemoveOutputs(n, dead)
        /\ Then(n, SweepRegion(Body(n))
                     \o << Call("theta_inputs", n, {LoopInput(n, o) : o \in dead}) >>)

ThetaInputs ==
  /\ Calling("theta_inputs")
  /\ LET n == Head(work).at
     IN RemoveInputs(n, {a \in ToSet(arguments[Body(n)]) :
                           ~HasUsers(a) /\ InputOf[a] \in Head(work).set})
  /\ Returning
  /\ UNCHANGED << alive, marks >>

SweepLambda(n) ==
  /\ IsAliveNode(n) /\ Kind[n] = "lambda"
  /\ Then(n, SweepRegion(Body(n)) \o << Call("context_inputs", n, {}) >>)
  /\ UNCHANGED graph

SweepDelta(n) ==
  /\ IsAliveNode(n) /\ Kind[n] = "delta"
  /\ Then(n, << Call("prune", Body(n), {}), Call("context_inputs", n, {}) >>)
  /\ UNCHANGED graph

\* PruneLambdaInputs and PruneDeltaInputs.
ContextInputs ==
  /\ Calling("context_inputs")
  /\ LET n == Head(work).at
     IN RemoveInputs(n, {a \in ToSet(arguments[Body(n)]) : ~HasUsers(a) /\ InputOf[a] # None})
  /\ Returning
  /\ UNCHANGED << alive, marks >>

\* (mutant: only the output is looked at)
SweepPhiOutput(n) ==
  /\ IsAliveNode(n) /\ Kind[n] = "phi"
  /\ LET dead == {o \in ToSet(outputs[n]) : ~HasUsers(o) /\ ~IsAlive(o)}
     IN /\ RemoveOutputs(n, dead)
        /\ Then(n, SweepRegion(Body(n))
                     \o << Call("phi_arguments", n, {RecArgument[o] : o \in dead}) >>)

SweepPhi(n) ==
  /\ IsAliveNode(n) /\ Kind[n] = "phi"
  /\ LET dead == {o \in ToSet(outputs[n]) : ~HasUsers(o) /\ ~IsAlive(o)
                                              /\ ~IsAlive(RecArgument[o])}
     IN /\ RemoveOutputs(n, dead)
        /\ Then(n, SweepRegion(Body(n))
                     \o << Call("phi_arguments", n, {RecArgument[o] : o \in dead}) >>)

PhiArguments ==
  /\ Calling("phi_arguments")
  /\ LET n == Head(work).at
     IN RemoveInputs(n, {a \in ToSet(arguments[Body(n)]) :
                           ~HasUsers(a) /\ (InputOf[a] # None \/ a \in Head(work).set)})
  /\ Returning
  /\ UNCHANGED << alive, marks >>

\* The loop of SweepRegion ends.
SweptRegion ==
  /\ Calling("nodes") /\ Head(work).set = {}
  /\ Returning
  /\ UNCHANGED << graph, alive, marks >>

\* SweepRvsdg removes the dead imports at its end.
RemoveImports ==
  /\ Calling("imports")
  /\ arguments' = [arguments EXCEPT ![Root] = Without(@, {a \in ToSet(@) : ~IsAlive(a)})]
  /\ Returning
  /\ UNCHANGED << nodes, inputs, outputs, results, origin, alive, marks >>

------------------------------------------------------------------------------
Init ==
  /\ nodes = Nodes
  /\ inputs = Inputs /\ outputs = Outputs
  /\ arguments = Arguments /\ results = Results
  /\ origin \in Wirings
  /\ alive = {}
  /\ marks = Origins(results[Root])
  /\ work = << Call("run", Root, {}) >>

Done == marks = << >> /\ work = << >>

\* The pass has returned; any other state without a successor is a deadlock.
Terminated == Done /\ UNCHANGED vars

\* One round of the loop of SweepRegion.
Visit ==
  /\ Calling("nodes")
  /\ \E n \in Deepest :
       \/ RemoveDead(n) \/ SkipSimple(n) \/ SweepGamma(n) \/ SweepTheta(n)
       \/ SweepLambda(n) \/ SweepDelta(n) \/ SweepPhi(n)
  /\ UNCHANGED << alive, marks >>

Next ==
  \/ MarkOutput \/ StartSweep \/ Prune \/ CollectNodes \/ Visit \/ SweptRegion
  \/ GammaInputs \/ ThetaInputs \/ ContextInputs \/ PhiArguments \/ RemoveImports
  \/ Terminated

Spec == Init /\ [][Next]_vars

------------------------------------------------------------------------------
(* What a computation needs, from the graph it starts with. *)

\* The inputs and results of the same loop variable as s, and the predicate.
LoopUses(n, s) ==
  LET i == CHOOSE i \in ToSet(Inputs[n]) :
             s = LoopOutput[i] \/ s \in {a \in DOMAIN InputOf : InputOf[a] = i}
  IN {i, Results[Body(n)][1]} \cup {u \in ToSet(Results[Body(n)]) : OutputOf[u] = LoopOutput[i]}

\* The uses through which a value reaches s, an output of node n.
OutputFeeds(n, s) ==
  CASE Kind[n] = "simple" -> ToSet(Inputs[n])
    [] Kind[n] = "gamma"  -> {Inputs[n][1]} \cup {u \in Members(Results) : OutputOf[u] = s}
    [] Kind[n] = "theta"  -> LoopUses(n, s)
    [] Kind[n] = "phi"    -> {u \in Members(Results) : OutputOf[u] = s}
    [] Kind[n] \in {"lambda", "delta"} -> ToSet(Results[Body(n)])

\* The uses through which a value reaches s, an argument of region r.  A
\* recursion argument stands for the output of its own recursion variable.
ArgumentFeeds(r, s) ==
  IF r = Root THEN {}
  ELSE LET n == Owner[r]
       IN IF Kind[n] = "theta" THEN LoopUses(n, s)
          ELSE IF InputOf[s] # None THEN {InputOf[s]}
          ELSE {u \in Members(Results) : \E o \in ToSet(Outputs[n]) :
                  Kind[n] = "phi" /\ RecArgument[o] = s /\ OutputOf[u] = o}

Feeds ==
  [s \in Members(Outputs) \cup Members(Arguments) |->
     IF s \in Members(Outputs)
     THEN OutputFeeds(CHOOSE n \in Nodes : s \in ToSet(Outputs[n]), s)
     ELSE ArgumentFeeds(CHOOSE r \in Regions : s \in ToSet(Arguments[r]), s)]

\* What the results of the graph are computed from, found in as many rounds as
\* there are outputs and arguments.
Needed ==
  LET from(us)   == {origin[u] : u \in us}
      further(x) == x \cup UNION {from(Feeds[s]) : s \in x}
      found[k \in Nat] ==
        IF k = 0 THEN from(ToSet(Results[Root])) ELSE further(found[k - 1])
  IN found[Cardinality(DOMAIN Feeds)]

------------------------------------------------------------------------------
(* Correctness. *)

\* All that the context may hold.
Everything == Nodes \cup Members(Outputs) \cup Members(Arguments)

\* What exists is part of the graph, and a node or region that is gone has
\* taken everything with it that belongs to it.
TypeOK ==
  /\ nodes \subseteq Nodes
  /\ \A n \in nodes : RegionOf[n] # Root => Owner[RegionOf[n]] \in nodes
  /\ \A n \in Nodes \ nodes : inputs[n] = << >> /\ outputs[n] = << >>
  /\ Members(inputs) \subseteq Members(Inputs) /\ Members(outputs) \subseteq Members(Outputs)
  /\ Members(arguments) \subseteq Members(Arguments)
  /\ Members(results) \subseteq Members(Results)
  /\ alive \subseteq Everything
  /\ ToSet(marks) \subseteq Sources

\* Nothing is removed that is still in use: every input and result has its
\* origin (the assertion in ~output, node.cpp:83), and no input goes before its
\* arguments, no output before its results (structural-node.cpp:18 and 36).
NoDangling ==
  /\ Used \subseteq Sources
  /\ {InputOf[a] : a \in Members(arguments)} \subseteq Members(inputs) \cup {None}
  /\ {OutputOf[u] : u \in Members(results)} \subseteq Members(outputs) \cup {None}

\* What the results of the graph are computed from is there when the pass is
\* done, and everything through which its value reaches it.
KeepsNeeded ==
  Done => \A s \in Needed : s \in Sources /\ Feeds[s] \subseteq Uses

\* The pass removes everything else in one run: each node that is left has an
\* output that is needed, and so does each variable that is left, of whose
\* outputs and arguments one is needed.
KeepsNothingElse ==
  Done =>
    LET needed == Needed
        arguments_of(i) == {a \in Members(arguments) : InputOf[a] = i}
    IN /\ \A n \in nodes : ToSet(outputs[n]) \cap needed # {}
       /\ ToSet(arguments[Root]) \subseteq needed
       /\ \A n \in nodes :
            /\ Kind[n] = "gamma" =>
                 /\ ToSet(outputs[n]) \subseteq needed
                 /\ \A i \in ToSet(Tail(inputs[n])) : arguments_of(i) \cap needed # {}
            /\ Kind[n] = "theta" => \A i \in ToSet(inputs[n]) :
                 ({LoopOutput[i]} \cup arguments_of(i)) \cap needed # {}
            /\ Kind[n] \in {"lambda", "delta", "phi"} =>
                 \A i \in ToSet(inputs[n]) : arguments_of(i) \subseteq needed
            /\ Kind[n] = "phi" =>
                 \A o \in ToSet(outputs[n]) : {o, RecArgument[o]} \cap needed # {}

\* The elements of a variable keep the same index everywhere: that is how
\* producer(), the copy functions and the next run of a pass find them again.
Aligned ==
  Done =>
    \A n \in nodes :
      /\ Kind[n] = "gamma" => \A r \in ToSet(Subregions[n]) :
           /\ [k \in DOMAIN results[r] |-> OutputOf[results[r][k]]] = outputs[n]
           /\ [k \in DOMAIN arguments[r] |-> InputOf[arguments[r][k]]] = Tail(inputs[n])
      /\ Kind[n] = "theta" =>
           /\ [k \in DOMAIN inputs[n] |-> LoopOutput[inputs[n][k]]] = outputs[n]
           /\ [k \in DOMAIN arguments[Body(n)] |-> InputOf[arguments[Body(n)][k]]] = inputs[n]
           /\ [k \in DOMAIN results[Body(n)] |-> OutputOf[results[Body(n)][k]]]
                = << None >> \o outputs[n]
      /\ Kind[n] = "phi" => \A k \in DOMAIN outputs[n] :
           RecArgument[outputs[n][k]] = arguments[Body(n)][k]

\* When SweepRegion ends each node of the region has a user (its assertion,
\* DeadNodeElimination.cpp:386).
NoBottomLeft ==
  marks = << >> /\ work # << >> /\ Head(work).op = "nodes" /\ Head(work).set = {}
    => Bottom(Head(work).at) = {}

SumCosts(S, cost) == FoldSet(LAMBDA x, sum : cost[x] + sum, 0, S)

\* A bound on the steps of a sweep: three for each region, two for each node.
RegionCost == [r \in Regions |-> 3 + 2 * Cardinality({n \in Nodes : RegionOf[n] = r})]
NodeCost   == [n \in Nodes |-> 2 + SumCosts(Inside[n], RegionCost)]
CallCost(call) ==
  CASE call.op = "run"     -> 2 + SumCosts(Regions, RegionCost)
    [] call.op = "collect" -> 2 + SumCosts({n \in Nodes : RegionOf[n] = call.at}, NodeCost)
    [] call.op = "nodes"   -> 1 + SumCosts(call.set, NodeCost)
    [] OTHER               -> 1

Unmarked == Cardinality(Everything \ alive)
Unswept  == Cardinality(nodes) + FoldSeq(LAMBDA call, sum : CallCost(call) + sum, 0, work)

\* The pass ends: although it follows the cycles of loops and recursion, each of
\* its steps marks something, or does not and leaves fewer calls to be made.
\* (That it does not stop before is the absence of deadlock.)
ComesToAnEnd ==
  [][\/ Unmarked' < Unmarked
     \/ Unmarked' = Unmarked /\ Len(marks') < Len(marks)
     \/ alive' = alive /\ marks' = marks /\ Unswept' < Unswept]_vars
=============================================================================

----------------------------- MODULE RhlsLambda -----------------------------
(***************************************************************************)
(* The module that MLIRGenImpl::MlirGen emits for a lambda (mlirgen.cpp)   *)
(* around the circuit of its region, and the C++ function that            *)
(* VerilatorHarnessHLS emits (verilator-harness-hls.cpp), with which a     *)
(* program calls the circuit in simulation and which serves its memory.    *)
(*                                                                         *)
(* The wrapper has a register per argument and per result of the region.   *)
(* The argument registers are loaded together, the result registers are    *)
(* handed over together.                                                   *)
(***************************************************************************)
EXTENDS ElasticNetlist, FiniteSets

CONSTANTS
  Calls,          \* the arguments a call may have: functions on Sources
  InitialMemory,  \* the memory before the first call
  Run(_, _),      \* Run(m, args) = [results, memory]: what the lambda computes
  MaxCalls        \* bound: how many calls the program makes

ASSUME CallsAssumption == MaxCalls \in Nat /\ \A a \in Calls : DOMAIN a = Sources
ASSUME InitialMemoryAssumption == \A a \in DOMAIN InitialMemory : Full(InitialMemory[a])

VARIABLES
  regs,      \* the registers of the region's nodes
  inputs,    \* inputs[s]: the register of argument s
  outputs,   \* outputs[s]: the register of result s
  oReady,    \* o_ready of the wrapper
  response,  \* mem_res in this cycle: a value or NoToken
  memory,    \* the memory of the program
  pc,        \* where the called function is
  args,      \* the arguments it was called with
  promised,  \* what the lambda computes for the call
  calls      \* how many calls were made

vars == << regs, inputs, outputs, oReady, response, memory, pc, args, promised, calls >>

\* The wires between the wrapper and the region, and those inside the region.
wires == Values(regs, [c \in Sources \cup {MemRes} |->
                         IF c = MemRes THEN response ELSE inputs[c]])
ready == Readies(regs, wires, {s \in Sinks : ~ Full(outputs[s])} \cup Granted(regs, wires))

\* The wrapper accepts a call when all argument registers are empty and has a
\* result when all result registers are full.
iReady == \A s \in Sources : ~ Full(inputs[s])
oValid == \A s \in Sinks : Full(outputs[s])

Init ==
  /\ regs = Reset
  /\ inputs = [s \in Sources |-> NoToken]
  /\ outputs = [s \in Sinks |-> NoToken]
  /\ oReady \in BOOLEAN
  /\ response = NoToken
  /\ memory = InitialMemory
  /\ pc = "idle"
  /\ args \in Calls
  /\ promised = [results |-> outputs, memory |-> memory]
  /\ calls = 0

\* The memory nodes whose request is granted in a cycle with values v, and what
\* the harness does for them: it writes the memory and reads it again.  It does so
\* right after the edge that begins the cycle; here that is part of the step that
\* ends the cycle, which makes no difference as no request is pending at Return.
Served(v) ==
  LET granted == {k \in Requests(regs, v) : k = First(Requests(regs, v))}
      addr(k) == v[Netlist[k].ins[1]]
      writes  == {k \in granted : Netlist[k].kind = "store"}
      m == [a \in DOMAIN memory |->
              IF \E k \in writes : addr(k) = a
                THEN v[Netlist[CHOOSE k \in writes : TRUE].ins[2]]
                ELSE memory[a]]
  IN /\ memory' = m
     /\ response' = IF granted = {} THEN NoToken ELSE m[addr(CHOOSE k \in granted : TRUE)]

\* clock_cycle(): one cycle, in which i_valid is iValid and o_ready is taking.
\* The response to a request is on mem_res in the next cycle.
clock_cycle(iValid, taking) ==
  \E v \in {wires} : \E rd \in {ready} :
    /\ regs' = Latched(regs, v, rd)
    /\ inputs' = IF iValid /\ iReady
                   THEN args
                   ELSE [s \in Sources |-> IF s \in rd THEN NoToken ELSE inputs[s]]
    /\ outputs' = [s \in Sinks |->
                     IF oValid /\ taking THEN NoToken
                     ELSE IF s \in rd THEN v[s] ELSE outputs[s]]
    /\ Served(v)
    /\ UNCHANGED << args, promised, calls >>

\* The program calls the function: i_data is set.
Call(a) ==
  /\ pc = "idle" /\ calls < MaxCalls
  /\ pc' = "waiting"
  /\ args' = a
  /\ promised' = Run(memory, a)
  /\ calls' = calls + 1
  /\ UNCHANGED << regs, inputs, outputs, oReady, response, memory >>

\* for (...; !top->i_ready; ...) clock_cycle();
AwaitReady ==
  /\ pc = "waiting" /\ ~ iReady
  /\ clock_cycle(FALSE, oReady)
  /\ UNCHANGED << oReady, pc >>

\* i_valid = 1; o_ready = 1; clock_cycle(); i_valid = 0;
Start ==
  /\ pc = "waiting" /\ iReady
  /\ oReady' = TRUE
  /\ clock_cycle(TRUE, TRUE)
  /\ pc' = "running"

\* for (...; !top->o_valid; ...) clock_cycle();
AwaitValid ==
  /\ pc = "running" /\ ~ oValid
  /\ clock_cycle(FALSE, oReady)
  /\ UNCHANGED << oReady, pc >>

\* return top->o_data0;  the clock stands still until the next call.
Return ==
  /\ pc = "running" /\ oValid
  /\ pc' = "idle"
  /\ UNCHANGED << regs, inputs, outputs, oReady, response, memory, args, promised, calls >>

Harness == AwaitReady \/ Start \/ AwaitValid \/ Return

Next == (\E a \in Calls : Call(a)) \/ Harness

Spec == Init /\ [][Next]_vars

\* The function keeps running once it is called.
FairSpec == Spec /\ WF_vars(Harness)

-----------------------------------------------------------------------------
(* Properties. *)

\* The type invariant.
TypeOK ==
  /\ DOMAIN regs = Index(Netlist)
  /\ RegistersOK(regs)
  /\ DOMAIN inputs = Sources /\ DOMAIN outputs = Sinks
  /\ DOMAIN memory = DOMAIN InitialMemory
  /\ oReady \in BOOLEAN
  /\ pc \in {"idle", "waiting", "running"}
  /\ args \in Calls
  /\ calls \in 0 .. MaxCalls

\* When a call returns, its results are those of this call, not what an earlier
\* one left in the result registers, and the memory is as the lambda leaves it:
\* every load has seen the stores before it.
ReturnsResult ==
  pc = "running" /\ oValid => /\ outputs = promised.results
                              /\ memory = promised.memory

\* The response that the memory broadcasts is awaited by one memory node, the
\* one whose request it answers, and none waits in vain.
awaiting == {k \in Index(Netlist) : IsMem(Netlist[k]) /\ regs[k].sent}
OneAwaits == Cardinality(awaiting) = IF Full(response) THEN 1 ELSE 0

\* Every call returns: neither wait of the harness runs into its timeout.
CallsReturn == pc = "waiting" ~> pc = "idle"
=============================================================================

---------------------------- MODULE ElasticNodes ----------------------------
(***************************************************************************)
(* The elastic (ready/valid) circuit that the HLS backend emits for each   *)
(* kind of RHLS node: jlm/hls/backend/rhls2firrtl/mlirgen.cpp, one MlirGen *)
(* method per kind.                                                        *)
(*                                                                         *)
(* A node is a record [kind, ins, outs, par]: the channels it reads and    *)
(* writes, and a parameter (the operation of a simple node, the capacity   *)
(* of a buffer).  In one clock cycle a channel carries a value -- NoToken  *)
(* when its valid signal is low -- and is ready or not.  For each kind,    *)
(*   Driven(n, r, v)        is what the node drives on its outputs,        *)
(*   Accepting(n, r, v, rd) is the set of inputs it raises ready on,       *)
(*   Clocked(n, r, v, rd)   is the content of its registers afterwards,    *)
(* given its registers r, the values v and the set rd of ready channels.   *)
(* A token moves over a channel in the cycles in which it is valid and     *)
(* ready.                                                                  *)
(***************************************************************************)
EXTENDS Naturals, Sequences

CONSTANTS
  NoToken,       \* a channel with valid low, or an empty register
  Compute(_, _)  \* Compute(op, args): what a simple node computes

Node(kind, ins, outs, par) == [kind |-> kind, ins |-> ins, outs |-> outs, par |-> par]

Index(s) == 1 .. Len(s)
Full(x)  == x # NoToken

\* The channels that a node reads and writes.
Reads(n)  == {n.ins[i] : i \in Index(n.ins)}
Drives(n) == {n.outs[i] : i \in Index(n.outs)}

-----------------------------------------------------------------------------
(* MlirGenSimpleNode: a join that fires when all inputs are valid.  Neither  *)
(* it nor MlirGenTrigger, MlirGenSink and the two muxless nodes below keep   *)
(* registers.                                                               *)

NoRegisters == << >>

AllValid(n, v) == \A i \in Index(n.ins) : Full(v[n.ins[i]])

SimpleDriven(n, v) ==
  << IF AllValid(n, v)
       THEN Compute(n.par, [i \in Index(n.ins) |-> v[n.ins[i]]])
       ELSE NoToken >>

SimpleAccepting(n, v, rd) ==
  {c \in Reads(n) : n.outs[1] \in rd /\ AllValid(n, v)}

(* MlirGenTrigger: passes its second input on together with the first.       *)

TriggerDriven(n, v) ==
  << IF Full(v[n.ins[1]]) THEN v[n.ins[2]] ELSE NoToken >>

TriggerAccepting(n, v, rd) ==
  {n.ins[i] : i \in {j \in {1, 2} : n.outs[1] \in rd /\ Full(v[n.ins[3 - j]])}}

-----------------------------------------------------------------------------
(* MlirGenFork: an eager fork.  The register is the set of outputs that have *)
(* fired for the token on the input (out_fired_reg).                         *)

ForkDriven(n, fired, v) ==
  [i \in Index(n.outs) |-> IF i \in fired THEN NoToken ELSE v[n.ins[1]]]

AllFired(n, fired, rd) == \A i \in Index(n.outs) : n.outs[i] \in rd \/ i \in fired

ForkAccepting(n, fired, rd) == IF AllFired(n, fired, rd) THEN {n.ins[1]} ELSE {}

\* (mutant: the registers keep what has fired when the input is taken)
ForkClockedKeep(n, fired, v, rd) ==
  fired \cup {i \in Index(n.outs) : n.outs[i] \in rd /\ Full(v[n.outs[i]])}

\* (mutant: the first output has fired when it is ready, be it valid or not)
ForkClockedUnseen(n, fired, v, rd) ==
  IF AllFired(n, fired, rd)
    THEN {}
    ELSE fired \cup {i \in Index(n.outs) :
                       n.outs[i] \in rd /\ (i = 1 \/ Full(v[n.outs[i]]))}

\* When everything has fired the registers are cleared, whether or not the
\* input is valid.
ForkClocked(n, fired, v, rd) ==
  IF AllFired(n, fired, rd)
    THEN {}
    ELSE fired \cup {i \in Index(n.outs) : n.outs[i] \in rd /\ Full(v[n.outs[i]])}

-----------------------------------------------------------------------------
(* MlirGenBuffer: a shift register whose slot 1 drives the output; the       *)
(* input is ready as long as the last slot is empty.  (Non-pass-through:     *)
(* add_loopvar creates no other.)                                            *)

BufferDriven(n, slots) == << slots[1] >>

BufferAccepting(n, slots) == IF Full(slots[n.par]) THEN {} ELSE {n.ins[1]}

\* Slot i is vacated in this cycle (shift_out<i-1>): the token in slot 1 leaves,
\* or there is a gap below slot i.
Moved(slots, out, i) == Full(slots[i]) /\ (out \/ \E j \in 1 .. (i - 1) : ~ Full(slots[j]))

\* (mutant: the token is put into the last slot, as long as that is empty)
BufferClockedLast(n, slots, v, rd) ==
  LET vacant(i)  == Moved(slots, n.outs[1] \in rd, i) \/ ~ Full(slots[i])
      next(i)    == IF i < n.par THEN slots[i + 1] ELSE NoToken
      accepted   == n.ins[1] \in rd /\ Full(v[n.ins[1]])
  IN [i \in 1 .. n.par |->
        IF ~ vacant(i) THEN slots[i]
        ELSE IF Full(next(i)) THEN next(i)
        ELSE IF accepted /\ i = n.par THEN v[n.ins[1]] ELSE NoToken]

\* (mutant: no in_consumed wires, every slot that becomes empty takes the token)
BufferClockedCopies(n, slots, v, rd) ==
  LET vacant(i)  == Moved(slots, n.outs[1] \in rd, i) \/ ~ Full(slots[i])
      next(i)    == IF i < n.par THEN slots[i + 1] ELSE NoToken
      accepted   == n.ins[1] \in rd /\ Full(v[n.ins[1]])
  IN [i \in 1 .. n.par |->
        IF ~ vacant(i) THEN slots[i]
        ELSE IF Full(next(i)) THEN next(i)
        ELSE IF accepted THEN v[n.ins[1]] ELSE NoToken]

\* A slot that is empty or vacated takes the token of the next slot, or else the
\* incoming one, unless an earlier slot has taken that (in_consumed<i-1>).
BufferClocked(n, slots, v, rd) ==
  LET vacant(i)  == Moved(slots, n.outs[1] \in rd, i) \/ ~ Full(slots[i])
      next(i)    == IF i < n.par THEN slots[i + 1] ELSE NoToken
      accepted   == n.ins[1] \in rd /\ Full(v[n.ins[1]])
      consumed(i) == \E j \in 1 .. (i - 1) : vacant(j) /\ ~ Full(next(j))
  IN [i \in 1 .. n.par |->
        IF ~ vacant(i) THEN slots[i]
        ELSE IF Full(next(i)) THEN next(i)
        ELSE IF accepted /\ ~ consumed(i) THEN v[n.ins[1]] ELSE NoToken]

-----------------------------------------------------------------------------
(* MlirGenPredicationBuffer: one register, full with 0 after reset; an empty *)
(* one passes the input through.                                            *)

\* (mutant: an incoming token bypasses the one that is held)
PredicateBufferDrivenBypass(n, buf, v) ==
  << IF Full(v[n.ins[1]]) THEN v[n.ins[1]] ELSE buf >>

PredicateBufferDriven(n, buf, v) == << IF Full(buf) THEN buf ELSE v[n.ins[1]] >>

PredicateBufferAccepting(n, buf) == IF Full(buf) THEN {} ELSE {n.ins[1]}

\* (mutant: a token that passes through is kept as well)
PredicateBufferClockedKeep(n, buf, v, rd) ==
  IF n.ins[1] \in rd /\ Full(v[n.ins[1]]) THEN v[n.ins[1]]
  ELSE IF n.outs[1] \in rd /\ Full(v[n.outs[1]]) THEN NoToken ELSE buf

\* The `when' on the output comes last and wins.
PredicateBufferClocked(n, buf, v, rd) ==
  IF n.outs[1] \in rd /\ Full(v[n.outs[1]]) THEN NoToken
  ELSE IF n.ins[1] \in rd /\ Full(v[n.ins[1]]) THEN v[n.ins[1]] ELSE buf

-----------------------------------------------------------------------------
(* MlirGenBranch: the first input says to which output the second one goes.  *)
(* A predicate that says none is never taken.                               *)

BranchDriven(n, v) ==
  [i \in Index(n.outs) |-> IF v[n.ins[1]] = i - 1 THEN v[n.ins[2]] ELSE NoToken]

BranchReady(n, v, rd) ==
  \E i \in Index(n.outs) : v[n.ins[1]] = i - 1 /\ n.outs[i] \in rd

\* (mutant: the predicate is taken without waiting for the data)
BranchAcceptingEarly(n, v, rd) ==
  IF BranchReady(n, v, rd) THEN {n.ins[1], n.ins[2]} ELSE {}

BranchAccepting(n, v, rd) ==
  IF BranchReady(n, v, rd)
    THEN {n.ins[2]} \cup (IF Full(v[n.ins[2]]) THEN {n.ins[1]} ELSE {})
    ELSE {}

-----------------------------------------------------------------------------
(* MlirGenNDMux: the first input says which of the others is passed on: none *)
(* as long as it is not valid, or when it is out of range.                   *)

Chosen(n, v) == {i \in 2 .. Len(n.ins) : v[n.ins[1]] = i - 2}

\* (mutant: a merge: the first alternative that is valid is passed on)
MuxDrivenMerge(n, v) ==
  LET valid == {i \in 2 .. Len(n.ins) : Full(v[n.ins[i]])}
  IN << IF Full(v[n.ins[1]]) /\ valid # {}
          THEN v[n.ins[CHOOSE i \in valid : \A j \in valid : i <= j]]
          ELSE NoToken >>

MuxDriven(n, v) ==
  << IF Chosen(n, v) = {} THEN NoToken ELSE v[n.ins[CHOOSE i \in Chosen(n, v) : TRUE]] >>

MuxAccepting(n, v, rd) ==
  IF n.outs[1] \notin rd
    THEN {}
    ELSE {n.ins[i] : i \in Chosen(n, v)}
           \cup {n.ins[1] : i \in {j \in Chosen(n, v) : Full(v[n.ins[j]])}}

-----------------------------------------------------------------------------
(* MlirGenDMux: the discarding mux of a speculative gamma.  For each         *)
(* predicate it consumes one token on every alternative and passes on the    *)
(* chosen one.  Registers: the alternatives (input indices) of which a token *)
(* is still to be discarded, and whether discarding has begun for the        *)
(* predicate on the input (processed_reg).                                   *)

\* A predicate is served only while no discard is outstanding.
Serving(n, r, v) == Chosen(n, v) # {} /\ r.discard = {}

\* The i<j>_discard wires.
\* (mutant: the wires are raised again while the output waits)
DiscardAgain(n, r, v) ==
  r.discard \cup
    (IF Serving(n, r, v)
       THEN (2 .. Len(n.ins)) \ Chosen(n, v)
       ELSE {})

Discard(n, r, v) ==
  r.discard \cup
    (IF Serving(n, r, v) /\ ~ r.processed
       THEN (2 .. Len(n.ins)) \ Chosen(n, v)
       ELSE {})

DMuxDriven(n, r, v) == IF Serving(n, r, v) THEN MuxDriven(n, v) ELSE << NoToken >>

DMuxAccepting(n, r, v, rd) ==
  {n.ins[i] : i \in Discard(n, r, v)}
    \cup (IF Serving(n, r, v) THEN MuxAccepting(n, v, rd) ELSE {})

DMuxClocked(n, r, v, rd) ==
  [discard   |-> {i \in Discard(n, r, v) : ~ Full(v[n.ins[i]])},
   processed |-> IF n.outs[1] \in rd /\ Full(v[n.outs[1]])
                   THEN FALSE
                   ELSE r.processed \/ Serving(n, r, v)]

-----------------------------------------------------------------------------
(* MlirGenMem: a load reads an address and a memory state and writes the     *)
(* value and the state, a store reads an address, a value and a state and    *)
(* writes the state.  Registers: the outputs that are to be delivered, and   *)
(* whether a response is awaited (sent_reg).  par names the request port,    *)
(* which is ready in a cycle in which the request is granted; MemRes is the  *)
(* response port, which all memory nodes share.                              *)

IsMem(n) == n.kind \in {"load", "store"}

MemRes == "mem_res"

\* One request is on its way at a time, and none while a result waits.
CanRequest(n, r, v) ==
  ~ r.sent /\ AllValid(n, v) /\ \A i \in Index(n.outs) : ~ Full(r.out[i])

MemAccepting(n, rd) == {n.ins[i] : i \in {j \in Index(n.ins) : n.par \in rd}}

\* (mutant: any response is taken, awaited or not)
MemClockedAnyResponse(n, r, v, rd) ==
  LET granted == n.par \in rd
      responded == Full(v[MemRes])
      set(i) == CASE n.kind = "load" /\ i = 1 /\ responded -> v[MemRes]
                  [] n.kind = "load" /\ i = 2 /\ granted -> v[n.ins[2]]
                  [] n.kind = "store" /\ granted -> v[n.ins[3]]
                  [] OTHER -> r.out[i]
  IN [sent |-> ~ responded /\ (r.sent \/ granted),
      out  |-> [i \in Index(n.outs) |->
                  IF Full(r.out[i]) /\ n.outs[i] \in rd THEN NoToken ELSE set(i)]]

\* The state is passed on when the request is granted, the loaded value when the
\* response arrives; a result that is handed over is cleared last.
MemClocked(n, r, v, rd) ==
  LET granted == n.par \in rd
      responded == r.sent /\ Full(v[MemRes])
      set(i) == CASE n.kind = "load" /\ i = 1 /\ responded -> v[MemRes]
                  [] n.kind = "load" /\ i = 2 /\ granted -> v[n.ins[2]]
                  [] n.kind = "store" /\ granted -> v[n.ins[3]]
                  [] OTHER -> r.out[i]
  IN [sent |-> ~ responded /\ (r.sent \/ granted),
      out  |-> [i \in Index(n.outs) |->
                  IF Full(r.out[i]) /\ n.outs[i] \in rd THEN NoToken ELSE set(i)]]

-----------------------------------------------------------------------------
(* The dispatch on the operation of a node (MLIRGenImpl::MlirGen).           *)

InitialRegisters(n) ==
  CASE n.kind = "fork"   -> {}
    [] n.kind = "buffer" -> [i \in 1 .. n.par |-> NoToken]
    [] n.kind = "predbuf" -> 0
    [] n.kind = "dmux"   -> [discard |-> {}, processed |-> FALSE]
    [] IsMem(n) -> [sent |-> FALSE, out |-> [i \in Index(n.outs) |-> NoToken]]
    [] OTHER -> NoRegisters

Driven(n, r, v) ==
  CASE n.kind = "simple"  -> SimpleDriven(n, v)
    [] n.kind = "trigger" -> TriggerDriven(n, v)
    [] n.kind = "print"   -> << v[n.ins[1]] >>
    [] n.kind = "sink"    -> << >>
    [] n.kind = "fork"    -> ForkDriven(n, r, v)
    [] n.kind = "buffer"  -> BufferDriven(n, r)
    [] n.kind = "predbuf" -> PredicateBufferDriven(n, r, v)
    [] n.kind = "branch"  -> BranchDriven(n, v)
    [] n.kind = "mux"     -> MuxDriven(n, v)
    [] n.kind = "dmux"    -> DMuxDriven(n, r, v)
    [] IsMem(n)           -> r.out

Accepting(n, r, v, rd) ==
  CASE n.kind = "simple"  -> SimpleAccepting(n, v, rd)
    [] n.kind = "trigger" -> TriggerAccepting(n, v, rd)
    [] n.kind = "print"   -> {n.ins[i] : i \in {j \in {1} : n.outs[1] \in rd}}
    [] n.kind = "sink"    -> {n.ins[1]}
    [] n.kind = "fork"    -> ForkAccepting(n, r, rd)
    [] n.kind = "buffer"  -> BufferAccepting(n, r)
    [] n.kind = "predbuf" -> PredicateBufferAccepting(n, r)
    [] n.kind = "branch"  -> BranchAccepting(n, v, rd)
    [] n.kind = "mux"     -> MuxAccepting(n, v, rd)
    [] n.kind = "dmux"    -> DMuxAccepting(n, r, v, rd)
    [] IsMem(n)           -> MemAccepting(n, rd)

Clocked(n, r, v, rd) ==
  CASE n.kind = "fork"    -> ForkClocked(n, r, v, rd)
    [] n.kind = "buffer"  -> BufferClocked(n, r, v, rd)
    [] n.kind = "predbuf" -> PredicateBufferClocked(n, r, v, rd)
    [] n.kind = "dmux"    -> DMuxClocked(n, r, v, rd)
    [] IsMem(n)           -> MemClocked(n, r, v, rd)
    [] OTHER -> NoRegisters

\* Nodes whose ready signal depends on their registers only: where the ready
\* signals of a loop begin.
RegisteredReady(n) == n.kind \in {"buffer", "predbuf", "sink"}
=============================================================================

---------------------------- MODULE ElasticBuffer ----------------------------
(***************************************************************************)
(* The buffer circuit (MlirGenBuffer) in an arbitrary environment, and the *)
(* queue that it implements.                                               *)
(***************************************************************************)
EXTENDS ElasticNodes, FiniteSets

CONSTANTS Capacity, Data

ASSUME CapacityAssumption == Capacity \in Nat \ {0}
ASSUME NoTokenAssumption == NoToken \notin Data

VARIABLES
  slots,  \* the registers of the buffer
  input,  \* the token offered to the buffer in this cycle, or NoToken
  taking  \* the output is ready in this cycle

vars == << slots, input, taking >>

buffer == Node("buffer", << "in" >>, << "out" >>, Capacity)

\* The values of the channels, and those that are ready, in this cycle.
wires == [in |-> input, out |-> BufferDriven(buffer, slots)[1]]
ready == BufferAccepting(buffer, slots) \cup {c \in {"out"} : taking}

Init ==
  /\ slots = InitialRegisters(buffer)
  /\ input \in Data \cup {NoToken}
  /\ taking \in BOOLEAN

Clock ==
  /\ slots' = BufferClocked(buffer, slots, wires, ready)
  /\ input' \in Data \cup {NoToken}
  /\ taking' \in BOOLEAN

Spec == Init /\ [][Clock]_vars

-----------------------------------------------------------------------------
(* Properties. *)

\* The tokens held, the oldest first: the full slots are the first ones.
held    == Cardinality({i \in 1 .. Capacity : Full(slots[i])})
content == SubSeq(slots, 1, held)

queue == INSTANCE Fifo WITH queue <- content

\* The buffer is a bounded queue: in every cycle it takes the token that is
\* offered if and only if it holds less than its capacity, hands out the oldest
\* one, and drops, duplicates or reorders none, although
\* tokens move through its slots while others enter and leave.
IsFifo == queue!Spec

\* What the buffer shows to its neighbours is what the queue would show: valid
\* when it holds a token, with the oldest, and ready when it is not full.
ShowsFifo ==
  /\ wires.out = IF content = << >> THEN NoToken ELSE content[1]
  /\ "in" \in ready <=> Len(content) < Capacity
=============================================================================

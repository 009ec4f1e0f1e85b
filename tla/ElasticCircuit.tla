--------------------------- MODULE ElasticCircuit ---------------------------
(***************************************************************************)
(* A region of RHLS nodes connected by ready/valid channels, clocked.      *)
(*                                                                         *)
(* The netlist holds no memory nodes.  The rest of the design is the       *)
(* environment: sources that offer a stream of tokens, each whenever it    *)
(* likes, and sinks that are ready in whatever cycles they like.  An offer *)
(* stands until it is taken, as that of a register does.                   *)
(***************************************************************************)
EXTENDS ElasticNetlist

CONSTANTS
  Tokens,    \* Tokens[s]: the tokens that source s offers, in order
  Expected   \* Expected[s]: what sink s shall receive, in order

ASSUME MemoryAssumption == \A k \in Index(Netlist) : ~ IsMem(Netlist[k])
ASSUME TokensAssumption ==
  \A s \in Sources :
    Tokens[s] \in Seq({Tokens[s][i] : i \in Index(Tokens[s])} \ {NoToken})

VARIABLES
  regs,      \* regs[k]: the registers of node Netlist[k]
  taken,     \* taken[s]: how many tokens of source s were taken
  received,  \* received[s]: the tokens sink s has received
  wires,     \* wires[c]: the value of channel c in this clock cycle
  ready      \* the channels that are ready in this clock cycle

vars == << regs, taken, received, wires, ready >>

\* A token moves over channel c in this cycle.
Fires(c) == Full(wires[c]) /\ c \in ready

\* Source s has tokens left after t[s] of them were taken.
Left(s, t) == t[s] < Len(Tokens[s])

\* The wires settle in a cycle in which the sources o offer a token and the
\* sinks a are ready (w and rd are the wires and ready signals of that cycle).
Settles(o, a, r, t, w, rd) ==
  /\ \A s \in o : Left(s, t)
  /\ w = Values(r, [s \in Sources |-> IF s \in o THEN Tokens[s][t[s] + 1] ELSE NoToken])
  /\ rd = Readies(r, w, a)

Init ==
  /\ regs = Reset
  /\ taken = [s \in Sources |-> 0]
  /\ received = [s \in Sinks |-> << >>]
  /\ \E o \in SUBSET Sources, a \in SUBSET Sinks : Settles(o, a, regs, taken, wires, ready)

\* The clock edge that ends a cycle, and the next cycle, in which a source that
\* was not served offers the same token again.
Clock ==
  /\ regs' = Latched(regs, wires, ready)
  /\ taken' = [s \in Sources |-> IF Fires(s) THEN taken[s] + 1 ELSE taken[s]]
  /\ received' = [s \in Sinks |->
                    IF Fires(s) THEN Append(received[s], wires[s]) ELSE received[s]]
  /\ \E o \in SUBSET Sources, a \in SUBSET Sinks :
       /\ {s \in Sources : Full(wires[s]) /\ s \notin ready} \subseteq o
       /\ Settles(o, a, regs', taken', wires', ready')

Spec == Init /\ [][Clock]_vars

\* The clock keeps ticking (every step is a tick, and as the sinks may choose
\* whether they are ready, there is a step from every state), no source withholds
\* its next token for ever and no sink refuses for ever.
Fairness ==
  /\ []<><< TRUE >>_vars
  /\ \A s \in Sources : []<>(Left(s, taken) => Full(wires[s]))
  /\ \A s \in Sinks : []<>(s \in ready)

FairSpec == Spec /\ Fairness

-----------------------------------------------------------------------------
(* Properties. *)

\* The type invariant.
TypeOK ==
  /\ taken \in [Sources -> Nat]
  /\ \A s \in Sources : taken[s] <= Len(Tokens[s])
  /\ ready \subseteq Channels
  /\ DOMAIN wires = Channels
  /\ DOMAIN regs = Index(Netlist)
  /\ RegistersOK(regs)

\* s is a prefix of t.
Prefix(s, t) == Len(s) <= Len(t) /\ SubSeq(t, 1, Len(s)) = s

\* However sources and sinks stall, every sink receives what the program that
\* was converted to the circuit computes, in program order: no token is lost,
\* duplicated, overtaken or paired with one of another invocation ("enforce 1:1
\* input output relationship", rvsdg2rhls.cpp).
InProgramOrder == \A s \in Sinks : Prefix(received[s], Expected[s])

\* A token on a channel stays there, unchanged, until it is accepted: nodes may
\* rely on an offer once they have seen it (a fork does, when it hands the token
\* to the outputs one by one).
Persists == \A c \in Channels : Full(wires[c]) /\ c \notin ready => wires'[c] = wires[c]
OffersPersist == [][Persists]_vars

\* When the last result has been delivered and no source has anything left, the
\* registers are as after reset, so that the circuit can be used again.
Finished == /\ \A s \in Sinks : received[s] = Expected[s]
            /\ \A s \in Sources : ~ Left(s, taken)
Quiescent == Finished => regs = Reset

\* The circuit never stalls for ever: all inputs are taken and all results are
\* delivered.
Completes == <>Finished
=============================================================================

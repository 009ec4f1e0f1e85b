--------------------------- MODULE ElasticNetlist ---------------------------
(***************************************************************************)
(* The nodes of a region or loop, instantiated and connected               *)
(* (MLIRGenImpl::MlirGen in mlirgen.cpp), and how the wires between them   *)
(* settle in a clock cycle.                                                *)
(***************************************************************************)
EXTENDS ElasticNodes

CONSTANTS
  Netlist,   \* the nodes, such that within a cycle values flow from left to right
  Sources,   \* the channels that the surroundings of the region drive
  Sinks      \* the channels that they read

\* What the first k nodes and the surroundings drive.
DrivenBy(k) == Sources \cup UNION {Drives(Netlist[j]) : j \in 1 .. k}

Channels == DrivenBy(Len(Netlist))

\* The ports that the nodes of each kind have.
PortsOK(n) ==
  CASE n.kind = "simple"              -> Len(n.outs) = 1
    [] n.kind = "trigger"             -> Len(n.ins) = 2 /\ Len(n.outs) = 1
    [] n.kind \in {"print", "predbuf"} -> Len(n.ins) = 1 /\ Len(n.outs) = 1
    [] n.kind = "sink"                -> Len(n.ins) = 1 /\ Len(n.outs) = 0
    [] n.kind = "fork"                -> Len(n.ins) = 1 /\ Len(n.outs) > 0
    [] n.kind = "buffer"              -> /\ Len(n.ins) = 1 /\ Len(n.outs) = 1
                                         /\ n.par \in Nat \ {0}
    [] n.kind = "branch"              -> Len(n.ins) = 2
    [] n.kind \in {"mux", "dmux"}      -> Len(n.ins) > 1 /\ Len(n.outs) = 1
    [] n.kind = "load"                -> Len(n.ins) = 2 /\ Len(n.outs) = 2
    [] n.kind = "store"               -> Len(n.ins) = 3 /\ Len(n.outs) = 1
    [] OTHER                          -> FALSE

\* Nodes whose outputs depend on their registers only.
RegisteredValid(n) == n.kind = "buffer" \/ IsMem(n)

\* A channel is driven once and read once (add_forks, add_sinks and check_rhls
\* see to that), and every loop goes through a buffer.
ASSUME NetlistAssumption ==
  /\ Netlist \in Seq({Netlist[k] : k \in Index(Netlist)})
  /\ Sinks \subseteq Channels
  /\ \A k \in Index(Netlist) :
       LET n == Netlist[k] IN
       /\ n.ins \in Seq(Channels) /\ n.outs \in Seq(Channels) /\ PortsOK(n)
       /\ \A i \in Index(n.outs) : /\ n.outs[i] \notin DrivenBy(k - 1)
                                   /\ \A j \in Index(n.outs) : n.outs[i] = n.outs[j] => i = j
       /\ ~ RegisteredValid(n) => Reads(n) \subseteq DrivenBy(k - 1)
       /\ Reads(n) \cap Sinks = {}
       /\ \A j \in Index(Netlist) : j # k => Reads(n) \cap Reads(Netlist[j]) = {}

\* The memory nodes have a request port each, and share the response port.
ASSUME PortsAssumption ==
  /\ MemRes \notin Channels
  /\ \A k \in {j \in Index(Netlist) : IsMem(Netlist[j])} :
       /\ Netlist[k].par \notin Channels
       /\ \A j \in Index(Netlist) :
            IsMem(Netlist[j]) /\ Netlist[j].par = Netlist[k].par => j = k

\* A predicate is a number.
ASSUME NoTokenAssumption == NoToken \notin Nat

\* The wires v of a cycle together with those that node k drives, given v.
Extended(k, r, v) ==
  LET n   == Netlist[k]
      out == Driven(n, r[k], v)
  IN [c \in DOMAIN v \cup Drives(n) |->
        IF c \in DOMAIN v THEN v[c] ELSE out[CHOOSE i \in Index(n.outs) : n.outs[i] = c]]

\* The element of a singleton.  (Values and Readies bind what they computed so
\* far to a variable in this way, which makes TLC compute it once.)
The(S) == CHOOSE x \in S : TRUE

\* The values that the channels settle at in a cycle with registers r in which
\* the surroundings drive the channels in the domain of d.
Values(r, d) ==
  LET flow[k \in 0 .. Len(Netlist)] ==
        IF k = 0 THEN d ELSE The({Extended(k, r, v) : v \in {flow[k - 1]}})
  IN flow[Len(Netlist)]

\* The memory nodes whose request is valid; that of the first one is granted.
Requests(r, v) ==
  {k \in Index(Netlist) : IsMem(Netlist[k]) /\ CanRequest(Netlist[k], r[k], v)}

First(K) == CHOOSE k \in K : \A j \in K : k <= j

Granted(r, v) ==
  {Netlist[k].par : k \in {j \in Requests(r, v) : j = First(Requests(r, v))}}

\* The channels that are ready in a cycle with registers r and values v in which
\* the surroundings are ready on the channels a: ready signals flow from right
\* to left, those of a loop from the nodes that derive them from registers.
Readies(r, v, a) ==
  LET L == Len(Netlist)
      flow[k \in 1 .. (L + 1)] ==
        IF k = L + 1
          THEN a \cup UNION {Accepting(Netlist[j], r[j], v, {}) :
                               j \in {i \in Index(Netlist) : RegisteredReady(Netlist[i])}}
          ELSE The({rd \cup Accepting(Netlist[k], r[k], v, rd) : rd \in {flow[k + 1]}})
  IN flow[1]

\* The registers after reset, and after a clock edge.
Reset == [k \in Index(Netlist) |-> InitialRegisters(Netlist[k])]

Latched(r, v, rd) == [k \in Index(Netlist) |-> Clocked(Netlist[k], r[k], v, rd)]

\* What the registers hold: a fork is cleared as soon as all its outputs have
\* fired, the full slots of a buffer are its first ones, a dmux does not discard
\* what it passes on, and a memory node that awaits a response has room for it.
RegistersOK(r) ==
  \A k \in Index(Netlist) :
    LET n == Netlist[k] IN
    /\ n.kind = "fork" => r[k] \subseteq Index(n.outs) /\ r[k] # Index(n.outs)
    /\ n.kind = "buffer" => \A i \in 2 .. n.par : Full(r[k][i]) => Full(r[k][i - 1])
    /\ n.kind = "dmux" => /\ r[k].discard \subseteq 2 .. Len(n.ins)
                          /\ r[k].discard # 2 .. Len(n.ins)
    /\ IsMem(n) => (r[k].sent /\ n.kind = "load" => ~ Full(r[k].out[1]))
=============================================================================

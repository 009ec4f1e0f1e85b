------------------------ MODULE ElasticNetlistProofs ------------------------
(***************************************************************************)
(* How the wires of a netlist settle, whatever the netlist is.             *)
(***************************************************************************)
EXTENDS ElasticNetlist, WellFoundedInduction, TLAPS

\* Induction over the natural numbers, for a set of numbers.
LEMMA SetInduction ==
  ASSUME NEW A, 0 \in A, \A k \in Nat : k \in A => k + 1 \in A
  PROVE  Nat \subseteq A
<1> SUFFICES ASSUME Nat \ A # {} PROVE FALSE
  OBVIOUS
<1>1. IsWellFoundedOn(OpToRel(<, Nat), Nat)
  BY NatLessThanWellFounded
<1>2. PICK k \in Nat \ A : \A j \in Nat \ A : << j, k >> \notin OpToRel(<, Nat)
  <2>1. Nat \ A \subseteq Nat
    OBVIOUS
  <2> QED BY <1>1, <2>1, WFMin
<1>3. k \in Nat /\ k \notin A /\ k # 0
  BY <1>2
<1>4. k - 1 \in Nat /\ k - 1 < k /\ (k - 1) + 1 = k
  BY <1>3
<1>5. k - 1 \in A
  BY <1>2, <1>3, <1>4 DEF OpToRel
<1> QED BY <1>3, <1>4, <1>5

-----------------------------------------------------------------------------
(* The ports of a node. *)

LEMMA NetlistIndex ==
  /\ Len(Netlist) \in Nat /\ DOMAIN Netlist = Index(Netlist)
  /\ Index(Netlist) = 1 .. Len(Netlist)
BY NetlistAssumption DEF Index

LEMMA NodePorts ==
  ASSUME NEW k \in Index(Netlist), NEW n, n = Netlist[k]
  PROVE  /\ n.ins \in Seq(Channels) /\ Len(n.ins) \in Nat
         /\ n.outs \in Seq(Channels) /\ Len(n.outs) \in Nat
         /\ PortsOK(n)
         /\ Reads(n) \subseteq Channels /\ Drives(n) \subseteq Channels
         /\ n.kind \in {"simple", "trigger", "print", "predbuf", "sink", "fork", "buffer",
                        "branch", "mux", "dmux", "load", "store"}
<1>1. n.ins \in Seq(Channels) /\ n.outs \in Seq(Channels) /\ PortsOK(n)
  BY NetlistAssumption
<1>2. Len(n.ins) \in Nat /\ Len(n.outs) \in Nat
  BY <1>1
<1>3. Reads(n) \subseteq Channels /\ Drives(n) \subseteq Channels
  BY <1>1, <1>2 DEF Reads, Drives, Index
<1>4. n.kind \in {"simple", "trigger", "print", "predbuf", "sink", "fork", "buffer",
                  "branch", "mux", "dmux", "load", "store"}
  BY <1>1 DEF PortsOK
<1> QED BY <1>1, <1>2, <1>3, <1>4

\* What PortsOK says, kind by kind.
LEMMA Arity ==
  ASSUME NEW n, PortsOK(n)
  PROVE  /\ n.kind = "simple" => Len(n.outs) = 1
         /\ n.kind = "trigger" => Len(n.ins) = 2 /\ Len(n.outs) = 1
         /\ n.kind = "print" => Len(n.ins) = 1 /\ Len(n.outs) = 1
         /\ n.kind = "predbuf" => Len(n.ins) = 1 /\ Len(n.outs) = 1
         /\ n.kind = "sink" => Len(n.ins) = 1 /\ Len(n.outs) = 0
         /\ n.kind = "fork" => Len(n.ins) = 1 /\ Len(n.outs) > 0
         /\ n.kind = "buffer" => Len(n.ins) = 1 /\ Len(n.outs) = 1 /\ n.par \in Nat \ {0}
         /\ n.kind = "branch" => Len(n.ins) = 2
         /\ n.kind = "mux" => Len(n.ins) > 1 /\ Len(n.outs) = 1
         /\ n.kind = "dmux" => Len(n.ins) > 1 /\ Len(n.outs) = 1
         /\ n.kind = "load" => Len(n.ins) = 2 /\ Len(n.outs) = 2
         /\ n.kind = "store" => Len(n.ins) = 3 /\ Len(n.outs) = 1
BY DEF PortsOK

\* What a node does, kind by kind.
LEMMA DrivenOf ==
  ASSUME NEW n, NEW r, NEW v
  PROVE  /\ n.kind = "simple" => Driven(n, r, v) = SimpleDriven(n, v)
         /\ n.kind = "trigger" => Driven(n, r, v) = TriggerDriven(n, v)
         /\ n.kind = "print" => Driven(n, r, v) = << v[n.ins[1]] >>
         /\ n.kind = "sink" => Driven(n, r, v) = << >>
         /\ n.kind = "fork" => Driven(n, r, v) = ForkDriven(n, r, v)
         /\ n.kind = "buffer" => Driven(n, r, v) = BufferDriven(n, r)
         /\ n.kind = "predbuf" => Driven(n, r, v) = PredicateBufferDriven(n, r, v)
         /\ n.kind = "branch" => Driven(n, r, v) = BranchDriven(n, v)
         /\ n.kind = "mux" => Driven(n, r, v) = MuxDriven(n, v)
         /\ n.kind = "dmux" => Driven(n, r, v) = DMuxDriven(n, r, v)
         /\ n.kind \in {"load", "store"} => Driven(n, r, v) = r.out
BY DEF Driven, IsMem

LEMMA AcceptingOf ==
  ASSUME NEW n, NEW r, NEW v, NEW rd
  PROVE  /\ n.kind = "simple" => Accepting(n, r, v, rd) = SimpleAccepting(n, v, rd)
         /\ n.kind = "trigger" => Accepting(n, r, v, rd) = TriggerAccepting(n, v, rd)
         /\ n.kind = "print" => Accepting(n, r, v, rd)
                                = {n.ins[i] : i \in {j \in {1} : n.outs[1] \in rd}}
         /\ n.kind = "sink" => Accepting(n, r, v, rd) = {n.ins[1]}
         /\ n.kind = "fork" => Accepting(n, r, v, rd) = ForkAccepting(n, r, rd)
         /\ n.kind = "buffer" => Accepting(n, r, v, rd) = BufferAccepting(n, r)
         /\ n.kind = "predbuf" => Accepting(n, r, v, rd) = PredicateBufferAccepting(n, r)
         /\ n.kind = "branch" => Accepting(n, r, v, rd) = BranchAccepting(n, v, rd)
         /\ n.kind = "mux" => Accepting(n, r, v, rd) = MuxAccepting(n, v, rd)
         /\ n.kind = "dmux" => Accepting(n, r, v, rd) = DMuxAccepting(n, r, v, rd)
         /\ n.kind \in {"load", "store"} => Accepting(n, r, v, rd) = MemAccepting(n, rd)
BY DEF Accepting, IsMem

LEMMA ClockedOf ==
  ASSUME NEW n, NEW r, NEW v, NEW rd
  PROVE  /\ n.kind = "fork" => Clocked(n, r, v, rd) = ForkClocked(n, r, v, rd)
         /\ n.kind = "buffer" => Clocked(n, r, v, rd) = BufferClocked(n, r, v, rd)
         /\ n.kind = "predbuf" => Clocked(n, r, v, rd) = PredicateBufferClocked(n, r, v, rd)
         /\ n.kind = "dmux" => Clocked(n, r, v, rd) = DMuxClocked(n, r, v, rd)
         /\ n.kind \in {"load", "store"} => Clocked(n, r, v, rd) = MemClocked(n, r, v, rd)
BY DEF Clocked, IsMem

LEMMA InitialOf ==
  ASSUME NEW n
  PROVE  /\ n.kind = "fork" => InitialRegisters(n) = {}
         /\ n.kind = "buffer" => InitialRegisters(n) = [i \in 1 .. n.par |-> NoToken]
         /\ n.kind = "dmux" => InitialRegisters(n) = [discard |-> {}, processed |-> FALSE]
         /\ n.kind \in {"load", "store"} =>
              InitialRegisters(n) = [sent |-> FALSE, out |-> [i \in Index(n.outs) |-> NoToken]]
BY DEF InitialRegisters, IsMem

-----------------------------------------------------------------------------
(* What a node drives depends on the channels it reads only, and it is ready  *)
(* on no other.                                                              *)

LEMMA DrivenLocal ==
  ASSUME NEW k \in Index(Netlist), NEW n, n = Netlist[k], NEW r, NEW v, NEW w,
         ~ RegisteredValid(n) => \A c \in Reads(n) : v[c] = w[c]
  PROVE  Driven(n, r, v) = Driven(n, r, w)
<1>1. /\ PortsOK(n) /\ Len(n.ins) \in Nat /\ Len(n.outs) \in Nat
      /\ n.kind \in {"simple", "trigger", "print", "predbuf", "sink", "fork", "buffer",
                     "branch", "mux", "dmux", "load", "store"}
  BY NodePorts
<1>2. CASE RegisteredValid(n)
  <2>1. n.kind = "buffer" \/ n.kind \in {"load", "store"}
    BY <1>2 DEF RegisteredValid, IsMem
  <2> QED BY <2>1, DrivenOf DEF BufferDriven
<1>3. CASE ~ RegisteredValid(n)
  <2>1. \A i \in Index(n.ins) : v[n.ins[i]] = w[n.ins[i]]
    BY <1>3 DEF Reads
  <2>2. Index(n.ins) = 1 .. Len(n.ins)
    BY DEF Index
  <2>3. AllValid(n, v) = AllValid(n, w)
    BY <2>1 DEF AllValid
  <2>4. SimpleDriven(n, v) = SimpleDriven(n, w)
    <3>1. [i \in Index(n.ins) |-> v[n.ins[i]]] = [i \in Index(n.ins) |-> w[n.ins[i]]]
      BY <2>1
    <3> QED BY <2>3, <3>1 DEF SimpleDriven
  <2>5. Len(n.ins) > 1 => Chosen(n, v) = Chosen(n, w)
    BY <1>1, <2>1, <2>2 DEF Chosen
  <2>6. Len(n.ins) > 1 => MuxDriven(n, v) = MuxDriven(n, w)
    <3> SUFFICES ASSUME Len(n.ins) > 1 PROVE MuxDriven(n, v) = MuxDriven(n, w)
      OBVIOUS
    <3>1. CASE Chosen(n, v) = {}
      BY <3>1, <2>5 DEF MuxDriven
    <3>2. CASE Chosen(n, v) # {}
      <4> DEFINE i == CHOOSE i \in Chosen(n, v) : TRUE
      <4>1. i \in Chosen(n, v)
        BY <3>2
      <4>2. i \in Index(n.ins)
        BY <4>1, <1>1, <2>2 DEF Chosen
      <4>3. v[n.ins[i]] = w[n.ins[i]]
        BY <4>2, <2>1
      <4> QED BY <3>2, <4>3, <2>5 DEF MuxDriven
    <3> QED BY <3>1, <3>2
  <2>7. n.kind = "trigger" => Driven(n, r, v) = Driven(n, r, w)
    BY <1>1, <2>1, <2>2, DrivenOf, Arity DEF TriggerDriven
  <2>8. n.kind \in {"print", "predbuf", "fork", "sink"} => Driven(n, r, v) = Driven(n, r, w)
    <3>1. n.kind \in {"print", "predbuf", "fork"} => v[n.ins[1]] = w[n.ins[1]]
      BY <1>1, <2>1, <2>2, Arity
    <3> QED BY <3>1, DrivenOf DEF PredicateBufferDriven, ForkDriven
  <2>9. n.kind = "branch" => Driven(n, r, v) = Driven(n, r, w)
    <3>1. n.kind = "branch" => v[n.ins[1]] = w[n.ins[1]] /\ v[n.ins[2]] = w[n.ins[2]]
      BY <1>1, <2>1, <2>2, Arity
    <3> QED BY <3>1, DrivenOf DEF BranchDriven
  <2>10. n.kind \in {"mux", "dmux", "simple"} => Driven(n, r, v) = Driven(n, r, w)
    <3>1. n.kind \in {"mux", "dmux"} => Len(n.ins) > 1
      BY <1>1, Arity
    <3> QED BY <3>1, <2>4, <2>5, <2>6, DrivenOf DEF DMuxDriven, Serving
  <2>11. n.kind \notin {"buffer", "load", "store"}
    BY <1>3 DEF RegisteredValid, IsMem
  <2> QED BY <1>1, <2>7, <2>8, <2>9, <2>10, <2>11
<1> QED BY <1>2, <1>3

LEMMA AcceptingReads ==
  ASSUME NEW k \in Index(Netlist), NEW n, n = Netlist[k], NEW r, NEW v, NEW rd,
         n.kind = "dmux" => r.discard \subseteq 2 .. Len(n.ins)
  PROVE  Accepting(n, r, v, rd) \subseteq Reads(n)
<1>1. /\ PortsOK(n) /\ Len(n.ins) \in Nat /\ Len(n.outs) \in Nat
      /\ n.kind \in {"simple", "trigger", "print", "predbuf", "sink", "fork", "buffer",
                     "branch", "mux", "dmux", "load", "store"}
  BY NodePorts
<1>2. \A i \in 1 .. Len(n.ins) : n.ins[i] \in Reads(n)
  BY DEF Reads, Index
<1>3. CASE n.kind = "simple"
  BY <1>3, AcceptingOf DEF SimpleAccepting
<1>4. CASE n.kind = "trigger"
  BY <1>1, <1>2, <1>4, AcceptingOf, Arity DEF TriggerAccepting
<1>5. CASE n.kind \in {"print", "predbuf", "sink", "fork", "buffer"}
  <2>1. n.ins[1] \in Reads(n)
    BY <1>1, <1>2, <1>5, Arity
  <2> QED BY <2>1, <1>5, AcceptingOf
          DEF ForkAccepting, BufferAccepting, PredicateBufferAccepting
<1>6. CASE n.kind = "branch"
  <2>1. n.ins[1] \in Reads(n) /\ n.ins[2] \in Reads(n)
    BY <1>1, <1>2, <1>6, Arity
  <2> QED BY <2>1, <1>6, AcceptingOf DEF BranchAccepting
<1>7. n.kind \in {"mux", "dmux"} => MuxAccepting(n, v, rd) \subseteq Reads(n)
  <2>1. n.kind \in {"mux", "dmux"} => Len(n.ins) > 1
    BY <1>1, Arity
  <2>2. \A i \in Chosen(n, v) : i \in 1 .. Len(n.ins)
    BY <1>1 DEF Chosen
  <2>3. Len(n.ins) > 1 => n.ins[1] \in Reads(n)
    BY <1>1, <1>2
  <2> QED BY <1>2, <2>1, <2>2, <2>3 DEF MuxAccepting
<1>8. CASE n.kind = "mux"
  BY <1>7, <1>8, AcceptingOf
<1>9. CASE n.kind = "dmux"
  <2>1. \A i \in 2 .. Len(n.ins) : n.ins[i] \in Reads(n)
    BY <1>1, <1>2
  <2>2. Discard(n, r, v) \subseteq 2 .. Len(n.ins)
    BY <1>9 DEF Discard
  <2> QED BY <1>7, <1>9, <2>1, <2>2, AcceptingOf DEF DMuxAccepting
<1>10. CASE n.kind \in {"load", "store"}
  BY <1>10, AcceptingOf DEF MemAccepting, Reads
<1> QED BY <1>1, <1>3, <1>4, <1>5, <1>6, <1>8, <1>9, <1>10

-----------------------------------------------------------------------------
(* The values.  (Values and Readies are recursive functions: that there is   *)
(* such a function is shown first, for the nodes up to each one.)            *)

LEMMA SingletonValue ==
  ASSUME NEW x
  PROVE  The({x}) = x
BY DEF The

LEMMA ValuesFlow ==
  ASSUME NEW r, NEW d
  PROVE  \E f : /\ f[0] = d
                /\ \A k \in Index(Netlist) : f[k] = Extended(k, r, f[k - 1])
                /\ Values(r, d) = f[Len(Netlist)]
<1> DEFINE L == Len(Netlist)
           Flow(f, m) == f = [k \in 0 .. m |-> IF k = 0 THEN d ELSE Extended(k, r, f[k - 1])]
           A == {m \in Nat : \E f : Flow(f, m)}
<1>1. L \in Nat /\ Index(Netlist) = 1 .. L
  BY NetlistIndex
<1>2. 0 \in A
  <2> DEFINE f == [k \in 0 .. 0 |-> d]
  <2>1. Flow(f, 0)
    OBVIOUS
  <2> QED BY <2>1
<1>3. ASSUME NEW m \in Nat, m \in A
      PROVE  m + 1 \in A
  <2>1. PICK f : Flow(f, m)
    BY <1>3
  <2> DEFINE h == [k \in 0 .. m + 1 |-> IF k = m + 1 THEN Extended(m + 1, r, f[m]) ELSE f[k]]
  <2>2. ASSUME NEW k \in 0 .. m + 1
        PROVE  h[k] = IF k = 0 THEN d ELSE Extended(k, r, h[k - 1])
    <3>1. CASE k = 0
      BY <2>1, <3>1
    <3>2. CASE k = m + 1
      <4>1. k # 0 /\ k - 1 = m /\ m \in 0 .. m + 1 /\ m # m + 1
        BY <3>2
      <4>2. h[m] = f[m]
        BY <4>1
      <4>3. h[k] = Extended(m + 1, r, f[m])
        BY <3>2
      <4> QED BY <3>2, <4>1, <4>2, <4>3
    <3>3. CASE k # 0 /\ k # m + 1
      <4>1. k \in 0 .. m /\ k - 1 \in 0 .. m /\ k - 1 \in 0 .. m + 1 /\ k - 1 # m + 1
        BY <3>3
      <4>2. f[k] = Extended(k, r, f[k - 1])
        BY <2>1, <3>3, <4>1
      <4>3. h[k] = f[k] /\ h[k - 1] = f[k - 1]
        BY <3>3, <4>1
      <4> QED BY <3>3, <4>2, <4>3
    <3> QED BY <3>1, <3>2, <3>3
  <2>3. h = [k \in 0 .. m + 1 |-> h[k]]
    OBVIOUS
  <2> HIDE DEF h
  <2>4. Flow(h, m + 1)
    BY <2>2, <2>3
  <2> QED BY <2>4
<1>4. PICK f : Flow(f, L)
  <2> HIDE DEF A, Flow
  <2>1. L \in A
    BY <1>1, <1>2, <1>3, SetInduction
  <2> QED BY <2>1 DEF A
<1> DEFINE Rounds(g) == g = [k \in 0 .. L |-> IF k = 0 THEN d
                               ELSE The({Extended(k, r, v) : v \in {g[k - 1]}})]
           flow == CHOOSE g : Rounds(g)
<1>5. ASSUME NEW g
      PROVE  Flow(g, L) <=> Rounds(g)
  <2>1. ASSUME NEW k
        PROVE  The({Extended(k, r, v) : v \in {g[k - 1]}}) = Extended(k, r, g[k - 1])
    <3>1. {Extended(k, r, v) : v \in {g[k - 1]}} = {Extended(k, r, g[k - 1])}
      OBVIOUS
    <3> QED BY <3>1, SingletonValue
  <2> QED BY <2>1
<1>6. Flow(flow, L)
  <2> HIDE DEF Rounds, Flow
  <2>1. Rounds(f)
    BY <1>4, <1>5
  <2>2. Rounds(flow)
    BY <2>1
  <2> QED BY <1>5, <2>2
<1>7. Values(r, d) = flow[L]
  BY Zenon DEF Values
<1> HIDE DEF flow
<1>8. flow[0] = d
  BY <1>1, <1>6
<1>9. \A k \in Index(Netlist) : flow[k] = Extended(k, r, flow[k - 1])
  <2>1. \A k \in Index(Netlist) : k \in 0 .. L /\ k # 0
    BY <1>1
  <2> QED BY <1>6, <2>1
<1> QED BY <1>7, <1>8, <1>9

\* What is ready to begin with.
Base(r, v, a) ==
  a \cup UNION {Accepting(Netlist[j], r[j], v, {}) :
                  j \in {i \in Index(Netlist) : RegisteredReady(Netlist[i])}}

\* What is ready in the end, and what each node found to be ready.
LEMMA ReadiesFlow ==
  ASSUME NEW r, NEW v, NEW a
  PROVE  \E f : /\ f[Len(Netlist) + 1] = Base(r, v, a)
                /\ \A k \in Index(Netlist) :
                     f[k] = f[k + 1] \cup Accepting(Netlist[k], r[k], v, f[k + 1])
                /\ Readies(r, v, a) = f[1]
<1> DEFINE L == Len(Netlist)
           base == a \cup UNION {Accepting(Netlist[j], r[j], v, {}) :
                               j \in {i \in Index(Netlist) : RegisteredReady(Netlist[i])}}
           New(k, rd) == rd \cup Accepting(Netlist[k], r[k], v, rd)
           Flow(f, m) == f = [k \in m .. L + 1 |-> IF k = L + 1 THEN base ELSE New(k, f[k + 1])]
           A == {m \in Nat : m <= L => \E f : Flow(f, L + 1 - m)}
<1>1. L \in Nat /\ Index(Netlist) = 1 .. L
  BY NetlistIndex
<1> DEFINE Rounds(g) == g = [k \in 1 .. L + 1 |-> IF k = L + 1 THEN base
                               ELSE The({rd \cup Accepting(Netlist[k], r[k], v, rd) : rd \in {g[k + 1]}})]
           flow == CHOOSE g : Rounds(g)
<1>7. Readies(r, v, a) = flow[1]
  BY Zenon DEF Readies
<1>5. ASSUME NEW g
      PROVE  Flow(g, 1) <=> Rounds(g)
  <2>1. ASSUME NEW k
        PROVE  The({rd \cup Accepting(Netlist[k], r[k], v, rd) : rd \in {g[k + 1]}}) = New(k, g[k + 1])
    <3>1. {rd \cup Accepting(Netlist[k], r[k], v, rd) : rd \in {g[k + 1]}} = {New(k, g[k + 1])}
      OBVIOUS
    <3> HIDE DEF New
    <3> QED BY <3>1, SingletonValue
  <2> HIDE DEF New, base, L
  <2> QED BY <2>1
<1> HIDE DEF New, base, L
<1>2. 0 \in A
  <2> DEFINE f == [k \in L + 1 .. L + 1 |-> base]
  <2>1. L + 1 - 0 = L + 1
    BY <1>1
  <2>2. Flow(f, L + 1)
    BY <1>1
  <2> HIDE DEF Flow
  <2> QED BY <2>1, <2>2
<1>3. ASSUME NEW m \in Nat, m \in A
      PROVE  m + 1 \in A
  <2> SUFFICES ASSUME m + 1 <= L PROVE \E f : Flow(f, L + 1 - (m + 1))
    OBVIOUS
  <2> DEFINE i == L + 1 - m
             j == L + 1 - (m + 1)
  <2>0. /\ i \in Nat /\ j \in Nat /\ j + 1 = i /\ j < L + 1 /\ i <= L + 1
    BY <1>1
  <2>1. PICK f : Flow(f, i)
    BY <1>3, <1>1
  <2> HIDE DEF i, j
  <2> DEFINE h == [k \in j .. L + 1 |-> IF k = j THEN New(j, f[i]) ELSE f[k]]
  <2>2. ASSUME NEW k \in j .. L + 1
        PROVE  h[k] = IF k = L + 1 THEN base ELSE New(k, h[k + 1])
    <3>1. CASE k = j
      <4>1. k # L + 1 /\ k + 1 = i /\ i \in j .. L + 1 /\ i # j
        BY <2>0, <3>1, <1>1
      <4>2. h[i] = f[i]
        BY <4>1
      <4>3. h[k] = New(j, f[i])
        BY <3>1
      <4> QED BY <3>1, <4>1, <4>2, <4>3
    <3>2. CASE k # j /\ k # L + 1
      <4>1. /\ k \in i .. L + 1 /\ k + 1 \in i .. L + 1
            /\ k + 1 \in j .. L + 1 /\ k + 1 # j
        BY <3>2, <2>0, <1>1
      <4>2. f[k] = New(k, f[k + 1])
        BY <2>1, <3>2, <4>1
      <4>3. h[k] = f[k] /\ h[k + 1] = f[k + 1]
        BY <3>2, <4>1
      <4> QED BY <3>2, <4>2, <4>3
    <3>3. CASE k = L + 1
      <4>1. k # j /\ k \in i .. L + 1
        BY <3>3, <2>0, <1>1
      <4>2. f[k] = base
        BY <2>1, <3>3, <4>1
      <4>3. h[k] = f[k]
        BY <4>1
      <4> QED BY <3>3, <4>2, <4>3
    <3> QED BY <3>1, <3>2, <3>3
  <2>3. h = [k \in j .. L + 1 |-> h[k]]
    OBVIOUS
  <2> HIDE DEF h
  <2>4. Flow(h, j)
    BY <2>2, <2>3
  <2> HIDE DEF Flow
  <2> QED BY <2>4 DEF j
<1>4. PICK f : Flow(f, 1)
  <2> HIDE DEF A, Flow
  <2>1. L \in A
    BY <1>1, <1>2, <1>3, SetInduction
  <2>2. L + 1 - L = 1
    BY <1>1
  <2> QED BY <1>1, <2>1, <2>2 DEF A
<1>6. Flow(flow, 1)
  <2> HIDE DEF Rounds, Flow
  <2>1. Rounds(f)
    BY <1>4, <1>5
  <2>2. Rounds(flow)
    BY <2>1
  <2> QED BY <1>5, <2>2
<1> HIDE DEF flow
<1>8. flow[L + 1] = base
  BY <1>1, <1>6
<1>9. \A k \in Index(Netlist) : flow[k] = New(k, flow[k + 1])
  <2>1. \A k \in Index(Netlist) : k \in 1 .. L + 1 /\ k # L + 1
    BY <1>1
  <2> QED BY <1>6, <2>1
<1> QED BY <1>7, <1>8, <1>9 DEF L, base, New, Base

\* The values w are those of d and what the nodes drive, given w.
Follow(w, r, d) ==
  /\ DOMAIN w = DOMAIN d \cup Channels
  /\ \A c \in DOMAIN d : w[c] = d[c]
  /\ \A k \in Index(Netlist) : \A i \in Index(Netlist[k].outs) :
       w[Netlist[k].outs[i]] = Driven(Netlist[k], r[k], w)[i]

\* The rest of the design drives Sources, and perhaps the response of the memory.
LEMMA ValuesAre ==
  ASSUME NEW r, NEW d, Sources \subseteq DOMAIN d, DOMAIN d \subseteq Sources \cup {MemRes}
  PROVE  Follow(Values(r, d), r, d)
<1> DEFINE L == Len(Netlist)
<1>1. L \in Nat /\ Index(Netlist) = 1 .. L
  BY NetlistIndex
<1>2. PICK f : /\ f[0] = d
               /\ \A k \in Index(Netlist) : f[k] = Extended(k, r, f[k - 1])
               /\ Values(r, d) = f[L]
  BY ValuesFlow
<1> HIDE DEF L
<1>3. DrivenBy(0) = Sources
  BY DEF DrivenBy
<1>4. ASSUME NEW k \in Index(Netlist)
      PROVE  DrivenBy(k) = DrivenBy(k - 1) \cup Drives(Netlist[k])
  <2>1. \A j : j \in 1 .. k <=> j \in 1 .. k - 1 \/ j = k
    BY <1>1
  <2> QED BY <2>1 DEF DrivenBy
<1>5. ASSUME NEW k \in Index(Netlist)
      PROVE  /\ DOMAIN f[k] = DOMAIN f[k - 1] \cup Drives(Netlist[k])
             /\ \A c \in DOMAIN f[k - 1] : f[k][c] = f[k - 1][c]
  <2>1. f[k] = Extended(k, r, f[k - 1])
    BY <1>2
  <2> QED BY <2>1 DEF Extended
<1>6. ASSUME NEW k \in Nat, k <= L
      PROVE  DOMAIN f[k] = DOMAIN d \cup DrivenBy(k)
  <2> DEFINE A == {m \in Nat : m <= L => DOMAIN f[m] = DOMAIN d \cup DrivenBy(m)}
  <2>1. 0 \in A
    BY <1>2, <1>3
  <2>2. ASSUME NEW m \in Nat, m \in A
        PROVE  m + 1 \in A
    <3> SUFFICES ASSUME m + 1 <= L PROVE DOMAIN f[m + 1] = DOMAIN d \cup DrivenBy(m + 1)
      OBVIOUS
    <3>1. m + 1 \in Index(Netlist) /\ (m + 1) - 1 = m /\ m <= L
      BY <1>1
    <3>2. DOMAIN f[m + 1] = DOMAIN f[m] \cup Drives(Netlist[m + 1])
      BY <3>1, <1>5
    <3>3. DrivenBy(m + 1) = DrivenBy(m) \cup Drives(Netlist[m + 1])
      BY <3>1, <1>4
    <3>4. DOMAIN f[m] = DOMAIN d \cup DrivenBy(m)
      BY <3>1, <2>2
    <3> QED BY <3>2, <3>3, <3>4
  <2> HIDE DEF A
  <2>3. k \in A
    BY <2>1, <2>2, SetInduction
  <2> QED BY <2>3, <1>6 DEF A
<1>7. ASSUME NEW j \in Nat, NEW k \in Nat, j <= k, k <= L, NEW c \in DOMAIN f[j]
      PROVE  c \in DOMAIN f[k] /\ f[k][c] = f[j][c]
  <2> DEFINE A == {m \in Nat : j <= m /\ m <= L => c \in DOMAIN f[m] /\ f[m][c] = f[j][c]}
  <2>1. 0 \in A
    OBVIOUS
  <2>2. ASSUME NEW m \in Nat, m \in A
        PROVE  m + 1 \in A
    <3> SUFFICES ASSUME j <= m + 1, m + 1 <= L
                 PROVE  c \in DOMAIN f[m + 1] /\ f[m + 1][c] = f[j][c]
      OBVIOUS
    <3>1. CASE j = m + 1
      BY <3>1
    <3>2. CASE j # m + 1
      <4>1. m + 1 \in Index(Netlist) /\ (m + 1) - 1 = m /\ m <= L /\ j <= m
        BY <1>1, <3>2
      <4>2. c \in DOMAIN f[m] /\ f[m][c] = f[j][c]
        BY <4>1, <2>2
      <4>3. c \in DOMAIN f[m + 1] /\ f[m + 1][c] = f[m][c]
        BY <4>1, <4>2, <1>5
      <4> QED BY <4>2, <4>3
    <3> QED BY <3>1, <3>2
  <2> HIDE DEF A
  <2>3. k \in A
    BY <2>1, <2>2, SetInduction
  <2> QED BY <2>3, <1>7 DEF A
<1> DEFINE V == f[L]
<1>8. DOMAIN V = DOMAIN d \cup Channels
  BY <1>1, <1>6 DEF Channels, L
<1>9. ASSUME NEW c \in DOMAIN d
      PROVE  V[c] = d[c]
  BY <1>1, <1>2, <1>7
<1>10. ASSUME NEW k \in Index(Netlist), NEW i \in Index(Netlist[k].outs)
       PROVE  V[Netlist[k].outs[i]] = Driven(Netlist[k], r[k], V)[i]
  <2> DEFINE n == Netlist[k]
             c == n.outs[i]
             u == f[k - 1]
  <2>1. k - 1 \in Nat /\ k \in Nat /\ k - 1 <= k /\ k <= L /\ k - 1 <= L
    BY <1>1
  <2>2. DOMAIN u = DOMAIN d \cup DrivenBy(k - 1)
    BY <2>1, <1>6
  <2>3. c \in Drives(n) /\ c \in Channels
    <3>1. c \in Drives(n)
      BY DEF Drives
    <3> QED BY <3>1, NodePorts
  <2>4. /\ c \notin DrivenBy(k - 1)
        /\ \A j \in Index(n.outs) : c = n.outs[j] => i = j
    BY NetlistAssumption
  <2>5. c \notin DOMAIN u
    <3>1. Sources \subseteq DrivenBy(k - 1)
      BY DEF DrivenBy
    <3> QED BY <2>2, <2>3, <2>4, <3>1, PortsAssumption
  <2>6. f[k] = Extended(k, r, u)
    BY <1>2
  <2>7. (CHOOSE j \in Index(n.outs) : n.outs[j] = c) = i
    BY <2>4
  <2>8. f[k][c] = Driven(n, r[k], u)[i]
    BY <2>3, <2>5, <2>6, <2>7 DEF Extended
  <2>9. V[c] = f[k][c]
    <3>1. c \in DOMAIN f[k]
      BY <2>3, <1>5
    <3> QED BY <2>1, <1>1, <1>7, <3>1
  <2>10. Driven(n, r[k], u) = Driven(n, r[k], V)
    <3>1. ASSUME ~ RegisteredValid(n), NEW b \in Reads(n)
          PROVE  u[b] = V[b]
      <4>1. b \in DOMAIN u
        BY <2>2, <3>1, NetlistAssumption
      <4> QED BY <2>1, <1>1, <1>7, <4>1
    <3> HIDE DEF n, u, V
    <3> QED BY <3>1, DrivenLocal DEF n
  <2> QED BY <2>8, <2>9, <2>10
<1>11. Follow(V, r, d)
  <2> HIDE DEF V
  <2> QED BY <1>8, <1>9, <1>10 DEF Follow
<1> QED BY <1>2, <1>11

-----------------------------------------------------------------------------
(* The ready signals. *)

\* Ready signals that are derived from registers only.
LEMMA RegisteredAccepting ==
  ASSUME NEW n, RegisteredReady(n), NEW r, NEW v, NEW rd, NEW rs
  PROVE  Accepting(n, r, v, rd) = Accepting(n, r, v, rs)
<1>1. n.kind \in {"buffer", "predbuf", "sink"}
  BY DEF RegisteredReady
<1> QED BY <1>1, AcceptingOf

\* The surroundings are ready on the channels a.  Every node saw some of the
\* channels that are ready in the end, and it alone is ready on those it reads.
LEMMA ReadiesAre ==
  ASSUME NEW r, NEW v, NEW a,
         \A k \in Index(Netlist) :
           Netlist[k].kind = "dmux" => r[k].discard \subseteq 2 .. Len(Netlist[k].ins)
  PROVE  /\ a \subseteq Readies(r, v, a)
         /\ \A c \in Readies(r, v, a) :
              c \in a \/ \E k \in Index(Netlist) : c \in Reads(Netlist[k])
         /\ \A k \in Index(Netlist) : RegisteredReady(Netlist[k]) =>
              Accepting(Netlist[k], r[k], v, {}) \subseteq Readies(r, v, a)
         /\ \A k \in Index(Netlist) : \E rd \in SUBSET Readies(r, v, a) :
              \A c \in Reads(Netlist[k]) \ a :
                c \in Readies(r, v, a) <=> c \in Accepting(Netlist[k], r[k], v, rd)
<1> DEFINE L == Len(Netlist)
           base == Base(r, v, a)
           Acc(k, rd) == Accepting(Netlist[k], r[k], v, rd)
           R == Readies(r, v, a)
<1>1. L \in Nat /\ Index(Netlist) = 1 .. L
  BY NetlistIndex
<1>2. PICK f : /\ f[L + 1] = base
               /\ \A k \in Index(Netlist) : f[k] = f[k + 1] \cup Acc(k, f[k + 1])
               /\ R = f[1]
  BY ReadiesFlow
<1>3. \A rd : \A k \in Index(Netlist) : Acc(k, rd) \subseteq Reads(Netlist[k])
  BY AcceptingReads
<1>4. /\ a \subseteq base
      /\ \A k \in Index(Netlist) : RegisteredReady(Netlist[k]) => Acc(k, {}) \subseteq base
      /\ \A c \in base : c \in a \/ \E k \in Index(Netlist) :
                                      RegisteredReady(Netlist[k]) /\ c \in Acc(k, {})
  BY DEF Base
<1>5. \A rd : \A k \in Index(Netlist) : RegisteredReady(Netlist[k]) => Acc(k, rd) = Acc(k, {})
  BY RegisteredAccepting
<1> HIDE DEF L, base, Acc, R
\* What is ready in the round for node L + 1 - m comes from a, or from a node
\* that has registered signals or had its turn.
<1> DEFINE A == {m \in Nat : m <= L =>
                   /\ base \subseteq f[L + 1 - m]
                   /\ \A i \in Nat : i <= m => f[L + 1 - i] \subseteq f[L + 1 - m]
                   /\ \A c \in f[L + 1 - m] :
                        \/ c \in a
                        \/ \E k \in Index(Netlist) :
                             /\ c \in Acc(k, {}) /\ RegisteredReady(Netlist[k])
                        \/ \E k \in Index(Netlist) :
                             /\ k >= L + 1 - m /\ c \in Acc(k, f[k + 1])}
<1>6. 0 \in A
  <2>1. L + 1 - 0 = L + 1 /\ \A i \in Nat : i <= 0 => L + 1 - i = L + 1
    BY <1>1
  <2> QED BY <1>2, <1>4, <2>1
<1>7. ASSUME NEW m \in Nat, m \in A
      PROVE  m + 1 \in A
  <2> DEFINE j == L + 1 - (m + 1)
  <2> SUFFICES ASSUME m + 1 <= L
               PROVE  /\ base \subseteq f[j]
                      /\ \A i \in Nat : i <= m + 1 => f[L + 1 - i] \subseteq f[j]
                      /\ \A c \in f[j] :
                           \/ c \in a
                           \/ \E k \in Index(Netlist) :
                                /\ c \in Acc(k, {}) /\ RegisteredReady(Netlist[k])
                           \/ \E k \in Index(Netlist) : k >= j /\ c \in Acc(k, f[k + 1])
    OBVIOUS
  <2>1. j \in Index(Netlist) /\ j + 1 = L + 1 - m /\ m <= L
    BY <1>1
  <2>2. f[j] = f[j + 1] \cup Acc(j, f[j + 1])
    BY <2>1, <1>2
  <2>3. /\ base \subseteq f[j + 1]
        /\ \A i \in Nat : i <= m => f[L + 1 - i] \subseteq f[j + 1]
        /\ \A c \in f[j + 1] :
             \/ c \in a
             \/ \E k \in Index(Netlist) :
                  /\ c \in Acc(k, {}) /\ RegisteredReady(Netlist[k])
             \/ \E k \in Index(Netlist) : k >= j + 1 /\ c \in Acc(k, f[k + 1])
    BY <1>7, <2>1
  <2>4. \A i \in Nat : i <= m + 1 => i <= m \/ L + 1 - i = j
    BY <1>1
  <2>5. \A k \in Index(Netlist) : k >= j + 1 => k >= j
    BY <1>1, <2>1
  <2>6. j >= j
    BY <1>1, <2>1
  <2> HIDE DEF j
  <2>7. \A i \in Nat : i <= m + 1 => f[L + 1 - i] \subseteq f[j]
    BY <2>2, <2>3, <2>4
  <2>8. ASSUME NEW c \in f[j]
        PROVE  \/ c \in a
               \/ \E k \in Index(Netlist) :
                    /\ c \in Acc(k, {}) /\ RegisteredReady(Netlist[k])
               \/ \E k \in Index(Netlist) : k >= j /\ c \in Acc(k, f[k + 1])
    <3>1. CASE c \in f[j + 1]
      BY <2>3, <2>5, <3>1
    <3>2. CASE c \in Acc(j, f[j + 1])
      BY <2>1, <2>6, <3>2
    <3> QED BY <2>2, <3>1, <3>2
  <2> QED BY <2>2, <2>3, <2>7, <2>8
<1>8. L \in A
  <2> HIDE DEF A
  <2> QED BY <1>1, <1>6, <1>7, SetInduction
<1>9. L + 1 - L = 1
  BY <1>1
<1>10. /\ base \subseteq R
       /\ \A i \in Nat : i <= L => f[L + 1 - i] \subseteq R
       /\ \A c \in R : \/ c \in a
                       \/ \E k \in Index(Netlist) :
                            /\ c \in Acc(k, {}) /\ RegisteredReady(Netlist[k])
                       \/ \E k \in Index(Netlist) : c \in Acc(k, f[k + 1])
  BY <1>1, <1>2, <1>8, <1>9
<1>11. \A k \in Index(Netlist) : f[k + 1] \subseteq R /\ f[k] \subseteq R
  <2> SUFFICES ASSUME NEW k \in Index(Netlist) PROVE f[k + 1] \subseteq R /\ f[k] \subseteq R
    OBVIOUS
  <2>1. /\ L - k \in Nat /\ L - k <= L /\ L + 1 - (L - k) = k + 1
        /\ L + 1 - k \in Nat /\ L + 1 - k <= L /\ L + 1 - (L + 1 - k) = k
    BY <1>1
  <2> QED BY <2>1, <1>10
<1>12. ASSUME NEW k \in Index(Netlist)
       PROVE  \E rd \in SUBSET R : \A c \in Reads(Netlist[k]) \ a :
                c \in R <=> c \in Acc(k, rd)
  <2>1. f[k + 1] \in SUBSET R /\ Acc(k, f[k + 1]) \subseteq R
    BY <1>2, <1>11
  <2>2. ASSUME NEW c \in Reads(Netlist[k]) \ a, c \in R
        PROVE  c \in Acc(k, f[k + 1])
    <3>1. PICK j \in Index(Netlist) :
            c \in Acc(j, f[j + 1]) \/ (c \in Acc(j, {}) /\ RegisteredReady(Netlist[j]))
      BY <1>10, <2>2
    <3>2. c \in Reads(Netlist[j])
      BY <1>3, <3>1
    <3>3. j = k
      BY <3>2, NetlistAssumption
    <3> QED BY <3>1, <3>3, <1>5
  <2> QED BY <2>1, <2>2
<1>13. \A c \in R : c \in a \/ \E k \in Index(Netlist) : c \in Reads(Netlist[k])
  BY <1>3, <1>10
<1>14. \A k \in Index(Netlist) : RegisteredReady(Netlist[k]) => Acc(k, {}) \subseteq R
  BY <1>4, <1>10
<1>15. a \subseteq R
  BY <1>4, <1>10
<1> QED BY <1>12, <1>13, <1>14, <1>15 DEF Acc, R

-----------------------------------------------------------------------------
(* The registers. *)

\* The slots of a buffer stay packed.
LEMMA BufferPacked ==
  ASSUME NEW n, n.par \in Nat \ {0}, NEW slots, NEW v, NEW rd,
         \A i \in 2 .. n.par : Full(slots[i]) => Full(slots[i - 1]),
         NEW i \in 2 .. n.par, Full(BufferClocked(n, slots, v, rd)[i])
  PROVE  Full(BufferClocked(n, slots, v, rd)[i - 1])
<1> DEFINE moved(k)  == Moved(slots, n.outs[1] \in rd, k)
           vacant(k) == moved(k) \/ ~ Full(slots[k])
           next(k)   == IF k < n.par THEN slots[k + 1] ELSE NoToken
           accepted  == n.ins[1] \in rd /\ Full(v[n.ins[1]])
           consumed(k) == \E j \in 1 .. (k - 1) : vacant(j) /\ ~ Full(next(j))
           after(k)  == IF ~ vacant(k) THEN slots[k]
                        ELSE IF Full(next(k)) THEN next(k)
                        ELSE IF accepted /\ ~ consumed(k) THEN v[n.ins[1]] ELSE NoToken
<1>1. /\ i \in 1 .. n.par /\ i - 1 \in 1 .. n.par /\ i - 1 < n.par /\ (i - 1) + 1 = i
      /\ i < n.par => i + 1 \in 2 .. n.par /\ (i + 1) - 1 = i
      /\ i - 1 \in 1 .. (i - 1)
      /\ \A j \in 1 .. ((i - 1) - 1) : j \in 1 .. (i - 1)
  OBVIOUS
<1>2. /\ BufferClocked(n, slots, v, rd)[i] = after(i)
      /\ BufferClocked(n, slots, v, rd)[i - 1] = after(i - 1)
  BY <1>1 DEF BufferClocked
<1>3. next(i - 1) = slots[i]
  BY <1>1
<1>4. Full(next(i)) => Full(slots[i])
  BY <1>1 DEF Full
<1>5. moved(i - 1) /\ Full(slots[i]) => moved(i)
  BY <1>1 DEF Moved
<1>6. Full(slots[i]) => Full(slots[i - 1])
  OBVIOUS
<1>7. ~ Full(NoToken)
  BY DEF Full
<1>8. accepted /\ ~ consumed(i) => ~ vacant(i - 1) \/ Full(next(i - 1))
  BY <1>1
<1>9. vacant(i - 1) <=> moved(i - 1) \/ ~ Full(slots[i - 1])
  OBVIOUS
<1>10. vacant(i) <=> moved(i) \/ ~ Full(slots[i])
  OBVIOUS
<1> HIDE DEF moved, vacant, next, accepted, consumed
<1>11. Full(after(i - 1))
  BY <1>2, <1>3, <1>4, <1>5, <1>6, <1>7, <1>8, <1>9, <1>10
<1> QED BY <1>2, <1>11

LEMMA ResetOK == RegistersOK(Reset)
<1> SUFFICES ASSUME NEW k \in Index(Netlist), NEW n, n = Netlist[k], NEW r, r = Reset[k]
             PROVE  /\ n.kind = "fork" => r \subseteq Index(n.outs) /\ r # Index(n.outs)
                    /\ n.kind = "buffer" => \A i \in 2 .. n.par : Full(r[i]) => Full(r[i - 1])
                    /\ n.kind = "dmux" => /\ r.discard \subseteq 2 .. Len(n.ins)
                                          /\ r.discard # 2 .. Len(n.ins)
                    /\ IsMem(n) => (r.sent /\ n.kind = "load" => ~ Full(r.out[1]))
  BY DEF RegistersOK
<1>1. PortsOK(n) /\ Len(n.ins) \in Nat /\ Len(n.outs) \in Nat
  BY NodePorts
<1>2. r = InitialRegisters(n)
  BY DEF Reset
<1>3. ASSUME n.kind = "fork"
      PROVE  r \subseteq Index(n.outs) /\ r # Index(n.outs)
  <2>1. r = {}
    BY <1>2, <1>3, InitialOf
  <2>2. Len(n.outs) > 0
    BY <1>1, <1>3, Arity
  <2>3. 1 \in Index(n.outs)
    BY <1>1, <2>2 DEF Index
  <2> QED BY <2>1, <2>3
<1>4. ASSUME n.kind = "buffer"
      PROVE  \A i \in 2 .. n.par : Full(r[i]) => Full(r[i - 1])
  <2>1. r = [i \in 1 .. n.par |-> NoToken]
    BY <1>2, <1>4, InitialOf
  <2>2. n.par \in Nat
    BY <1>1, <1>4, Arity
  <2> QED BY <2>1, <2>2 DEF Full
<1>5. ASSUME n.kind = "dmux"
      PROVE  r.discard \subseteq 2 .. Len(n.ins) /\ r.discard # 2 .. Len(n.ins)
  <2>1. r = [discard |-> {}, processed |-> FALSE]
    BY <1>2, <1>5, InitialOf
  <2>2. Len(n.ins) > 1
    BY <1>1, <1>5, Arity
  <2>3. 2 \in 2 .. Len(n.ins)
    BY <1>1, <2>2
  <2> QED BY <2>1, <2>3
<1>6. ASSUME IsMem(n)
      PROVE  ~ r.sent
  BY <1>2, <1>6, InitialOf DEF IsMem
<1> QED BY <1>3, <1>4, <1>5, <1>6

\* The clock edge; a request may only be granted to a node that makes it.
LEMMA LatchedOK ==
  ASSUME NEW r, NEW v, NEW rd, RegistersOK(r),
         \A k \in Index(Netlist) :
           IsMem(Netlist[k]) /\ Netlist[k].par \in rd => CanRequest(Netlist[k], r[k], v)
  PROVE  RegistersOK(Latched(r, v, rd))
<1> SUFFICES ASSUME NEW k \in Index(Netlist), NEW n, n = Netlist[k],
                    NEW s, s = Latched(r, v, rd)[k]
             PROVE  /\ n.kind = "fork" => s \subseteq Index(n.outs) /\ s # Index(n.outs)
                    /\ n.kind = "buffer" => \A i \in 2 .. n.par : Full(s[i]) => Full(s[i - 1])
                    /\ n.kind = "dmux" => /\ s.discard \subseteq 2 .. Len(n.ins)
                                          /\ s.discard # 2 .. Len(n.ins)
                    /\ IsMem(n) => (s.sent /\ n.kind = "load" => ~ Full(s.out[1]))
  BY DEF RegistersOK
<1> DEFINE q == r[k]
<1>1. PortsOK(n) /\ Len(n.ins) \in Nat /\ Len(n.outs) \in Nat
  BY NodePorts
<1>2. s = Clocked(n, q, v, rd)
  BY DEF Latched
<1>3. /\ n.kind = "fork" => q \subseteq Index(n.outs) /\ q # Index(n.outs)
      /\ n.kind = "buffer" => \A i \in 2 .. n.par : Full(q[i]) => Full(q[i - 1])
      /\ n.kind = "dmux" => q.discard \subseteq 2 .. Len(n.ins) /\ q.discard # 2 .. Len(n.ins)
      /\ IsMem(n) => (q.sent /\ n.kind = "load" => ~ Full(q.out[1]))
      /\ IsMem(n) /\ n.par \in rd => CanRequest(n, q, v)
  BY DEF RegistersOK
<1> HIDE DEF q
<1>4. ASSUME n.kind = "fork"
      PROVE  s \subseteq Index(n.outs) /\ s # Index(n.outs)
  <2>1. s = ForkClocked(n, q, v, rd)
    BY <1>2, <1>4, ClockedOf
  <2>2. CASE AllFired(n, q, rd)
    <3>1. s = {}
      BY <2>1, <2>2 DEF ForkClocked
    <3>2. Len(n.outs) > 0
      BY <1>1, <1>4, Arity
    <3>3. 1 \in Index(n.outs)
      BY <1>1, <3>2 DEF Index
    <3> QED BY <3>1, <3>3
  <2>3. CASE ~ AllFired(n, q, rd)
    <3>1. PICK i \in Index(n.outs) : n.outs[i] \notin rd /\ i \notin q
      BY <2>3 DEF AllFired
    <3>2. i \notin s /\ s \subseteq Index(n.outs)
      BY <2>1, <2>3, <3>1, <1>3, <1>4 DEF ForkClocked
    <3> QED BY <3>1, <3>2
  <2> QED BY <2>2, <2>3
<1>5. ASSUME n.kind = "buffer"
      PROVE  \A i \in 2 .. n.par : Full(s[i]) => Full(s[i - 1])
  <2>1. s = BufferClocked(n, q, v, rd) /\ n.par \in Nat \ {0}
    BY <1>1, <1>2, <1>5, ClockedOf, Arity
  <2>2. \A i \in 2 .. n.par : Full(q[i]) => Full(q[i - 1])
    BY <1>3, <1>5
  <2> QED BY <2>1, <2>2, BufferPacked
<1>6. ASSUME n.kind = "dmux"
      PROVE  s.discard \subseteq 2 .. Len(n.ins) /\ s.discard # 2 .. Len(n.ins)
  <2>0. s = DMuxClocked(n, q, v, rd)
    BY <1>2, <1>6, ClockedOf
  <2>1. s.discard = {i \in Discard(n, q, v) : ~ Full(v[n.ins[i]])}
    BY <2>0 DEF DMuxClocked
  <2>2. s.discard \subseteq Discard(n, q, v)
    BY <2>1
  <2>3. CASE Serving(n, q, v)
    <3>1. Discard(n, q, v) \subseteq (2 .. Len(n.ins)) \ Chosen(n, v)
      BY <2>3 DEF Discard, Serving
    <3>2. PICK i \in 2 .. Len(n.ins) : i \in Chosen(n, v)
      BY <2>3 DEF Serving, Chosen
    <3> QED BY <2>2, <3>1, <3>2
  <2>4. CASE ~ Serving(n, q, v)
    <3>1. Discard(n, q, v) = q.discard
      BY <2>4 DEF Discard
    <3> QED BY <2>2, <3>1, <1>3, <1>6
  <2> QED BY <2>3, <2>4
<1>7. ASSUME IsMem(n), n.kind = "load", s.sent
      PROVE  ~ Full(s.out[1])
  <2> DEFINE granted == n.par \in rd
             responded == q.sent /\ Full(v[MemRes])
             set(i) == CASE n.kind = "load" /\ i = 1 /\ responded -> v[MemRes]
                         [] n.kind = "load" /\ i = 2 /\ granted -> v[n.ins[2]]
                         [] n.kind = "store" /\ granted -> v[n.ins[3]]
                         [] OTHER -> q.out[i]
  <2>1. /\ s.sent <=> ~ responded /\ (q.sent \/ granted)
        /\ s.out = [i \in Index(n.outs) |->
                      IF Full(q.out[i]) /\ n.outs[i] \in rd THEN NoToken ELSE set(i)]
    <3>1. s = MemClocked(n, q, v, rd)
      BY <1>2, <1>7, ClockedOf DEF IsMem
    <3> DEFINE X == ~ responded /\ (q.sent \/ granted)
               Y == [i \in Index(n.outs) |->
                       IF Full(q.out[i]) /\ n.outs[i] \in rd THEN NoToken ELSE set(i)]
    <3>2. s = [sent |-> X, out |-> Y]
      BY <3>1, Zenon DEF MemClocked
    <3> HIDE DEF X, Y, granted, responded, set
    <3>3. s.sent = X /\ s.out = Y
      BY <3>2
    <3> QED BY <3>3, Zenon DEF X, Y
  <2>2. 1 \in Index(n.outs)
    <3>1. Len(n.outs) = 2
      BY <1>1, <1>7, Arity
    <3> QED BY <3>1 DEF Index
  <2>3. ~ Full(q.out[1])
    BY <1>3, <1>7, <2>1, <2>2 DEF CanRequest
  <2>4. set(1) = q.out[1]
    BY <1>7, <2>1
  <2>5. s.out[1] = q.out[1]
    BY <2>1, <2>2, <2>3, <2>4
  <2> QED BY <2>3, <2>5
<1> QED BY <1>4, <1>5, <1>6, <1>7
=============================================================================

-------------------------- MODULE RhlsLambdaProofs --------------------------
(***************************************************************************)
(* The memory of a lambda, whatever its region is.  All memory nodes share *)
(* the response port: that one of them waits for a response exactly in the *)
(* cycles in which there is one is what lets them do without an identifier *)
(* in the response.                                                        *)
(***************************************************************************)
EXTENDS RhlsLambda, ElasticNetlistProofs, FiniteSetTheorems

\* The program passes addresses of memory it owns.
InBounds == \A k \in Requests(regs, wires) : wires[Netlist[k].ins[1]] \in DOMAIN memory

-----------------------------------------------------------------------------
(* A clock cycle. *)

\* The memory nodes that are granted their request: the first one that has one.
GrantedNodes(r, v) == {k \in Requests(r, v) : k = First(Requests(r, v))}

\* The response is on the wires.
LEMMA ResponseWire == wires[MemRes] = response
<1> DEFINE d == [c \in Sources \cup {MemRes} |-> IF c = MemRes THEN response ELSE inputs[c]]
<1>1. wires = Values(regs, d)
  BY DEF wires
<1>2. Sources \subseteq DOMAIN d /\ DOMAIN d \subseteq Sources \cup {MemRes}
      /\ MemRes \in DOMAIN d /\ d[MemRes] = response
  OBVIOUS
<1> HIDE DEF d
<1>3. Follow(wires, regs, d)
  BY <1>1, <1>2, ValuesAre
<1> QED BY <1>2, <1>3 DEF Follow

\* A request port is ready when its node is granted its request.
LEMMA ReadyPorts ==
  ASSUME RegistersOK(regs), NEW k \in Index(Netlist), IsMem(Netlist[k])
  PROVE  Netlist[k].par \in ready <=> k \in GrantedNodes(regs, wires)
<1> DEFINE a == {s \in Sinks : ~ Full(outputs[s])} \cup Granted(regs, wires)
<1>1. ready = Readies(regs, wires, a)
  BY DEF ready
<1>2. \A j \in Index(Netlist) :
        Netlist[j].kind = "dmux" => regs[j].discard \subseteq 2 .. Len(Netlist[j].ins)
  BY DEF RegistersOK
<1> HIDE DEF a
<1>3. /\ a \subseteq ready
      /\ \A c \in ready : c \in a \/ \E j \in Index(Netlist) : c \in Reads(Netlist[j])
  BY <1>1, <1>2, ReadiesAre
<1>4. /\ Netlist[k].par \notin Channels
      /\ \A j \in Index(Netlist) :
           IsMem(Netlist[j]) /\ Netlist[j].par = Netlist[k].par => j = k
  BY PortsAssumption
<1>5. Sinks \subseteq Channels /\ \A j \in Index(Netlist) : Reads(Netlist[j]) \subseteq Channels
  BY NetlistAssumption, NodePorts
<1>6. Netlist[k].par \in ready <=> Netlist[k].par \in Granted(regs, wires)
  BY <1>3, <1>4, <1>5 DEF a
<1>7. Netlist[k].par \in Granted(regs, wires)
        <=> \E j \in GrantedNodes(regs, wires) : Netlist[j].par = Netlist[k].par
  BY DEF Granted, GrantedNodes
<1>8. \A j \in GrantedNodes(regs, wires) : j \in Index(Netlist) /\ IsMem(Netlist[j])
  BY DEF GrantedNodes, Requests
<1> QED BY <1>4, <1>6, <1>7, <1>8

\* So the clock edge leaves the registers in order.
LEMMA EdgeOK ==
  ASSUME RegistersOK(regs)
  PROVE  RegistersOK(Latched(regs, wires, ready))
<1>1. ASSUME NEW k \in Index(Netlist), IsMem(Netlist[k]), Netlist[k].par \in ready
      PROVE  CanRequest(Netlist[k], regs[k], wires)
  BY <1>1, ReadyPorts DEF GrantedNodes, Requests
<1> QED BY <1>1, LatchedOK

\* A node waits after the cycle if its request was granted or it waited already
\* and there was no response.
LEMMA SentAfter ==
  ASSUME NEW k \in Index(Netlist), IsMem(Netlist[k]), NEW r, NEW v, NEW rd
  PROVE  Latched(r, v, rd)[k].sent
           = (~ (r[k].sent /\ Full(v[MemRes])) /\ (r[k].sent \/ Netlist[k].par \in rd))
<1> DEFINE n == Netlist[k]
<1>1. Latched(r, v, rd)[k] = Clocked(n, r[k], v, rd)
  BY DEF Latched
<1>2. Clocked(n, r[k], v, rd) = MemClocked(n, r[k], v, rd)
  BY ClockedOf DEF IsMem
<1> DEFINE q == r[k]
           granted == n.par \in rd
           responded == q.sent /\ Full(v[MemRes])
           set(i) == CASE n.kind = "load" /\ i = 1 /\ responded -> v[MemRes]
                       [] n.kind = "load" /\ i = 2 /\ granted -> v[n.ins[2]]
                       [] n.kind = "store" /\ granted -> v[n.ins[3]]
                       [] OTHER -> q.out[i]
           X == ~ responded /\ (q.sent \/ granted)
           Y == [i \in Index(n.outs) |->
                   IF Full(q.out[i]) /\ n.outs[i] \in rd THEN NoToken ELSE set(i)]
<1>3. MemClocked(n, q, v, rd) = [sent |-> X, out |-> Y]
  BY Zenon DEF MemClocked
<1>4. [sent |-> X, out |-> Y].sent = X
  <2> HIDE DEF X, Y
  <2> QED OBVIOUS
<1> QED BY <1>1, <1>2, <1>3, <1>4

-----------------------------------------------------------------------------
(* The registers and the memory of the program. *)

IInv ==
  /\ TypeOK
  /\ \A a \in DOMAIN memory : Full(memory[a])
  /\ IF Full(response) THEN \E k : awaiting = {k} ELSE awaiting = {}

LEMMA InitType == Init => TypeOK
<1> SUFFICES ASSUME Init
             PROVE  TypeOK
  OBVIOUS
<1>1. DOMAIN regs = Index(Netlist) /\ RegistersOK(regs)
  <2>1. DOMAIN Reset = Index(Netlist)
    BY DEF Reset
  <2> QED BY <2>1, ResetOK DEF Init
<1>2. 0 \in 0 .. MaxCalls
  BY CallsAssumption
<1> QED BY <1>1, <1>2 DEF Init, TypeOK

LEMMA NextType == TypeOK /\ [Next]_vars => TypeOK'
<1> SUFFICES ASSUME TypeOK, [Next]_vars
             PROVE  TypeOK'
  OBVIOUS
<1> USE DEF TypeOK
<1>1. ASSUME NEW i, NEW o, clock_cycle(i, o), oReady' \in BOOLEAN,
             pc' \in {"idle", "waiting", "running"}
      PROVE  TypeOK'
  <2>1. /\ regs' = Latched(regs, wires, ready)
        /\ inputs' = IF i /\ iReady
                       THEN args
                       ELSE [s \in Sources |-> IF s \in ready THEN NoToken ELSE inputs[s]]
        /\ outputs' = [s \in Sinks |->
                         IF oValid /\ o THEN NoToken
                         ELSE IF s \in ready THEN wires[s] ELSE outputs[s]]
        /\ Served(wires)
        /\ UNCHANGED << args, promised, calls >>
    BY <1>1 DEF clock_cycle
  <2>2. DOMAIN regs' = Index(Netlist) /\ RegistersOK(regs')
    <3>1. DOMAIN Latched(regs, wires, ready) = Index(Netlist)
      BY DEF Latched
    <3> QED BY <2>1, <3>1, EdgeOK
  <2>3. DOMAIN inputs' = Sources /\ DOMAIN outputs' = Sinks
    BY <2>1, CallsAssumption
  <2>4. DOMAIN memory' = DOMAIN InitialMemory
    BY <2>1, Zenon DEF Served
  <2> QED BY <1>1, <2>1, <2>2, <2>3, <2>4
<1>2. ASSUME NEW a \in Calls, Call(a)
      PROVE  TypeOK'
  <2>1. calls' \in 0 .. MaxCalls
    BY <1>2, CallsAssumption DEF Call
  <2> QED BY <1>2, <2>1 DEF Call
<1>3. CASE AwaitReady
  BY <1>1, <1>3 DEF AwaitReady
<1>4. CASE Start
  BY <1>1, <1>4 DEF Start
<1>5. CASE AwaitValid
  BY <1>1, <1>5 DEF AwaitValid
<1>6. CASE Return
  BY <1>6 DEF Return
<1>7. CASE UNCHANGED vars
  BY <1>7 DEF vars
<1> QED BY <1>2, <1>3, <1>4, <1>5, <1>6, <1>7 DEF Next, Harness

\* For every region, however it is wired: the registers of its nodes hold what the
\* nodes expect in them, and the memory keeps its addresses.
THEOREM TypeCorrect == Spec => []TypeOK
<1> QED BY InitType, NextType, PTL DEF Spec

-----------------------------------------------------------------------------
(* The responses. *)

\* What the memory does in a cycle: every word holds a value, and there is a
\* response if and only if a request was granted.
LEMMA Responds ==
  ASSUME TypeOK, InBounds, \A a \in DOMAIN memory : Full(memory[a]), Served(wires)
  PROVE  /\ \A a \in DOMAIN memory' : Full(memory'[a])
         /\ Full(response') <=> GrantedNodes(regs, wires) # {}
<1> DEFINE granted == GrantedNodes(regs, wires)
           addr(k) == wires[Netlist[k].ins[1]]
           writes  == {k \in granted : Netlist[k].kind = "store"}
           m == [a \in DOMAIN memory |->
                   IF \E k \in writes : addr(k) = a
                     THEN wires[Netlist[CHOOSE k \in writes : TRUE].ins[2]]
                     ELSE memory[a]]
<1>1. /\ memory' = m
      /\ response' = IF granted = {} THEN NoToken ELSE m[addr(CHOOSE k \in granted : TRUE)]
  BY Zenon DEF Served, GrantedNodes
<1>2. \A k \in granted : /\ k \in Index(Netlist) /\ IsMem(Netlist[k])
                         /\ CanRequest(Netlist[k], regs[k], wires)
                         /\ addr(k) \in DOMAIN memory
  BY DEF GrantedNodes, Requests, InBounds
<1>3. ASSUME NEW k \in writes
      PROVE  Full(wires[Netlist[k].ins[2]])
  <2>1. PortsOK(Netlist[k])
    BY <1>2, NodePorts
  <2>2. Len(Netlist[k].ins) = 3
    BY <2>1, Arity
  <2>3. 2 \in Index(Netlist[k].ins)
    BY <2>2 DEF Index
  <2> QED BY <1>2, <2>3 DEF CanRequest, AllValid
<1>4. ASSUME NEW a \in DOMAIN memory
      PROVE  Full(m[a])
  <2>1. CASE \E k \in writes : addr(k) = a
    <3>1. (CHOOSE k \in writes : TRUE) \in writes
      BY <2>1
    <3> HIDE DEF writes, addr
    <3> QED BY <1>3, <2>1, <3>1
  <2>2. CASE ~ \E k \in writes : addr(k) = a
    BY <2>2
  <2> QED BY <2>1, <2>2
<1>5. granted # {} => addr(CHOOSE k \in granted : TRUE) \in DOMAIN memory
  BY <1>2
<1>6. DOMAIN m = DOMAIN memory
  OBVIOUS
<1> HIDE DEF m, addr, granted
<1> QED BY <1>1, <1>4, <1>5, <1>6 DEF Full, granted

\* After a cycle the node that was granted its request waits, and no other: one
\* that waited before has got its response.
LEMMA AwaitingAfter ==
  ASSUME IInv, regs' = Latched(regs, wires, ready)
  PROVE  awaiting' = GrantedNodes(regs, wires)
<1>1. RegistersOK(regs) /\ wires[MemRes] = response
  BY ResponseWire DEF IInv, TypeOK
<1>2. ASSUME NEW k \in Index(Netlist), IsMem(Netlist[k])
      PROVE  regs'[k].sent = (k \in GrantedNodes(regs, wires))
  <2> DEFINE g == k \in GrantedNodes(regs, wires)
             q == regs[k].sent
  <2>1. Netlist[k].par \in ready <=> g
    BY <1>1, <1>2, ReadyPorts
  <2>2. regs'[k].sent = (~ (q /\ Full(response)) /\ (q \/ Netlist[k].par \in ready))
    BY <1>1, <1>2, SentAfter
  <2>3. g => ~ q
    BY DEF GrantedNodes, Requests, CanRequest
  <2>4. q => Full(response)
    BY <1>2 DEF IInv, awaiting
  <2> HIDE DEF g, q
  <2>5. (~ (q /\ Full(response)) /\ (q \/ Netlist[k].par \in ready)) <=> g
    BY <2>1, <2>3, <2>4
  <2> QED BY <2>2, <2>5 DEF g
<1>3. GrantedNodes(regs, wires) \subseteq {k \in Index(Netlist) : IsMem(Netlist[k])}
  BY DEF GrantedNodes, Requests
<1> QED BY <1>2, <1>3 DEF awaiting

LEMMA AtMostOne ==
  ASSUME NEW r, NEW v, GrantedNodes(r, v) # {}
  PROVE  \E k : GrantedNodes(r, v) = {k}
BY DEF GrantedNodes

LEMMA InitIInv == Init => IInv
<1> SUFFICES ASSUME Init
             PROVE  IInv
  OBVIOUS
<1>1. \A a \in DOMAIN memory : Full(memory[a])
  BY InitialMemoryAssumption DEF Init
<1>2. awaiting = {}
  <2>1. ASSUME NEW k \in Index(Netlist), IsMem(Netlist[k])
        PROVE  ~ regs[k].sent
    <3>1. regs[k] = InitialRegisters(Netlist[k])
      BY DEF Init, Reset
    <3> QED BY <2>1, <3>1, InitialOf DEF IsMem
  <2> QED BY <2>1 DEF awaiting
<1>3. ~ Full(response)
  BY DEF Init, Full
<1> QED BY <1>1, <1>2, <1>3, InitType DEF IInv

LEMMA NextIInv == IInv /\ InBounds /\ [Next]_vars => IInv'
<1> SUFFICES ASSUME IInv, InBounds, [Next]_vars
             PROVE  IInv'
  OBVIOUS
<1>1. TypeOK'
  BY NextType DEF IInv
<1>2. ASSUME NEW i, NEW o, clock_cycle(i, o)
      PROVE  IInv'
  <2>1. Served(wires) /\ regs' = Latched(regs, wires, ready)
    BY <1>2 DEF clock_cycle
  <2>2. /\ \A a \in DOMAIN memory' : Full(memory'[a])
        /\ Full(response') <=> GrantedNodes(regs, wires) # {}
    BY <2>1, Responds DEF IInv
  <2>3. awaiting' = GrantedNodes(regs, wires)
    BY <2>1, AwaitingAfter
  <2> QED BY <1>1, <2>2, <2>3, AtMostOne DEF IInv
<1>3. ASSUME UNCHANGED << regs, response, memory >>
      PROVE  IInv'
  BY <1>1, <1>3 DEF IInv, awaiting
<1>4. CASE \E a \in Calls : Call(a)
  BY <1>3, <1>4 DEF Call
<1>5. CASE AwaitReady
  BY <1>2, <1>5 DEF AwaitReady
<1>6. CASE Start
  BY <1>2, <1>6 DEF Start
<1>7. CASE AwaitValid
  BY <1>2, <1>7 DEF AwaitValid
<1>8. CASE Return
  BY <1>3, <1>8 DEF Return
<1>9. CASE UNCHANGED vars
  BY <1>3, <1>9 DEF vars
<1> QED BY <1>4, <1>5, <1>6, <1>7, <1>8, <1>9 DEF Next, Harness

\* As long as the program passes addresses of its own memory, for every region,
\* whatever memory nodes it has and however they are ordered: when there is a
\* response, exactly one memory node waits for it, and otherwise none does, so that
\* the response port needs no identifier.
THEOREM ResponsesMatch == Spec /\ []InBounds => []OneAwaits
<1>1. Init => IInv
  BY InitIInv
<1>2. IInv /\ InBounds /\ [Next]_vars => IInv'
  BY NextIInv
<1>3. IInv => OneAwaits
  <2> SUFFICES ASSUME IInv
               PROVE  OneAwaits
    OBVIOUS
  <2>1. CASE Full(response)
    <3>1. PICK k : awaiting = {k}
      BY <2>1 DEF IInv
    <3> QED BY <2>1, <3>1, FS_Singleton DEF OneAwaits
  <2>2. CASE ~ Full(response)
    BY <2>2, FS_EmptySet DEF IInv, OneAwaits
  <2> QED BY <2>1, <2>2
<1> QED BY <1>1, <1>2, <1>3, PTL DEF Spec
=============================================================================

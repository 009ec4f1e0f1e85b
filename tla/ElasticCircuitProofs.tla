------------------------ MODULE ElasticCircuitProofs ------------------------
(***************************************************************************)
(* A token on a channel stays there until it is accepted, in every circuit *)
(* without discarding muxes.  (One that has such a mux does not promise    *)
(* that: see MCElasticCircuit.)  A node can only keep its offer if those   *)
(* it gets its inputs from keep theirs, and it must not take an input      *)
(* before its output is taken: the proof follows the values of a cycle     *)
(* from the sources to the right, while the ready signals they depend on   *)
(* come from the right.                                                    *)
(***************************************************************************)
EXTENDS ElasticCircuit, ElasticNetlistProofs

NoDiscarding == \A k \in Index(Netlist) : Netlist[k].kind # "dmux"

-----------------------------------------------------------------------------
(* One node.  In a cycle with values w and ready channels R, the node k has   *)
(* the registers r; the values of the next cycle are v.                      *)

\* The node finds some of the channels ready, and its ready signals are those
\* of the channels it reads; an offer on these that it refuses is kept.
Keeps(n, r, w, v, R) ==
  /\ \A b \in Reads(n) : ~ RegisteredValid(n) /\ Full(w[b]) /\ b \notin R => v[b] = w[b]
  /\ \E rd \in SUBSET R : \A b \in Reads(n) : b \in R <=> b \in Accepting(n, r, w, rd)
  /\ RegisteredReady(n) => Accepting(n, r, w, {}) \subseteq R

\* Output i offers a token that is not taken.
Offers(n, r, w, R, i) ==
  /\ i \in Index(n.outs) /\ n.outs[i] \notin R
  /\ w[n.outs[i]] = Driven(n, r, w)[i] /\ Full(Driven(n, r, w)[i])

LEMMA SimpleKeeps ==
  ASSUME NEW n, NEW r, NEW w, NEW v, NEW R, NEW i, PortsOK(n), n.kind = "simple",
         Keeps(n, r, w, v, R), Offers(n, r, w, R, i)
  PROVE  Driven(n, Clocked(n, r, w, R), v)[i] = Driven(n, r, w)[i]
<1>1. Len(n.outs) = 1 /\ i = 1
  BY Arity DEF Offers, Index
<1>2. /\ Driven(n, r, w) = SimpleDriven(n, w)
      /\ Driven(n, Clocked(n, r, w, R), v) = SimpleDriven(n, v)
  BY DrivenOf
<1>3. AllValid(n, w)
  BY <1>1, <1>2 DEF Offers, SimpleDriven, Full
<1>4. \A b \in Reads(n) : b \notin R
  <2>1. PICK rd \in SUBSET R : \A b \in Reads(n) : b \in R <=> b \in Accepting(n, r, w, rd)
    BY DEF Keeps
  <2>2. Accepting(n, r, w, rd) = SimpleAccepting(n, w, rd)
    BY AcceptingOf
  <2> QED BY <1>1, <2>1, <2>2 DEF SimpleAccepting, Offers
<1>5. \A j \in Index(n.ins) : v[n.ins[j]] = w[n.ins[j]]
  <2>1. ~ RegisteredValid(n)
    BY DEF RegisteredValid, IsMem
  <2>2. \A j \in Index(n.ins) : n.ins[j] \in Reads(n) /\ Full(w[n.ins[j]])
    BY <1>3 DEF Reads, AllValid
  <2> QED BY <1>4, <2>1, <2>2 DEF Keeps
<1>6. AllValid(n, v)
  BY <1>3, <1>5 DEF AllValid
<1>7. [j \in Index(n.ins) |-> v[n.ins[j]]] = [j \in Index(n.ins) |-> w[n.ins[j]]]
  BY <1>5
<1> QED BY <1>1, <1>2, <1>3, <1>6, <1>7 DEF SimpleDriven

LEMMA TriggerKeeps ==
  ASSUME NEW n, NEW r, NEW w, NEW v, NEW R, NEW i, PortsOK(n), n.kind = "trigger",
         Keeps(n, r, w, v, R), Offers(n, r, w, R, i)
  PROVE  Driven(n, Clocked(n, r, w, R), v)[i] = Driven(n, r, w)[i]
<1>1. Len(n.outs) = 1 /\ i = 1 /\ Len(n.ins) = 2
  BY Arity DEF Offers, Index
<1>2. /\ Driven(n, r, w) = TriggerDriven(n, w)
      /\ Driven(n, Clocked(n, r, w, R), v) = TriggerDriven(n, v)
  BY DrivenOf
<1>3. n.ins[1] \in Reads(n) /\ n.ins[2] \in Reads(n)
  <2>1. 1 \in Index(n.ins) /\ 2 \in Index(n.ins)
    BY <1>1 DEF Index
  <2> QED BY <2>1 DEF Reads
<1>4. Full(w[n.ins[1]]) /\ Full(w[n.ins[2]])
  BY <1>1, <1>2 DEF Offers, TriggerDriven, Full
<1>5. n.ins[1] \notin R /\ n.ins[2] \notin R
  <2>1. PICK rd \in SUBSET R : \A b \in Reads(n) : b \in R <=> b \in Accepting(n, r, w, rd)
    BY DEF Keeps
  <2>2. Accepting(n, r, w, rd) = TriggerAccepting(n, w, rd)
    BY AcceptingOf
  <2> QED BY <1>1, <1>3, <2>1, <2>2 DEF TriggerAccepting, Offers
<1>6. ~ RegisteredValid(n)
  BY DEF RegisteredValid, IsMem
<1>7. v[n.ins[1]] = w[n.ins[1]] /\ v[n.ins[2]] = w[n.ins[2]]
  BY <1>3, <1>4, <1>5, <1>6 DEF Keeps
<1> QED BY <1>1, <1>2, <1>4, <1>7 DEF TriggerDriven

LEMMA PrintKeeps ==
  ASSUME NEW n, NEW r, NEW w, NEW v, NEW R, NEW i, PortsOK(n), n.kind = "print",
         Keeps(n, r, w, v, R), Offers(n, r, w, R, i)
  PROVE  Driven(n, Clocked(n, r, w, R), v)[i] = Driven(n, r, w)[i]
<1>1. Len(n.outs) = 1 /\ i = 1 /\ Len(n.ins) = 1
  BY Arity DEF Offers, Index
<1>2. /\ Driven(n, r, w) = << w[n.ins[1]] >>
      /\ Driven(n, Clocked(n, r, w, R), v) = << v[n.ins[1]] >>
  BY DrivenOf
<1>3. n.ins[1] \in Reads(n)
  <2>1. 1 \in Index(n.ins)
    BY <1>1 DEF Index
  <2> QED BY <2>1 DEF Reads
<1>4. Full(w[n.ins[1]])
  BY <1>1, <1>2 DEF Offers
<1>5. n.ins[1] \notin R
  <2>1. PICK rd \in SUBSET R : \A b \in Reads(n) : b \in R <=> b \in Accepting(n, r, w, rd)
    BY DEF Keeps
  <2>2. Accepting(n, r, w, rd) = {n.ins[j] : j \in {k \in {1} : n.outs[1] \in rd}}
    BY AcceptingOf
  <2> QED BY <1>1, <1>3, <2>1, <2>2 DEF Offers
<1>6. ~ RegisteredValid(n)
  BY DEF RegisteredValid, IsMem
<1>7. v[n.ins[1]] = w[n.ins[1]]
  BY <1>3, <1>4, <1>5, <1>6 DEF Keeps
<1> QED BY <1>1, <1>2, <1>7

LEMMA ForkKeeps ==
  ASSUME NEW n, NEW r, NEW w, NEW v, NEW R, NEW i, PortsOK(n), n.kind = "fork",
         Keeps(n, r, w, v, R), Offers(n, r, w, R, i)
  PROVE  Driven(n, Clocked(n, r, w, R), v)[i] = Driven(n, r, w)[i]
<1>1. i \in Index(n.outs) /\ n.outs[i] \notin R /\ Len(n.ins) = 1
  BY Arity DEF Offers
<1>2. /\ Driven(n, r, w) = ForkDriven(n, r, w)
      /\ Driven(n, Clocked(n, r, w, R), v) = ForkDriven(n, ForkClocked(n, r, w, R), v)
  BY DrivenOf, ClockedOf
<1>3. n.ins[1] \in Reads(n)
  <2>1. 1 \in Index(n.ins)
    BY <1>1 DEF Index
  <2> QED BY <2>1 DEF Reads
<1>4. i \notin r /\ Driven(n, r, w)[i] = w[n.ins[1]] /\ Full(w[n.ins[1]])
  BY <1>1, <1>2 DEF Offers, ForkDriven, Full
<1>5. ~ AllFired(n, r, R)
  BY <1>1, <1>4 DEF AllFired
<1>6. n.ins[1] \notin R
  <2>1. PICK rd \in SUBSET R : \A b \in Reads(n) : b \in R <=> b \in Accepting(n, r, w, rd)
    BY DEF Keeps
  <2>2. Accepting(n, r, w, rd) = ForkAccepting(n, r, rd)
    BY AcceptingOf
  <2>3. ~ AllFired(n, r, rd)
    BY <1>1, <1>4 DEF AllFired
  <2> QED BY <1>3, <2>1, <2>2, <2>3 DEF ForkAccepting
<1>7. i \notin ForkClocked(n, r, w, R)
  BY <1>1, <1>4, <1>5 DEF ForkClocked
<1>8. ~ RegisteredValid(n)
  BY DEF RegisteredValid, IsMem
<1>9. v[n.ins[1]] = w[n.ins[1]]
  BY <1>3, <1>4, <1>6, <1>8 DEF Keeps
<1> QED BY <1>1, <1>2, <1>4, <1>7, <1>9 DEF ForkDriven

LEMMA BufferKeeps ==
  ASSUME NEW n, NEW r, NEW w, NEW v, NEW R, NEW i, PortsOK(n), n.kind = "buffer",
         Offers(n, r, w, R, i)
  PROVE  Driven(n, Clocked(n, r, w, R), v)[i] = Driven(n, r, w)[i]
<1>1. Len(n.outs) = 1 /\ i = 1 /\ n.par \in Nat \ {0}
  BY Arity DEF Offers, Index
<1>2. /\ Driven(n, r, w) = << r[1] >>
      /\ Driven(n, Clocked(n, r, w, R), v) = << BufferClocked(n, r, w, R)[1] >>
  BY DrivenOf, ClockedOf DEF BufferDriven
<1>3. Full(r[1]) /\ n.outs[1] \notin R
  BY <1>1, <1>2 DEF Offers
<1>4. ~ Moved(r, n.outs[1] \in R, 1)
  BY <1>3 DEF Moved
<1>5. 1 \in 1 .. n.par
  BY <1>1
<1>6. BufferClocked(n, r, w, R)[1] = r[1]
  BY <1>3, <1>4, <1>5 DEF BufferClocked
<1> QED BY <1>1, <1>2, <1>6

LEMMA PredicateBufferKeeps ==
  ASSUME NEW n, NEW r, NEW w, NEW v, NEW R, NEW i, PortsOK(n), n.kind = "predbuf",
         Keeps(n, r, w, v, R), Offers(n, r, w, R, i)
  PROVE  Driven(n, Clocked(n, r, w, R), v)[i] = Driven(n, r, w)[i]
<1>1. Len(n.outs) = 1 /\ i = 1 /\ Len(n.ins) = 1
  BY Arity DEF Offers, Index
<1>2. /\ Driven(n, r, w) = PredicateBufferDriven(n, r, w)
      /\ Driven(n, Clocked(n, r, w, R), v)
           = PredicateBufferDriven(n, PredicateBufferClocked(n, r, w, R), v)
  BY DrivenOf, ClockedOf
<1>3. n.ins[1] \in Reads(n)
  <2>1. 1 \in Index(n.ins)
    BY <1>1 DEF Index
  <2> QED BY <2>1 DEF Reads
<1>4. n.outs[1] \notin R /\ Full(Driven(n, r, w)[1])
  BY <1>1 DEF Offers
<1>5. PICK rd \in SUBSET R : \A b \in Reads(n) : b \in R <=> b \in PredicateBufferAccepting(n, r)
  <2>1. \A rd : Accepting(n, r, w, rd) = PredicateBufferAccepting(n, r)
    BY AcceptingOf
  <2> QED BY <2>1 DEF Keeps
<1>6. CASE Full(r)
  <2>1. n.ins[1] \notin R
    BY <1>3, <1>5, <1>6 DEF PredicateBufferAccepting
  <2>2. PredicateBufferClocked(n, r, w, R) = r
    BY <1>4, <2>1 DEF PredicateBufferClocked
  <2> QED BY <1>1, <1>2, <1>6, <2>2 DEF PredicateBufferDriven
<1>7. CASE ~ Full(r)
  <2>1. n.ins[1] \in R
    BY <1>3, <1>5, <1>7 DEF PredicateBufferAccepting
  <2>2. Full(w[n.ins[1]]) /\ Driven(n, r, w)[1] = w[n.ins[1]]
    BY <1>2, <1>4, <1>7 DEF PredicateBufferDriven
  <2>3. PredicateBufferClocked(n, r, w, R) = w[n.ins[1]]
    BY <1>4, <2>1, <2>2 DEF PredicateBufferClocked
  <2> QED BY <1>1, <1>2, <2>2, <2>3 DEF PredicateBufferDriven
<1> QED BY <1>6, <1>7

LEMMA BranchKeeps ==
  ASSUME NEW n, NEW r, NEW w, NEW v, NEW R, NEW i, PortsOK(n), n.kind = "branch",
         Keeps(n, r, w, v, R), Offers(n, r, w, R, i)
  PROVE  Driven(n, Clocked(n, r, w, R), v)[i] = Driven(n, r, w)[i]
<1>1. i \in Index(n.outs) /\ n.outs[i] \notin R /\ Len(n.ins) = 2
  BY Arity DEF Offers
<1>2. /\ Driven(n, r, w) = BranchDriven(n, w)
      /\ Driven(n, Clocked(n, r, w, R), v) = BranchDriven(n, v)
  BY DrivenOf
<1>3. n.ins[1] \in Reads(n) /\ n.ins[2] \in Reads(n)
  <2>1. 1 \in Index(n.ins) /\ 2 \in Index(n.ins)
    BY <1>1 DEF Index
  <2> QED BY <2>1 DEF Reads
<1>4. /\ w[n.ins[1]] = i - 1 /\ Full(w[n.ins[2]])
      /\ Driven(n, r, w)[i] = w[n.ins[2]]
  BY <1>1, <1>2 DEF Offers, BranchDriven, Full
<1>5. \A j \in Index(n.outs) : j \in Nat /\ j > 0
  BY DEF Index
<1>6. Full(w[n.ins[1]])
  <2>1. i - 1 \in Nat
    BY <1>1, <1>5
  <2> QED BY <1>4, <2>1, NoTokenAssumption DEF Full
<1>7. n.ins[1] \notin R /\ n.ins[2] \notin R
  <2>1. PICK rd \in SUBSET R : \A b \in Reads(n) : b \in R <=> b \in Accepting(n, r, w, rd)
    BY DEF Keeps
  <2>2. Accepting(n, r, w, rd) = BranchAccepting(n, w, rd)
    BY AcceptingOf
  <2>3. ASSUME NEW j \in Index(n.outs), w[n.ins[1]] = j - 1
        PROVE  j = i
    <3>1. i - 1 = j - 1
      BY <1>4, <2>3
    <3> QED BY <1>1, <1>5, <3>1
  <2>4. ~ BranchReady(n, w, rd)
    BY <1>1, <2>3 DEF BranchReady
  <2> QED BY <1>3, <2>1, <2>2, <2>4 DEF BranchAccepting
<1>8. ~ RegisteredValid(n)
  BY DEF RegisteredValid, IsMem
<1>9. v[n.ins[1]] = w[n.ins[1]] /\ v[n.ins[2]] = w[n.ins[2]]
  BY <1>3, <1>4, <1>6, <1>7, <1>8 DEF Keeps
<1> QED BY <1>1, <1>2, <1>4, <1>9 DEF BranchDriven

LEMMA MuxKeeps ==
  ASSUME NEW n, NEW r, NEW w, NEW v, NEW R, NEW i, PortsOK(n), n.kind = "mux",
         Len(n.ins) \in Nat, Keeps(n, r, w, v, R), Offers(n, r, w, R, i)
  PROVE  Driven(n, Clocked(n, r, w, R), v)[i] = Driven(n, r, w)[i]
<1>1. Len(n.outs) = 1 /\ i = 1 /\ Len(n.ins) > 1
  BY Arity DEF Offers, Index
<1>2. /\ Driven(n, r, w) = MuxDriven(n, w)
      /\ Driven(n, Clocked(n, r, w, R), v) = MuxDriven(n, v)
  BY DrivenOf
<1>3. n.ins[1] \in Reads(n) /\ \A j \in 2 .. Len(n.ins) : n.ins[j] \in Reads(n)
  <2>1. 1 \in Index(n.ins) /\ \A j \in 2 .. Len(n.ins) : j \in Index(n.ins)
    BY <1>1 DEF Index
  <2> QED BY <2>1 DEF Reads
<1>4. n.outs[1] \notin R /\ Full(MuxDriven(n, w)[1])
  BY <1>1, <1>2 DEF Offers
<1> DEFINE m == CHOOSE j \in Chosen(n, w) : TRUE
<1>5. Chosen(n, w) # {} /\ Full(w[n.ins[m]]) /\ MuxDriven(n, w) = << w[n.ins[m]] >>
  BY <1>4 DEF MuxDriven, Full
<1>6. m \in Chosen(n, w)
  BY <1>5
<1>7. m \in 2 .. Len(n.ins) /\ w[n.ins[1]] = m - 2
  BY <1>6 DEF Chosen
<1>8. Full(w[n.ins[1]])
  <2>1. m - 2 \in Nat
    BY <1>7
  <2> QED BY <1>7, <2>1, NoTokenAssumption DEF Full
<1>9. \A b \in Reads(n) : b \notin R
  <2>1. PICK rd \in SUBSET R : \A b \in Reads(n) : b \in R <=> b \in Accepting(n, r, w, rd)
    BY DEF Keeps
  <2>2. Accepting(n, r, w, rd) = MuxAccepting(n, w, rd)
    BY AcceptingOf
  <2> QED BY <1>4, <2>1, <2>2 DEF MuxAccepting
<1>10. ~ RegisteredValid(n)
  BY DEF RegisteredValid, IsMem
<1>11. v[n.ins[1]] = w[n.ins[1]] /\ v[n.ins[m]] = w[n.ins[m]]
  BY <1>3, <1>5, <1>7, <1>8, <1>9, <1>10 DEF Keeps
<1>12. Chosen(n, v) = Chosen(n, w)
  BY <1>11 DEF Chosen
<1>13. MuxDriven(n, v) = << v[n.ins[m]] >>
  BY <1>5, <1>12 DEF MuxDriven
<1> QED BY <1>1, <1>2, <1>5, <1>11, <1>13

LEMMA NodeKeeps ==
  ASSUME NEW k \in Index(Netlist), NEW n, n = Netlist[k], n.kind # "dmux", ~ IsMem(n),
         NEW r, NEW w, NEW v, NEW R, NEW i, Keeps(n, r, w, v, R), Offers(n, r, w, R, i)
  PROVE  Driven(n, Clocked(n, r, w, R), v)[i] = Driven(n, r, w)[i]
<1>1. PortsOK(n) /\ Len(n.ins) \in Nat
  BY NodePorts
<1>2. n.kind \in {"simple", "trigger", "print", "predbuf", "sink", "fork", "buffer",
                  "branch", "mux"}
  <2>1. n.kind \in {"simple", "trigger", "print", "predbuf", "sink", "fork", "buffer",
                    "branch", "mux", "dmux", "load", "store"}
    BY NodePorts
  <2> QED BY <2>1 DEF IsMem
<1>3. n.kind # "sink"
  <2>1. n.kind = "sink" => Len(n.outs) = 0
    BY <1>1, Arity
  <2> QED BY <2>1 DEF Offers, Index
<1> QED BY <1>1, <1>2, <1>3, SimpleKeeps, TriggerKeeps, PrintKeeps, PredicateBufferKeeps,
           ForkKeeps, BufferKeeps, BranchKeeps, MuxKeeps

-----------------------------------------------------------------------------
(* The circuit. *)

\* What holds of a cycle with registers r, in which the sources o offer.
Cycle(o, r, t, w, rd) ==
  /\ DOMAIN w = Channels /\ rd \subseteq Channels
  /\ \A s \in o : Left(s, t) /\ Full(w[s]) /\ w[s] = Tokens[s][t[s] + 1]
  /\ \A s \in Sources : Full(w[s]) => s \in o
  /\ \A k \in Index(Netlist) : \A i \in Index(Netlist[k].outs) :
       w[Netlist[k].outs[i]] = Driven(Netlist[k], r[k], w)[i]
  /\ \A k \in Index(Netlist) :
       RegisteredReady(Netlist[k]) => Accepting(Netlist[k], r[k], w, {}) \subseteq rd
  /\ \A k \in Index(Netlist) : \E x \in SUBSET rd :
       \A b \in Reads(Netlist[k]) : b \in rd <=> b \in Accepting(Netlist[k], r[k], w, x)

LEMMA Settled ==
  ASSUME NEW o \in SUBSET Sources, NEW a \in SUBSET Sinks, NEW r, NEW t, NEW w, NEW rd,
         RegistersOK(r), t \in [Sources -> Nat], Settles(o, a, r, t, w, rd)
  PROVE  Cycle(o, r, t, w, rd)
<1> DEFINE d == [s \in Sources |-> IF s \in o THEN Tokens[s][t[s] + 1] ELSE NoToken]
<1>1. w = Values(r, d) /\ rd = Readies(r, w, a) /\ \A s \in o : Left(s, t)
  BY DEF Settles
<1>2. DOMAIN d = Sources
  OBVIOUS
<1>3. Sources \subseteq Channels
  BY DEF Channels, DrivenBy
<1>4. /\ DOMAIN w = Channels
      /\ \A s \in Sources : w[s] = d[s]
      /\ \A k \in Index(Netlist) : \A i \in Index(Netlist[k].outs) :
           w[Netlist[k].outs[i]] = Driven(Netlist[k], r[k], w)[i]
  <2> HIDE DEF d
  <2>1. Sources \subseteq DOMAIN d /\ DOMAIN d \subseteq Sources \cup {MemRes}
    BY <1>2
  <2>2. Follow(w, r, d)
    BY <1>1, <2>1, ValuesAre
  <2> QED BY <1>2, <1>3, <2>2 DEF Follow
<1>5. ASSUME NEW s \in o
      PROVE  Left(s, t) /\ Full(w[s]) /\ w[s] = Tokens[s][t[s] + 1]
  <2>1. Left(s, t) /\ w[s] = Tokens[s][t[s] + 1] /\ t[s] \in Nat
    BY <1>1, <1>4
  <2>2. Tokens[s] \in Seq({Tokens[s][i] : i \in Index(Tokens[s])} \ {NoToken})
    BY TokensAssumption
  <2> DEFINE T == {Tokens[s][i] : i \in Index(Tokens[s])} \ {NoToken}
  <2> HIDE DEF T
  <2>3. Tokens[s] \in Seq(T)
    BY <2>2 DEF T
  <2>4. Len(Tokens[s]) \in Nat /\ \A j \in 1 .. Len(Tokens[s]) : Tokens[s][j] \in T
    BY <2>3
  <2>5. t[s] + 1 \in 1 .. Len(Tokens[s])
    BY <2>1, <2>4 DEF Left
  <2> QED BY <2>1, <2>4, <2>5 DEF T, Full
<1>6. \A s \in Sources : Full(w[s]) => s \in o
  BY <1>4 DEF Full
<1>7. \A k \in Index(Netlist) :
        Netlist[k].kind = "dmux" => r[k].discard \subseteq 2 .. Len(Netlist[k].ins)
  BY DEF RegistersOK
<1>8. /\ \A c \in rd : c \in a \/ \E k \in Index(Netlist) : c \in Reads(Netlist[k])
      /\ \A k \in Index(Netlist) : RegisteredReady(Netlist[k]) =>
           Accepting(Netlist[k], r[k], w, {}) \subseteq rd
      /\ \A k \in Index(Netlist) : \E x \in SUBSET rd :
           \A c \in Reads(Netlist[k]) \ a :
             c \in rd <=> c \in Accepting(Netlist[k], r[k], w, x)
  BY <1>1, <1>7, ReadiesAre
<1>9. Sinks \subseteq Channels /\ \A k \in Index(Netlist) : Reads(Netlist[k]) \cap Sinks = {}
  BY NetlistAssumption
<1>10. rd \subseteq Channels
  BY <1>8, <1>9, NodePorts
<1>11. ASSUME NEW k \in Index(Netlist)
       PROVE  \E x \in SUBSET rd :
                \A b \in Reads(Netlist[k]) : b \in rd <=> b \in Accepting(Netlist[k], r[k], w, x)
  <2>1. Reads(Netlist[k]) \ a = Reads(Netlist[k])
    BY <1>9
  <2> QED BY <1>8, <2>1
<1> QED BY <1>4, <1>5, <1>6, <1>8, <1>10, <1>11 DEF Cycle

\* No memory node, so that nothing is granted.
LEMMA RegistersStayOK ==
  ASSUME NEW r, NEW v, NEW rd, RegistersOK(r)
  PROVE  RegistersOK(Latched(r, v, rd))
BY LatchedOK, MemoryAssumption

\* From one cycle to the next.
LEMMA OffersKept ==
  ASSUME NoDiscarding,
         NEW o \in SUBSET Sources, NEW a \in SUBSET Sinks, NEW r, NEW t, NEW w, NEW rd,
         RegistersOK(r), t \in [Sources -> Nat], Settles(o, a, r, t, w, rd),
         NEW p \in SUBSET Sources, NEW b \in SUBSET Sinks, NEW u, NEW v, NEW vd,
         u = [s \in Sources |-> IF Full(w[s]) /\ s \in rd THEN t[s] + 1 ELSE t[s]],
         {s \in Sources : Full(w[s]) /\ s \notin rd} \subseteq p,
         Settles(p, b, Latched(r, w, rd), u, v, vd)
  PROVE  \A c \in Channels : Full(w[c]) /\ c \notin rd => v[c] = w[c]
<1> DEFINE L == Len(Netlist)
           Kept(c) == Full(w[c]) /\ c \notin rd => v[c] = w[c]
           A == {m \in Nat : m <= L => \A c \in DrivenBy(m) : Kept(c)}
<1>1. L \in Nat /\ Index(Netlist) = 1 .. L
  BY NetlistIndex
<1>2. RegistersOK(Latched(r, w, rd))
  BY RegistersStayOK
<1>3. u \in [Sources -> Nat]
  OBVIOUS
<1>4. Cycle(o, r, t, w, rd)
  BY Settled
<1>5. Cycle(p, Latched(r, w, rd), u, v, vd)
  <2> DEFINE q == Latched(r, w, rd)
  <2>1. RegistersOK(q) /\ Settles(p, b, q, u, v, vd)
    BY <1>2
  <2> HIDE DEF q
  <2>2. Cycle(p, q, u, v, vd)
    BY <1>3, <2>1, Settled
  <2> QED BY <2>2 DEF q
<1>6. 0 \in A
  <2>1. DrivenBy(0) = Sources
    BY DEF DrivenBy
  <2>2. ASSUME NEW s \in Sources, Full(w[s]), s \notin rd
        PROVE  v[s] = w[s]
    <3>1. s \in o /\ s \in p /\ u[s] = t[s]
      BY <1>4, <2>2 DEF Cycle
    <3>2. w[s] = Tokens[s][t[s] + 1] /\ v[s] = Tokens[s][u[s] + 1]
      BY <1>4, <1>5, <3>1 DEF Cycle
    <3> QED BY <3>1, <3>2
  <2> QED BY <2>1, <2>2
<1>7. ASSUME NEW m \in Nat, m \in A
      PROVE  m + 1 \in A
  <2> SUFFICES ASSUME m + 1 <= L, NEW c \in DrivenBy(m + 1), Full(w[c]), c \notin rd
               PROVE  v[c] = w[c]
    OBVIOUS
  <2> DEFINE k == m + 1
             n == Netlist[k]
  <2>1. m <= L /\ k \in Index(Netlist) /\ k - 1 = m
    BY <1>1
  <2>2. \A e \in DrivenBy(m) : Kept(e)
    BY <1>7, <2>1
  <2>3. CASE c \in DrivenBy(m)
    BY <2>2, <2>3
  <2>4. CASE c \notin DrivenBy(m)
    <3>1. c \in Drives(n)
      <4>1. PICK j \in 1 .. (m + 1) : c \in Drives(Netlist[j])
        BY <2>4 DEF DrivenBy
      <4>2. j \notin 1 .. m
        BY <2>4, <4>1 DEF DrivenBy
      <4>3. j = m + 1
        BY <4>2
      <4> QED BY <4>1, <4>3
    <3>2. PICK i \in Index(n.outs) : c = n.outs[i]
      BY <3>1 DEF Drives
    <3>3. ~ RegisteredValid(n) => Reads(n) \subseteq DrivenBy(m)
      <4>1. ~ RegisteredValid(n) => Reads(n) \subseteq DrivenBy(k - 1)
        BY <2>1, NetlistAssumption
      <4> QED BY <2>1, <4>1
    <3> HIDE DEF n
    <3>4. Keeps(n, r[k], w, v, rd)
      BY <1>4, <2>1, <2>2, <3>3 DEF Keeps, Cycle, n
    <3>9. Full(w[c]) /\ c \notin rd
      OBVIOUS
    <3>5. Offers(n, r[k], w, rd, i)
      BY <1>4, <2>1, <3>2, <3>9 DEF Offers, Cycle, n
    <3>6. n.kind # "dmux" /\ ~ IsMem(n)
      BY <2>1, MemoryAssumption DEF NoDiscarding, n
    <3>7. Driven(n, Clocked(n, r[k], w, rd), v)[i] = Driven(n, r[k], w)[i]
      BY <2>1, <3>4, <3>5, <3>6, NodeKeeps DEF n
    <3>8. Latched(r, w, rd)[k] = Clocked(n, r[k], w, rd)
      BY <2>1 DEF Latched, n
    <3> QED BY <1>4, <1>5, <2>1, <3>2, <3>7, <3>8 DEF n, Cycle
  <2> QED BY <2>3, <2>4
<1>8. Nat \subseteq A
  <2> HIDE DEF A
  <2> QED BY <1>6, <1>7, SetInduction
<1> QED BY <1>1, <1>8 DEF Channels

-----------------------------------------------------------------------------
(* The theorems. *)

\* The registers are possible ones, no source has given more than it has, and
\* the wires have settled.
IInv ==
  /\ taken \in [Sources -> Nat]
  /\ \A s \in Sources : taken[s] <= Len(Tokens[s])
  /\ DOMAIN regs = Index(Netlist)
  /\ RegistersOK(regs)
  /\ \E o \in SUBSET Sources, a \in SUBSET Sinks : Settles(o, a, regs, taken, wires, ready)

LEMMA TokensLength == \A s \in Sources : Len(Tokens[s]) \in Nat
<1> SUFFICES ASSUME NEW s \in Sources
             PROVE  Len(Tokens[s]) \in Nat
  OBVIOUS
<1> DEFINE T == {Tokens[s][i] : i \in Index(Tokens[s])} \ {NoToken}
<1>1. Tokens[s] \in Seq(T)
  BY TokensAssumption
<1> HIDE DEF T
<1> QED BY <1>1

LEMMA InitIInv == Init => IInv
<1> SUFFICES ASSUME Init
             PROVE  IInv
  OBVIOUS
<1>1. taken = [s \in Sources |-> 0] /\ regs = Reset
  BY DEF Init
<1>2. taken \in [Sources -> Nat] /\ \A s \in Sources : taken[s] <= Len(Tokens[s])
  BY <1>1, TokensLength
<1>3. DOMAIN regs = Index(Netlist) /\ RegistersOK(regs)
  <2>1. DOMAIN Reset = Index(Netlist)
    BY DEF Reset
  <2> QED BY <1>1, <2>1, ResetOK
<1> QED BY <1>2, <1>3 DEF Init, IInv

\* A source gives a token only when it has one left.
LEMMA ClockIInv == IInv /\ [Clock]_vars => IInv'
<1> SUFFICES ASSUME IInv, [Clock]_vars
             PROVE  IInv'
  OBVIOUS
<1>1. CASE Clock
  <2>1. PICK o \in SUBSET Sources, a \in SUBSET Sinks :
               Settles(o, a, regs, taken, wires, ready)
    BY DEF IInv
  <2>2. Cycle(o, regs, taken, wires, ready)
    BY <2>1, Settled DEF IInv
  <2>3. taken' = [s \in Sources |-> IF Fires(s) THEN taken[s] + 1 ELSE taken[s]]
    BY <1>1 DEF Clock
  <2>4. taken' \in [Sources -> Nat]
    BY <2>3 DEF IInv
  <2>5. ASSUME NEW s \in Sources
        PROVE  taken'[s] <= Len(Tokens[s])
    <3>1. taken[s] \in Nat /\ taken[s] <= Len(Tokens[s]) /\ Len(Tokens[s]) \in Nat
      BY TokensLength DEF IInv
    <3>2. CASE Fires(s)
      <4>1. taken[s] < Len(Tokens[s])
        BY <2>2, <3>2 DEF Cycle, Fires, Left
      <4>2. taken'[s] = taken[s] + 1
        BY <2>3, <3>2
      <4> QED BY <3>1, <4>1, <4>2
    <3>3. CASE ~ Fires(s)
      BY <2>3, <3>1, <3>3
    <3> QED BY <3>2, <3>3
  <2>6. regs' = Latched(regs, wires, ready)
    BY <1>1 DEF Clock
  <2>7. DOMAIN regs' = Index(Netlist) /\ RegistersOK(regs')
    <3>1. DOMAIN Latched(regs, wires, ready) = Index(Netlist)
      BY DEF Latched
    <3>2. RegistersOK(Latched(regs, wires, ready))
      BY RegistersStayOK DEF IInv
    <3> QED BY <2>6, <3>1, <3>2
  <2>8. \E p \in SUBSET Sources, b \in SUBSET Sinks :
          Settles(p, b, regs', taken', wires', ready')
    BY <1>1 DEF Clock
  <2> QED BY <2>4, <2>5, <2>7, <2>8 DEF IInv
<1>2. CASE UNCHANGED vars
  BY <1>2 DEF vars, IInv
<1> QED BY <1>1, <1>2

LEMMA TypeFromIInv == IInv => TypeOK
<1> SUFFICES ASSUME IInv
             PROVE  TypeOK
  OBVIOUS
<1>1. PICK o \in SUBSET Sources, a \in SUBSET Sinks :
             Settles(o, a, regs, taken, wires, ready)
  BY DEF IInv
<1>2. Cycle(o, regs, taken, wires, ready)
  BY <1>1, Settled DEF IInv
<1> QED BY <1>2 DEF Cycle, IInv, TypeOK

\* In every circuit without memory nodes, the registers hold what the nodes
\* expect in them: a fork is cleared as soon as all its outputs have fired, the
\* slots of a buffer stay packed, a discarding mux never discards what it passes
\* on; and only channels of the circuit are driven and ready.
THEOREM TypeCorrect == Spec => []TypeOK
<1>1. Init => IInv
  BY InitIInv
<1>2. IInv /\ [Clock]_vars => IInv'
  BY ClockIInv
<1>3. IInv => TypeOK
  BY TypeFromIInv
<1> QED BY <1>1, <1>2, <1>3, PTL DEF Spec

LEMMA ClockPersists == NoDiscarding /\ IInv /\ [Clock]_vars => [Persists]_vars
<1> SUFFICES ASSUME NoDiscarding, IInv, Clock
             PROVE  Persists
  OBVIOUS
<1>1. PICK o \in SUBSET Sources, a \in SUBSET Sinks :
             Settles(o, a, regs, taken, wires, ready)
  BY DEF IInv
<1>2. PICK p \in SUBSET Sources, b \in SUBSET Sinks :
             /\ {s \in Sources : Full(wires[s]) /\ s \notin ready} \subseteq p
             /\ Settles(p, b, regs', taken', wires', ready')
  BY DEF Clock
<1>3. regs' = Latched(regs, wires, ready)
  BY DEF Clock
<1>4. taken' = [s \in Sources |->
                  IF Full(wires[s]) /\ s \in ready THEN taken[s] + 1 ELSE taken[s]]
  BY DEF Clock, Fires
<1>5. RegistersOK(regs) /\ taken \in [Sources -> Nat]
  BY DEF IInv
<1>6. Settles(p, b, Latched(regs, wires, ready), taken', wires', ready')
  BY <1>2, <1>3
<1>7. \A c \in Channels : Full(wires[c]) /\ c \notin ready => wires'[c] = wires[c]
  BY <1>1, <1>2, <1>4, <1>5, <1>6, OffersKept
<1> QED BY <1>7 DEF Persists

\* In every circuit without memory nodes and discarding muxes, however it is
\* wired, a token that is offered on a channel stays there until it is accepted,
\* whatever the sources and the sinks do.
THEOREM OffersStay == NoDiscarding => (Spec => OffersPersist)
<1> SUFFICES ASSUME NoDiscarding
             PROVE  Spec => OffersPersist
  OBVIOUS
<1>1. Init => IInv
  BY InitIInv
<1>2. IInv /\ [Clock]_vars => IInv'
  BY ClockIInv
<1>3. IInv /\ [Clock]_vars => [Persists]_vars
  BY ClockPersists
<1> QED BY <1>1, <1>2, <1>3, PTL DEF Spec, OffersPersist
=============================================================================

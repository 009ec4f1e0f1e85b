------------------------- MODULE ElasticBufferProofs -------------------------
(***************************************************************************)
(* The buffer circuit is a bounded queue, whatever its capacity and the    *)
(* tokens are.  The circuit has no counter: what it holds is what the      *)
(* valid bits of its slots say, so the proof turns on the invariant that   *)
(* the full slots are the first ones, which every cycle has to restore     *)
(* while one token leaves, the others move up, and one enters.             *)
(***************************************************************************)
EXTENDS ElasticBuffer, FiniteSetTheorems, TLAPS

TypeOK ==
  /\ slots \in [1 .. Capacity -> Data \cup {NoToken}]
  /\ input \in Data \cup {NoToken}
  /\ taking \in BOOLEAN

\* The first h slots are full, and no other.
Packed(h) == \A i \in 1 .. Capacity : Full(slots[i]) <=> i <= h

\* There is no gap between the tokens.
IInv == TypeOK /\ \E h \in 0 .. Capacity : Packed(h)

-----------------------------------------------------------------------------
(* What is visible of a buffer with h tokens. *)

\* The count of full slots, and the tokens in them, of any slots t of which the
\* first h are full.
LEMMA PrefixContent ==
  ASSUME NEW t \in [1 .. Capacity -> Data \cup {NoToken}], NEW h \in 0 .. Capacity,
         \A i \in 1 .. Capacity : Full(t[i]) <=> i <= h
  PROVE  SubSeq(t, 1, Cardinality({i \in 1 .. Capacity : Full(t[i])})) = [i \in 1 .. h |-> t[i]]
<1>1. {i \in 1 .. Capacity : Full(t[i])} = 1 .. h
  BY CapacityAssumption
<1>2. Cardinality(1 .. h) = h
  BY FS_Interval
<1>3. t \in Seq(Data \cup {NoToken}) /\ Len(t) = Capacity
  BY CapacityAssumption
<1>4. SubSeq(t, 1, h) = [i \in 1 .. h |-> t[i]]
  BY <1>3, CapacityAssumption
<1> QED BY <1>1, <1>2, <1>4

\* The tokens, in order.
LEMMA ContentIs ==
  ASSUME TypeOK, NEW h \in 0 .. Capacity, Packed(h)
  PROVE  /\ content = [i \in 1 .. h |-> slots[i]]
         /\ content \in Seq(Data) /\ Len(content) = h
         /\ content = << >> <=> h = 0
<1>1. content = [i \in 1 .. h |-> slots[i]]
  BY PrefixContent DEF content, held, TypeOK, Packed
<1>2. \A i \in 1 .. h : slots[i] \in Data
  BY CapacityAssumption DEF TypeOK, Packed, Full
<1>3. content \in [1 .. h -> Data]
  BY <1>1, <1>2
<1>4. content \in Seq(Data) /\ Len(content) = h
  BY <1>3
<1> QED BY <1>1, <1>4

\* The signals of the buffer: it accepts a token unless it is full, and the
\* wires carry what the environment offers and the first slot holds.
LEMMA Signals ==
  ASSUME TypeOK, NEW h \in 0 .. Capacity, Packed(h)
  PROVE  /\ "in" \in ready <=> h < Capacity
         /\ "out" \in ready <=> taking
         /\ wires["in"] = input
         /\ wires["out"] = slots[1]
<1>1. Full(slots[Capacity]) <=> h = Capacity
  BY CapacityAssumption DEF Packed
<1>2. BufferAccepting(buffer, slots) = IF h = Capacity THEN {} ELSE {"in"}
  BY <1>1 DEF BufferAccepting, buffer, Node
<1>3. "in" \in ready <=> h < Capacity
  BY <1>2, CapacityAssumption DEF ready
<1>4. "out" \in ready <=> taking
  BY <1>2 DEF ready
<1> QED BY <1>3, <1>4 DEF wires, BufferDriven

-----------------------------------------------------------------------------
(* One cycle. *)

\* With h tokens, `left' is how many stay behind and `moved' by how many slots
\* they move up.  The token that is accepted goes into the slot behind them.
LEMMA CycleShifts ==
  ASSUME TypeOK, NEW h \in 0 .. Capacity, Packed(h), Clock
  PROVE  LET moved == IF taking /\ h > 0 THEN 1 ELSE 0
             left  == h - moved
             enters == input # NoToken /\ h < Capacity
         IN  slots' = [i \in 1 .. Capacity |->
                         IF i <= left THEN slots[i + moved]
                         ELSE IF enters /\ i = left + 1 THEN input
                         ELSE NoToken]
<1> DEFINE moved == IF taking /\ h > 0 THEN 1 ELSE 0
           left  == h - moved
           enters == input # NoToken /\ h < Capacity
           vacant(i) == Moved(slots, taking, i) \/ ~ Full(slots[i])
           next(i) == IF i < Capacity THEN slots[i + 1] ELSE NoToken
           consumed(i) == \E j \in 1 .. (i - 1) : vacant(j) /\ ~ Full(next(j))
           after(i) == IF ~ vacant(i) THEN slots[i]
                       ELSE IF Full(next(i)) THEN next(i)
                       ELSE IF enters /\ ~ consumed(i) THEN input ELSE NoToken
           claimed(i) == IF i <= left THEN slots[i + moved]
                         ELSE IF enters /\ i = left + 1 THEN input
                         ELSE NoToken
<1>1. slots' = [i \in 1 .. Capacity |-> after(i)]
  <2>1. /\ buffer.ins[1] = "in" /\ buffer.outs[1] = "out" /\ buffer.par = Capacity
    BY DEF buffer, Node
  <2>2. slots' = BufferClocked(buffer, slots, wires, ready)
    BY DEF Clock
  <2>3. /\ "in" \in ready /\ Full(wires["in"]) <=> enters
        /\ "out" \in ready <=> taking
        /\ wires["in"] = input
    BY Signals DEF Full
  <2>4. \A i : Moved(slots, "out" \in ready, i) <=> Moved(slots, taking, i)
    BY <2>3 DEF Moved
  <2> HIDE DEF enters
  <2> QED BY <2>1, <2>2, <2>3, <2>4, Zenon DEF BufferClocked
<1>2. ASSUME NEW i \in 1 .. Capacity
      PROVE  vacant(i) <=> taking \/ h < i
  <2>1. \A j \in 1 .. (i - 1) : j \in 1 .. Capacity
    BY CapacityAssumption
  <2> QED BY <2>1, CapacityAssumption DEF Packed, Moved
<1>3. ASSUME NEW i \in 1 .. Capacity
      PROVE  Full(next(i)) <=> i < h
  BY CapacityAssumption DEF Packed, Full
<1>4. ASSUME NEW i \in 1 .. Capacity
      PROVE  consumed(i) <=> left + 1 < i
  <2>1. \A j \in 1 .. (i - 1) : /\ j \in 1 .. Capacity
                                /\ vacant(j) <=> taking \/ h < j
                                /\ Full(next(j)) <=> j < h
    BY <1>2, <1>3, CapacityAssumption
  <2> HIDE DEF vacant, next
  <2>2. consumed(i) <=> \E j \in 1 .. (i - 1) : (taking \/ h < j) /\ ~ (j < h)
    BY <2>1
  <2>3. ASSUME NEW j \in 1 .. (i - 1), taking \/ h < j, ~ (j < h)
        PROVE  left + 1 < i
    BY <2>3, CapacityAssumption
  <2>4. ASSUME left + 1 < i
        PROVE  /\ left + 1 \in 1 .. (i - 1)
               /\ taking \/ h < left + 1
               /\ ~ (left + 1 < h)
    BY <2>4, CapacityAssumption DEF TypeOK
  <2> QED BY <2>2, <2>3, <2>4
<1>5. ASSUME NEW i \in 1 .. Capacity
      PROVE  after(i) = claimed(i)
  <2> HIDE DEF vacant, consumed
  <2>1. CASE ~ taking
    BY <2>1, <1>2, <1>3, <1>4, CapacityAssumption DEF Packed, Full
  <2>2. CASE taking /\ h = 0
    BY <2>2, <1>2, <1>3, <1>4, CapacityAssumption DEF Packed, Full
  <2>3. CASE taking /\ h > 0
    BY <2>3, <1>2, <1>3, <1>4, CapacityAssumption DEF Packed, Full
  <2> QED BY <2>1, <2>2, <2>3, CapacityAssumption DEF TypeOK
<1> QED BY <1>1, <1>5

\* What is left after a cycle is packed again: the tokens that stay and the one
\* that enters.
LEMMA CyclePacks ==
  ASSUME TypeOK, NEW h \in 0 .. Capacity, Packed(h), Clock
  PROVE  LET moved == IF taking /\ h > 0 THEN 1 ELSE 0
             entered == IF input # NoToken /\ h < Capacity THEN 1 ELSE 0
         IN  /\ TypeOK'
             /\ \E g \in 0 .. Capacity : g = h - moved + entered /\ Packed(g)'
<1> DEFINE moved == IF taking /\ h > 0 THEN 1 ELSE 0
           left  == h - moved
           enters == input # NoToken /\ h < Capacity
           entered == IF enters THEN 1 ELSE 0
<1>1. slots' = [i \in 1 .. Capacity |->
                  IF i <= left THEN slots[i + moved]
                  ELSE IF enters /\ i = left + 1 THEN input
                  ELSE NoToken]
  BY CycleShifts
<1>2. \A i \in 1 .. Capacity : i <= left =>
        /\ i + moved \in 1 .. Capacity /\ i + moved <= h
        /\ slots[i + moved] \in Data \cup {NoToken} /\ slots[i + moved] # NoToken
  BY CapacityAssumption DEF Packed, TypeOK, Full
<1>3. TypeOK'
  BY <1>1, <1>2 DEF TypeOK, Clock
<1>4. left + entered \in 0 .. Capacity
  BY CapacityAssumption
<1>5. ASSUME NEW i \in 1 .. Capacity
      PROVE  slots'[i] # NoToken <=> i <= left + entered
  BY <1>1, <1>2, CapacityAssumption
<1>6. ASSUME NEW g, g = left + entered
      PROVE  Packed(g)'
  BY <1>5, <1>6 DEF Packed, Full
<1> QED BY <1>3, <1>4, <1>6

\* What a cycle does to the content.
LEMMA CycleContent ==
  ASSUME TypeOK, NEW h \in 0 .. Capacity, Packed(h), Clock
  PROVE  content' = SubSeq(content, queue!Taken + 1, Len(content)) \o queue!Accepted
<1> DEFINE moved == IF taking /\ h > 0 THEN 1 ELSE 0
           left  == h - moved
           enters == input # NoToken /\ h < Capacity
           entered == IF enters THEN 1 ELSE 0
           stay == SubSeq(content, moved + 1, h)
           new == IF enters THEN << input >> ELSE << >>
<1>1. /\ content = [i \in 1 .. h |-> slots[i]] /\ content \in Seq(Data)
      /\ Len(content) = h /\ (content = << >> <=> h = 0)
  BY ContentIs
<1>2. queue!Taken = moved /\ queue!Accepted = new
  BY <1>1, CapacityAssumption DEF queue!Taken, queue!Accepted
<1>3. PICK g \in 0 .. Capacity : g = left + entered /\ TypeOK' /\ Packed(g)'
  BY CyclePacks
<1>4. content' = [i \in 1 .. left + entered |-> slots'[i]]
  BY <1>3, PrefixContent DEF content, held, TypeOK, Packed
<1>5. slots' = [i \in 1 .. Capacity |->
                  IF i <= left THEN slots[i + moved]
                  ELSE IF enters /\ i = left + 1 THEN input
                  ELSE NoToken]
  BY CycleShifts
<1>6. stay \in Seq(Data) /\ Len(stay) = left /\ \A i \in 1 .. left : stay[i] = slots[i + moved]
  BY <1>1, CapacityAssumption
<1>7. new \in Seq(Data) /\ Len(new) = entered /\ \A i \in 1 .. entered : new[i] = input
  BY DEF TypeOK
<1> DEFINE both == stay \o new
<1>8. both \in Seq(Data) /\ Len(both) = left + entered
      /\ \A i \in 1 .. left + entered : both[i] = IF i <= left THEN stay[i] ELSE new[i - left]
  <2>1. left \in Nat /\ entered \in Nat
    OBVIOUS
  <2> HIDE DEF stay, new, left, entered
  <2> QED BY <1>6, <1>7, <2>1
<1>9. ASSUME NEW i \in 1 .. left + entered
      PROVE  both[i] = slots'[i]
  <2>1. i \in 1 .. Capacity /\ left \in Nat
    BY <1>3, CapacityAssumption
  <2>2. CASE i <= left
    <3>1. both[i] = stay[i] /\ stay[i] = slots[i + moved]
      <4> HIDE DEF both, stay, new, left, entered, moved
      <4> QED BY <2>1, <2>2, <1>6, <1>8
    <3>2. slots'[i] = slots[i + moved]
      BY <1>5, <2>1, <2>2
    <3> QED BY <3>1, <3>2
  <2>3. CASE ~ (i <= left)
    <3>1. enters /\ i = left + 1 /\ entered = 1
      BY <2>1, <2>3
    <3>2. both[i] = new[1] /\ new[1] = input
      <4>1. i - left = 1 /\ left + 1 \in Nat
        BY <3>1, <2>1
      <4> HIDE DEF both, stay, new, left, entered, moved, enters
      <4> QED BY <4>1, <2>3, <3>1, <1>7, <1>8
    <3>3. slots'[i] = input
      <4> HIDE DEF left, moved, enters
      <4> QED BY <1>5, <2>1, <2>3, <3>1
    <3> QED BY <3>2, <3>3
  <2> QED BY <2>2, <2>3
<1>10. both = content'
  <2> HIDE DEF both, left, entered
  <2>1. both = [i \in 1 .. left + entered |-> both[i]]
    BY <1>8
  <2> QED BY <2>1, <1>4, <1>9
<1> QED BY <1>1, <1>2, <1>10

-----------------------------------------------------------------------------
(* The theorems. *)

LEMMA InitInv == Init => IInv /\ Packed(0)
<1> SUFFICES ASSUME Init PROVE IInv /\ Packed(0)
  OBVIOUS
<1>1. slots = [i \in 1 .. Capacity |-> NoToken]
  <2>1. buffer.kind = "buffer" /\ buffer.par = Capacity
    BY DEF buffer, Node
  <2>2. InitialRegisters(buffer) = [i \in 1 .. buffer.par |-> NoToken]
    BY <2>1 DEF InitialRegisters, IsMem
  <2> QED BY <2>1, <2>2 DEF Init
<1>2. TypeOK
  BY <1>1 DEF Init, TypeOK
<1>3. Packed(0)
  BY <1>1, CapacityAssumption DEF Packed, Full
<1> QED BY <1>2, <1>3, CapacityAssumption DEF IInv

LEMMA StepInv == IInv /\ [Clock]_vars => IInv'
<1> SUFFICES ASSUME IInv, [Clock]_vars PROVE IInv'
  OBVIOUS
<1>1. PICK h \in 0 .. Capacity : Packed(h)
  BY DEF IInv
<1>2. CASE Clock
  <2>1. TypeOK' /\ \E g \in 0 .. Capacity : Packed(g)'
    BY <1>1, <1>2, CyclePacks DEF IInv
  <2> QED BY <2>1 DEF IInv
<1>3. CASE UNCHANGED vars
  BY <1>3 DEF vars, IInv, TypeOK, Packed
<1> QED BY <1>2, <1>3

\* There is never a gap between the tokens that a buffer holds.
THEOREM StaysPacked == Spec => []IInv
<1> QED BY InitInv, StepInv, PTL DEF Spec

\* The buffer shows its neighbours what a bounded queue shows (the valid, data
\* and ready signals of MlirGenBuffer).
THEOREM ShowsQueue == Spec => []ShowsFifo
<1>1. IInv => ShowsFifo
  <2> SUFFICES ASSUME IInv PROVE ShowsFifo
    OBVIOUS
  <2>1. PICK h \in 0 .. Capacity : Packed(h)
    BY DEF IInv
  <2>2. /\ content = [i \in 1 .. h |-> slots[i]] /\ content \in Seq(Data)
        /\ Len(content) = h /\ (content = << >> <=> h = 0)
    BY <2>1, ContentIs DEF IInv
  <2>3. ("in" \in ready <=> h < Capacity) /\ wires["out"] = slots[1]
    BY <2>1, Signals DEF IInv
  <2>4. h = 0 => slots[1] = NoToken
    BY <2>1, CapacityAssumption DEF Packed, Full
  <2> QED BY <2>2, <2>3, <2>4, CapacityAssumption DEF ShowsFifo
<1> QED BY <1>1, StaysPacked, PTL

\* The buffer implements the bounded queue: for every capacity and all tokens,
\* each cycle of the shift register is a step of the queue.
THEOREM ImplementsFifo == Spec => IsFifo
<1>1. Init => queue!Init
  <2> SUFFICES ASSUME Init PROVE queue!Init
    OBVIOUS
  <2>1. content = << >>
    BY InitInv, ContentIs, CapacityAssumption DEF IInv
  <2> QED BY <2>1 DEF Init, queue!Init
<1>2. IInv /\ [Clock]_vars => [queue!Next]_(queue!vars)
  <2> SUFFICES ASSUME IInv, [Clock]_vars PROVE [queue!Next]_(queue!vars)
    OBVIOUS
  <2>1. PICK h \in 0 .. Capacity : Packed(h)
    BY DEF IInv
  <2>2. CASE Clock
    BY <2>1, <2>2, CycleContent DEF IInv, queue!Next, Clock
  <2>3. CASE UNCHANGED vars
    BY <2>3 DEF vars, queue!vars, content, held
  <2> QED BY <2>2, <2>3
<1> QED BY <1>1, <1>2, StaysPacked, PTL DEF Spec, IsFifo, queue!Spec
=============================================================================

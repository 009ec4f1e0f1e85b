-------------------------------- MODULE Fifo --------------------------------
(***************************************************************************)
(* What a buffer promises, cycle by cycle: a queue of at most Capacity     *)
(* tokens that offers its oldest token and accepts a new one whenever it   *)
(* is not full.                                                            *)
(***************************************************************************)
EXTENDS Naturals, Sequences

CONSTANTS Capacity, Data, NoToken

VARIABLES
  queue,  \* the tokens held, the oldest first
  input,  \* the token offered to the buffer in this cycle, or NoToken
  taking  \* the output is ready in this cycle

vars == << queue, input, taking >>

Taken    == IF taking /\ queue # << >> THEN 1 ELSE 0
Accepted == IF input # NoToken /\ Len(queue) < Capacity THEN << input >> ELSE << >>

Init ==
  /\ queue = << >>
  /\ input \in Data \cup {NoToken}
  /\ taking \in BOOLEAN

Next ==
  /\ queue' = SubSeq(queue, Taken + 1, Len(queue)) \o Accepted
  /\ input' \in Data \cup {NoToken}
  /\ taking' \in BOOLEAN

Spec == Init /\ [][Next]_vars
=============================================================================

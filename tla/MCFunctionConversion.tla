------------------------- MODULE MCFunctionConversion -------------------------
(* Small functions for FunctionConversion.                                 *)
EXTENDS FunctionConversion

Moves == <<"x", "swap", "y", "swap", "x", "y", "swap">>

Moving(succ) == [succ |-> succ, switches |-> {}, lcssa |-> {}, globals |-> {}, move |-> [b \in DOMAIN succ |-> Moves[b]]]
Keeping(succ) == [Moving(succ) EXCEPT !.move = [b \in DOMAIN succ |-> "keep"]]
Switching(p, blocks) == [p EXCEPT !.switches = blocks]
Lcssa(p, blocks) == [p EXCEPT !.lcssa = blocks]
WithGlobals(p, gs) == [p EXCEPT !.globals = gs]

(* A function without an end keeps its variables in memory.                *)
Function(succ) == IF <<>> \in ToSet(succ) THEN Moving(succ) ELSE Keeping(succ)

(* Every function of four blocks whose block 1, which has no predecessors, *)
(* branches, with both orders of the edges of blocks 2 and 3; and those    *)
(* whose block 1 leads to block 2, with one order.                         *)
Endings(pairs) == {<<>>, <<2>>, <<3>>, <<4>>} \cup pairs
OneOrder == {<<2, 3>>, <<2, 4>>, <<3, 4>>}
BothOrders == OneOrder \cup {<<3, 2>>, <<4, 2>>, <<4, 3>>}

Reachable(succ) == Closure([b \in DOMAIN succ |-> ToSet(succ[b])], {1}, {1}) = DOMAIN succ
Shapes(first, pairs) ==
  {s \in {<<first, a, b, c>> : a, b \in Endings(pairs), c \in Endings(OneOrder)} : Reachable(s)}

(* Larger ones.                                                            *)
Larger == {
  <<<<2>>, <<3>>, <<3, 4>>, <<2, 5>>, <<>>>>,          \* a loop in a loop,
  <<<<2>>, <<3>>, <<4, 3>>, <<5, 2>>, <<>>>>,
  <<<<2>>, <<3>>, <<4, 5>>, <<3, 2>>, <<>>>>,          \* with a way out of both
  <<<<2>>, <<3, 5>>, <<2, 4>>, <<2>>, <<>>>>,          \* two ways back
  <<<<2, 3, 4>>, <<5>>, <<5>>, <<5>>, <<>>>>,          \* three alternatives,
  <<<<2, 3, 4>>, <<3>>, <<4>>, <<5>>, <<>>>>,          \* one leading to the next,
  <<<<2, 3, 4>>, <<3>>, <<4>>, <<2, 5>>, <<>>>>,       \* into one loop,
  <<<<2>>, <<3>>, <<4>>, <<2, 3, 5>>, <<>>>>,          \* out of two loops,
  <<<<2>>, <<2, 3, 4>>, <<>>, <<>>>>}                  \* out of one

Special == {
  Keeping(<<<<2, 2>>, <<>>>>), Moving(<<<<2, 2>>, <<>>>>),
  Keeping(<<<<2, 3, 3>>, <<3>>, <<>>>>), Moving(<<<<2, 3, 3>>, <<3>>, <<>>>>),
  Moving(<<<<2>>, <<3>>, <<4>>, <<2, 3>>>>),
  Switching(Moving(<<<<2, 3>>, <<4>>, <<4>>, <<>>>>), {1}),
  Switching(Moving(<<<<2>>, <<3, 4>>, <<2>>, <<>>>>), {2}),
  Switching(Moving(<<<<2>>, <<3, 4>>, <<>>, <<2, 3>>>>), {2, 4}),
  Lcssa(Moving(<<<<2>>, <<2, 3>>, <<>>>>), {3}),
  Lcssa(Moving(<<<<2>>, <<3>>, <<>>>>), {3})}
    \cup {WithGlobals(Moving(s), gs) :
            s \in {<<<<2, 3>>, <<3>>, <<>>>>, <<<<2>>, <<2, 3>>, <<>>>>}, gs \in {{"x"}, {"y"}, {"x", "y"}}}

MCPrograms ==
  {Function(s) : s \in Shapes(<<2, 3>>, BothOrders) \cup Shapes(<<2>>, OneOrder) \cup Larger}
    \cup {Keeping(s) : s \in Shapes(<<2>>, OneOrder) \cup Larger} \cup Special

(* A loop left when its condition is true; a loop left on two ways, to one *)
(* block.                                                                  *)
MCInverted == {Keeping(<<<<2>>, <<3, 2>>, <<>>>>)}
MCTwoWaysOut == {Function(<<<<2>>, <<3, 4>>, <<>>, <<2, 3>>>>)}
===============================================================================

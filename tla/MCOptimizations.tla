--------------------------- MODULE MCOptimizations ---------------------------
(***************************************************************************)
(* Instances of Optimizations: small programs of each shape that the       *)
(* passes look for.  Numbers have four bits.  length: of the sequences of  *)
(* passes.                                                                 *)
(***************************************************************************)
EXTENDS Optimizations

(***************************************************************************)
(* Programs are written as tables of nodes and of regions.                 *)
(***************************************************************************)
Node(op, ins, outs, subs, home) == [op |-> op, ins |-> ins, outs |-> outs, subs |-> subs, home |-> home]
Region(owner, args, results) == [owner |-> owner, args |-> args, results |-> results]
Graph(nodes, regions) ==
  [node |-> nodes, region |-> regions, fresh |-> 1 + Max(DOMAIN nodes \cup DOMAIN regions), mutable |-> {},
   pointers |-> {}]

Binary(fn, a, b, home) == Node([kind |-> "binary", fn |-> fn], <<a, b>>, <<"bits">>, <<>>, home)
Compare(fn, a, b, home) == Node([kind |-> "compare", fn |-> fn], <<a, b>>, <<"bit1">>, <<>>, home)
Number(value, home) == Node(Constant(value), <<>>, <<"bits">>, <<>>, home)
Match(o, home) == Node(MatchOne, <<o>>, <<"ctl2">>, <<>>, home)
Load(ins, home) == Node([kind |-> "load"], ins, <<"bits">> \o [k \in 1 .. Len(ins) - 1 |-> "mem"], <<>>, home)
Store(ins, home) == Node([kind |-> "store"], ins, [k \in 1 .. Len(ins) - 2 |-> "mem"], <<>>, home)
Alloca(home) == Node([kind |-> "alloca"], <<>>, <<"ptr", "mem">>, <<>>, home)
Malloc(size, home) == Node([kind |-> "malloc"], <<size>>, <<"ptr", "mem">>, <<>>, home)
LoadPointer(ins, home) == [Load(ins, home) EXCEPT !.outs[1] = "ptr"]
Memcpy(ins, home) == Node([kind |-> "memcpy"], ins, [k \in 1 .. Len(ins) - 2 |-> "mem"], <<>>, home)
Gep(o, home) == Node([kind |-> "gep"], <<o>>, <<"ptr">>, <<>>, home)
Merge(ins, home) == Node([kind |-> "merge"], ins, <<"mem">>, <<>>, home)
Gamma(ins, outs, subs, home) == Node([kind |-> "gamma"], ins, outs, subs, home)
Theta(ins, outs, sub, home) == Node([kind |-> "theta"], ins, outs, <<sub>>, home)
Call(ins, outs, home) == Node([kind |-> "call"], ins, outs, <<>>, home)
Lambda(ins, sub) == Node([kind |-> "lambda"], ins, <<"ptr">>, <<sub>>, 1)

Program(g, entry, inputs, length) ==
  [graph |-> g, entry |-> entry, inputs |-> inputs, locations |-> {Imported(1)}, passes |-> length, encodings |-> {}]
Numbers2 == {<<a, b>> : a \in {1, 6}, b \in {1, 3}}
(* The memory at the start: the imported variable is 5.                    *)
Memory0 == (Imported(1) :> Cell(5))

(***************************************************************************)
(* A branch with an operation in front that one side needs, the same       *)
(* operation twice, and a value that passes both sides unchanged.          *)
(***************************************************************************)
Branch ==
  Program(Graph(
    (2 :> Lambda(<<>>, 3)) @@ (10 :> Compare("ult", <<3, 1>>, <<3, 2>>, 3)) @@ (11 :> Match(<<10, 1>>, 3))
      @@ (12 :> Binary("sub", <<3, 1>>, <<3, 2>>, 3)) @@ (13 :> Binary("sub", <<3, 1>>, <<3, 2>>, 3))
      @@ (14 :> Gamma(<< <<11, 1>>, <<3, 1>>, <<12, 1>>, <<13, 1>> >>, <<"bits", "bits", "bits">>, <<4, 5>>, 3))
      @@ (15 :> Number(3, 4)) @@ (16 :> Binary("add", <<4, 1>>, <<15, 1>>, 4)) @@ (17 :> Binary("mul", <<16, 1>>, <<4, 1>>, 4))
      @@ (18 :> Binary("xor", <<5, 2>>, <<5, 3>>, 5)),
    (1 :> Region(1, <<>>, << <<2, 1>> >>)) @@ (3 :> Region(2, <<"bits", "bits">>, << <<14, 1>>, <<14, 2>>, <<14, 3>> >>))
      @@ (4 :> Region(14, <<"bits", "bits", "bits">>, << <<17, 1>>, <<4, 1>>, <<4, 3>> >>))
      @@ (5 :> Region(14, <<"bits", "bits", "bits">>, << <<18, 1>>, <<5, 1>>, <<5, 3>> >>))),
    2, Numbers2, 3)

(***************************************************************************)
(* Loops.  i goes from init by step as long as it compares to end; what it *)
(* has been is summed up.                                                  *)
(***************************************************************************)
(* All of it known.                                                        *)
CountedLoop(init, arm, step, cmp, end, length) ==
  Program(Graph(
    (2 :> Lambda(<<>>, 3)) @@ (10 :> Number(init, 3))
      @@ (11 :> Theta(<< <<10, 1>>, <<3, 1>>, <<3, 1>> >>, <<"bits", "bits", "bits">>, 4, 3))
      @@ (12 :> Number(step, 4)) @@ (13 :> Binary(arm, <<4, 1>>, <<12, 1>>, 4)) @@ (14 :> Number(end, 4))
      @@ (15 :> Compare(cmp, <<13, 1>>, <<14, 1>>, 4)) @@ (16 :> Match(<<15, 1>>, 4))
      @@ (17 :> Binary("add", <<4, 2>>, <<13, 1>>, 4)),
    (1 :> Region(1, <<>>, << <<2, 1>> >>)) @@ (3 :> Region(2, <<"bits">>, << <<11, 1>>, <<11, 2>>, <<11, 3>> >>))
      @@ (4 :> Region(11, <<"bits", "bits", "bits">>, << <<16, 1>>, <<13, 1>>, <<17, 1>>, <<4, 3>> >>))),
    2, {<<2>>, <<9>>}, length)
(* The end is an argument, and the loop is guarded.                        *)
GuardedLoop(step) ==
  Program(Graph(
    (2 :> Lambda(<<>>, 3)) @@ (10 :> Number(0, 3)) @@ (11 :> Compare("ult", <<10, 1>>, <<3, 1>>, 3))
      @@ (12 :> Match(<<11, 1>>, 3))
      @@ (13 :> Gamma(<< <<12, 1>>, <<10, 1>>, <<3, 2>>, <<3, 1>> >>, <<"bits", "bits">>, <<4, 5>>, 3))
      @@ (14 :> Theta(<< <<5, 1>>, <<5, 2>>, <<5, 3>> >>, <<"bits", "bits", "bits">>, 6, 5))
      @@ (15 :> Number(step, 6)) @@ (16 :> Binary("add", <<6, 1>>, <<15, 1>>, 6))
      @@ (17 :> Compare("ult", <<16, 1>>, <<6, 3>>, 6)) @@ (18 :> Match(<<17, 1>>, 6))
      @@ (19 :> Binary("add", <<6, 2>>, <<6, 1>>, 6)),
    (1 :> Region(1, <<>>, << <<2, 1>> >>)) @@ (3 :> Region(2, <<"bits", "bits">>, << <<13, 1>>, <<13, 2>> >>))
      @@ (4 :> Region(13, <<"bits", "bits", "bits">>, << <<4, 1>>, <<4, 2>> >>))
      @@ (5 :> Region(13, <<"bits", "bits", "bits">>, << <<14, 1>>, <<14, 2>> >>))
      @@ (6 :> Region(14, <<"bits", "bits", "bits">>, << <<18, 1>>, <<16, 1>>, <<19, 1>>, <<6, 3>> >>))),
    2, {<<n, 1>> : n \in {0, 1, 4, 5}}, 2)
(* The condition in front, as loops come from the frontend; each iteration *)
(* stores i.                                                               *)
WhileLoop ==
  Program(Graph(
    (2 :> Lambda(<< <<1, 1>> >>, 3)) @@ (10 :> Number(0, 3))
      @@ (11 :> Theta(<< <<10, 1>>, <<3, 2>>, <<3, 1>>, <<3, 3>> >>, <<"bits", "mem", "bits", "ptr">>, 4, 3))
      @@ (12 :> Compare("ult", <<4, 1>>, <<4, 3>>, 4)) @@ (13 :> Match(<<12, 1>>, 4))
      @@ (14 :> Gamma(<< <<13, 1>>, <<4, 1>>, <<4, 2>>, <<4, 4>> >>, <<"bits", "mem">>, <<5, 6>>, 4))
      @@ (15 :> Store(<< <<6, 3>>, <<6, 1>>, <<6, 2>> >>, 6)) @@ (16 :> Number(1, 6))
      @@ (17 :> Binary("add", <<6, 1>>, <<16, 1>>, 6)),
    (1 :> Region(1, <<"ptr">>, << <<2, 1>> >>)) @@ (3 :> Region(2, <<"bits", "mem", "ptr">>, << <<11, 1>>, <<11, 2>> >>))
      @@ (4 :> Region(11, <<"bits", "mem", "bits", "ptr">>, << <<13, 1>>, <<14, 1>>, <<14, 2>>, <<4, 3>>, <<4, 4>> >>))
      @@ (5 :> Region(14, <<"bits", "mem", "ptr">>, << <<5, 1>>, <<5, 2>> >>))
      @@ (6 :> Region(14, <<"bits", "mem", "ptr">>, << <<17, 1>>, <<15, 1>> >>))),
    2, {<<n, Memory0>> : n \in {0, 1, 4}}, 3)
(* A store at the end of each iteration to the same address.               *)
StoreLoop ==
  Program(Graph(
    (2 :> Lambda(<< <<1, 1>> >>, 3)) @@ (10 :> Number(0, 3))
      @@ (11 :> Theta(<< <<10, 1>>, <<3, 2>>, <<3, 1>>, <<3, 3>> >>, <<"bits", "mem", "bits", "ptr">>, 4, 3))
      @@ (12 :> Number(1, 4)) @@ (13 :> Binary("add", <<4, 1>>, <<12, 1>>, 4))
      @@ (14 :> Compare("ult", <<13, 1>>, <<4, 3>>, 4)) @@ (15 :> Match(<<14, 1>>, 4))
      @@ (16 :> Binary("mul", <<4, 1>>, <<13, 1>>, 4)) @@ (17 :> Store(<< <<4, 4>>, <<16, 1>>, <<4, 2>> >>, 4))
      @@ (18 :> Load(<< <<3, 3>>, <<11, 2>> >>, 3)),
    (1 :> Region(1, <<"ptr">>, << <<2, 1>> >>)) @@ (3 :> Region(2, <<"bits", "mem", "ptr">>, << <<18, 1>>, <<18, 2>> >>))
      @@ (4 :> Region(11, <<"bits", "mem", "bits", "ptr">>,
                      << <<15, 1>>, <<13, 1>>, <<17, 1>>, <<4, 3>>, <<4, 4>> >>))),
    2, {<<n, Memory0>> : n \in {1, 3, 4}}, 3)

(***************************************************************************)
(* Memory: two local variables, their states merged, and a branch that     *)
(* changes one of them.                                                    *)
(***************************************************************************)
Locals ==
  Program(Graph(
    (2 :> Lambda(<<>>, 3)) @@ (10 :> Alloca(3)) @@ (11 :> Alloca(3))
      @@ (12 :> Store(<< <<10, 1>>, <<3, 1>>, <<10, 2>> >>, 3)) @@ (13 :> Store(<< <<11, 1>>, <<3, 2>>, <<11, 2>> >>, 3))
      @@ (14 :> Merge(<< <<12, 1>>, <<13, 1>> >>, 3)) @@ (15 :> Load(<< <<10, 1>>, <<14, 1>> >>, 3))
      @@ (16 :> Compare("ult", <<15, 1>>, <<3, 2>>, 3)) @@ (17 :> Match(<<16, 1>>, 3))
      @@ (18 :> Gamma(<< <<17, 1>>, <<11, 1>>, <<15, 1>>, <<15, 2>> >>, <<"mem">>, <<4, 5>>, 3))
      @@ (19 :> Binary("add", <<5, 2>>, <<5, 2>>, 5)) @@ (20 :> Store(<< <<5, 1>>, <<19, 1>>, <<5, 3>> >>, 5))
      @@ (21 :> Load(<< <<11, 1>>, <<18, 1>> >>, 3)),
    (1 :> Region(1, <<>>, << <<2, 1>> >>)) @@ (3 :> Region(2, <<"bits", "bits">>, << <<21, 1>>, <<15, 1>> >>))
      @@ (4 :> Region(18, <<"ptr", "bits", "mem">>, << <<4, 3>> >>))
      @@ (5 :> Region(18, <<"ptr", "bits", "mem">>, << <<20, 1>> >>))),
    2, Numbers2, 3)

(***************************************************************************)
(* Functions: one calls another in a branch, both show themselves to the   *)
(* outside.  Import 1 is a variable, import 2 a function.                  *)
(***************************************************************************)
Calls ==
  Program(Graph(
    (2 :> Lambda(<< <<1, 2>>, <<1, 1>> >>, 3)) @@ (4 :> Lambda(<< <<2, 1>>, <<1, 2>> >>, 5))
      @@ (10 :> Call(<< <<3, 3>>, <<3, 1>>, <<3, 2>> >>, <<"bits", "mem">>, 3))
      @@ (11 :> Store(<< <<3, 4>>, <<10, 1>>, <<10, 2>> >>, 3)) @@ (12 :> Binary("add", <<10, 1>>, <<3, 1>>, 3))
      @@ (13 :> Number(3, 5)) @@ (14 :> Compare("sle", <<5, 1>>, <<13, 1>>, 5)) @@ (15 :> Match(<<14, 1>>, 5))
      @@ (16 :> Gamma(<< <<15, 1>>, <<5, 1>>, <<5, 2>>, <<5, 3>> >>, <<"bits", "mem">>, <<6, 7>>, 5))
      @@ (17 :> Call(<< <<7, 3>>, <<7, 1>>, <<7, 2>> >>, <<"bits", "mem">>, 7))
      @@ (18 :> Call(<< <<5, 4>>, <<16, 1>>, <<16, 2>> >>, <<"bits", "mem">>, 5)),
    (1 :> Region(1, <<"ptr", "ptr">>, << <<4, 1>> >>))
      @@ (3 :> Region(2, <<"bits", "mem", "ptr", "ptr">>, << <<12, 1>>, <<11, 1>> >>))
      @@ (5 :> Region(4, <<"bits", "mem", "ptr", "ptr">>, << <<18, 1>>, <<18, 2>> >>))
      @@ (6 :> Region(16, <<"bits", "mem", "ptr">>, << <<6, 1>>, <<6, 2>> >>))
      @@ (7 :> Region(16, <<"bits", "mem", "ptr">>, << <<17, 1>>, <<17, 2>> >>))),
    4, {<<n, Memory0>> : n \in {2, 5, 12}}, 3)

(***************************************************************************)
(* Constants: an operation on two of them, a comparison with one, and a    *)
(* branch with a constant predicate.                                       *)
(***************************************************************************)
Folding(fn, a, b, cmp, length) ==
  Program(Graph(
    (2 :> Lambda(<<>>, 3)) @@ (10 :> Number(a, 3)) @@ (11 :> Number(b, 3))
      @@ (12 :> Binary(fn, <<10, 1>>, <<11, 1>>, 3)) @@ (13 :> Compare(cmp, <<3, 1>>, <<12, 1>>, 3))
      @@ (14 :> Compare(cmp, <<10, 1>>, <<11, 1>>, 3))
      @@ (15 :> Node([kind |-> "control", value |-> 1], <<>>, <<"ctl2">>, <<>>, 3))
      @@ (16 :> Gamma(<< <<15, 1>>, <<3, 1>>, <<12, 1>> >>, <<"bits">>, <<4, 5>>, 3))
      @@ (17 :> Binary("sub", <<5, 1>>, <<5, 2>>, 5)),
    (1 :> Region(1, <<>>, << <<2, 1>> >>))
      @@ (3 :> Region(2, <<"bits">>, << <<12, 1>>, <<13, 1>>, <<14, 1>>, <<16, 1>> >>))
      @@ (4 :> Region(16, <<"bits", "bits">>, << <<4, 1>> >>)) @@ (5 :> Region(16, <<"bits", "bits">>, << <<17, 1>> >>))),
    2, {<<3>>, <<15>>}, length)
Operations == {"add", "sub", "mul", "umulh", "smulh", "and", "or", "xor", "udiv", "umod", "sdiv", "smod", "shl", "shr", "ashr"}
Comparisons == {"eq", "ne", "ult", "ule", "ugt", "uge", "slt", "sle", "sgt", "sge"}

(***************************************************************************)
(* Programs for the alias analyses and the encoding of memory states.      *)
(***************************************************************************)
AllEncodings == Encodings
Encoded(g, entry, inputs, locations, length, encodings) ==
  [graph |-> g, entry |-> entry, inputs |-> inputs, locations |-> locations, passes |-> length, encodings |-> encodings]

(* Two local variables, and a store to one of them.                        *)
ChosenLocal ==
  Encoded(Graph(
    (2 :> Lambda(<<>>, 3)) @@ (10 :> Alloca(3)) @@ (11 :> Alloca(3))
      @@ (12 :> Merge(<< <<3, 3>>, <<10, 2>> >>, 3)) @@ (13 :> Merge(<< <<12, 1>>, <<11, 2>> >>, 3))
      @@ (14 :> Store(<< <<10, 1>>, <<3, 1>>, <<13, 1>> >>, 3)) @@ (15 :> Store(<< <<11, 1>>, <<3, 2>>, <<14, 1>> >>, 3))
      @@ (16 :> Compare("ult", <<3, 1>>, <<3, 2>>, 3)) @@ (17 :> Match(<<16, 1>>, 3))
      @@ (18 :> Gamma(<< <<17, 1>>, <<10, 1>>, <<11, 1>> >>, <<"ptr">>, <<4, 5>>, 3)) @@ (19 :> Number(7, 3))
      @@ (20 :> Store(<< <<18, 1>>, <<19, 1>>, <<15, 1>> >>, 3)) @@ (21 :> Load(<< <<10, 1>>, <<20, 1>> >>, 3))
      @@ (22 :> Load(<< <<11, 1>>, <<21, 2>> >>, 3)),
    (1 :> Region(1, <<>>, << <<2, 1>> >>))
      @@ (3 :> Region(2, <<"bits", "bits", "mem">>, << <<21, 1>>, <<22, 1>>, <<22, 2>> >>))
      @@ (4 :> Region(18, <<"ptr", "ptr">>, << <<4, 1>> >>)) @@ (5 :> Region(18, <<"ptr", "ptr">>, << <<5, 2>> >>))),
    2, {<<a, b, NoMemory>> : a \in {1, 6}, b \in {3}}, {}, 3, AllEncodings)

(* Addresses from outside, a call to the outside, and an imported variable *)
(* that the second address may be of, too.  Steensgaard's analysis does    *)
(* not expect that, and does not count the variable as known outside.      *)
FromOutside(seconds, encodings) ==
  Encoded(Graph(
    (2 :> Lambda(<< <<1, 1>>, <<1, 2>> >>, 3))
      @@ (10 :> Store(<< <<3, 1>>, <<3, 3>>, <<3, 4>> >>, 3)) @@ (11 :> Load(<< <<3, 2>>, <<10, 1>> >>, 3))
      @@ (12 :> Store(<< <<3, 5>>, <<11, 1>>, <<11, 2>> >>, 3))
      @@ (13 :> Call(<< <<3, 6>>, <<3, 3>>, <<12, 1>> >>, <<"bits", "mem">>, 3))
      @@ (14 :> Load(<< <<3, 5>>, <<13, 2>> >>, 3)) @@ (15 :> Store(<< <<3, 2>>, <<14, 1>>, <<14, 2>> >>, 3))
      @@ (16 :> Load(<< <<3, 1>>, <<15, 1>> >>, 3)),
    (1 :> Region(1, <<"ptr", "ptr">>, << <<2, 1>> >>))
      @@ (3 :> Region(2, <<"ptr", "ptr", "bits", "mem", "ptr", "ptr">>, << <<11, 1>>, <<16, 1>>, <<16, 2>> >>))),
    2, {<<p, q, 3, [l \in {Imported(k) : k \in {1, 5, 6}} |-> Cell(l % 8)]>> :
          p \in {Imported(5)}, q \in {Imported(k) : k \in seconds}},
    {Imported(k) : k \in {1, 5, 6}}, 2, encodings)

(* A local variable whose address the outside learns.                      *)
Escaping ==
  Encoded(Graph(
    (2 :> Lambda(<< <<1, 1>> >>, 3)) @@ (10 :> Alloca(3)) @@ (11 :> Merge(<< <<3, 2>>, <<10, 2>> >>, 3))
      @@ (12 :> Store(<< <<10, 1>>, <<3, 1>>, <<11, 1>> >>, 3))
      @@ (13 :> Call(<< <<3, 3>>, <<10, 1>>, <<12, 1>> >>, <<"bits", "mem">>, 3))
      @@ (14 :> Load(<< <<10, 1>>, <<13, 2>> >>, 3)) @@ (15 :> Binary("add", <<14, 1>>, <<3, 1>>, 3))
      @@ (16 :> Store(<< <<10, 1>>, <<15, 1>>, <<14, 2>> >>, 3))
      @@ (17 :> Call(<< <<3, 3>>, <<13, 1>>, <<16, 1>> >>, <<"bits", "mem">>, 3))
      @@ (18 :> Load(<< <<10, 1>>, <<17, 2>> >>, 3)),
    (1 :> Region(1, <<"ptr">>, << <<2, 1>> >>))
      @@ (3 :> Region(2, <<"bits", "mem", "ptr">>, << <<18, 1>>, <<18, 2>> >>))),
    2, {<<3, NoMemory>>}, {}, 2, AllEncodings)

(* A function of the module that is called with the addresses of two local *)
(* variables in turn, in a branch the second time.                         *)
Callee ==
  Encoded(Graph(
    (2 :> Lambda(<<>>, 3)) @@ (10 :> Load(<< <<3, 1>>, <<3, 3>> >>, 3)) @@ (11 :> Binary("add", <<10, 1>>, <<3, 2>>, 3))
      @@ (12 :> Store(<< <<3, 1>>, <<11, 1>>, <<10, 2>> >>, 3))
      @@ (4 :> Lambda(<< <<2, 1>> >>, 5)) @@ (13 :> Alloca(5)) @@ (14 :> Alloca(5))
      @@ (15 :> Merge(<< <<5, 2>>, <<13, 2>>, <<14, 2>> >>, 5)) @@ (16 :> Store(<< <<13, 1>>, <<5, 1>>, <<15, 1>> >>, 5))
      @@ (17 :> Number(2, 5)) @@ (18 :> Store(<< <<14, 1>>, <<17, 1>>, <<16, 1>> >>, 5))
      @@ (19 :> Call(<< <<5, 3>>, <<13, 1>>, <<5, 1>>, <<18, 1>> >>, <<"mem">>, 5))
      @@ (20 :> Compare("ult", <<17, 1>>, <<5, 1>>, 5)) @@ (21 :> Match(<<20, 1>>, 5))
      @@ (22 :> Gamma(<< <<21, 1>>, <<5, 3>>, <<14, 1>>, <<5, 1>>, <<19, 1>> >>, <<"mem">>, <<6, 7>>, 5))
      @@ (23 :> Call(<< <<7, 1>>, <<7, 2>>, <<7, 3>>, <<7, 4>> >>, <<"mem">>, 7))
      @@ (24 :> Load(<< <<13, 1>>, <<22, 1>> >>, 5)) @@ (25 :> Load(<< <<14, 1>>, <<24, 2>> >>, 5)),
    (1 :> Region(1, <<>>, << <<4, 1>> >>)) @@ (3 :> Region(2, <<"ptr", "bits", "mem">>, << <<12, 1>> >>))
      @@ (5 :> Region(4, <<"bits", "mem", "ptr">>, << <<24, 1>>, <<25, 1>>, <<25, 2>> >>))
      @@ (6 :> Region(22, <<"ptr", "ptr", "bits", "mem">>, << <<6, 4>> >>))
      @@ (7 :> Region(22, <<"ptr", "ptr", "bits", "mem">>, << <<23, 1>> >>))),
    4, {<<n, NoMemory>> : n \in {1, 4}}, {}, 3, AllEncodings)

(* A loop that stores to two addresses in turn.                            *)
SwappingLoop ==
  Encoded(Graph(
    (2 :> Lambda(<<>>, 3)) @@ (10 :> Alloca(3)) @@ (11 :> Number(0, 3)) @@ (12 :> Malloc(<<11, 1>>, 3))
      @@ (13 :> Merge(<< <<3, 2>>, <<10, 2>>, <<12, 2>> >>, 3)) @@ (14 :> Store(<< <<10, 1>>, <<11, 1>>, <<13, 1>> >>, 3))
      @@ (15 :> Store(<< <<12, 1>>, <<11, 1>>, <<14, 1>> >>, 3))
      @@ (16 :> Theta(<< <<11, 1>>, <<3, 1>>, <<10, 1>>, <<12, 1>>, <<15, 1>> >>, <<"bits", "bits", "ptr", "ptr", "mem">>, 4, 3))
      @@ (17 :> Number(1, 4)) @@ (18 :> Binary("add", <<4, 1>>, <<17, 1>>, 4))
      @@ (19 :> Store(<< <<4, 3>>, <<18, 1>>, <<4, 5>> >>, 4)) @@ (20 :> Compare("ult", <<18, 1>>, <<4, 2>>, 4))
      @@ (21 :> Match(<<20, 1>>, 4))
      @@ (22 :> Load(<< <<10, 1>>, <<16, 5>> >>, 3)) @@ (23 :> Load(<< <<16, 3>>, <<22, 2>> >>, 3)),
    (1 :> Region(1, <<>>, << <<2, 1>> >>))
      @@ (3 :> Region(2, <<"bits", "mem">>, << <<22, 1>>, <<23, 1>>, <<23, 2>> >>))
      @@ (4 :> Region(16, <<"bits", "bits", "ptr", "ptr", "mem">>,
                      << <<21, 1>>, <<18, 1>>, <<4, 2>>, <<4, 4>>, <<4, 3>>, <<19, 1>> >>))),
    2, {<<n, NoMemory>> : n \in {1, 2, 3}}, {}, 2, AllEncodings)

(* Addresses in memory: one is copied from a variable to another, and used *)
(* from there.                                                             *)
StoredAddress ==
  Encoded(Graph(
    (2 :> Lambda(<<>>, 3)) @@ (10 :> Alloca(3)) @@ (11 :> Alloca(3)) @@ (12 :> Alloca(3)) @@ (13 :> Alloca(3))
      @@ (14 :> Merge(<< <<3, 2>>, <<10, 2>>, <<11, 2>>, <<12, 2>>, <<13, 2>> >>, 3))
      @@ (15 :> Store(<< <<12, 1>>, <<10, 1>>, <<14, 1>> >>, 3)) @@ (16 :> Memcpy(<< <<13, 1>>, <<12, 1>>, <<15, 1>> >>, 3))
      @@ (17 :> Store(<< <<12, 1>>, <<11, 1>>, <<16, 1>> >>, 3))
      @@ (18 :> Store(<< <<10, 1>>, <<3, 1>>, <<17, 1>> >>, 3)) @@ (19 :> LoadPointer(<< <<13, 1>>, <<18, 1>> >>, 3))
      @@ (20 :> Gep(<<19, 1>>, 3)) @@ (21 :> Number(9, 3)) @@ (22 :> Store(<< <<20, 1>>, <<21, 1>>, <<19, 2>> >>, 3))
      @@ (23 :> LoadPointer(<< <<12, 1>>, <<22, 1>> >>, 3)) @@ (24 :> Store(<< <<23, 1>>, <<3, 1>>, <<23, 2>> >>, 3))
      @@ (25 :> Load(<< <<10, 1>>, <<24, 1>> >>, 3)) @@ (26 :> Load(<< <<11, 1>>, <<25, 2>> >>, 3)),
    (1 :> Region(1, <<>>, << <<2, 1>> >>))
      @@ (3 :> Region(2, <<"bits", "mem">>, << <<25, 1>>, <<26, 1>>, <<26, 2>> >>))),
    2, {<<3, NoMemory>>}, {}, 2, AllEncodings)

(* A variable of the module holds the function that is called.             *)
Delta(ins, sub) == Node([kind |-> "delta"], ins, <<"ptr">>, <<sub>>, 1)
StoredFunction ==
  Encoded(Graph(
    (2 :> Lambda(<< <<1, 1>> >>, 3)) @@ (10 :> Store(<< <<3, 3>>, <<3, 1>>, <<3, 2>> >>, 3))
      @@ (4 :> Lambda(<< <<1, 1>> >>, 5)) @@ (11 :> Load(<< <<5, 3>>, <<5, 2>> >>, 5))
      @@ (12 :> Binary("add", <<11, 1>>, <<5, 1>>, 5)) @@ (13 :> Store(<< <<5, 3>>, <<12, 1>>, <<11, 2>> >>, 5))
      @@ (6 :> Delta(<< <<2, 1>> >>, 7))
      @@ (8 :> Lambda(<< <<6, 1>>, <<4, 1>>, <<1, 1>> >>, 9))
      @@ (14 :> LoadPointer(<< <<9, 3>>, <<9, 2>> >>, 9)) @@ (15 :> Store(<< <<9, 3>>, <<9, 4>>, <<14, 2>> >>, 9))
      @@ (16 :> Call(<< <<14, 1>>, <<9, 1>>, <<15, 1>> >>, <<"mem">>, 9))
      @@ (17 :> LoadPointer(<< <<9, 3>>, <<16, 1>> >>, 9)) @@ (18 :> Call(<< <<17, 1>>, <<9, 1>>, <<17, 2>> >>, <<"mem">>, 9))
      @@ (19 :> Load(<< <<9, 5>>, <<18, 1>> >>, 9)),
    (1 :> Region(1, <<"ptr">>, << <<8, 1>> >>))
      @@ (3 :> Region(2, <<"bits", "mem", "ptr">>, << <<10, 1>> >>))
      @@ (5 :> Region(4, <<"bits", "mem", "ptr">>, << <<13, 1>> >>))
      @@ (7 :> Region(6, <<"ptr">>, << <<7, 1>> >>))
      @@ (9 :> Region(8, <<"bits", "mem", "ptr", "ptr", "ptr">>, << <<19, 1>>, <<19, 2>> >>))),
    8, {<<3, (Address(6) :> Cell(Address(2))) @@ (Imported(1) :> Cell(5))>>}, {Imported(1)}, 2, AllEncodings)

(* The same from a function that does not touch the variable the called    *)
(* one stores to.                                                          *)
AppliedFunction ==
  Encoded(Graph(
    (2 :> Lambda(<< <<1, 1>> >>, 3)) @@ (10 :> Store(<< <<3, 3>>, <<3, 1>>, <<3, 2>> >>, 3))
      @@ (4 :> Delta(<< <<2, 1>> >>, 5))
      @@ (6 :> Lambda(<< <<4, 1>> >>, 7)) @@ (11 :> LoadPointer(<< <<7, 3>>, <<7, 2>> >>, 7)) @@ (12 :> Number(1, 7))
      @@ (13 :> Binary("add", <<7, 1>>, <<12, 1>>, 7)) @@ (14 :> Call(<< <<11, 1>>, <<13, 1>>, <<11, 2>> >>, <<"mem">>, 7))
      @@ (8 :> Lambda(<< <<6, 1>>, <<1, 1>> >>, 9)) @@ (15 :> Store(<< <<9, 4>>, <<9, 1>>, <<9, 2>> >>, 9))
      @@ (16 :> Call(<< <<9, 3>>, <<9, 1>>, <<15, 1>> >>, <<"mem">>, 9)) @@ (17 :> Load(<< <<9, 4>>, <<16, 1>> >>, 9)),
    (1 :> Region(1, <<"ptr">>, << <<8, 1>> >>))
      @@ (3 :> Region(2, <<"bits", "mem", "ptr">>, << <<10, 1>> >>)) @@ (5 :> Region(4, <<"ptr">>, << <<5, 1>> >>))
      @@ (7 :> Region(6, <<"bits", "mem", "ptr">>, << <<14, 1>> >>))
      @@ (9 :> Region(8, <<"bits", "mem", "ptr", "ptr">>, << <<17, 1>>, <<17, 2>> >>))),
    8, {<<3, (Address(4) :> Cell(Address(2))) @@ (Imported(1) :> Cell(5))>>}, {Imported(1)}, 2, AllEncodings)

MemoryPrograms ==
  {FromOutside({1, 5, 6}, {"Andersen-Agnostic", "Andersen-RegionAware"}), FromOutside({5, 6}, {"Steensgaard-Agnostic"}),
   ChosenLocal, Escaping, Callee, SwappingLoop, StoredAddress, StoredFunction,
   AppliedFunction}
AllPrograms == MemoryPrograms \cup
  {Branch, WhileLoop, StoreLoop, Locals, Calls, CountedLoop(0, "add", 1, "ult", 5, 3)}
    \cup {CountedLoop(0, "add", 1, "ult", n, 2) : n \in 1 .. 4}
    \cup {CountedLoop(1, "add", 2, "ule", 4, 2), CountedLoop(1, "add", 1, "ule", 4, 2),
          CountedLoop(6, "sub", 2, "ugt", 2, 2), CountedLoop(6, "sub", 1, "uge", 3, 2)}
    \cup {GuardedLoop(s) : s \in 1 .. 2}
    \cup {Folding(fn, 13, 3, "ult", 1) : fn \in Operations} \cup {Folding("sub", 6, 6, cmp, 1) : cmp \in Comparisons}
    \cup {Folding("mul", 3, 4, "sle", 3)}
==============================================================================

---------------------------- MODULE MCWhileLoopInfo ----------------------------
(* Loops for WhileLoopInfo: an increment and up to two further operations. *)
EXTENDS WhileLoopInfo

i == Val(0)
Op(name, in) == [op |-> name, in |-> in, w |-> Width]
Inc(step) == Op("add", <<i, Cst(step)>>)
Narrow(x) == [op |-> "convert", in |-> <<x>>, w |-> Width - 1]
Wide(x) == [op |-> "convert", in |-> <<x>>, w |-> Width + 1]
Iota(x) == [op |-> "iota", in |-> <<x>>, w |-> Width, first |-> 1, stride |-> 2, size |-> 3]
Compare(dir, x, y) == [op |-> "compare", in |-> <<x, y>>, w |-> Width, dir |-> dir]
Load == Op("load", <<>>)

Constants == {Cst(-3), Cst(1), Cst(2)}
Binary(name, x, ys) == {Op(name, <<x, y>>) : y \in ys} \union {Op(name, <<y, x>>) : y \in ys}
\* Operations on x; y is another value of the body.
On(x, y) ==
  UNION {Binary(name, x, Constants) : name \in {"add", "sub", "mul", "rem", "div", "max"}}
    \union {Op("sub", <<x, y>>), Op("min", <<y, x>>), Op("add", <<x, Arg>>), Op("mul", <<x, y>>),
            Op("neg", <<x>>), Op("abs", <<x>>), Op("clamp", <<Cst(0), x, Cst(3)>>),
            Narrow(x), Wide(x), Iota(x), Op("rem", <<x, y>>)}
    \union {Compare(dir, x, z) : dir \in {"EQ", "GE", "GT", "LE", "LT"}, z \in {Cst(1), y}}

\* Both operands of an operation as wide as each other.
WidthOf(ops, x) == IF x.k # "val" THEN 0 ELSE IF x.v = 0 THEN Width ELSE ops[x.v].w
WellTyped(ops) ==
  \A n \in DOMAIN ops :
    LET ws == {WidthOf(ops, ops[n].in[j]) : j \in DOMAIN ops[n].in} \ {0}
    IN  /\ \A j \in DOMAIN ops[n].in :
            ops[n].in[j].k = "val" /\ ops[n].in[j].v # 0 => ops[ops[n].in[j].v].op # "compare"
        /\ ops[n].op \notin {"convert", "iota"} => ws \subseteq {ops[n].w}
\* An operation takes the width of what it works on.
At(ops, o) ==
  IF o.op \in {"convert", "iota"} THEN o
  ELSE [o EXCEPT !.w = IF o.in[1].k = "val" THEN WidthOf(ops, o.in[1]) ELSE WidthOf(ops, o.in[2])]

TwoOps(step) ==
  UNION {{<<Inc(step), a, At(<<Inc(step), a>>, b)>> : b \in On(Val(2), i)} : a \in On(i, Val(1))}
Special ==
  { <<Load, Iota(Val(1)), Op("add", <<Val(2), Cst(1)>>), Inc(1)>>,
    <<Inc(1), Iota(i), Iota(Val(2)), Op("neg", <<Val(3)>>)>>,
    <<Op("mul", <<i, Cst(2)>>), Load, Load, Inc(2)>>,
    <<Op("sub", <<Cst(2), i>>), Op("neg", <<Val(1)>>), Load, Op("add", <<Val(2), Cst(3)>>)>>,
    <<Load, Load, Load, Op("add", <<i, Val(1)>>)>> }

Loop(start, limit, ops, inc, known) ==
  [start |-> start, limit |-> limit, arg |-> 2, body |-> ops, inc |-> inc, known |-> known]

MCLoops ==
  {Loop(b[1], b[2], ops, 1, TRUE) : b \in {<<0, 3>>, <<-2, 2>>}, ops \in {o \in TwoOps(1) : WellTyped(o)}}
    \union {Loop(0, 4, ops, 1, TRUE) : ops \in {o \in TwoOps(3) : WellTyped(o)}}
    \union {Loop(3, 7, ops, 1, TRUE) : ops \in {o \in TwoOps(3) : WellTyped(o)}} \* ends by overflowing
    \union {Loop(s, l, ops, 4, k) : s \in -1 .. 0, l \in 2 .. 3, ops \in Special, k \in BOOLEAN}
    \union {Loop(s, l, <<Inc(step)>>, 1, TRUE) : s \in -4 .. 4, l \in -4 .. 5, step \in {-2, -1, 1, 2, 3}}

\* A value compared with one it never has.
UnequalLoop == {Loop(0, 3, <<Inc(1), Compare("NE", i, Cst(-3))>>, 1, TRUE)}
=============================================================================

---------------------------- MODULE MCWindowRewrites ----------------------------
(* Programs for WindowRewrites: every pair of operations on vectors of up to *)
(* three elements, some on a square, and an update read in two places.       *)
EXTENDS HaloRewrites

x == Arg("x", <<3>>)
y == Arg("y", <<2>>)
z == Arg("z", <<1>>)
w == Arg("w", <<4>>)
v == Scalar("v")
zero == Constant(<<2>>, v)

Vec(n) == [1 .. 1 -> n]
WellTyped(nodes) == {n \in nodes : n.t # IllTyped}

Slices(n, strides) == {Slice(n, s, l, k) : s \in Vec(0 .. Size(n, 1)), l \in Vec(0 .. Size(n, 1)), k \in Vec(strides)}
Pads(n, inner) == {Pad(n, v, l, h, i) : l \in Vec(-1 .. 1), h \in Vec(-1 .. 1), i \in Vec(inner)}
Updates(n) == {Update(n, u, s) : u \in {y, z}, s \in Vec(-1 .. 2)}
Over(n, inner) == Slices(n, 1 .. 2) \union Pads(n, inner) \union Updates(n) \union {Reversed(n, {1})}

Inner == WellTyped(Over(x, 0 .. 1)) \union {Concat(<<x, y>>, 1), Concat(<<z>>, 1), zero, Broadcast(<<2>>, v)}
Pairs == UNION {Over(n, {0}) : n \in Inner}

\* Operands of concatenations.
Parts == WellTyped(Slices(x, 1 .. 2))
Operand == Parts \union {n \in WellTyped(Pads(y, 0 .. 1)) : Size(n, 1) <= 3} \union {y, zero, Concat(<<y, z>>, 1)}
At(k) == CHOOSE n \in Parts : n.attr = [start |-> <<k>>, limit |-> <<k + 1>>, stride |-> <<1>>]
Concats == {Concat(<<m, n>>, 1) : m \in Operand, n \in Operand} \union {Concat(<<At(2), At(1), At(0)>>, 1)}

\* Operations on a square.
square == Arg("q", <<2, 2>>)
row == Arg("r", <<1, 2>>)
dot == Arg("d", <<1, 1>>)
Vec2(n) == [1 .. 2 -> n]
SquareUpdates(n) == {Update(n, u, s) : u \in {row, dot}, s \in Vec2(0 .. 1)}
SquareSlices(n) == {Slice(n, s, l, <<1, 1>>) : s \in Vec2(0 .. 1), l \in Vec2(1 .. 2)}
SquarePads(n) == {Pad(n, v, l, h, <<0, 0>>) : l \in Vec2(0 .. 1), h \in Vec2(0 .. 1)}
Spread(n) == Pad(n, v, <<0, 1>>, <<0, 0>>, <<1, 0>>)
OnSquare == UNION {SquareSlices(n) \union {Reversed(n, {1, 2})} : n \in SquareUpdates(square)}
              \union UNION {SquareUpdates(n) : n \in SquarePads(square) \union SquarePads(row) \union SquareUpdates(square)}
              \union {Concat(<<m, n>>, 1) : m \in SquarePads(square), n \in SquarePads(row)}
              \union {Concat(<<Spread(square), Spread(row)>>, 1)}

\* Two slices of one update, and every second position of one of four.
Shared == UNION {{<<m, n>> : m \in WellTyped(Slices(u, 1 .. 2)), n \in WellTyped(Slices(u, {1}))} :
                   u \in {u \in Updates(x) : Size(u.args[2], 1) = 2}}
Wide == UNION {Slices(Update(w, y, s), {2}) : s \in Vec(-1 .. 3)}

WindowPrograms == {<<n>> : n \in WellTyped(Pairs \union Concats \union OnSquare \union Wide)} \union Shared

\* Every second position of an update, the last one unused.
StridedCut == {<<Slice(Update(w, y, <<1>>), <<0>>, <<3>>, <<2>>)>>}
=============================================================================

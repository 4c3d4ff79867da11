----------------------------- MODULE MCHaloRewrites -----------------------------
(* Programs for HaloRewrites: every halo of a vector with what can be before, *)
(* behind, around and over it, halos of matrices, and programs of several     *)
(* results.                                                                   *)
EXTENDS MCWindowRewrites

q == Arg("q", <<2, 3>>)
r == Arg("r", <<1, 3>>)

Cuts(n, d) == WellTyped({Cut(n, d, s, l) : s \in 0 .. Size(n, d), l \in 1 .. Size(n, d)})
Halo(op, n, a, b, d) == IF op = "rotate" THEN Rotate(n, a, d) ELSE Node(op, <<n>>, [lhs |-> a, rhs |-> b, dim |-> d])
OnVector(n) == WellTyped({Halo(op, n, a, b, 1) : op \in Halos, a \in 0 .. 3, b \in 0 .. 1})
OnMatrix(nodes) == {Halo(op, n, 1, b, d) : op \in Halos, b \in 0 .. 1, n \in nodes, d \in 1 .. 2}

\* Concatenations of slices of a vector, and of slices and halos.
Recognised == {Concat(<<m, n>>, 1) : m \in Cuts(w, 1), n \in Cuts(w, 1) \union {w}}
                \union {Concat(<<l, m, n>>, 1) : l \in Cuts(x, 1), m \in {x} \union Cuts(x, 1), n \in Cuts(x, 1)}
Beside(halos, n) == UNION {{Concat(<<h, m>>, 1), Concat(<<m, h>>, 1)} : h \in halos, m \in Cuts(n, 1)}
Neighbours == UNION {Beside(OnVector(n), x) : n \in {x, Cut(x, 1, 0, 2)}}
                \union Beside({Rotate(Cut(w, 1, s, s + 3), a, 1) : s \in 0 .. 1, a \in 1 .. 2}
                                \union {Halo(op, x, 1, 1, 1) : op \in Halos}, w)
Over1 == UNION {Cuts(n, 1) : n \in OnVector(x)}
Inside == UNION {OnVector(n) : n \in {Constant(<<2>>, v), z}}

\* Operands reshaped to drop a dimension.
Row(n) == Reshape(n, Tail(n.t.shape))
Layer(n) == Reshape(n, RemoveAt(n.t.shape, 2))
layers == Arg("l", <<2, 1, 3>>)
RowCuts == {Row(n) : n \in Cuts(r, 2)}
Middles == {Row(n) : n \in {r, Cut(r, 2, 0, 2)}}
Rows == {Concat(<<k, m, n>>, 1) : k \in RowCuts, m \in Middles, n \in RowCuts}
          \union UNION {{Concat(<<m, n>>, 1), Concat(<<n, m>>, 1)} : m \in {Wrap(k, 1, 1, 1) : k \in Middles}, n \in RowCuts}
          \union {Concat([k \in 1 .. 3 |-> Layer(IF k = 2 THEN layers ELSE Cut(layers, 3, k - 1, k))], 2)}

\* Halos of matrices: of pads, transposed, reshaped, and next to each other.
flat == Arg("f", <<1, 2, 2>>)
Padded == {Pad(r, v, l, <<0, 0>>, <<0, 0>>) : l \in {<<1, 0>>, <<0, 1>>}}
Reshapes(n) == {Reshape(n, s) : s \in {<<1>> \o n.t.shape, n.t.shape \o <<1>>}
                                       \union IF n.t.shape[1] = 1 THEN {Tail(n.t.shape)} ELSE {}}
Matrices == OnMatrix(Padded) \union {Transpose(n, <<2, 1>>) : n \in OnMatrix({q})}
              \union UNION {Reshapes(n) : n \in OnMatrix({q, r}) \union Cuts(r, 2)}
              \union {Reshape(n, <<1, 2>>) : n \in {Cut(flat, 2, 1, 2), Rotate(Cut(flat, 2, 1, 2), 1, 2)}}
              \union {Concat(<<n, Node(n.op, <<r>>, n.attr)>>, 1) : n \in {n \in OnMatrix({q}) : n.attr.dim = 2}}

\* Halos of concatenations, widened by slices of each operand.
both == Concat(<<q, r>>, 1)
Column(s) == Concat([k \in 1 .. 2 |-> Cut(both.args[k], 2, s, s + 1)], 1)
Columns == UNION {{Concat(<<n, m>>, 2), Concat(<<m, n>>, 2)} :
                    n \in {Halo(op, both, a, 1 - a, 2) : op \in {"wrap", "extend"}, a \in 0 .. 1},
                    m \in {Column(s) : s \in 0 .. 2}}

\* The strides of the edge and of what it extends differ along the other dimension.
tall == Arg("t", <<4, 2>>)
Strided(from, to, stride) == Slice(tall, <<0, from>>, <<4, to>>, <<stride, 1>>)
Unlike == {Concat(n, 2) : n \in UNION {LET first == Strided(0, 1, k)
                                           all == Strided(0, 2, 3)
                                           last == Strided(1, 2, k)
                                       IN  {<<first, all>>, <<all, last>>, <<first, all, last>>} : k \in 2 .. 3}}

\* An operand updated but for its corners, along one dimension or the other.
board == Arg("b", <<4, 4>>)
WithoutCorners(data, dimX) ==
  LET dimY == 3 - dimX
      at(i, j) == Slice(board, [d \in 1 .. 2 |-> IF d = dimX THEN i ELSE j],
                        [d \in 1 .. 2 |-> IF d = dimX THEN i + 1 ELSE j + 1], <<1, 1>>)
      side(i, e) == Concat(<<at(i, 0), Cut(data, dimX, e, e + 1), at(i, 3)>>, dimY)
  IN  Concat([k \in 1 .. 3 |-> IF k = 2 THEN Extend(data, 1, 1, dimY)
                               ELSE LET i == IF k = 1 THEN 0 ELSE 3 IN side(i, i \div 2)], dimX)
Corners == Node("corners", <<board, Arg("n", <<4, 4>>)>>, [dimX |-> 1, x |-> <<1, 3>>, dimY |-> 2, y |-> <<1, 3>>])
OnCorners == {WithoutCorners(Arg("u", <<2, 2>>), d) : d \in 1 .. 2}
               \union WellTyped({Slice(Corners, <<s, t>>, <<s + 1, t + k>>, <<1, 1>>) : s \in 0 .. 3, t \in 0 .. 3, k \in 1 .. 2})

\* Several slices, rotations, pads or halos of one value.
Same(nodes) == {<<m, n>> : m \in nodes, n \in nodes}
Several == Same({Slice(w, <<s>>, <<s + 2>>, <<1>>) : s \in 0 .. 2}) \union Same({Rotate(w, a, 1) : a \in 0 .. 3})
             \union Same({Pad(w, v, <<2 - a>>, <<a>>, <<0>>) : a \in -1 .. 3})
             \union {<<Rotate(w, 1, 1), Rotate(w, 2, 1), Rotate(w, 3, 1)>>}
             \union UNION {Same({Halo(op, n, 1, 1, 2) : n \in Cuts(q, 1) \union {q}}) : op \in Halos}

\* Operations of several results, some of which nothing uses.
MultiSlice(k) == Node("multi_slice", <<w>>, [start |-> <<0>>, limit |-> <<2>>, stride |-> <<1>>, dim |-> 1,
                                             amount |-> 2, result |-> k])
MultiRotate(left, k) == Node("multi_rotate", <<w>>, [dim |-> 1, left |-> left, right |-> 1, result |-> k])
MultiPad(k) == Node("multi_pad", <<w>>, [value |-> v, dim |-> 1, amount |-> 2, result |-> k])
Multi == Same({MultiSlice(k) : k \in 0 .. 2}) \union Same({MultiPad(k) : k \in 0 .. 2})
           \union UNION {Same({MultiRotate(left, k) : k \in 0 .. 2}) : left \in 1 .. 2}

HaloPrograms ==
  {<<n>> : n \in WellTyped(Recognised \union Neighbours \union Over1 \union Inside \union Rows \union Matrices
                             \union Columns \union Unlike \union OnCorners)}
    \union Several \union Multi

MCPrograms == WindowPrograms \union HaloPrograms
=============================================================================

----------------------------- MODULE MCLoopWindows -----------------------------
(* Loops for LoopWindows: tensors of four, two indices that depend on the   *)
(* induction variable, and the trees made of up to two windows.             *)
EXTENDS LoopWindows

i == Val(0)
Op(name, in) == [op |-> name, in |-> in, w |-> Width]
Size == 4
X == Tensor("x", Size)
A == Tensor("a", Size)
C == Tensor("c", 1)
U == Tensor("u", 1)
V == Tensor("v", 2)

\* The body: the next induction variable, then the indices 2 and 3.
Bodies(step) ==
  { <<Op("add", <<i, Cst(step)>>), Op("add", <<i, Cst(1)>>), o>> :
      o \in {Op("mul", <<Cst(2), i>>), Op("sub", <<Cst(3), i>>), Op("sub", <<i, Cst(1)>>),
             Op("mul", <<Cst(0), i>>), Op("sub", <<Cst(5), Val(2)>>)} }

\* The index 3 is looked up in an iota at a place that is not affine.
Looked ==
  << Op("add", <<i, Cst(1)>>), Op("load", <<>>),
     [op |-> "iota", in |-> <<Val(2)>>, w |-> Width, first |-> 0, stride |-> 1, size |-> 3] >>

Indices == {i, Val(2), Val(3), Cst(0), Cst(2)}

Updates == {DynamicUpdateSlice(A, U, x) : x \in Indices} \union {DynamicUpdateSlice(A, V, x) : x \in {i, Val(3), Cst(1)}}
Twice == {DynamicUpdateSlice(d, u, x) : d \in Updates, u \in {U, V}, x \in {i, Val(2), Val(3), Cst(1)}}
Copies ==
  {DynamicUpdateSlice(A, C, x) : x \in {i, Val(2), Val(3)}}
    \union {DynamicUpdateSlice(A, DynamicSlice(X, y, n), x) : x \in {i, Val(2), Val(3)}, y \in {i, Val(3)}, n \in {1, 2}}
Reads == {DynamicSlice(X, x, 1) : x \in Indices}
Fetches(t) == {DynamicSlice(t, x, n) : x \in {i, Val(2), Val(3), Cst(1)}, n \in {1, 2}}

Loop(range, ops, r, t) ==
  [start |-> range[1], limit |-> range[2], arg |-> 1, body |-> ops, inc |-> 1, known |-> TRUE, read |-> r, next |-> t]

Bounds == {<<0, 3>>, <<1, 3>>, <<0, 1>>}
MCLoops ==
  {Loop(b, ops, r, A) : b \in Bounds \union {<<1, 4>>}, ops \in Bodies(1) \union Bodies(2), r \in Reads}
    \union {Loop(b, ops, U, t) : b \in Bounds, ops \in Bodies(1) \union Bodies(2), t \in Copies \union Twice}
    \union {Loop(b, ops, r, DynamicUpdateSlice(A, U, x)) :
              b \in {<<0, 3>>}, ops \in Bodies(0) \union Bodies(1) \union Bodies(2), r \in Fetches(A), x \in Indices}
    \union {Loop(<<0, 3>>, ops, DynamicSlice(A, x, 1), DynamicUpdateSlice(DynamicUpdateSlice(A, U, y), U, x)) :
              ops \in Bodies(1), x \in {i, Val(3)}, y \in {i, Val(2), Val(3)}}
    \union {Loop(<<0, 3>>, Looked, r, A) : r \in Reads}
    \union UNION {{Loop(<<0, 2>>, ops, r, t) : r \in Fetches(t), ops \in Bodies(1)} : t \in Updates}
=============================================================================

-------------------------------- MODULE Windows --------------------------------
(***************************************************************************)
(* The StableHLO operations that move boxes of elements around, as the     *)
(* tensors they compute, and programs built from them: trees whose nodes   *)
(* carry the tensor they denote. Dimensions count from 1, the positions in *)
(* start and limit indices from 0 as in the source. An operation whose     *)
(* operands or attributes its verifier rejects denotes IllTyped.           *)
(***************************************************************************)
EXTENDS Tensors, SequencesExt

IllTyped == [shape |-> <<>>, at |-> <<>>]

Splat(shape, v) == Tensor(shape, LAMBDA i : v)

\* slice: from start, below limit, every stride-th position.
SliceOf(t, a) ==
  IF \E d \in Dim(t) : ~(0 <= a.start[d] /\ a.start[d] <= a.limit[d] /\ a.limit[d] <= t.shape[d])
  THEN IllTyped
  ELSE Tensor([d \in Dim(t) |-> (a.limit[d] - a.start[d] + a.stride[d] - 1) \div a.stride[d]],
              LAMBDA i : t.at[[d \in Dim(t) |-> a.start[d] + (i[d] - 1) * a.stride[d] + 1]])

\* pad: inner values between neighbours, then low before and high after, where
\* negative amounts remove positions.
PadOf(t, a) ==
  LET spread == [d \in Dim(t) |-> t.shape[d] + Max({t.shape[d] - 1, 0}) * a.inner[d]]
      shape  == [d \in Dim(t) |-> a.low[d] + spread[d] + a.high[d]]
      at(d, i) == i - 1 - a.low[d]
      kept(i) == \A d \in Dim(t) : /\ at(d, i[d]) \in 0 .. spread[d] - 1
                                   /\ at(d, i[d]) % (a.inner[d] + 1) = 0
  IN  IF \E d \in Dim(t) : shape[d] < 0 THEN IllTyped
      ELSE Tensor(shape, LAMBDA i :
             IF kept(i) THEN t.at[[d \in Dim(t) |-> at(d, i[d]) \div (a.inner[d] + 1) + 1]] ELSE a.value)

\* concatenate of two, and of any number, which may not be none.
Joined(s, t, dim) ==
  IF s = IllTyped \/ \E d \in Dim(s) : d # dim /\ s.shape[d] # t.shape[d] THEN IllTyped
  ELSE Tensor([s.shape EXCEPT ![dim] = @ + t.shape[dim]],
              LAMBDA i : IF i[dim] <= s.shape[dim] THEN s.at[i]
                         ELSE t.at[[i EXCEPT ![dim] = @ - s.shape[dim]]])

ConcatOf(ts, a) ==
  IF ts = <<>> THEN IllTyped ELSE FoldLeft(LAMBDA s, t : Joined(s, t, a.dim), ts[1], Tail(ts))

\* dynamic_update_slice: a start that would leave the operand is moved back into it.
UpdateOf(t, u, a) ==
  LET first == [d \in Dim(t) |-> Max({0, Min({a.start[d], t.shape[d] - u.shape[d]})})]
      inside(i) == \A d \in Dim(t) : i[d] - first[d] \in 1 .. u.shape[d]
  IN  IF \E d \in Dim(t) : u.shape[d] > t.shape[d] THEN IllTyped
      ELSE Tensor(t.shape, LAMBDA i : IF inside(i) THEN u.at[[d \in Dim(t) |-> i[d] - first[d]]] ELSE t.at[i])

ReverseOf(t, a) ==
  Tensor(t.shape, LAMBDA i : t.at[[d \in Dim(t) |-> IF d \in a.dims THEN t.shape[d] + 1 - i[d] ELSE i[d]]])

\* reshape: the elements in row-major order. transpose: of the permutation perm.
Position(shape, i) == FoldLeft(LAMBDA p, d : p * shape[d] + i[d] - 1, 0, [d \in 1 .. Len(shape) |-> d])

ReshapeOf(t, a) ==
  Tensor(a.shape, LAMBDA i :
    t.at[CHOOSE j \in DOMAIN t.at : Position(t.shape, j) = Position(a.shape, i)])

-----------------------------------------------------------------------------
(* The operations of the EnzymeXLA dialect that fill halos along one       *)
(* dimension. Their amounts take no more than the operand has: what they   *)
(* are lowered to is ill typed otherwise.                                  *)

\* The tensor of the given size along dim whose position p, from 0, is
\* position source(p) of t.
Gathered(t, dim, size, source(_)) ==
  Tensor([t.shape EXCEPT ![dim] = size], LAMBDA i : t.at[[i EXCEPT ![dim] = source(@ - 1) + 1]])

InOperand(t, dim, amounts) == amounts \subseteq 0 .. t.shape[dim]

\* wrap: the operand as on a ring, lhs positions before it and rhs after.
WrapOf(t, a) ==
  LET size == t.shape[a.dim] IN
  IF ~InOperand(t, a.dim, {a.lhs, a.rhs}) THEN IllTyped
  ELSE Gathered(t, a.dim, a.lhs + size + a.rhs, LAMBDA p : (p - a.lhs) % size)

\* extend: the first lhs positions once more before the operand, the last rhs after.
ExtendOf(t, a) ==
  LET size == t.shape[a.dim] IN
  IF ~InOperand(t, a.dim, {a.lhs, a.rhs}) THEN IllTyped
  ELSE Gathered(t, a.dim, a.lhs + size + a.rhs,
                LAMBDA p : IF p < a.lhs THEN p ELSE IF p < a.lhs + size THEN p - a.lhs ELSE p - a.lhs - a.rhs)

\* rotate: to the left.
RotateOf(t, dim, amount) ==
  Gathered(t, dim, t.shape[dim], LAMBDA p : (p + amount) % t.shape[dim])

\* update_without_corners: the operand where both indices are before 1 or from 2
\* on, the update elsewhere.
WithoutCornersOf(t, u, a) ==
  LET outside(i, dim, bounds) == i[dim] - 1 < bounds[1] \/ i[dim] - 1 >= bounds[2] IN
  IF t.shape # u.shape THEN IllTyped
  ELSE Tensor(t.shape, LAMBDA i :
         IF outside(i, a.dimX, a.x) /\ outside(i, a.dimY, a.y) THEN t.at[i] ELSE u.at[i])

\* Operations of several results, each a node: result number `result`.
MultiSliceOf(t, a) ==
  SliceOf(t, [start |-> [a.start EXCEPT ![a.dim] = @ + a.result],
              limit |-> [a.limit EXCEPT ![a.dim] = @ + a.result], stride |-> a.stride])

MultiRotateOf(t, a) ==
  IF a.left < 0 \/ a.right < 0 \/ a.result \notin 0 .. a.left + a.right THEN IllTyped
  ELSE RotateOf(t, a.dim, a.left - a.result)

MultiPadOf(t, a) ==
  LET along(amount) == [d \in Dim(t) |-> IF d = a.dim THEN amount ELSE 0] IN
  IF a.result \notin 0 .. a.amount THEN IllTyped
  ELSE PadOf(t, [value |-> a.value, low |-> along(a.amount - a.result), high |-> along(a.result), inner |-> along(0)])

-----------------------------------------------------------------------------
(* Nodes. The operands of a node are nodes; arguments and splat constants  *)
(* have none.                                                              *)

Denoted(op, args, a) ==
  CASE \E k \in DOMAIN args : args[k] = IllTyped -> IllTyped
    [] op = "slice"     -> SliceOf(args[1], a)
    [] op = "pad"       -> PadOf(args[1], a)
    [] op = "concat"    -> ConcatOf(args, a)
    [] op = "update"    -> UpdateOf(args[1], args[2], a)
    [] op = "reverse"   -> ReverseOf(args[1], a)
    [] op = "reshape"   -> ReshapeOf(args[1], a)
    [] op = "transpose" -> Transposed(args[1], a.perm)
    [] op = "stretch"   -> Broadcasted(args[1], a.shape, [d \in Dim(args[1]) |-> d])
    [] op = "wrap"      -> WrapOf(args[1], a)
    [] op = "extend"    -> ExtendOf(args[1], a)
    [] op = "rotate"    -> IF InOperand(args[1], a.dim, {a.amount}) THEN RotateOf(args[1], a.dim, a.amount) ELSE IllTyped
    [] op = "corners"   -> WithoutCornersOf(args[1], args[2], a)
    [] op = "multi_slice"  -> MultiSliceOf(args[1], a)
    [] op = "multi_rotate" -> MultiRotateOf(args[1], a)
    [] op = "multi_pad"    -> MultiPadOf(args[1], a)
    [] OTHER            -> Splat(a.shape, a.value)

Node(op, args, a) ==
  [op |-> op, args |-> args, attr |-> a, t |-> Denoted(op, [k \in DOMAIN args |-> args[k].t], a)]

Arg(name, shape) ==
  [op |-> "arg", args |-> <<>>, attr |-> [name |-> name],
   t |-> Tensor(shape, LAMBDA i : [of |-> name, index |-> i])]

\* The scalar of a padding value or splat constant.
Scalar(name) == [of |-> name, index |-> <<>>]

Slice(x, start, limit, stride) == Node("slice", <<x>>, [start |-> start, limit |-> limit, stride |-> stride])
Pad(x, v, low, high, inner) == Node("pad", <<x>>, [value |-> v, low |-> low, high |-> high, inner |-> inner])
Concat(xs, dim) == Node("concat", xs, [dim |-> dim])
Update(x, u, start) == Node("update", <<x, u>>, [start |-> start])
Reversed(x, dims) == Node("reverse", <<x>>, [dims |-> dims])
\* A splat constant, and the broadcast of a scalar that is not one yet.
Constant(shape, v) == Node("constant", <<>>, [shape |-> shape, value |-> v])
Broadcast(shape, v) == Node("broadcast", <<>>, [shape |-> shape, value |-> v])

Reshape(x, shape) == Node("reshape", <<x>>, [shape |-> shape])
Transpose(x, perm) == Node("transpose", <<x>>, [perm |-> perm])
\* broadcast_in_dim with every dimension in place.
Stretch(x, shape) == Node("stretch", <<x>>, [shape |-> shape])
Wrap(x, lhs, rhs, dim) == Node("wrap", <<x>>, [lhs |-> lhs, rhs |-> rhs, dim |-> dim])
Extend(x, lhs, rhs, dim) == Node("extend", <<x>>, [lhs |-> lhs, rhs |-> rhs, dim |-> dim])
Rotate(x, amount, dim) == Node("rotate", <<x>>, [amount |-> amount, dim |-> dim])

\* All nodes of a tree, and the tree with every occurrence of one replaced.
RECURSIVE Below(_)
Below(n) == {n} \union UNION {Below(n.args[k]) : k \in DOMAIN n.args}

RECURSIVE Substitute(_, _, _)
Substitute(n, old, new) ==
  IF n = old THEN new
  ELSE IF old \notin Below(n) THEN n
  ELSE Node(n.op, [k \in DOMAIN n.args |-> Substitute(n.args[k], old, new)], n.attr)
=============================================================================

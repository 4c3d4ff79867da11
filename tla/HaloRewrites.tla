------------------------------ MODULE HaloRewrites ------------------------------
(***************************************************************************)
(* The patterns of src/src/enzyme_ad/jax/Passes/EnzymeHLOOpt.cpp around    *)
(* the operations that fill halos (wrap, extend, rotate and the ones of    *)
(* several results), run together with those of WindowRewrites: a pipeline *)
(* runs one pass that recognises these operations in concatenations of     *)
(* slices, moves and widens them, and a later one that lowers them again.  *)
(***************************************************************************)
EXTENDS WindowRewrites

VARIABLE lowering   \* the pass has the patterns that lower, not those that recognise
haloVars == <<vars, lowering>>

HaloInit == Init /\ lowering \in BOOLEAN

Recognizing(op) == IF lowering THEN {} ELSE Ops(op)
Lowering(op) == IF lowering THEN Ops(op) ELSE {}

ReplaceEach(ms, new(_), ok) ==
  Become([k \in DOMAIN outputs |->
            FoldSet(LAMBDA m, tree : Substitute(tree, m, new(m)), outputs[k], ms)], ok)

\* StaticSlice: any value is a slice, of itself if of nothing else.
AsSlice(v) ==
  IF v.op = "slice" THEN [of |-> X(v), start |-> v.attr.start, limit |-> v.attr.limit, stride |-> v.attr.stride]
  ELSE [of |-> v, start |-> All(v, 0), limit |-> v.t.shape, stride |-> All(v, 1)]

Part(x, start, limit, stride) ==
  IF start = All(x, 0) /\ limit = x.t.shape /\ stride = All(x, 1) THEN x ELSE Slice(x, start, limit, stride)

SameAlong(a, b, d) == a.start[d] = b.start[d] /\ a.limit[d] = b.limit[d] /\ a.stride[d] = b.stride[d]
SameExcept(a, b, dim) == \A d \in DOMAIN a.start \ {dim} : SameAlong(a, b, d)
StrideOne(a, dim) == a.stride[dim] = 1
WholeExcept(v, x, dim) == SameExcept(v.attr, AsSlice(x), dim)

\* Concatenation n with m in place of the operands first to last.
Spliced(n, first, last, m) ==
  LET xs == SubSeq(n.args, 1, first - 1) \o <<m>> \o SubSeq(n.args, last + 1, Len(n.args))
  IN  IF Len(xs) = 1 THEN m ELSE Concat(xs, n.attr.dim)

-----------------------------------------------------------------------------
(* Recognising rotations. A slice sl0, sl1 is of X; A and ext are as in    *)
(* the comments of isExtendRotateLike.                                     *)

\* Mutant: the first slice may begin before the second ends.
IsRotateLikeOverlapping(x, y, dim) ==
  /\ x.op = "slice" /\ y.op = "slice" /\ X(x) = X(y)
  /\ StrideOne(x.attr, dim) /\ StrideOne(y.attr, dim)
  /\ x.attr.start[dim] <= y.attr.limit[dim]
  /\ SameExcept(x.attr, y.attr, dim)

\* sl0[A:end], sl1[start:A]
IsRotateLike(x, y, dim) ==
  /\ x.op = "slice" /\ y.op = "slice" /\ X(x) = X(y)
  /\ StrideOne(x.attr, dim) /\ StrideOne(y.attr, dim)
  /\ x.attr.start[dim] = y.attr.limit[dim]
  /\ SameExcept(x.attr, y.attr, dim)

\* sl0[A:end], sl1[start:A+1]
RotatedByOneMore(x, y, dim) ==
  /\ x.op = "slice" /\ y.op = "slice" /\ X(x) = X(y)
  /\ StrideOne(x.attr, dim) /\ StrideOne(y.attr, dim)
  /\ y.attr.limit[dim] - x.attr.start[dim] = 1
  /\ SameExcept(x.attr, y.attr, dim)

\* sl0[end-ext:end], X
EndBefore(x, y, dim) ==
  /\ x.op = "slice" /\ X(x) = y
  /\ StrideOne(x.attr, dim) /\ x.attr.limit[dim] = Size(y, dim)
  /\ WholeExcept(x, y, dim)

\* X, sl1[0:ext]
StartAfter(x, y, dim) ==
  /\ y.op = "slice" /\ X(y) = x
  /\ StrideOne(y.attr, dim) /\ y.attr.start[dim] = 0
  /\ WholeExcept(y, x, dim)

Rotation(r, dim) == r.op = "rotate" /\ r.attr.dim = dim

\* sl0[A-1:A], rotate(X, A)
BeforeRotation(x, y, dim) ==
  /\ x.op = "slice" /\ Rotation(y, dim) /\ X(x) = X(y)
  /\ StrideOne(x.attr, dim) /\ x.attr.limit[dim] = y.attr.amount
  /\ WholeExcept(x, y, dim)
  /\ Size(x, dim) = 1

\* sl0[start+A-ext:start+A], rotate(X[start:end], A)
BeforeRotatedSlice(x, y, dim) ==
  /\ x.op = "slice" /\ Rotation(y, dim) /\ X(y).op = "slice" /\ X(X(y)) = X(x)
  /\ LET a == x.attr
         b == X(y).attr
     IN  /\ StrideOne(a, dim) /\ StrideOne(b, dim)
         /\ a.limit[dim] = y.attr.amount + b.start[dim]
         /\ a.start[dim] > b.start[dim] /\ a.limit[dim] < b.limit[dim]
         /\ SameExcept(a, b, dim)

\* rotate(X[start:end], A), sl1[start+A:start+A+ext]
AfterRotatedSlice(x, y, dim) ==
  /\ y.op = "slice" /\ Rotation(x, dim) /\ X(x).op = "slice" /\ X(X(x)) = X(y)
  /\ LET a == X(x).attr
         b == y.attr
     IN  /\ StrideOne(a, dim) /\ StrideOne(b, dim)
         /\ b.start[dim] = x.attr.amount + a.start[dim]
         /\ b.start[dim] > a.start[dim] /\ b.limit[dim] < a.limit[dim]
         /\ SameExcept(a, b, dim)

IsExtendRotateLike(x, y, dim) ==
  /\ Size(x, dim) > 0 /\ Size(y, dim) > 0
  /\ \/ RotatedByOneMore(x, y, dim) \/ EndBefore(x, y, dim) \/ StartAfter(x, y, dim)
     \/ BeforeRotation(x, y, dim) \/ BeforeRotatedSlice(x, y, dim) \/ AfterRotatedSlice(x, y, dim)

\* What isExtendRotateLike makes of the pair.
WrappedRotation(x, y, dim) ==
  LET base == Part(X(x), y.attr.start, x.attr.limit, x.attr.stride)
      by == x.attr.start[dim] - y.attr.start[dim]
  IN  CASE RotatedByOneMore(x, y, dim) ->
             IF by = 0 THEN Wrap(base, 0, 1, dim)
             ELSE IF by = Size(base, dim) - 1 THEN Wrap(base, 1, 0, dim)
             ELSE Wrap(Rotate(base, by, dim), 0, 1, dim)
        [] EndBefore(x, y, dim) \/ BeforeRotation(x, y, dim) \/ BeforeRotatedSlice(x, y, dim) ->
             Wrap(y, Size(x, dim), 0, dim)
        [] OTHER -> Wrap(x, 0, Size(y, dim), dim)

\* The first two neighbours that are the parts of a rotation.
RecognizeRotate ==
  \E n \in Recognizing("concat") :
    LET dim == n.attr.dim
        extended == Len(n.args) = 2 /\ IsExtendRotateLike(n.args[1], n.args[2], dim)
        rotated == {k \in 2 .. Len(n.args) : IsRotateLike(n.args[k - 1], n.args[k], dim)}
        k == Min(rotated)
        x == n.args[k - 1]
        y == n.args[k]
    IN  \/ extended /\ Replace(n, WrappedRotation(n.args[1], n.args[2], dim), TRUE)
        \/ /\ ~extended /\ rotated # {}
           /\ Replace(n, Spliced(n, k - 1, k, Rotate(Part(X(x), y.attr.start, x.attr.limit, x.attr.stride),
                                                     Size(y, dim), dim)), TRUE)

-----------------------------------------------------------------------------
(* Recognising wraps and extensions, where each operand may be reshaped to *)
(* drop a dimension of size one.                                           *)

\* X(n) without its dimension d, of size one, is n: the last such dimension
\* unless the first will do, and not one after all dimensions of n.
Squeezed(n) ==
  LET from == X(n).t.shape
      to == n.t.shape
      dropped == {d \in DOMAIN from : from[d] = 1 /\ RemoveAt(from, d) = to}
  IN  IF n.op # "reshape" \/ Len(from) # Len(to) + 1 THEN {}
      ELSE IF 1 \in dropped THEN {1} ELSE {d \in dropped : d = Max(dropped) /\ d <= Len(to)}

\* isOuterReducingReshape
IsOuterReducing(n) == n.op = "reshape" /\ X(n).t.shape = <<1>> \o n.t.shape

\* sl0[B-lhs:B], mid[A:B], sl1[A:A+rhs]
IsWrapLike(l, m, r, dim) ==
  /\ l.op = "slice" /\ r.op = "slice" /\ X(l) = X(r) /\ m \notin {l, r}
  /\ m = X(l) \/ (m.op = "slice" /\ X(m) = X(l))
  /\ LET mid == IF m = X(l) THEN [start |-> All(m, 0), limit |-> m.t.shape, stride |-> All(m, 1)] ELSE m.attr
     IN  /\ StrideOne(l.attr, dim) /\ StrideOne(r.attr, dim) /\ StrideOne(mid, dim)
         /\ l.attr.limit[dim] = mid.limit[dim] /\ mid.start[dim] = r.attr.start[dim]
         /\ SameExcept(l.attr, r.attr, dim) /\ SameExcept(l.attr, mid, dim)

\* The sides are not compared with the size of the middle, which they may exceed.
RecognizeWrap ==
  \E n \in Recognizing("concat") :
    LET dim == n.attr.dim
        around(k) == <<n.args[k - 1], n.args[k], n.args[k + 1]>>
        direct(k) == IsWrapLike(n.args[k - 1], n.args[k], n.args[k + 1], dim)
        reshaped(k) == /\ \A j \in 1 .. 3 : IsOuterReducing(around(k)[j])
                       /\ IsWrapLike(X(n.args[k - 1]), X(n.args[k]), X(n.args[k + 1]), dim + 1)
        found == {k \in 2 .. Len(n.args) - 1 : direct(k) \/ reshaped(k)}
        k == Min(found)
        lhs == Size(n.args[k - 1], dim)
        rhs == Size(n.args[k + 1], dim)
        wrap == IF direct(k) THEN Wrap(n.args[k], lhs, rhs, dim)
                ELSE Reshape(Wrap(X(n.args[k]), lhs, rhs, dim + 1),
                             [n.args[k].t.shape EXCEPT ![dim] = lhs + @ + rhs])
    IN  /\ found # {}
        /\ Replace(n, Spliced(n, k - 1, k + 1, wrap), {lhs, rhs} \subseteq 0 .. Size(n.args[k], dim))

\* isPrefixInDim and isSuffixInDim leave the strides aside.
IsEdge(e, m, dim) ==
  LET a == AsSlice(e)
      b == AsSlice(m)
  IN  /\ a.of = b.of
      /\ \A d \in DOMAIN a.start \ {dim} : a.start[d] = b.start[d] /\ a.limit[d] = b.limit[d]
      /\ StrideOne(a, dim) /\ StrideOne(b, dim)
      /\ Size(e, dim) = 1
IsFirst(e, m, dim) ==
  /\ IsEdge(e, m, dim)
  /\ AsSlice(e).start[dim] = AsSlice(m).start[dim] /\ AsSlice(e).limit[dim] <= AsSlice(m).limit[dim]
IsLast(e, m, dim) ==
  /\ IsEdge(e, m, dim)
  /\ AsSlice(e).start[dim] >= AsSlice(m).start[dim] /\ AsSlice(e).limit[dim] = AsSlice(m).limit[dim]

SameStrides(e, m) == AsSlice(e).stride = AsSlice(m).stride

RecognizeExtend ==
  \E n \in Recognizing("concat") :
    LET dim == n.attr.dim
        x == n.args[1]
        y == n.args[2]
        direct(k) == IsFirst(n.args[k - 1], n.args[k], dim) /\ IsLast(n.args[k + 1], n.args[k], dim)
        dropped(k) == Squeezed(n.args[k - 1]) \intersect Squeezed(n.args[k]) \intersect Squeezed(n.args[k + 1])
        at(k) == LET d == CHOOSE e \in dropped(k) : TRUE IN IF dim >= d THEN dim + 1 ELSE dim
        reshaped(k) == /\ dropped(k) # {}
                       /\ IsFirst(X(n.args[k - 1]), X(n.args[k]), at(k))
                       /\ IsLast(X(n.args[k + 1]), X(n.args[k]), at(k))
        found == {k \in 2 .. Len(n.args) - 1 : direct(k) \/ reshaped(k)}
        k == Min(found)
        under(e) == IF direct(k) THEN e ELSE X(e)
        extend == IF direct(k) THEN Extend(n.args[k], 1, 1, dim)
                  ELSE Reshape(Extend(X(n.args[k]), 1, 1, at(k)), [n.args[k].t.shape EXCEPT ![dim] = @ + 2])
    IN  \/ /\ Len(n.args) = 2 /\ IsFirst(x, y, dim)
           /\ Replace(n, Extend(y, 1, 0, dim), SameStrides(x, y))
        \/ /\ Len(n.args) = 2 /\ ~IsFirst(x, y, dim) /\ IsLast(y, x, dim)
           /\ Replace(n, Extend(x, 0, 1, dim), SameStrides(x, y))
        \/ /\ found # {}
           /\ Replace(n, Spliced(n, k - 1, k + 1, extend),
                      /\ SameStrides(under(n.args[k - 1]), under(n.args[k]))
                      /\ SameStrides(under(n.args[k + 1]), under(n.args[k])))

\* Slices of the operand in the four corners, data and its two edges between
\* them: the operand everywhere but in the corners is the data extended twice.
RecognizeUpdateWithoutCorners ==
  \E n \in Recognizing("concat") :
    LET c0 == n.args[1]
        c2 == n.args[3]
        mid == n.args[2]
        dimX == n.attr.dim
        dimY == c0.attr.dim
        sizeX == Size(n, dimX)
        sizeY == Size(n, dimY)
        corners == <<c0.args[1], c0.args[3], c2.args[1], c2.args[3]>>
        x1 == Size(corners[1], dimX)
        x2 == corners[3].attr.start[dimX]
        y1 == Size(corners[1], dimY)
        y2 == corners[2].attr.start[dimY]
        box(src, fromX, toX, fromY, toY) ==
          Slice(src, [All(n, 0) EXCEPT ![dimX] = fromX, ![dimY] = fromY],
                [n.t.shape EXCEPT ![dimX] = toX, ![dimY] = toY], All(n, 1))
        src == X(corners[1])
        data == X(mid)
        edge(from, to) == box(data, from, to, 0, Size(data, dimY))
        attr == IF dimX >= dimY THEN [dimX |-> dimY, x |-> <<y1, y2>>, dimY |-> dimX, y |-> <<x1, x2>>]
                ELSE [dimX |-> dimX, x |-> <<x1, x2>>, dimY |-> dimY, y |-> <<y1, y2>>]
    IN  /\ Len(n.args) = 3 /\ c0.op = "concat" /\ c2.op = "concat"
        /\ Len(c0.args) = 3 /\ Len(c2.args) = 3
        /\ dimY = c2.attr.dim /\ dimX # dimY
        /\ \A k \in 1 .. 4 : corners[k].op = "slice" /\ X(corners[k]) = src
        /\ corners = <<box(src, 0, x1, 0, y1), box(src, 0, x1, y2, sizeY),
                       box(src, x2, sizeX, 0, y1), box(src, x2, sizeX, y2, sizeY)>>
        /\ mid.op = "extend" /\ mid.attr = [lhs |-> y1, rhs |-> sizeY - y2, dim |-> dimY]
        /\ c0.args[2] = edge(0, x1)
        /\ c2.args[2] = edge(Size(data, dimX) - (sizeX - x2), Size(data, dimX))
        /\ Replace(n, Node("corners", <<src, Extend(mid, x1, sizeX - x2, dimX)>>, attr), TRUE)

-----------------------------------------------------------------------------
(* Widening: a neighbour in a concatenation that is the next part of the   *)
(* halo joins it.                                                          *)

\* isSliceOf: other goes on where the wrap of x, which has `existing` positions
\* on that side, ends. A wrap of an operand that is no slice accepts a slice of
\* anything else.
RECURSIVE IsSliceOf(_, _, _, _, _)
IsSliceOf(x, other, dim, left, existing) ==
  LET source == IF other.op = "slice" /\ X(other) # x THEN AsSlice(x)
                ELSE [of |-> x, start |-> All(x, 0), limit |-> x.t.shape, stride |-> All(x, 1)]
  IN  \/ /\ other.op = "slice"
         /\ x.op = "slice" /\ X(other) # x => X(other) = X(x)
         /\ SameExcept(other.attr, source, dim)
         /\ StrideOne(other.attr, dim) /\ StrideOne(source, dim)
         /\ IF left THEN other.attr.limit[dim] + existing = source.limit[dim]
            ELSE other.attr.start[dim] = source.start[dim] + existing
      \/ /\ other.op = "concat" /\ x.op = "concat"
         /\ x.attr.dim = other.attr.dim /\ x.attr.dim # dim /\ Len(x.args) = Len(other.args)
         /\ \A k \in DOMAIN x.args : IsSliceOf(x.args[k], other.args[k], dim, left, existing)

\* isExtendOf: the neighbour is the outermost position of what is extended.
RECURSIVE IsExtendOf(_, _, _, _)
IsExtendOf(x, other, dim, left) ==
  LET source == IF other.op = "slice" /\ X(other) # x THEN AsSlice(x)
                ELSE [of |-> x, start |-> All(x, 0), limit |-> x.t.shape, stride |-> All(x, 1)]
  IN  \/ /\ other.op = "slice"
         /\ x.op = "slice" /\ X(other) # x => X(other) = X(x)
         /\ SameExcept(other.attr, source, dim)
         /\ StrideOne(other.attr, dim) /\ StrideOne(source, dim)
         /\ Size(other, dim) = 1
         /\ IF left THEN other.attr.start[dim] = source.start[dim]
            ELSE other.attr.limit[dim] = source.limit[dim]
      \/ /\ other.op = "concat" /\ x.op = "concat"
         /\ x.attr.dim = other.attr.dim /\ x.attr.dim # dim /\ Len(x.args) = Len(other.args)
         /\ \A k \in DOMAIN x.args : IsExtendOf(x.args[k], other.args[k], dim, left)

\* The neighbour is a part of what x is a part of.
RECURSIVE SameSource(_, _)
SameSource(x, other) ==
  \/ other.op = "slice" /\ X(other) \in {x, AsSlice(x).of}
  \/ other.op = "concat" /\ x.op = "concat" /\ \A k \in DOMAIN x.args : SameSource(x.args[k], other.args[k])

\* The operands of n, each of the kind widened by the neighbour before it, or
\* else by the one after it, if that goes(halo, neighbour, before).
Widened(n, op, goes(_, _, _)) ==
  LET dim == n.attr.dim
      xs == n.args
      grown(w, lhs, rhs) == Node(op, w.args, [w.attr EXCEPT !.lhs = @ + lhs, !.rhs = @ + rhs])
      step(s, k) ==
        CASE s.skip -> [done |-> s.done, skip |-> FALSE]
          [] ~s.skip /\ xs[k].op = op /\ xs[k].attr.dim = dim /\ s.done # <<>> /\ goes(xs[k], Last(s.done), TRUE) ->
               [done |-> Append(Front(s.done), grown(xs[k], Size(Last(s.done), dim), 0)), skip |-> FALSE]
          [] ~s.skip /\ xs[k].op = op /\ xs[k].attr.dim = dim /\ k < Len(xs)
             /\ ~(s.done # <<>> /\ goes(xs[k], Last(s.done), TRUE)) /\ goes(xs[k], xs[k + 1], FALSE) ->
               [done |-> Append(s.done, grown(xs[k], 0, Size(xs[k + 1], dim))), skip |-> TRUE]
          [] OTHER -> [done |-> Append(s.done, xs[k]), skip |-> FALSE]
  IN  FoldLeft(step, [done |-> <<>>, skip |-> FALSE], [k \in DOMAIN xs |-> k]).done

\* Whatever widens a halo is of the same source and passes `sound`.
Grows(n, op, goes(_, _, _), sound(_, _, _)) ==
  \A k \in {j \in DOMAIN n.args : n.args[j].op = op /\ n.args[j].attr.dim = n.attr.dim} :
    \A j \in {k - 1, k + 1} \intersect DOMAIN n.args :
      goes(n.args[k], n.args[j], j < k) => sound(n.args[k], n.args[j], j < k)

\* Nothing keeps a wrap from becoming wider than what it wraps.
WidenWrap ==
  \E n \in Ops("concat") :
    LET dim == n.attr.dim
        reshaped(w, other) == IsOuterReducing(X(w)) /\ IsOuterReducing(other)
        amount(w, before) == IF before THEN w.attr.lhs ELSE w.attr.rhs
        goes(w, other, before) ==
          IF reshaped(w, other) THEN IsSliceOf(X(X(w)), X(other), dim + 1, before, amount(w, before))
          ELSE IsSliceOf(X(w), other, dim, before, amount(w, before))
        sound(w, other, before) ==
          /\ IF reshaped(w, other) THEN SameSource(X(X(w)), X(other)) ELSE SameSource(X(w), other)
          /\ amount(w, before) + Size(other, dim) <= Size(X(w), dim)
        widened == Widened(n, "wrap", goes)
    IN  /\ Len(widened) < Len(n.args)
        /\ Replace(n, Concat(widened, dim), Grows(n, "wrap", goes, sound))

\* Widening takes every position added to an extension for a copy of the
\* outermost one, lowering for the next one inwards.
WidenExtend ==
  \E n \in Ops("concat") :
    LET goes(e, other, before) == IsExtendOf(X(e), other, n.attr.dim, before)
        sound(e, other, before) ==
          SameSource(X(e), other) /\ (IF before THEN e.attr.lhs ELSE e.attr.rhs) = 0
        widened == Widened(n, "extend", goes)
    IN  /\ Len(widened) < Len(n.args)
        /\ Replace(n, Concat(widened, n.attr.dim), Grows(n, "extend", goes, sound))

\* canMergeWrapsAlongAxis
CanMergeWraps(x, y, dim) == x.op = "wrap" /\ y.op = "wrap" /\ x.attr = y.attr /\ dim # x.attr.dim

ConcatWrap ==
  \E n \in Ops("concat") :
    LET dim == n.attr.dim
        merged == Merged(n.args, LAMBDA x, y : CanMergeWraps(x, y, dim),
                         LAMBDA x, y : Node("wrap", <<Concat(<<X(x), X(y)>>, dim)>>, x.attr))
    IN  Len(merged) < Len(n.args) /\ Replace(n, Concat(merged, dim), TRUE)

-----------------------------------------------------------------------------
(* Moving halos past other operations                                      *)

Halos == {"wrap", "extend", "rotate"}
HaloOps == UNION {Ops(op) : op \in Halos}

\* RotateOp::fold, WrapOp::fold and ExtendOp::fold
FoldHalo ==
  \E n \in HaloOps :
    /\ IF n.op = "rotate" THEN n.attr.amount = 0 ELSE n.attr.lhs = 0 /\ n.attr.rhs = 0
    /\ Replace(n, X(n), TRUE)

SimplifyBoundary ==
  \E n \in HaloOps : X(n).op = "constant" /\ Replace(n, Constant(n.t.shape, X(n).attr.value), TRUE)

ExtendToBroadcast ==
  \E n \in Ops("extend") : Size(X(n), n.attr.dim) = 1 /\ Replace(n, Stretch(X(n), n.t.shape), TRUE)

\* The pad adds nothing along the dimension of halo n.
PadAside(n) ==
  /\ X(n).op = "pad"
  /\ \A amounts \in {X(n).attr.low, X(n).attr.high, X(n).attr.inner} : amounts[n.attr.dim] = 0
PadOutside(n) == Node("pad", <<Node(n.op, X(n).args, n.attr)>>, X(n).attr)

RotatePad == \E n \in Ops("rotate") : PadAside(n) /\ Replace(n, PadOutside(n), TRUE)
ExtendPad == \E n \in Ops("extend") : PadAside(n) /\ Replace(n, PadOutside(n), TRUE)

\* The sizes of what a halo is made of, and where each begins in its operand.
Pieces(h) ==
  LET size == Size(X(h), h.attr.dim) IN
  CASE h.op = "wrap"   -> <<[size |-> h.attr.lhs, from |-> size - h.attr.lhs], [size |-> size, from |-> 0],
                            [size |-> h.attr.rhs, from |-> 0]>>
    [] h.op = "extend" -> <<[size |-> h.attr.lhs, from |-> 0], [size |-> size, from |-> 0],
                            [size |-> h.attr.rhs, from |-> size]>>
    [] h.op = "rotate" -> <<[size |-> size - h.attr.amount, from |-> h.attr.amount],
                            [size |-> h.attr.amount, from |-> 0]>>

\* A slice of one piece. The end of an extension is sought behind its operand.
SliceInternal ==
  \E n \in Ops("slice") :
    LET h == X(n)
        dim == h.attr.dim
        a == n.attr
        offset(k) == MapThenSumSet(LAMBDA j : Pieces(h)[j].size, 1 .. k - 1)
        holds(k) == a.start[dim] >= offset(k) /\ a.limit[dim] <= offset(k) + Pieces(h)[k].size
        k == Min({j \in DOMAIN Pieces(h) : holds(j)})
        shift == Pieces(h)[k].from - offset(k)
    IN  /\ h.op \in Halos
        /\ \E j \in DOMAIN Pieces(h) : holds(j)
        /\ Replace(n, Slice(X(h), [a.start EXCEPT ![dim] = @ + shift], [a.limit EXCEPT ![dim] = @ + shift], a.stride),
                   ~(h.op = "extend" /\ k = 3))

\* A slice that keeps clear of the corners, or keeps to one of them.
SliceOfUpdateWithoutCorners ==
  \E n \in Ops("slice") :
    LET c == X(n).attr
        a == n.attr
        inside(d, bounds) == a.start[d] >= bounds[1] /\ a.limit[d] <= bounds[2]
        outside(d, bounds) == a.start[d] >= bounds[2] \/ a.limit[d] <= bounds[1]
        updated == inside(c.dimX, c.x) /\ inside(c.dimY, c.y)
        moved(to) == Slice(to, a.start, a.limit, a.stride)
    IN  /\ X(n).op = "corners"
        /\ StrideOne(a, c.dimX) /\ StrideOne(a, c.dimY)
        /\ \/ updated /\ Replace(n, moved(U(X(n))), TRUE)
           \/ ~updated /\ outside(c.dimX, c.x) /\ outside(c.dimY, c.y) /\ Replace(n, moved(X(X(n))), TRUE)

\* Halos of slices of one value become slices of its halo, if there are several.
SharedHalo(op) ==
  \E n \in Ops(op) :
    LET base == X(X(n))
        dim == n.attr.dim
        whole(s) == s.attr.start[dim] = 0 /\ s.attr.limit[dim] = Size(base, dim) /\ s.attr.stride[dim] = 1
        others == {m \in Ops(op) : /\ m.attr = n.attr
                                   /\ \/ X(m) = base
                                      \/ /\ X(m).op = "slice" /\ X(X(m)) = base
                                         /\ X(m) # X(n) /\ UsedOnce(X(m)) /\ whole(X(m))}
        halo == Node(op, <<base>>, n.attr)
        moved(m) ==
          IF X(m) = base THEN halo
          ELSE Slice(halo, X(m).attr.start, [X(m).attr.limit EXCEPT ![dim] = Size(halo, dim)], X(m).attr.stride)
    IN  /\ X(n).op = "slice" /\ whole(X(n))
        /\ others # {}
        /\ ReplaceEach(others \union {n}, moved, TRUE)

SliceExtend == SharedHalo("extend")
SliceWrap == SharedHalo("wrap")
SliceRotate == SharedHalo("rotate")

TransposeHalo(op) ==
  \E n \in Ops("transpose") :
    LET h == X(n)
        dim == CHOOSE d \in Dims(n) : n.attr.perm[d] = h.attr.dim
    IN  h.op = op /\ Replace(n, Node(op, <<Transpose(X(h), n.attr.perm)>>, [h.attr EXCEPT !.dim = dim]), TRUE)

TransposeExtend == TransposeHalo("extend")
TransposeWrap == TransposeHalo("wrap")
TransposeRotate == TransposeHalo("rotate")

\* transformReshapeSlice: the entries of a list over the dimensions of `from`,
\* for a reshape that only drops and adds dimensions of size one, which have
\* the entry `unit`. A dimension that cannot be dropped may take the place of
\* the one before. No list if there is none.
RECURSIVE Realigned(_, _, _, _, _)
Realigned(from, to, done, rest, unit) ==
  LET i == Len(from) - Len(rest) + 1
      j == Len(done) + 1
      dropping == i <= Len(from) /\ from[i] = 1 /\ (j <= Len(to) => to[j] # 1)
      backing == j <= Len(to) /\ i > 1 /\ j > 1 /\ from[i - 1] = from[j - 1] /\ from[i - 1] = 1 /\ Last(done) = unit
  IN  CASE i > Len(from) /\ j > Len(to) -> {done}
        [] i <= Len(from) /\ j <= Len(to) /\ from[i] = to[j] ->
             Realigned(from, to, Append(done, Head(rest)), Tail(rest), unit)
        [] dropping /\ Head(rest) = unit -> Realigned(from, to, done, Tail(rest), unit)
        [] dropping /\ Head(rest) # unit /\ backing -> Realigned(from, to, Front(done), rest, unit)
        [] j <= Len(to) /\ to[j] = 1 /\ (i <= Len(from) => from[i] # 1) ->
             Realigned(from, to, Append(done, unit), rest, unit)
        [] OTHER -> {}

Realign(n, list, unit) == Realigned(X(n).t.shape, n.t.shape, <<>>, list, unit)

ReshapeSlice ==
  \E n \in Ops("reshape") :
    LET s == X(n) IN
    /\ s.op = "slice" /\ UsedOnce(s)
    /\ \E start \in Realign(n, s.attr.start, 0), limit \in Realign(n, s.attr.limit, 1),
          stride \in Realign(n, s.attr.stride, 1), shape \in Realign(n, X(s).t.shape, 1) :
         Replace(n, Slice(Reshape(X(s), shape), start, limit, stride), TRUE)

\* The dimension of the halo is followed by a list with a single one in it.
ReshapeHalo(op) ==
  \E n \in Ops("reshape") :
    LET h == X(n) IN
    /\ h.op = op /\ UsedOnce(h)
    /\ \E shape \in Realign(n, X(h).t.shape, 1),
          oneHot \in Realign(n, [d \in Dims(h) |-> IF d = h.attr.dim THEN 1 ELSE 0], 0) :
       \E dim \in {d \in DOMAIN oneHot : oneHot[d] = 1} :
         Replace(n, Node(op, <<Reshape(X(h), shape)>>, [h.attr EXCEPT !.dim = dim]), TRUE)

ReshapeExtend == ReshapeHalo("extend")
ReshapeWrap == ReshapeHalo("wrap")
ReshapeRotate == ReshapeHalo("rotate")

-----------------------------------------------------------------------------
(* Lowering                                                                *)

LowerHalo(op, parts(_)) ==
  \E n \in Lowering(op) :
    LET xs == parts(n)
    IN  Replace(n, IF Len(xs) = 1 THEN xs[1] ELSE Concat(xs, n.attr.dim), TRUE)

Cut(x, dim, from, to) ==
  Slice(x, [All(x, 0) EXCEPT ![dim] = from], [x.t.shape EXCEPT ![dim] = to], All(x, 1))
Optional(amount, part) == IF amount = 0 THEN <<>> ELSE <<part>>

\* lowerWrap
LowerWrap ==
  LowerHalo("wrap", LAMBDA n :
    LET dim == n.attr.dim
        size == Size(X(n), dim)
    IN  Optional(n.attr.lhs, Cut(X(n), dim, size - n.attr.lhs, size)) \o <<X(n)>>
          \o Optional(n.attr.rhs, Cut(X(n), dim, 0, n.attr.rhs)))

LowerExtend ==
  LowerHalo("extend", LAMBDA n :
    LET dim == n.attr.dim
        size == Size(X(n), dim)
    IN  Optional(n.attr.lhs, Cut(X(n), dim, 0, n.attr.lhs)) \o <<X(n)>>
          \o Optional(n.attr.rhs, Cut(X(n), dim, size - n.attr.rhs, size)))

LowerRotate ==
  LowerHalo("rotate", LAMBDA n :
    <<Cut(X(n), n.attr.dim, n.attr.amount, Size(n, n.attr.dim)), Cut(X(n), n.attr.dim, 0, n.attr.amount)>>)

-----------------------------------------------------------------------------
(* Operations of several results: slices, rotations and pads of one value  *)
(* that follow each other by one position.                                 *)

\* The used results of the operation n is a result of.
Results(n) ==
  {m \in Ops(n.op) : m.args = n.args /\ [m.attr EXCEPT !.result = 0] = [n.attr EXCEPT !.result = 0]}
Used(n) == {m.attr.result : m \in Results(n)}

\* The numbers around zero that follow each other, of those given and zero's
\* neighbours: groups that contain zero or are next to it.
Contiguous(numbers) ==
  {o \in numbers : \A p \in Min({o, 0}) .. Max({o, 0}) : p \in numbers \union {0}}

\* Slices that differ from n by their offset along d only.
Shifted(n, d) ==
  {m \in Ops("slice") :
     /\ X(m) = X(n) /\ m.attr.stride = n.attr.stride
     /\ \A e \in Dims(n) \ {d} : m.attr.start[e] = n.attr.start[e] /\ m.attr.limit[e] = n.attr.limit[e]
     /\ m.attr.limit[d] - m.attr.start[d] = n.attr.limit[d] - n.attr.start[d]}

\* The first dimension along which a slice has such neighbours counts, and the
\* slice must be the first of them.
RecognizeMultiSlice ==
  \E n \in Recognizing("slice") :
    LET offset(m, d) == m.attr.start[d] - n.attr.start[d]
        run(d) == Contiguous({offset(m, d) : m \in Shifted(n, d)})
        along == {d \in Dims(n) : Cardinality(run(d)) >= 2}
        dim == Min(along)
        amount == Max(run(dim))
        result(m) == Node("multi_slice", <<X(n)>>, [start |-> n.attr.start, limit |-> n.attr.limit,
                          stride |-> n.attr.stride, dim |-> dim, amount |-> amount, result |-> offset(m, dim)])
    IN  /\ along # {}
        /\ Min(run(dim)) = 0
        /\ ReplaceEach({m \in Shifted(n, dim) : offset(m, dim) \in 0 .. amount}, result, TRUE)

\* A shift of n along its dimension.
ShiftedBy(n, by) == [n.attr EXCEPT !.start[n.attr.dim] = @ + by, !.limit[n.attr.dim] = @ + by]

ReduceUnusedMultiSlice ==
  \E n \in Ops("multi_slice") :
    LET first == Min(Used(n))
        amount == Max(Used(n)) - first
        moved(m) == Node("multi_slice", <<X(n)>>, [ShiftedBy(n, first) EXCEPT !.amount = amount, !.result = m.attr.result - first])
        single == ShiftedBy(n, first)
    IN  \/ /\ Cardinality(Used(n)) = 1 /\ n.attr.amount > 0
           /\ Replace(n, Slice(X(n), single.start, single.limit, single.stride), TRUE)
        \/ /\ Cardinality(Used(n)) > 1 /\ amount # n.attr.amount
           /\ ReplaceEach(Results(n), moved, TRUE)

LowerMultiSlice ==
  \E n \in Lowering("multi_slice") :
    LET slice(m) == LET a == ShiftedBy(m, m.attr.result) IN Slice(X(m), a.start, a.limit, a.stride)
    IN  ReplaceEach(Results(n), slice, TRUE)

\* getBidirectionalAmount
Bidirectional(n) ==
  LET size == Size(n, n.attr.dim) IN
  IF n.attr.amount > size \div 2 THEN n.attr.amount - size ELSE n.attr.amount

RecognizeMultiRotate ==
  \E n \in Recognizing("rotate") :
    LET rotates == {m \in Ops("rotate") : X(m) = X(n) /\ m.attr.dim = n.attr.dim}
        run == Contiguous({Bidirectional(m) : m \in rotates})
        left == Max(run \union {0})
        right == -Min(run \union {0})
        inRange == {m \in rotates : Bidirectional(m) \in -right .. left}
        result(m) == Node("multi_rotate", <<X(n)>>,
                          [dim |-> n.attr.dim, left |-> left, right |-> right, result |-> left - Bidirectional(m)])
    IN  /\ Cardinality(run) >= 2
        /\ n \in inRange /\ \A m \in inRange : Bidirectional(n) <= Bidirectional(m)
        /\ ReplaceEach(inRange, result, TRUE)

\* One of the amounts becomes negative where the unrotated result and one side
\* of it are unused, which MultiRotateOp::verify rejects.
ReduceUnusedMultiRotate ==
  \E n \in Ops("multi_rotate") :
    LET a == n.attr
        first == Min(Used(n))
        left == a.left - first
        right == Max(Used(n)) - a.left
        moved(m) == Node("multi_rotate", <<X(n)>>,
                         [dim |-> a.dim, left |-> left, right |-> right, result |-> m.attr.result - first])
    IN  \/ /\ Cardinality(Used(n)) = 1 /\ a.left + a.right > 0
           /\ Replace(n, Rotate(X(n), IF left < 0 THEN left + Size(n, a.dim) ELSE left, a.dim), TRUE)
        \/ /\ Cardinality(Used(n)) > 1 /\ <<left, right>> # <<a.left, a.right>>
           /\ ReplaceEach(Results(n), moved, left >= 0 /\ right >= 0)

\* lowerMultiRotateToRotates
LowerMultiRotate ==
  \E n \in Lowering("multi_rotate") :
    LET amount(m) == LET by == m.attr.left - m.attr.result IN IF by < 0 THEN by + Size(n, n.attr.dim) ELSE by
        rotate(m) == IF amount(m) = 0 THEN X(n) ELSE Rotate(X(n), amount(m), n.attr.dim)
    IN  ReplaceEach(Results(n), rotate, TRUE)

\* The result for a pad is the one of its padding behind, unless padding in
\* front is negative: then there is none.
RecognizeMultiPad ==
  \E n \in Recognizing("pad") :
    LET padded == {d \in Dims(n) : <<n.attr.low[d], n.attr.high[d], n.attr.inner[d]>> # <<0, 0, 0>>}
        dim == CHOOSE d \in padded : TRUE
        total(m) == m.attr.low[dim] + m.attr.high[dim]
        pads == {m \in Ops("pad") :
                   /\ X(m) = X(n) /\ m.attr.value = n.attr.value
                   /\ total(m) = total(n) /\ m.attr.inner = All(n, 0)
                   /\ \A d \in Dims(n) \ {dim} : m.attr.low[d] = 0 /\ m.attr.high[d] = 0}
        result(m) == Node("multi_pad", <<X(n)>>,
                          [value |-> n.attr.value, dim |-> dim, amount |-> total(n), result |-> m.attr.high[dim]])
    IN  /\ Cardinality(padded) = 1
        /\ n.attr.inner = All(n, 0)
        /\ Cardinality(pads) >= 2
        /\ ReplaceEach(pads, result, \A m \in pads : m.attr.low[dim] >= 0 /\ m.attr.high[dim] >= 0)

LowerMultiPad ==
  \E n \in Lowering("multi_pad") :
    LET along(amount) == [All(n, 0) EXCEPT ![n.attr.dim] = amount]
        pad(m) == Pad(X(n), n.attr.value, along(n.attr.amount - m.attr.result), along(m.attr.result), All(n, 0))
    IN  ReplaceEach(Results(n), pad, TRUE)

-----------------------------------------------------------------------------
Recognize ==
  \/ RecognizeRotate \/ RecognizeWrap \/ RecognizeExtend \/ RecognizeUpdateWithoutCorners
  \/ RecognizeMultiSlice \/ RecognizeMultiRotate \/ RecognizeMultiPad

Lower == LowerWrap \/ LowerExtend \/ LowerRotate \/ LowerMultiSlice \/ LowerMultiRotate \/ LowerMultiPad

Widen == WidenWrap \/ WidenExtend \/ ConcatWrap

Move ==
  \/ FoldHalo \/ SimplifyBoundary \/ ExtendToBroadcast \/ RotatePad \/ ExtendPad \/ SliceInternal
  \/ SliceOfUpdateWithoutCorners
  \/ SliceExtend \/ SliceWrap \/ SliceRotate
  \/ TransposeExtend \/ TransposeWrap \/ TransposeRotate
  \/ ReshapeSlice \/ ReshapeExtend \/ ReshapeWrap \/ ReshapeRotate
  \/ ReduceUnusedMultiSlice \/ ReduceUnusedMultiRotate

HaloNext ==
  \/ OnSlices /\ UNCHANGED lowering
  \/ OnPads /\ UNCHANGED lowering
  \/ OnConcats /\ UNCHANGED lowering
  \/ OnUpdates /\ UNCHANGED lowering
  \/ Recognize /\ UNCHANGED lowering
  \/ Lower /\ UNCHANGED lowering
  \/ Widen /\ UNCHANGED lowering
  \/ Move /\ UNCHANGED lowering

HaloSpec == HaloInit /\ [][HaloNext]_haloVars
=============================================================================

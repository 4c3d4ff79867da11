----------------------------- MODULE WindowRewrites -----------------------------
(***************************************************************************)
(* The rewrite patterns of src/src/enzyme_ad/jax/Passes/EnzymeHLOOpt.cpp   *)
(* on slices, pads, concatenations, updates and reversals, and the greedy  *)
(* driver that applies them to a program until none matches.               *)
(*                                                                         *)
(* A program is the sequence of its results, trees of nodes; equal nodes   *)
(* are one operation, as they are after the CSE patterns. Shapes and start *)
(* indices are static. Several patterns omit a condition they depend on:   *)
(* `exact` records that every rewrite so far met it, and a program is not  *)
(* followed further once it did not.                                       *)
(***************************************************************************)
EXTENDS Windows

CONSTANTS
  Programs,     \* the programs the driver may be given
  MaxRewrites   \* rewrites followed in one run of the driver

ASSUME MaxRewrites \in Nat

VARIABLES
  outputs,   \* the program
  meaning,   \* the tensors its results were before any rewriting
  exact,     \* every rewrite met the conditions its pattern omits
  rewrites   \* number of rewrites so far
vars == <<outputs, meaning, exact, rewrites>>

Init ==
  /\ outputs \in Programs
  /\ meaning = [k \in DOMAIN outputs |-> outputs[k].t]
  /\ exact = TRUE
  /\ rewrites = 0

Nodes == UNION {Below(outputs[k]) : k \in DOMAIN outputs}

\* The operations a pattern is tried on; none once the run is over.
Ops(op) == IF exact /\ rewrites < MaxRewrites THEN {n \in Nodes : n.op = op} ELSE {}

\* The number of uses of a node: as a result of the program, and as an operand.
Uses(n) ==
  Cardinality({k \in DOMAIN outputs : outputs[k] = n})
    + MapThenSumSet(LAMBDA user : Cardinality({k \in DOMAIN user.args : user.args[k] = n}), Nodes)
UsedOnce(n) == Uses(n) = 1

Become(new, ok) ==
  /\ outputs' = new
  /\ exact' = ok
  /\ rewrites' = rewrites + 1
  /\ UNCHANGED meaning

\* replaceOp: whatever used n uses m.
Replace(n, m, ok) == Become([k \in DOMAIN outputs |-> Substitute(outputs[k], n, m)], ok)

Dims(n) == Dim(n.t)
Size(n, d) == n.t.shape[d]
All(n, v) == [d \in Dims(n) |-> v]
X(n) == n.args[1]
U(n) == n.args[2]

-----------------------------------------------------------------------------
(* Slices                                                                  *)

NoopSlice ==
  \E n \in Ops("slice") : X(n).t.shape = n.t.shape /\ Replace(n, X(n), TRUE)

SliceSlice ==
  \E n \in Ops("slice") :
    /\ X(n).op = "slice"
    /\ LET p == X(n).attr
           from(d) == p.start[d] + p.stride[d] * n.attr.start[d]
           to(d) == from(d) + p.stride[d] * (n.attr.limit[d] - n.attr.start[d])
           size(d) == Size(X(X(n)), d)
       IN  Replace(n, Slice(X(X(n)), [d \in Dims(n) |-> Min({from(d), size(d)})],
                            [d \in Dims(n) |-> Min({to(d), size(d)})],
                            [d \in Dims(n) |-> p.stride[d] * n.attr.stride[d]]), TRUE)

\* SliceSimplify, for splat constants.
SliceSimplify ==
  \E n \in Ops("slice") :
    X(n).op = "constant" /\ Replace(n, Constant(n.t.shape, X(n).attr.value), TRUE)

\* anyPadSizesNegative
AnyPadSizesNegative(p) == \E d \in Dims(p) : p.attr.low[d] < 0 \/ p.attr.high[d] < 0

\* The loop of slicePadHelper leaves at the first dimension along which the
\* slice misses the padded value, so it looks at no later one.
SlicePad ==
  \E n \in Ops("slice") :
    LET p == X(n).attr
        a == n.attr
        plain(d) == a.stride[d] = 1 /\ p.inner[d] = 0
        misses(d) == a.start[d] >= Size(X(n), d) - p.high[d] \/ a.limit[d] <= p.low[d]
        size(d) == Size(X(X(n)), d)
        start == [d \in Dims(n) |-> Max({a.start[d] - p.low[d], 0})]
        limit == [d \in Dims(n) |-> Min({a.limit[d] - p.low[d], size(d)})]
        low == [d \in Dims(n) |-> Max({p.low[d] - a.start[d], 0})]
        high == [d \in Dims(n) |-> Max({a.limit[d] - p.low[d] - size(d), 0})]
        inside == Slice(X(X(n)), start, limit, All(n, 1))
    IN  /\ X(n).op = "pad"
        /\ ~AnyPadSizesNegative(X(n))
        /\ \/ /\ \E d \in Dims(n) : misses(d) /\ \A e \in 1 .. d : plain(e)
              /\ Replace(n, Broadcast(n.t.shape, p.value), TRUE)
           \/ /\ \A d \in Dims(n) : plain(d) /\ ~misses(d)
              /\ Replace(n, IF low = All(n, 0) /\ high = All(n, 0) THEN inside
                            ELSE Pad(inside, p.value, low, high, All(n, 0)), TRUE)

\* Where operand k of a concatenation begins.
Offset(n, k) == MapThenSumSet(LAMBDA j : Size(n.args[j], n.attr.dim), 1 .. k - 1)

\* A slice of nothing leaves a concatenation of nothing.
SliceConcat ==
  \E n \in Ops("slice") :
    LET a == n.attr
        dim == X(n).attr.dim
        size(k) == Size(X(n).args[k], dim)
        touched(k) == a.start[dim] < Offset(X(n), k) + size(k) /\ a.limit[dim] > Offset(X(n), k)
        part(k) == Slice(X(n).args[k],
                         [a.start EXCEPT ![dim] = Max({@ - Offset(X(n), k), 0})],
                         [a.limit EXCEPT ![dim] = Min({@ - Offset(X(n), k), size(k)})], a.stride)
        parts == SelectSeq([k \in DOMAIN X(n).args |-> k], touched)
    IN  /\ X(n).op = "concat"
        /\ a.stride[dim] = 1
        /\ Replace(n, Concat([j \in DOMAIN parts |-> part(parts[j])], dim), parts # <<>>)

\* The start of an update keeps it inside its operand: no pattern below knows
\* that dynamic_update_slice moves one that does not.
End(n, d) == n.attr.start[d] + Size(U(n), d)
InRange(n) == \A d \in Dims(n) : n.attr.start[d] >= 0 /\ End(n, d) <= Size(n, d)

SliceOfDynamicUpdate ==
  \E n \in Ops("slice") :
    LET a == n.attr
        s == X(n).attr.start
        within == \A d \in Dims(n) : s[d] >= 0 /\ a.start[d] >= s[d] /\ a.limit[d] <= End(X(n), d)
    IN  /\ X(n).op = "update"
        /\ \/ /\ within
              /\ Replace(n, Slice(U(X(n)), [d \in Dims(n) |-> a.start[d] - s[d]],
                                  [d \in Dims(n) |-> a.limit[d] - s[d]], a.stride), InRange(X(n)))
           \/ /\ ~within
              /\ \E d \in Dims(n) : a.limit[d] <= s[d] \/ a.start[d] >= End(X(n), d)
              /\ Replace(n, Slice(X(X(n)), a.start, a.limit, a.stride), InRange(X(n)))

\* The conditions leave a slice that begins before the update and ends in or
\* after it, along one dimension, and is the update along the others.
SliceDUSToConcat ==
  \E n \in Ops("slice") : \E dim \in Dims(n) :
    LET a == n.attr
        s == X(n).attr.start
        x == X(X(n))
        u == U(X(n))
        before == Slice(x, a.start, [a.limit EXCEPT ![dim] = s[dim]], a.stride)
        amid == IF a.limit[dim] >= End(X(n), dim) THEN u
                ELSE Slice(u, All(n, 0), [d \in Dims(n) |-> a.limit[d] - s[d]], a.stride)
        after == Slice(x, [a.start EXCEPT ![dim] = End(X(n), dim)], a.limit, a.stride)
    IN  /\ X(n).op = "update"
        /\ UsedOnce(X(n))
        /\ a.stride = All(n, 1)
        /\ \A d \in Dims(n) \ {dim} : a.start[d] = s[d] /\ a.limit[d] = End(X(n), d)
        /\ a.start[dim] < s[dim] /\ a.limit[dim] > s[dim]
        /\ Replace(n, Concat(<<before, amid>> \o IF a.limit[dim] > End(X(n), dim) THEN <<after>> ELSE <<>>, dim),
                   InRange(X(n)))

\* An empty range of positions passes for a single one.
SliceReverse ==
  \E n \in Ops("slice") :
    LET a == n.attr
        single == {d \in X(n).attr.dims : a.limit[d] - a.start[d] <= a.stride[d]}
        rest == X(n).attr.dims \ single
        start == [d \in Dims(n) |-> IF d \in single THEN Size(X(n), d) - 1 - a.start[d] ELSE a.start[d]]
        limit == [d \in Dims(n) |-> IF d \in single THEN start[d] + 1 ELSE a.limit[d]]
        stride == [d \in Dims(n) |-> IF d \in single THEN 1 ELSE a.stride[d]]
    IN  /\ X(n).op = "reverse"
        /\ single # {}
        /\ rest = {} \/ UsedOnce(X(n))
        /\ Replace(n, Slice(IF rest = {} THEN X(X(n)) ELSE Reversed(X(X(n)), rest), start, limit, stride),
                   \A d \in single : a.start[d] < a.limit[d])

-----------------------------------------------------------------------------
(* Pads                                                                    *)

PadSimplify ==
  \E n \in Ops("pad") :
    \/ /\ X(n).op = "constant" /\ X(n).attr.value = n.attr.value
       /\ Replace(n, Constant(n.t.shape, n.attr.value), TRUE)
    \/ /\ n.attr.low = All(n, 0) /\ n.attr.high = All(n, 0) /\ n.attr.inner = All(n, 0)
       /\ Replace(n, X(n), TRUE)

NegativePadToSlice ==
  \E n \in Ops("pad") :
    /\ \A d \in Dims(n) : n.attr.low[d] <= 0 /\ n.attr.high[d] <= 0 /\ n.attr.inner[d] = 0
    /\ AnyPadSizesNegative(n)
    /\ Replace(n, Slice(X(n), [d \in Dims(n) |-> -n.attr.low[d]],
                        [d \in Dims(n) |-> Size(X(n), d) + n.attr.high[d]], All(n, 1)), TRUE)

\* What the inner pad takes away the outer one cannot give back.
PadPad ==
  \E n \in Ops("pad") :
    LET p == X(n).attr
        a == n.attr
    IN  /\ X(n).op = "pad"
        /\ p.value = a.value
        /\ a.inner = All(n, 0) /\ p.inner = All(n, 0)
        /\ Replace(n, Pad(X(X(n)), p.value, [d \in Dims(n) |-> a.low[d] + p.low[d]],
                          [d \in Dims(n) |-> a.high[d] + p.high[d]], All(n, 0)),
                   \A d \in Dims(n) : ~(p.low[d] < 0 /\ a.low[d] > 0) /\ ~(p.high[d] < 0 /\ a.high[d] > 0))

-----------------------------------------------------------------------------
(* Concatenations and reversals                                            *)

\* Nothing is left of a concatenation of empty values.
ConcatFuse ==
  \E n \in Ops("concat") :
    LET dim == n.attr.dim
        same(x) == x.op = "concat" /\ x.attr.dim = dim
        flat == FlattenSeq([k \in DOMAIN n.args |->
                  IF same(n.args[k]) THEN n.args[k].args
                  ELSE IF Size(n.args[k], dim) = 0 THEN <<>> ELSE <<n.args[k]>>])
    IN  \/ Len(n.args) = 1 /\ Replace(n, X(n), TRUE)
        \/ /\ Len(n.args) # 1
           /\ \E k \in DOMAIN n.args : same(n.args[k]) \/ Size(n.args[k], dim) = 0
           /\ Replace(n, Concat(flat, dim), flat # <<>>)

\* Neighbours xs[k], xs[k + 1] that can be merged are, from the left.
Merged(xs, can(_, _), merge(_, _)) ==
  FoldLeft(LAMBDA done, x : IF done # <<>> /\ can(Last(done), x)
                            THEN Append(Front(done), merge(Last(done), x)) ELSE Append(done, x), <<>>, xs)

\* canMergeSlicesAlongAxis
CanMergeSlices(x, y, dim) ==
  /\ x.op = "slice" /\ y.op = "slice" /\ X(x) = X(y)
  /\ x.attr.stride = y.attr.stride
  /\ x.attr.limit[dim] = y.attr.start[dim]
  /\ \A d \in Dims(x) \ {dim} : x.attr.start[d] = y.attr.start[d] /\ x.attr.limit[d] = y.attr.limit[d]

\* The second of two slices goes on where the first one's stride would only if
\* the first ends on a whole stride.
ConcatSlice ==
  \E n \in Ops("concat") :
    LET dim == n.attr.dim
        can(x, y) == CanMergeSlices(x, y, dim)
        merged == Merged(n.args, can, LAMBDA x, y : Slice(X(x), x.attr.start, y.attr.limit, x.attr.stride))
    IN  /\ Len(merged) < Len(n.args)
        /\ Replace(n, Concat(merged, dim),
                   \A k \in 1 .. Len(n.args) - 1 : can(n.args[k], n.args[k + 1]) =>
                     (n.args[k].attr.limit[dim] - n.args[k].attr.start[dim]) % n.args[k].attr.stride[dim] = 0)

\* canMergePadsAlongAxis
CanMergePads(x, y, dim) ==
  /\ x.op = "pad" /\ y.op = "pad" /\ x.attr.value = y.attr.value
  /\ x.attr.inner[dim] = 0 /\ y.attr.inner[dim] = 0
  /\ x.attr.high[dim] = 0 /\ y.attr.low[dim] = 0
  /\ \A d \in Dims(x) \ {dim} : /\ x.attr.inner[d] = y.attr.inner[d]
                                /\ x.attr.high[d] = y.attr.high[d]
                                /\ x.attr.low[d] = y.attr.low[d]

\* The amounts of the first pad serve for both: what the second adds behind is lost.
ConcatMultiPad ==
  \E n \in Ops("concat") :
    LET dim == n.attr.dim
        can(x, y) == CanMergePads(x, y, dim)
        merged == Merged(n.args, can, LAMBDA x, y :
                    Pad(Concat(<<X(x), X(y)>>, dim), x.attr.value, x.attr.low, x.attr.high, x.attr.inner))
    IN  /\ Len(merged) < Len(n.args)
        /\ Replace(n, Concat(merged, dim),
                   \A k \in 1 .. Len(n.args) - 1 :
                     can(n.args[k], n.args[k + 1]) => n.args[k + 1].attr.high[dim] = 0)

ConcatPad ==
  \E n \in Ops("concat") :
    LET dim == n.attr.dim
        last == Len(n.args)
        \* The pad may only face outwards, and only along the dimension.
        legal(p, facing) ==
          /\ p.op = "pad"
          /\ p.attr.inner = All(p, 0) /\ facing[dim] = 0
          /\ \A d \in Dims(p) \ {dim} : p.attr.low[d] = 0 /\ p.attr.high[d] = 0
        isLegal(k) == IF k = 1 THEN legal(n.args[1], n.args[1].attr.high)
                      ELSE legal(n.args[last], n.args[last].attr.low)
        pull(k) == LET p == n.args[k] IN
          Replace(n, Pad(Concat([n.args EXCEPT ![k] = X(p)], dim), p.attr.value, p.attr.low, p.attr.high,
                         p.attr.inner), TRUE)
    IN  /\ last >= 2
        /\ \/ n.args[1].op = "pad" /\ isLegal(1) /\ pull(1)
           \/ n.args[last].op = "pad" /\ isLegal(last) /\ ~(n.args[1].op = "pad" /\ isLegal(1)) /\ pull(last)

\* The padding all operands share is pulled out, along the dimension of the
\* concatenation too, and inner padding goes with an operand's last pad.
PadConcatToConcatPad ==
  \E n \in Ops("concat") :
    LET dim == n.attr.dim
        p(k) == n.args[k].attr
        low == [d \in Dims(n) |-> Min({p(k).low[d] : k \in DOMAIN n.args})]
        high == [d \in Dims(n) |-> Min({p(k).high[d] : k \in DOMAIN n.args})]
        more(k) == \E d \in Dims(n) : p(k).low[d] > low[d] \/ p(k).high[d] > high[d]
        adjusted == [k \in DOMAIN n.args |->
          IF more(k) THEN Pad(X(n.args[k]), p(k).value, [d \in Dims(n) |-> p(k).low[d] - low[d]],
                              [d \in Dims(n) |-> p(k).high[d] - high[d]], p(k).inner)
          ELSE X(n.args[k])]
    IN  /\ Len(n.args) > 1
        /\ \A k \in DOMAIN n.args : n.args[k].op = "pad" /\ UsedOnce(n.args[k]) /\ p(k).value = p(1).value
        /\ \E d \in Dims(n) : low[d] # 0 \/ high[d] # 0
        /\ Replace(n, Pad(Concat(adjusted, dim), p(1).value, low, high, All(n, 0)),
                   /\ low[dim] = 0 /\ high[dim] = 0
                   /\ \A k \in DOMAIN n.args : more(k) \/ p(k).inner = All(n, 0))

ConcatToPad ==
  \E n \in Ops("concat") :
    LET dim == n.attr.dim
        last == Len(n.args)
        amount(k, end) == [d \in Dims(n) |-> IF d = dim /\ k = end THEN Size(n.args[k], dim) ELSE 0]
        drop(k) == Replace(n, Pad(Concat(IF k = 1 THEN Tail(n.args) ELSE Front(n.args), dim), n.args[k].attr.value,
                                  amount(k, 1), amount(k, last), All(n, 0)), TRUE)
    IN  /\ last >= 2
        /\ \/ n.args[1].op = "constant" /\ drop(1)
           \/ n.args[last].op = "constant" /\ n.args[1].op # "constant" /\ drop(last)

ConcatSlicesToReverse ==
  \E n \in Ops("concat") :
    LET dim == n.attr.dim
        count == Len(n.args)
        src == X(n.args[1])
        backwards(k) == n.args[k] = Slice(src, [d \in Dims(n) |-> IF d = dim THEN count - k ELSE 0],
          [d \in Dims(n) |-> IF d = dim THEN count - k + 1 ELSE Size(src, d)], All(n, 1))
    IN  /\ n.args[1].op = "slice"
        /\ Size(src, dim) = count
        /\ \A k \in DOMAIN n.args : backwards(k)
        /\ Replace(n, Reversed(src, {dim}), TRUE)

\* Mutant: rewrites a reversal none of whose dimensions can go.
NoopReverseAlways ==
  \E n \in Ops("reverse") :
    LET dims == {d \in n.attr.dims : Size(n, d) # 1 /\ X(n).op # "broadcast"}
    IN  Replace(n, IF dims = {} \/ X(n).op = "constant" THEN X(n) ELSE Reversed(X(n), dims), TRUE)

NoopReverse ==
  \E n \in Ops("reverse") :
    LET dims == {d \in n.attr.dims : Size(n, d) # 1 /\ X(n).op # "broadcast"}
    IN  \/ X(n).op = "constant" /\ Replace(n, X(n), TRUE)
        \/ /\ X(n).op # "constant"
           /\ dims # n.attr.dims
           /\ Replace(n, IF dims = {} THEN X(n) ELSE Reversed(X(n), dims), TRUE)


-----------------------------------------------------------------------------
(* Updates                                                                 *)

DynamicUpdateSliceElim ==
  \E n \in Ops("update") :
    /\ U(n).t.shape = n.t.shape
    /\ n.attr.start = All(n, 0)
    /\ Replace(n, U(n), TRUE)

\* An update of all but one dimension.
DynamicUpdateToConcat ==
  \E n \in Ops("update") :
    LET whole(d) == n.attr.start[d] = 0 /\ Size(U(n), d) = Size(n, d)
        partial == {d \in Dims(n) : ~whole(d)}
        dim == CHOOSE d \in partial : TRUE
        part(from, to) ==
          IF from = to THEN <<>>
          ELSE <<Slice(X(n), [All(n, 0) EXCEPT ![dim] = from], [n.t.shape EXCEPT ![dim] = to], All(n, 1))>>
    IN  /\ InRange(n)
        /\ Cardinality(partial) = 1
        /\ Replace(n, Concat(part(0, n.attr.start[dim]) \o <<U(n)>> \o part(End(n, dim), Size(n, dim)), dim), TRUE)

DUSPad ==
  \E n \in Ops("update") :
    LET p == X(n).attr
        x == X(X(n))
        padded(v) == Pad(v, p.value, p.low, p.high, p.inner)
    IN  /\ X(n).op = "pad"
        /\ p.inner = All(n, 0) /\ ~AnyPadSizesNegative(X(n))
        /\ \A d \in Dims(n) : n.attr.start[d] >= p.low[d] /\ End(n, d) <= p.low[d] + Size(x, d)
        /\ \/ x.t.shape = U(n).t.shape /\ Replace(n, padded(U(n)), TRUE)
           \/ /\ x.t.shape # U(n).t.shape
              /\ UsedOnce(X(n))
              /\ Replace(n, padded(Update(x, U(n), [d \in Dims(n) |-> n.attr.start[d] - p.low[d]])), TRUE)

DUSConcat ==
  \E n \in Ops("update") :
    LET c == X(n)
        dim == c.attr.dim
        holds(k) == /\ n.attr.start[dim] >= Offset(c, k)
                    /\ End(n, dim) <= Offset(c, k) + Size(c.args[k], dim)
        k == Min({j \in DOMAIN c.args : holds(j)})
    IN  /\ c.op = "concat"
        /\ \E j \in DOMAIN c.args : holds(j)
        /\ Replace(n, Concat([c.args EXCEPT ![k] = Update(@, U(n), [n.attr.start EXCEPT ![dim] = @ - Offset(c, k)])],
                             dim), TRUE)

\* Two updates that differ along one dimension, the later one first: [i0, e0)
\* over [i1, e1). The last branch keeps the head of the earlier update where
\* its tail is what remains.
DUSDUSConcat ==
  \E n \in Ops("update") :
    LET n2 == X(n)
        s == n.attr.start
        s2 == n2.attr.start
        otherStart == {d \in Dims(n) : s[d] # s2[d]}
        otherSize == {d \in Dims(n) : Size(U(n), d) # Size(U(n2), d)}
        differ == IF otherStart # {} THEN otherStart ELSE otherSize
        dim == CHOOSE d \in differ : TRUE
        i0 == s[dim]
        i1 == s2[dim]
        e0 == End(n, dim)
        e1 == End(n2, dim)
        fits == i0 >= 0 /\ i1 >= 0 /\ e0 <= Size(n, dim) /\ e1 <= Size(n, dim)
        head(size) == Slice(U(n2), All(n, 0), [U(n2).t.shape EXCEPT ![dim] = size], All(n, 1))
        apart == i1 # e0 /\ i0 # e1
        covers == i1 >= i0 /\ e1 <= e0
        within == i0 >= i1 /\ e0 <= e1
    IN  /\ n2.op = "update"
        /\ Cardinality(differ) = 1
        /\ otherSize \subseteq {dim}
        /\ \/ i1 = e0 /\ Replace(n, Update(X(n2), Concat(<<U(n), U(n2)>>, dim), s), fits)
           \/ i1 # e0 /\ i0 = e1 /\ Replace(n, Update(X(n2), Concat(<<U(n2), U(n)>>, dim), s2), fits)
           \/ apart /\ covers /\ Replace(n, Update(X(n2), U(n), s), TRUE)
           \/ /\ apart /\ ~covers /\ within
              /\ Replace(n, Update(X(n2), Update(U(n2), U(n), [All(n, 0) EXCEPT ![dim] = i0 - i1]), s2), fits)
           \/ /\ apart /\ i0 >= i1 /\ i0 < e1 /\ e0 > e1 /\ e0 <= Size(n, dim)
              /\ ~covers
              /\ Replace(n, Update(X(n2), Concat(<<head(i0 - i1), U(n)>>, dim), s2), fits)
           \/ /\ apart /\ i0 < i1 /\ i1 < e0 /\ e0 < e1 /\ e1 <= Size(n, dim)
              /\ Replace(n, Update(X(n2), Concat(<<U(n), head(e1 - e0)>>, dim), s), FALSE)

DUSDUS ==
  \E n \in Ops("update") :
    LET n2 == X(n)
        s == n.attr.start
        s2 == n2.attr.start
        full(m, d) == m.attr.start[d] = 0 /\ Size(U(m), d) = Size(m, d)
        covers == \A d \in Dims(n) : full(n, d) \/ (s[d] <= s2[d] /\ End(n, d) >= End(n2, d))
        within == \A d \in Dims(n) : full(n2, d) \/ (s[d] >= s2[d] /\ End(n, d) <= End(n2, d))
    IN  /\ n2.op = "update"
        /\ UsedOnce(n2)
        /\ \/ covers /\ Replace(n, Update(X(n2), U(n), s), TRUE)
           \/ /\ ~covers /\ within
              /\ Replace(n, Update(X(n2), Update(U(n2), U(n), [d \in Dims(n) |-> s[d] - s2[d]]), s2), InRange(n2))

\* All slices of an update are taken from an update of the box they lie in; the
\* limit of each is its start and its size, whatever its stride.
DUSSliceSimplify ==
  \E n \in Ops("update") :
    LET slices == {m \in Ops("slice") : X(m) = n}
        s == n.attr.start
        from == [d \in Dims(n) |-> Min({m.attr.start[d] : m \in slices} \union {Size(n, d)})]
        to == [d \in Dims(n) |-> Max({m.attr.limit[d] : m \in slices} \union {0})]
        firstUsed == [d \in Dims(n) |-> Max({from[d] - s[d], 0})]
        lastUsed == [d \in Dims(n) |-> Size(U(n), d) - Max({End(n, d) - to[d], 0})]
        small == Update(Slice(X(n), from, to, All(n, 1)), Slice(U(n), firstUsed, lastUsed, All(n, 1)),
                        [d \in Dims(n) |-> Max({s[d] - from[d], 0})])
        moved(m) == Slice(small, [d \in Dims(n) |-> m.attr.start[d] - from[d]],
                          [d \in Dims(n) |-> m.attr.start[d] - from[d] + Size(m, d)], m.attr.stride)
    IN  /\ slices # {}
        /\ Uses(n) = Cardinality(slices)
        /\ ~(from = All(n, 0) /\ to = n.t.shape)
        /\ Become([k \in DOMAIN outputs |->
                     FoldSet(LAMBDA m, tree : Substitute(tree, m, moved(m)), outputs[k], slices)],
                  /\ InRange(n)
                  /\ \A m \in slices : m.attr.stride = All(n, 1)
                  /\ \A d \in Dims(n) : s[d] <= to[d] /\ End(n, d) >= from[d])

-----------------------------------------------------------------------------
(* The greedy driver rewrites until nothing matches.                       *)

OnSlices ==
  \/ NoopSlice \/ SliceSlice \/ SliceSimplify \/ SlicePad \/ SliceConcat
  \/ SliceOfDynamicUpdate \/ SliceDUSToConcat \/ SliceReverse

OnPads == PadSimplify \/ NegativePadToSlice \/ PadPad

OnConcats ==
  \/ ConcatFuse \/ ConcatSlice \/ ConcatMultiPad \/ ConcatPad
  \/ PadConcatToConcatPad \/ ConcatToPad \/ ConcatSlicesToReverse \/ NoopReverse

OnUpdates ==
  \/ DynamicUpdateSliceElim \/ DynamicUpdateToConcat \/ DUSPad \/ DUSConcat
  \/ DUSDUSConcat \/ DUSDUS \/ DUSSliceSimplify

Next == OnSlices \/ OnPads \/ OnConcats \/ OnUpdates

Spec == Init /\ [][Next]_vars

-----------------------------------------------------------------------------
(* Properties                                                              *)

\* Whatever rewrites follow each other, in whatever order, every result is the
\* tensor the program computed before, as long as the conditions are met that
\* the patterns leave out: the index arithmetic of all of them is right.
ExactKeepsValue == exact => \A k \in DOMAIN outputs : outputs[k].t = meaning[k]

\* The same without asking for the conditions: DUSSliceSimplify (13107) cuts off
\* what is "not used by later slice operations", so they read what they did.
AlwaysKeepsValue == \A k \in DOMAIN outputs : outputs[k].t = meaning[k]

\* The patterns do not feed each other: no program that met the conditions is
\* rewritten MaxRewrites times, so the driver reaches its fixed point (it gives
\* up after max_iterations rounds otherwise).
ReachesFixpoint == exact => rewrites < MaxRewrites
=============================================================================

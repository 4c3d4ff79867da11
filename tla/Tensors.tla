------------------------------- MODULE Tensors -------------------------------
(***************************************************************************)
(* Tensors and the StableHLO operations on them that the partial symmetry  *)
(* analysis has rules for: the reference the rules are checked against.    *)
(* Dimensions and indices count from 1.                                    *)
(***************************************************************************)
EXTENDS Integers, SequencesExt

Rank(t) == Len(t.shape)
Dim(t) == 1 .. Rank(t)

Index(shape) ==
  LET size == Max({shape[d] : d \in 1 .. Len(shape)} \union {1})
  IN  {i \in [1 .. Len(shape) -> 1 .. size] : \A d \in 1 .. Len(shape) : i[d] <= shape[d]}

IsShape(shape) == shape \in Seq(Nat)
IsTensor(t) ==
  t = [shape |-> t.shape, at |-> t.at] /\ IsShape(t.shape) /\ t.at \in [Index(t.shape) -> Int]

Tensor(shape, value(_)) == [shape |-> shape, at |-> [i \in Index(shape) |-> value(i)]]

Swapped(i, a, b) == [i EXCEPT ![a] = i[b], ![b] = i[a]]

\* Dimensions a and b may be swapped without changing the value of the tensor.
Swappable(t, a, b) ==
  /\ t.shape[a] = t.shape[b]
  /\ \A i \in DOMAIN t.at : t.at[Swapped(i, a, b)] = t.at[i]

Perms(n) == {p \in [1 .. n -> 1 .. n] : \A d \in 1 .. n : \E e \in 1 .. n : p[e] = d}
InversePerm(p) == [d \in DOMAIN p |-> CHOOSE e \in DOMAIN p : p[e] = d]

\* transpose: dimension d of the result is dimension p[d] of the operand.
Transposed(t, p) ==
  Tensor([d \in Dim(t) |-> t.shape[p[d]]], LAMBDA i : t.at[[d \in Dim(t) |-> i[InversePerm(p)[d]]]])

\* broadcast_in_dim: dimension d of the operand becomes dimension dims[d].
Broadcasted(t, shape, dims) ==
  Tensor(shape, LAMBDA i : t.at[[d \in Dim(t) |-> IF t.shape[d] = 1 THEN 1 ELSE i[dims[d]]]])

\* Elementwise operations: one that commutes, one that does not, one of one operand.
Added(s, t) == Tensor(s.shape, LAMBDA i : s.at[i] + t.at[i])
Subtracted(s, t) == Tensor(s.shape, LAMBDA i : s.at[i] - t.at[i])
Negated(t) == Tensor(t.shape, LAMBDA i : -t.at[i])

-----------------------------------------------------------------------------
(* dot_general: batch and contract are sequences of pairs, a dimension of  *)
(* the left operand and one of the right.                                  *)

Side(pairs, s) == [k \in DOMAIN pairs |-> pairs[k][s]]
Members(seq) == {seq[k] : k \in DOMAIN seq}

\* The dimensions of t, the operand on side s, that are in neither list, in order.
Free(t, s, batch, contract) ==
  FlattenSeq([d \in Dim(t) |-> IF d \in Members(Side(batch, s) \o Side(contract, s)) THEN <<>> ELSE <<d>>])

DotDims(s, t, batch, contract) ==
  [k \in DOMAIN batch |-> s.shape[batch[k][1]]]
    \o [k \in DOMAIN Free(s, 1, batch, contract) |-> s.shape[Free(s, 1, batch, contract)[k]]]
    \o [k \in DOMAIN Free(t, 2, batch, contract) |-> t.shape[Free(t, 2, batch, contract)[k]]]

\* The index into the operand on one side, given its dimensions in the order
\* batch, free, contracting and the index along each.
Along(dims, i) == [d \in Members(dims) |-> i[CHOOSE k \in DOMAIN dims : dims[k] = d]]

DotGeneral(s, t, batch, contract) ==
  LET nb == Len(batch)
      ls == Free(s, 1, batch, contract)
      rs == Free(t, 2, batch, contract)
      left == Side(batch, 1) \o ls \o Side(contract, 1)
      right == Side(batch, 2) \o rs \o Side(contract, 2)
      summed == Index([k \in DOMAIN contract |-> s.shape[contract[k][1]]])
  IN  Tensor(DotDims(s, t, batch, contract), LAMBDA i :
        MapThenSumSet(LAMBDA c :
          s.at[Along(left, SubSeq(i, 1, nb + Len(ls)) \o c)]
            * t.at[Along(right, SubSeq(i, 1, nb) \o SubSeq(i, nb + Len(ls) + 1, Len(i)) \o c)], summed))
=============================================================================

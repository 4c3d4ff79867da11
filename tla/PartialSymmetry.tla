--------------------------- MODULE PartialSymmetry ---------------------------
(***************************************************************************)
(* The partial symmetry analysis                                           *)
(* (src/src/enzyme_ad/jax/Analysis/PartialSymmetryAnalysis.cpp), the       *)
(* attributes PartialSymmetryAnnotate.cpp leaves and the rewrite of        *)
(* EnzymeHLOOpt.cpp that trusts them.                                      *)
(*                                                                         *)
(* A program is built one operation at a time, with the tensors it         *)
(* computes and what the analysis says of each: in straight-line code the  *)
(* solver visits an operation once, after its operands.  An annotation     *)
(* maps a dimension to the least dimension of its set, which is            *)
(* canonicalize() up to the names of the sets.                             *)
(***************************************************************************)
EXTENDS Tensors

CONSTANTS
  Inputs,    \* tensors of arguments and constants
  Operation, \* the kinds of operation programs are made of
  MaxValues, \* bound on the length of a program
  MaxRank,   \* bound on the rank of a tensor
  Widths     \* the sizes of dimensions that broadcast_in_dim adds

ASSUME InputsAssumption == \A t \in Inputs : IsTensor(t)
ASSUME WidthsAssumption == Widths \subseteq Nat

VARIABLES
  values,    \* the program: its SSA values in order
  simplified \* value -> the value that replaced it

vars == <<values, simplified>>

-----------------------------------------------------------------------------
(* PartialSymmetryAnnotation *)

NotSymmetric(n) == [d \in 1 .. n |-> d]
FullySymmetric(n) == [d \in 1 .. n |-> 1]

\* uniteDimensionSets.
Unite(ann, i, j) ==
  [d \in DOMAIN ann |-> IF ann[d] \in {ann[i], ann[j]} THEN Min({ann[i], ann[j]}) ELSE ann[d]]

\* What every rule does: start without symmetry and unite pair after pair.
United(ann, pairs) == FoldSet(LAMBDA p, a : Unite(a, p[1], p[2]), ann, pairs)

Related(n, same(_, _)) ==
  United(NotSymmetric(n), {p \in (1 .. n) \X (1 .. n) : p[2] < p[1] /\ same(p[1], p[2])})

\* Mutant: the last dimension is left out.
MeetButLast(a, b) == Related(Len(a) - 1, LAMBDA i, j : a[i] = a[j] /\ b[i] = b[j])

Meet(a, b) == Related(Len(a), LAMBDA i, j : a[i] = a[j] /\ b[i] = b[j])

\* Mutant: the permutation read the other way.
TransposeInverted(ann, perm) ==
  Related(Len(ann), LAMBDA i, j : ann[InversePerm(perm)[i]] = ann[InversePerm(perm)[j]])

PropagateTranspose(ann, perm) == Related(Len(ann), LAMBDA i, j : ann[perm[i]] = ann[perm[j]])

\* Preserved dimensions keep their sets, the new ones form one.
PropagateBroadcast(ann, rank, dims) ==
  LET kept == Members(dims)
      input(d) == CHOOSE k \in DOMAIN dims : dims[k] = d
  IN  Related(rank, LAMBDA i, j :
        IF i \in kept /\ j \in kept THEN ann[input(i)] = ann[input(j)] ELSE i \notin kept /\ j \notin kept)

\* checkConstant: every pair is tried.
CheckConstant(t) == Related(Rank(t), LAMBDA i, j : Swappable(t, i, j))

NoAlias == <<>>

Moved(toLhs) == {d \in DOMAIN toLhs : toLhs[d] # d}

\* x op transpose(x) is symmetric in the two dimensions that were exchanged.
PropagateElementwiseBinary(a, b, toLhs) ==
  IF toLhs # NoAlias /\ Cardinality(Moved(toLhs)) = 2
  THEN United(Meet(a, b), {<<d, toLhs[d]>> : d \in Moved(toLhs)})
  ELSE Meet(a, b)

\* The multiset of the sets of contracting dimensions.
SetCounts(ann, dims) == [c \in Members(ann) |-> Cardinality({k \in DOMAIN dims : ann[dims[k]] = c})]

PropagateDotGeneral(a, b, ls, rs, batch, contract, toLhs) ==
  LET nb == Len(batch)
      nl == Len(ls)
      n == nb + nl + Len(rs)
      within == {p \in (1 .. n) \X (1 .. n) : p[2] < p[1]}
      batching == {p \in within : /\ p[1] <= nb
                                  /\ a[batch[p[1]][1]] = a[batch[p[2]][1]]
                                  /\ b[batch[p[1]][2]] = b[batch[p[2]][2]]}
      left == {p \in within : /\ p[2] > nb /\ p[1] <= nb + nl
                              /\ a[ls[p[1] - nb]] = a[ls[p[2] - nb]]}
      right == {p \in within : /\ p[2] > nb + nl
                               /\ b[rs[p[1] - nb - nl]] = b[rs[p[2] - nb - nl]]}
      exchangeValid ==
        /\ toLhs # NoAlias
        /\ \A k \in 1 .. nb : a[batch[k][1]] = a[toLhs[batch[k][2]]]
        /\ SetCounts(a, Side(contract, 1))
             = SetCounts(a, [k \in DOMAIN contract |-> toLhs[contract[k][2]]])
      exchange == {p \in within : /\ p[2] > nb /\ p[2] <= nb + nl /\ p[1] > nb + nl
                                  /\ exchangeValid
                                  /\ a[ls[p[2] - nb]] = a[toLhs[rs[p[1] - nb - nl]]]}
  IN  United(NotSymmetric(n), batching \union left \union right \union exchange)

-----------------------------------------------------------------------------
(* PartialSymmetryAnalysis::visitOperation, one action per kind of operation *)

Value == 1 .. Len(values)

\* Whether the right operand is the left one up to a transpose; then where
\* each of its dimensions is in the left one, as the code reads the permutation.
RhsDimToLhs(l, r) ==
  IF l = r THEN [d \in Dim(values[l].tensor) |-> d]
  ELSE IF values[l].op = "transpose" /\ values[l].operands[1] = r THEN values[l].perm
  ELSE IF values[r].op = "transpose" /\ values[r].operands[1] = l THEN InversePerm(values[r].perm)
  ELSE NoAlias

\* The lattice of a result starts fully symmetric and meets what the rule says.
Push(op, operands, perm, tensor, rule, exact) ==
  /\ op \in Operation /\ Len(tensor.shape) <= MaxRank
  /\ values' = Append(values,
       [op |-> op, operands |-> operands, perm |-> perm, tensor |-> tensor,
        ann |-> Meet(FullySymmetric(Rank(tensor)), rule),
        exact |-> exact /\ \A k \in DOMAIN operands : values[operands[k]].exact])
  /\ UNCHANGED simplified

Init == values = <<>> /\ simplified = <<>>

\* Arguments and constants come first.
InputsOnly == \A v \in Value : values[v].operands = <<>>

\* setToEntryState: an argument is not symmetric, unless an attribute says so.
Argument ==
  /\ InputsOnly
  /\ \E t \in Inputs : \E ann \in {NotSymmetric(Rank(t)), CheckConstant(t)} :
       Push("argument", <<>>, <<>>, t, ann, TRUE)

Constant == InputsOnly /\ \E t \in Inputs : Push("constant", <<>>, <<>>, t, CheckConstant(t), TRUE)

Transpose ==
  \E v \in Value : \E p \in Perms(Rank(values[v].tensor)) :
    Push("transpose", <<v>>, p, Transposed(values[v].tensor, p), PropagateTranspose(values[v].ann, p), TRUE)

\* One dimension more or two, in order.
Broadcast ==
  \E v \in Value : \E extra \in 1 .. 2 :
    LET t == values[v].tensor
        n == Rank(t) + extra
    IN  n <= MaxRank /\ \E dims \in [Dim(t) -> 1 .. n], widths \in [1 .. n -> Widths] :
          LET new == (1 .. n) \ Members(dims)
              shape == [d \in 1 .. n |-> IF d \in new THEN widths[d]
                                         ELSE t.shape[CHOOSE k \in Dim(t) : dims[k] = d]]
          IN  /\ \A j, k \in Dim(t) : j # k => dims[j] # dims[k]
              /\ \A d \in 1 .. n : d \notin new => widths[d] = CHOOSE w \in Widths : TRUE
              /\ Push("broadcast", <<v>>, <<>>, Broadcasted(t, shape, dims),
                      PropagateBroadcast(values[v].ann, n, dims),
                      \A d, e \in new : shape[d] = shape[e])

Negate ==
  \E v \in Value : Push("negate", <<v>>, <<>>, Negated(values[v].tensor), values[v].ann, TRUE)

SameShape(l, r) == values[l].tensor.shape = values[r].tensor.shape

\* hasTraitElementwise and IsCommutative.
Add ==
  \E l, r \in Value :
    /\ SameShape(l, r)
    /\ Push("add", <<l, r>>, <<>>, Added(values[l].tensor, values[r].tensor),
            PropagateElementwiseBinary(values[l].ann, values[r].ann, RhsDimToLhs(l, r)), TRUE)

\* An operation without a rule: nothing is met, and its result stays as the
\* lattice was constructed.
Subtract ==
  \E l, r \in Value :
    /\ SameShape(l, r)
    /\ Push("subtract", <<l, r>>, <<>>, Subtracted(values[l].tensor, values[r].tensor),
            FullySymmetric(Rank(values[l].tensor)), FALSE)

Injective(seq) == \A j, k \in DOMAIN seq : seq[j] = seq[k] => j = k

\* Bound: up to two pairs of dimensions, in the order of the left ones.
Pairings(s, t) ==
  LET pair == {p \in Dim(s) \X Dim(t) : s.shape[p[1]] = t.shape[p[2]]}
  IN  {q \in UNION {[1 .. n -> pair] : n \in 0 .. 2} :
         /\ \A j, k \in DOMAIN q : j < k => q[j][1] < q[k][1]
         /\ Injective(Side(q, 2))}

\* Where the exchange of free dimensions is right: one on either side, at most
\* two contracting ones, and a permutation that is its own inverse.
ExchangeExact(ls, rs, contract, toLhs) ==
  toLhs = NoAlias \/ (Len(ls) <= 1 /\ Len(rs) <= 1 /\ Len(contract) <= 2 /\ InversePerm(toLhs) = toLhs)

Dot ==
  \E l, r \in Value :
    LET s == values[l].tensor
        t == values[r].tensor
    IN  \E batch, contract \in Pairings(s, t) :
          LET ls == Free(s, 1, batch, contract)
              rs == Free(t, 2, batch, contract)
          IN  /\ contract # <<>>
              /\ Injective(Side(batch \o contract, 1)) /\ Injective(Side(batch \o contract, 2))
              /\ Push("dot", <<l, r>>, <<>>, DotGeneral(s, t, batch, contract),
                      PropagateDotGeneral(values[l].ann, values[r].ann, ls, rs, batch, contract, RhsDimToLhs(l, r)),
                      ExchangeExact(ls, rs, contract, RhsDimToLhs(l, r)))

-----------------------------------------------------------------------------
(* The attributes, and TransposePartialSymmetrySimplify *)

\* PartialSymmetryAnnotatePass writes the sets of more than one dimension; a
\* value without any has no attribute.
Annotated(v) == \E i, j \in DOMAIN values[v].ann : i # j /\ values[v].ann[i] = values[v].ann[j]

Replaced(v) == IF v \in DOMAIN simplified THEN simplified[v] ELSE v

\* Mutant: the outermost dimension stands for all.
SimplifyFirst(v) ==
  LET o == Replaced(values[v].operands[1])
      ann == values[o].ann
  IN  /\ values[v].op = "transpose" /\ v \notin DOMAIN simplified
      /\ Annotated(o)
      /\ \A d \in {1} : ann[d] = ann[values[v].perm[d]]
      /\ simplified' = [u \in DOMAIN simplified \union {v} |-> IF u = v \/ Replaced(u) = v THEN o ELSE Replaced(u)]
      /\ UNCHANGED values

\* A transpose that moves dimensions within their sets only is its operand.
SimplifyTranspose(v) ==
  LET o == Replaced(values[v].operands[1])
      ann == values[o].ann
  IN  /\ values[v].op = "transpose" /\ v \notin DOMAIN simplified
      /\ Annotated(o)
      /\ \A d \in DOMAIN ann : ann[d] = ann[values[v].perm[d]]
      /\ simplified' = [u \in DOMAIN simplified \union {v} |-> IF u = v \/ Replaced(u) = v THEN o ELSE Replaced(u)]
      /\ UNCHANGED values

\* The rewrites run after the pass has annotated the whole program.
Rewrite == Len(values) = MaxValues /\ \E v \in Value : SimplifyTranspose(v)

Build ==
  /\ Len(values) < MaxValues
  /\ Argument \/ Constant \/ Transpose \/ Broadcast \/ Negate \/ Add \/ Subtract \/ Dot

Next == Build \/ Rewrite

Spec == Init /\ [][Next]_vars

-----------------------------------------------------------------------------
(* Properties *)

TypeOK ==
  /\ \A v \in Value :
       LET x == values[v]
       IN  /\ x.op \in Operation /\ x.exact \in BOOLEAN
           /\ DOMAIN x.ann = Dim(x.tensor)
           /\ \A d \in DOMAIN x.ann : x.ann[d] \in 1 .. d /\ x.ann[x.ann[d]] = x.ann[d]
           /\ \A k \in DOMAIN x.operands : x.operands[k] < v
  /\ \A v \in DOMAIN simplified : v \in Value /\ simplified[v] < v

Truthful(v) ==
  \A i, j \in DOMAIN values[v].ann :
    values[v].ann[i] = values[v].ann[j] => Swappable(values[v].tensor, i, j)

\* The same, of the values computed by operations whose rule is exact from
\* values that are: what the rules do together loses nothing.
ExactTruthful == \A v \in Value : values[v].exact => Truthful(v)

\* The same of every value, as PartialSymmetryAnalysis.h has it (17): dimensions
\* of one set "may be swapped without changing the value of the tensor".
AlwaysTruthful == \A v \in Value : Truthful(v)

\* A transpose is replaced only by a value equal to it, of the same shape.
RewriteKeepsValue ==
  \A v \in DOMAIN simplified : values[simplified[v]].exact => values[v].tensor = values[simplified[v]].tensor
=============================================================================

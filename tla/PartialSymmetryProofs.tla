----------------------- MODULE PartialSymmetryProofs -----------------------
(***************************************************************************)
(* Proofs about the partial symmetry analysis, for tensors of any rank,    *)
(* shape and value: what the exact rules say together is true, and the     *)
(* transposes the rewrite removes are equal to what replaces them.         *)
(***************************************************************************)
EXTENDS PartialSymmetry, TensorLemmas

-----------------------------------------------------------------------------
(* Sets of dimensions *)

Anns(n) == [1 .. n -> 1 .. n]
Pairs(n) == SUBSET ((1 .. n) \X (1 .. n))

\* Dimensions in one set are equivalent.
Respects(n, ann, E) == \A i, j \in 1 .. n : ann[i] = ann[j] => <<i, j>> \in E

\* The least of two numbers.
LEMMA MinOfTwo ==
  ASSUME NEW a \in Int, NEW b \in Int PROVE Min({a, b}) \in {a, b}
<1>1. \E x \in {a, b} : \A y \in {a, b} : x =< y
  OBVIOUS
<1>. QED BY <1>1 DEF Min

\* Uniting the sets of equivalent dimensions leaves the dimensions in a set
\* equivalent.
LEMMA UniteRespects ==
  ASSUME NEW n \in Nat, NEW E, Equivalence(n, E), NEW ann \in Anns(n), Respects(n, ann, E),
         NEW i \in 1 .. n, NEW j \in 1 .. n, <<i, j>> \in E
  PROVE  Unite(ann, i, j) \in Anns(n) /\ Respects(n, Unite(ann, i, j), E)
<1>. DEFINE m == Min({ann[i], ann[j]})
            In(d) == ann[d] \in {ann[i], ann[j]}
<1>1. ann[i] \in 1 .. n /\ ann[j] \in 1 .. n /\ DOMAIN ann = 1 .. n
  BY DEF Anns
<1>2. m \in {ann[i], ann[j]}
  BY <1>1, MinOfTwo
<1>. HIDE DEF m
<1>3. Unite(ann, i, j) = [d \in 1 .. n |-> IF In(d) THEN m ELSE ann[d]]
  BY <1>1 DEF Unite, m
<1>4. Unite(ann, i, j) \in Anns(n)
  BY <1>1, <1>2, <1>3 DEF Anns
<1>5. ASSUME NEW d \in 1 .. n, In(d) PROVE <<d, i>> \in E
  BY <1>5 DEF Respects, Equivalence
<1>6. ASSUME NEW d \in 1 .. n, NEW e \in 1 .. n, Unite(ann, i, j)[d] = Unite(ann, i, j)[e]
      PROVE  <<d, e>> \in E
  <2>1. CASE In(d) /\ In(e)
    BY <1>5, <2>1 DEF Equivalence
  <2>2. CASE ~ In(d) /\ ~ In(e)
    BY <1>3, <1>6, <2>2 DEF Respects
  <2>3. In(d) <=> In(e)
    BY <1>2, <1>3, <1>6
  <2>. QED BY <2>1, <2>2, <2>3
<1>. QED BY <1>4, <1>6 DEF Respects

\* The fold of United.
UniteOf(n, pairs) == [p \in pairs |-> [ann \in Anns(n) |-> Unite(ann, p[1], p[2])]]

\* g unites one pair after the other with what is united so far.
UnitesOneByOne(n, pairs, ann, g) ==
  /\ g \in [SUBSET pairs -> Anns(n)]
  /\ g[{}] = ann
  /\ \A s \in SUBSET pairs : s # {} =>
       g[s] = Unite(g[s \ {Pick(s)}], Pick(s)[1], Pick(s)[2])

\* United takes its value from the recursive function of that fold.
LEMMA UnitedFolds ==
  ASSUME NEW n \in Nat, NEW pairs \in Pairs(n), NEW ann \in Anns(n)
  PROVE  \E g : UnitesOneByOne(n, pairs, ann, g) /\ United(ann, pairs) = g[pairs]
<1>1. IsFiniteSet(pairs)
  <2>1. IsFiniteSet((1 .. n) \X (1 .. n))
    <3>1. IsFiniteSet(1 .. n)
      BY FS_Interval
    <3>. QED BY <3>1, FS_Product
  <2>. QED BY <2>1, FS_Subset DEF Pairs
<1>2. UniteOf(n, pairs) \in [pairs -> [Anns(n) -> Anns(n)]]
  <2>. SUFFICES ASSUME NEW p \in pairs, NEW a \in Anns(n) PROVE Unite(a, p[1], p[2]) \in Anns(n)
    BY DEF UniteOf
  <2>1. p[1] \in 1 .. n /\ p[2] \in 1 .. n
    BY DEF Pairs
  <2>2. Min({a[p[1]], a[p[2]]}) \in 1 .. n
    <3>1. a[p[1]] \in 1 .. n /\ a[p[2]] \in 1 .. n
      BY <2>1 DEF Anns
    <3>2. Min({a[p[1]], a[p[2]]}) \in {a[p[1]], a[p[2]]}
      BY <3>1, MinOfTwo
    <3>. QED BY <3>1, <3>2
  <2>. QED BY <2>2 DEF Unite, Anns
<1>. DEFINE Rec(g, s) == IF s = {} THEN ann ELSE Unite(g[s \ {Pick(s)}], Pick(s)[1], Pick(s)[2])
            IsRec(g) == g = [s \in SUBSET pairs |-> Rec(g, s)]
            iter == CHOOSE g : IsRec(g)
<1>0. IsFold(UniteOf(n, pairs), ann, pairs, Anns(n))
  BY <1>1, <1>2 DEF IsFold
<1>3. PICK g : Folded(UniteOf(n, pairs), ann, pairs, Anns(n), g)
  BY <1>0, FoldExists
<1>10. g \in [SUBSET pairs -> Anns(n)]
  BY <1>3 DEF Folded
<1>4. \A h \in [SUBSET pairs -> Anns(n)], s \in SUBSET pairs :
        FoldStep(UniteOf(n, pairs), ann, h, s) = Rec(h, s)
  <2>. SUFFICES ASSUME NEW h \in [SUBSET pairs -> Anns(n)], NEW s \in SUBSET pairs, s # {}
                PROVE  UniteOf(n, pairs)[Pick(s)][h[s \ {Pick(s)}]]
                         = Unite(h[s \ {Pick(s)}], Pick(s)[1], Pick(s)[2])
    BY DEF FoldStep
  <2>1. Pick(s) \in pairs /\ h[s \ {Pick(s)}] \in Anns(n)
    BY PickIn
  <2>. QED BY <2>1 DEF UniteOf
<1>5. IsRec(g)
  BY <1>3, <1>4, <1>10 DEF Folded
<1>6. United(ann, pairs) = iter[pairs]
  BY DEF United, FoldSet, MapThenFoldSet, Pick
<1>7. IsRec(iter)
  BY <1>5
<1>8. \A s \in SUBSET pairs : iter[s] = Rec(iter, s)
  BY <1>7
<1>. HIDE DEF iter
<1>9. \A s \in SUBSET pairs : iter[s] = g[s]
  <2>1. iter[{}] = ann
    BY <1>8
  <2>2. ASSUME NEW s \in SUBSET pairs, s # {}, iter[s \ {Pick(s)}] \in Anns(n)
        PROVE  iter[s] = UniteOf(n, pairs)[Pick(s)][iter[s \ {Pick(s)}]]
    <3>1. Pick(s) \in pairs
      BY <2>2, PickIn
    <3>. QED BY <1>8, <2>2, <3>1 DEF UniteOf
  <2>3. TakesSteps(UniteOf(n, pairs), ann, pairs, Anns(n), iter)
    BY <2>1, <2>2 DEF TakesSteps
  <2>4. SameResults(pairs, g, iter)
    BY <1>0, <1>3, <2>3, FoldUnique
  <2>. QED BY <2>4 DEF SameResults
<1>. QED BY <1>5, <1>6, <1>9, <1>10 DEF UnitesOneByOne

\* If the pairs are equivalent, uniting all of them leaves the dimensions in a
\* set equivalent.
LEMMA UnitedRespects ==
  ASSUME NEW n \in Nat, NEW E, Equivalence(n, E), NEW ann \in Anns(n), Respects(n, ann, E),
         NEW pairs \in Pairs(n), pairs \subseteq E
  PROVE  United(ann, pairs) \in Anns(n) /\ Respects(n, United(ann, pairs), E)
<1>0. PICK g : UnitesOneByOne(n, pairs, ann, g) /\ United(ann, pairs) = g[pairs]
  BY UnitedFolds
<1>1. /\ g \in [SUBSET pairs -> Anns(n)]
      /\ g[{}] = ann
      /\ \A s \in SUBSET pairs : s # {} =>
           g[s] = Unite(g[s \ {Pick(s)}], Pick(s)[1], Pick(s)[2])
  BY <1>0 DEF UnitesOneByOne
<1>. DEFINE T == {s \in SUBSET pairs : Respects(n, g[s], E)}
<1>2. Inductive(pairs, T)
  <2>. SUFFICES ASSUME NEW s \in SUBSET pairs, s # {}, Respects(n, g[s \ {Pick(s)}], E)
                PROVE  Respects(n, g[s], E)
    BY <1>1 DEF Inductive
  <2>1. Pick(s) \in pairs
    BY PickIn
  <2>2. Pick(s) = <<Pick(s)[1], Pick(s)[2]>> /\ Pick(s)[1] \in 1 .. n /\ Pick(s)[2] \in 1 .. n
    BY <2>1 DEF Pairs
  <2>3. <<Pick(s)[1], Pick(s)[2]>> \in E
    BY <2>1, <2>2
  <2>4. g[s \ {Pick(s)}] \in Anns(n)
    BY <1>1
  <2>. QED BY <1>1, <2>2, <2>3, <2>4, UniteRespects
<1>3. IsFiniteSet(pairs)
  <2>1. IsFiniteSet(1 .. n)
    BY FS_Interval
  <2>2. IsFiniteSet((1 .. n) \X (1 .. n))
    BY <2>1, FS_Product
  <2>. QED BY <2>2, FS_Subset DEF Pairs
<1>4. pairs \in T
  <2>. HIDE DEF T
  <2>. QED BY <1>2, <1>3, SubsetInduction
<1>. QED BY <1>0, <1>1, <1>4

\* What the rules do: start without symmetry.
LEMMA RelatedRespects ==
  ASSUME NEW n \in Nat, NEW E, Equivalence(n, E), NEW pairs \in Pairs(n), pairs \subseteq E
  PROVE  /\ United(NotSymmetric(n), pairs) \in Anns(n)
         /\ Respects(n, United(NotSymmetric(n), pairs), E)
<1>1. NotSymmetric(n) \in Anns(n) /\ Respects(n, NotSymmetric(n), E)
  BY DEF NotSymmetric, Anns, Respects, Equivalence
<1>. QED BY <1>1, UnitedRespects

\* All dimensions are equivalent.
LEMMA AllEquivalent ==
  ASSUME NEW n \in Nat
  PROVE  Equivalence(n, (1 .. n) \X (1 .. n)) /\ \A ann \in Anns(n) : Respects(n, ann, (1 .. n) \X (1 .. n))
BY DEF Equivalence, Respects

\* Uniting dimensions yields an annotation.
LEMMA UnitedType ==
  ASSUME NEW n \in Nat, NEW ann \in Anns(n), NEW pairs \in Pairs(n) PROVE United(ann, pairs) \in Anns(n)
<1>1. pairs \subseteq (1 .. n) \X (1 .. n)
  BY DEF Pairs
<1>. QED BY <1>1, AllEquivalent, UnitedRespects

\* The length of an annotation.
LEMMA LenOfAnn == ASSUME NEW n \in Nat, NEW a \in Anns(n) PROVE Len(a) = n /\ DOMAIN a = 1 .. n
BY DEF Anns

\* Dimensions that are in a set of a and in one of b are equivalent.
BothRespect(n, a, b, E) == \A i, j \in 1 .. n : a[i] = a[j] /\ b[i] = b[j] => <<i, j>> \in E

\* Dimensions in a set of the meet are in a set of both.
LEMMA MeetRespects ==
  ASSUME NEW n \in Nat, NEW E, Equivalence(n, E), NEW a \in Anns(n), NEW b \in Anns(n),
         BothRespect(n, a, b, E)
  PROVE  Meet(a, b) \in Anns(n) /\ Respects(n, Meet(a, b), E)
<1>. DEFINE pairs == {p \in (1 .. n) \X (1 .. n) : p[2] < p[1] /\ a[p[1]] = a[p[2]] /\ b[p[1]] = b[p[2]]}
<1>1. Meet(a, b) = United(NotSymmetric(n), pairs)
  BY LenOfAnn DEF Meet, Related
<1>2. pairs \in Pairs(n) /\ pairs \subseteq E
  BY DEF Pairs, BothRespect
<1>. HIDE DEF pairs
<1>. QED BY <1>1, <1>2, RelatedRespects

-----------------------------------------------------------------------------
(* Permutations that move dimensions *)

\* A permutation that moves two dimensions exchanges them, and is its own inverse.
LEMMA MovesTwo ==
  ASSUME NEW n \in Nat, NEW p \in Perms(n), Cardinality(Moved(p)) = 2
  PROVE  \E a, b \in 1 .. n : a # b /\ p = Exchange(n, a, b) /\ Moved(p) = {a, b}
<1>0. Inverts(n, p)
  BY PermFacts
<1>1. p \in [1 .. n -> 1 .. n] /\ \A d, e \in 1 .. n : p[d] = p[e] => d = e
  BY <1>0 DEF Inverts
<1>2. Moved(p) \subseteq 1 .. n /\ IsFiniteSet(Moved(p))
  <2>1. IsFiniteSet(1 .. n)
    BY FS_Interval
  <2>2. Moved(p) \in SUBSET (1 .. n)
    BY <1>1 DEF Moved
  <2>. QED BY <2>1, <2>2, FS_Subset
<1>3. Moved(p) # {}
  BY FS_EmptySet
<1>4. PICK a \in Moved(p) : TRUE
  BY <1>3
<1>5. IsFiniteSet(Moved(p) \ {a}) /\ Cardinality(Moved(p) \ {a}) = 1
  BY <1>2, <1>4, FS_RemoveElement
<1>6. PICK b : Moved(p) \ {a} = {b}
  BY <1>5, FS_Singleton
<1>7. Moved(p) = {a, b} /\ a # b /\ a \in 1 .. n /\ b \in 1 .. n
  BY <1>2, <1>4, <1>6
<1>8. \A d \in 1 .. n : p[d] # d <=> d = a \/ d = b
  BY <1>1, <1>7 DEF Moved
<1>9. p[a] = b /\ p[b] = a
  <2>1. p[a] \in 1 .. n /\ p[b] \in 1 .. n
    BY <1>1, <1>7
  <2>2. p[p[a]] # p[a] /\ p[p[b]] # p[b]
    BY <1>1, <1>7, <1>8, <2>1
  <2>3. (p[a] = a \/ p[a] = b) /\ (p[b] = a \/ p[b] = b)
    BY <1>8, <2>1, <2>2
  <2>. QED BY <1>7, <1>8, <2>3
<1>10. p = Exchange(n, a, b)
  BY <1>1, <1>8, <1>9 DEF Exchange
<1>. QED BY <1>7, <1>10

\* The inverse is a permutation, which moves what the permutation moves.
LEMMA InverseFacts ==
  ASSUME NEW n \in Nat, NEW p \in Perms(n)
  PROVE  InversePerm(p) \in Perms(n) /\ Moved(InversePerm(p)) = Moved(p)
<1>1. Inverts(n, p)
  BY PermFacts
<1>2. InversePerm(p) \in Perms(n)
  BY <1>1 DEF Inverts, Perms
<1>. QED BY <1>1, <1>2 DEF Inverts, Moved

MovesInSets(n, ann, p) == \A d \in 1 .. n : ann[d] = ann[p[d]]

\* A transpose that moves dimensions within their sets is its operand.
LEMMA TransposeIsOperand ==
  ASSUME NEW t, IsTensor(t), NEW ann \in Anns(Rank(t)), Respects(Rank(t), ann, Swaps(t)),
         NEW p \in Perms(Rank(t)), MovesInSets(Rank(t), ann, p)
  PROVE  Transposed(t, p) = t
<1>. DEFINE n == Rank(t)
            q == InversePerm(p)
            u == Transposed(t, p)
<1>0. n \in Nat /\ Dim(t) = 1 .. n /\ n = Len(t.shape) /\ DOMAIN t.at = Index(t.shape)
  BY TensorParts DEF Dim
<1>1. Inverts(n, p) /\ q \in Perms(n) /\ Equivalence(n, Swaps(t))
  BY <1>0, PermFacts, InverseFacts, SwapsEquivalence
<1>2. \A d \in 1 .. n : <<d, p[d]>> \in Swaps(t) /\ p[d] \in 1 .. n
  BY <1>0, <1>1 DEF Respects, Inverts, MovesInSets
<1>3. MovesWithin(t, q)
  <2>1. ASSUME NEW d \in 1 .. n PROVE <<d, q[d]>> \in Swaps(t)
    <3>1. q[d] \in 1 .. n /\ p[q[d]] = d
      BY <1>1 DEF Inverts
    <3>2. <<q[d], d>> \in Swaps(t)
      BY <1>2, <3>1
    <3>. QED BY <1>1, <3>1, <3>2 DEF Equivalence
  <2>. QED BY <1>0, <1>1, <2>1 DEF MovesWithin
<1>4. KeepsValues(t, q)
  BY <1>3, WithinKeeps
<1>5. u = [shape |-> u.shape, at |-> u.at] /\ t = [shape |-> t.shape, at |-> t.at]
  BY TransposedIs DEF IsTensor
<1>6. u.shape = t.shape
  <2>1. u.shape \in [1 .. n -> Nat] /\ t.shape \in [1 .. n -> Nat]
    <3>1. Len(u.shape) = n /\ u.shape \in Seq(Nat) /\ t.shape \in Seq(Nat)
      BY TransposedIs, TensorParts DEF IsShape
    <3>. QED BY <1>0, <3>1, LenProperties
  <2>2. ASSUME NEW d \in 1 .. n PROVE u.shape[d] = t.shape[d]
    <3>1. u.shape[d] = t.shape[p[d]]
      BY <1>0, TransposedIs
    <3>2. <<d, p[d]>> \in Swaps(t)
      BY <1>2
    <3>. QED BY <3>1, <3>2 DEF Swaps, Swappable
  <2>3. u.shape = [d \in 1 .. n |-> u.shape[d]] /\ t.shape = [d \in 1 .. n |-> t.shape[d]]
    BY <2>1
  <2>. QED BY <2>2, <2>3, Zenon
<1>7. u.at = t.at
  <2>1. DOMAIN u.at = Index(t.shape)
    BY <1>6, TransposedIs, TensorParts
  <2>2. ASSUME NEW x \in Index(t.shape) PROVE u.at[x] = t.at[x]
    <3>1. u.at[x] = t.at[ReadAt(n, p, x)]
      BY <1>6, TransposedIs
    <3>2. ReadAt(n, p, x) = Moving(n, q, x)
      BY DEF ReadAt, Moving
    <3>. QED BY <1>4, <3>1, <3>2 DEF KeepsValues
  <2>3. u.at \in [Index(t.shape) -> Int] /\ t.at \in [Index(t.shape) -> Int]
    BY <1>6, TransposedIs, TensorParts
  <2>. QED BY <2>2, <2>3
<1>. QED BY <1>5, <1>6, <1>7

-----------------------------------------------------------------------------
(* Programs *)

AllTensors == UNION {[shape : {s}, at : [Index(s) -> Int]] : s \in Seq(Nat)}

PlainOps == {"argument", "constant", "broadcast", "negate", "add", "subtract", "dot"}

Records ==
  [op : PlainOps \union {"transpose"}, operands : Seq(Nat), perm : Seq(Nat),
   tensor : AllTensors, ann : Seq(Nat), exact : BOOLEAN]

\* A transpose keeps its operand and permutation.
TransposeFits(vals, operands, perm, tensor, exact) ==
  /\ 1 \in DOMAIN operands
  /\ LET o == vals[operands[1]]
     IN  /\ perm \in Perms(Rank(o.tensor)) /\ tensor = Transposed(o.tensor, perm)
         /\ exact = o.exact

\* What is known of x, a value computed from those in vals.
ValueFits(vals, x) ==
  /\ IsTensor(x.tensor) /\ x.ann \in Anns(Rank(x.tensor))
  /\ \A k \in DOMAIN x.operands : x.operands[k] \in 1 .. Len(vals)
  /\ x.op = "transpose" => TransposeFits(vals, x.operands, x.perm, x.tensor, x.exact)
  /\ x.exact => Respects(Rank(x.tensor), x.ann, Swaps(x.tensor))

\* A value and what stands for it are both computed exactly or not, and are equal
\* if so.
StandsFor(vals, v, o) ==
  /\ vals[o].exact = vals[v].exact
  /\ vals[v].exact => vals[o].tensor = vals[v].tensor

\* The inductive invariant.
SymmetryInv ==
  /\ values \in Seq(Records)
  /\ \A v \in Value : ValueFits(values, values[v])
  /\ DOMAIN simplified \subseteq Value
  /\ \A v \in DOMAIN simplified : simplified[v] \in Value /\ StandsFor(values, v, simplified[v])

\* What a rule says of the tensor an operation computes is right, where the rule
\* is exact and the operands are.
RuleFits(operands, tensor, rule, exact) ==
  /\ operands \in Seq(Value) /\ exact \in BOOLEAN
  /\ IsTensor(tensor) /\ rule \in Anns(Rank(tensor))
  /\ exact /\ (\A k \in DOMAIN operands : values[operands[k]].exact)
       => Respects(Rank(tensor), rule, Swaps(tensor))

\* What an operation pushes fits.
PushFits(op, operands, perm, tensor, rule, exact) ==
  /\ op \in PlainOps \union {"transpose"} /\ perm \in Seq(Nat)
  /\ RuleFits(operands, tensor, rule, exact)
  /\ op = "transpose" =>
       /\ TransposeFits(values, operands, perm, tensor, exact /\ values[operands[1]].exact)
       /\ Len(operands) = 1

\* The members of AllTensors.
LEMMA TensorInAll == ASSUME NEW t, IsTensor(t) PROVE t \in AllTensors
BY DEF IsTensor, IsShape, AllTensors

\* The annotation that is stored is that of the rule.
LEMMA StoredAnn ==
  ASSUME NEW n \in Nat, NEW rule \in Anns(n)
  PROVE  /\ Meet(FullySymmetric(n), rule) \in Anns(n)
         /\ \A E : Equivalence(n, E) /\ Respects(n, rule, E) => Respects(n, Meet(FullySymmetric(n), rule), E)
<1>1. FullySymmetric(n) \in Anns(n)
  BY DEF FullySymmetric, Anns
<1>2. ASSUME NEW E, Equivalence(n, E), Respects(n, rule, E)
      PROVE  Meet(FullySymmetric(n), rule) \in Anns(n) /\ Respects(n, Meet(FullySymmetric(n), rule), E)
  <2>1. BothRespect(n, FullySymmetric(n), rule, E)
    BY <1>2 DEF BothRespect, Respects
  <2>. QED BY <1>1, <1>2, <2>1, MeetRespects
<1>. QED BY <1>2, AllEquivalent

\* A value fits a longer program as well.
LEMMA FitsLonger ==
  ASSUME NEW vals, NEW more, Len(vals) \in Nat, Len(more) \in Nat, Len(vals) <= Len(more),
         \A v \in 1 .. Len(vals) : more[v] = vals[v],
         NEW x, ValueFits(vals, x)
  PROVE  ValueFits(more, x)
<1>1. \A k \in DOMAIN x.operands : x.operands[k] \in 1 .. Len(more) /\ more[x.operands[k]] = vals[x.operands[k]]
  BY DEF ValueFits
<1>2. TransposeFits(vals, x.operands, x.perm, x.tensor, x.exact)
        => TransposeFits(more, x.operands, x.perm, x.tensor, x.exact)
  BY <1>1 DEF TransposeFits
<1>. QED BY <1>1, <1>2 DEF ValueFits

\* Every operation keeps the invariant if what it pushes fits.
LEMMA PushKeeps ==
  ASSUME SymmetryInv, NEW op, NEW operands, NEW perm, NEW tensor, NEW rule, NEW exact,
         PushFits(op, operands, perm, tensor, rule, exact),
         Push(op, operands, perm, tensor, rule, exact)
  PROVE  SymmetryInv'
<1>. DEFINE n == Rank(tensor)
            ann == Meet(FullySymmetric(n), rule)
            all == exact /\ \A k \in DOMAIN operands : values[operands[k]].exact
            x == [op |-> op, operands |-> operands, perm |-> perm, tensor |-> tensor,
                  ann |-> ann, exact |-> all]
<1>1. values \in Seq(Records) /\ Len(values) \in Nat
  BY LenProperties DEF SymmetryInv
<1>2. values' = Append(values, x) /\ simplified' = simplified
  BY DEF Push
<1>3. n \in Nat /\ ann \in Anns(n) /\ (all => Respects(n, ann, Swaps(tensor)))
  <2>1. n \in Nat /\ rule \in Anns(n) /\ Equivalence(n, Swaps(tensor))
    BY TensorParts, SwapsEquivalence DEF PushFits, RuleFits
  <2>. QED BY <2>1, StoredAnn DEF PushFits, RuleFits
<1>4. operands \in Seq(Nat) /\ \A k \in DOMAIN operands : operands[k] \in Value
  <2>1. operands \in Seq(Value)
    BY DEF PushFits, RuleFits
  <2>2. Value \subseteq Nat
    BY DEF Value
  <2>. QED BY <2>1, <2>2, SeqMonotonic, LenProperties
<1>. HIDE DEF ann
<1>5. x \in Records
  <2>1. ann \in Seq(Nat)
    BY <1>3 DEF Anns
  <2>2. tensor \in AllTensors
    BY TensorInAll DEF PushFits, RuleFits
  <2>3. op \in PlainOps \union {"transpose"} /\ perm \in Seq(Nat) /\ all \in BOOLEAN
    BY DEF PushFits, RuleFits
  <2>. QED BY <1>4, <2>1, <2>2, <2>3 DEF Records
<1>6. ValueFits(values, x)
  <2>1. op = "transpose" => TransposeFits(values, operands, perm, tensor, all)
    <3>. SUFFICES ASSUME op = "transpose" PROVE TransposeFits(values, operands, perm, tensor, all)
      OBVIOUS
    <3>1. /\ TransposeFits(values, operands, perm, tensor, exact /\ values[operands[1]].exact)
          /\ DOMAIN operands = {1}
      BY LenProperties DEF PushFits, RuleFits
    <3>2. all = (exact /\ values[operands[1]].exact)
      BY <3>1
    <3>. QED BY <3>1, <3>2
  <2>2. IsTensor(tensor)
    BY DEF PushFits, RuleFits
  <2>. HIDE DEF n, all
  <2>. QED BY <1>3, <1>4, <2>1, <2>2 DEF ValueFits, Value, n
<1>. HIDE DEF x
<1>7. /\ values' \in Seq(Records) /\ Len(values') = Len(values) + 1
      /\ \A v \in 1 .. Len(values) : values'[v] = values[v]
      /\ values'[Len(values) + 1] = x
  BY <1>1, <1>2, <1>5
<1>8. ASSUME NEW v \in 1 .. Len(values') PROVE ValueFits(values', values'[v])
  <2>1. ValueFits(values, values'[v])
    <3>1. v = Len(values) + 1 \/ v \in Value
      BY <1>1, <1>7 DEF Value
    <3>. QED BY <1>6, <1>7, <3>1 DEF SymmetryInv, Value
  <2>. HIDE DEF SymmetryInv
  <2>. QED BY <1>1, <1>7, <2>1, FitsLonger
<1>9. DOMAIN simplified' \subseteq 1 .. Len(values')
  BY <1>1, <1>2, <1>7 DEF SymmetryInv, Value
<1>10. ASSUME NEW v \in DOMAIN simplified'
       PROVE  simplified'[v] \in 1 .. Len(values') /\ StandsFor(values', v, simplified'[v])
  <2>1. v \in Value /\ simplified[v] \in Value /\ StandsFor(values, v, simplified[v])
    BY <1>2 DEF SymmetryInv
  <2>. QED BY <1>1, <1>2, <1>7, <2>1 DEF StandsFor, Value
<1>. QED BY <1>7, <1>8, <1>9, <1>10 DEF SymmetryInv, Value


-----------------------------------------------------------------------------
(* The operations *)

\* An operation without a permutation.
LEMMA PlainKeeps ==
  ASSUME SymmetryInv, NEW op \in PlainOps,
         NEW operands, NEW tensor, NEW rule, NEW exact, RuleFits(operands, tensor, rule, exact),
         Push(op, operands, <<>>, tensor, rule, exact)
  PROVE  SymmetryInv'
<1>1. op \in PlainOps \union {"transpose"} /\ op # "transpose"
  BY DEF PlainOps
<1>2. <<>> \in Seq(Nat)
  OBVIOUS
<1>3. PushFits(op, operands, <<>>, tensor, rule, exact)
  BY <1>1, <1>2, Zenon DEF PushFits
<1>. QED BY <1>3, PushKeeps

\* An operation with one operand.
LEMMA FitsOne ==
  ASSUME NEW v \in Value, NEW tensor, IsTensor(tensor), NEW rule \in Anns(Rank(tensor)),
         NEW exact \in BOOLEAN,
         exact /\ values[v].exact => Respects(Rank(tensor), rule, Swaps(tensor))
  PROVE  RuleFits(<<v>>, tensor, rule, exact)
<1>. DEFINE s == <<v>>
<1>1. s \in Seq(Value) /\ DOMAIN s = {1} /\ s[1] = v
  OBVIOUS
<1>. HIDE DEF s
<1>2. (\A k \in DOMAIN s : values[s[k]].exact) => values[v].exact
  BY <1>1, Zenon
<1>3. RuleFits(s, tensor, rule, exact)
  BY <1>1, <1>2, Zenon DEF RuleFits
<1>. QED BY <1>3 DEF s

\* An operation with two operands.
LEMMA FitsTwo ==
  ASSUME NEW v \in Value, NEW w \in Value, NEW tensor, IsTensor(tensor),
         NEW rule \in Anns(Rank(tensor)), NEW exact \in BOOLEAN,
         exact /\ values[v].exact /\ values[w].exact => Respects(Rank(tensor), rule, Swaps(tensor))
  PROVE  RuleFits(<<v, w>>, tensor, rule, exact)
<1>. DEFINE s == <<v, w>>
<1>1. s \in Seq(Value) /\ DOMAIN s = {1, 2} /\ s[1] = v /\ s[2] = w
  OBVIOUS
<1>. HIDE DEF s
<1>2. (\A k \in DOMAIN s : values[s[k]].exact) => values[v].exact /\ values[w].exact
  BY <1>1
<1>3. RuleFits(s, tensor, rule, exact)
  BY <1>1, <1>2, Zenon DEF RuleFits
<1>. QED BY <1>3 DEF s

\* What is known of a value.
LEMMA ValueIs ==
  ASSUME SymmetryInv, NEW v \in Value
  PROVE  LET x == values[v]
             n == Rank(x.tensor)
         IN  /\ IsTensor(x.tensor) /\ n \in Nat /\ Dim(x.tensor) = 1 .. n
             /\ x.ann \in Anns(n) /\ Len(x.ann) = n /\ DOMAIN x.ann = 1 .. n
             /\ x.exact \in BOOLEAN /\ (x.exact => Respects(n, x.ann, Swaps(x.tensor)))
             /\ Equivalence(n, Swaps(x.tensor))
<1>. DEFINE x == values[v]
            n == Rank(x.tensor)
<1>1. ValueFits(values, x)
  BY DEF SymmetryInv
<1>2. IsTensor(x.tensor) /\ x.ann \in Anns(n) /\ (x.exact => Respects(n, x.ann, Swaps(x.tensor)))
  BY <1>1 DEF ValueFits
<1>3. n \in Nat /\ Dim(x.tensor) = 1 .. n /\ Equivalence(n, Swaps(x.tensor))
  BY <1>2, TensorParts, SwapsEquivalence DEF Dim
<1>4. x.exact \in BOOLEAN
  <2>1. x \in Records
    BY DEF SymmetryInv, Value
  <2>. QED BY <2>1 DEF Records
<1>. HIDE DEF x, n
<1>5. Len(x.ann) = n /\ DOMAIN x.ann = 1 .. n
  BY <1>2, <1>3, LenOfAnn
<1>. QED BY <1>2, <1>3, <1>4, <1>5 DEF x, n

\* A rule that unites pairs is right when the pairs may be swapped.
LEMMA RuleRespects ==
  ASSUME NEW n \in Nat, NEW E, Equivalence(n, E), NEW pairs \in Pairs(n), NEW right \in BOOLEAN,
         right => pairs \subseteq E
  PROVE  /\ United(NotSymmetric(n), pairs) \in Anns(n)
         /\ right => Respects(n, United(NotSymmetric(n), pairs), E)
<1>1. NotSymmetric(n) \in Anns(n)
  BY DEF NotSymmetric, Anns
<1>. QED BY <1>1, UnitedType, RelatedRespects

\* The check of a constant is right.
LEMMA CheckConstantRight ==
  ASSUME NEW t, IsTensor(t)
  PROVE  CheckConstant(t) \in Anns(Rank(t)) /\ Respects(Rank(t), CheckConstant(t), Swaps(t))
<1>. DEFINE n == Rank(t)
            pairs == {p \in (1 .. n) \X (1 .. n) : p[2] < p[1] /\ Swappable(t, p[1], p[2])}
<1>1. CheckConstant(t) = United(NotSymmetric(n), pairs)
  BY DEF CheckConstant, Related
<1>2. n \in Nat /\ Dim(t) = 1 .. n /\ Equivalence(n, Swaps(t))
  BY TensorParts, SwapsEquivalence DEF Dim
<1>3. pairs \in Pairs(n) /\ pairs \subseteq Swaps(t)
  BY <1>2 DEF Pairs, Swaps
<1>. HIDE DEF pairs, n
<1>. QED BY <1>1, <1>2, <1>3, RelatedRespects DEF n

\* No symmetry is always right.
LEMMA NotSymmetricRight ==
  ASSUME NEW n \in Nat, NEW E, Equivalence(n, E)
  PROVE  NotSymmetric(n) \in Anns(n) /\ Respects(n, NotSymmetric(n), E)
BY DEF NotSymmetric, Anns, Respects, Equivalence

\* Arguments and constants.
LEMMA InputKeeps ==
  ASSUME SymmetryInv, Argument \/ Constant PROVE SymmetryInv'
<1>1. PICK t \in Inputs : \E op \in {"argument", "constant"}, rule \in {NotSymmetric(Rank(t)), CheckConstant(t)} :
        Push(op, <<>>, <<>>, t, rule, TRUE)
  BY DEF Argument, Constant
<1>2. PICK op \in {"argument", "constant"}, rule \in {NotSymmetric(Rank(t)), CheckConstant(t)} :
        Push(op, <<>>, <<>>, t, rule, TRUE)
  BY <1>1
<1>3. IsTensor(t)
  BY InputsAssumption
<1>4. Rank(t) \in Nat /\ Equivalence(Rank(t), Swaps(t))
  BY <1>3, TensorParts, SwapsEquivalence
<1>5. rule \in Anns(Rank(t)) /\ Respects(Rank(t), rule, Swaps(t))
  BY <1>3, <1>4, CheckConstantRight, NotSymmetricRight
<1>6. RuleFits(<<>>, t, rule, TRUE)
  <2>1. <<>> \in Seq(Value)
    OBVIOUS
  <2>. QED BY ONLY <1>3, <1>5, <2>1, Zenon DEF RuleFits
<1>7. op \in PlainOps
  BY DEF PlainOps
<1>. QED BY <1>2, <1>6, <1>7, PlainKeeps

\* transpose.
LEMMA TransposeKeeps == ASSUME SymmetryInv, Transpose PROVE SymmetryInv'
<1>1. PICK v \in Value : \E p \in Perms(Rank(values[v].tensor)) :
        Push("transpose", <<v>>, p, Transposed(values[v].tensor, p), PropagateTranspose(values[v].ann, p), TRUE)
  BY DEF Transpose
<1>. DEFINE t == values[v].tensor
            ann == values[v].ann
            n == Rank(t)
<1>2. PICK p \in Perms(n) : Push("transpose", <<v>>, p, Transposed(t, p), PropagateTranspose(ann, p), TRUE)
  BY <1>1
<1>. DEFINE u == Transposed(t, p)
            exact == values[v].exact
            pairs == {q \in (1 .. n) \X (1 .. n) : q[2] < q[1] /\ ann[p[q[1]]] = ann[p[q[2]]]}
<1>3. /\ IsTensor(t) /\ n \in Nat /\ Dim(t) = 1 .. n /\ ann \in Anns(n) /\ Len(ann) = n
      /\ exact \in BOOLEAN /\ (exact => Respects(n, ann, Swaps(t)))
  BY ValueIs
<1>4. IsTensor(u) /\ Rank(u) = n /\ Equivalence(n, Swaps(u)) /\ Inverts(n, p)
  <2>1. IsTensor(u) /\ Rank(u) = n
    BY <1>3, TransposedIs
  <2>. QED BY <1>3, <2>1, SwapsEquivalence, PermFacts
<1>5. PropagateTranspose(ann, p) = United(NotSymmetric(n), pairs)
  BY <1>3 DEF PropagateTranspose, Related
<1>6. pairs \in Pairs(n)
  BY DEF Pairs
<1>7. exact => pairs \subseteq Swaps(u)
  <2>. SUFFICES ASSUME exact, NEW i \in 1 .. n, NEW j \in 1 .. n, ann[p[i]] = ann[p[j]]
                PROVE  <<i, j>> \in Swaps(u)
    OBVIOUS
  <2>1. p[i] \in 1 .. n /\ p[j] \in 1 .. n
    BY <1>4 DEF Inverts
  <2>2. <<p[i], p[j]>> \in Swaps(t)
    BY <1>3, <2>1 DEF Respects
  <2>. QED BY <1>3, <2>2, TransposeRule
<1>8. PropagateTranspose(ann, p) \in Anns(n) /\ (exact => Respects(n, PropagateTranspose(ann, p), Swaps(u)))
  <2>. HIDE DEF pairs, n, u, exact, ann, t
  <2>. QED BY <1>3, <1>4, <1>5, <1>6, <1>7, RuleRespects
<1>9. TransposeFits(values, <<v>>, p, u, TRUE /\ exact)
  BY <1>3 DEF TransposeFits
<1>10. RuleFits(<<v>>, u, PropagateTranspose(ann, p), TRUE)
  <2>. HIDE DEF u
  <2>. QED BY <1>3, <1>4, <1>8, FitsOne
<1>11. PushFits("transpose", <<v>>, p, u, PropagateTranspose(ann, p), TRUE)
  <2>1. p \in Seq(Nat) /\ Len(<<v>>) = 1 /\ "transpose" \in PlainOps \union {"transpose"} /\ <<v>>[1] = v
    <3>1. p \in [1 .. n -> 1 .. n]
      BY <1>4 DEF Inverts
    <3>2. p \in Seq(Nat)
      BY <1>3, <3>1
    <3>. QED BY <3>2
  <2>. HIDE DEF u
  <2>. QED BY <1>9, <1>10, <2>1, Zenon DEF PushFits
<1>. QED BY <1>2, <1>11, PushKeeps

\* negate.
LEMMA NegateKeeps == ASSUME SymmetryInv, Negate PROVE SymmetryInv'
<1>1. PICK v \in Value : Push("negate", <<v>>, <<>>, Negated(values[v].tensor), values[v].ann, TRUE)
  BY DEF Negate
<1>. DEFINE t == values[v].tensor
            ann == values[v].ann
            u == Negated(t)
<1>2. /\ IsTensor(t) /\ ann \in Anns(Rank(t)) /\ values[v].exact \in BOOLEAN
      /\ (values[v].exact => Respects(Rank(t), ann, Swaps(t)))
  BY ValueIs
<1>3. IsTensor(u) /\ Rank(u) = Rank(t) /\ Swaps(t) \subseteq Swaps(u)
  BY <1>2, NegateRule
<1>4. values[v].exact => Respects(Rank(u), ann, Swaps(u))
  BY <1>2, <1>3 DEF Respects
<1>5. RuleFits(<<v>>, u, ann, TRUE)
  <2>. HIDE DEF u
  <2>. QED BY <1>2, <1>3, <1>4, FitsOne
<1>6. "negate" \in PlainOps
  BY DEF PlainOps
<1>. QED BY <1>1, <1>5, <1>6, PlainKeeps

\* subtract has no rule, and what is said of it is not exact.
LEMMA SubtractKeeps == ASSUME SymmetryInv, Subtract PROVE SymmetryInv'
<1>1. PICK l \in Value, r \in Value :
        /\ values[l].tensor.shape = values[r].tensor.shape
        /\ Push("subtract", <<l, r>>, <<>>, Subtracted(values[l].tensor, values[r].tensor),
                FullySymmetric(Rank(values[l].tensor)), FALSE)
  BY DEF Subtract, SameShape
<1>. DEFINE s == values[l].tensor
            t == values[r].tensor
            u == Subtracted(s, t)
            f == [x \in Index(s.shape) |-> s.at[x] - t.at[x]]
<1>2. IsTensor(s) /\ IsTensor(t) /\ s.shape = t.shape /\ Rank(s) \in Nat
  BY <1>1, ValueIs
<1>3. u = [shape |-> s.shape, at |-> f]
  BY DEF Subtracted, Tensor
<1>4. f \in [Index(s.shape) -> Int]
  BY <1>2, TensorParts
<1>5. IsTensor(u) /\ Rank(u) = Rank(s)
  BY <1>2, <1>3, <1>4, TensorParts, TensorIs
<1>6. FullySymmetric(Rank(s)) \in Anns(Rank(u))
  BY <1>2, <1>5 DEF FullySymmetric, Anns
<1>7. RuleFits(<<l, r>>, u, FullySymmetric(Rank(s)), FALSE)
  <2>. HIDE DEF u
  <2>. QED BY <1>5, <1>6, FitsTwo
<1>8. "subtract" \in PlainOps
  BY DEF PlainOps
<1>. QED BY <1>1, <1>7, <1>8, PlainKeeps

AddedDims(n, dims) == (1 .. n) \ Members(dims)
WiderShape(t, n, dims, widths) ==
  [d \in 1 .. n |-> IF d \in AddedDims(n, dims) THEN widths[d] ELSE t.shape[CHOOSE k \in Dim(t) : dims[k] = d]]
OneWidth(t, n, dims, widths) ==
  \A d, e \in AddedDims(n, dims) : WiderShape(t, n, dims, widths)[d] = WiderShape(t, n, dims, widths)[e]

\* The shape of a broadcast.
LEMMA WiderSpreads ==
  ASSUME NEW t, IsTensor(t), NEW n \in Nat, NEW dims \in [Dim(t) -> 1 .. n], NEW widths \in [1 .. n -> Widths],
         \A j, k \in Dim(t) : j # k => dims[j] # dims[k]
  PROVE  Spreads(t, WiderShape(t, n, dims, widths), dims) /\ Len(WiderShape(t, n, dims, widths)) = n
<1>. DEFINE shape == WiderShape(t, n, dims, widths)
<1>1. ASSUME NEW d \in 1 .. n, d \notin AddedDims(n, dims)
      PROVE  (CHOOSE k \in Dim(t) : dims[k] = d) \in Dim(t) /\ dims[CHOOSE k \in Dim(t) : dims[k] = d] = d
  BY <1>1 DEF AddedDims, Members
<1>2. \A d \in 1 .. n : shape[d] \in Nat
  BY <1>1, WidthsAssumption, TensorParts DEF WiderShape
<1>3. shape \in [1 .. n -> Nat]
  BY <1>2 DEF WiderShape
<1>4. IsShape(shape) /\ Len(shape) = n
  BY <1>3 DEF IsShape
<1>5. ASSUME NEW k \in Dim(t) PROVE shape[dims[k]] = t.shape[k]
  <2>1. dims[k] \in 1 .. n /\ dims[k] \notin AddedDims(n, dims)
    BY DEF AddedDims, Members
  <2>2. (CHOOSE j \in Dim(t) : dims[j] = dims[k]) = k
    BY <1>1, <2>1
  <2>. QED BY <2>1, <2>2 DEF WiderShape
<1>. HIDE DEF shape
<1>. QED BY <1>4, <1>5 DEF Spreads, shape

\* broadcast_in_dim.
LEMMA BroadcastKeeps == ASSUME SymmetryInv, Broadcast PROVE SymmetryInv'
<1>1. PICK v \in Value, extra \in 1 .. 2 :
        LET t == values[v].tensor
            n == Rank(t) + extra
        IN  n <= MaxRank /\ \E dims \in [Dim(t) -> 1 .. n], widths \in [1 .. n -> Widths] :
              LET new == (1 .. n) \ Members(dims)
                  shape == [d \in 1 .. n |-> IF d \in new THEN widths[d]
                                             ELSE t.shape[CHOOSE k \in Dim(t) : dims[k] = d]]
              IN  /\ \A j, k \in Dim(t) : j # k => dims[j] # dims[k]
                  /\ \A d \in 1 .. n : d \notin new => widths[d] = CHOOSE w \in Widths : TRUE
                  /\ Push("broadcast", <<v>>, <<>>, Broadcasted(t, shape, dims),
                          PropagateBroadcast(values[v].ann, n, dims),
                          \A d, e \in new : shape[d] = shape[e])
  BY Zenon DEF Broadcast
<1>. DEFINE t == values[v].tensor
            ann == values[v].ann
            n == Rank(t) + extra
<1>2. PICK dims \in [Dim(t) -> 1 .. n], widths \in [1 .. n -> Widths] :
        /\ \A j, k \in Dim(t) : j # k => dims[j] # dims[k]
        /\ Push("broadcast", <<v>>, <<>>, Broadcasted(t, WiderShape(t, n, dims, widths), dims),
                PropagateBroadcast(ann, n, dims), OneWidth(t, n, dims, widths))
  BY <1>1, Zenon DEF WiderShape, OneWidth, AddedDims
<1>. DEFINE shape == WiderShape(t, n, dims, widths)
            u == Broadcasted(t, shape, dims)
            exact == OneWidth(t, n, dims, widths)
            kept == Members(dims)
            input(d) == CHOOSE k \in DOMAIN dims : dims[k] = d
            same(i, j) == IF i \in kept /\ j \in kept THEN ann[input(i)] = ann[input(j)]
                          ELSE i \notin kept /\ j \notin kept
            pairs == {q \in (1 .. n) \X (1 .. n) : q[2] < q[1] /\ same(q[1], q[2])}
<1>3. /\ IsTensor(t) /\ Rank(t) \in Nat /\ n \in Nat /\ ann \in Anns(Rank(t)) /\ Dim(t) = 1 .. Rank(t)
      /\ values[v].exact \in BOOLEAN /\ (values[v].exact => Respects(Rank(t), ann, Swaps(t)))
  BY ValueIs
<1>4. Spreads(t, shape, dims) /\ Len(shape) = n
  BY <1>2, <1>3, WiderSpreads
<1>5. exact \in BOOLEAN
  BY DEF OneWidth
<1>6. IsTensor(u) /\ Rank(u) = n /\ Equivalence(n, Swaps(u))
  <2>1. IsTensor(u) /\ Rank(u) = n
    BY <1>3, <1>4, BroadcastedIs
  <2>. QED BY <2>1, SwapsEquivalence
<1>7. PropagateBroadcast(ann, n, dims) = United(NotSymmetric(n), pairs)
  BY DEF PropagateBroadcast, Related
<1>8. pairs \in Pairs(n)
  BY DEF Pairs
<1>9. ASSUME exact /\ values[v].exact, NEW i \in 1 .. n, NEW j \in 1 .. n, same(i, j)
      PROVE  <<i, j>> \in Swaps(u)
  <2>1. CASE i \in kept /\ j \in kept
    <3>. DEFINE a == input(i)
                b == input(j)
    <3>1. a \in Dim(t) /\ dims[a] = i /\ b \in Dim(t) /\ dims[b] = j
      BY <2>1 DEF Members
    <3>2. ann[a] = ann[b]
      BY <1>9, <2>1
    <3>. HIDE DEF a, b
    <3>3. <<a, b>> \in Swaps(t)
      BY <1>3, <1>9, <3>1, <3>2 DEF Respects
    <3>. HIDE DEF u
    <3>4. <<dims[a], dims[b]>> \in Swaps(Broadcasted(t, shape, dims))
      BY <1>3, <1>4, <3>1, <3>3, BroadcastKept
    <3>. QED BY <3>1, <3>4 DEF u
  <2>2. CASE ~ (i \in kept /\ j \in kept)
    <3>1. i \notin kept /\ j \notin kept
      BY <1>9, <2>2
    <3>2. shape[i] = shape[j]
      BY <1>9, <3>1 DEF OneWidth, AddedDims
    <3>3. \A k \in Dim(t) : dims[k] # i /\ dims[k] # j
      BY <3>1 DEF Members
    <3>. HIDE DEF shape
    <3>. QED BY <1>3, <1>4, <3>2, <3>3, BroadcastAdded
  <2>. QED BY <2>1, <2>2
<1>10. exact /\ values[v].exact => pairs \subseteq Swaps(u)
  <2>. SUFFICES ASSUME exact /\ values[v].exact, NEW q \in pairs PROVE q \in Swaps(u)
    OBVIOUS
  <2>1. q = <<q[1], q[2]>> /\ q[1] \in 1 .. n /\ q[2] \in 1 .. n /\ same(q[1], q[2])
    OBVIOUS
  <2>. HIDE DEF same, u, exact, pairs
  <2>2. <<q[1], q[2]>> \in Swaps(u)
    BY <1>9, <2>1
  <2>. QED BY <2>1, <2>2
<1>11. /\ PropagateBroadcast(ann, n, dims) \in Anns(n)
       /\ exact /\ values[v].exact => Respects(n, PropagateBroadcast(ann, n, dims), Swaps(u))
  <2>. HIDE DEF pairs, n, u, exact, ann, t
  <2>1. (exact /\ values[v].exact) \in BOOLEAN
    BY <1>3, <1>5
  <2>. QED BY <1>3, <1>6, <1>7, <1>8, <1>10, <2>1, RuleRespects
<1>12. RuleFits(<<v>>, u, PropagateBroadcast(ann, n, dims), exact)
  <2>. HIDE DEF u, n, exact
  <2>. QED BY <1>5, <1>6, <1>11, FitsOne
<1>13. "broadcast" \in PlainOps
  BY DEF PlainOps
<1>. HIDE DEF u, n, exact
<1>. QED BY <1>2, <1>12, <1>13, PlainKeeps DEF u, n, exact

\* The right operand is the left one, or one is a transpose of the other, as q says.
Alias(s, t, q) ==
  /\ Rank(t) = Rank(s) /\ q \in Perms(Rank(s))
  /\ \/ t = s /\ q = [d \in Dim(s) |-> d]
     \/ s = Transposed(t, q)
     \/ \E p \in Perms(Rank(s)) : q = InversePerm(p) /\ t = Transposed(s, p)

\* What RhsDimToLhs finds.
LEMMA AliasFound ==
  ASSUME SymmetryInv, NEW l \in Value, NEW r \in Value, RhsDimToLhs(l, r) # NoAlias
  PROVE  Alias(values[l].tensor, values[r].tensor, RhsDimToLhs(l, r))
<1>. DEFINE s == values[l].tensor
            t == values[r].tensor
            q == RhsDimToLhs(l, r)
<1>1. /\ IsTensor(s) /\ Rank(s) \in Nat /\ Dim(s) = 1 .. Rank(s)
      /\ IsTensor(t) /\ Rank(t) \in Nat /\ Dim(t) = 1 .. Rank(t)
  BY ValueIs
<1>2. ASSUME NEW v \in Value, values[v].op = "transpose", NEW w \in Value, values[v].operands[1] = w
      PROVE  values[v].perm \in Perms(Rank(values[w].tensor))
             /\ values[v].tensor = Transposed(values[w].tensor, values[v].perm)
  <2>1. ValueFits(values, values[v])
    BY DEF SymmetryInv
  <2>2. TransposeFits(values, values[v].operands, values[v].perm, values[v].tensor, values[v].exact)
    BY <1>2, <2>1 DEF ValueFits
  <2>. QED BY <1>2, <2>2 DEF TransposeFits
<1>3. CASE l = r
  <2>1. q = [d \in Dim(s) |-> d] /\ t = s
    BY <1>3 DEF RhsDimToLhs
  <2>2. q \in Perms(Rank(s))
    BY <1>1, <2>1 DEF Perms
  <2>. HIDE DEF q, s, t
  <2>. QED BY <2>1, <2>2 DEF Alias, q, s, t
<1>4. CASE l # r /\ values[l].op = "transpose" /\ values[l].operands[1] = r
  <2>1. q = values[l].perm
    BY <1>4 DEF RhsDimToLhs
  <2>2. q \in Perms(Rank(t)) /\ s = Transposed(t, q)
    BY <1>2, <1>4, <2>1
  <2>3. Rank(s) = Rank(t)
    <3>. HIDE DEF q, s, t
    <3>. QED BY <1>1, <2>2, TransposedIs
  <2>. HIDE DEF q, s, t
  <2>. QED BY <2>2, <2>3 DEF Alias, q, s, t
<1>5. CASE ~ (l = r) /\ ~ (values[l].op = "transpose" /\ values[l].operands[1] = r)
  <2>1. values[r].op = "transpose" /\ values[r].operands[1] = l /\ q = InversePerm(values[r].perm)
    BY <1>5 DEF RhsDimToLhs
  <2>. DEFINE p == values[r].perm
  <2>2. p \in Perms(Rank(s)) /\ t = Transposed(s, p)
    BY <1>2, <2>1
  <2>3. Rank(t) = Rank(s) /\ InversePerm(p) \in Perms(Rank(s))
    <3>. HIDE DEF p, s, t
    <3>. QED BY <1>1, <2>2, TransposedIs, InverseFacts
  <2>4. q = InversePerm(p)
    BY <2>1
  <2>. HIDE DEF q, s, t, p
  <2>. QED BY <2>2, <2>3, <2>4 DEF Alias, q, s, t
<1>. QED BY <1>3, <1>4, <1>5

\* The pairs that are united for x + transpose(x).
MovedPairs(q) == {<<d, q[d]>> : d \in Moved(q)}

\* They may be swapped.
LEMMA MovedPairsRight ==
  ASSUME NEW s, IsTensor(s), NEW t, IsTensor(t), s.shape = t.shape,
         NEW q, Alias(s, t, q), Cardinality(Moved(q)) = 2
  PROVE  MovedPairs(q) \in Pairs(Rank(s)) /\ MovedPairs(q) \subseteq Swaps(Added(s, t))
<1>. DEFINE n == Rank(s)
            u == Added(s, t)
<1>1. n \in Nat /\ Rank(t) = n /\ Dim(s) = 1 .. n /\ Dim(t) = 1 .. n /\ q \in Perms(n)
  BY TensorParts DEF Alias, Dim
<1>2. IsTensor(u) /\ u.shape = s.shape /\ \A x \in Index(s.shape) : u.at[x] = s.at[x] + t.at[x]
  BY AddedIs
<1>3. AddsUp(u, s, t) /\ AddsUp(u, t, s)
  BY <1>2, TensorParts DEF AddsUp
<1>4. PICK a \in 1 .. n, b \in 1 .. n : a # b /\ q = Exchange(n, a, b) /\ Moved(q) = {a, b}
  BY <1>1, MovesTwo
<1>5. MovedPairs(q) = {<<a, b>>, <<b, a>>}
  <2>1. q[a] = b /\ q[b] = a
    BY <1>4 DEF Exchange
  <2>. QED BY <1>4, <2>1 DEF MovedPairs
<1>6. <<a, b>> \in Swaps(u) /\ <<b, a>> \in Swaps(u)
  <2>. HIDE DEF n, u
  <2>1. CASE t = s /\ q = [d \in Dim(s) |-> d]
    <3>1. Moved(q) = {}
      BY <2>1 DEF Moved
    <3>. QED BY <1>4, <3>1
  <2>2. CASE s = Transposed(t, q)
    BY <1>1, <1>2, <1>3, <1>4, <2>2, ExchangeRule DEF n
  <2>3. CASE \E p \in Perms(n) : q = InversePerm(p) /\ t = Transposed(s, p)
    <3>1. PICK p \in Perms(n) : q = InversePerm(p) /\ t = Transposed(s, p)
      BY <2>3
    <3>2. Moved(p) = {a, b}
      BY <1>1, <1>4, <3>1, InverseFacts
    <3>3. Cardinality(Moved(p)) = 2
      BY <1>4, <3>2
    <3>4. PICK c \in 1 .. n, d \in 1 .. n : c # d /\ p = Exchange(n, c, d) /\ Moved(p) = {c, d}
      BY <1>1, <3>3, MovesTwo
    <3>5. <<c, d>> \in Swaps(u) /\ <<d, c>> \in Swaps(u)
      BY <1>1, <1>2, <1>3, <3>1, <3>4, ExchangeRule DEF n
    <3>6. (a = c /\ b = d) \/ (a = d /\ b = c)
      BY <3>2, <3>4
    <3>. QED BY <3>5, <3>6
  <2>. QED BY <2>1, <2>2, <2>3 DEF Alias, n
<1>. QED BY <1>5, <1>6 DEF Pairs

\* add.
LEMMA AddKeeps == ASSUME SymmetryInv, Add PROVE SymmetryInv'
<1>1. PICK l \in Value, r \in Value :
        /\ values[l].tensor.shape = values[r].tensor.shape
        /\ Push("add", <<l, r>>, <<>>, Added(values[l].tensor, values[r].tensor),
                PropagateElementwiseBinary(values[l].ann, values[r].ann, RhsDimToLhs(l, r)), TRUE)
  BY DEF Add, SameShape
<1>. DEFINE s == values[l].tensor
            t == values[r].tensor
            a == values[l].ann
            b == values[r].ann
            u == Added(s, t)
            n == Rank(s)
            q == RhsDimToLhs(l, r)
            exact == values[l].exact /\ values[r].exact
            rule == PropagateElementwiseBinary(a, b, q)
<1>2. /\ IsTensor(s) /\ IsTensor(t) /\ s.shape = t.shape /\ n \in Nat /\ Rank(t) = n
      /\ Dim(s) = 1 .. n /\ a \in Anns(n) /\ b \in Anns(n)
      /\ exact => Respects(n, a, Swaps(s)) /\ Respects(n, b, Swaps(t))
  <2>1. Rank(t) = n
    BY <1>1 DEF Rank
  <2>. QED BY <1>1, <2>1, ValueIs
<1>3. IsTensor(u) /\ Rank(u) = n /\ Equivalence(n, Swaps(u))
  <2>1. IsTensor(u) /\ Rank(u) = n
    BY <1>2, AddedIs
  <2>. QED BY <2>1, SwapsEquivalence
<1>4. exact => BothRespect(n, a, b, Swaps(u))
  <2>. SUFFICES ASSUME exact, NEW i \in 1 .. n, NEW j \in 1 .. n, a[i] = a[j], b[i] = b[j]
                PROVE  <<i, j>> \in Swaps(u)
    BY DEF BothRespect
  <2>1. <<i, j>> \in Swaps(s) /\ <<i, j>> \in Swaps(t)
    BY <1>2 DEF Respects
  <2>. QED BY <1>2, <2>1, AddRule
<1>. HIDE DEF u, n, exact, s, t, a, b, q
<1>5. Meet(a, b) \in Anns(n) /\ (exact => Respects(n, Meet(a, b), Swaps(u)))
  <2>1. BothRespect(n, a, b, (1 .. n) \X (1 .. n))
    BY DEF BothRespect
  <2>2. Meet(a, b) \in Anns(n)
    BY <1>2, <2>1, AllEquivalent, MeetRespects
  <2>. QED BY <1>2, <1>3, <1>4, <2>2, MeetRespects
<1>6. ASSUME ~ (q # NoAlias /\ Cardinality(Moved(q)) = 2) PROVE rule = Meet(a, b)
  BY <1>6 DEF PropagateElementwiseBinary
<1>7. ASSUME q # NoAlias, Cardinality(Moved(q)) = 2
      PROVE  rule \in Anns(n) /\ (exact => Respects(n, rule, Swaps(u)))
  <2>1. rule = United(Meet(a, b), MovedPairs(q))
    BY <1>7 DEF PropagateElementwiseBinary, MovedPairs
  <2>2. Alias(s, t, q)
    BY <1>7, AliasFound DEF s, t, q
  <2>3. MovedPairs(q) \in Pairs(n) /\ MovedPairs(q) \subseteq Swaps(u)
    BY <1>2, <1>7, <2>2, MovedPairsRight DEF n, u
  <2>. HIDE DEF rule
  <2>4. rule \in Anns(n)
    BY <1>2, <1>5, <2>1, <2>3, UnitedType
  <2>5. exact => Respects(n, rule, Swaps(u))
    BY <1>2, <1>3, <1>5, <2>1, <2>3, UnitedRespects
  <2>. QED BY <2>4, <2>5
<1>8. rule \in Anns(n) /\ (exact => Respects(n, rule, Swaps(u)))
  <2>. HIDE DEF rule
  <2>. QED BY <1>5, <1>6, <1>7
<1>. HIDE DEF rule
<1>9. RuleFits(<<l, r>>, u, rule, TRUE)
  BY <1>3, <1>8, FitsTwo DEF exact
<1>10. "add" \in PlainOps
  BY DEF PlainOps
<1>. QED BY <1>1, <1>9, <1>10, PlainKeeps DEF u, rule, s, t, a, b, q

\* Replaced gives an equal value.
LEMMA ReplacedStands ==
  ASSUME SymmetryInv, NEW u \in Value PROVE Replaced(u) \in Value /\ StandsFor(values, u, Replaced(u))
<1>1. CASE u \in DOMAIN simplified
  BY <1>1 DEF SymmetryInv, Replaced
<1>2. CASE u \notin DOMAIN simplified
  BY <1>2 DEF Replaced, StandsFor
<1>. QED BY <1>1, <1>2

\* The rewrite of a transpose.
LEMMA SimplifyKeeps == ASSUME SymmetryInv, NEW v \in Value, SimplifyTranspose(v) PROVE SymmetryInv'
<1>. DEFINE k == values[v].operands[1]
            o == Replaced(k)
            t == values[o].tensor
            p == values[v].perm
            n == Rank(t)
<1>1. /\ values[v].op = "transpose" /\ v \notin DOMAIN simplified /\ values' = values
      /\ \A d \in DOMAIN values[o].ann : values[o].ann[d] = values[o].ann[p[d]]
      /\ simplified' = [u \in DOMAIN simplified \union {v} |-> IF u = v \/ Replaced(u) = v THEN o ELSE Replaced(u)]
  BY DEF SimplifyTranspose
<1>2. /\ k \in Value /\ p \in Perms(Rank(values[k].tensor))
      /\ values[v].tensor = Transposed(values[k].tensor, p) /\ values[v].exact = values[k].exact
  <2>1. ValueFits(values, values[v])
    BY DEF SymmetryInv
  <2>2. TransposeFits(values, values[v].operands, p, values[v].tensor, values[v].exact)
    BY <1>1, <2>1 DEF ValueFits
  <2>. QED BY <2>1, <2>2 DEF ValueFits, TransposeFits, Value
<1>3. o \in Value /\ StandsFor(values, k, o)
  BY <1>2, ReplacedStands
<1>4. /\ IsTensor(t) /\ Dim(t) = 1 .. n /\ values[o].ann \in Anns(n) /\ DOMAIN values[o].ann = 1 .. n
      /\ (values[o].exact => Respects(n, values[o].ann, Swaps(t)))
  <2>. HIDE DEF o
  <2>. QED BY <1>3, ValueIs
<1>5. StandsFor(values, v, o)
  <2>1. values[o].exact = values[v].exact
    BY <1>2, <1>3 DEF StandsFor
  <2>2. ASSUME values[v].exact PROVE values[o].tensor = values[v].tensor
    <3>1. values[k].tensor = t /\ values[o].exact
      BY <1>2, <1>3, <2>2 DEF StandsFor
    <3>2. p \in Perms(n) /\ values[v].tensor = Transposed(t, p)
      BY <1>2, <3>1
    <3>3. Transposed(t, p) = t
      <4>. HIDE DEF t, p, o
      <4>1. MovesInSets(n, values[o].ann, p)
        BY <1>1, <1>4 DEF MovesInSets
      <4>. QED BY <1>4, <3>1, <3>2, <4>1, TransposeIsOperand
    <3>. QED BY <3>2, <3>3
  <2>. QED BY <2>1, <2>2 DEF StandsFor
<1>. HIDE DEF o
<1>6. ASSUME NEW u \in DOMAIN simplified \union {v}
      PROVE  u \in Value /\ simplified'[u] \in Value /\ StandsFor(values, u, simplified'[u])
  <2>1. u \in Value
    BY DEF SymmetryInv
  <2>2. Replaced(u) \in Value /\ StandsFor(values, u, Replaced(u))
    BY <2>1, ReplacedStands
  <2>3. simplified'[u] = IF u = v \/ Replaced(u) = v THEN o ELSE Replaced(u)
    BY <1>1
  <2>. HIDE DEF SymmetryInv
  <2>. QED BY <1>3, <1>5, <2>1, <2>2, <2>3 DEF StandsFor
<1>7. DOMAIN simplified' = DOMAIN simplified \union {v}
  BY <1>1
<1>. QED BY <1>1, <1>6, <1>7 DEF SymmetryInv, Value

-----------------------------------------------------------------------------
(* dot_general *)

\* Every set with a dimension of u has one of v, and the other way.
SameSets(a, m, u, v) ==
  /\ \A k \in 1 .. m : \E e \in 1 .. m : a[v[e]] = a[u[k]]
  /\ \A e \in 1 .. m : \E k \in 1 .. m : a[u[k]] = a[v[e]]

\* A set that counts a dimension of v has one of u.
LEMMA CountedSet ==
  ASSUME NEW n \in Nat, NEW a \in Anns(n), NEW m \in Nat,
         NEW u \in [1 .. m -> 1 .. n], NEW v \in [1 .. m -> 1 .. n], SetCounts(a, u) = SetCounts(a, v),
         NEW e \in 1 .. m
  PROVE  \E k \in 1 .. m : a[u[k]] = a[v[e]]
<1>. DEFINE c == a[v[e]]
            U == {k \in 1 .. m : a[u[k]] = c}
            V == {k \in 1 .. m : a[v[k]] = c}
<1>1. c \in Members(a)
  BY LenOfAnn DEF Members
<1>2. Cardinality(U) = SetCounts(a, u)[c] /\ Cardinality(V) = SetCounts(a, v)[c]
  <2>. HIDE DEF c
  <2>. QED BY <1>1 DEF SetCounts
<1>3. Cardinality(U) = Cardinality(V)
  BY <1>2
<1>4. IsFiniteSet(U) /\ IsFiniteSet(V)
  <2>1. IsFiniteSet(1 .. m) /\ U \in SUBSET (1 .. m) /\ V \in SUBSET (1 .. m)
    BY CountTo
  <2>. QED BY <2>1, FS_Subset
<1>5. V # {}
  OBVIOUS
<1>. HIDE DEF U, V, c
<1>6. U # {}
  BY <1>3, <1>4, <1>5, FS_EmptySet
<1>. QED BY <1>6 DEF U, c

\* Equal counts are of the same sets.
LEMMA CountedSets ==
  ASSUME NEW n \in Nat, NEW a \in Anns(n), NEW m \in Nat,
         NEW u \in [1 .. m -> 1 .. n], NEW v \in [1 .. m -> 1 .. n], SetCounts(a, u) = SetCounts(a, v)
  PROVE  SameSets(a, m, u, v)
BY CountedSet DEF SameSets

\* The dimensions of u are in the sets of those of v, moved as pi says.
PairedSets(a, m, u, v, pi) == Paired(m, pi) /\ \A k \in 1 .. m : a[u[k]] = a[v[pi[k]]]

\* Up to two dimensions are in the same sets either in this order or in the other.
LEMMA TwoPaired ==
  ASSUME NEW a, NEW m \in 0 .. 2, NEW u, NEW v, SameSets(a, m, u, v)
  PROVE  \E pi : PairedSets(a, m, u, v, pi)
<1>. DEFINE id == [k \in 1 .. m |-> k]
            other == [k \in 1 .. m |-> 3 - k]
<1>1. CASE \A k \in 1 .. m : a[u[k]] = a[v[k]]
  <2>1. PairedSets(a, m, u, v, id)
    BY <1>1 DEF PairedSets, Paired
  <2>. QED BY <2>1
<1>2. ASSUME NEW k \in 1 .. m, a[u[k]] # a[v[k]]
      PROVE  \E pi : PairedSets(a, m, u, v, pi)
  <2>1. m = 2 /\ k \in {1, 2}
    <3>1. m # 1
      <4>. SUFFICES ASSUME m = 1 PROVE FALSE
        OBVIOUS
      <4>1. k = 1 /\ \A e \in 1 .. m : e = 1
        OBVIOUS
      <4>2. \E e \in 1 .. m : a[v[e]] = a[u[k]]
        BY DEF SameSets
      <4>. QED BY <1>2, <4>1, <4>2
    <3>. QED BY <3>1
  <2>. DEFINE j == 3 - k
  <2>2. j \in {1, 2} /\ j # k /\ \A e \in 1 .. m : e = k \/ e = j
    BY <2>1
  <2>. HIDE DEF j
  <2>3. a[v[j]] = a[u[k]]
    <3>1. PICK e \in 1 .. m : a[v[e]] = a[u[k]]
      BY DEF SameSets
    <3>. QED BY <1>2, <2>2, <3>1
  <2>4. a[u[j]] = a[v[k]]
    <3>1. PICK e \in 1 .. m : a[u[e]] = a[v[k]]
      BY DEF SameSets
    <3>. QED BY <1>2, <2>2, <3>1
  <2>5. 1 .. m = {1, 2} /\ other = [i \in {1, 2} |-> 3 - i]
    <3>1. 1 .. m = {1, 2}
      BY <2>1
    <3>. QED BY <3>1
  <2>6. a[u[1]] = a[v[2]] /\ a[u[2]] = a[v[1]]
    <3>1. (k = 1 /\ j = 2) \/ (k = 2 /\ j = 1)
      BY <2>1, <2>2
    <3>. QED BY <2>3, <2>4, <3>1
  <2>. DEFINE swap == [i \in {1, 2} |-> 3 - i]
  <2>7. swap[1] = 2 /\ swap[2] = 1 /\ swap \in [{1, 2} -> {1, 2}]
    OBVIOUS
  <2>. HIDE DEF swap
  <2>8. PairedSets(a, m, u, v, swap)
    BY <2>5, <2>6, <2>7 DEF PairedSets, Paired
  <2>. QED BY <2>8
<1>. QED BY <1>1, <1>2

\* The sides of an alias.
LEMMA AliasReads ==
  ASSUME NEW s, IsTensor(s), NEW t, IsTensor(t), NEW q, Alias(s, t, q)
  PROVE  ReadsThrough(s, t, q)
<1>. DEFINE n == Rank(s)
<1>1. /\ n \in Nat /\ Rank(t) = n /\ Dim(s) = 1 .. n /\ Dim(t) = 1 .. n /\ q \in Perms(n)
      /\ IsShape(s.shape) /\ IsShape(t.shape) /\ Len(s.shape) = n /\ Len(t.shape) = n
  BY TensorParts DEF Alias, Dim
<1>2. Inverts(n, q)
  BY <1>1, PermFacts
<1>3. CASE t = s /\ q = [d \in Dim(s) |-> d]
  <2>1. \A d \in Dim(s) : s.shape[d] = t.shape[q[d]]
    BY <1>3
  <2>2. ASSUME NEW z \in Index(t.shape) PROVE Moving(n, q, z) = z
    <3>1. Within(t.shape, z)
      BY <1>1, IndexIs
    <3>2. z = [d \in 1 .. n |-> z[d]]
      BY <1>1, <3>1 DEF Within
    <3>3. \A d \in 1 .. n : z[q[d]] = z[d]
      BY <1>1, <1>3
    <3>. QED BY <3>2, <3>3 DEF Moving
  <2>3. \A z \in Index(t.shape) : t.at[z] = s.at[Moving(n, q, z)]
    BY <1>3, <2>2
  <2>. QED BY <1>1, <2>1, <2>3 DEF ReadsThrough
<1>4. CASE s = Transposed(t, q)
  <2>1. /\ \A d \in Dim(t) : s.shape[d] = t.shape[q[d]]
        /\ \A x \in Index(s.shape) : s.at[x] = t.at[ReadAt(n, q, x)]
    BY <1>1, <1>4, TransposedIs
  <2>2. ASSUME NEW z \in Index(t.shape) PROVE t.at[z] = s.at[Moving(n, q, z)]
    <3>1. Within(t.shape, z)
      BY <1>1, IndexIs
    <3>2. z = [d \in 1 .. n |-> z[d]]
      BY <1>1, <3>1 DEF Within
    <3>3. \A d \in 1 .. n : q[d] \in 1 .. n
      BY <1>2 DEF Inverts
    <3>4. Within(s.shape, Moving(n, q, z))
      BY <1>1, <2>1, <3>1, <3>3 DEF Within, Moving
    <3>5. Moving(n, q, z) \in Index(s.shape)
      BY <1>1, <3>4, IndexIs
    <3>6. ReadAt(n, q, Moving(n, q, z)) = z
      <4>1. \A d \in 1 .. n : ReadAt(n, q, Moving(n, q, z))[d] = z[d]
        BY <1>2 DEF Inverts, ReadAt, Moving
      <4>2. ReadAt(n, q, Moving(n, q, z)) = [d \in 1 .. n |-> ReadAt(n, q, Moving(n, q, z))[d]]
        BY DEF ReadAt
      <4>. QED BY <3>2, <4>1, <4>2, Zenon
    <3>. QED BY <2>1, <3>5, <3>6
  <2>. QED BY <1>1, <2>1, <2>2 DEF ReadsThrough
<1>5. CASE \E p \in Perms(n) : q = InversePerm(p) /\ t = Transposed(s, p)
  <2>1. PICK p \in Perms(n) : q = InversePerm(p) /\ t = Transposed(s, p)
    BY <1>5
  <2>2. /\ \A d \in Dim(s) : t.shape[d] = s.shape[p[d]]
        /\ \A z \in Index(t.shape) : t.at[z] = s.at[ReadAt(n, p, z)]
    BY <2>1, TransposedIs
  <2>3. \A d \in 1 .. n : q[d] \in 1 .. n /\ p[q[d]] = d
    <3>1. Inverts(n, p)
      BY <1>1, PermFacts
    <3>. QED BY <2>1, <3>1 DEF Inverts
  <2>4. \A d \in Dim(s) : s.shape[d] = t.shape[q[d]]
    BY <1>1, <2>2, <2>3
  <2>5. \A z : ReadAt(n, p, z) = Moving(n, q, z)
    BY <2>1 DEF ReadAt, Moving
  <2>. QED BY <1>1, <2>2, <2>4, <2>5 DEF ReadsThrough
<1>. QED BY <1>3, <1>4, <1>5 DEF Alias

\* The pairs that PropagateDotGeneral unites, in parts.
DotRank(ls, rs, batch) == Len(batch) + Len(ls) + Len(rs)
Within2(n) == {p \in (1 .. n) \X (1 .. n) : p[2] < p[1]}
BatchingPairs(a, b, ls, rs, batch) ==
  {p \in Within2(DotRank(ls, rs, batch)) :
     /\ p[1] <= Len(batch)
     /\ a[batch[p[1]][1]] = a[batch[p[2]][1]]
     /\ b[batch[p[1]][2]] = b[batch[p[2]][2]]}
LeftPairs(a, ls, rs, batch) ==
  {p \in Within2(DotRank(ls, rs, batch)) :
     /\ p[2] > Len(batch) /\ p[1] <= Len(batch) + Len(ls)
     /\ a[ls[p[1] - Len(batch)]] = a[ls[p[2] - Len(batch)]]}
RightPairs(b, ls, rs, batch) ==
  {p \in Within2(DotRank(ls, rs, batch)) :
     /\ p[2] > Len(batch) + Len(ls)
     /\ b[rs[p[1] - Len(batch) - Len(ls)]] = b[rs[p[2] - Len(batch) - Len(ls)]]}
MayExchange(a, batch, contract, q) ==
  /\ q # NoAlias
  /\ \A k \in 1 .. Len(batch) : a[batch[k][1]] = a[q[batch[k][2]]]
  /\ SetCounts(a, Side(contract, 1)) = SetCounts(a, [k \in DOMAIN contract |-> q[contract[k][2]]])
ExchangePairs(a, ls, rs, batch, contract, q) ==
  {p \in Within2(DotRank(ls, rs, batch)) :
     /\ p[2] > Len(batch) /\ p[2] <= Len(batch) + Len(ls) /\ p[1] > Len(batch) + Len(ls)
     /\ MayExchange(a, batch, contract, q)
     /\ a[ls[p[2] - Len(batch)]] = a[q[rs[p[1] - Len(batch) - Len(ls)]]]}

\* These are the pairs.
LEMMA DotUnites ==
  ASSUME NEW a, NEW b, NEW ls, NEW rs, NEW batch, NEW contract, NEW q
  PROVE  PropagateDotGeneral(a, b, ls, rs, batch, contract, q)
           = United(NotSymmetric(DotRank(ls, rs, batch)),
                    BatchingPairs(a, b, ls, rs, batch) \union LeftPairs(a, ls, rs, batch)
                      \union RightPairs(b, ls, rs, batch) \union ExchangePairs(a, ls, rs, batch, contract, q))
BY Zenon DEF PropagateDotGeneral, BatchingPairs, LeftPairs, RightPairs, ExchangePairs, MayExchange, Within2, DotRank

\* A layout, and where the dimensions of the operands are in it.
Laid(s, t, ls, rs, batch, contract, L) ==
  /\ IsTensor(s) /\ IsTensor(t) /\ Layouts(s, t, L)
  /\ L.nb = Len(batch) /\ L.nl = Len(ls) /\ L.nr = Len(rs) /\ L.nc = Len(contract)
  /\ \A k \in 1 .. Len(batch) : L.left[k] = batch[k][1] /\ L.right[k] = batch[k][2]
  /\ \A k \in 1 .. Len(ls) : L.left[Len(batch) + k] = ls[k]
  /\ \A k \in 1 .. Len(rs) : L.right[Len(batch) + k] = rs[k]
  /\ \A k \in 1 .. Len(contract) : /\ L.left[Len(batch) + Len(ls) + k] = contract[k][1]
                                   /\ L.right[Len(batch) + Len(rs) + k] = contract[k][2]
  /\ \A k \in 1 .. Len(batch) : batch[k][1] \in Dim(s) /\ batch[k][2] \in Dim(t)
  /\ \A k \in 1 .. Len(ls) : ls[k] \in Dim(s)
  /\ \A k \in 1 .. Len(rs) : rs[k] \in Dim(t)
  /\ contract \in Seq(Nat \X Nat)
  /\ \A k \in 1 .. Len(contract) : contract[k][1] \in Dim(s) /\ contract[k][2] \in Dim(t)

\* The layout of dot_general is one.
LEMMA LaidOut ==
  ASSUME NEW s, IsTensor(s), NEW t, IsTensor(t), NEW batch, NEW contract, DotPairs(s, t, batch, contract)
  PROVE  Laid(s, t, Free(s, 1, batch, contract), Free(t, 2, batch, contract), batch, contract,
              LayoutOf(s, t, batch, contract))
<1>. DEFINE ls == Free(s, 1, batch, contract)
            rs == Free(t, 2, batch, contract)
            left == Ordered(s, 1, batch, contract)
            right == Ordered(t, 2, batch, contract)
            L == LayoutOf(s, t, batch, contract)
<1>1. /\ SideOf(s, 1, batch) /\ SideOf(s, 1, contract) /\ SideOf(t, 2, batch) /\ SideOf(t, 2, contract)
  BY DEF DotPairs, PairsUp, SideOf
<1>2. OrderGives(s, 1, batch, contract, left) /\ OrderGives(t, 2, batch, contract, right)
  BY <1>1, OrderFacts DEF DotPairs
<1>3. /\ L.nb = Len(batch) /\ L.nl = Len(ls) /\ L.nr = Len(rs) /\ L.nc = Len(contract)
      /\ L.left = left /\ L.right = right
  BY DEF LayoutOf
<1>4. Layouts(s, t, L)
  BY LayoutIs
<1>. HIDE DEF L, left, right
<1>5. /\ \A k \in 1 .. Len(batch) : left[k] = batch[k][1] /\ right[k] = batch[k][2]
      /\ \A k \in 1 .. Len(ls) : left[Len(batch) + k] = ls[k]
      /\ \A k \in 1 .. Len(rs) : right[Len(batch) + k] = rs[k]
      /\ \A k \in 1 .. Len(contract) : /\ left[Len(batch) + Len(ls) + k] = contract[k][1]
                                       /\ right[Len(batch) + Len(rs) + k] = contract[k][2]
  BY <1>2 DEF OrderGives
<1>6. ls \in Seq(Dim(s)) /\ rs \in Seq(Dim(t))
  BY <1>2 DEF OrderGives, Dim
<1>. HIDE DEF ls, rs
<1>7. (\A k \in 1 .. Len(ls) : ls[k] \in Dim(s)) /\ \A k \in 1 .. Len(rs) : rs[k] \in Dim(t)
  BY <1>6
<1>8. /\ contract \in Seq(Nat \X Nat)
      /\ \A k \in 1 .. Len(contract) : contract[k][1] \in Dim(s) /\ contract[k][2] \in Dim(t)
      /\ \A k \in 1 .. Len(batch) : batch[k][1] \in Dim(s) /\ batch[k][2] \in Dim(t)
  BY <1>1 DEF SideOf
<1>9. Laid(s, t, ls, rs, batch, contract, L)
  BY <1>3, <1>4, <1>5, <1>7, <1>8 DEF Laid
<1>. QED BY <1>9 DEF ls, rs, L

\* Batching dimensions.
LEMMA BatchingRight ==
  ASSUME NEW s, NEW t, NEW ls, NEW rs, NEW batch, NEW contract, NEW L, Laid(s, t, ls, rs, batch, contract, L),
         NEW a, Respects(Rank(s), a, Swaps(s)), NEW b, Respects(Rank(t), b, Swaps(t))
  PROVE  BatchingPairs(a, b, ls, rs, batch) \subseteq Swaps(Dots(s, t, L))
<1>. SUFFICES ASSUME NEW p \in BatchingPairs(a, b, ls, rs, batch) PROVE p \in Swaps(Dots(s, t, L))
  OBVIOUS
<1>. DEFINE nb == Len(batch)
            i == p[1]
            j == p[2]
<1>0. nb = L.nb /\ nb \in Nat /\ IsTensor(s) /\ IsTensor(t) /\ Layouts(s, t, L)
  BY DEF Laid, Layouts
<1>1. /\ p = <<i, j>> /\ i \in Int /\ j \in Int /\ 1 <= j /\ j < i /\ i <= nb
      /\ a[batch[i][1]] = a[batch[j][1]] /\ b[batch[i][2]] = b[batch[j][2]]
  BY DEF BatchingPairs, Within2
<1>. HIDE DEF i, j
<1>2. i \in 1 .. nb /\ j \in 1 .. nb
  <2>. HIDE DEF nb
  <2>. QED BY <1>0, <1>1
<1>3. /\ batch[i][1] \in Dim(s) /\ batch[j][1] \in Dim(s) /\ batch[i][2] \in Dim(t) /\ batch[j][2] \in Dim(t)
      /\ L.left[i] = batch[i][1] /\ L.left[j] = batch[j][1]
      /\ L.right[i] = batch[i][2] /\ L.right[j] = batch[j][2]
  BY <1>2 DEF Laid
<1>4. <<L.left[i], L.left[j]>> \in Swaps(s) /\ <<L.right[i], L.right[j]>> \in Swaps(t)
  BY <1>1, <1>3 DEF Respects, Dim
<1>5. <<i, j>> \in Swaps(Dots(s, t, L))
  BY <1>0, <1>2, <1>4, BatchingRule
<1>. QED BY <1>1, <1>5

\* Free dimensions of the left operand.
LEMMA LeftRight ==
  ASSUME NEW s, NEW t, NEW ls, NEW rs, NEW batch, NEW contract, NEW L, Laid(s, t, ls, rs, batch, contract, L),
         NEW a, Respects(Rank(s), a, Swaps(s))
  PROVE  LeftPairs(a, ls, rs, batch) \subseteq Swaps(Dots(s, t, L))
<1>. SUFFICES ASSUME NEW p \in LeftPairs(a, ls, rs, batch) PROVE p \in Swaps(Dots(s, t, L))
  OBVIOUS
<1>. DEFINE nb == Len(batch)
            nl == Len(ls)
            i == p[1]
            j == p[2]
            d == i - nb
            e == j - nb
<1>0. nb = L.nb /\ nl = L.nl /\ nb \in Nat /\ nl \in Nat /\ IsTensor(s) /\ IsTensor(t) /\ Layouts(s, t, L)
  BY DEF Laid, Layouts
<1>1. /\ p = <<i, j>> /\ i \in Int /\ j \in Int /\ j > nb /\ j < i /\ i <= nb + nl
      /\ a[ls[d]] = a[ls[e]]
  BY DEF LeftPairs, Within2
<1>. HIDE DEF i, j
<1>2. /\ d \in 1 .. nl /\ e \in 1 .. nl /\ i = nb + d /\ j = nb + e
      /\ i \in nb + 1 .. nb + nl /\ j \in nb + 1 .. nb + nl
  <2>. HIDE DEF nb, nl
  <2>. QED BY <1>0, <1>1
<1>. HIDE DEF d, e
<1>3. /\ ls[d] \in Dim(s) /\ ls[e] \in Dim(s) /\ L.left[i] = ls[d] /\ L.left[j] = ls[e]
  BY <1>2 DEF Laid
<1>4. <<L.left[i], L.left[j]>> \in Swaps(s)
  BY <1>1, <1>3 DEF Respects, Dim
<1>5. <<i, j>> \in Swaps(Dots(s, t, L))
  BY <1>0, <1>2, <1>4, LeftRule
<1>. QED BY <1>1, <1>5

\* Free dimensions of the right operand.
LEMMA RightRight ==
  ASSUME NEW s, NEW t, NEW ls, NEW rs, NEW batch, NEW contract, NEW L, Laid(s, t, ls, rs, batch, contract, L),
         NEW b, Respects(Rank(t), b, Swaps(t))
  PROVE  RightPairs(b, ls, rs, batch) \subseteq Swaps(Dots(s, t, L))
<1>. SUFFICES ASSUME NEW p \in RightPairs(b, ls, rs, batch) PROVE p \in Swaps(Dots(s, t, L))
  OBVIOUS
<1>. DEFINE nb == Len(batch)
            nl == Len(ls)
            nr == Len(rs)
            i == p[1]
            j == p[2]
            d == i - nb - nl
            e == j - nb - nl
<1>0. /\ nb = L.nb /\ nl = L.nl /\ nr = L.nr /\ nb \in Nat /\ nl \in Nat /\ nr \in Nat
      /\ IsTensor(s) /\ IsTensor(t) /\ Layouts(s, t, L)
  BY DEF Laid, Layouts
<1>1. /\ p = <<i, j>> /\ i \in Int /\ j \in Int /\ j > nb + nl /\ j < i /\ i <= nb + nl + nr
      /\ b[rs[d]] = b[rs[e]]
  BY DEF RightPairs, Within2, DotRank
<1>. HIDE DEF i, j
<1>2. /\ d \in 1 .. nr /\ e \in 1 .. nr /\ i = nb + d + nl /\ j = nb + e + nl
      /\ nb + d \in nb + 1 .. nb + nr /\ nb + e \in nb + 1 .. nb + nr
  <2>. HIDE DEF nb, nl, nr
  <2>. QED BY <1>0, <1>1
<1>. HIDE DEF d, e
<1>3. rs[d] \in Dim(t) /\ rs[e] \in Dim(t) /\ L.right[nb + d] = rs[d] /\ L.right[nb + e] = rs[e]
  BY <1>2 DEF Laid
<1>4. <<L.right[nb + d], L.right[nb + e]>> \in Swaps(t)
  BY <1>1, <1>3 DEF Respects, Dim
<1>5. <<nb + d + nl, nb + e + nl>> \in Swaps(Dots(s, t, L))
  <2>. DEFINE f == nb + d
              g == nb + e
  <2>1. /\ f \in L.nb + 1 .. L.nb + L.nr /\ g \in L.nb + 1 .. L.nb + L.nr
        /\ <<L.right[f], L.right[g]>> \in Swaps(t)
    BY <1>0, <1>2, <1>4
  <2>. HIDE DEF f, g
  <2>2. <<f + L.nl, g + L.nl>> \in Swaps(Dots(s, t, L))
    BY <1>0, <2>1, RightRule
  <2>. QED BY <1>0, <2>2 DEF f, g
<1>. QED BY <1>1, <1>2, <1>5

\* The contracting dimensions, those of the right operand where q has them, are in
\* the same sets.
LEMMA ContractedPaired ==
  ASSUME NEW s, NEW t, NEW ls, NEW rs, NEW batch, NEW contract, NEW L, Laid(s, t, ls, rs, batch, contract, L),
         NEW a \in Anns(Rank(s)), NEW q \in Perms(Rank(s)), Rank(t) = Rank(s),
         Len(contract) <= 2, MayExchange(a, batch, contract, q)
  PROVE  \E pi : PairedSets(a, Len(contract), Side(contract, 1), [k \in DOMAIN contract |-> q[contract[k][2]]], pi)
<1>. DEFINE n == Rank(s)
            m == Len(contract)
            u == Side(contract, 1)
            v == [k \in DOMAIN contract |-> q[contract[k][2]]]
<1>1. n \in Nat /\ Dim(s) = 1 .. n /\ Dim(t) = 1 .. n
  BY TensorParts DEF Laid, Dim
<1>2. m \in Nat /\ m \in 0 .. 2 /\ DOMAIN contract = 1 .. m
  <2>1. contract \in Seq(Nat \X Nat)
    BY DEF Laid
  <2>2. m \in Nat /\ DOMAIN contract = 1 .. m
    BY <2>1, LenProperties
  <2>. QED BY <2>2
<1>3. \A k \in 1 .. m : contract[k][1] \in 1 .. n /\ contract[k][2] \in 1 .. n
  BY <1>1 DEF Laid
<1>4. \A d \in 1 .. n : q[d] \in 1 .. n
  BY DEF Perms
<1>5. u \in [1 .. m -> 1 .. n] /\ v \in [1 .. m -> 1 .. n]
  <2>1. u = [k \in 1 .. m |-> contract[k][1]] /\ v = [k \in 1 .. m |-> q[contract[k][2]]]
    BY <1>2 DEF Side
  <2>. QED BY <1>3, <1>4, <2>1
<1>6. SetCounts(a, u) = SetCounts(a, v)
  BY DEF MayExchange
<1>. HIDE DEF n, m, u, v
<1>7. SameSets(a, m, u, v)
  BY <1>1, <1>2, <1>5, <1>6, CountedSets DEF n
<1>8. \E pi : PairedSets(a, m, u, v, pi)
  BY <1>2, <1>7, TwoPaired
<1>. QED BY <1>8 DEF m, u, v

\* One free dimension on either side that may be exchanged.
LEMMA ExchangeFits ==
  ASSUME NEW s, NEW t, NEW ls, NEW rs, NEW batch, NEW contract, NEW L, Laid(s, t, ls, rs, batch, contract, L),
         NEW a \in Anns(Rank(s)), Respects(Rank(s), a, Swaps(s)), NEW q \in Perms(Rank(s)), Rank(t) = Rank(s),
         Len(ls) = 1, Len(rs) = 1, Len(contract) <= 2, MayExchange(a, batch, contract, q),
         a[ls[1]] = a[q[rs[1]]]
  PROVE  \E pi : Exchangeable(s, L, q, pi)
<1>. DEFINE n == Rank(s)
            m == Len(contract)
            nb == Len(batch)
            u == Side(contract, 1)
            v == [k \in DOMAIN contract |-> q[contract[k][2]]]
<1>1. PICK pi : PairedSets(a, m, u, v, pi)
  BY ContractedPaired
<1>2. Paired(m, pi) /\ (\A k \in 1 .. m : a[u[k]] = a[v[pi[k]]]) /\ \A k \in 1 .. m : pi[k] \in 1 .. m
  BY <1>1 DEF PairedSets, Paired
<1>3. /\ L.nb = nb /\ L.nl = 1 /\ L.nr = 1 /\ L.nc = m /\ nb \in Nat /\ Dim(s) = 1 .. n /\ Dim(t) = 1 .. n
  <2>1. Layouts(s, t, L) /\ L.nb = nb /\ L.nl = 1 /\ L.nr = 1 /\ L.nc = m
    BY DEF Laid
  <2>2. L.nb \in Nat
    BY <2>1 DEF Layouts
  <2>3. Dim(s) = 1 .. n /\ Dim(t) = 1 .. n
    BY DEF Dim
  <2>. QED BY <2>1, <2>2, <2>3
<1>4. m \in Nat /\ DOMAIN contract = 1 .. m
  <2>1. contract \in Seq(Nat \X Nat)
    BY DEF Laid
  <2>. QED BY <2>1, LenProperties
<1>5. \A k \in 1 .. m : u[k] = contract[k][1] /\ v[k] = q[contract[k][2]]
  BY <1>4 DEF Side
<1>6. \A d \in 1 .. n : q[d] \in 1 .. n
  BY DEF Perms
<1>7. \A k \in 1 .. m : /\ L.left[nb + 1 + k] = contract[k][1] /\ L.right[nb + 1 + k] = contract[k][2]
                        /\ contract[k][1] \in 1 .. n /\ contract[k][2] \in 1 .. n
  BY <1>3 DEF Laid
<1>8. \A k \in 1 .. nb : /\ L.left[k] = batch[k][1] /\ L.right[k] = batch[k][2]
                         /\ batch[k][1] \in 1 .. n /\ batch[k][2] \in 1 .. n
                         /\ a[batch[k][1]] = a[q[batch[k][2]]]
  BY <1>3 DEF Laid, MayExchange
<1>9. L.left[nb + 1] = ls[1] /\ L.right[nb + 1] = rs[1] /\ ls[1] \in 1 .. n /\ rs[1] \in 1 .. n
  BY <1>3 DEF Laid
<1>10. \A d, e \in 1 .. n : a[d] = a[e] => <<d, e>> \in Swaps(s)
  BY DEF Respects
<1>. HIDE DEF n, m, nb, u, v
<1>11. ASSUME NEW k \in 1 .. nb + 1 PROVE <<L.left[k], q[L.right[k]]>> \in Swaps(s)
  <2>1. k \in 1 .. nb \/ k = nb + 1
    BY <1>3
  <2>2. CASE k \in 1 .. nb
    BY <1>6, <1>8, <1>10, <2>2
  <2>3. CASE k = nb + 1
    BY <1>6, <1>9, <1>10, <2>3
  <2>. QED BY <2>1, <2>2, <2>3
<1>12. ASSUME NEW k \in 1 .. m PROVE <<L.left[nb + 1 + k], q[L.right[nb + 1 + pi[k]]]>> \in Swaps(s)
  <2>1. pi[k] \in 1 .. m /\ a[contract[k][1]] = a[q[contract[pi[k]][2]]]
    BY <1>2, <1>5
  <2>2. L.left[nb + 1 + k] = contract[k][1] /\ L.right[nb + 1 + pi[k]] = contract[pi[k]][2]
    BY <1>7, <2>1
  <2>3. contract[k][1] \in 1 .. n /\ q[contract[pi[k]][2]] \in 1 .. n
    BY <1>6, <1>7, <2>1
  <2>. QED BY <1>10, <2>1, <2>2, <2>3
<1>13. Exchangeable(s, L, q, pi)
  BY <1>2, <1>3, <1>11, <1>12 DEF Exchangeable
<1>. QED BY <1>13

\* The free dimensions that are exchanged.
LEMMA ExchangeRight ==
  ASSUME NEW s, NEW t, NEW ls, NEW rs, NEW batch, NEW contract, NEW L, Laid(s, t, ls, rs, batch, contract, L),
         NEW a \in Anns(Rank(s)), Respects(Rank(s), a, Swaps(s)),
         NEW q, q # NoAlias => Alias(s, t, q), ExchangeExact(ls, rs, contract, q)
  PROVE  ExchangePairs(a, ls, rs, batch, contract, q) \subseteq Swaps(Dots(s, t, L))
<1>. SUFFICES ASSUME NEW p \in ExchangePairs(a, ls, rs, batch, contract, q) PROVE p \in Swaps(Dots(s, t, L))
  OBVIOUS
<1>. DEFINE nb == Len(batch)
            nl == Len(ls)
            nr == Len(rs)
            i == p[1]
            j == p[2]
            n == Rank(s)
<1>0. /\ nb = L.nb /\ nl = L.nl /\ nr = L.nr /\ nb \in Nat /\ nl \in Nat /\ nr \in Nat
      /\ IsTensor(s) /\ IsTensor(t) /\ Layouts(s, t, L) /\ n \in Nat
  BY TensorParts DEF Laid, Layouts
<1>1. MayExchange(a, batch, contract, q) /\ a[ls[j - nb]] = a[q[rs[i - nb - nl]]]
  BY DEF ExchangePairs
<1>2. q # NoAlias
  BY <1>1 DEF MayExchange
<1>3. Alias(s, t, q) /\ nl <= 1 /\ nr <= 1 /\ Len(contract) <= 2 /\ InversePerm(q) = q
  BY <1>2 DEF ExchangeExact
<1>4. Rank(t) = n /\ q \in Perms(n)
  BY <1>3 DEF Alias
<1>5. /\ p = <<i, j>> /\ i \in Int /\ j \in Int /\ j > nb /\ j <= nb + nl /\ i > nb + nl /\ i <= nb + nl + nr
  BY DEF ExchangePairs, Within2, DotRank
<1>. HIDE DEF i, j
<1>6. nl = 1 /\ nr = 1 /\ j = nb + 1 /\ i = nb + 2
  <2>. HIDE DEF nb, nl, nr
  <2>1. /\ nb \in Nat /\ nl \in Nat /\ nr \in Nat /\ nl <= 1 /\ nr <= 1 /\ i \in Int /\ j \in Int
        /\ j > nb /\ j <= nb + nl /\ i > nb + nl /\ i <= nb + nl + nr
    BY <1>0, <1>3, <1>5 DEF nb, nl, nr
  <2>2. nl = 1
    BY ONLY <2>1
  <2>3. nr = 1
    BY ONLY <2>1
  <2>. QED BY ONLY <2>1, <2>2, <2>3
<1>7. a[ls[1]] = a[q[rs[1]]]
  <2>1. j - nb = 1 /\ i - nb - nl = 1
    <3>. HIDE DEF nb, nl
    <3>. QED BY <1>0, <1>6
  <2>. QED BY <1>1, <2>1
<1>8. PICK pi : Exchangeable(s, L, q, pi)
  <2>. HIDE DEF nb, n
  <2>. QED BY <1>1, <1>3, <1>4, <1>6, <1>7, ExchangeFits DEF n
<1>9. ReadsThrough(s, t, q)
  BY <1>0, <1>3, AliasReads
<1>10. OwnInverse(n, q)
  <2>. HIDE DEF n
  <2>1. Inverts(n, q)
    BY <1>0, <1>4, PermFacts
  <2>. QED BY <1>3, <2>1 DEF Inverts, OwnInverse
<1>11. <<L.nb + 1, L.nb + 2>> \in Swaps(Dots(s, t, L))
  BY <1>0, <1>8, <1>9, <1>10, DotExchangeRule
<1>12. Equivalence(Rank(Dots(s, t, L)), Swaps(Dots(s, t, L)))
  BY <1>0, DotsIs, SwapsEquivalence
<1>13. <<L.nb + 2, L.nb + 1>> \in Swaps(Dots(s, t, L))
  BY <1>11, <1>12 DEF Equivalence, Swaps, Dim
<1>. QED BY <1>0, <1>5, <1>6, <1>13

\* Pairings are sequences of pairs of dimensions of one size.
LEMMA PairingsPairUp ==
  ASSUME NEW s, IsTensor(s), NEW t, IsTensor(t), NEW p \in Pairings(s, t) PROVE PairsUp(s, t, p)
<1>. DEFINE pair == {d \in Dim(s) \X Dim(t) : s.shape[d[1]] = t.shape[d[2]]}
<1>1. p \in UNION {[1 .. n -> pair] : n \in 0 .. 2}
  BY DEF Pairings
<1>2. PICK n \in 0 .. 2 : p \in [1 .. n -> pair]
  BY <1>1
<1>3. Dim(s) \subseteq Nat /\ Dim(t) \subseteq Nat
  BY TensorParts DEF Dim
<1>4. \A d \in pair : d \in Nat \X Nat /\ d[1] \in Dim(s) /\ d[2] \in Dim(t) /\ s.shape[d[1]] = t.shape[d[2]]
  BY <1>3
<1>. HIDE DEF pair
<1>5. n \in Nat /\ p \in [1 .. n -> Nat \X Nat] /\ DOMAIN p = 1 .. n
  BY <1>2, <1>4
<1>6. p \in Seq(Nat \X Nat) /\ Len(p) = n
  BY <1>5
<1>7. \A k \in 1 .. n : p[k] \in pair
  BY <1>2
<1>. QED BY <1>4, <1>6, <1>7 DEF PairsUp

\* The pairs of a dot_general.
LEMMA DotHasPairs ==
  ASSUME NEW s, IsTensor(s), NEW t, IsTensor(t),
         NEW batch \in Pairings(s, t), NEW contract \in Pairings(s, t),
         Injective(Side(batch \o contract, 1)), Injective(Side(batch \o contract, 2))
  PROVE  DotPairs(s, t, batch, contract)
<1>1. PairsUp(s, t, batch) /\ PairsUp(s, t, contract)
  BY PairingsPairUp
<1>2. batch \in Seq(Nat \X Nat) /\ contract \in Seq(Nat \X Nat)
  BY <1>1 DEF PairsUp
<1>. DEFINE all == batch \o contract
<1>3. all \in Seq(Nat \X Nat)
  BY <1>2
<1>. HIDE DEF all
<1>4. Side(all, 1) \in Seq(Nat) /\ Side(all, 2) \in Seq(Nat)
  BY <1>3, SideIs
<1>5. DOMAIN Side(all, 1) = 1 .. Len(Side(all, 1)) /\ DOMAIN Side(all, 2) = 1 .. Len(Side(all, 2))
  BY <1>4, LenProperties
<1>6. NoRepeats(Side(all, 1)) /\ NoRepeats(Side(all, 2))
  BY <1>5 DEF NoRepeats, Injective, all
<1>. QED BY <1>1, <1>6 DEF DotPairs, all

\* The rule of dot_general is right.
LEMMA DotRuleRight ==
  ASSUME NEW s, NEW t, IsTensor(s), IsTensor(t), NEW ls, NEW rs, NEW batch, NEW contract,
         NEW L, Laid(s, t, ls, rs, batch, contract, L),
         NEW a \in Anns(Rank(s)), NEW b \in Anns(Rank(t)), NEW q, q # NoAlias => Alias(s, t, q),
         NEW right \in BOOLEAN,
         right => /\ Respects(Rank(s), a, Swaps(s)) /\ Respects(Rank(t), b, Swaps(t))
                  /\ ExchangeExact(ls, rs, contract, q)
  PROVE  LET u == Dots(s, t, L)
             rule == PropagateDotGeneral(a, b, ls, rs, batch, contract, q)
         IN  /\ IsTensor(u) /\ rule \in Anns(Rank(u))
             /\ right => Respects(Rank(u), rule, Swaps(u))
<1>. DEFINE u == Dots(s, t, L)
            n == DotRank(ls, rs, batch)
            E == Swaps(u)
            rule == PropagateDotGeneral(a, b, ls, rs, batch, contract, q)
            batching == BatchingPairs(a, b, ls, rs, batch)
            left == LeftPairs(a, ls, rs, batch)
            free == RightPairs(b, ls, rs, batch)
            exchange == ExchangePairs(a, ls, rs, batch, contract, q)
            pairs == batching \union left \union free \union exchange
<1>1. Layouts(s, t, L) /\ L.nb = Len(batch) /\ L.nl = Len(ls) /\ L.nr = Len(rs)
  BY DEF Laid
<1>2. IsTensor(u) /\ Rank(u) = n
  <2>1. IsTensor(u) /\ Rank(u) = L.nb + L.nl + L.nr
    BY <1>1, DotsIs
  <2>. QED BY <1>1, <2>1 DEF DotRank
<1>3. n \in Nat /\ Equivalence(n, E)
  <2>1. Rank(u) \in Nat /\ Equivalence(Rank(u), E)
    <3>. HIDE DEF u
    <3>. QED BY <1>2, TensorParts, SwapsEquivalence
  <2>. QED BY <1>2, <2>1
<1>4. rule = United(NotSymmetric(n), pairs)
  BY DotUnites
<1>5. pairs \in Pairs(n)
  <2>1. batching \subseteq Within2(n) /\ left \subseteq Within2(n) /\ free \subseteq Within2(n)
        /\ exchange \subseteq Within2(n)
    BY DEF BatchingPairs, LeftPairs, RightPairs, ExchangePairs
  <2>2. Within2(n) \subseteq (1 .. n) \X (1 .. n)
    BY DEF Within2
  <2>. HIDE DEF batching, left, free, exchange, n
  <2>. QED BY <2>1, <2>2 DEF Pairs
<1>6. ASSUME right PROVE pairs \subseteq E
  <2>1. batching \subseteq E
    BY <1>6, BatchingRight
  <2>2. left \subseteq E
    BY <1>6, LeftRight
  <2>3. free \subseteq E
    BY <1>6, RightRight
  <2>4. exchange \subseteq E
    BY <1>6, ExchangeRight
  <2>. HIDE DEF batching, left, free, exchange, E
  <2>. QED BY <2>1, <2>2, <2>3, <2>4
<1>7. rule \in Anns(n) /\ (right => Respects(n, rule, E))
  <2>. HIDE DEF rule, n, E, pairs
  <2>. QED BY <1>3, <1>4, <1>5, <1>6, RuleRespects
<1>. HIDE DEF u, rule, n, E
<1>. QED BY <1>2, <1>7 DEF u, rule, E

\* dot_general.
LEMMA DotKeeps == ASSUME SymmetryInv, Dot PROVE SymmetryInv'
<1>1. PICK l, r \in Value :
        LET s == values[l].tensor
            t == values[r].tensor
        IN  \E batch, contract \in Pairings(s, t) :
              LET ls == Free(s, 1, batch, contract)
                  rs == Free(t, 2, batch, contract)
              IN  /\ contract # <<>>
                  /\ Injective(Side(batch \o contract, 1)) /\ Injective(Side(batch \o contract, 2))
                  /\ Push("dot", <<l, r>>, <<>>, DotGeneral(s, t, batch, contract),
                          PropagateDotGeneral(values[l].ann, values[r].ann, ls, rs, batch, contract, RhsDimToLhs(l, r)),
                          ExchangeExact(ls, rs, contract, RhsDimToLhs(l, r)))
  BY Zenon DEF Dot
<1>. DEFINE s == values[l].tensor
            t == values[r].tensor
            a == values[l].ann
            b == values[r].ann
            q == RhsDimToLhs(l, r)
<1>2. PICK batch, contract \in Pairings(s, t) :
        /\ Injective(Side(batch \o contract, 1)) /\ Injective(Side(batch \o contract, 2))
        /\ Push("dot", <<l, r>>, <<>>, DotGeneral(s, t, batch, contract),
                PropagateDotGeneral(a, b, Free(s, 1, batch, contract), Free(t, 2, batch, contract), batch, contract, q),
                ExchangeExact(Free(s, 1, batch, contract), Free(t, 2, batch, contract), contract, q))
  BY <1>1, Zenon
<1>. DEFINE ls == Free(s, 1, batch, contract)
            rs == Free(t, 2, batch, contract)
            L == LayoutOf(s, t, batch, contract)
            u == Dots(s, t, L)
            rule == PropagateDotGeneral(a, b, ls, rs, batch, contract, q)
            exact == ExchangeExact(ls, rs, contract, q)
            right == exact /\ values[l].exact /\ values[r].exact
<1>3. /\ IsTensor(s) /\ IsTensor(t) /\ a \in Anns(Rank(s)) /\ b \in Anns(Rank(t))
      /\ values[l].exact \in BOOLEAN /\ values[r].exact \in BOOLEAN
      /\ (values[l].exact => Respects(Rank(s), a, Swaps(s)))
      /\ (values[r].exact => Respects(Rank(t), b, Swaps(t)))
  BY ValueIs
<1>4. q # NoAlias => Alias(s, t, q)
  BY AliasFound
<1>5. exact \in BOOLEAN /\ right \in BOOLEAN
  <2>1. exact \in BOOLEAN
    BY DEF ExchangeExact
  <2>. HIDE DEF exact
  <2>. QED BY <1>3, <2>1
<1>6. Push("dot", <<l, r>>, <<>>, DotGeneral(s, t, batch, contract), rule, exact)
  BY <1>2
<1>. HIDE DEF s, t, a, b, q
<1>7. DotPairs(s, t, batch, contract)
  BY <1>2, <1>3, DotHasPairs
<1>8. Laid(s, t, ls, rs, batch, contract, L)
  BY <1>3, <1>7, LaidOut
<1>9. DotGeneral(s, t, batch, contract) = u
  BY <1>3, <1>7, DotGeneralIs
<1>10. right => /\ Respects(Rank(s), a, Swaps(s)) /\ Respects(Rank(t), b, Swaps(t))
                /\ ExchangeExact(ls, rs, contract, q)
  BY <1>3
<1>. HIDE DEF ls, rs, L, right
<1>11. IsTensor(u) /\ rule \in Anns(Rank(u)) /\ (right => Respects(Rank(u), rule, Swaps(u)))
  BY <1>3, <1>4, <1>5, <1>8, <1>10, DotRuleRight
<1>. HIDE DEF u, rule, exact
<1>12. RuleFits(<<l, r>>, u, rule, exact)
  <2>1. exact /\ values[l].exact /\ values[r].exact => Respects(Rank(u), rule, Swaps(u))
    BY <1>11 DEF right
  <2>. QED BY <1>5, <1>11, <2>1, FitsTwo
<1>13. "dot" \in PlainOps
  BY DEF PlainOps
<1>14. Push("dot", <<l, r>>, <<>>, u, rule, exact)
  BY <1>6, <1>9
<1>. QED BY <1>12, <1>13, <1>14, PlainKeeps

-----------------------------------------------------------------------------
(* Theorems *)

\* Nothing has been computed at first.
LEMMA InitFits == Init => SymmetryInv
<1>. SUFFICES ASSUME Init PROVE SymmetryInv
  OBVIOUS
<1>1. values = <<>> /\ simplified = <<>>
  BY DEF Init
<1>2. values \in Seq(Records) /\ Len(values) = 0 /\ DOMAIN simplified = {}
  BY <1>1
<1>3. Value = {}
  BY <1>2 DEF Value
<1>. QED BY <1>2, <1>3 DEF SymmetryInv

\* Every step keeps the invariant.
LEMMA StepKeeps == SymmetryInv /\ [Next]_vars => SymmetryInv'
<1>. SUFFICES ASSUME SymmetryInv, [Next]_vars PROVE SymmetryInv'
  OBVIOUS
<1>1. CASE Argument \/ Constant
  BY <1>1, InputKeeps
<1>2. CASE Transpose
  BY <1>2, TransposeKeeps
<1>3. CASE Broadcast
  BY <1>3, BroadcastKeeps
<1>4. CASE Negate
  BY <1>4, NegateKeeps
<1>5. CASE Add
  BY <1>5, AddKeeps
<1>6. CASE Subtract
  BY <1>6, SubtractKeeps
<1>7. CASE Dot
  BY <1>7, DotKeeps
<1>8. CASE Rewrite
  <2>1. PICK v \in Value : SimplifyTranspose(v)
    BY <1>8 DEF Rewrite
  <2>. QED BY <2>1, SimplifyKeeps
<1>9. CASE UNCHANGED vars
  <2>1. values' = values /\ simplified' = simplified
    BY <1>9 DEF vars
  <2>2. Value' = Value
    BY <2>1 DEF Value
  <2>. QED BY <2>1, <2>2 DEF SymmetryInv
<1>. QED BY <1>1, <1>2, <1>3, <1>4, <1>5, <1>6, <1>7, <1>8, <1>9 DEF Next, Build

\* Annotations of exact values are right, transposes keep their operands, and what
\* a value was replaced by stands for it: the inductive invariant of
\* PartialSymmetryAnalysis and TransposePartialSymmetrySimplify.
THEOREM SymmetryInvariant == Spec => []SymmetryInv
BY InitFits, StepKeeps, PTL DEF Spec

\* The annotation of a value computed by exact rules from values that are so
\* joins only dimensions that may be swapped (visitOperation and the rules).
THEOREM AnalysisIsTruthful == Spec => []ExactTruthful
<1>1. ASSUME SymmetryInv PROVE ExactTruthful
  <2>. SUFFICES ASSUME NEW v \in Value, values[v].exact,
                       NEW i \in DOMAIN values[v].ann, NEW j \in DOMAIN values[v].ann,
                       values[v].ann[i] = values[v].ann[j]
                PROVE  Swappable(values[v].tensor, i, j)
    BY DEF ExactTruthful, Truthful
  <2>. DEFINE n == Rank(values[v].tensor)
  <2>1. DOMAIN values[v].ann = 1 .. n /\ Respects(n, values[v].ann, Swaps(values[v].tensor))
    BY <1>1, ValueIs
  <2>2. <<i, j>> \in Swaps(values[v].tensor)
    BY <2>1 DEF Respects
  <2>. QED BY <2>2 DEF Swaps
<1>. QED BY <1>1, SymmetryInvariant, PTL

\* A transpose is replaced only by a value equal to it, where that value is exact
\* (TransposePartialSymmetrySimplify, and the rewrites that follow one another).
THEOREM SimplifyKeepsValue == Spec => []RewriteKeepsValue
<1>1. ASSUME SymmetryInv PROVE RewriteKeepsValue
  <2>. SUFFICES ASSUME NEW v \in DOMAIN simplified, values[simplified[v]].exact
                PROVE  values[v].tensor = values[simplified[v]].tensor
    BY DEF RewriteKeepsValue
  <2>1. StandsFor(values, v, simplified[v])
    BY <1>1 DEF SymmetryInv
  <2>. QED BY <2>1 DEF StandsFor
<1>. QED BY <1>1, SymmetryInvariant, PTL

-----------------------------------------------------------------------------
(* Annotations are canonical *)

\* A set has the name of its least dimension.
Canonical(n, ann) == \A d \in 1 .. n : ann[d] \in 1 .. d /\ ann[ann[d]] = ann[d]

\* The least of two numbers is not above either.
LEMMA MinBelow ==
  ASSUME NEW a \in Int, NEW b \in Int PROVE Min({a, b}) <= a /\ Min({a, b}) <= b
<1>1. \E x \in {a, b} : \A y \in {a, b} : x =< y
  OBVIOUS
<1>. QED BY <1>1 DEF Min

\* Uniting two sets keeps this.
LEMMA UniteCanonical ==
  ASSUME NEW n \in Nat, NEW ann \in Anns(n), Canonical(n, ann), NEW i \in 1 .. n, NEW j \in 1 .. n
  PROVE  Canonical(n, Unite(ann, i, j))
<1>. DEFINE m == Min({ann[i], ann[j]})
            new == Unite(ann, i, j)
            In(d) == ann[d] \in {ann[i], ann[j]}
<1>1. /\ ann[i] \in 1 .. n /\ ann[j] \in 1 .. n /\ DOMAIN ann = 1 .. n
      /\ ann[ann[i]] = ann[i] /\ ann[ann[j]] = ann[j]
  BY DEF Anns, Canonical
<1>2. m \in {ann[i], ann[j]} /\ m <= ann[i] /\ m <= ann[j]
  <2>. DEFINE x == ann[i]
              y == ann[j]
  <2>1. x \in Int /\ y \in Int
    BY <1>1
  <2>. HIDE DEF x, y
  <2>2. Min({x, y}) \in {x, y}
    BY <2>1, MinOfTwo
  <2>3. Min({x, y}) <= x /\ Min({x, y}) <= y
    BY <2>1, MinBelow
  <2>. QED BY <2>2, <2>3 DEF x, y
<1>3. new = [d \in 1 .. n |-> IF In(d) THEN m ELSE ann[d]]
  BY <1>1 DEF Unite
<1>. HIDE DEF m, new
<1>4. m \in 1 .. n /\ new[m] = m
  <2>1. m \in 1 .. n /\ In(m)
    BY <1>1, <1>2
  <2>. QED BY <1>3, <2>1
<1>5. ASSUME NEW d \in 1 .. n PROVE new[d] \in 1 .. d /\ new[new[d]] = new[d]
  <2>1. ann[d] \in 1 .. d /\ ann[ann[d]] = ann[d] /\ ann[d] \in 1 .. n
    BY DEF Canonical, Anns
  <2>2. CASE In(d)
    <3>1. new[d] = m
      BY <1>3, <2>2
    <3>2. m <= ann[d]
      BY <1>2, <2>2
    <3>. QED BY <1>4, <2>1, <3>1, <3>2
  <2>3. CASE ~ In(d)
    <3>1. new[d] = ann[d] /\ ~ In(ann[d])
      BY <1>3, <2>1, <2>3
    <3>2. new[ann[d]] = ann[d]
      BY <1>3, <2>1, <3>1
    <3>. QED BY <2>1, <3>1, <3>2
  <2>. QED BY <2>2, <2>3
<1>. QED BY <1>5 DEF Canonical, new

\* So do all the rules.
LEMMA UnitedCanonical ==
  ASSUME NEW n \in Nat, NEW ann \in Anns(n), Canonical(n, ann), NEW pairs \in Pairs(n)
  PROVE  Canonical(n, United(ann, pairs))
<1>0. PICK g : UnitesOneByOne(n, pairs, ann, g) /\ United(ann, pairs) = g[pairs]
  BY UnitedFolds
<1>1. /\ g \in [SUBSET pairs -> Anns(n)]
      /\ g[{}] = ann
      /\ \A s \in SUBSET pairs : s # {} =>
           g[s] = Unite(g[s \ {Pick(s)}], Pick(s)[1], Pick(s)[2])
  BY <1>0 DEF UnitesOneByOne
<1>. DEFINE T == {s \in SUBSET pairs : Canonical(n, g[s])}
<1>2. Inductive(pairs, T)
  <2>. SUFFICES ASSUME NEW s \in SUBSET pairs, s # {}, Canonical(n, g[s \ {Pick(s)}])
                PROVE  Canonical(n, g[s])
    BY <1>1 DEF Inductive
  <2>1. Pick(s) \in pairs
    BY PickIn
  <2>2. Pick(s)[1] \in 1 .. n /\ Pick(s)[2] \in 1 .. n
    BY <2>1 DEF Pairs
  <2>3. g[s \ {Pick(s)}] \in Anns(n)
    BY <1>1
  <2>. QED BY <1>1, <2>2, <2>3, UniteCanonical
<1>3. IsFiniteSet(pairs)
  <2>1. IsFiniteSet(1 .. n)
    BY FS_Interval
  <2>2. IsFiniteSet((1 .. n) \X (1 .. n))
    BY <2>1, FS_Product
  <2>. QED BY <2>2, FS_Subset DEF Pairs
<1>4. pairs \in T
  <2>. HIDE DEF T
  <2>. QED BY <1>2, <1>3, SubsetInduction
<1>. QED BY <1>0, <1>1, <1>4

\* Whatever a rule says, what is stored is canonical.
LEMMA StoredCanonical ==
  ASSUME NEW n \in Nat, NEW rule
  PROVE  Meet(FullySymmetric(n), rule) \in Anns(n) /\ Canonical(n, Meet(FullySymmetric(n), rule))
<1>. DEFINE a == FullySymmetric(n)
            pairs == {p \in (1 .. n) \X (1 .. n) : p[2] < p[1] /\ a[p[1]] = a[p[2]] /\ rule[p[1]] = rule[p[2]]}
<1>1. a \in Anns(n)
  BY DEF FullySymmetric, Anns
<1>2. NotSymmetric(n) \in Anns(n) /\ Canonical(n, NotSymmetric(n))
  BY DEF NotSymmetric, Anns, Canonical
<1>. HIDE DEF a
<1>3. Meet(a, rule) = United(NotSymmetric(n), pairs)
  BY <1>1, LenOfAnn DEF Meet, Related
<1>4. pairs \in Pairs(n)
  BY DEF Pairs
<1>. HIDE DEF pairs
<1>. QED BY <1>2, <1>3, <1>4, UnitedType, UnitedCanonical DEF a

\* An operation pushes a value computed from earlier ones.
Pushed(operands) == \E op, perm, tensor, rule, exact : Push(op, operands, perm, tensor, rule, exact)
Built == Pushed(<<>>) \/ (\E v \in Value : Pushed(<<v>>)) \/ \E l, r \in Value : Pushed(<<l, r>>)

\* broadcast_in_dim does.
LEMMA BroadcastBuilds == ASSUME Broadcast PROVE Built
<1>1. PICK v \in Value, extra \in 1 .. 2 :
        LET t == values[v].tensor
            n == Rank(t) + extra
        IN  n <= MaxRank /\ \E dims \in [Dim(t) -> 1 .. n], widths \in [1 .. n -> Widths] :
              LET new == (1 .. n) \ Members(dims)
                  shape == [d \in 1 .. n |-> IF d \in new THEN widths[d]
                                             ELSE t.shape[CHOOSE k \in Dim(t) : dims[k] = d]]
              IN  /\ \A j, k \in Dim(t) : j # k => dims[j] # dims[k]
                  /\ \A d \in 1 .. n : d \notin new => widths[d] = CHOOSE w \in Widths : TRUE
                  /\ Push("broadcast", <<v>>, <<>>, Broadcasted(t, shape, dims),
                          PropagateBroadcast(values[v].ann, n, dims),
                          \A d, e \in new : shape[d] = shape[e])
  BY Zenon DEF Broadcast
<1>. DEFINE t == values[v].tensor
            n == Rank(t) + extra
<1>2. PICK dims \in [Dim(t) -> 1 .. n], widths \in [1 .. n -> Widths] :
        Push("broadcast", <<v>>, <<>>, Broadcasted(t, WiderShape(t, n, dims, widths), dims),
             PropagateBroadcast(values[v].ann, n, dims), OneWidth(t, n, dims, widths))
  BY <1>1, Zenon DEF WiderShape, OneWidth, AddedDims
<1>. QED BY <1>2, Zenon DEF Built, Pushed

\* dot_general does.
LEMMA DotBuilds == ASSUME Dot PROVE Built
<1>1. PICK l, r \in Value :
        LET s == values[l].tensor
            t == values[r].tensor
        IN  \E batch, contract \in Pairings(s, t) :
              LET ls == Free(s, 1, batch, contract)
                  rs == Free(t, 2, batch, contract)
              IN  /\ contract # <<>>
                  /\ Injective(Side(batch \o contract, 1)) /\ Injective(Side(batch \o contract, 2))
                  /\ Push("dot", <<l, r>>, <<>>, DotGeneral(s, t, batch, contract),
                          PropagateDotGeneral(values[l].ann, values[r].ann, ls, rs, batch, contract, RhsDimToLhs(l, r)),
                          ExchangeExact(ls, rs, contract, RhsDimToLhs(l, r)))
  BY Zenon DEF Dot
<1>2. Pushed(<<l, r>>)
  BY <1>1, Zenon DEF Pushed
<1>. QED BY <1>2, Zenon DEF Built

\* Every operation does.
LEMMA BuildBuilds == ASSUME Build PROVE Built
<1>2. CASE Argument
  BY <1>2, Zenon DEF Argument, Built, Pushed
<1>3. CASE Constant
  BY <1>3, Zenon DEF Constant, Built, Pushed
<1>4. CASE Transpose
  BY <1>4, Zenon DEF Transpose, Built, Pushed
<1>6. CASE Negate
  BY <1>6, Zenon DEF Negate, Built, Pushed
<1>7. CASE Add
  BY <1>7, Zenon DEF Add, Built, Pushed
<1>8. CASE Subtract
  BY <1>8, Zenon DEF Subtract, Built, Pushed
<1>. QED BY <1>2, <1>3, <1>4, <1>6, <1>7, <1>8, BroadcastBuilds, DotBuilds DEF Build

\* What is pushed is canonical and computed from earlier values.
LEMMA PushTyped ==
  ASSUME SymmetryInv, SymmetryInv', TypeOK, NEW op, NEW operands \in Seq(Value),
         NEW perm, NEW tensor, NEW rule, NEW exact,
         Push(op, operands, perm, tensor, rule, exact)
  PROVE  TypeOK'
<1>. DEFINE n == Rank(tensor)
            ann == Meet(FullySymmetric(n), rule)
            all == exact /\ \A k \in DOMAIN operands : values[operands[k]].exact
            x == [op |-> op, operands |-> operands, perm |-> perm, tensor |-> tensor,
                  ann |-> ann, exact |-> all]
            m == Len(values)
<1>1. values' = Append(values, x) /\ simplified' = simplified /\ op \in Operation
  BY DEF Push
<1>2. values \in Seq(Records) /\ values' \in Seq(Records) /\ m \in Nat /\ Value = 1 .. m
  BY LenProperties DEF SymmetryInv, Value
<1>. HIDE DEF x, m
<1>3. /\ Len(values') = m + 1 /\ values'[m + 1] = x /\ Value' = 1 .. m + 1
      /\ \A v \in Value : values'[v] = values[v]
  BY <1>1, <1>2 DEF m, Value
<1>4. x.op = op /\ x.operands = operands /\ x.tensor = tensor /\ x.ann = ann /\ x.exact = all
  BY DEF x
<1>5. IsTensor(tensor) /\ all \in BOOLEAN
  <2>1. x \in Records /\ ValueFits(values', x)
    BY <1>2, <1>3 DEF SymmetryInv
  <2>. HIDE DEF all
  <2>. QED BY <1>4, <2>1 DEF ValueFits, Records
<1>6. n \in Nat /\ Dim(tensor) = 1 .. n
  BY <1>5, TensorParts DEF Dim
<1>. HIDE DEF n, all
<1>7. ann \in Anns(n) /\ Canonical(n, ann)
  BY <1>6, StoredCanonical
<1>. HIDE DEF ann
<1>8. DOMAIN ann = 1 .. n /\ \A d \in DOMAIN ann : ann[d] \in 1 .. d /\ ann[ann[d]] = ann[d]
  BY <1>7 DEF Anns, Canonical
<1>9. \A k \in DOMAIN operands : operands[k] < m + 1
  <2>1. \A k \in DOMAIN operands : operands[k] \in Value
    BY LenProperties
  <2>. QED BY <1>2, <2>1
<1>10. ASSUME NEW v \in Value'
       PROVE  LET y == values'[v]
              IN  /\ y.op \in Operation /\ y.exact \in BOOLEAN
                  /\ DOMAIN y.ann = Dim(y.tensor)
                  /\ \A d \in DOMAIN y.ann : y.ann[d] \in 1 .. d /\ y.ann[y.ann[d]] = y.ann[d]
                  /\ \A k \in DOMAIN y.operands : y.operands[k] < v
  <2>1. CASE v \in Value
    BY <1>3, <2>1 DEF TypeOK
  <2>2. CASE v = m + 1
    BY <1>1, <1>3, <1>4, <1>5, <1>6, <1>8, <1>9, <2>2
  <2>. QED BY <1>2, <1>3, <2>1, <2>2
<1>11. ASSUME NEW v \in DOMAIN simplified' PROVE v \in Value' /\ simplified'[v] < v
  BY <1>1, <1>2, <1>3 DEF TypeOK
<1>. QED BY <1>10, <1>11 DEF TypeOK

\* A transpose is replaced by an earlier value.
LEMMA SimplifyTyped ==
  ASSUME SymmetryInv, TypeOK, NEW v \in Value, SimplifyTranspose(v) PROVE TypeOK'
<1>. DEFINE k == values[v].operands[1]
            o == Replaced(k)
<1>1. /\ values[v].op = "transpose" /\ values' = values
      /\ simplified' = [u \in DOMAIN simplified \union {v} |-> IF u = v \/ Replaced(u) = v THEN o ELSE Replaced(u)]
  BY DEF SimplifyTranspose
<1>2. k \in Value /\ k < v
  <2>1. ValueFits(values, values[v])
    BY DEF SymmetryInv
  <2>2. 1 \in DOMAIN values[v].operands
    BY <1>1, <2>1 DEF ValueFits, TransposeFits
  <2>. QED BY <2>1, <2>2 DEF ValueFits, Value, TypeOK
<1>3. Value \subseteq Int /\ \A u \in DOMAIN simplified : u \in Value /\ simplified[u] \in Value /\ simplified[u] < u
  BY DEF SymmetryInv, TypeOK, Value
<1>4. o \in Value /\ o < v
  <2>1. CASE k \in DOMAIN simplified
    <3>1. o = simplified[k]
      BY <2>1 DEF Replaced
    <3>. HIDE DEF k, o
    <3>. QED BY <1>2, <1>3, <2>1, <3>1
  <2>2. CASE k \notin DOMAIN simplified
    <3>1. o = k
      BY <2>2 DEF Replaced
    <3>. QED BY <1>2, <3>1
  <2>. QED BY <2>1, <2>2
<1>. HIDE DEF o, k
<1>5. ASSUME NEW u \in DOMAIN simplified' PROVE u \in Value /\ simplified'[u] < u
  <2>1. u \in DOMAIN simplified \union {v}
    BY <1>1
  <2>2. CASE u = v
    <3>1. simplified'[u] = o
      BY <1>1, <2>1, <2>2
    <3>. QED BY <1>4, <2>2, <3>1
  <2>3. CASE u # v
    <3>1. u \in DOMAIN simplified /\ Replaced(u) = simplified[u]
      BY <2>1, <2>3 DEF Replaced
    <3>2. simplified'[u] = IF simplified[u] = v THEN o ELSE simplified[u]
      BY <1>1, <2>3, <3>1
    <3>3. u \in Int /\ v \in Int /\ o \in Int /\ simplified[u] < u /\ u \in Value
      BY <1>3, <1>4, <3>1
    <3>. QED BY <1>4, <3>2, <3>3
  <2>. QED BY <2>2, <2>3
<1>6. Value' = Value
  BY <1>1 DEF Value
<1>. HIDE DEF SimplifyTranspose
<1>. QED BY <1>1, <1>5, <1>6 DEF TypeOK

\* Every step keeps this.
LEMMA StepTyped == SymmetryInv /\ SymmetryInv' /\ TypeOK /\ [Next]_vars => TypeOK'
<1>. SUFFICES ASSUME SymmetryInv, SymmetryInv', TypeOK, [Next]_vars PROVE TypeOK'
  OBVIOUS
<1>1. ASSUME NEW operands \in Seq(Value), Pushed(operands) PROVE TypeOK'
  <2>1. PICK op, perm, tensor, rule, exact : Push(op, operands, perm, tensor, rule, exact)
    BY <1>1 DEF Pushed
  <2>. QED BY <2>1, PushTyped
<1>2. CASE Build
  <2>1. Built
    BY <1>2, BuildBuilds
  <2>2. CASE Pushed(<<>>)
    <3>1. <<>> \in Seq(Value)
      OBVIOUS
    <3>. QED BY <1>1, <2>2, <3>1
  <2>3. CASE \E v \in Value : Pushed(<<v>>)
    <3>1. PICK v \in Value : Pushed(<<v>>)
      BY <2>3
    <3>2. <<v>> \in Seq(Value)
      OBVIOUS
    <3>. QED BY <1>1, <3>1, <3>2
  <2>4. CASE \E l, r \in Value : Pushed(<<l, r>>)
    <3>1. PICK l, r \in Value : Pushed(<<l, r>>)
      BY <2>4
    <3>2. <<l, r>> \in Seq(Value)
      OBVIOUS
    <3>. QED BY <1>1, <3>1, <3>2
  <2>. QED BY <2>1, <2>2, <2>3, <2>4 DEF Built
<1>3. CASE Rewrite
  <2>1. PICK v \in Value : SimplifyTranspose(v)
    BY <1>3 DEF Rewrite
  <2>. QED BY <2>1, SimplifyTyped
<1>4. CASE UNCHANGED vars
  <2>1. values' = values /\ simplified' = simplified
    BY <1>4 DEF vars
  <2>2. Value' = Value
    BY <2>1 DEF Value
  <2>. QED BY <2>1, <2>2 DEF TypeOK
<1>. QED BY <1>2, <1>3, <1>4 DEF Next

\* Annotations are canonical (canonicalize), operands come before what is computed
\* from them, and a replaced value's substitute before it.
THEOREM TypeCorrect == Spec => []TypeOK
<1>1. Init => TypeOK
  <2>. SUFFICES ASSUME Init PROVE TypeOK
    OBVIOUS
  <2>1. values = <<>> /\ simplified = <<>>
    BY DEF Init
  <2>2. Len(values) = 0 /\ DOMAIN simplified = {}
    BY <2>1
  <2>3. Value = {}
    BY <2>2 DEF Value
  <2>. QED BY <2>2, <2>3 DEF TypeOK
<1>. QED BY <1>1, StepTyped, SymmetryInvariant, PTL DEF Spec
=============================================================================

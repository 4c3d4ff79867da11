---------------------------- MODULE TensorLemmas ----------------------------
(***************************************************************************)
(* Facts about the reference definitions of tensors and their operations,  *)
(* for any rank, shape and value: what an operation computes is a tensor,  *)
(* and which dimensions of it may be swapped when those of its operands    *)
(* may be.                                                                 *)
(***************************************************************************)
EXTENDS Tensors, FoldLemmas

-----------------------------------------------------------------------------
(* Tensors *)

\* An equivalence of dimensions.
Equivalence(n, E) ==
  /\ \A i \in 1 .. n : <<i, i>> \in E
  /\ \A i, j \in 1 .. n : <<i, j>> \in E => <<j, i>> \in E
  /\ \A i, j, k \in 1 .. n : <<i, j>> \in E /\ <<j, k>> \in E => <<i, k>> \in E

\* A prefix of a shape has a largest size.
LEMMA LargestSize ==
  ASSUME NEW shape, IsShape(shape)
  PROVE  \E m \in {shape[d] : d \in 1 .. Len(shape)} \union {1} :
           \A x \in {shape[d] : d \in 1 .. Len(shape)} \union {1} : m >= x
<1>. DEFINE n == Len(shape)
            Sizes(k) == {shape[d] : d \in 1 .. k} \union {1}
            S == {k \in Nat : k <= n /\ \E m \in Sizes(k) : \A x \in Sizes(k) : m >= x}
<1>1. n \in Nat /\ \A d \in 1 .. n : shape[d] \in Nat
  BY LenProperties DEF IsShape
<1>2. 0 \in S
  BY <1>1
<1>3. \A k \in 0 .. n - 1 : k \in S => k + 1 \in S
  <2>. SUFFICES ASSUME NEW k \in 0 .. n - 1, k \in S PROVE k + 1 \in S
    OBVIOUS
  <2>1. PICK m \in Sizes(k) : \A x \in Sizes(k) : m >= x
    OBVIOUS
  <2>2. k + 1 \in Nat /\ k + 1 <= n /\ shape[k + 1] \in Nat /\ m \in Nat
    BY <1>1
  <2>3. \A x \in Sizes(k + 1) : x \in Sizes(k) \/ x = shape[k + 1]
    BY <1>1
  <2>4. m \in Sizes(k + 1) /\ shape[k + 1] \in Sizes(k + 1)
    BY <2>2
  <2>5. \A x \in Sizes(k + 1) : x \in Nat
    BY <1>1
  <2>6. CASE m >= shape[k + 1]
    BY <2>1, <2>2, <2>3, <2>4, <2>6
  <2>7. CASE ~ (m >= shape[k + 1])
    <3>1. \A x \in Sizes(k + 1) : shape[k + 1] >= x
      <4>. SUFFICES ASSUME NEW x \in Sizes(k + 1) PROVE shape[k + 1] >= x
        OBVIOUS
      <4>1. x \in Nat /\ (x \in Sizes(k) => m >= x)
        BY <2>1, <2>5
      <4>. QED BY <2>2, <2>3, <2>7, <4>1
    <3>. QED BY <2>2, <2>4, <3>1
  <2>. QED BY <2>6, <2>7
<1>4. n \in S
  <2>. HIDE DEF S, n
  <2>1. \A k \in 0 .. n : k \in S
    BY <1>1, <1>2, <1>3, UpTo
  <2>. QED BY <1>1, <2>1
<1>. QED BY <1>4

\* An index is within the size of each dimension.
Within(shape, i) ==
  /\ i \in [1 .. Len(shape) -> Nat]
  /\ \A d \in 1 .. Len(shape) : 1 <= i[d] /\ i[d] <= shape[d]

\* The indices of a shape are those within it.
LEMMA IndexIs ==
  ASSUME NEW shape, IsShape(shape)
  PROVE  \A i : i \in Index(shape) <=> Within(shape, i)
<1>. DEFINE sizes == {shape[d] : d \in 1 .. Len(shape)} \union {1}
            size == Max(sizes)
<1>1. Len(shape) \in Nat /\ \A d \in 1 .. Len(shape) : shape[d] \in Nat
  BY LenProperties DEF IsShape
<1>2. size \in sizes /\ \A x \in sizes : size >= x
  BY LargestSize DEF Max
<1>3. size \in Nat /\ \A d \in 1 .. Len(shape) : shape[d] <= size
  BY <1>1, <1>2
<1>4. Index(shape) =
        {i \in [1 .. Len(shape) -> 1 .. size] : \A d \in 1 .. Len(shape) : i[d] <= shape[d]}
  BY DEF Index
<1>. HIDE DEF size
<1>5. ASSUME NEW i, i \in Index(shape) PROVE Within(shape, i)
  BY <1>3, <1>4, <1>5 DEF Within
<1>6. ASSUME NEW i, Within(shape, i) PROVE i \in Index(shape)
  <2>1. \A d \in 1 .. Len(shape) : i[d] \in 1 .. size
    BY <1>1, <1>3, <1>6 DEF Within
  <2>. QED BY <1>4, <1>6, <2>1 DEF Within
<1>. QED BY <1>5, <1>6

-----------------------------------------------------------------------------
(* Exchanges of dimensions *)

\* The pairs of dimensions that may be swapped.
Swaps(t) == {p \in Dim(t) \X Dim(t) : Swappable(t, p[1], p[2])}

SwapOf(n, i, a, b) == [d \in 1 .. n |-> IF d = a THEN i[b] ELSE IF d = b THEN i[a] ELSE i[d]]

\* Swapping dimensions of one size leads to an index.
LEMMA SwappedIn ==
  ASSUME NEW shape, IsShape(shape), NEW a \in 1 .. Len(shape), NEW b \in 1 .. Len(shape),
         shape[a] = shape[b], NEW i \in Index(shape)
  PROVE  /\ Swapped(i, a, b) \in Index(shape)
         /\ Swapped(i, a, b) = SwapOf(Len(shape), i, a, b)
<1>1. Within(shape, i)
  BY IndexIs
<1>2. Swapped(i, a, b) = SwapOf(Len(shape), i, a, b)
  BY <1>1 DEF Swapped, SwapOf, Within
<1>3. Within(shape, Swapped(i, a, b))
  BY <1>1, <1>2 DEF SwapOf, Within
<1>. QED BY <1>2, <1>3, IndexIs

\* The dimensions that may be swapped with each other form an equivalence: a and
\* c are swapped by swapping a and b, b and c, a and b.
LEMMA SwapsEquivalence ==
  ASSUME NEW t, IsTensor(t) PROVE Equivalence(Rank(t), Swaps(t))
<1>. USE DEF Rank, Dim
<1>0. IsShape(t.shape) /\ t.at \in [Index(t.shape) -> Int] /\ Rank(t) \in Nat
  BY LenProperties DEF IsTensor, IsShape
<1>1. ASSUME NEW i \in Dim(t) PROVE Swappable(t, i, i)
  <2>. SUFFICES ASSUME NEW x \in Index(t.shape) PROVE t.at[Swapped(x, i, i)] = t.at[x]
    BY <1>0 DEF Swappable
  <2>1. Within(t.shape, x)
    BY <1>0, IndexIs
  <2>2. Swapped(x, i, i) = x
    BY <2>1 DEF Swapped, Within
  <2>. QED BY <2>2
<1>2. ASSUME NEW i \in Dim(t), NEW j \in Dim(t), Swappable(t, i, j) PROVE Swappable(t, j, i)
  <2>. SUFFICES ASSUME NEW x \in Index(t.shape) PROVE t.at[Swapped(x, j, i)] = t.at[x]
    BY <1>0, <1>2 DEF Swappable
  <2>0. t.shape[i] = t.shape[j]
    BY <1>2 DEF Swappable
  <2>1. Swapped(x, j, i) = Swapped(x, i, j)
    <3>1. Swapped(x, j, i) = SwapOf(Rank(t), x, j, i) /\ Swapped(x, i, j) = SwapOf(Rank(t), x, i, j)
      BY <1>0, <2>0, SwappedIn
    <3>2. SwapOf(Rank(t), x, j, i) = SwapOf(Rank(t), x, i, j)
      BY DEF SwapOf
    <3>. QED BY <3>1, <3>2
  <2>. QED BY <1>0, <1>2, <2>1 DEF Swappable
<1>3. ASSUME NEW i \in Dim(t), NEW j \in Dim(t), NEW k \in Dim(t), Swappable(t, i, j), Swappable(t, j, k)
      PROVE  Swappable(t, i, k)
  <2>. SUFFICES ASSUME NEW x \in Index(t.shape) PROVE t.at[Swapped(x, i, k)] = t.at[x]
    BY <1>0, <1>3 DEF Swappable
  <2>0. t.shape[i] = t.shape[j] /\ t.shape[j] = t.shape[k]
    BY <1>3 DEF Swappable
  <2>. DEFINE y == Swapped(x, i, j)
              z == Swapped(y, j, k)
  <2>1. y \in Index(t.shape) /\ y = SwapOf(Rank(t), x, i, j)
    BY <1>0, <2>0, SwappedIn
  <2>. HIDE DEF y
  <2>2. z \in Index(t.shape) /\ z = SwapOf(Rank(t), y, j, k)
    BY <1>0, <2>0, <2>1, SwappedIn
  <2>. HIDE DEF z
  <2>3. Swapped(z, i, j) = SwapOf(Rank(t), z, i, j)
    BY <1>0, <2>0, <2>2, SwappedIn
  <2>4. Swapped(x, i, k) = SwapOf(Rank(t), x, i, k)
    BY <1>0, <2>0, SwappedIn
  <2>5. t.at[y] = t.at[x] /\ t.at[z] = t.at[y] /\ t.at[Swapped(z, i, j)] = t.at[z]
    BY <1>0, <1>3, <2>1, <2>2 DEF Swappable, y, z
  <2>6. CASE i = k
    <3>1. Swapped(x, i, k) = x
      <4>1. Within(t.shape, x)
        BY <1>0, IndexIs
      <4>. QED BY <2>6, <4>1 DEF Swapped, Within
    <3>. QED BY <3>1
  <2>7. CASE i # k /\ j = k
    BY <1>0, <1>3, <2>7 DEF Swappable
  <2>8. CASE i # k /\ j # k
    <3>1. Swapped(x, i, k) = Swapped(z, i, j)
      BY <2>1, <2>2, <2>3, <2>4, <2>8 DEF SwapOf
    <3>. QED BY <2>5, <3>1
  <2>. QED BY <2>6, <2>7, <2>8
<1>. QED BY <1>1, <1>2, <1>3 DEF Equivalence, Swaps

-----------------------------------------------------------------------------
(* The operations with a rule that is always right *)

\* What is computed index by index is a tensor.
LEMMA TensorIs ==
  ASSUME NEW shape, IsShape(shape), NEW f, f \in [Index(shape) -> Int],
         NEW t, t = [shape |-> shape, at |-> f]
  PROVE  IsTensor(t) /\ t.shape = shape /\ t.at = f /\ Rank(t) = Len(shape) /\ Rank(t) \in Nat
BY LenProperties DEF IsTensor, IsShape, Rank

\* The parts of a tensor.
LEMMA TensorParts ==
  ASSUME NEW t, IsTensor(t)
  PROVE  /\ IsShape(t.shape) /\ t.at \in [Index(t.shape) -> Int] /\ DOMAIN t.at = Index(t.shape)
         /\ Rank(t) = Len(t.shape) /\ Rank(t) \in Nat
         /\ \A d \in Dim(t) : t.shape[d] \in Nat
BY LenProperties DEF IsTensor, IsShape, Rank, Dim

\* The sign changes no symmetry.
LEMMA NegateRule ==
  ASSUME NEW t, IsTensor(t)
  PROVE  IsTensor(Negated(t)) /\ Rank(Negated(t)) = Rank(t) /\ Swaps(t) \subseteq Swaps(Negated(t))
<1>. DEFINE u == Negated(t)
            f == [i \in Index(t.shape) |-> -t.at[i]]
<1>1. u = [shape |-> t.shape, at |-> f] /\ f \in [Index(t.shape) -> Int]
  BY TensorParts DEF Negated, Tensor
<1>2. IsTensor(u) /\ u.shape = t.shape /\ u.at = f /\ Rank(u) = Rank(t)
  BY <1>1, TensorParts, TensorIs
<1>3. ASSUME NEW a \in Dim(t), NEW b \in Dim(t), Swappable(t, a, b) PROVE Swappable(u, a, b)
  <2>1. t.shape[a] = t.shape[b]
    BY <1>3 DEF Swappable
  <2>2. ASSUME NEW i \in Index(t.shape) PROVE u.at[Swapped(i, a, b)] = u.at[i]
    <3>1. Swapped(i, a, b) \in Index(t.shape)
      BY <2>1, TensorParts, SwappedIn DEF Dim
    <3>2. t.at[Swapped(i, a, b)] = t.at[i]
      BY <1>3, TensorParts DEF Swappable
    <3>. QED BY <1>2, <3>1, <3>2
  <2>. QED BY <1>2, <2>1, <2>2 DEF Swappable
<1>. QED BY <1>2, <1>3 DEF Swaps, Dim

Inverts(n, p) ==
  /\ p \in [1 .. n -> 1 .. n] /\ InversePerm(p) \in [1 .. n -> 1 .. n]
  /\ \A d \in 1 .. n : p[InversePerm(p)[d]] = d /\ InversePerm(p)[p[d]] = d
  /\ \A d, e \in 1 .. n : p[d] = p[e] => d = e

\* A permutation has an inverse.
LEMMA PermFacts == ASSUME NEW n \in Nat, NEW p \in Perms(n) PROVE Inverts(n, p)
<1>1. p \in [1 .. n -> 1 .. n] /\ \A d \in 1 .. n : \E e \in 1 .. n : p[e] = d
  BY DEF Perms
<1>2. \A d \in 1 .. n : InversePerm(p)[d] \in 1 .. n /\ p[InversePerm(p)[d]] = d
  BY <1>1 DEF InversePerm
<1>3. IsFiniteSet(1 .. n)
  BY FS_Interval
<1>4. p \in Surjection(1 .. n, 1 .. n)
  BY <1>1 DEF Surjection
<1>5. p \in Injection(1 .. n, 1 .. n)
  BY <1>3, <1>4, FS_SurjSameCardinalityImpliesInj
<1>6. \A d, e \in 1 .. n : p[d] = p[e] => d = e
  BY <1>5 DEF Injection, IsInjective
<1>7. \A d \in 1 .. n : InversePerm(p)[p[d]] = d
  BY <1>1, <1>2, <1>6
<1>8. InversePerm(p) \in [1 .. n -> 1 .. n]
  BY <1>1, <1>2 DEF InversePerm
<1>. QED BY <1>1, <1>2, <1>6, <1>7, <1>8 DEF Inverts

\* The index of the operand that an index of the transpose stands for.
ReadAt(n, p, x) == [d \in 1 .. n |-> x[InversePerm(p)[d]]]

\* What a transpose computes.
LEMMA TransposedIs ==
  ASSUME NEW t, IsTensor(t), NEW p \in Perms(Rank(t))
  PROVE  /\ IsTensor(Transposed(t, p)) /\ Rank(Transposed(t, p)) = Rank(t)
         /\ \A d \in Dim(t) : Transposed(t, p).shape[d] = t.shape[p[d]]
         /\ \A x \in Index(Transposed(t, p).shape) :
              /\ ReadAt(Rank(t), p, x) \in Index(t.shape)
              /\ Transposed(t, p).at[x] = t.at[ReadAt(Rank(t), p, x)]
<1>. DEFINE n == Rank(t)
            u == Transposed(t, p)
            shape == [d \in 1 .. n |-> t.shape[p[d]]]
            f == [x \in Index(shape) |-> t.at[ReadAt(n, p, x)]]
<1>1. n \in Nat /\ \A d \in 1 .. n : t.shape[d] \in Nat
  BY TensorParts DEF Dim
<1>2. shape \in [1 .. n -> Nat]
  <2>1. Inverts(n, p)
    BY <1>1, PermFacts
  <2>2. \A d \in 1 .. n : p[d] \in 1 .. n
    BY <2>1 DEF Inverts
  <2>. QED BY <1>1, <2>2
<1>3. IsShape(shape) /\ Len(shape) = n
  BY <1>1, <1>2 DEF IsShape
<1>4. u = [shape |-> shape, at |-> f]
  BY DEF Transposed, Tensor, Dim, ReadAt
<1>5. ASSUME NEW x \in Index(shape) PROVE ReadAt(n, p, x) \in Index(t.shape)
  <2>1. Within(shape, x)
    BY <1>3, IndexIs
  <2>2. ASSUME NEW d \in 1 .. n
        PROVE  x[InversePerm(p)[d]] \in Nat /\ 1 <= x[InversePerm(p)[d]] /\ x[InversePerm(p)[d]] <= t.shape[d]
    <3>1. InversePerm(p)[d] \in 1 .. n /\ p[InversePerm(p)[d]] = d
      BY <1>1, PermFacts DEF Inverts
    <3>2. shape[InversePerm(p)[d]] = t.shape[d]
      BY <3>1
    <3>. HIDE DEF shape
    <3>. QED BY <1>3, <2>1, <3>1, <3>2 DEF Within
  <2>3. Within(t.shape, ReadAt(n, p, x))
    BY <1>1, <2>2, TensorParts DEF Within, ReadAt
  <2>. QED BY <2>3, IndexIs, TensorParts
<1>. HIDE DEF shape
<1>6. f \in [Index(shape) -> Int]
  BY <1>5, TensorParts
<1>7. IsTensor(u) /\ u.shape = shape /\ u.at = f /\ Rank(u) = n
  BY <1>3, <1>4, <1>6, TensorIs
<1>. QED BY <1>5, <1>7 DEF shape, Dim

\* Dimensions of a transpose may be swapped when those of the operand may be.
LEMMA TransposeRule ==
  ASSUME NEW t, IsTensor(t), NEW p \in Perms(Rank(t)), NEW i \in Dim(t), NEW j \in Dim(t),
         <<p[i], p[j]>> \in Swaps(t)
  PROVE  <<i, j>> \in Swaps(Transposed(t, p))
<1>. DEFINE n == Rank(t)
            u == Transposed(t, p)
<1>0. n \in Nat /\ Dim(t) = 1 .. n /\ Dim(u) = 1 .. n
  BY TensorParts, TransposedIs DEF Dim
<1>1. p[i] \in 1 .. n /\ p[j] \in 1 .. n /\ Swappable(t, p[i], p[j])
  BY <1>0 DEF Swaps
<1>2. u.shape[i] = u.shape[j]
  BY <1>1, TransposedIs DEF Swappable
<1>3. ASSUME NEW x \in Index(u.shape) PROVE u.at[Swapped(x, i, j)] = u.at[x]
  <2>. DEFINE y == Swapped(x, i, j)
              r == ReadAt(n, p, x)
  <2>1. y \in Index(u.shape) /\ y = SwapOf(n, x, i, j)
    <3>1. IsShape(u.shape) /\ Len(u.shape) = n
      BY TransposedIs, TensorParts
    <3>. QED BY <1>0, <1>2, <3>1, SwappedIn
  <2>2. r \in Index(t.shape) /\ u.at[x] = t.at[r]
    BY TransposedIs
  <2>. HIDE DEF y
  <2>3. u.at[y] = t.at[ReadAt(n, p, y)]
    BY <2>1, TransposedIs
  <2>4. ReadAt(n, p, y) = SwapOf(n, r, p[i], p[j])
    <3>1. ASSUME NEW d \in 1 .. n PROVE ReadAt(n, p, y)[d] = SwapOf(n, r, p[i], p[j])[d]
      <4>1. InversePerm(p)[d] \in 1 .. n /\ p[InversePerm(p)[d]] = d
            /\ InversePerm(p)[p[i]] = i /\ InversePerm(p)[p[j]] = j
        <5>1. Inverts(n, p)
          BY <1>0, PermFacts
        <5>2. i \in 1 .. n /\ j \in 1 .. n
          BY <1>0
        <5>. QED BY <5>1, <5>2 DEF Inverts
      <4>. QED BY <1>0, <1>1, <2>1, <4>1 DEF ReadAt, SwapOf
    <3>. QED BY <3>1 DEF ReadAt, SwapOf
  <2>5. Swapped(r, p[i], p[j]) = SwapOf(n, r, p[i], p[j])
    <3>1. t.shape[p[i]] = t.shape[p[j]] /\ IsShape(t.shape) /\ Len(t.shape) = n
      BY <1>1, TensorParts DEF Swappable
    <3>. QED BY <1>1, <2>2, <3>1, SwappedIn
  <2>6. t.at[Swapped(r, p[i], p[j])] = t.at[r]
    BY <1>1, <2>2, TensorParts DEF Swappable
  <2>. QED BY <2>2, <2>3, <2>4, <2>5, <2>6 DEF y
<1>4. DOMAIN u.at = Index(u.shape)
  BY TransposedIs, TensorParts
<1>. QED BY <1>0, <1>2, <1>3, <1>4 DEF Swaps, Swappable

\* The dimensions of the operand go to different ones of the result, of their sizes.
Spreads(t, shape, dims) ==
  /\ IsShape(shape) /\ dims \in [Dim(t) -> 1 .. Len(shape)]
  /\ \A j, k \in Dim(t) : dims[j] = dims[k] => j = k
  /\ \A k \in Dim(t) : shape[dims[k]] = t.shape[k]

\* The index of the operand of a broadcast; where its size is one there is only
\* one index.
ReadWide(t, dims, x) == [d \in Dim(t) |-> IF t.shape[d] = 1 THEN 1 ELSE x[dims[d]]]

\* What a broadcast computes.
LEMMA BroadcastedIs ==
  ASSUME NEW t, IsTensor(t), NEW shape, NEW dims, Spreads(t, shape, dims)
  PROVE  /\ IsTensor(Broadcasted(t, shape, dims)) /\ Broadcasted(t, shape, dims).shape = shape
         /\ Rank(Broadcasted(t, shape, dims)) = Len(shape)
         /\ \A x \in Index(shape) :
              /\ ReadWide(t, dims, x) \in Index(t.shape)
              /\ \A d \in Dim(t) : ReadWide(t, dims, x)[d] = x[dims[d]]
              /\ Broadcasted(t, shape, dims).at[x] = t.at[ReadWide(t, dims, x)]
<1>. DEFINE u == Broadcasted(t, shape, dims)
            f == [x \in Index(shape) |-> t.at[ReadWide(t, dims, x)]]
<1>1. u = [shape |-> shape, at |-> f]
  BY DEF Broadcasted, Tensor, ReadWide
<1>2. ASSUME NEW x \in Index(shape)
      PROVE  ReadWide(t, dims, x) \in Index(t.shape) /\ \A d \in Dim(t) : ReadWide(t, dims, x)[d] = x[dims[d]]
  <2>1. Within(shape, x)
    BY IndexIs DEF Spreads
  <2>2. ASSUME NEW d \in Dim(t)
        PROVE  ReadWide(t, dims, x)[d] = x[dims[d]] /\ x[dims[d]] \in Nat /\ 1 <= x[dims[d]] /\ x[dims[d]] <= t.shape[d]
    BY <2>1 DEF Within, Spreads, ReadWide
  <2>3. Within(t.shape, ReadWide(t, dims, x))
    <3>1. ReadWide(t, dims, x) \in [Dim(t) -> Nat]
      BY <2>2 DEF ReadWide
    <3>. QED BY <2>2, <3>1, TensorParts DEF Within, Dim
  <2>. QED BY <2>2, <2>3, IndexIs, TensorParts
<1>3. f \in [Index(shape) -> Int]
  BY <1>2, TensorParts
<1>4. IsTensor(u) /\ u.shape = shape /\ u.at = f /\ Rank(u) = Len(shape)
  BY <1>1, <1>3, TensorIs DEF Spreads
<1>. QED BY <1>2, <1>4

\* Dimensions of the operand keep their symmetry.
LEMMA BroadcastKept ==
  ASSUME NEW t, IsTensor(t), NEW shape, NEW dims, Spreads(t, shape, dims),
         NEW a \in Dim(t), NEW b \in Dim(t), <<a, b>> \in Swaps(t)
  PROVE  <<dims[a], dims[b]>> \in Swaps(Broadcasted(t, shape, dims))
<1>. DEFINE u == Broadcasted(t, shape, dims)
            n == Len(shape)
            i == dims[a]
            j == dims[b]
<1>0. IsTensor(u) /\ u.shape = shape /\ Rank(u) = n /\ n \in Nat /\ Dim(u) = 1 .. n /\ DOMAIN u.at = Index(shape)
  BY BroadcastedIs, TensorParts DEF Dim
<1>1. i \in 1 .. n /\ j \in 1 .. n /\ shape[i] = t.shape[a] /\ shape[j] = t.shape[b]
      /\ \A d \in Dim(t) : (dims[d] = i => d = a) /\ (dims[d] = j => d = b)
  BY DEF Spreads
<1>2. t.shape[a] = t.shape[b] /\ Swappable(t, a, b)
  BY DEF Swaps, Swappable
<1>3. ASSUME NEW x \in Index(shape) PROVE u.at[Swapped(x, i, j)] = u.at[x]
  <2>. DEFINE y == Swapped(x, i, j)
              r == ReadWide(t, dims, x)
              q == ReadWide(t, dims, y)
  <2>1. y \in Index(shape) /\ y = SwapOf(n, x, i, j)
    BY <1>1, <1>2, SwappedIn DEF Spreads
  <2>. HIDE DEF y
  <2>2. r \in Index(t.shape) /\ u.at[x] = t.at[r] /\ \A d \in Dim(t) : r[d] = x[dims[d]]
    BY BroadcastedIs
  <2>3. q \in Index(t.shape) /\ u.at[y] = t.at[q] /\ \A d \in Dim(t) : q[d] = y[dims[d]]
    BY <2>1, BroadcastedIs
  <2>4. Swapped(r, a, b) = SwapOf(Rank(t), r, a, b)
    BY <1>2, <2>2, TensorParts, SwappedIn DEF Dim
  <2>5. q = SwapOf(Rank(t), r, a, b)
    <3>1. ASSUME NEW d \in Dim(t) PROVE q[d] = SwapOf(Rank(t), r, a, b)[d]
      <4>1. dims[d] \in 1 .. n
        BY DEF Spreads
      <4>2. y[dims[d]] = IF dims[d] = i THEN x[j] ELSE IF dims[d] = j THEN x[i] ELSE x[dims[d]]
        BY <2>1, <4>1 DEF SwapOf
      <4>3. r[a] = x[i] /\ r[b] = x[j] /\ r[d] = x[dims[d]]
        BY <2>2
      <4>. HIDE DEF i, j, r, q
      <4>4. (dims[d] = i <=> d = a) /\ (dims[d] = j <=> d = b)
        BY <1>1 DEF i, j
      <4>. QED BY <2>3, <4>2, <4>3, <4>4 DEF SwapOf, Dim
    <3>2. DOMAIN q = Dim(t)
      BY DEF ReadWide
    <3>. QED BY <3>1, <3>2 DEF SwapOf, Dim, ReadWide
  <2>6. t.at[Swapped(r, a, b)] = t.at[r]
    BY <1>2, <2>2, TensorParts DEF Swappable
  <2>. QED BY <2>2, <2>3, <2>4, <2>5, <2>6 DEF y
<1>. QED BY <1>0, <1>1, <1>2, <1>3 DEF Swaps, Swappable

\* Dimensions that were added are all alike, where they are of one size.
LEMMA BroadcastAdded ==
  ASSUME NEW t, IsTensor(t), NEW shape, NEW dims, Spreads(t, shape, dims),
         NEW i \in 1 .. Len(shape), NEW j \in 1 .. Len(shape), shape[i] = shape[j],
         \A k \in Dim(t) : dims[k] # i /\ dims[k] # j
  PROVE  <<i, j>> \in Swaps(Broadcasted(t, shape, dims))
<1>. DEFINE u == Broadcasted(t, shape, dims)
            n == Len(shape)
<1>0. IsTensor(u) /\ u.shape = shape /\ Rank(u) = n /\ n \in Nat /\ Dim(u) = 1 .. n /\ DOMAIN u.at = Index(shape)
  BY BroadcastedIs, TensorParts DEF Dim
<1>1. ASSUME NEW x \in Index(shape) PROVE u.at[Swapped(x, i, j)] = u.at[x]
  <2>. DEFINE y == Swapped(x, i, j)
  <2>1. y \in Index(shape) /\ y = SwapOf(n, x, i, j)
    BY SwappedIn DEF Spreads
  <2>. HIDE DEF y
  <2>2. ReadWide(t, dims, y) = ReadWide(t, dims, x)
    <3>1. ASSUME NEW d \in Dim(t) PROVE y[dims[d]] = x[dims[d]]
      <4>1. dims[d] \in 1 .. n
        BY DEF Spreads
      <4>. QED BY <2>1, <4>1 DEF SwapOf
    <3>. QED BY <3>1 DEF ReadWide
  <2>. QED BY <2>1, <2>2, BroadcastedIs DEF y
<1>. QED BY <1>0, <1>1 DEF Swaps, Swappable

\* A sum is computed index by index.
LEMMA AddedIs ==
  ASSUME NEW s, IsTensor(s), NEW t, IsTensor(t), s.shape = t.shape
  PROVE  /\ IsTensor(Added(s, t)) /\ Added(s, t).shape = s.shape /\ Rank(Added(s, t)) = Rank(s)
         /\ \A x \in Index(s.shape) : Added(s, t).at[x] = s.at[x] + t.at[x]
<1>. DEFINE u == Added(s, t)
            f == [x \in Index(s.shape) |-> s.at[x] + t.at[x]]
<1>1. u = [shape |-> s.shape, at |-> f]
  BY DEF Added, Tensor
<1>2. f \in [Index(s.shape) -> Int]
  BY TensorParts
<1>3. IsTensor(u) /\ u.shape = s.shape /\ u.at = f /\ Rank(u) = Rank(s)
  BY <1>1, <1>2, TensorParts, TensorIs
<1>. QED BY <1>3

\* A sum has the symmetries of both operands.
LEMMA AddRule ==
  ASSUME NEW s, IsTensor(s), NEW t, IsTensor(t), s.shape = t.shape,
         NEW i \in Dim(s), NEW j \in Dim(s), <<i, j>> \in Swaps(s), <<i, j>> \in Swaps(t)
  PROVE  <<i, j>> \in Swaps(Added(s, t))
<1>. DEFINE u == Added(s, t)
<1>1. /\ Rank(s) = Len(s.shape) /\ Rank(t) = Rank(s) /\ Rank(u) = Rank(s)
      /\ DOMAIN s.at = Index(s.shape) /\ DOMAIN t.at = Index(s.shape) /\ DOMAIN u.at = Index(s.shape)
      /\ u.shape = s.shape /\ IsShape(s.shape)
  BY AddedIs, TensorParts DEF Rank
<1>2. s.shape[i] = s.shape[j] /\ Swappable(s, i, j) /\ Swappable(t, i, j)
  BY DEF Swaps, Swappable
<1>3. ASSUME NEW x \in Index(s.shape) PROVE u.at[Swapped(x, i, j)] = u.at[x]
  <2>1. Swapped(x, i, j) \in Index(s.shape)
    BY <1>1, <1>2, SwappedIn DEF Dim
  <2>2. s.at[Swapped(x, i, j)] = s.at[x] /\ t.at[Swapped(x, i, j)] = t.at[x]
    BY <1>1, <1>2 DEF Swappable
  <2>3. u.at[x] = s.at[x] + t.at[x] /\ u.at[Swapped(x, i, j)] = s.at[Swapped(x, i, j)] + t.at[Swapped(x, i, j)]
    BY <2>1, AddedIs
  <2>. QED BY <2>2, <2>3
<1>. QED BY <1>1, <1>2, <1>3 DEF Swaps, Swappable, Dim

Exchange(n, a, b) == [d \in 1 .. n |-> IF d = a THEN b ELSE IF d = b THEN a ELSE d]

\* w is the sum of s and t.
AddsUp(w, s, t) == w.shape = s.shape /\ \A x \in Index(s.shape) : w.at[x] = s.at[x] + t.at[x]

\* A tensor and its transpose by an exchange add up to a tensor in which the
\* exchanged dimensions may be swapped.
LEMMA ExchangeRule ==
  ASSUME NEW t, IsTensor(t), NEW a \in Dim(t), NEW b \in Dim(t), a # b,
         NEW p \in Perms(Rank(t)), p = Exchange(Rank(t), a, b),
         NEW u, IsTensor(u), u = Transposed(t, p), u.shape = t.shape,
         NEW w, IsTensor(w), AddsUp(w, t, u)
  PROVE  <<a, b>> \in Swaps(w) /\ <<b, a>> \in Swaps(w)
<1>. DEFINE n == Rank(t)
<1>0. w.shape = t.shape /\ \A x \in Index(t.shape) : w.at[x] = t.at[x] + u.at[x]
  BY DEF AddsUp
<1>1. n \in Nat /\ Dim(t) = 1 .. n /\ n = Len(t.shape) /\ IsShape(t.shape) /\ Rank(w) = n
      /\ DOMAIN w.at = Index(t.shape) /\ t.at \in [Index(t.shape) -> Int]
  BY <1>0, TensorParts DEF Dim, Rank
<1>2. t.shape[a] = t.shape[b]
  <2>1. u.shape[a] = t.shape[p[a]]
    BY TransposedIs
  <2>. QED BY <1>1, <2>1 DEF Exchange
<1>3. ASSUME NEW x \in Index(t.shape) PROVE u.at[x] = t.at[Swapped(x, a, b)]
  <2>1. Inverts(n, p)
    BY <1>1, PermFacts
  <2>2. ReadAt(n, p, x) = SwapOf(n, x, a, b)
    <3>1. \A d \in 1 .. n : InversePerm(p)[d] = p[d]
      <4>. SUFFICES ASSUME NEW d \in 1 .. n PROVE InversePerm(p)[d] = p[d]
        OBVIOUS
      <4>1. p[p[d]] = d /\ p[d] \in 1 .. n
        BY <1>1, <2>1 DEF Exchange
      <4>2. InversePerm(p)[d] \in 1 .. n /\ p[InversePerm(p)[d]] = d
        BY <2>1 DEF Inverts
      <4>. QED BY <2>1, <4>1, <4>2 DEF Inverts
    <3>2. \A d \in 1 .. n : x[p[d]] = IF d = a THEN x[b] ELSE IF d = b THEN x[a] ELSE x[d]
      BY DEF Exchange
    <3>. QED BY <3>1, <3>2 DEF ReadAt, SwapOf
  <2>3. Swapped(x, a, b) = SwapOf(n, x, a, b)
    BY <1>1, <1>2, SwappedIn
  <2>. QED BY <2>2, <2>3, TransposedIs
<1>4. ASSUME NEW x \in Index(t.shape)
      PROVE  w.at[Swapped(x, a, b)] = w.at[x] /\ Swapped(x, b, a) = Swapped(x, a, b)
  <2>. DEFINE y == Swapped(x, a, b)
  <2>1. y \in Index(t.shape) /\ y = SwapOf(n, x, a, b)
    BY <1>1, <1>2, SwappedIn
  <2>. HIDE DEF y
  <2>2. Swapped(y, a, b) = SwapOf(n, y, a, b)
    BY <1>1, <1>2, <2>1, SwappedIn
  <2>3. Swapped(x, b, a) = SwapOf(n, x, b, a)
    BY <1>1, <1>2, SwappedIn
  <2>4. Within(t.shape, x)
    BY <1>1, IndexIs
  <2>5. SwapOf(n, y, a, b) = x /\ SwapOf(n, x, b, a) = y
    BY <1>1, <2>1, <2>4 DEF SwapOf, Within
  <2>6. w.at[y] = t.at[y] + t.at[x] /\ w.at[x] = t.at[x] + t.at[y]
    BY <1>0, <1>3, <2>1, <2>2, <2>5 DEF y
  <2>7. t.at[x] \in Int /\ t.at[y] \in Int
    BY <1>1, <2>1
  <2>. QED BY <2>3, <2>5, <2>6, <2>7 DEF y
<1>. QED BY <1>0, <1>1, <1>2, <1>4 DEF Swaps, Swappable, Dim

-----------------------------------------------------------------------------
(* Permutations within the sets of an annotation *)

\* p moves dimensions to such as they may be swapped with.
MovesWithin(t, p) == p \in Perms(Rank(t)) /\ \A d \in Dim(t) : <<d, p[d]>> \in Swaps(t)

Moving(n, p, x) == [d \in 1 .. n |-> x[p[d]]]

\* The tensor has the same value at the index with its positions moved.
KeepsValues(t, p) ==
  \A x \in Index(t.shape) : Moving(Rank(t), p, x) \in Index(t.shape) /\ t.at[Moving(Rank(t), p, x)] = t.at[x]

FixedAbove(n, p, k) == \A d \in 1 .. n : d > k => p[d] = d

\* p is an exchange of k + 1 and b after q, which leaves k + 1 alone.
EndsWithExchange(t, k, p, q, b) ==
  /\ b \in Dim(t) /\ <<k + 1, b>> \in Swaps(t)
  /\ MovesWithin(t, q) /\ FixedAbove(Rank(t), q, k)
  /\ \A d \in Dim(t) :
       p[d] = IF d = k + 1 THEN q[b] ELSE IF d = b THEN q[k + 1] ELSE q[d]

\* A permutation that leaves the dimensions above k + 1 alone is an exchange after
\* one that leaves k + 1 alone as well.
LEMMA OneFixedMore ==
  ASSUME NEW t, IsTensor(t), NEW k \in 0 .. Rank(t) - 1,
         NEW p, MovesWithin(t, p), FixedAbove(Rank(t), p, k + 1)
  PROVE  \E q, b : EndsWithExchange(t, k, p, q, b)
<1>. DEFINE n == Rank(t)
            a == k + 1
<1>0. n \in Nat /\ Dim(t) = 1 .. n /\ a \in 1 .. n
  BY TensorParts DEF Dim
<1>. HIDE DEF a
<1>1. Inverts(n, p) /\ Equivalence(n, Swaps(t))
  BY <1>0, PermFacts, SwapsEquivalence DEF MovesWithin
<1>2. p \in [1 .. n -> 1 .. n] /\ \A d, e \in 1 .. n : p[d] = p[e] => d = e
  BY <1>1 DEF Inverts
<1>3. PICK b \in 1 .. n : p[b] = a
  BY <1>0, <1>1 DEF Inverts
<1>. DEFINE q == [d \in 1 .. n |-> IF d = a THEN a ELSE IF d = b THEN p[a] ELSE p[d]]
<1>4. q \in Perms(n)
  <2>1. q \in [1 .. n -> 1 .. n]
    BY <1>0, <1>2
  <2>2. ASSUME NEW d \in 1 .. n PROVE \E e \in 1 .. n : q[e] = d
    <3>1. PICK e \in 1 .. n : p[e] = d
      BY <1>1 DEF Inverts
    <3>2. CASE d = a
      BY <1>0, <3>2
    <3>3. CASE d # a /\ e = a
      <4>1. b # a /\ q[b] = d
        BY <1>3, <3>1, <3>3
      <4>. QED BY <4>1
    <3>4. CASE d # a /\ e # a
      <4>1. q[e] = d
        BY <1>3, <3>1, <3>4
      <4>. QED BY <4>1
    <3>. QED BY <3>2, <3>3, <3>4
  <2>. QED BY <2>1, <2>2 DEF Perms
<1>5. <<b, a>> \in Swaps(t) /\ <<a, b>> \in Swaps(t) /\ <<a, p[a]>> \in Swaps(t)
  <2>1. <<b, p[b]>> \in Swaps(t) /\ <<a, p[a]>> \in Swaps(t)
    BY <1>0, <1>3 DEF MovesWithin
  <2>. QED BY <1>0, <1>1, <1>3, <2>1 DEF Equivalence
<1>6. ASSUME NEW d \in 1 .. n PROVE <<d, q[d]>> \in Swaps(t)
  <2>1. <<d, p[d]>> \in Swaps(t) /\ <<d, d>> \in Swaps(t)
    BY <1>0, <1>1 DEF MovesWithin, Equivalence
  <2>2. <<b, p[a]>> \in Swaps(t)
    BY <1>0, <1>1, <1>2, <1>5 DEF Equivalence
  <2>. QED BY <2>1, <2>2
<1>7. FixedAbove(n, q, k)
  <2>. SUFFICES ASSUME NEW d \in 1 .. n, d > k, d # a PROVE q[d] = d
    BY <1>0 DEF FixedAbove
  <2>1. p[d] = d
    BY <1>0 DEF FixedAbove, a
  <2>. QED BY <1>3, <2>1
<1>8. \A d \in 1 .. n : p[d] = IF d = a THEN q[b] ELSE IF d = b THEN q[a] ELSE q[d]
  BY <1>0, <1>3
<1>9. MovesWithin(t, q)
  BY <1>0, <1>4, <1>6 DEF MovesWithin
<1>. HIDE DEF q
<1>10. EndsWithExchange(t, k, p, q, b)
  BY <1>0, <1>3, <1>5, <1>7, <1>8, <1>9 DEF a, EndsWithExchange
<1>. QED BY <1>10

\* By induction on the number of dimensions that may move, such a permutation
\* keeps all values.
LEMMA WithinKeeps ==
  ASSUME NEW t, IsTensor(t), NEW p, MovesWithin(t, p) PROVE KeepsValues(t, p)
<1>. DEFINE n == Rank(t)
            S == {k \in 0 .. n : \A r : MovesWithin(t, r) /\ FixedAbove(n, r, k) => KeepsValues(t, r)}
<1>0. n \in Nat /\ Dim(t) = 1 .. n /\ n = Len(t.shape) /\ IsShape(t.shape) /\ DOMAIN t.at = Index(t.shape)
  BY TensorParts DEF Dim
<1>1. 0 \in S
  <2>. SUFFICES ASSUME NEW r, MovesWithin(t, r), FixedAbove(n, r, 0),
                       NEW x \in Index(t.shape)
                PROVE  Moving(n, r, x) = x
    BY <1>0 DEF KeepsValues
  <2>1. Within(t.shape, x)
    BY <1>0, IndexIs
  <2>2. \A d \in 1 .. n : r[d] = d
    BY <1>0 DEF FixedAbove
  <2>. QED BY <1>0, <2>1, <2>2 DEF Moving, Within
<1>2. \A k \in 0 .. n - 1 : k \in S => k + 1 \in S
  <2>. SUFFICES ASSUME NEW k \in 0 .. n - 1, k \in S,
                       NEW r, MovesWithin(t, r), FixedAbove(n, r, k + 1)
                PROVE  KeepsValues(t, r)
    BY <1>0
  <2>0. PICK q, b : EndsWithExchange(t, k, r, q, b)
    BY OneFixedMore
  <2>1. /\ b \in Dim(t) /\ <<k + 1, b>> \in Swaps(t)
        /\ MovesWithin(t, q) /\ FixedAbove(n, q, k)
        /\ \A d \in Dim(t) :
             r[d] = IF d = k + 1 THEN q[b] ELSE IF d = b THEN q[k + 1] ELSE q[d]
    BY <2>0 DEF EndsWithExchange
  <2>2. KeepsValues(t, q)
    BY <2>1
  <2>. SUFFICES ASSUME NEW x \in Index(t.shape)
                PROVE  Moving(n, r, x) \in Index(t.shape) /\ t.at[Moving(n, r, x)] = t.at[x]
    BY DEF KeepsValues
  <2>3. Moving(n, q, x) \in Index(t.shape) /\ t.at[Moving(n, q, x)] = t.at[x]
    BY <2>2 DEF KeepsValues
  <2>4. k + 1 \in 1 .. n /\ b \in 1 .. n /\ Swappable(t, k + 1, b)
    BY <1>0, <2>1 DEF Swaps
  <2>. DEFINE y == Moving(n, q, x)
  <2>5. Swapped(y, k + 1, b) \in Index(t.shape) /\ Swapped(y, k + 1, b) = SwapOf(n, y, k + 1, b)
        /\ t.at[Swapped(y, k + 1, b)] = t.at[y]
    BY <1>0, <2>3, <2>4, SwappedIn DEF Swappable
  <2>6. Moving(n, r, x) = SwapOf(n, y, k + 1, b)
    BY <1>0, <2>1, <2>4 DEF Moving, SwapOf
  <2>. QED BY <2>3, <2>5, <2>6
<1>3. n \in S
  <2>. HIDE DEF S, n
  <2>1. \A k \in 0 .. n : k \in S
    BY <1>0, <1>1, <1>2, UpTo
  <2>. QED BY <1>0, <2>1
<1>4. FixedAbove(n, p, n)
  BY <1>0 DEF FixedAbove
<1>. QED BY <1>3, <1>4

-----------------------------------------------------------------------------
(* Sequences that list dimensions *)

\* ls has every member of A once.
Lists(A, ls) ==
  /\ ls \in Seq(A)
  /\ \A d \in A : \E k \in 1 .. Len(ls) : ls[k] = d
  /\ \A j, k \in 1 .. Len(ls) : ls[j] = ls[k] => j = k

\* There are m numbers from 1 to m.
LEMMA CountTo == ASSUME NEW m \in Nat PROVE IsFiniteSet(1 .. m) /\ Cardinality(1 .. m) = m
BY FS_Interval

\* The dimensions that are not left out, in order, are a list of them.
LEMMA FilteredLists ==
  ASSUME NEW n \in Nat, NEW A \in SUBSET (1 .. n), NEW F,
         F = [d \in 1 .. n |-> IF d \in A THEN <<d>> ELSE <<>>]
  PROVE  Lists(A, FlattenSeq(F))
<1>. DEFINE v == [d \in 1 .. n |-> d]
            ls == Fl(n, F)
            S == 1 .. Len(ls)
<1>1. FlattenSeq(F) = ls
  <2>1. F = [d \in 1 .. n |-> F[d]]
    OBVIOUS
  <2>. QED BY <2>1, FlOf
<1>2. Picks(A, n, A, v, F)
  BY DEF Picks
<1>. HIDE DEF v
<1>3. ls \in Seq(A) /\ Len(ls) = Cardinality(A) /\ Ranked(n, A, v, F)
  BY <1>2, FlRank
<1>. HIDE DEF ls
<1>4. ASSUME NEW d \in A PROVE \E k \in S : ls[k] = d
  <2>1. Cardinality(Upto(A, d)) \in S /\ ls[Cardinality(Upto(A, d))] = v[d]
    BY <1>3 DEF Ranked, ls
  <2>. QED BY <2>1 DEF v
<1>5. Len(ls) \in Nat /\ ls \in [S -> A] /\ IsFiniteSet(S) /\ Cardinality(S) = Len(ls)
  <2>1. Len(ls) \in Nat /\ ls \in [S -> A]
    BY <1>3, LenProperties
  <2>2. IsFiniteSet(1 .. Len(ls)) /\ Cardinality(1 .. Len(ls)) = Len(ls)
    BY <2>1, CountTo
  <2>. QED BY <2>1, <2>2
<1>6. ls \in Surjection(S, A)
  BY <1>4, <1>5 DEF Surjection
<1>7. ls \in Injection(S, A)
  BY <1>3, <1>5, <1>6, FS_SurjSameCardinalityImpliesInj
<1>8. \A j, k \in S : ls[j] = ls[k] => j = k
  BY <1>7 DEF Injection, IsInjective
<1>9. Lists(A, ls)
  BY <1>3, <1>4, <1>8 DEF Lists
<1>. QED BY <1>1, <1>9

\* One list after the other.
LEMMA ListsCat ==
  ASSUME NEW A, NEW B, A \cap B = {}, NEW s, Lists(A, s), NEW t, Lists(B, t)
  PROVE  Lists(A \union B, s \o t)
<1>. DEFINE u == s \o t
            m == Len(s)
<1>1. /\ s \in Seq(A) /\ t \in Seq(B) /\ Len(s) \in Nat /\ Len(t) \in Nat
      /\ \A k \in 1 .. Len(s) : s[k] \in A
      /\ \A k \in 1 .. Len(t) : t[k] \in B
  BY LenProperties DEF Lists
<1>2. /\ u \in Seq(A \union B) /\ Len(u) = m + Len(t)
      /\ \A k \in 1 .. m : u[k] = s[k]
      /\ \A k \in 1 .. Len(t) : u[m + k] = t[k]
  <2>1. s \in Seq(A \union B) /\ t \in Seq(A \union B)
    BY <1>1, SeqMonotonic
  <2>. QED BY <2>1, CatFacts DEF Cat
<1>. HIDE DEF u
<1>3. \A k \in 1 .. Len(u) : k \in 1 .. m \/ (k - m \in 1 .. Len(t) /\ u[k] = t[k - m])
  <2>. SUFFICES ASSUME NEW k \in 1 .. Len(u), k \notin 1 .. m
                PROVE  k - m \in 1 .. Len(t) /\ u[k] = t[k - m]
    OBVIOUS
  <2>. DEFINE i == k - m
  <2>1. i \in 1 .. Len(t) /\ m + i = k
    BY <1>1, <1>2
  <2>. HIDE DEF i
  <2>2. u[m + i] = t[i]
    BY <1>2, <2>1
  <2>. QED BY <2>1, <2>2 DEF i
<1>4. ASSUME NEW d \in A \union B PROVE \E k \in 1 .. Len(u) : u[k] = d
  <2>1. CASE d \in A
    <3>1. PICK k \in 1 .. m : s[k] = d
      BY <2>1 DEF Lists
    <3>. QED BY <1>1, <1>2, <3>1
  <2>2. CASE d \in B
    <3>1. PICK k \in 1 .. Len(t) : t[k] = d
      BY <2>2 DEF Lists
    <3>2. m + k \in 1 .. Len(u) /\ u[m + k] = d
      BY <1>1, <1>2, <3>1
    <3>. QED BY <3>2
  <2>. QED BY <2>1, <2>2
<1>5. ASSUME NEW j \in 1 .. Len(u), NEW k \in 1 .. Len(u), u[j] = u[k] PROVE j = k
  <2>1. CASE j \in 1 .. m /\ k \in 1 .. m
    BY <1>2, <1>5, <2>1 DEF Lists
  <2>2. CASE j \in 1 .. m /\ k \notin 1 .. m
    BY <1>1, <1>2, <1>3, <1>5, <2>2
  <2>3. CASE j \notin 1 .. m /\ k \in 1 .. m
    BY <1>1, <1>2, <1>3, <1>5, <2>3
  <2>4. CASE j \notin 1 .. m /\ k \notin 1 .. m
    <3>1. j - m \in 1 .. Len(t) /\ k - m \in 1 .. Len(t) /\ t[j - m] = t[k - m]
      BY <1>3, <1>5, <2>4
    <3>2. j - m = k - m
      BY <3>1 DEF Lists
    <3>. QED BY <1>1, <1>2, <3>2
  <2>. QED BY <2>1, <2>2, <2>3, <2>4
<1>. QED BY <1>2, <1>4, <1>5 DEF Lists, u

\* A list of the dimensions up to n is a permutation.
LEMMA ListsAll ==
  ASSUME NEW n \in Nat, NEW s, Lists(1 .. n, s) PROVE Len(s) = n /\ s \in Perms(n)
<1>1. /\ s \in Seq(1 .. n) /\ Len(s) \in Nat /\ s \in [1 .. Len(s) -> 1 .. n]
      /\ \A d \in 1 .. n : \E k \in 1 .. Len(s) : s[k] = d
      /\ \A j, k \in 1 .. Len(s) : s[j] = s[k] => j = k
  BY LenProperties DEF Lists
<1>2. s \in Injection(1 .. Len(s), 1 .. n)
  BY <1>1 DEF Injection, IsInjective
<1>3. s \in Surjection(1 .. Len(s), 1 .. n)
  BY <1>1 DEF Surjection
<1>4. IsFiniteSet(1 .. n) /\ Cardinality(1 .. n) = n /\ Cardinality(1 .. Len(s)) = Len(s)
  BY <1>1, CountTo
<1>5. Cardinality(1 .. Len(s)) = Cardinality(1 .. n)
  BY <1>2, <1>3, <1>4, FS_Injection
<1>6. Len(s) = n
  BY <1>4, <1>5
<1>. QED BY <1>1, <1>6 DEF Perms

\* There are finitely many indices.
LEMMA IndexFinite == ASSUME NEW shape, IsShape(shape) PROVE IsFiniteSet(Index(shape))
<1>. DEFINE n == Len(shape)
            size == Max({shape[d] : d \in 1 .. n} \union {1})
            Graph(x) == {<<d, x[d]>> : d \in 1 .. n}
            f == [x \in Index(shape) |-> Graph(x)]
            P == SUBSET ((1 .. n) \X (1 .. size))
<1>1. size \in Nat /\ n \in Nat
  <2>1. n \in Nat /\ \A d \in 1 .. n : shape[d] \in Nat
    BY LenProperties DEF IsShape
  <2>2. size \in {shape[d] : d \in 1 .. n} \union {1}
    BY LargestSize DEF Max
  <2>. HIDE DEF size
  <2>. QED BY <2>1, <2>2
<1>2. \A x \in Index(shape) : x \in [1 .. n -> 1 .. size]
  BY DEF Index
<1>. HIDE DEF size
<1>3. \A x \in Index(shape) : Graph(x) \in P
  BY <1>2
<1>4. f \in [Index(shape) -> P]
  BY <1>3
<1>5. ASSUME NEW x \in Index(shape), NEW y \in Index(shape), Graph(x) = Graph(y) PROVE x = y
  <2>1. ASSUME NEW d \in 1 .. n PROVE x[d] = y[d]
    <3>1. <<d, x[d]>> \in Graph(y)
      BY <1>5
    <3>. QED BY <3>1
  <2>2. x = [d \in 1 .. n |-> x[d]] /\ y = [d \in 1 .. n |-> y[d]]
    BY <1>2
  <2>. QED BY <2>1, <2>2, Zenon
<1>6. f \in Injection(Index(shape), P)
  <2>1. \A x, y \in Index(shape) : f[x] = f[y] => x = y
    BY <1>5
  <2>. QED BY <1>4, <2>1 DEF Injection, IsInjective
<1>7. IsFiniteSet(P)
  <2>1. IsFiniteSet(1 .. n) /\ IsFiniteSet(1 .. size)
    BY <1>1, FS_Interval
  <2>2. IsFiniteSet((1 .. n) \X (1 .. size))
    BY <2>1, FS_Product
  <2>. QED BY <2>2, FS_SUBSET
<1>. HIDE DEF f, P
<1>. QED BY <1>6, <1>7, FS_Injection

-----------------------------------------------------------------------------
(* Reading a tensor at values given for its dimensions in the order o *)

\* Along is ReadAt.
LEMMA AlongIs == ASSUME NEW n \in Nat, NEW o \in Perms(n), NEW j PROVE Along(o, j) = ReadAt(n, o, j)
<1>1. o \in [1 .. n -> 1 .. n] /\ \A d \in 1 .. n : \E e \in 1 .. n : o[e] = d
  BY DEF Perms
<1>2. Members(o) = 1 .. n
  BY <1>1 DEF Members
<1>. QED BY <1>1, <1>2 DEF Along, ReadAt, InversePerm

\* The values are within the sizes of the dimensions.
Suits(shape, o, j) == \A k \in 1 .. Len(shape) : j[k] \in Nat /\ 1 <= j[k] /\ j[k] <= shape[o[k]]

\* They are an index then.
LEMMA ReadIn ==
  ASSUME NEW shape, IsShape(shape), NEW o \in Perms(Len(shape)), NEW j, Suits(shape, o, j)
  PROVE  ReadAt(Len(shape), o, j) \in Index(shape)
<1>. DEFINE n == Len(shape)
<1>1. n \in Nat
  BY LenProperties DEF IsShape
<1>2. Inverts(n, o)
  BY <1>1, PermFacts
<1>3. ASSUME NEW d \in 1 .. n
      PROVE  LET k == InversePerm(o)[d] IN j[k] \in Nat /\ 1 <= j[k] /\ j[k] <= shape[d]
  <2>. DEFINE k == InversePerm(o)[d]
  <2>1. k \in 1 .. n /\ o[k] = d
    BY <1>2 DEF Inverts
  <2>. HIDE DEF k
  <2>2. j[k] \in Nat /\ 1 <= j[k] /\ j[k] <= shape[d]
    BY <2>1 DEF Suits
  <2>. QED BY <2>2 DEF k
<1>4. Within(shape, ReadAt(n, o, j))
  BY <1>3 DEF Within, ReadAt
<1>. QED BY <1>4, IndexIs

\* Exchanging values is exchanging dimensions.
LEMMA ReadSwapped ==
  ASSUME NEW n \in Nat, NEW o \in Perms(n), NEW a \in 1 .. n, NEW b \in 1 .. n, NEW j
  PROVE  ReadAt(n, o, SwapOf(n, j, a, b)) = SwapOf(n, ReadAt(n, o, j), o[a], o[b])
<1>1. Inverts(n, o)
  BY PermFacts
<1>2. ASSUME NEW d \in 1 .. n
      PROVE  ReadAt(n, o, SwapOf(n, j, a, b))[d] = SwapOf(n, ReadAt(n, o, j), o[a], o[b])[d]
  <2>1. /\ InversePerm(o)[d] \in 1 .. n /\ o[InversePerm(o)[d]] = d
        /\ o[a] \in 1 .. n /\ o[b] \in 1 .. n
        /\ InversePerm(o)[o[a]] = a /\ InversePerm(o)[o[b]] = b
    BY <1>1 DEF Inverts
  <2>2. (InversePerm(o)[d] = a <=> d = o[a]) /\ (InversePerm(o)[d] = b <=> d = o[b])
    BY <2>1
  <2>. QED BY <2>1, <2>2 DEF ReadAt, SwapOf
<1>. QED BY <1>2 DEF ReadAt, SwapOf

\* The tensor has the same value when the dimensions may be swapped.
LEMMA SwapsRead ==
  ASSUME NEW t, IsTensor(t), NEW o \in Perms(Rank(t)), NEW a \in Dim(t), NEW b \in Dim(t),
         <<o[a], o[b]>> \in Swaps(t), NEW j, Suits(t.shape, o, j)
  PROVE  t.at[ReadAt(Rank(t), o, SwapOf(Rank(t), j, a, b))] = t.at[ReadAt(Rank(t), o, j)]
<1>. DEFINE n == Rank(t)
            x == ReadAt(n, o, j)
<1>1. n \in Nat /\ Dim(t) = 1 .. n /\ n = Len(t.shape) /\ IsShape(t.shape) /\ DOMAIN t.at = Index(t.shape)
  BY TensorParts DEF Dim
<1>2. x \in Index(t.shape)
  BY <1>1, ReadIn
<1>3. Swappable(t, o[a], o[b]) /\ o[a] \in 1 .. n /\ o[b] \in 1 .. n
  BY <1>1 DEF Swaps
<1>4. t.shape[o[a]] = t.shape[o[b]]
  BY <1>3 DEF Swappable
<1>5. Swapped(x, o[a], o[b]) = SwapOf(n, x, o[a], o[b])
  <2>. HIDE DEF x
  <2>. QED BY <1>1, <1>2, <1>3, <1>4, SwappedIn
<1>6. t.at[Swapped(x, o[a], o[b])] = t.at[x]
  BY <1>1, <1>2, <1>3 DEF Swappable
<1>7. ReadAt(n, o, SwapOf(n, j, a, b)) = SwapOf(n, x, o[a], o[b])
  BY <1>1, ReadSwapped
<1>. QED BY <1>5, <1>6, <1>7

-----------------------------------------------------------------------------
(* dot_general, with its dimensions laid out: the orders in which batching,
   free and contracting dimensions are given values, and the shapes of the
   result and of what is summed over *)

Layouts(s, t, L) ==
  /\ L.nb \in Nat /\ L.nl \in Nat /\ L.nr \in Nat /\ L.nc \in Nat
  /\ Rank(s) = L.nb + L.nl + L.nc /\ Rank(t) = L.nb + L.nr + L.nc
  /\ L.left \in Perms(Rank(s)) /\ L.right \in Perms(Rank(t))
  /\ IsShape(L.shape) /\ Len(L.shape) = L.nb + L.nl + L.nr
  /\ IsShape(L.summed) /\ Len(L.summed) = L.nc
  /\ \A k \in 1 .. L.nb + L.nl : L.shape[k] = s.shape[L.left[k]]
  /\ \A k \in 1 .. L.nb : L.shape[k] = t.shape[L.right[k]]
  /\ \A k \in L.nb + 1 .. L.nb + L.nr : L.shape[k + L.nl] = t.shape[L.right[k]]
  /\ \A k \in 1 .. L.nc : /\ L.summed[k] = s.shape[L.left[L.nb + L.nl + k]]
                         /\ L.summed[k] = t.shape[L.right[L.nb + L.nr + k]]

\* The values given to the dimensions of the operands.
LeftAt(L, x, c) ==
  [k \in 1 .. L.nb + L.nl + L.nc |-> IF k <= L.nb + L.nl THEN x[k] ELSE c[k - (L.nb + L.nl)]]
RightAt(L, x, c) ==
  [k \in 1 .. L.nb + L.nr + L.nc |->
     IF k <= L.nb THEN x[k] ELSE IF k <= L.nb + L.nr THEN x[k + L.nl] ELSE c[k - (L.nb + L.nr)]]

\* What is summed, and the result.
Terms(s, t, L, x) ==
  [c \in Index(L.summed) |->
     s.at[ReadAt(Rank(s), L.left, LeftAt(L, x, c))] * t.at[ReadAt(Rank(t), L.right, RightAt(L, x, c))]]
Dots(s, t, L) ==
  [shape |-> L.shape, at |-> [x \in Index(L.shape) |-> Total(Index(L.summed), Terms(s, t, L, x))]]

\* The values are within the sizes.
LEMMA LeftSuits ==
  ASSUME NEW s, NEW t, IsTensor(s), IsTensor(t), NEW L, Layouts(s, t, L),
         NEW x \in Index(L.shape), NEW c \in Index(L.summed)
  PROVE  Suits(s.shape, L.left, LeftAt(L, x, c))
<1>1. Within(L.shape, x) /\ Within(L.summed, c)
  BY IndexIs DEF Layouts
<1>2. Len(s.shape) = L.nb + L.nl + L.nc
  BY TensorParts DEF Layouts
<1>3. ASSUME NEW k \in 1 .. L.nb + L.nl
      PROVE  LeftAt(L, x, c)[k] = x[k] /\ x[k] \in Nat /\ 1 <= x[k] /\ x[k] <= s.shape[L.left[k]]
  <2>1. k \in 1 .. Len(L.shape) /\ k \in 1 .. L.nb + L.nl + L.nc /\ k <= L.nb + L.nl
    BY DEF Layouts
  <2>2. x[k] \in Nat /\ 1 <= x[k] /\ x[k] <= L.shape[k]
    BY <1>1, <2>1 DEF Within
  <2>3. L.shape[k] = s.shape[L.left[k]]
    BY DEF Layouts
  <2>. QED BY <2>1, <2>2, <2>3 DEF LeftAt
<1>4. ASSUME NEW k \in 1 .. L.nb + L.nl + L.nc, ~ (k <= L.nb + L.nl)
      PROVE  /\ LeftAt(L, x, c)[k] \in Nat /\ 1 <= LeftAt(L, x, c)[k]
             /\ LeftAt(L, x, c)[k] <= s.shape[L.left[k]]
  <2>. DEFINE i == k - (L.nb + L.nl)
  <2>1. i \in 1 .. L.nc /\ L.nb + L.nl + i = k
    BY <1>4 DEF Layouts
  <2>2. LeftAt(L, x, c)[k] = c[i]
    BY <1>4 DEF LeftAt
  <2>. HIDE DEF i
  <2>3. c[i] \in Nat /\ 1 <= c[i] /\ c[i] <= L.summed[i]
    BY <1>1, <2>1 DEF Within, Layouts
  <2>4. L.summed[i] = s.shape[L.left[k]]
    BY <2>1 DEF Layouts
  <2>. QED BY <2>2, <2>3, <2>4
<1>5. ASSUME NEW k \in 1 .. L.nb + L.nl + L.nc PROVE k \in 1 .. L.nb + L.nl \/ ~ (k <= L.nb + L.nl)
  BY DEF Layouts
<1>. QED BY <1>2, <1>3, <1>4, <1>5 DEF Suits

\* Those of the right operand are within its sizes.
LEMMA RightSuits ==
  ASSUME NEW s, NEW t, IsTensor(s), IsTensor(t), NEW L, Layouts(s, t, L),
         NEW x \in Index(L.shape), NEW c \in Index(L.summed)
  PROVE  Suits(t.shape, L.right, RightAt(L, x, c))
<1>1. Within(L.shape, x) /\ Within(L.summed, c)
  BY IndexIs DEF Layouts
<1>2. Len(t.shape) = L.nb + L.nr + L.nc
  BY TensorParts DEF Layouts
<1>. DEFINE r(k) == RightAt(L, x, c)[k]
<1>3. ASSUME NEW k \in 1 .. L.nb
      PROVE  r(k) \in Nat /\ 1 <= r(k) /\ r(k) <= t.shape[L.right[k]]
  <2>1. k \in 1 .. Len(L.shape) /\ k \in 1 .. L.nb + L.nr + L.nc /\ k <= L.nb
    BY DEF Layouts
  <2>2. x[k] \in Nat /\ 1 <= x[k] /\ x[k] <= L.shape[k]
    BY <1>1, <2>1 DEF Within
  <2>3. L.shape[k] = t.shape[L.right[k]]
    BY DEF Layouts
  <2>. QED BY <2>1, <2>2, <2>3 DEF RightAt
<1>4. ASSUME NEW k \in L.nb + 1 .. L.nb + L.nr
      PROVE  r(k) \in Nat /\ 1 <= r(k) /\ r(k) <= t.shape[L.right[k]]
  <2>0. /\ L.nb \in Nat /\ L.nl \in Nat /\ L.nr \in Nat /\ L.nc \in Nat
        /\ Len(L.shape) = L.nb + L.nl + L.nr
    BY DEF Layouts
  <2>. DEFINE nb == L.nb
              nl == L.nl
              nr == L.nr
              nc == L.nc
  <2>1. k + nl \in 1 .. nb + nl + nr /\ k \in 1 .. nb + nr + nc /\ ~ (k <= nb) /\ k <= nb + nr
    <3>1. nb \in Nat /\ nl \in Nat /\ nr \in Nat /\ nc \in Nat /\ k \in nb + 1 .. nb + nr
      BY <2>0
    <3>. HIDE DEF nb, nl, nr, nc
    <3>. QED BY <3>1
  <2>2. x[k + L.nl] \in Nat /\ 1 <= x[k + L.nl] /\ x[k + L.nl] <= L.shape[k + L.nl]
    BY <1>1, <2>0, <2>1 DEF Within
  <2>3. L.shape[k + L.nl] = t.shape[L.right[k]]
    BY DEF Layouts
  <2>4. r(k) = x[k + L.nl]
    BY <2>1 DEF RightAt
  <2>. QED BY <2>2, <2>3, <2>4
<1>5. ASSUME NEW k \in 1 .. L.nb + L.nr + L.nc, ~ (k <= L.nb + L.nr)
      PROVE  r(k) \in Nat /\ 1 <= r(k) /\ r(k) <= t.shape[L.right[k]]
  <2>. DEFINE i == k - (L.nb + L.nr)
  <2>0. L.nb \in Nat /\ L.nr \in Nat /\ L.nc \in Nat
    BY DEF Layouts
  <2>1. i \in 1 .. L.nc /\ L.nb + L.nr + i = k
    BY <1>5, <2>0
  <2>2. r(k) = c[i]
    BY <1>5, <2>0 DEF RightAt
  <2>. HIDE DEF i
  <2>3. c[i] \in Nat /\ 1 <= c[i] /\ c[i] <= L.summed[i]
    BY <1>1, <2>1 DEF Within, Layouts
  <2>4. L.summed[i] = t.shape[L.right[k]]
    BY <2>1 DEF Layouts
  <2>. QED BY <2>2, <2>3, <2>4
<1>6. ASSUME NEW k \in 1 .. L.nb + L.nr + L.nc
      PROVE k \in 1 .. L.nb \/ k \in L.nb + 1 .. L.nb + L.nr \/ ~ (k <= L.nb + L.nr)
  BY DEF Layouts
<1>. HIDE DEF r
<1>7. \A k \in 1 .. Len(t.shape) : r(k) \in Nat /\ 1 <= r(k) /\ r(k) <= t.shape[L.right[k]]
  BY <1>2, <1>3, <1>4, <1>5, <1>6
<1>. QED BY <1>7 DEF Suits, r

\* What is read of the left operand, and of the right one, is a number.
LEMMA ReadsNumbers ==
  ASSUME NEW s, NEW t, IsTensor(s), IsTensor(t), NEW L, Layouts(s, t, L),
         NEW x \in Index(L.shape), NEW c \in Index(L.summed)
  PROVE  /\ s.at[ReadAt(Rank(s), L.left, LeftAt(L, x, c))] \in Int
         /\ t.at[ReadAt(Rank(t), L.right, RightAt(L, x, c))] \in Int
<1>1. /\ IsShape(s.shape) /\ Rank(s) = Len(s.shape) /\ s.at \in [Index(s.shape) -> Int]
      /\ IsShape(t.shape) /\ Rank(t) = Len(t.shape) /\ t.at \in [Index(t.shape) -> Int]
  BY TensorParts
<1>2. L.left \in Perms(Len(s.shape)) /\ L.right \in Perms(Len(t.shape))
  BY <1>1 DEF Layouts
<1>3. Suits(s.shape, L.left, LeftAt(L, x, c)) /\ Suits(t.shape, L.right, RightAt(L, x, c))
  BY LeftSuits, RightSuits
<1>4. ReadAt(Len(s.shape), L.left, LeftAt(L, x, c)) \in Index(s.shape)
  BY <1>1, <1>2, <1>3, ReadIn
<1>5. ReadAt(Len(t.shape), L.right, RightAt(L, x, c)) \in Index(t.shape)
  BY <1>1, <1>2, <1>3, ReadIn
<1>. QED BY <1>1, <1>4, <1>5

\* The terms can be summed.
LEMMA TermsSummable ==
  ASSUME NEW s, NEW t, IsTensor(s), IsTensor(t), NEW L, Layouts(s, t, L), NEW x \in Index(L.shape)
  PROVE  Summable(Index(L.summed), Terms(s, t, L, x))
<1>1. IsFiniteSet(Index(L.summed))
  BY IndexFinite DEF Layouts
<1>2. \A c \in Index(L.summed) :
        s.at[ReadAt(Rank(s), L.left, LeftAt(L, x, c))] * t.at[ReadAt(Rank(t), L.right, RightAt(L, x, c))] \in Int
  <2>. SUFFICES ASSUME NEW c \in Index(L.summed)
                PROVE  s.at[ReadAt(Rank(s), L.left, LeftAt(L, x, c))]
                         * t.at[ReadAt(Rank(t), L.right, RightAt(L, x, c))] \in Int
    OBVIOUS
  <2>. DEFINE a == s.at[ReadAt(Rank(s), L.left, LeftAt(L, x, c))]
              b == t.at[ReadAt(Rank(t), L.right, RightAt(L, x, c))]
  <2>1. a \in Int /\ b \in Int
    BY ReadsNumbers
  <2>2. a * b \in Int
    <3>. HIDE DEF a, b
    <3>. QED BY <2>1
  <2>. QED BY <2>2
<1>. QED BY <1>1, <1>2 DEF Summable, Terms

\* The result is a tensor.
LEMMA DotsIs ==
  ASSUME NEW s, NEW t, IsTensor(s), IsTensor(t), NEW L, Layouts(s, t, L)
  PROVE  /\ IsTensor(Dots(s, t, L)) /\ Dots(s, t, L).shape = L.shape
         /\ Rank(Dots(s, t, L)) = L.nb + L.nl + L.nr
         /\ \A x \in Index(L.shape) : Dots(s, t, L).at[x] = Total(Index(L.summed), Terms(s, t, L, x))
<1>. DEFINE u == Dots(s, t, L)
            f == [x \in Index(L.shape) |-> Total(Index(L.summed), Terms(s, t, L, x))]
<1>1. u = [shape |-> L.shape, at |-> f]
  BY DEF Dots
<1>2. ASSUME NEW x \in Index(L.shape) PROVE Total(Index(L.summed), Terms(s, t, L, x)) \in Int
  <2>1. PICK g : Sums(Index(L.summed), Terms(s, t, L, x), g)
                 /\ Total(Index(L.summed), Terms(s, t, L, x)) = g[Index(L.summed)]
    BY TermsSummable, TotalIs
  <2>. QED BY <2>1 DEF Sums
<1>3. f \in [Index(L.shape) -> Int]
  BY <1>2
<1>4. IsShape(L.shape) /\ Len(L.shape) = L.nb + L.nl + L.nr
  BY DEF Layouts
<1>. HIDE DEF u
<1>5. IsTensor(u) /\ u.shape = L.shape /\ u.at = f /\ Rank(u) = Len(L.shape)
  <2>. HIDE DEF f
  <2>. QED BY <1>1, <1>3, <1>4, TensorIs
<1>. QED BY <1>4, <1>5 DEF u

\* The result is the same where dimensions a and b are exchanged.
SumsAgree(s, t, L, a, b) ==
  \A x \in Index(L.shape) : SwapOf(Len(L.shape), x, a, b) \in Index(L.shape) =>
    Total(Index(L.summed), Terms(s, t, L, SwapOf(Len(L.shape), x, a, b)))
      = Total(Index(L.summed), Terms(s, t, L, x))

\* They may be swapped then.
LEMMA DotsSwap ==
  ASSUME NEW s, NEW t, IsTensor(s), IsTensor(t), NEW L, Layouts(s, t, L),
         NEW a \in 1 .. Len(L.shape), NEW b \in 1 .. Len(L.shape), L.shape[a] = L.shape[b],
         SumsAgree(s, t, L, a, b)
  PROVE  <<a, b>> \in Swaps(Dots(s, t, L))
<1>. DEFINE u == Dots(s, t, L)
<1>1. /\ IsTensor(u) /\ u.shape = L.shape /\ IsShape(L.shape) /\ Rank(u) = Len(L.shape)
      /\ \A x \in Index(L.shape) : u.at[x] = Total(Index(L.summed), Terms(s, t, L, x))
  <2>1. IsShape(L.shape) /\ Len(L.shape) = L.nb + L.nl + L.nr
    BY DEF Layouts
  <2>2. /\ IsTensor(u) /\ u.shape = L.shape /\ Rank(u) = L.nb + L.nl + L.nr
        /\ \A x \in Index(L.shape) : u.at[x] = Total(Index(L.summed), Terms(s, t, L, x))
    BY DotsIs
  <2>. HIDE DEF u
  <2>. QED BY <2>1, <2>2
<1>2. DOMAIN u.at = Index(L.shape) /\ Dim(u) = 1 .. Len(L.shape)
  BY <1>1, TensorParts DEF Dim
<1>3. ASSUME NEW x \in Index(L.shape) PROVE u.at[Swapped(x, a, b)] = u.at[x]
  <2>1. Swapped(x, a, b) \in Index(L.shape) /\ Swapped(x, a, b) = SwapOf(Len(L.shape), x, a, b)
    BY <1>1, SwappedIn
  <2>. HIDE DEF u
  <2>. QED BY <1>1, <2>1 DEF SumsAgree
<1>. QED BY <1>1, <1>2, <1>3 DEF Swaps, Swappable

\* The reads of the operands do not change.
LeftSame(s, L, a, b) ==
  \A x \in Index(L.shape), c \in Index(L.summed) :
    s.at[ReadAt(Rank(s), L.left, LeftAt(L, SwapOf(Len(L.shape), x, a, b), c))]
      = s.at[ReadAt(Rank(s), L.left, LeftAt(L, x, c))]
RightSame(t, L, a, b) ==
  \A x \in Index(L.shape), c \in Index(L.summed) :
    t.at[ReadAt(Rank(t), L.right, RightAt(L, SwapOf(Len(L.shape), x, a, b), c))]
      = t.at[ReadAt(Rank(t), L.right, RightAt(L, x, c))]

\* Then neither do the sums.
LEMMA SameReads ==
  ASSUME NEW s, NEW t, NEW L, NEW a, NEW b, LeftSame(s, L, a, b), RightSame(t, L, a, b)
  PROVE  SumsAgree(s, t, L, a, b)
<1>1. ASSUME NEW x \in Index(L.shape)
      PROVE  Terms(s, t, L, SwapOf(Len(L.shape), x, a, b)) = Terms(s, t, L, x)
  BY DEF Terms, LeftSame, RightSame
<1>. QED BY <1>1 DEF SumsAgree

\* A batching or free dimension of the left operand.
LEMMA LeftSwapped ==
  ASSUME NEW s, NEW t, IsTensor(s), IsTensor(t), NEW L, Layouts(s, t, L),
         NEW a \in 1 .. L.nb + L.nl, NEW b \in 1 .. L.nb + L.nl,
         <<L.left[a], L.left[b]>> \in Swaps(s)
  PROVE  LeftSame(s, L, a, b) /\ L.shape[a] = L.shape[b]
<1>. DEFINE n == L.nb + L.nl + L.nc
<1>1. /\ L.nb \in Nat /\ L.nl \in Nat /\ L.nr \in Nat /\ L.nc \in Nat
      /\ Rank(s) = n /\ L.left \in Perms(n) /\ Dim(s) = 1 .. n
      /\ Len(L.shape) = L.nb + L.nl + L.nr
  BY DEF Layouts, Dim
<1>2. a \in 1 .. n /\ b \in 1 .. n /\ a \in 1 .. Len(L.shape) /\ b \in 1 .. Len(L.shape)
  BY <1>1
<1>3. L.shape[a] = L.shape[b]
  <2>1. L.shape[a] = s.shape[L.left[a]] /\ L.shape[b] = s.shape[L.left[b]]
    BY DEF Layouts
  <2>2. s.shape[L.left[a]] = s.shape[L.left[b]]
    BY DEF Swaps, Swappable
  <2>. QED BY <2>1, <2>2
<1>4. ASSUME NEW x \in Index(L.shape), NEW c \in Index(L.summed)
      PROVE  s.at[ReadAt(Rank(s), L.left, LeftAt(L, SwapOf(Len(L.shape), x, a, b), c))]
               = s.at[ReadAt(Rank(s), L.left, LeftAt(L, x, c))]
  <2>. DEFINE j == LeftAt(L, x, c)
              y == SwapOf(Len(L.shape), x, a, b)
  <2>1. LeftAt(L, y, c) = SwapOf(n, j, a, b)
    <3>1. ASSUME NEW k \in 1 .. n PROVE LeftAt(L, y, c)[k] = SwapOf(n, j, a, b)[k]
      <4>1. j[a] = x[a] /\ j[b] = x[b]
        BY <1>1, <1>2 DEF LeftAt
      <4>2. CASE k <= L.nb + L.nl
        <5>1. k \in 1 .. Len(L.shape)
          BY <1>1, <4>2
        <5>2. LeftAt(L, y, c)[k] = y[k] /\ j[k] = x[k]
          BY <4>2 DEF LeftAt
        <5>. QED BY <4>1, <5>1, <5>2 DEF SwapOf
      <4>3. CASE ~ (k <= L.nb + L.nl)
        <5>1. LeftAt(L, y, c)[k] = c[k - (L.nb + L.nl)] /\ j[k] = c[k - (L.nb + L.nl)]
          BY <4>3 DEF LeftAt
        <5>2. k # a /\ k # b
          BY <1>1, <4>3
        <5>. QED BY <5>1, <5>2 DEF SwapOf
      <4>. QED BY <4>2, <4>3
    <3>. QED BY <3>1 DEF LeftAt, SwapOf
  <2>2. Suits(s.shape, L.left, j)
    BY LeftSuits
  <2>. HIDE DEF j, n
  <2>3. s.at[ReadAt(Rank(s), L.left, SwapOf(Rank(s), j, a, b))] = s.at[ReadAt(Rank(s), L.left, j)]
    <3>1. L.left \in Perms(Rank(s)) /\ a \in Dim(s) /\ b \in Dim(s)
      BY <1>1, <1>2
    <3>. QED BY <2>2, <3>1, SwapsRead
  <2>. QED BY <1>1, <2>1, <2>3 DEF j
<1>. QED BY <1>3, <1>4 DEF LeftSame

\* Other dimensions of the result are not read.
LEMMA LeftUnread ==
  ASSUME NEW s, NEW t, NEW L, Layouts(s, t, L), NEW a, NEW b,
         a \notin 1 .. L.nb + L.nl, b \notin 1 .. L.nb + L.nl
  PROVE  LeftSame(s, L, a, b)
<1>1. L.nb \in Nat /\ L.nl \in Nat /\ L.nr \in Nat /\ L.nc \in Nat /\ Len(L.shape) = L.nb + L.nl + L.nr
  BY DEF Layouts
<1>2. ASSUME NEW x \in Index(L.shape), NEW c \in Index(L.summed)
      PROVE  LeftAt(L, SwapOf(Len(L.shape), x, a, b), c) = LeftAt(L, x, c)
  <2>. DEFINE y == SwapOf(Len(L.shape), x, a, b)
  <2>1. ASSUME NEW k \in 1 .. L.nb + L.nl PROVE y[k] = x[k]
    BY <1>1 DEF SwapOf
  <2>2. ASSUME NEW k \in 1 .. L.nb + L.nl + L.nc PROVE LeftAt(L, y, c)[k] = LeftAt(L, x, c)[k]
    <3>. HIDE DEF y
    <3>1. k <= L.nb + L.nl => k \in 1 .. L.nb + L.nl
      BY <1>1
    <3>. QED BY <2>1, <3>1 DEF LeftAt
  <2>. QED BY <2>2 DEF LeftAt
<1>. QED BY <1>2 DEF LeftSame

\* The dimension of the result that dimension k of the right operand, in its
\* order, becomes.
Place(L, k) == IF k <= L.nb THEN k ELSE k + L.nl

\* What is known of it.
LEMMA PlaceIs ==
  ASSUME NEW s, NEW t, NEW L, Layouts(s, t, L), NEW e \in 1 .. L.nb + L.nr
  PROVE  /\ Place(L, e) \in 1 .. Len(L.shape)
         /\ \A k \in 1 .. L.nb + L.nr : Place(L, k) = Place(L, e) => k = e
         /\ L.shape[Place(L, e)] = t.shape[L.right[e]]
<1>. DEFINE nb == L.nb
            nl == L.nl
            nr == L.nr
<1>1. /\ nb \in Nat /\ nl \in Nat /\ nr \in Nat /\ Len(L.shape) = nb + nl + nr
      /\ \A k \in 1 .. nb : L.shape[k] = t.shape[L.right[k]]
      /\ \A k \in nb + 1 .. nb + nr : L.shape[k + nl] = t.shape[L.right[k]]
  BY DEF Layouts
<1>2. \A k : Place(L, k) = IF k <= nb THEN k ELSE k + nl
  BY DEF Place
<1>3. e \in 1 .. nb + nr
  OBVIOUS
<1>. HIDE DEF nb, nl, nr
<1>4. Place(L, e) \in 1 .. Len(L.shape)
  BY <1>1, <1>2, <1>3
<1>5. \A k \in 1 .. nb + nr : Place(L, k) = Place(L, e) => k = e
  BY <1>1, <1>2, <1>3
<1>6. e \in 1 .. nb \/ (e \in nb + 1 .. nb + nr /\ ~ (e <= nb))
  BY <1>1, <1>3
<1>7. L.shape[Place(L, e)] = t.shape[L.right[e]]
  BY <1>1, <1>2, <1>6
<1>. QED BY <1>4, <1>5, <1>7 DEF nb, nr

\* A batching or free dimension of the right operand.
LEMMA RightSwapped ==
  ASSUME NEW s, NEW t, IsTensor(s), IsTensor(t), NEW L, Layouts(s, t, L),
         NEW e \in 1 .. L.nb + L.nr, NEW f \in 1 .. L.nb + L.nr,
         <<L.right[e], L.right[f]>> \in Swaps(t)
  PROVE  RightSame(t, L, Place(L, e), Place(L, f)) /\ L.shape[Place(L, e)] = L.shape[Place(L, f)]
<1>. DEFINE n == L.nb + L.nr + L.nc
            a == Place(L, e)
            b == Place(L, f)
<1>1. /\ L.nb \in Nat /\ L.nl \in Nat /\ L.nr \in Nat /\ L.nc \in Nat
      /\ Rank(t) = n /\ L.right \in Perms(n) /\ Dim(t) = 1 .. n
  BY DEF Layouts, Dim
<1>2. e \in 1 .. n /\ f \in 1 .. n
  BY <1>1
<1>3. /\ a \in 1 .. Len(L.shape) /\ b \in 1 .. Len(L.shape)
      /\ \A k \in 1 .. L.nb + L.nr : (Place(L, k) = a <=> k = e) /\ (Place(L, k) = b <=> k = f)
      /\ \A k \in 1 .. L.nb + L.nr : Place(L, k) \in 1 .. Len(L.shape)
      /\ L.shape[a] = t.shape[L.right[e]] /\ L.shape[b] = t.shape[L.right[f]]
  BY PlaceIs
<1>4. t.shape[L.right[e]] = t.shape[L.right[f]]
  BY DEF Swaps, Swappable
<1>. HIDE DEF a, b
<1>5. ASSUME NEW x, NEW c, NEW k \in 1 .. L.nb + L.nr
      PROVE  RightAt(L, x, c)[k] = x[Place(L, k)]
  <2>1. k \in 1 .. L.nb + L.nr + L.nc /\ k <= L.nb + L.nr
    BY <1>1
  <2>. QED BY <2>1 DEF RightAt, Place
<1>6. ASSUME NEW x \in Index(L.shape), NEW c \in Index(L.summed)
      PROVE  t.at[ReadAt(Rank(t), L.right, RightAt(L, SwapOf(Len(L.shape), x, a, b), c))]
               = t.at[ReadAt(Rank(t), L.right, RightAt(L, x, c))]
  <2>. DEFINE j == RightAt(L, x, c)
              y == SwapOf(Len(L.shape), x, a, b)
  <2>1. RightAt(L, y, c) = SwapOf(n, j, e, f)
    <3>1. ASSUME NEW k \in 1 .. n PROVE RightAt(L, y, c)[k] = SwapOf(n, j, e, f)[k]
      <4>1. j[e] = x[a] /\ j[f] = x[b]
        BY <1>5 DEF a, b
      <4>2. CASE k <= L.nb + L.nr
        <5>1. k \in 1 .. L.nb + L.nr
          BY <1>1, <4>2
        <5>2. RightAt(L, y, c)[k] = y[Place(L, k)] /\ j[k] = x[Place(L, k)]
          BY <1>5, <5>1
        <5>. QED BY <1>3, <4>1, <5>1, <5>2 DEF SwapOf
      <4>3. CASE ~ (k <= L.nb + L.nr)
        <5>1. ~ (k <= L.nb) /\ k # e /\ k # f
          BY <1>1, <4>3
        <5>2. RightAt(L, y, c)[k] = c[k - (L.nb + L.nr)] /\ j[k] = c[k - (L.nb + L.nr)]
          BY <4>3, <5>1 DEF RightAt
        <5>. QED BY <5>1, <5>2 DEF SwapOf
      <4>. QED BY <4>2, <4>3
    <3>. QED BY <3>1 DEF RightAt, SwapOf
  <2>2. Suits(t.shape, L.right, j)
    BY RightSuits
  <2>. HIDE DEF j, n
  <2>3. t.at[ReadAt(Rank(t), L.right, SwapOf(Rank(t), j, e, f))] = t.at[ReadAt(Rank(t), L.right, j)]
    <3>1. L.right \in Perms(Rank(t)) /\ e \in Dim(t) /\ f \in Dim(t)
      BY <1>1, <1>2
    <3>. QED BY <2>2, <3>1, SwapsRead
  <2>. QED BY <1>1, <2>1, <2>3 DEF j
<1>. QED BY <1>3, <1>4, <1>6 DEF RightSame, a, b

\* A free dimension of the left operand is not read of the right one.
LEMMA RightUnread ==
  ASSUME NEW s, NEW t, NEW L, Layouts(s, t, L),
         NEW a \in L.nb + 1 .. L.nb + L.nl, NEW b \in L.nb + 1 .. L.nb + L.nl
  PROVE  RightSame(t, L, a, b)
<1>. DEFINE nb == L.nb
            nl == L.nl
            nr == L.nr
            nc == L.nc
<1>1. /\ nb \in Nat /\ nl \in Nat /\ nr \in Nat /\ nc \in Nat /\ Len(L.shape) = nb + nl + nr
      /\ a \in nb + 1 .. nb + nl /\ b \in nb + 1 .. nb + nl
  BY DEF Layouts
<1>. HIDE DEF nb, nl, nr, nc
<1>2. ASSUME NEW x \in Index(L.shape), NEW c \in Index(L.summed)
      PROVE  RightAt(L, SwapOf(Len(L.shape), x, a, b), c) = RightAt(L, x, c)
  <2>. DEFINE y == SwapOf(Len(L.shape), x, a, b)
  <2>1. ASSUME NEW k \in 1 .. nb PROVE y[k] = x[k]
    <3>1. k \in 1 .. Len(L.shape) /\ k # a /\ k # b
      BY <1>1
    <3>. QED BY <3>1 DEF SwapOf
  <2>2. ASSUME NEW k \in nb + 1 .. nb + nr PROVE y[k + nl] = x[k + nl]
    <3>1. k + nl \in 1 .. Len(L.shape) /\ k + nl # a /\ k + nl # b
      BY <1>1
    <3>. QED BY <3>1 DEF SwapOf
  <2>. HIDE DEF y
  <2>3. ASSUME NEW k \in 1 .. nb + nr + nc PROVE RightAt(L, y, c)[k] = RightAt(L, x, c)[k]
    <3>1. (k <= nb => k \in 1 .. nb) /\ (~ (k <= nb) /\ k <= nb + nr => k \in nb + 1 .. nb + nr)
      BY <1>1
    <3>2. CASE k <= nb
      BY <2>1, <3>1, <3>2 DEF RightAt, nb, nr, nc
    <3>3. CASE ~ (k <= nb) /\ k <= nb + nr
      BY <2>2, <3>1, <3>3 DEF RightAt, nb, nr, nc, nl
    <3>4. CASE ~ (k <= nb) /\ ~ (k <= nb + nr)
      BY <3>4 DEF RightAt, nb, nr, nc, nl
    <3>. QED BY <3>2, <3>3, <3>4
  <2>. QED BY <2>3 DEF RightAt, y, nb, nr, nc
<1>. QED BY <1>2 DEF RightSame

\* The rule for two batching dimensions that may be swapped in both operands.
LEMMA BatchingRule ==
  ASSUME NEW s, NEW t, IsTensor(s), IsTensor(t), NEW L, Layouts(s, t, L),
         NEW a \in 1 .. L.nb, NEW b \in 1 .. L.nb,
         <<L.left[a], L.left[b]>> \in Swaps(s), <<L.right[a], L.right[b]>> \in Swaps(t)
  PROVE  <<a, b>> \in Swaps(Dots(s, t, L))
<1>1. /\ L.nb \in Nat /\ L.nl \in Nat /\ L.nr \in Nat /\ Len(L.shape) = L.nb + L.nl + L.nr
  BY DEF Layouts
<1>2. /\ a \in 1 .. L.nb + L.nl /\ b \in 1 .. L.nb + L.nl /\ a \in 1 .. L.nb + L.nr /\ b \in 1 .. L.nb + L.nr
      /\ a \in 1 .. Len(L.shape) /\ b \in 1 .. Len(L.shape) /\ a <= L.nb /\ b <= L.nb
  BY <1>1
<1>3. LeftSame(s, L, a, b) /\ L.shape[a] = L.shape[b]
  BY <1>2, LeftSwapped
<1>4. Place(L, a) = a /\ Place(L, b) = b
  BY <1>2 DEF Place
<1>5. RightSame(t, L, Place(L, a), Place(L, b))
  BY <1>2, RightSwapped
<1>. QED BY <1>2, <1>3, <1>4, <1>5, SameReads, DotsSwap

\* For two free dimensions of the left operand.
LEMMA LeftRule ==
  ASSUME NEW s, NEW t, IsTensor(s), IsTensor(t), NEW L, Layouts(s, t, L),
         NEW a \in L.nb + 1 .. L.nb + L.nl, NEW b \in L.nb + 1 .. L.nb + L.nl,
         <<L.left[a], L.left[b]>> \in Swaps(s)
  PROVE  <<a, b>> \in Swaps(Dots(s, t, L))
<1>1. /\ L.nb \in Nat /\ L.nl \in Nat /\ L.nr \in Nat /\ Len(L.shape) = L.nb + L.nl + L.nr
  BY DEF Layouts
<1>2. /\ a \in 1 .. L.nb + L.nl /\ b \in 1 .. L.nb + L.nl
      /\ a \in 1 .. Len(L.shape) /\ b \in 1 .. Len(L.shape)
  BY <1>1
<1>3. LeftSame(s, L, a, b) /\ L.shape[a] = L.shape[b]
  BY <1>2, LeftSwapped
<1>4. RightSame(t, L, a, b)
  BY RightUnread
<1>. QED BY <1>2, <1>3, <1>4, SameReads, DotsSwap

\* For two free dimensions of the right one.
LEMMA RightRule ==
  ASSUME NEW s, NEW t, IsTensor(s), IsTensor(t), NEW L, Layouts(s, t, L),
         NEW e \in L.nb + 1 .. L.nb + L.nr, NEW f \in L.nb + 1 .. L.nb + L.nr,
         <<L.right[e], L.right[f]>> \in Swaps(t)
  PROVE  <<e + L.nl, f + L.nl>> \in Swaps(Dots(s, t, L))
<1>1. /\ L.nb \in Nat /\ L.nl \in Nat /\ L.nr \in Nat /\ Len(L.shape) = L.nb + L.nl + L.nr
  BY DEF Layouts
<1>2. /\ e \in 1 .. L.nb + L.nr /\ f \in 1 .. L.nb + L.nr /\ ~ (e <= L.nb) /\ ~ (f <= L.nb)
      /\ e + L.nl \notin 1 .. L.nb + L.nl /\ f + L.nl \notin 1 .. L.nb + L.nl
  <2>. DEFINE nb == L.nb
              nl == L.nl
              nr == L.nr
  <2>1. nb \in Nat /\ nl \in Nat /\ nr \in Nat /\ e \in nb + 1 .. nb + nr /\ f \in nb + 1 .. nb + nr
    BY <1>1
  <2>2. /\ e \in 1 .. nb + nr /\ f \in 1 .. nb + nr /\ ~ (e <= nb) /\ ~ (f <= nb)
        /\ e + nl \notin 1 .. nb + nl /\ f + nl \notin 1 .. nb + nl
    <3>. HIDE DEF nb, nl, nr
    <3>. QED BY <2>1
  <2>. QED BY <2>2
<1>3. Place(L, e) = e + L.nl /\ Place(L, f) = f + L.nl
  BY <1>2 DEF Place
<1>4. RightSame(t, L, e + L.nl, f + L.nl) /\ L.shape[e + L.nl] = L.shape[f + L.nl]
  BY <1>2, <1>3, RightSwapped
<1>5. LeftSame(s, L, e + L.nl, f + L.nl)
  BY <1>2, LeftUnread
<1>6. e + L.nl \in 1 .. Len(L.shape) /\ f + L.nl \in 1 .. Len(L.shape)
  BY <1>2, <1>3, PlaceIs
<1>. QED BY <1>4, <1>5, <1>6, SameReads, DotsSwap

-----------------------------------------------------------------------------
(* dot_general of a tensor and itself, or of a tensor and its transpose *)

\* The right operand read at an index is the left one read with its dimensions moved.
ReadsThrough(s, t, q) ==
  /\ Rank(t) = Rank(s) /\ q \in Perms(Rank(s))
  /\ \A d \in Dim(s) : s.shape[d] = t.shape[q[d]]
  /\ \A z \in Index(t.shape) : t.at[z] = s.at[Moving(Rank(s), q, z)]

OwnInverse(n, q) == \A d \in 1 .. n : q[q[d]] = d

After(n, q, o) == [k \in 1 .. n |-> q[o[k]]]

\* A permutation that is its own inverse, after another one.
LEMMA AfterIs ==
  ASSUME NEW n \in Nat, NEW o \in Perms(n), NEW q \in Perms(n), OwnInverse(n, q)
  PROVE  /\ After(n, q, o) \in Perms(n)
         /\ \A d \in 1 .. n : InversePerm(After(n, q, o))[d] = InversePerm(o)[q[d]]
         /\ \A k \in 1 .. n : q[After(n, q, o)[k]] = o[k]
<1>. DEFINE w == After(n, q, o)
<1>1. Inverts(n, o) /\ Inverts(n, q)
  BY PermFacts
<1>2. \A k \in 1 .. n : w[k] = q[o[k]] /\ w[k] \in 1 .. n /\ q[w[k]] = o[k]
  BY <1>1 DEF After, Inverts, OwnInverse
<1>3. ASSUME NEW d \in 1 .. n
      PROVE  InversePerm(o)[q[d]] \in 1 .. n /\ w[InversePerm(o)[q[d]]] = d
  <2>1. q[d] \in 1 .. n /\ q[q[d]] = d
    BY <1>1 DEF Inverts, OwnInverse
  <2>2. InversePerm(o)[q[d]] \in 1 .. n /\ o[InversePerm(o)[q[d]]] = q[d]
    BY <1>1, <2>1 DEF Inverts
  <2>. QED BY <1>2, <2>1, <2>2
<1>4. w \in Perms(n)
  <2>1. w = [k \in 1 .. n |-> q[o[k]]]
    BY DEF After
  <2>2. w \in [1 .. n -> 1 .. n]
    BY <1>2, <2>1
  <2>3. \A d \in 1 .. n : \E e \in 1 .. n : w[e] = d
    BY <1>3
  <2>. QED BY <2>2, <2>3 DEF Perms
<1>. HIDE DEF w
<1>5. Inverts(n, w)
  BY <1>4, PermFacts
<1>6. ASSUME NEW d \in 1 .. n PROVE InversePerm(w)[d] = InversePerm(o)[q[d]]
  <2>1. InversePerm(w)[w[InversePerm(o)[q[d]]]] = InversePerm(o)[q[d]]
    BY <1>3, <1>5 DEF Inverts
  <2>. QED BY <1>3, <2>1
<1>. QED BY <1>2, <1>4, <1>6 DEF w

\* Reading the right operand is reading the left one.
LEMMA ReadThrough ==
  ASSUME NEW s, IsTensor(s), NEW t, IsTensor(t), NEW q, ReadsThrough(s, t, q), OwnInverse(Rank(s), q),
         NEW o \in Perms(Rank(s)), NEW j, Suits(t.shape, o, j)
  PROVE  /\ t.at[ReadAt(Rank(t), o, j)] = s.at[ReadAt(Rank(s), After(Rank(s), q, o), j)]
         /\ Suits(s.shape, After(Rank(s), q, o), j)
<1>. DEFINE n == Rank(s)
            w == After(n, q, o)
            z == ReadAt(n, o, j)
<1>1. /\ n \in Nat /\ Rank(t) = n /\ q \in Perms(n) /\ Dim(s) = 1 .. n /\ Len(s.shape) = n /\ Len(t.shape) = n
      /\ IsShape(t.shape)
  BY TensorParts DEF ReadsThrough, Dim
<1>2. /\ w \in Perms(n) /\ \A d \in 1 .. n : InversePerm(w)[d] = InversePerm(o)[q[d]]
      /\ \A k \in 1 .. n : q[w[k]] = o[k]
  BY <1>1, AfterIs
<1>3. Inverts(n, q) /\ Inverts(n, w)
  BY <1>1, <1>2, PermFacts
<1>4. z \in Index(t.shape)
  BY <1>1, ReadIn
<1>5. Moving(n, q, z) = ReadAt(n, w, j)
  <2>. HIDE DEF w
  <2>1. ASSUME NEW d \in 1 .. n PROVE Moving(n, q, z)[d] = ReadAt(n, w, j)[d]
    <3>1. q[d] \in 1 .. n
      BY <1>3 DEF Inverts
    <3>. QED BY <1>2, <3>1 DEF Moving, ReadAt
  <2>. QED BY <2>1 DEF Moving, ReadAt
<1>6. t.at[z] = s.at[ReadAt(n, w, j)]
  <2>. HIDE DEF w, z
  <2>. QED BY <1>4, <1>5 DEF ReadsThrough
<1>7. ASSUME NEW k \in 1 .. n PROVE j[k] \in Nat /\ 1 <= j[k] /\ j[k] <= s.shape[w[k]]
  <2>1. w[k] \in 1 .. n
    BY <1>3 DEF Inverts
  <2>2. s.shape[w[k]] = t.shape[o[k]]
    <3>. HIDE DEF w
    <3>. QED BY <1>1, <1>2, <2>1 DEF ReadsThrough
  <2>. QED BY <1>1, <2>2 DEF Suits
<1>. HIDE DEF w
<1>8. Suits(s.shape, w, j)
  BY <1>1, <1>7 DEF Suits
<1>. QED BY <1>1, <1>6, <1>8 DEF w

\* The dimensions of two orders may be swapped with each other, moved as told by sigma.
Matches(s, o, w, sigma) ==
  /\ sigma \in [Dim(s) -> Dim(s)] /\ \A k \in Dim(s) : sigma[sigma[k]] = k
  /\ \A k \in Dim(s) : <<o[k], w[sigma[k]]>> \in Swaps(s)

\* Then the tensor may be read along either.
LEMMA ReadMatched ==
  ASSUME NEW s, IsTensor(s), NEW o \in Perms(Rank(s)), NEW w \in Perms(Rank(s)),
         NEW sigma, Matches(s, o, w, sigma), NEW j, Suits(s.shape, w, j)
  PROVE  s.at[ReadAt(Rank(s), w, j)] = s.at[ReadAt(Rank(s), o, Moving(Rank(s), sigma, j))]
<1>. DEFINE n == Rank(s)
            m == [d \in 1 .. n |-> w[sigma[InversePerm(o)[d]]]]
<1>1. n \in Nat /\ Dim(s) = 1 .. n /\ Len(s.shape) = n /\ IsShape(s.shape)
  BY TensorParts DEF Dim
<1>2. Inverts(n, o) /\ Inverts(n, w)
  BY <1>1, PermFacts
<1>3. ASSUME NEW d \in 1 .. n
      PROVE  /\ InversePerm(o)[d] \in 1 .. n /\ o[InversePerm(o)[d]] = d
             /\ sigma[InversePerm(o)[d]] \in 1 .. n
             /\ m[d] \in 1 .. n /\ <<d, m[d]>> \in Swaps(s)
             /\ InversePerm(w)[m[d]] = sigma[InversePerm(o)[d]]
  <2>1. InversePerm(o)[d] \in 1 .. n /\ o[InversePerm(o)[d]] = d
    BY <1>2 DEF Inverts
  <2>2. sigma[InversePerm(o)[d]] \in 1 .. n /\ <<o[InversePerm(o)[d]], w[sigma[InversePerm(o)[d]]]>> \in Swaps(s)
    BY <1>1, <2>1 DEF Matches
  <2>. QED BY <1>2, <2>1, <2>2 DEF Inverts
<1>4. m \in Perms(n)
  <2>1. m \in [1 .. n -> 1 .. n]
    BY <1>3
  <2>2. ASSUME NEW e \in 1 .. n PROVE \E d \in 1 .. n : m[d] = e
    <3>. DEFINE k == InversePerm(w)[e]
                d == o[sigma[k]]
    <3>1. k \in 1 .. n /\ w[k] = e
      BY <1>2 DEF Inverts
    <3>. HIDE DEF k
    <3>2. sigma[k] \in 1 .. n /\ sigma[sigma[k]] = k
      BY <1>1, <3>1 DEF Matches
    <3>3. d \in 1 .. n /\ InversePerm(o)[d] = sigma[k]
      BY <1>2, <3>2 DEF Inverts
    <3>4. m[d] = w[sigma[InversePerm(o)[d]]]
      BY <3>3
    <3>. HIDE DEF m, d
    <3>. QED BY <3>1, <3>2, <3>3, <3>4
  <2>. HIDE DEF m
  <2>. QED BY <2>1, <2>2 DEF Perms
<1>. HIDE DEF m
<1>5. MovesWithin(s, m)
  BY <1>1, <1>3, <1>4 DEF MovesWithin
<1>6. KeepsValues(s, m)
  BY <1>5, WithinKeeps
<1>7. ReadAt(n, w, j) \in Index(s.shape)
  BY <1>1, ReadIn
<1>8. Moving(n, m, ReadAt(n, w, j)) = ReadAt(n, o, Moving(n, sigma, j))
  <2>1. ASSUME NEW d \in 1 .. n
        PROVE  Moving(n, m, ReadAt(n, w, j))[d] = ReadAt(n, o, Moving(n, sigma, j))[d]
    <3>1. Moving(n, m, ReadAt(n, w, j))[d] = j[InversePerm(w)[m[d]]]
      BY <1>3 DEF Moving, ReadAt
    <3>2. ReadAt(n, o, Moving(n, sigma, j))[d] = j[sigma[InversePerm(o)[d]]]
      BY <1>3 DEF Moving, ReadAt
    <3>. QED BY <1>3, <3>1, <3>2
  <2>. QED BY <2>1 DEF Moving, ReadAt
<1>. QED BY <1>6, <1>7, <1>8 DEF KeepsValues

\* The batching and free dimensions stay, the contracting ones move as pi says.
Rear(nb, nc, pi) == [k \in 1 .. nb + 1 + nc |-> IF k <= nb + 1 THEN k ELSE nb + 1 + pi[k - (nb + 1)]]

Paired(nc, pi) == pi \in [1 .. nc -> 1 .. nc] /\ \A k \in 1 .. nc : pi[pi[k]] = k

\* One free dimension on either side, and the dimensions of the right operand,
\* where they are in the left one, may be swapped with those of the left one.
Exchangeable(s, L, q, pi) ==
  /\ L.nl = 1 /\ L.nr = 1 /\ Paired(L.nc, pi)
  /\ \A k \in 1 .. L.nb + 1 : <<L.left[k], q[L.right[k]]>> \in Swaps(s)
  /\ \A k \in 1 .. L.nc : <<L.left[L.nb + 1 + k], q[L.right[L.nb + 1 + pi[k]]]>> \in Swaps(s)

RearMoves(nb, nc, pi, g) ==
  /\ g \in [1 .. nb + 1 + nc -> 1 .. nb + 1 + nc]
  /\ \A k \in 1 .. nb + 1 + nc : g[g[k]] = k
  /\ \A k \in 1 .. nb + 1 : g[k] = k
  /\ \A k \in 1 .. nc : g[nb + 1 + k] = nb + 1 + pi[k]

\* What Rear moves.
LEMMA RearIs ==
  ASSUME NEW nb \in Nat, NEW nc \in Nat, NEW pi, Paired(nc, pi)
  PROVE  RearMoves(nb, nc, pi, Rear(nb, nc, pi))
<1>. DEFINE g == Rear(nb, nc, pi)
<1>1. \A k \in 1 .. nc : pi[k] \in 1 .. nc /\ pi[pi[k]] = k
  BY DEF Paired
<1>2. \A k \in 1 .. nb + 1 : k \in 1 .. nb + 1 + nc /\ g[k] = k
  BY DEF Rear
<1>3. ASSUME NEW k \in 1 .. nc PROVE nb + 1 + k \in 1 .. nb + 1 + nc /\ g[nb + 1 + k] = nb + 1 + pi[k]
  <2>1. nb + 1 + k \in 1 .. nb + 1 + nc /\ ~ (nb + 1 + k <= nb + 1) /\ (nb + 1 + k) - (nb + 1) = k
    OBVIOUS
  <2>. QED BY <2>1 DEF Rear
<1>4. \A k \in 1 .. nb + 1 + nc : k \in 1 .. nb + 1 \/ \E e \in 1 .. nc : k = nb + 1 + e
  <2>. SUFFICES ASSUME NEW k \in 1 .. nb + 1 + nc, k \notin 1 .. nb + 1 PROVE \E e \in 1 .. nc : k = nb + 1 + e
    OBVIOUS
  <2>1. k - (nb + 1) \in 1 .. nc /\ k = nb + 1 + (k - (nb + 1))
    OBVIOUS
  <2>. QED BY <2>1
<1>5. g = [k \in 1 .. nb + 1 + nc |-> g[k]]
  BY DEF Rear
<1>. HIDE DEF g
<1>6. ASSUME NEW k \in 1 .. nb + 1 + nc PROVE g[k] \in 1 .. nb + 1 + nc /\ g[g[k]] = k
  <2>1. CASE k \in 1 .. nb + 1
    BY <1>2, <2>1
  <2>2. CASE \E e \in 1 .. nc : k = nb + 1 + e
    <3>1. PICK e \in 1 .. nc : k = nb + 1 + e
      BY <2>2
    <3>. QED BY <1>1, <1>3, <3>1
  <2>. QED BY <1>4, <2>1, <2>2
<1>. QED BY <1>2, <1>3, <1>5, <1>6 DEF g, RearMoves

\* The two orders match.
LEMMA ExchangeMatches ==
  ASSUME NEW s, IsTensor(s), NEW t, NEW L, Layouts(s, t, L), NEW q, NEW pi, Exchangeable(s, L, q, pi)
  PROVE  Matches(s, L.left, After(Rank(s), q, L.right), Rear(L.nb, L.nc, pi))
<1>. DEFINE nb == L.nb
            nc == L.nc
            n == nb + 1 + nc
            g == Rear(nb, nc, pi)
            w == After(n, q, L.right)
<1>1. nb \in Nat /\ nc \in Nat /\ Rank(s) = n /\ Dim(s) = 1 .. n /\ Paired(nc, pi)
  BY DEF Layouts, Exchangeable, Dim
<1>2. /\ g \in [1 .. n -> 1 .. n] /\ \A k \in 1 .. n : g[g[k]] = k
      /\ \A k \in 1 .. nb + 1 : g[k] = k
      /\ \A k \in 1 .. nc : g[nb + 1 + k] = nb + 1 + pi[k]
  <2>. HIDE DEF g, nb, nc
  <2>1. RearMoves(nb, nc, pi, g)
    BY <1>1, RearIs DEF g
  <2>. QED BY <2>1 DEF RearMoves
<1>3. \A k \in 1 .. n : w[k] = q[L.right[k]]
  BY DEF After
<1>4. /\ \A k \in 1 .. nb + 1 : <<L.left[k], q[L.right[k]]>> \in Swaps(s)
      /\ \A k \in 1 .. nc : pi[k] \in 1 .. nc /\ <<L.left[nb + 1 + k], q[L.right[nb + 1 + pi[k]]]>> \in Swaps(s)
  BY DEF Exchangeable, Paired
<1>. HIDE DEF g, w, nb, nc
<1>5. ASSUME NEW k \in 1 .. n PROVE <<L.left[k], w[g[k]]>> \in Swaps(s)
  <2>1. CASE k \in 1 .. nb + 1
    BY <1>2, <1>3, <1>4, <2>1
  <2>2. CASE k \notin 1 .. nb + 1
    <3>1. k - (nb + 1) \in 1 .. nc /\ k = nb + 1 + (k - (nb + 1))
      BY <1>1, <2>2
    <3>2. PICK e \in 1 .. nc : k = nb + 1 + e
      BY <3>1
    <3>3. nb + 1 + pi[e] \in 1 .. n
      <4>. DEFINE f == pi[e]
      <4>1. f \in 1 .. nc
        BY <1>4
      <4>. HIDE DEF f
      <4>2. nb + 1 + f \in 1 .. n
        BY <1>1, <4>1
      <4>. QED BY <4>2 DEF f
    <3>. QED BY <1>2, <1>3, <1>4, <3>2, <3>3
  <2>. QED BY <2>1, <2>2
<1>. QED BY <1>1, <1>2, <1>5 DEF Matches, g, w, nb, nc

\* Exchanging the free dimensions exchanges what is read of the operands.
LEMMA ExchangedReads ==
  ASSUME NEW L, L.nb \in Nat, L.nc \in Nat, L.nl = 1, L.nr = 1, Len(L.shape) = L.nb + 2, NEW x, NEW c
  PROVE  /\ LeftAt(L, SwapOf(Len(L.shape), x, L.nb + 1, L.nb + 2), c) = RightAt(L, x, c)
         /\ RightAt(L, SwapOf(Len(L.shape), x, L.nb + 1, L.nb + 2), c) = LeftAt(L, x, c)
<1>. DEFINE nb == L.nb
            nc == L.nc
            n == nb + 1 + nc
            y == SwapOf(nb + 2, x, nb + 1, nb + 2)
<1>1. nb \in Nat /\ nc \in Nat /\ \A k \in 1 .. nb : y[k] = x[k]
  BY DEF SwapOf
<1>2. y[nb + 1] = x[nb + 2] /\ y[nb + 2] = x[nb + 1]
  BY DEF SwapOf
<1>. HIDE DEF y
<1>3. /\ LeftAt(L, y, c) = [k \in 1 .. n |-> IF k <= nb + 1 THEN y[k] ELSE c[k - (nb + 1)]]
      /\ LeftAt(L, x, c) = [k \in 1 .. n |-> IF k <= nb + 1 THEN x[k] ELSE c[k - (nb + 1)]]
      /\ RightAt(L, y, c) = [k \in 1 .. n |->
            IF k <= nb THEN y[k] ELSE IF k <= nb + 1 THEN y[k + 1] ELSE c[k - (nb + 1)]]
      /\ RightAt(L, x, c) = [k \in 1 .. n |->
            IF k <= nb THEN x[k] ELSE IF k <= nb + 1 THEN x[k + 1] ELSE c[k - (nb + 1)]]
  BY DEF LeftAt, RightAt
<1>. HIDE DEF nb, nc
<1>4. ASSUME NEW k \in 1 .. n
      PROVE  LeftAt(L, y, c)[k] = RightAt(L, x, c)[k] /\ RightAt(L, y, c)[k] = LeftAt(L, x, c)[k]
  <2>1. CASE k <= nb
    <3>1. k \in 1 .. nb /\ k <= nb + 1
      BY <1>1, <2>1
    <3>. QED BY <1>1, <1>3, <2>1, <3>1
  <2>2. CASE k = nb + 1
    <3>1. ~ (k <= nb) /\ k <= nb + 1 /\ k + 1 = nb + 2
      BY <1>1, <2>2
    <3>. QED BY <1>2, <1>3, <2>2, <3>1
  <2>3. CASE ~ (k <= nb) /\ ~ (k <= nb + 1)
    BY <1>3, <2>3
  <2>4. k <= nb \/ k = nb + 1 \/ (~ (k <= nb) /\ ~ (k <= nb + 1))
    BY <1>1
  <2>. QED BY <2>1, <2>2, <2>3, <2>4
<1>5. LeftAt(L, y, c) = RightAt(L, x, c) /\ RightAt(L, y, c) = LeftAt(L, x, c)
  <2>. HIDE DEF n
  <2>. QED BY <1>3, <1>4
<1>6. y = SwapOf(Len(L.shape), x, L.nb + 1, L.nb + 2)
  BY DEF y, nb
<1>. QED BY <1>5, <1>6

\* Moving the contracting dimensions of the right operand.
LEMMA MovedReads ==
  ASSUME NEW L, L.nb \in Nat, L.nc \in Nat, L.nr = 1, NEW pi, Paired(L.nc, pi), NEW x, NEW c
  PROVE  Moving(L.nb + 1 + L.nc, Rear(L.nb, L.nc, pi), RightAt(L, x, c)) = RightAt(L, x, Moving(L.nc, pi, c))
<1>. DEFINE nb == L.nb
            nc == L.nc
            n == nb + 1 + nc
            g == Rear(nb, nc, pi)
            d == Moving(nc, pi, c)
<1>1. nb \in Nat /\ nc \in Nat
  OBVIOUS
<1>2. /\ g \in [1 .. n -> 1 .. n]
      /\ \A k \in 1 .. nb + 1 : g[k] = k
      /\ \A k \in 1 .. nc : g[nb + 1 + k] = nb + 1 + pi[k]
  <2>. HIDE DEF g
  <2>1. RearMoves(nb, nc, pi, g)
    BY RearIs DEF g
  <2>. QED BY <2>1 DEF RearMoves
<1>3. \A k \in 1 .. nc : pi[k] \in 1 .. nc /\ d[k] = c[pi[k]]
  BY DEF Paired, Moving
<1>. HIDE DEF g, d
<1>4. /\ RightAt(L, x, c) = [k \in 1 .. n |->
            IF k <= nb THEN x[k] ELSE IF k <= nb + 1 THEN x[k + L.nl] ELSE c[k - (nb + 1)]]
      /\ RightAt(L, x, d) = [k \in 1 .. n |->
            IF k <= nb THEN x[k] ELSE IF k <= nb + 1 THEN x[k + L.nl] ELSE d[k - (nb + 1)]]
  BY DEF RightAt
<1>. HIDE DEF nb, nc
<1>5. ASSUME NEW k \in 1 .. n PROVE RightAt(L, x, c)[g[k]] = RightAt(L, x, d)[k]
  <2>1. CASE k \in 1 .. nb + 1
    <3>1. g[k] = k /\ k <= nb + 1
      BY <1>2, <2>1
    <3>. QED BY <1>4, <3>1
  <2>2. CASE k \notin 1 .. nb + 1
    <3>1. k - (nb + 1) \in 1 .. nc /\ k = nb + 1 + (k - (nb + 1))
      BY <1>1, <2>2
    <3>2. PICK e \in 1 .. nc : k = nb + 1 + e
      BY <3>1
    <3>3. pi[e] \in 1 .. nc /\ g[k] = nb + 1 + pi[e] /\ d[e] = c[pi[e]]
      BY <1>2, <1>3, <3>2
    <3>. DEFINE f == pi[e]
    <3>4. RightAt(L, x, c)[nb + 1 + f] = c[f]
      <4>1. f \in 1 .. nc
        BY <3>3
      <4>. HIDE DEF f
      <4>2. nb + 1 + f \in 1 .. n /\ ~ (nb + 1 + f <= nb) /\ ~ (nb + 1 + f <= nb + 1) /\ (nb + 1 + f) - (nb + 1) = f
        BY <1>1, <4>1
      <4>. HIDE DEF n
      <4>. QED BY <1>4, <4>2
    <3>5. RightAt(L, x, d)[k] = d[e]
      <4>1. ~ (k <= nb) /\ ~ (k <= nb + 1) /\ k - (nb + 1) = e
        BY <1>1, <3>2
      <4>. QED BY <1>4, <4>1
    <3>. QED BY <3>3, <3>4, <3>5
  <2>. QED BY <2>1, <2>2
<1>. QED BY <1>4, <1>5 DEF Moving, nb, nc, d, g

\* The sizes of dimensions that match.
LEMMA MatchedSizes ==
  ASSUME NEW s, IsTensor(s), NEW t, IsTensor(t), NEW q, ReadsThrough(s, t, q), OwnInverse(Rank(s), q),
         NEW d \in Dim(s), NEW e \in Dim(s), <<d, q[e]>> \in Swaps(s)
  PROVE  s.shape[d] = t.shape[e]
<1>1. q[e] \in Dim(s) /\ s.shape[d] = s.shape[q[e]]
  BY DEF Swaps, Swappable
<1>2. s.shape[q[e]] = t.shape[q[q[e]]]
  BY <1>1 DEF ReadsThrough
<1>3. q[q[e]] = e
  BY DEF OwnInverse, Dim
<1>. QED BY <1>1, <1>2, <1>3

\* Sizes of what is exchanged.
LEMMA ExchangedSizes ==
  ASSUME NEW s, IsTensor(s), NEW t, IsTensor(t), NEW L, Layouts(s, t, L),
         NEW q, ReadsThrough(s, t, q), OwnInverse(Rank(s), q), NEW pi, Exchangeable(s, L, q, pi)
  PROVE  /\ L.shape[L.nb + 1] = L.shape[L.nb + 2]
         /\ \A k \in 1 .. L.nc : L.summed[pi[k]] = L.summed[k]
<1>. DEFINE nb == L.nb
            nc == L.nc
            n == nb + 1 + nc
<1>1. /\ nb \in Nat /\ nc \in Nat /\ Rank(s) = n /\ Rank(t) = n /\ Dim(s) = 1 .. n
      /\ L.left \in Perms(n) /\ L.right \in Perms(n) /\ Paired(nc, pi)
  BY DEF Layouts, Exchangeable, Dim
<1>2. (\A k \in 1 .. n : L.left[k] \in 1 .. n) /\ \A k \in 1 .. n : L.right[k] \in 1 .. n
  BY <1>1 DEF Perms
<1>3. nb + 1 \in 1 .. nb + 1 /\ nb + 1 \in nb + 1 .. nb + 1 /\ nb + 1 \in 1 .. n
  <2>. HIDE DEF nb, nc
  <2>. QED BY <1>1
<1>4. L.shape[nb + 1] = L.shape[nb + 2]
  <2>1. L.shape[nb + 1] = s.shape[L.left[nb + 1]]
    BY <1>3 DEF Layouts, Exchangeable
  <2>2. L.shape[nb + 1 + 1] = t.shape[L.right[nb + 1]]
    BY <1>3 DEF Layouts, Exchangeable
  <2>3. <<L.left[nb + 1], q[L.right[nb + 1]]>> \in Swaps(s)
    BY <1>3 DEF Exchangeable
  <2>4. s.shape[L.left[nb + 1]] = t.shape[L.right[nb + 1]]
    <3>. DEFINE d == L.left[nb + 1]
                e == L.right[nb + 1]
    <3>1. d \in Dim(s) /\ e \in Dim(s) /\ <<d, q[e]>> \in Swaps(s)
      BY <1>1, <1>2, <1>3, <2>3
    <3>. HIDE DEF d, e
    <3>2. s.shape[d] = t.shape[e]
      BY <3>1, MatchedSizes
    <3>. QED BY <3>2 DEF d, e
  <2>5. nb + 1 + 1 = nb + 2
    BY <1>1
  <2>. QED BY <2>1, <2>2, <2>4, <2>5
<1>5. ASSUME NEW k \in 1 .. nc PROVE L.summed[pi[k]] = L.summed[k]
  <2>. DEFINE e == pi[k]
              i == nb + 1 + k
              j == nb + 1 + e
  <2>1. e \in 1 .. nc
    BY <1>1 DEF Paired
  <2>2. <<L.left[i], q[L.right[j]]>> \in Swaps(s)
    BY DEF Exchangeable
  <2>3. L.summed[k] = s.shape[L.left[i]]
    BY DEF Layouts, Exchangeable
  <2>. HIDE DEF e
  <2>4. L.summed[e] = t.shape[L.right[j]]
    BY <2>1 DEF Layouts, Exchangeable
  <2>5. i \in 1 .. n /\ j \in 1 .. n
    <3>. HIDE DEF nb, nc
    <3>. QED BY <1>1, <2>1
  <2>. HIDE DEF i, j, n
  <2>6. s.shape[L.left[i]] = t.shape[L.right[j]]
    <3>. DEFINE a == L.left[i]
                b == L.right[j]
    <3>1. a \in Dim(s) /\ b \in Dim(s) /\ <<a, q[b]>> \in Swaps(s)
      BY <1>1, <1>2, <2>2, <2>5
    <3>. HIDE DEF a, b
    <3>2. s.shape[a] = t.shape[b]
      BY <3>1, MatchedSizes
    <3>. QED BY <3>2 DEF a, b
  <2>. QED BY <2>3, <2>4, <2>6 DEF e
<1>. QED BY <1>4, <1>5

\* The rule for the free dimensions of a tensor and itself: the operands
\* exchange what is read of them, and the summands move.
LEMMA DotExchangeRule ==
  ASSUME NEW s, IsTensor(s), NEW t, IsTensor(t), NEW L, Layouts(s, t, L),
         NEW q, ReadsThrough(s, t, q), OwnInverse(Rank(s), q), NEW pi, Exchangeable(s, L, q, pi)
  PROVE  <<L.nb + 1, L.nb + 2>> \in Swaps(Dots(s, t, L))
<1>. DEFINE nb == L.nb
            nc == L.nc
            n == Rank(s)
            w == After(n, q, L.right)
            g == Rear(nb, nc, pi)
            P == Index(L.summed)
            move == [c \in P |-> Moving(nc, pi, c)]
<1>1. /\ nb \in Nat /\ nc \in Nat /\ n \in Nat /\ n = nb + 1 + nc /\ Rank(t) = n
      /\ L.left \in Perms(n) /\ L.right \in Perms(n) /\ q \in Perms(n)
      /\ L.nl = 1 /\ L.nr = 1 /\ Paired(nc, pi) /\ Len(L.shape) = nb + 2
      /\ IsShape(L.shape) /\ IsShape(L.summed) /\ Len(L.summed) = nc
  BY DEF Layouts, Exchangeable, ReadsThrough
<1>2. /\ L.shape[nb + 1] = L.shape[nb + 2]
      /\ \A k \in 1 .. nc : L.summed[pi[k]] = L.summed[k]
  BY ExchangedSizes
<1>3. w \in Perms(n) /\ Matches(s, L.left, w, g)
  BY <1>1, AfterIs, ExchangeMatches
<1>4. ASSUME NEW x \in Index(L.shape), NEW c \in P
      PROVE  t.at[ReadAt(n, L.right, RightAt(L, x, c))]
               = s.at[ReadAt(n, L.left, RightAt(L, x, Moving(nc, pi, c)))]
  <2>. DEFINE j == RightAt(L, x, c)
  <2>1. Suits(t.shape, L.right, j)
    BY RightSuits
  <2>2. Moving(n, g, j) = RightAt(L, x, Moving(nc, pi, c))
    <3>1. Moving(L.nb + 1 + L.nc, Rear(L.nb, L.nc, pi), RightAt(L, x, c)) = RightAt(L, x, Moving(L.nc, pi, c))
      <4>1. L.nb \in Nat /\ L.nc \in Nat /\ L.nr = 1 /\ Paired(L.nc, pi)
        BY <1>1
      <4>. HIDE DEF n, j, P
      <4>. QED BY ONLY <4>1, MovedReads
    <3>2. L.nb + 1 + L.nc = n
      BY <1>1
    <3>. QED BY <3>1, <3>2
  <2>. HIDE DEF j, g, w
  <2>3. t.at[ReadAt(n, L.right, j)] = s.at[ReadAt(n, w, j)] /\ Suits(s.shape, w, j)
    <3>1. t.at[ReadAt(Rank(t), L.right, j)] = s.at[ReadAt(n, After(n, q, L.right), j)]
          /\ Suits(s.shape, After(n, q, L.right), j)
      BY <1>1, <2>1, ReadThrough
    <3>. QED BY <1>1, <3>1 DEF w
  <2>4. s.at[ReadAt(n, w, j)] = s.at[ReadAt(n, L.left, Moving(n, g, j))]
    BY <1>1, <1>3, <2>3, ReadMatched
  <2>. QED BY <2>2, <2>3, <2>4 DEF j
<1>5. ASSUME NEW c \in P
      PROVE  Moving(nc, pi, c) \in P /\ Moving(nc, pi, Moving(nc, pi, c)) = c
  <2>1. Within(L.summed, c)
    BY <1>1, IndexIs
  <2>2. \A k \in 1 .. nc : pi[k] \in 1 .. nc /\ pi[pi[k]] = k
    BY <1>1 DEF Paired
  <2>3. Within(L.summed, Moving(nc, pi, c))
    BY <1>1, <1>2, <2>1, <2>2 DEF Within, Moving
  <2>4. Moving(nc, pi, Moving(nc, pi, c)) = c
    <3>1. \A k \in 1 .. nc : Moving(nc, pi, Moving(nc, pi, c))[k] = c[k]
      BY <2>2 DEF Moving
    <3>2. c \in [1 .. nc -> Nat]
      BY <1>1, <2>1 DEF Within
    <3>3. c = [k \in 1 .. nc |-> c[k]]
          /\ Moving(nc, pi, Moving(nc, pi, c)) = [k \in 1 .. nc |-> Moving(nc, pi, Moving(nc, pi, c))[k]]
      BY <3>2 DEF Moving
    <3>. QED BY <3>1, <3>3, Zenon
  <2>. QED BY <1>1, <2>3, <2>4, IndexIs
<1>6. SelfInverse(P, move)
  <2>1. \A c \in P : move[c] \in P /\ move[move[c]] = c
    BY <1>5
  <2>2. move = [c \in P |-> move[c]]
    OBVIOUS
  <2>. HIDE DEF move
  <2>. QED BY <2>1, <2>2 DEF SelfInverse
<1>7. ASSUME NEW x \in Index(L.shape), SwapOf(Len(L.shape), x, nb + 1, nb + 2) \in Index(L.shape)
      PROVE  Total(P, Terms(s, t, L, SwapOf(Len(L.shape), x, nb + 1, nb + 2))) = Total(P, Terms(s, t, L, x))
  <2>. DEFINE y == SwapOf(Len(L.shape), x, nb + 1, nb + 2)
              e == Terms(s, t, L, y)
              f == Terms(s, t, L, x)
  <2>1. ASSUME NEW c \in P PROVE e[c] = f[move[c]]
    <3>. DEFINE d == Moving(nc, pi, c)
                u == s.at[ReadAt(n, L.left, RightAt(L, x, c))]
                v == s.at[ReadAt(n, L.left, LeftAt(L, x, d))]
    <3>1. d \in P /\ move[c] = d /\ Moving(nc, pi, d) = c
      BY <1>5
    <3>. HIDE DEF d, P, move
    <3>2. /\ LeftAt(L, y, c) = RightAt(L, x, c) /\ RightAt(L, y, c) = LeftAt(L, x, c)
          /\ RightAt(L, y, d) = LeftAt(L, x, d)
      BY <1>1, ExchangedReads
    <3>3. y \in Index(L.shape)
      BY <1>7
    <3>. HIDE DEF y
    <3>4. e[c] = s.at[ReadAt(n, L.left, LeftAt(L, y, c))] * t.at[ReadAt(n, L.right, RightAt(L, y, c))]
      BY <1>1 DEF Terms, P
    <3>5. f[d] = s.at[ReadAt(n, L.left, LeftAt(L, x, d))] * t.at[ReadAt(n, L.right, RightAt(L, x, d))]
      BY <1>1, <3>1 DEF Terms, P
    <3>6. t.at[ReadAt(n, L.right, RightAt(L, y, c))] = s.at[ReadAt(n, L.left, RightAt(L, y, d))]
      BY <1>4, <3>3 DEF d
    <3>7. t.at[ReadAt(n, L.right, RightAt(L, x, d))] = s.at[ReadAt(n, L.left, RightAt(L, x, c))]
      BY <1>4, <3>1
    <3>8. e[c] = u * v /\ f[d] = v * u
      <4>. HIDE DEF e, f
      <4>. QED BY <3>2, <3>4, <3>5, <3>6, <3>7
    <3>9. u \in Int /\ v \in Int
      <4>1. s.at[ReadAt(n, L.left, LeftAt(L, x, d))] \in Int
        BY <3>1, ReadsNumbers DEF P
      <4>2. s.at[ReadAt(n, L.left, LeftAt(L, y, c))] \in Int
        BY <3>3, ReadsNumbers DEF P
      <4>. QED BY <3>2, <4>1, <4>2
    <3>. HIDE DEF u, v, e, f
    <3>10. u * v = v * u
      BY <3>9
    <3>. QED BY <3>1, <3>8, <3>10
  <2>2. e = [c \in P |-> e[c]]
    BY DEF Terms
  <2>3. Summable(P, f)
    BY TermsSummable
  <2>. HIDE DEF e, f, move, P, y
  <2>4. e = [c \in P |-> f[move[c]]]
    BY <2>1, <2>2, Zenon
  <2>5. Total(P, e) = Total(P, f)
    BY <1>6, <2>3, <2>4, TotalMoved
  <2>. QED BY <2>5 DEF e, f, y
<1>8. SumsAgree(s, t, L, nb + 1, nb + 2)
  BY <1>7 DEF SumsAgree
<1>9. nb + 1 \in 1 .. Len(L.shape) /\ nb + 2 \in 1 .. Len(L.shape)
  <2>. HIDE DEF nb
  <2>. QED BY <1>1
<1>. QED BY <1>2, <1>8, <1>9, DotsSwap

-----------------------------------------------------------------------------
(* The layout of dot_general: from the pairs of dimensions to the orders *)

NoRepeats(seq) == \A j, k \in 1 .. Len(seq) : seq[j] = seq[k] => j = k

\* The dimensions that are in neither u nor v.
Others(n, u, v) == FlattenSeq([d \in 1 .. n |-> IF d \in Members(u \o v) THEN <<>> ELSE <<d>>])

\* Batching, free and contracting dimensions.
Order(n, u, v) == u \o Others(n, u, v) \o v

\* A sequence without repetition is a list of its members.
LEMMA MembersListed ==
  ASSUME NEW A, NEW u \in Seq(A), NoRepeats(u) PROVE Lists(Members(u), u) /\ Members(u) \subseteq A
<1>1. Len(u) \in Nat /\ u \in [1 .. Len(u) -> A] /\ DOMAIN u = 1 .. Len(u)
  BY LenProperties
<1>2. \A k \in 1 .. Len(u) : u[k] \in Members(u)
  BY <1>1 DEF Members
<1>3. u \in [1 .. Len(u) -> Members(u)]
  BY <1>1, <1>2
<1>4. u \in Seq(Members(u))
  BY <1>1, <1>3
<1>5. \A d \in Members(u) : \E k \in 1 .. Len(u) : u[k] = d
  BY <1>1 DEF Members
<1>. QED BY <1>1, <1>4, <1>5 DEF Lists, NoRepeats, Members

\* The parts of a sequence.
LEMMA CatParts ==
  ASSUME NEW A, NEW u \in Seq(A), NEW v \in Seq(A)
  PROVE  /\ u \o v \in Seq(A) /\ Len(u) \in Nat /\ Len(v) \in Nat /\ Len(u \o v) = Len(u) + Len(v)
         /\ \A k \in 1 .. Len(u) : (u \o v)[k] = u[k]
         /\ \A k \in 1 .. Len(v) : (u \o v)[Len(u) + k] = v[k]
<1>1. u \o v \in Seq(A) /\ Len(u \o v) = Len(u) + Len(v)
      /\ \A i \in 1 .. Len(u) + Len(v) : (u \o v)[i] = IF i <= Len(u) THEN u[i] ELSE v[i - Len(u)]
  BY ConcatProperties
<1>2. Len(u) \in Nat /\ Len(v) \in Nat
  BY LenProperties
<1>. DEFINE a == Len(u)
            b == Len(v)
            w == u \o v
<1>3. \A k \in 1 .. a : k \in 1 .. a + b /\ k <= a
  BY <1>2
<1>4. ASSUME NEW k \in 1 .. b PROVE a + k \in 1 .. a + b /\ ~ (a + k <= a) /\ (a + k) - a = k
  <2>1. a \in Nat /\ b \in Nat
    BY <1>2
  <2>. HIDE DEF a, b
  <2>. QED BY <2>1
<1>5. \A k \in 1 .. a : w[k] = u[k]
  BY <1>1, <1>3
<1>6. ASSUME NEW k \in 1 .. b PROVE w[a + k] = v[k]
  <2>. HIDE DEF w
  <2>1. \A i \in 1 .. a + b : w[i] = IF i <= a THEN u[i] ELSE v[i - a]
    BY <1>1 DEF w
  <2>. HIDE DEF a, b
  <2>. QED BY <1>4, <2>1
<1>. QED BY <1>1, <1>2, <1>5, <1>6

\* The order is a permutation.
LEMMA OrderIs ==
  ASSUME NEW n \in Nat, NEW u \in Seq(1 .. n), NEW v \in Seq(1 .. n), NoRepeats(u \o v)
  PROVE  /\ Order(n, u, v) \in Perms(n) /\ Others(n, u, v) \in Seq(1 .. n)
         /\ Len(u) + Len(Others(n, u, v)) + Len(v) = n
<1>. DEFINE B == Members(u)
            C == Members(v)
            F == (1 .. n) \ Members(u \o v)
            w == Others(n, u, v)
<1>1. /\ u \o v \in Seq(1 .. n) /\ Len(u) \in Nat /\ Len(v) \in Nat /\ Len(u \o v) = Len(u) + Len(v)
      /\ \A k \in 1 .. Len(u) : (u \o v)[k] = u[k]
      /\ \A k \in 1 .. Len(v) : (u \o v)[Len(u) + k] = v[k]
  BY CatParts
<1>. DEFINE a == Len(u)
            b == Len(v)
            uv == u \o v
<1>2. /\ \A k \in 1 .. a : k \in 1 .. a + b
      /\ \A k \in 1 .. b : a + k \in 1 .. a + b /\ a + k \notin 1 .. a
      /\ \A k \in 1 .. a + b : k \in 1 .. a \/ (k - a \in 1 .. b /\ k = a + (k - a))
  <2>1. a \in Nat /\ b \in Nat
    BY <1>1
  <2>. HIDE DEF a, b
  <2>. QED BY <2>1
<1>3. NoRepeats(u) /\ NoRepeats(v) /\ B \cap C = {}
  <2>0. \A j, k \in 1 .. a + b : uv[j] = uv[k] => j = k
    BY <1>1 DEF NoRepeats
  <2>1. (\A k \in 1 .. a : uv[k] = u[k]) /\ \A k \in 1 .. b : uv[a + k] = v[k]
    BY <1>1
  <2>2. a \in Nat /\ b \in Nat
    BY <1>1
  <2>3. DOMAIN u = 1 .. a /\ DOMAIN v = 1 .. b
    BY LenProperties
  <2>. HIDE DEF a, b, uv
  <2>4. \A j, k \in 1 .. a : u[j] = u[k] => j = k
    BY <1>2, <2>0, <2>1
  <2>5. ASSUME NEW j \in 1 .. b, NEW k \in 1 .. b, v[j] = v[k] PROVE j = k
    <3>1. a + j = a + k
      BY <1>2, <2>0, <2>1, <2>5
    <3>. QED BY <2>2, <3>1
  <2>6. ASSUME NEW j \in 1 .. a, NEW k \in 1 .. b PROVE u[j] # v[k]
    BY <1>2, <2>0, <2>1
  <2>7. B \cap C = {}
    BY <2>3, <2>6 DEF Members
  <2>. QED BY <2>4, <2>5, <2>7 DEF NoRepeats, a, b
<1>4. Members(uv) = B \union C
  <2>1. DOMAIN uv = 1 .. a + b /\ DOMAIN u = 1 .. a /\ DOMAIN v = 1 .. b
    BY <1>1, LenProperties
  <2>2. (\A k \in 1 .. a : uv[k] = u[k]) /\ \A k \in 1 .. b : uv[a + k] = v[k]
    BY <1>1
  <2>. HIDE DEF a, b, uv
  <2>3. ASSUME NEW d \in Members(uv) PROVE d \in B \union C
    <3>1. PICK k \in 1 .. a + b : d = uv[k]
      BY <2>1 DEF Members
    <3>2. CASE k \in 1 .. a
      BY <2>1, <2>2, <3>1, <3>2 DEF Members
    <3>3. CASE k \notin 1 .. a
      <4>1. k - a \in 1 .. b /\ k = a + (k - a)
        BY <1>2, <3>3
      <4>2. PICK e \in 1 .. b : k = a + e
        BY <4>1
      <4>. QED BY <2>1, <2>2, <3>1, <4>2 DEF Members
    <3>. QED BY <3>2, <3>3
  <2>4. ASSUME NEW d \in B PROVE d \in Members(uv)
    <3>1. PICK k \in 1 .. a : d = u[k]
      BY <2>1 DEF Members
    <3>. QED BY <1>2, <2>1, <2>2, <3>1 DEF Members
  <2>5. ASSUME NEW d \in C PROVE d \in Members(uv)
    <3>1. PICK k \in 1 .. b : d = v[k]
      BY <2>1 DEF Members
    <3>. QED BY <1>2, <2>1, <2>2, <3>1 DEF Members
  <2>. QED BY <2>3, <2>4, <2>5
<1>5. Lists(B, u) /\ Lists(C, v) /\ B \subseteq 1 .. n /\ C \subseteq 1 .. n
  BY <1>3, MembersListed
<1>6. Lists(F, w)
  <2>. DEFINE G == [d \in 1 .. n |-> IF d \in F THEN <<d>> ELSE <<>>]
  <2>1. w = FlattenSeq(G)
    <3>1. G = [d \in 1 .. n |-> IF d \in Members(u \o v) THEN <<>> ELSE <<d>>]
      OBVIOUS
    <3>. QED BY <3>1 DEF Others
  <2>2. F \in SUBSET (1 .. n)
    OBVIOUS
  <2>3. G = [d \in 1 .. n |-> IF d \in F THEN <<d>> ELSE <<>>]
    OBVIOUS
  <2>. HIDE DEF G, w, F
  <2>. QED BY <2>1, <2>2, <2>3, FilteredLists
<1>. HIDE DEF w
<1>7. Lists(B \union F, u \o w)
  <2>1. B \cap F = {}
    BY <1>4
  <2>. HIDE DEF B, F
  <2>. QED BY <1>5, <1>6, <2>1, ListsCat
<1>8. Lists((B \union F) \union C, (u \o w) \o v)
  <2>1. (B \union F) \cap C = {}
    BY <1>3, <1>4
  <2>. HIDE DEF B, C, F
  <2>. QED BY <1>5, <1>7, <2>1, ListsCat
<1>9. (B \union F) \union C = 1 .. n
  BY <1>4, <1>5
<1>10. Len((u \o w) \o v) = n /\ (u \o w) \o v \in Perms(n)
  <2>1. Lists(1 .. n, (u \o w) \o v)
    BY <1>8, <1>9
  <2>. QED BY <2>1, ListsAll
<1>11. w \in Seq(1 .. n)
  <2>1. w \in Seq(F) /\ F \subseteq 1 .. n
    BY <1>6 DEF Lists
  <2>. HIDE DEF F
  <2>2. Len(w) \in Nat /\ w \in [1 .. Len(w) -> F]
    BY <2>1, LenProperties
  <2>3. w \in [1 .. Len(w) -> 1 .. n]
    BY <2>1, <2>2
  <2>. DEFINE m == Len(w)
              D == 1 .. n
  <2>4. m \in Nat /\ w \in [1 .. m -> D]
    BY <2>2, <2>3
  <2>5. w \in Seq(D)
    <3>. HIDE DEF m, D
    <3>. QED BY <2>4
  <2>. QED BY <2>5
<1>12. Len((u \o w) \o v) = Len(u) + Len(w) + Len(v)
  <2>1. u \o w \in Seq(1 .. n) /\ Len(u \o w) = Len(u) + Len(w)
    BY <1>11, CatParts
  <2>2. Len((u \o w) \o v) = Len(u \o w) + Len(v)
    BY <2>1, CatParts
  <2>. QED BY <2>1, <2>2
<1>. QED BY <1>10, <1>11, <1>12 DEF Order, w

Cat2(A, u, v, all) ==
  /\ all \in Seq(A) /\ Len(u) \in Nat /\ Len(v) \in Nat /\ Len(all) = Len(u) + Len(v)
  /\ \A k \in 1 .. Len(u) : all[k] = u[k]
  /\ \A k \in 1 .. Len(v) : all[Len(u) + k] = v[k]

\* The same as one fact.
LEMMA Cat2Parts == ASSUME NEW A, NEW u \in Seq(A), NEW v \in Seq(A) PROVE Cat2(A, u, v, u \o v)
BY CatParts DEF Cat2

\* The parts of three sequences.
Cat3(A, u, w, v, all) ==
  /\ all \in Seq(A) /\ Len(u) \in Nat /\ Len(w) \in Nat /\ Len(v) \in Nat
  /\ Len(all) = Len(u) + Len(w) + Len(v)
  /\ \A k \in 1 .. Len(u) : all[k] = u[k]
  /\ \A k \in 1 .. Len(w) : all[Len(u) + k] = w[k]
  /\ \A k \in 1 .. Len(v) : all[Len(u) + Len(w) + k] = v[k]

\* They are found one after the other.
LEMMA Cat3Parts ==
  ASSUME NEW A, NEW u \in Seq(A), NEW w \in Seq(A), NEW v \in Seq(A) PROVE Cat3(A, u, w, v, u \o w \o v)
<1>. DEFINE a == Len(u)
            b == Len(w)
            c == Len(v)
            uw == u \o w
            all == uw \o v
<1>1. /\ uw \in Seq(A) /\ a \in Nat /\ b \in Nat /\ Len(uw) = a + b
      /\ \A k \in 1 .. a : uw[k] = u[k]
      /\ \A k \in 1 .. b : uw[a + k] = w[k]
  BY CatParts
<1>. HIDE DEF uw
<1>2. /\ all \in Seq(A) /\ c \in Nat /\ Len(all) = Len(uw) + c
      /\ \A k \in 1 .. Len(uw) : all[k] = uw[k]
      /\ \A k \in 1 .. c : all[Len(uw) + k] = v[k]
  <2>1. Cat2(A, uw, v, all)
    BY <1>1, Cat2Parts
  <2>. HIDE DEF all
  <2>. QED BY <2>1 DEF Cat2
<1>3. (\A k \in 1 .. a : k \in 1 .. a + b) /\ \A k \in 1 .. b : a + k \in 1 .. a + b
  <2>1. a \in Nat /\ b \in Nat
    BY <1>1
  <2>. HIDE DEF a, b
  <2>. QED BY <2>1
<1>. HIDE DEF all
<1>4. /\ \A k \in 1 .. a : all[k] = u[k]
      /\ \A k \in 1 .. b : all[a + k] = w[k]
      /\ \A k \in 1 .. c : all[a + b + k] = v[k]
  <2>. HIDE DEF a, b, c
  <2>. QED BY <1>1, <1>2, <1>3
<1>5. Cat3(A, u, w, v, all)
  BY <1>1, <1>2, <1>4 DEF Cat3
<1>. QED BY <1>5 DEF all, uw

\* One side of a sequence of pairs.
LEMMA SideIs ==
  ASSUME NEW A, NEW p \in Seq(A \X A), NEW i \in {1, 2}
  PROVE  /\ Side(p, i) \in Seq(A) /\ Len(Side(p, i)) = Len(p) /\ Len(p) \in Nat
         /\ \A k \in 1 .. Len(p) : Side(p, i)[k] = p[k][i]
<1>1. Len(p) \in Nat /\ DOMAIN p = 1 .. Len(p) /\ \A k \in 1 .. Len(p) : p[k] \in A \X A
  BY LenProperties
<1>2. \A k \in 1 .. Len(p) : p[k][i] \in A
  BY <1>1
<1>3. Side(p, i) = [k \in 1 .. Len(p) |-> p[k][i]]
  BY <1>1 DEF Side
<1>. DEFINE m == Len(p)
<1>4. Side(p, i) \in [1 .. m -> A] /\ m \in Nat
  BY <1>1, <1>2, <1>3
<1>. HIDE DEF m
<1>5. Side(p, i) \in Seq(A) /\ Len(Side(p, i)) = m
  BY <1>4
<1>. QED BY <1>1, <1>3, <1>5 DEF m

\* A side of two sequences of pairs.
LEMMA SideCat ==
  ASSUME NEW A, NEW p \in Seq(A \X A), NEW r \in Seq(A \X A), NEW i \in {1, 2}
  PROVE  Side(p \o r, i) = Side(p, i) \o Side(r, i)
<1>. DEFINE B == A \X A
            a == Len(p)
            b == Len(r)
            all == p \o r
            u == Side(p, i)
            v == Side(r, i)
            w == Side(all, i)
            uv == u \o v
<1>1. /\ all \in Seq(B) /\ a \in Nat /\ b \in Nat /\ Len(all) = a + b
      /\ \A k \in 1 .. a : all[k] = p[k]
      /\ \A k \in 1 .. b : all[a + k] = r[k]
  <2>. HIDE DEF B
  <2>1. p \in Seq(B) /\ r \in Seq(B)
    BY DEF B
  <2>. QED BY <2>1, CatParts
<1>2. u \in Seq(A) /\ Len(u) = a /\ \A k \in 1 .. a : u[k] = p[k][i]
  BY SideIs
<1>3. v \in Seq(A) /\ Len(v) = b /\ \A k \in 1 .. b : v[k] = r[k][i]
  BY SideIs
<1>. HIDE DEF all, u, v
<1>4. w \in Seq(A) /\ Len(w) = a + b /\ \A k \in 1 .. a + b : w[k] = all[k][i]
  <2>1. all \in Seq(A \X A)
    BY <1>1
  <2>2. w \in Seq(A) /\ Len(w) = Len(all) /\ \A k \in 1 .. Len(all) : w[k] = all[k][i]
    BY <2>1, SideIs
  <2>. QED BY <1>1, <2>2
<1>5. /\ uv \in Seq(A) /\ Len(uv) = a + b
      /\ \A k \in 1 .. a : uv[k] = u[k]
      /\ \A k \in 1 .. b : uv[a + k] = v[k]
  <2>1. /\ uv \in Seq(A) /\ Len(uv) = Len(u) + Len(v)
        /\ \A k \in 1 .. Len(u) : uv[k] = u[k]
        /\ \A k \in 1 .. Len(v) : uv[Len(u) + k] = v[k]
    <3>1. Cat2(A, u, v, uv)
      BY <1>2, <1>3, Cat2Parts
    <3>. HIDE DEF uv
    <3>. QED BY <3>1 DEF Cat2
  <2>. HIDE DEF uv
  <2>. QED BY <1>2, <1>3, <2>1
<1>. HIDE DEF w, uv
<1>6. ASSUME NEW k \in 1 .. a + b PROVE w[k] = uv[k]
  <2>1. CASE k \in 1 .. a
    BY <1>1, <1>2, <1>4, <1>5, <2>1
  <2>2. CASE k \notin 1 .. a
    <3>0. a \in Nat /\ b \in Nat
      BY <1>1
    <3>1. k - a \in 1 .. b /\ k = a + (k - a)
      <4>. HIDE DEF a, b
      <4>. QED BY <2>2, <3>0
    <3>2. PICK e \in 1 .. b : k = a + e
      BY <3>1
    <3>. QED BY <1>1, <1>3, <1>4, <1>5, <3>2
  <2>. QED BY <2>1, <2>2
<1>7. w \in [1 .. a + b -> A] /\ uv \in [1 .. a + b -> A]
  BY <1>4, <1>5, LenProperties
<1>8. w = [k \in 1 .. a + b |-> w[k]] /\ uv = [k \in 1 .. a + b |-> uv[k]]
  BY <1>7
<1>9. w = uv
  BY <1>6, <1>8, Zenon
<1>. QED BY <1>9 DEF w, uv, all, u, v

\* The pairs are of dimensions of one size.
PairsUp(s, t, p) ==
  /\ p \in Seq(Nat \X Nat)
  /\ \A k \in 1 .. Len(p) : p[k][1] \in Dim(s) /\ p[k][2] \in Dim(t) /\ s.shape[p[k][1]] = t.shape[p[k][2]]

\* The dimensions of the operand t, which is on side i.
SideOf(t, i, p) == p \in Seq(Nat \X Nat) /\ \A k \in 1 .. Len(p) : p[k][i] \in Dim(t)

Ordered(t, i, batch, contract) == Side(batch, i) \o Free(t, i, batch, contract) \o Side(contract, i)

OrderGives(t, i, batch, contract, order) ==
  /\ order \in Perms(Rank(t)) /\ Free(t, i, batch, contract) \in Seq(1 .. Rank(t))
  /\ Len(Free(t, i, batch, contract)) \in Nat /\ Len(batch) \in Nat /\ Len(contract) \in Nat
  /\ Len(batch) + Len(Free(t, i, batch, contract)) + Len(contract) = Rank(t)
  /\ \A k \in 1 .. Len(batch) : order[k] = batch[k][i]
  /\ \A k \in 1 .. Len(Free(t, i, batch, contract)) : order[Len(batch) + k] = Free(t, i, batch, contract)[k]
  /\ \A k \in 1 .. Len(contract) :
       order[Len(batch) + Len(Free(t, i, batch, contract)) + k] = contract[k][i]

\* A side of pairs of dimensions.
LEMMA SideInDim ==
  ASSUME NEW t, IsTensor(t), NEW i \in {1, 2}, NEW p, SideOf(t, i, p)
  PROVE  /\ Side(p, i) \in Seq(1 .. Rank(t)) /\ Len(Side(p, i)) = Len(p) /\ Len(p) \in Nat
         /\ \A k \in 1 .. Len(p) : Side(p, i)[k] = p[k][i]
<1>. DEFINE m == Len(p)
            u == Side(p, i)
            D == 1 .. Rank(t)
<1>1. /\ u \in Seq(Nat) /\ Len(u) = m /\ m \in Nat
      /\ \A k \in 1 .. m : u[k] = p[k][i]
  BY SideIs DEF SideOf
<1>2. \A k \in 1 .. m : p[k][i] \in D
  BY DEF SideOf, Dim
<1>. HIDE DEF m, u, D
<1>3. u \in [1 .. m -> D]
  <2>1. u \in [1 .. m -> Nat]
    BY <1>1, LenProperties
  <2>. QED BY <1>1, <1>2, <2>1
<1>4. u \in Seq(D)
  BY <1>1, <1>3
<1>. QED BY <1>1, <1>4 DEF m, u, D

\* The order of the dimensions of an operand.
LEMMA OrderFacts ==
  ASSUME NEW t, IsTensor(t), NEW i \in {1, 2}, NEW batch, NEW contract,
         SideOf(t, i, batch), SideOf(t, i, contract), NoRepeats(Side(batch \o contract, i))
  PROVE  OrderGives(t, i, batch, contract, Ordered(t, i, batch, contract))
<1>. DEFINE n == Rank(t)
            u == Side(batch, i)
            v == Side(contract, i)
            w == Free(t, i, batch, contract)
            order == Ordered(t, i, batch, contract)
<1>1. n \in Nat
  BY TensorParts
<1>2. /\ u \in Seq(1 .. n) /\ Len(u) = Len(batch) /\ Len(batch) \in Nat
      /\ \A k \in 1 .. Len(batch) : u[k] = batch[k][i]
  BY SideInDim
<1>3. /\ v \in Seq(1 .. n) /\ Len(v) = Len(contract) /\ Len(contract) \in Nat
      /\ \A k \in 1 .. Len(contract) : v[k] = contract[k][i]
  BY SideInDim
<1>4. NoRepeats(u \o v)
  <2>1. batch \in Seq(Nat \X Nat) /\ contract \in Seq(Nat \X Nat)
    BY DEF SideOf
  <2>2. Side(batch \o contract, i) = u \o v
    BY <2>1, SideCat
  <2>. QED BY <2>2
<1>5. w = Others(n, u, v) /\ order = Order(n, u, v) /\ order = u \o w \o v
  <2>1. w = Others(n, u, v)
    BY DEF Free, Others, Dim
  <2>. QED BY <2>1 DEF Order, Ordered
<1>. HIDE DEF n, u, v, w, order
<1>6. order \in Perms(n) /\ w \in Seq(1 .. n) /\ Len(u) + Len(w) + Len(v) = n
  BY <1>1, <1>2, <1>3, <1>4, <1>5, OrderIs
<1>7. Cat3(1 .. n, u, w, v, order)
  BY <1>2, <1>3, <1>5, <1>6, Cat3Parts
<1>8. /\ Len(w) \in Nat
      /\ \A k \in 1 .. Len(u) : order[k] = u[k]
      /\ \A k \in 1 .. Len(w) : order[Len(u) + k] = w[k]
      /\ \A k \in 1 .. Len(v) : order[Len(u) + Len(w) + k] = v[k]
  BY <1>7 DEF Cat3
<1>9. /\ \A k \in 1 .. Len(batch) : order[k] = batch[k][i]
      /\ \A k \in 1 .. Len(w) : order[Len(batch) + k] = w[k]
      /\ \A k \in 1 .. Len(contract) : order[Len(batch) + Len(w) + k] = contract[k][i]
  BY <1>2, <1>3, <1>8
<1>. QED BY <1>2, <1>3, <1>6, <1>8, <1>9 DEF OrderGives, n, w, order

DimsGive(s, t, batch, contract, shape) ==
  LET ls == Free(s, 1, batch, contract)
      rs == Free(t, 2, batch, contract)
  IN  /\ IsShape(shape) /\ Len(shape) = Len(batch) + Len(ls) + Len(rs)
      /\ \A k \in 1 .. Len(batch) : shape[k] = s.shape[batch[k][1]]
      /\ \A k \in 1 .. Len(ls) : shape[Len(batch) + k] = s.shape[ls[k]]
      /\ \A k \in 1 .. Len(rs) : shape[Len(batch) + Len(ls) + k] = t.shape[rs[k]]

DimsOf(t, m, f) == m \in Nat /\ \A k \in 1 .. m : f[k] \in Dim(t)
SizesAt(t, m, f) == [k \in 1 .. m |-> t.shape[f[k]]]

\* Sizes of dimensions of a tensor.
LEMMA SizesOf ==
  ASSUME NEW t, IsTensor(t), NEW m, NEW f, DimsOf(t, m, f)
  PROVE  SizesAt(t, m, f) \in Seq(Nat) /\ Len(SizesAt(t, m, f)) = m
<1>1. m \in Nat /\ \A k \in 1 .. m : t.shape[f[k]] \in Nat
  BY TensorParts DEF DimsOf
<1>2. SizesAt(t, m, f) \in [1 .. m -> Nat]
  BY <1>1 DEF SizesAt
<1>. QED BY <1>1, <1>2

\* The shape of the result.
LEMMA DotDimsGive ==
  ASSUME NEW s, NEW t, IsTensor(s), IsTensor(t), NEW batch, NEW contract,
         PairsUp(s, t, batch), PairsUp(s, t, contract),
         NoRepeats(Side(batch \o contract, 1)), NoRepeats(Side(batch \o contract, 2))
  PROVE  DimsGive(s, t, batch, contract, DotDims(s, t, batch, contract))
<1>. DEFINE ls == Free(s, 1, batch, contract)
            rs == Free(t, 2, batch, contract)
            nb == Len(batch)
            nl == Len(ls)
            nr == Len(rs)
            u == [k \in 1 .. nb |-> s.shape[batch[k][1]]]
            w == [k \in 1 .. nl |-> s.shape[ls[k]]]
            v == [k \in 1 .. nr |-> t.shape[rs[k]]]
            shape == DotDims(s, t, batch, contract)
<1>1. /\ SideOf(s, 1, batch) /\ SideOf(s, 1, contract) /\ SideOf(t, 2, batch) /\ SideOf(t, 2, contract)
  BY DEF PairsUp, SideOf
<1>2. /\ OrderGives(s, 1, batch, contract, Ordered(s, 1, batch, contract))
      /\ OrderGives(t, 2, batch, contract, Ordered(t, 2, batch, contract))
  BY <1>1, OrderFacts
<1>3. /\ nb \in Nat /\ nl \in Nat /\ nr \in Nat /\ ls \in Seq(Dim(s)) /\ rs \in Seq(Dim(t))
      /\ DOMAIN batch = 1 .. nb /\ DOMAIN ls = 1 .. nl /\ DOMAIN rs = 1 .. nr
  <2>1. ls \in Seq(1 .. Rank(s)) /\ rs \in Seq(1 .. Rank(t)) /\ batch \in Seq(Nat \X Nat)
    BY <1>1, <1>2 DEF OrderGives, SideOf
  <2>. HIDE DEF ls, rs
  <2>. QED BY <2>1, LenProperties DEF Dim
<1>4. /\ \A k \in 1 .. nb : batch[k][1] \in Dim(s)
      /\ \A k \in 1 .. nl : ls[k] \in Dim(s)
      /\ \A k \in 1 .. nr : rs[k] \in Dim(t)
  <2>. HIDE DEF ls, rs
  <2>. QED BY <1>3, LenProperties DEF PairsUp
<1>5. u \in Seq(Nat) /\ Len(u) = nb
  <2>. DEFINE f == [k \in 1 .. nb |-> batch[k][1]]
  <2>1. DimsOf(s, nb, f) /\ u = SizesAt(s, nb, f)
    BY <1>3, <1>4 DEF DimsOf, SizesAt
  <2>. HIDE DEF u, f, nb
  <2>. QED BY <2>1, SizesOf
<1>6. w \in Seq(Nat) /\ Len(w) = nl
  <2>. HIDE DEF ls
  <2>1. DimsOf(s, nl, ls) /\ w = SizesAt(s, nl, ls)
    BY <1>3, <1>4 DEF DimsOf, SizesAt
  <2>. HIDE DEF w, nl
  <2>. QED BY <2>1, SizesOf
<1>7. v \in Seq(Nat) /\ Len(v) = nr
  <2>. HIDE DEF rs
  <2>1. DimsOf(t, nr, rs) /\ v = SizesAt(t, nr, rs)
    BY <1>3, <1>4 DEF DimsOf, SizesAt
  <2>. HIDE DEF v, nr
  <2>. QED BY <2>1, SizesOf
<1>8. shape = u \o w \o v
  BY <1>3 DEF DotDims
<1>9. /\ \A k \in 1 .. nb : u[k] = s.shape[batch[k][1]]
      /\ \A k \in 1 .. nl : w[k] = s.shape[ls[k]]
      /\ \A k \in 1 .. nr : v[k] = t.shape[rs[k]]
  OBVIOUS
<1>. HIDE DEF u, v, w, shape, ls, rs
<1>10. Cat3(Nat, u, w, v, shape)
  BY <1>5, <1>6, <1>7, <1>8, Cat3Parts
<1>11. /\ shape \in Seq(Nat) /\ Len(shape) = nb + nl + nr
       /\ \A k \in 1 .. nb : shape[k] = u[k]
       /\ \A k \in 1 .. nl : shape[nb + k] = w[k]
       /\ \A k \in 1 .. nr : shape[nb + nl + k] = v[k]
  BY <1>5, <1>6, <1>7, <1>10 DEF Cat3
<1>12. /\ IsShape(shape)
       /\ \A k \in 1 .. nb : shape[k] = s.shape[batch[k][1]]
       /\ \A k \in 1 .. nl : shape[nb + k] = s.shape[ls[k]]
       /\ \A k \in 1 .. nr : shape[nb + nl + k] = t.shape[rs[k]]
  BY <1>9, <1>11 DEF IsShape
<1>. QED BY <1>11, <1>12 DEF DimsGive, shape, ls, rs

\* The layout of dot_general with these pairs.
LayoutOf(s, t, batch, contract) ==
  [nb |-> Len(batch), nl |-> Len(Free(s, 1, batch, contract)), nr |-> Len(Free(t, 2, batch, contract)),
   nc |-> Len(contract),
   left |-> Ordered(s, 1, batch, contract), right |-> Ordered(t, 2, batch, contract),
   shape |-> DotDims(s, t, batch, contract),
   summed |-> [k \in DOMAIN contract |-> s.shape[contract[k][1]]]]

\* The pairs are of dimensions of one size, and no dimension is in two of them.
DotPairs(s, t, batch, contract) ==
  /\ PairsUp(s, t, batch) /\ PairsUp(s, t, contract)
  /\ NoRepeats(Side(batch \o contract, 1)) /\ NoRepeats(Side(batch \o contract, 2))

\* It is a layout.
LEMMA LayoutIs ==
  ASSUME NEW s, NEW t, IsTensor(s), IsTensor(t), NEW batch, NEW contract, DotPairs(s, t, batch, contract)
  PROVE  Layouts(s, t, LayoutOf(s, t, batch, contract))
<1>. DEFINE ls == Free(s, 1, batch, contract)
            rs == Free(t, 2, batch, contract)
            left == Ordered(s, 1, batch, contract)
            right == Ordered(t, 2, batch, contract)
            shape == DotDims(s, t, batch, contract)
            summed == [k \in DOMAIN contract |-> s.shape[contract[k][1]]]
            nb == Len(batch)
            nl == Len(ls)
            nr == Len(rs)
            nc == Len(contract)
            L == LayoutOf(s, t, batch, contract)
<1>1. /\ SideOf(s, 1, batch) /\ SideOf(s, 1, contract) /\ SideOf(t, 2, batch) /\ SideOf(t, 2, contract)
  BY DEF DotPairs, PairsUp, SideOf
<1>2. OrderGives(s, 1, batch, contract, left) /\ OrderGives(t, 2, batch, contract, right)
  BY <1>1, OrderFacts DEF DotPairs
<1>3. DimsGive(s, t, batch, contract, shape)
  BY DotDimsGive DEF DotPairs
<1>4. DOMAIN contract = 1 .. nc
  <2>1. contract \in Seq(Nat \X Nat)
    BY <1>1 DEF SideOf
  <2>. QED BY <2>1, LenProperties
<1>5. /\ \A k \in 1 .. nb : s.shape[batch[k][1]] = t.shape[batch[k][2]]
      /\ \A k \in 1 .. nc : contract[k][1] \in Dim(s) /\ s.shape[contract[k][1]] = t.shape[contract[k][2]]
  BY DEF DotPairs, PairsUp
<1>. HIDE DEF left, right, shape
<1>6. /\ nb \in Nat /\ nl \in Nat /\ nr \in Nat /\ nc \in Nat
      /\ Rank(s) = nb + nl + nc /\ Rank(t) = nb + nr + nc
      /\ left \in Perms(Rank(s)) /\ right \in Perms(Rank(t))
  BY <1>2 DEF OrderGives
<1>7. /\ \A k \in 1 .. nb : left[k] = batch[k][1] /\ right[k] = batch[k][2]
      /\ \A k \in 1 .. nl : left[nb + k] = ls[k]
      /\ \A k \in 1 .. nr : right[nb + k] = rs[k]
      /\ \A k \in 1 .. nc : left[nb + nl + k] = contract[k][1] /\ right[nb + nr + k] = contract[k][2]
  BY <1>2 DEF OrderGives
<1>8. /\ IsShape(shape) /\ Len(shape) = nb + nl + nr
      /\ \A k \in 1 .. nb : shape[k] = s.shape[batch[k][1]]
      /\ \A k \in 1 .. nl : shape[nb + k] = s.shape[ls[k]]
      /\ \A k \in 1 .. nr : shape[nb + nl + k] = t.shape[rs[k]]
  BY <1>3 DEF DimsGive
<1>9. /\ IsShape(summed) /\ Len(summed) = nc
      /\ \A k \in 1 .. nc : summed[k] = s.shape[contract[k][1]]
  <2>. DEFINE f == [k \in 1 .. nc |-> contract[k][1]]
  <2>1. DimsOf(s, nc, f) /\ summed = SizesAt(s, nc, f)
    BY <1>4, <1>5, <1>6 DEF DimsOf, SizesAt
  <2>2. \A k \in 1 .. nc : summed[k] = s.shape[contract[k][1]]
    BY <1>4
  <2>. HIDE DEF summed, f, nc
  <2>. QED BY <2>1, <2>2, SizesOf DEF IsShape
<1>10. /\ L.nb = nb /\ L.nl = nl /\ L.nr = nr /\ L.nc = nc /\ L.left = left /\ L.right = right
       /\ L.shape = shape /\ L.summed = summed
  BY DEF LayoutOf, left, right, shape
<1>. HIDE DEF ls, rs, nb, nl, nr, nc, summed, L
<1>11. \A k \in 1 .. nb + nl : shape[k] = s.shape[left[k]]
  <2>. SUFFICES ASSUME NEW k \in 1 .. nb + nl PROVE shape[k] = s.shape[left[k]]
    OBVIOUS
  <2>1. CASE k \in 1 .. nb
    BY <1>7, <1>8, <2>1
  <2>2. CASE k \notin 1 .. nb
    <3>1. k - nb \in 1 .. nl /\ k = nb + (k - nb)
      BY <1>6, <2>2
    <3>2. PICK e \in 1 .. nl : k = nb + e
      BY <3>1
    <3>. QED BY <1>7, <1>8, <3>2
  <2>. QED BY <2>1, <2>2
<1>12. \A k \in 1 .. nb : shape[k] = t.shape[right[k]]
  BY <1>5, <1>7, <1>8
<1>13. \A k \in nb + 1 .. nb + nr : shape[k + nl] = t.shape[right[k]]
  <2>. SUFFICES ASSUME NEW k \in nb + 1 .. nb + nr PROVE shape[k + nl] = t.shape[right[k]]
    OBVIOUS
  <2>1. k - nb \in 1 .. nr /\ k = nb + (k - nb)
    BY <1>6
  <2>2. PICK e \in 1 .. nr : k = nb + e
    BY <2>1
  <2>3. k + nl = nb + nl + e
    BY <1>6, <2>2
  <2>. QED BY <1>7, <1>8, <2>2, <2>3
<1>14. \A k \in 1 .. nc : summed[k] = s.shape[left[nb + nl + k]] /\ summed[k] = t.shape[right[nb + nr + k]]
  BY <1>5, <1>7, <1>9
<1>15. Layouts(s, t, L)
  BY <1>6, <1>8, <1>9, <1>10, <1>11, <1>12, <1>13, <1>14 DEF Layouts
<1>. QED BY <1>15 DEF L

\* The sum of an element of the result, as DotGeneral has it.
Summed(s, t, nb, nl, left, right, P, i) ==
  MapThenSumSet(LAMBDA c :
    s.at[Along(left, SubSeq(i, 1, nb + nl) \o c)]
      * t.at[Along(right, SubSeq(i, 1, nb) \o SubSeq(i, nb + nl + 1, Len(i)) \o c)], P)

\* It is the total.
LEMMA SummedIs ==
  ASSUME NEW s, NEW t, NEW nb, NEW nl, NEW left, NEW right, NEW P, NEW i, NEW f, Summable(P, f),
         \A c \in P : f[c] = s.at[Along(left, SubSeq(i, 1, nb + nl) \o c)]
                               * t.at[Along(right, SubSeq(i, 1, nb) \o SubSeq(i, nb + nl + 1, Len(i)) \o c)]
  PROVE  Summed(s, t, nb, nl, left, right, P, i) = Total(P, f)
<1>. DEFINE F(c) == s.at[Along(left, SubSeq(i, 1, nb + nl) \o c)]
                      * t.at[Along(right, SubSeq(i, 1, nb) \o SubSeq(i, nb + nl + 1, Len(i)) \o c)]
            Rec(g, S) == IF S = {} THEN 0 ELSE F(Pick(S)) + g[S \ {Pick(S)}]
            IsRec(g) == g = [S \in SUBSET P |-> Rec(g, S)]
            iter == CHOOSE g : IsRec(g)
<1>1. PICK g : Sums(P, f, g) /\ Total(P, f) = g[P]
  BY TotalIs
<1>2. \A S \in SUBSET P : S # {} => f[Pick(S)] = F(Pick(S))
  <2>1. \A S \in SUBSET P : S # {} => Pick(S) \in P
    BY PickIn
  <2>. QED BY <2>1
<1>3. Summed(s, t, nb, nl, left, right, P, i) = iter[P]
  BY DEF Summed, MapThenSumSet, MapThenFoldSet, Pick
<1>. HIDE DEF F
<1>4. IsRec(g)
  <2>1. g \in [SUBSET P -> Int] /\ \A S \in SUBSET P : g[S] = Rec(g, S)
    BY <1>1, <1>2 DEF Sums
  <2>. HIDE DEF Rec
  <2>2. g = [S \in SUBSET P |-> g[S]]
    BY <2>1
  <2>. QED BY <2>1, <2>2, Zenon
<1>5. IsRec(iter)
  BY <1>4
<1>6. \A S \in SUBSET P : iter[S] = Rec(iter, S)
  BY <1>5
<1>. HIDE DEF iter
<1>7. SumSteps(P, f, iter)
  BY <1>2, <1>6 DEF SumSteps
<1>8. iter[P] = Total(P, f)
  BY <1>7, TotalOf
<1>. QED BY <1>3, <1>8

\* A part of an index.
LEMMA PartOf ==
  ASSUME NEW m \in Nat, NEW x \in [1 .. m -> Nat], NEW a \in Nat, NEW b \in Nat, a + b <= m
  PROVE  /\ SubSeq(x, a + 1, a + b) \in Seq(Nat) /\ Len(SubSeq(x, a + 1, a + b)) = b
         /\ \A k \in 1 .. b : SubSeq(x, a + 1, a + b)[k] = x[a + k]
<1>1. SubSeq(x, a + 1, a + b) = [k \in 1 .. b |-> x[a + k]]
  <2>1. SubSeq(x, a + 1, a + b) = [k \in 1 .. (1 + (a + b) - (a + 1)) |-> x[k + (a + 1) - 1]]
    OBVIOUS
  <2>2. 1 + (a + b) - (a + 1) = b /\ \A k \in 1 .. b : k + (a + 1) - 1 = a + k
    OBVIOUS
  <2>. QED BY <2>1, <2>2
<1>2. \A k \in 1 .. b : a + k \in 1 .. m
  OBVIOUS
<1>3. [k \in 1 .. b |-> x[a + k]] \in [1 .. b -> Nat]
  BY <1>2
<1>. DEFINE w == SubSeq(x, a + 1, a + b)
<1>4. w \in [1 .. b -> Nat] /\ \A k \in 1 .. b : w[k] = x[a + k]
  BY <1>1, <1>3
<1>. HIDE DEF w
<1>5. w \in Seq(Nat) /\ Len(w) = b
  BY <1>4
<1>. QED BY <1>4, <1>5 DEF w

\* The sequences DotGeneral reads at.
LeftSeq(L, x, c) == SubSeq(x, 1, L.nb + L.nl) \o c
RightSeq(L, x, c) == SubSeq(x, 1, L.nb) \o SubSeq(x, L.nb + L.nl + 1, Len(x)) \o c

Sized(L, x, c) ==
  /\ L.nb \in Nat /\ L.nl \in Nat /\ L.nr \in Nat /\ L.nc \in Nat
  /\ x \in [1 .. L.nb + L.nl + L.nr -> Nat] /\ c \in [1 .. L.nc -> Nat]

\* They give the dimensions their values in order.
LEMMA LeftSeqIs ==
  ASSUME NEW L, NEW x, NEW c, Sized(L, x, c)
  PROVE  LeftSeq(L, x, c) = LeftAt(L, x, c)
<1>. DEFINE nb == L.nb
            nl == L.nl
            nr == L.nr
            nc == L.nc
<1>s. /\ nb \in Nat /\ nl \in Nat /\ nr \in Nat /\ nc \in Nat
      /\ L.nb = nb /\ L.nl = nl /\ L.nr = nr /\ L.nc = nc
      /\ x \in [1 .. nb + nl + nr -> Nat] /\ c \in [1 .. nc -> Nat]
  BY DEF Sized
<1>. HIDE DEF nb, nl, nr, nc
<1>. USE <1>s
<1>. DEFINE a == nb + nl
            u == SubSeq(x, 1, a)
            w == LeftSeq(L, x, c)
            v == LeftAt(L, x, c)
<1>0. w = u \o c /\ v = [k \in 1 .. a + nc |-> IF k <= a THEN x[k] ELSE c[k - a]]
  BY DEF LeftSeq, LeftAt
<1>1. /\ u \in Seq(Nat) /\ Len(u) = a /\ \A k \in 1 .. a : u[k] = x[k]
  <2>1. a \in Nat /\ 0 \in Nat /\ nb + nl + nr \in Nat /\ 0 + a <= nb + nl + nr
    OBVIOUS
  <2>2. /\ SubSeq(x, 0 + 1, 0 + a) \in Seq(Nat) /\ Len(SubSeq(x, 0 + 1, 0 + a)) = a
        /\ \A k \in 1 .. a : SubSeq(x, 0 + 1, 0 + a)[k] = x[0 + k]
    <3>. HIDE DEF a
    <3>. QED BY <2>1, PartOf
  <2>3. 0 + 1 = 1 /\ 0 + a = a /\ \A k \in 1 .. a : 0 + k = k
    BY <2>1
  <2>. HIDE DEF a
  <2>. QED BY <2>2, <2>3
<1>2. a \in Nat
  OBVIOUS
<1>3. c \in Seq(Nat) /\ Len(c) = nc
  OBVIOUS
<1>. HIDE DEF a, u, w, v
<1>4. Cat2(Nat, u, c, w)
  BY <1>0, <1>1, <1>3, Cat2Parts
<1>5. /\ w \in Seq(Nat) /\ Len(w) = a + nc
      /\ \A k \in 1 .. a : w[k] = x[k]
      /\ \A k \in 1 .. nc : w[a + k] = c[k]
  BY <1>1, <1>3, <1>4 DEF Cat2
<1>6. ASSUME NEW k \in 1 .. a + nc PROVE w[k] = v[k]
  <2>1. CASE k \in 1 .. a
    <3>1. k <= a
      BY <2>1
    <3>. QED BY <1>0, <1>5, <2>1, <3>1
  <2>2. CASE k \notin 1 .. a
    <3>1. k - a \in 1 .. nc /\ k = a + (k - a) /\ ~ (k <= a)
      BY <1>2, <2>2
    <3>2. PICK e \in 1 .. nc : k = a + e /\ e = k - a
      BY <3>1
    <3>. QED BY <1>0, <1>5, <3>1, <3>2
  <2>. QED BY <2>1, <2>2
<1>7. w = [k \in 1 .. a + nc |-> w[k]] /\ v = [k \in 1 .. a + nc |-> v[k]]
  <2>1. w \in [1 .. a + nc -> Nat]
    BY <1>5, LenProperties
  <2>. QED BY <1>0, <2>1
<1>8. w = v
  BY <1>6, <1>7, Zenon
<1>. QED BY <1>8 DEF w, v

\* And those of the right operand.
LEMMA RightSeqIs ==
  ASSUME NEW L, NEW x, NEW c, Sized(L, x, c)
  PROVE  RightSeq(L, x, c) = RightAt(L, x, c)
<1>. DEFINE nb == L.nb
            nl == L.nl
            nr == L.nr
            nc == L.nc
<1>s. /\ nb \in Nat /\ nl \in Nat /\ nr \in Nat /\ nc \in Nat
      /\ L.nb = nb /\ L.nl = nl /\ L.nr = nr /\ L.nc = nc
      /\ x \in [1 .. nb + nl + nr -> Nat] /\ c \in [1 .. nc -> Nat]
  BY DEF Sized
<1>. HIDE DEF nb, nl, nr, nc
<1>. USE <1>s
<1>. DEFINE u == SubSeq(x, 1, nb)
            r == SubSeq(x, nb + nl + 1, nb + nl + nr)
            w == RightSeq(L, x, c)
            v == RightAt(L, x, c)
<1>0. /\ w = u \o r \o c
      /\ v = [k \in 1 .. nb + nr + nc |->
                IF k <= nb THEN x[k] ELSE IF k <= nb + nr THEN x[k + nl] ELSE c[k - (nb + nr)]]
  <2>1. Len(x) = nb + nl + nr
    OBVIOUS
  <2>. QED BY <2>1 DEF RightSeq, RightAt
<1>1. u \in Seq(Nat) /\ Len(u) = nb /\ \A k \in 1 .. nb : u[k] = x[k]
  <2>1. 0 \in Nat /\ nb + nl + nr \in Nat /\ 0 + nb <= nb + nl + nr
    OBVIOUS
  <2>2. /\ SubSeq(x, 0 + 1, 0 + nb) \in Seq(Nat) /\ Len(SubSeq(x, 0 + 1, 0 + nb)) = nb
        /\ \A k \in 1 .. nb : SubSeq(x, 0 + 1, 0 + nb)[k] = x[0 + k]
    BY <2>1, PartOf
  <2>3. 0 + 1 = 1 /\ 0 + nb = nb /\ \A k \in 1 .. nb : 0 + k = k
    OBVIOUS
  <2>. QED BY <2>2, <2>3
<1>2. r \in Seq(Nat) /\ Len(r) = nr /\ \A k \in 1 .. nr : r[k] = x[nb + nl + k]
  <2>. DEFINE a == nb + nl
  <2>1. a \in Nat /\ a + nr \in Nat /\ a + nr <= a + nr /\ x \in [1 .. a + nr -> Nat]
    OBVIOUS
  <2>2. /\ SubSeq(x, a + 1, a + nr) \in Seq(Nat) /\ Len(SubSeq(x, a + 1, a + nr)) = nr
        /\ \A k \in 1 .. nr : SubSeq(x, a + 1, a + nr)[k] = x[a + k]
    <3>. HIDE DEF a
    <3>. QED BY <2>1, PartOf
  <2>. QED BY <2>2
<1>3. c \in Seq(Nat) /\ Len(c) = nc
  OBVIOUS
<1>. HIDE DEF u, r, w, v
<1>4. Cat3(Nat, u, r, c, w)
  BY <1>0, <1>1, <1>2, <1>3, Cat3Parts
<1>5. /\ w \in Seq(Nat) /\ Len(w) = nb + nr + nc
      /\ \A k \in 1 .. nb : w[k] = x[k]
      /\ \A k \in 1 .. nr : w[nb + k] = x[nb + nl + k]
      /\ \A k \in 1 .. nc : w[nb + nr + k] = c[k]
  BY <1>1, <1>2, <1>3, <1>4 DEF Cat3
<1>6. ASSUME NEW k \in 1 .. nb + nr + nc PROVE w[k] = v[k]
  <2>1. CASE k <= nb
    <3>1. k \in 1 .. nb
      BY <2>1
    <3>. QED BY <1>0, <1>5, <2>1, <3>1
  <2>2. CASE ~ (k <= nb) /\ k <= nb + nr
    <3>1. k - nb \in 1 .. nr /\ k = nb + (k - nb)
      BY <2>2
    <3>2. PICK e \in 1 .. nr : k = nb + e
      BY <3>1
    <3>3. nb + nl + e = k + nl
      BY <3>2
    <3>4. w[k] = x[k + nl]
      BY <1>5, <3>2, <3>3
    <3>. QED BY <1>0, <2>2, <3>4
  <2>3. CASE ~ (k <= nb) /\ ~ (k <= nb + nr)
    <3>1. k - (nb + nr) \in 1 .. nc /\ k = nb + nr + (k - (nb + nr))
      BY <2>3
    <3>2. PICK e \in 1 .. nc : k = nb + nr + e /\ e = k - (nb + nr)
      BY <3>1
    <3>3. w[k] = c[e]
      BY <1>5, <3>2
    <3>. QED BY <1>0, <2>3, <3>2, <3>3
  <2>. QED BY <2>1, <2>2, <2>3
<1>7. w = [k \in 1 .. nb + nr + nc |-> w[k]] /\ v = [k \in 1 .. nb + nr + nc |-> v[k]]
  <2>1. w \in [1 .. nb + nr + nc -> Nat]
    BY <1>5, LenProperties
  <2>. QED BY <1>0, <2>1
<1>8. w = v
  BY <1>6, <1>7, Zenon
<1>. QED BY <1>8 DEF w, v

\* DotGeneral computes what Dots does with the layout.
LEMMA DotGeneralIs ==
  ASSUME NEW s, NEW t, IsTensor(s), IsTensor(t), NEW batch, NEW contract, DotPairs(s, t, batch, contract)
  PROVE  DotGeneral(s, t, batch, contract) = Dots(s, t, LayoutOf(s, t, batch, contract))
<1>. DEFINE L == LayoutOf(s, t, batch, contract)
            sum(x) == Summed(s, t, L.nb, L.nl, L.left, L.right, Index(L.summed), x)
<1>1. Layouts(s, t, L)
  BY LayoutIs
<1>2. DotGeneral(s, t, batch, contract) = [shape |-> L.shape, at |-> [x \in Index(L.shape) |-> sum(x)]]
  <2>. DEFINE nb == Len(batch)
              nl == Len(Free(s, 1, batch, contract))
              left == Ordered(s, 1, batch, contract)
              right == Ordered(t, 2, batch, contract)
              shape == DotDims(s, t, batch, contract)
              P == Index([k \in DOMAIN contract |-> s.shape[contract[k][1]]])
  <2>1. DotGeneral(s, t, batch, contract)
          = [shape |-> shape, at |-> [x \in Index(shape) |-> Summed(s, t, nb, nl, left, right, P, x)]]
    BY Zenon DEF DotGeneral, Tensor, Summed, MapThenSumSet, MapThenFoldSet, Ordered
  <2>2. L.nb = nb /\ L.nl = nl /\ L.left = left /\ L.right = right /\ L.shape = shape /\ Index(L.summed) = P
    BY DEF LayoutOf
  <2>. HIDE DEF L, nb, nl, left, right, shape, P
  <2>. QED BY <2>1, <2>2
<1>. HIDE DEF L
<1>3. /\ L.nb \in Nat /\ L.nl \in Nat /\ L.nr \in Nat /\ L.nc \in Nat
      /\ Rank(s) = L.nb + L.nl + L.nc /\ Rank(t) = L.nb + L.nr + L.nc
      /\ Rank(s) \in Nat /\ Rank(t) \in Nat
      /\ L.left \in Perms(Rank(s)) /\ L.right \in Perms(Rank(t))
      /\ IsShape(L.shape) /\ Len(L.shape) = L.nb + L.nl + L.nr
      /\ IsShape(L.summed) /\ Len(L.summed) = L.nc
  BY <1>1, TensorParts DEF Layouts
<1>4. ASSUME NEW x \in Index(L.shape) PROVE sum(x) = Total(Index(L.summed), Terms(s, t, L, x))
  <2>1. x \in [1 .. L.nb + L.nl + L.nr -> Nat]
    BY <1>3, IndexIs DEF Within
  <2>2. ASSUME NEW c \in Index(L.summed)
        PROVE  Terms(s, t, L, x)[c] = s.at[Along(L.left, LeftSeq(L, x, c))] * t.at[Along(L.right, RightSeq(L, x, c))]
    <3>1. c \in [1 .. L.nc -> Nat]
      BY <1>3, IndexIs DEF Within
    <3>2. LeftSeq(L, x, c) = LeftAt(L, x, c) /\ RightSeq(L, x, c) = RightAt(L, x, c)
      <4>1. Sized(L, x, c)
        BY <1>3, <2>1, <3>1 DEF Sized
      <4>. QED BY <4>1, LeftSeqIs, RightSeqIs
    <3>3. /\ Along(L.left, LeftAt(L, x, c)) = ReadAt(Rank(s), L.left, LeftAt(L, x, c))
          /\ Along(L.right, RightAt(L, x, c)) = ReadAt(Rank(t), L.right, RightAt(L, x, c))
      BY <1>3, AlongIs
    <3>. QED BY <3>2, <3>3 DEF Terms
  <2>3. Summable(Index(L.summed), Terms(s, t, L, x))
    BY <1>1, TermsSummable
  <2>4. \A c \in Index(L.summed) :
          Terms(s, t, L, x)[c]
            = s.at[Along(L.left, SubSeq(x, 1, L.nb + L.nl) \o c)]
                * t.at[Along(L.right, SubSeq(x, 1, L.nb) \o SubSeq(x, L.nb + L.nl + 1, Len(x)) \o c)]
    BY <2>2 DEF LeftSeq, RightSeq
  <2>. QED BY <2>3, <2>4, SummedIs
<1>5. [x \in Index(L.shape) |-> sum(x)] = [x \in Index(L.shape) |-> Total(Index(L.summed), Terms(s, t, L, x))]
  <2>. HIDE DEF sum
  <2>. QED BY <1>4
<1>6. DotGeneral(s, t, batch, contract) = Dots(s, t, L)
  <2>. HIDE DEF sum
  <2>. QED BY <1>2, <1>5, Zenon DEF Dots
<1>. QED BY <1>6 DEF L
=============================================================================

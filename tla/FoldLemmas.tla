------------------------------ MODULE FoldLemmas ------------------------------
(***************************************************************************)
(* Induction over numbers, and what the folds of the community modules     *)
(* rest on.  Over a finite set: the recursive function they take their     *)
(* value from exists, and sums do not depend on the order.  Over a         *)
(* sequence: flattened lists, and lists built by a loop that appends none, *)
(* one or two entries a turn.                                              *)
(***************************************************************************)
EXTENDS Integers, SequencesExt, SequenceTheorems, FiniteSetTheorems, WellFoundedInduction, TLAPS

\* Induction up to n, over the set of the numbers for which a claim holds.
LEMMA UpTo ==
  ASSUME NEW n \in Nat, NEW S, 0 \in S,
         \A k \in 0 .. n - 1 : k \in S => k + 1 \in S
  PROVE  \A k \in 0 .. n : k \in S
<1>. DEFINE T == {k \in Nat : k <= n /\ k \notin S}
            R == OpToRel(<, Nat)
<1>. SUFFICES ASSUME T # {} PROVE FALSE
  OBVIOUS
<1>1. \A x, y \in Nat : x < y => <<x, y>> \in R
  BY DEF OpToRel
<1>. HIDE DEF R
<1>2. PICK k \in T : \A y \in T : ~ (<<y, k>> \in R)
  <2>1. T \subseteq Nat /\ T # {}
    OBVIOUS
  <2>. HIDE DEF T, R
  <2>2. IsWellFoundedOn(R, Nat)
    BY NatLessThanWellFounded DEF R
  <2>. QED BY <2>1, <2>2, WFMin
<1>3. k # 0 /\ k - 1 \in Nat /\ k - 1 < k /\ k - 1 <= n
  BY <1>2
<1>4. k - 1 \in S
  BY <1>1, <1>2, <1>3
<1>5. k - 1 + 1 \in S
  BY <1>2, <1>3, <1>4
<1>. QED BY <1>2, <1>5

-----------------------------------------------------------------------------

Pick(s) == CHOOSE x \in s : TRUE

\* Chosen from a set that is not empty.
LEMMA PickIn == ASSUME NEW s, s # {} PROVE Pick(s) \in s
BY DEF Pick

\* T holds the empty set, and a subset of P when it holds it without the chosen
\* element.
Inductive(P, T) == {} \in T /\ \A s \in SUBSET P : s # {} /\ s \ {Pick(s)} \in T => s \in T

\* Induction over a finite set: T then holds all of it.
LEMMA SubsetInduction ==
  ASSUME NEW P, IsFiniteSet(P), NEW T, Inductive(P, T) PROVE P \in T
<1>. DEFINE n == Cardinality(P)
            S == {k \in Nat : \A s \in SUBSET P : Cardinality(s) <= k => s \in T}
<1>1. n \in Nat
  BY FS_CardinalityType
<1>2. 0 \in S
  <2>1. \A s \in SUBSET P : Cardinality(s) <= 0 => s = {}
    BY FS_Subset, FS_CardinalityType, FS_EmptySet
  <2>. QED BY <2>1 DEF Inductive
<1>3. \A k \in 0 .. n - 1 : k \in S => k + 1 \in S
  <2>. SUFFICES ASSUME NEW k \in 0 .. n - 1, k \in S,
                       NEW s \in SUBSET P, Cardinality(s) <= k + 1
                PROVE  s \in T
    BY <1>1
  <2>. SUFFICES ASSUME s # {} PROVE s \in T
    BY DEF Inductive
  <2>1. Pick(s) \in s /\ s \ {Pick(s)} \in SUBSET P
    BY PickIn
  <2>2. IsFiniteSet(s) /\ Cardinality(s) \in Nat
    BY FS_Subset, FS_CardinalityType
  <2>3. Cardinality(s \ {Pick(s)}) = Cardinality(s) - 1
    BY ONLY <2>1, <2>2, FS_RemoveElement
  <2>4. s \ {Pick(s)} \in T
    BY <2>1, <2>2, <2>3
  <2>. QED BY <2>4 DEF Inductive
<1>4. n \in S
  <2>. HIDE DEF S, n
  <2>1. \A k \in 0 .. n : k \in S
    BY <1>1, <1>2, <1>3, UpTo
  <2>. QED BY <1>1, <2>1
<1>. QED BY <1>1, <1>4

\* What a fold with op, a function of an element and of the result for the rest,
\* computes for s when g gives the results for smaller sets.
FoldStep(op, base, g, s) == IF s = {} THEN base ELSE op[Pick(s)][g[s \ {Pick(s)}]]

\* g gives the results for the sets of at most k elements.
FoldsUpTo(op, base, P, g, k) ==
  \A s \in SUBSET P : Cardinality(s) <= k => g[s] = FoldStep(op, base, g, s)

\* One element more.
LEMMA FoldExtends ==
  ASSUME NEW P, IsFiniteSet(P), NEW A, NEW base \in A, NEW op \in [P -> [A -> A]],
         NEW k \in Nat, NEW g \in [SUBSET P -> A], FoldsUpTo(op, base, P, g, k)
  PROVE  \E h \in [SUBSET P -> A] : FoldsUpTo(op, base, P, h, k + 1)
<1>. DEFINE h == [s \in SUBSET P |-> FoldStep(op, base, g, s)]
<1>1. \A s \in SUBSET P : FoldStep(op, base, g, s) \in A
  <2>. SUFFICES ASSUME NEW s \in SUBSET P, s # {} PROVE op[Pick(s)][g[s \ {Pick(s)}]] \in A
    BY DEF FoldStep
  <2>1. Pick(s) \in P /\ s \ {Pick(s)} \in SUBSET P
    BY PickIn
  <2>. QED BY <2>1
<1>2. h \in [SUBSET P -> A] /\ \A s \in SUBSET P : h[s] = FoldStep(op, base, g, s)
  BY <1>1
<1>. HIDE DEF h
<1>3. \A s \in SUBSET P : Cardinality(s) <= k => h[s] = g[s]
  BY <1>2 DEF FoldsUpTo
<1>4. FoldsUpTo(op, base, P, h, k + 1)
  <2>. SUFFICES ASSUME NEW s \in SUBSET P, Cardinality(s) <= k + 1, s # {}
                PROVE  h[s] = op[Pick(s)][h[s \ {Pick(s)}]]
    BY <1>2 DEF FoldsUpTo, FoldStep
  <2>1. Pick(s) \in s /\ s \ {Pick(s)} \in SUBSET P
    BY PickIn
  <2>2. IsFiniteSet(s) /\ Cardinality(s) \in Nat
    BY FS_Subset, FS_CardinalityType
  <2>3. Cardinality(s \ {Pick(s)}) = Cardinality(s) - 1
    BY ONLY <2>1, <2>2, FS_RemoveElement
  <2>4. h[s \ {Pick(s)}] = g[s \ {Pick(s)}]
    BY <1>3, <2>1, <2>2, <2>3
  <2>5. h[s] = op[Pick(s)][g[s \ {Pick(s)}]]
    BY <1>2 DEF FoldStep
  <2>. QED BY <2>4, <2>5
<1>. QED BY <1>2, <1>4

\* A fold of P with results in A, and its recursive function.
IsFold(op, base, P, A) == IsFiniteSet(P) /\ base \in A /\ op \in [P -> [A -> A]]
Folded(op, base, P, A, g) ==
  g \in [SUBSET P -> A] /\ g = [s \in SUBSET P |-> FoldStep(op, base, g, s)]

\* It exists.
LEMMA FoldExists ==
  ASSUME NEW P, NEW A, NEW base, NEW op, IsFold(op, base, P, A)
  PROVE  \E g : Folded(op, base, P, A, g)
<1>. USE DEF IsFold
<1>. DEFINE n == Cardinality(P)
            S == {k \in Nat : \E g \in [SUBSET P -> A] : FoldsUpTo(op, base, P, g, k)}
<1>1. n \in Nat
  BY FS_CardinalityType
<1>2. 0 \in S
  <2>. DEFINE g == [s \in SUBSET P |-> base]
  <2>1. \A s \in SUBSET P : Cardinality(s) <= 0 => s = {}
    BY FS_Subset, FS_CardinalityType, FS_EmptySet
  <2>2. g \in [SUBSET P -> A] /\ FoldsUpTo(op, base, P, g, 0)
    BY <2>1 DEF FoldsUpTo, FoldStep
  <2>. HIDE DEF g
  <2>. QED BY <2>2
<1>3. \A k \in 0 .. n - 1 : k \in S => k + 1 \in S
  <2>. SUFFICES ASSUME NEW k \in 0 .. n - 1, k \in S PROVE k + 1 \in S
    OBVIOUS
  <2>1. k \in Nat /\ k + 1 \in Nat
    BY <1>1
  <2>2. PICK g \in [SUBSET P -> A] : FoldsUpTo(op, base, P, g, k)
    OBVIOUS
  <2>3. \E h \in [SUBSET P -> A] : FoldsUpTo(op, base, P, h, k + 1)
    BY <2>1, <2>2, FoldExtends
  <2>. QED BY <2>1, <2>3
<1>4. n \in S
  <2>. HIDE DEF S, n
  <2>1. \A k \in 0 .. n : k \in S
    BY <1>1, <1>2, <1>3, UpTo
  <2>. QED BY <1>1, <2>1
<1>5. PICK g \in [SUBSET P -> A] : FoldsUpTo(op, base, P, g, n)
  BY <1>4
<1>6. \A s \in SUBSET P : g[s] = FoldStep(op, base, g, s)
  <2>. SUFFICES ASSUME NEW s \in SUBSET P PROVE Cardinality(s) <= n
    BY <1>5 DEF FoldsUpTo
  <2>. QED BY FS_Subset, FS_CardinalityType
<1>7. Folded(op, base, P, A, g)
  BY <1>6 DEF Folded
<1>. QED BY <1>7

\* h takes the steps of the fold where it has a result in A for the rest.
TakesSteps(op, base, P, A, h) ==
  /\ h[{}] = base
  /\ \A s \in SUBSET P : s # {} /\ h[s \ {Pick(s)}] \in A => h[s] = op[Pick(s)][h[s \ {Pick(s)}]]

SameResults(P, g, h) == \A s \in SUBSET P : h[s] = g[s]

\* Whatever takes the same steps gives the same results.
LEMMA FoldUnique ==
  ASSUME NEW P, NEW A, NEW base, NEW op, IsFold(op, base, P, A),
         NEW g, Folded(op, base, P, A, g), NEW h, TakesSteps(op, base, P, A, h)
  PROVE  SameResults(P, g, h)
<1>. USE DEF IsFold
<1>. g \in [SUBSET P -> A]
  BY DEF Folded
<1>. DEFINE n == Cardinality(P)
            S == {k \in Nat : \A s \in SUBSET P : Cardinality(s) <= k => h[s] = g[s]}
<1>1. n \in Nat
  BY FS_CardinalityType
<1>2. \A s \in SUBSET P : g[s] = FoldStep(op, base, g, s)
  BY DEF Folded
<1>6. g[{}] = base
  BY <1>2 DEF FoldStep
<1>3. 0 \in S
  <2>1. \A s \in SUBSET P : Cardinality(s) <= 0 => s = {}
    BY FS_Subset, FS_CardinalityType, FS_EmptySet
  <2>2. h[{}] = g[{}]
    BY <1>6 DEF TakesSteps
  <2>. QED BY <2>1, <2>2
<1>4. \A k \in 0 .. n - 1 : k \in S => k + 1 \in S
  <2>. SUFFICES ASSUME NEW k \in 0 .. n - 1, k \in S,
                       NEW s \in SUBSET P, Cardinality(s) <= k + 1
                PROVE  h[s] = g[s]
    BY <1>1
  <2>. SUFFICES ASSUME s # {} PROVE h[s] = g[s]
    BY <1>6 DEF TakesSteps
  <2>1. Pick(s) \in s /\ s \ {Pick(s)} \in SUBSET P
    BY PickIn
  <2>2. IsFiniteSet(s) /\ Cardinality(s) \in Nat
    BY FS_Subset, FS_CardinalityType
  <2>3. Cardinality(s \ {Pick(s)}) = Cardinality(s) - 1
    BY ONLY <2>1, <2>2, FS_RemoveElement
  <2>4. h[s \ {Pick(s)}] = g[s \ {Pick(s)}]
    BY <2>1, <2>2, <2>3
  <2>5. g[s] = op[Pick(s)][g[s \ {Pick(s)}]]
    BY <1>2 DEF FoldStep
  <2>6. g[s \ {Pick(s)}] \in A
    BY <2>1
  <2>. QED BY <2>4, <2>5, <2>6 DEF TakesSteps
<1>5. n \in S
  <2>. HIDE DEF S, n
  <2>1. \A k \in 0 .. n : k \in S
    BY <1>1, <1>3, <1>4, UpTo
  <2>. QED BY <1>1, <2>1
<1>. QED BY <1>5, FS_Subset, FS_CardinalityType DEF SameResults

-----------------------------------------------------------------------------
(* Sums over a finite set, as MapThenSumSet computes them *)

\* g has the sums of f over the subsets of P, element by element.
Sums(P, f, g) ==
  /\ g \in [SUBSET P -> Int] /\ g[{}] = 0
  /\ \A s \in SUBSET P : s # {} => g[s] = f[Pick(s)] + g[s \ {Pick(s)}]

\* f has a number for every element of the finite set P.
Summable(P, f) == IsFiniteSet(P) /\ f \in [P -> Int]

Total(P, f) == CHOOSE n : \E g : Sums(P, f, g) /\ n = g[P]

AddStep(P, f) == [x \in P |-> [n \in Int |-> f[x] + n]]

\* Adding up is a fold.
LEMMA AddFold == ASSUME NEW P, NEW f, Summable(P, f) PROVE IsFold(AddStep(P, f), 0, P, Int)
BY DEF Summable, IsFold, AddStep

\* A fold of that kind has the sums.
LEMMA FoldedSums ==
  ASSUME NEW P, NEW f, Summable(P, f), NEW g, Folded(AddStep(P, f), 0, P, Int, g)
  PROVE  Sums(P, f, g)
<1>1. g \in [SUBSET P -> Int] /\ g = [s \in SUBSET P |-> FoldStep(AddStep(P, f), 0, g, s)]
  BY DEF Folded
<1>2. \A s \in SUBSET P : g[s] = FoldStep(AddStep(P, f), 0, g, s)
  BY <1>1
<1>3. g[{}] = 0
  BY <1>2 DEF FoldStep
<1>4. ASSUME NEW s \in SUBSET P, s # {} PROVE g[s] = f[Pick(s)] + g[s \ {Pick(s)}]
  <2>1. Pick(s) \in P /\ s \ {Pick(s)} \in SUBSET P
    BY <1>4, PickIn
  <2>2. g[s] = AddStep(P, f)[Pick(s)][g[s \ {Pick(s)}]]
    BY <1>2, <1>4 DEF FoldStep
  <2>. QED BY <1>1, <2>1, <2>2 DEF AddStep
<1>. QED BY <1>1, <1>3, <1>4 DEF Sums

\* h takes the steps of a sum.
SumSteps(P, f, h) ==
  h[{}] = 0 /\ \A s \in SUBSET P : s # {} => h[s] = f[Pick(s)] + h[s \ {Pick(s)}]

\* What takes the steps gives the sums.
LEMMA StepsAreSums ==
  ASSUME NEW P, NEW f, Summable(P, f), NEW g, Sums(P, f, g), NEW h, SumSteps(P, f, h)
  PROVE  h[P] = g[P]
<1>. DEFINE T == {s \in SUBSET P : h[s] = g[s]}
<1>1. Inductive(P, T)
  BY DEF Inductive, Sums, SumSteps
<1>2. P \in T
  <2>. HIDE DEF T
  <2>. QED BY <1>1, SubsetInduction DEF Summable
<1>. QED BY <1>2

\* There is a sum, and only one.
LEMMA TotalIs ==
  ASSUME NEW P, NEW f, Summable(P, f)
  PROVE  \E g : Sums(P, f, g) /\ Total(P, f) = g[P]
<1>1. PICK g : Folded(AddStep(P, f), 0, P, Int, g)
  BY AddFold, FoldExists
<1>2. Sums(P, f, g)
  BY <1>1, FoldedSums
<1>3. \E n : \E h : Sums(P, f, h) /\ n = h[P]
  BY <1>2
<1>4. \E h : Sums(P, f, h) /\ Total(P, f) = h[P]
  BY <1>3 DEF Total
<1>. QED BY <1>4

\* Every way to add up comes to the total.
LEMMA TotalOf ==
  ASSUME NEW P, NEW f, Summable(P, f), NEW h, SumSteps(P, f, h)
  PROVE  h[P] = Total(P, f) /\ Total(P, f) \in Int
<1>1. PICK g : Sums(P, f, g) /\ Total(P, f) = g[P]
  BY TotalIs
<1>2. h[P] = g[P]
  BY <1>1, StepsAreSums
<1>. QED BY <1>1, <1>2 DEF Sums

\* Any element may be added last.
AnyLast(P, f, g) == \A s \in SUBSET P : \A x \in s : g[s] = f[x] + g[s \ {x}]
AnyLastUpTo(P, f, g, k) ==
  \A s \in SUBSET P : Cardinality(s) <= k => \A x \in s : g[s] = f[x] + g[s \ {x}]

\* One element more.
LEMMA AnyLastMore ==
  ASSUME NEW P, NEW f, Summable(P, f), NEW g, Sums(P, f, g), NEW k \in Nat, AnyLastUpTo(P, f, g, k)
  PROVE  AnyLastUpTo(P, f, g, k + 1)
<1>1. IsFiniteSet(P) /\ f \in [P -> Int] /\ g \in [SUBSET P -> Int]
      /\ \A s \in SUBSET P : s # {} => g[s] = f[Pick(s)] + g[s \ {Pick(s)}]
  BY DEF Summable, Sums
<1>. SUFFICES ASSUME NEW s \in SUBSET P, Cardinality(s) <= k + 1, NEW x \in s
              PROVE  g[s] = f[x] + g[s \ {x}]
  BY DEF AnyLastUpTo
<1>. DEFINE p == Pick(s)
<1>2. p \in s
  BY PickIn
<1>. HIDE DEF p
<1>3. g[s] = f[p] + g[s \ {p}]
  BY <1>1 DEF p
<1>4. CASE x = p
  BY <1>3, <1>4
<1>5. CASE x # p
  <2>1. IsFiniteSet(s) /\ Cardinality(s) \in Nat
    BY <1>1, FS_Subset, FS_CardinalityType
  <2>2. Cardinality(s \ {p}) = Cardinality(s) - 1
    BY ONLY <1>2, <2>1, FS_RemoveElement
  <2>3. Cardinality(s \ {x}) = Cardinality(s) - 1
    BY ONLY x \in s, <2>1, FS_RemoveElement
  <2>4. Cardinality(s \ {p}) <= k /\ Cardinality(s \ {x}) <= k
    BY <2>1, <2>2, <2>3
  <2>5. s \ {p} \in SUBSET P /\ x \in s \ {p} /\ s \ {x} \in SUBSET P /\ p \in s \ {x}
        /\ (s \ {p}) \ {x} = (s \ {x}) \ {p}
    BY <1>2, <1>5
  <2>6. g[s \ {p}] = f[x] + g[(s \ {p}) \ {x}] /\ g[s \ {x}] = f[p] + g[(s \ {x}) \ {p}]
    BY <2>4, <2>5, Zenon DEF AnyLastUpTo
  <2>. DEFINE u == f[p]
              v == f[x]
              r == g[(s \ {x}) \ {p}]
  <2>7. u \in Int /\ v \in Int /\ r \in Int
    BY <1>1, <1>2
  <2>8. g[s] = u + (v + r) /\ g[s \ {x}] = u + r
    BY <1>3, <2>5, <2>6
  <2>9. g[s] = v + g[s \ {x}]
    <3>. HIDE DEF u, v, r
    <3>. QED BY <2>7, <2>8
  <2>. QED BY <2>9
<1>. QED BY <1>4, <1>5

\* Any element of a set may be added last.
LEMMA SumAnyLast ==
  ASSUME NEW P, NEW f, Summable(P, f), NEW g, Sums(P, f, g) PROVE AnyLast(P, f, g)
<1>. DEFINE n == Cardinality(P)
            S == {k \in Nat : AnyLastUpTo(P, f, g, k)}
<1>1. IsFiniteSet(P) /\ n \in Nat
  BY FS_CardinalityType DEF Summable
<1>2. 0 \in S
  <2>1. \A s \in SUBSET P : Cardinality(s) <= 0 => s = {}
    BY <1>1, FS_Subset, FS_CardinalityType, FS_EmptySet
  <2>. QED BY <2>1 DEF AnyLastUpTo
<1>3. \A k \in 0 .. n - 1 : k \in S => k + 1 \in S
  <2>. HIDE DEF n
  <2>. QED BY <1>1, AnyLastMore
<1>4. n \in S
  <2>. HIDE DEF S, n
  <2>1. \A k \in 0 .. n : k \in S
    BY <1>1, <1>2, <1>3, UpTo
  <2>. QED BY <1>1, <2>1
<1>. QED BY <1>1, <1>4, FS_Subset, FS_CardinalityType DEF AnyLast, AnyLastUpTo

\* move goes through the elements of P, and back where it is taken twice.
SelfInverse(P, move) == move \in [P -> P] /\ \A x \in P : move[move[x]] = x

\* The total does not depend on where the numbers are.
LEMMA TotalMoved ==
  ASSUME NEW P, NEW f, Summable(P, f), NEW move, SelfInverse(P, move),
         NEW e, e = [x \in P |-> f[move[x]]]
  PROVE  Total(P, e) = Total(P, f)
<1>. DEFINE Image(s) == {move[x] : x \in s}
<1>0. IsFiniteSet(P) /\ f \in [P -> Int] /\ move \in [P -> P] /\ \A x \in P : move[move[x]] = x
  BY DEF Summable, SelfInverse
<1>1. Summable(P, e)
  BY <1>0 DEF Summable
<1>2. PICK g : Sums(P, f, g) /\ Total(P, f) = g[P]
  BY TotalIs
<1>3. PICK h : Sums(P, e, h) /\ Total(P, e) = h[P]
  BY <1>1, TotalIs
<1>4. AnyLast(P, f, g)
  BY <1>2, SumAnyLast
<1>. DEFINE U == {s \in SUBSET P : h[s] = g[Image(s)]}
<1>5. Inductive(P, U)
  <2>1. {} \in U
    <3>1. Image({}) = {} /\ h[{}] = 0 /\ g[{}] = 0
      BY <1>2, <1>3 DEF Sums
    <3>. QED BY <3>1
  <2>2. ASSUME NEW s \in SUBSET P, s # {}, s \ {Pick(s)} \in U PROVE s \in U
    <3>. DEFINE p == Pick(s)
    <3>1. p \in s
      BY <2>2, PickIn
    <3>2. h[s] = e[p] + h[s \ {p}] /\ h[s \ {p}] = g[Image(s \ {p})]
      BY <1>3, <2>2 DEF Sums
    <3>. HIDE DEF p
    <3>3. Image(s) \in SUBSET P /\ move[p] \in Image(s) /\ Image(s \ {p}) = Image(s) \ {move[p]}
      BY <1>0, <3>1
    <3>4. g[Image(s)] = f[move[p]] + g[Image(s) \ {move[p]}]
      BY <1>4, <3>3 DEF AnyLast
    <3>5. e[p] = f[move[p]]
      BY <3>1
    <3>. QED BY <3>2, <3>3, <3>4, <3>5
  <2>. HIDE DEF U
  <2>. QED BY <2>1, <2>2 DEF Inductive
<1>6. P \in U
  <2>. HIDE DEF U
  <2>. QED BY <1>0, <1>5, SubsetInduction
<1>7. Image(P) = P
  BY <1>0
<1>. QED BY <1>2, <1>3, <1>6, <1>7

-----------------------------------------------------------------------------
(* What FlattenSeq yields for every sequence of sequences. *)

\* The recursive function inside FlattenSeq.
Partial(p, n, g) ==
  g = [i \in 1 .. n |-> IF i = 1 THEN p[i] ELSE g[i - 1] \o p[i]]

\* Each is the one before it with a piece appended.
LEMMA PartialAt ==
  ASSUME NEW n, NEW p, NEW g, Partial(p, n, g)
  PROVE  \A i \in 1 .. n : g[i] = IF i = 1 THEN p[i] ELSE g[i - 1] \o p[i]
<1>. DEFINE At(i) == IF i = 1 THEN p[i] ELSE g[i - 1] \o p[i]
<1>1. g = [i \in 1 .. n |-> At(i)]
  BY DEF Partial
<1>. HIDE DEF At
<1>2. \A i \in 1 .. n : g[i] = At(i)
  BY <1>1
<1>. QED BY <1>2 DEF At

\* There are such sequences for any pieces.
LEMMA PartialExists ==
  ASSUME NEW n \in Nat \ {0}, NEW p PROVE \E g : Partial(p, n, g)
<1>. DEFINE S == {k \in 0 .. n - 1 : \E g : Partial(p, k + 1, g)}
<1>1. 0 \in S
  <2>. DEFINE g == [i \in 1 .. 1 |-> p[i]]
  <2>1. Partial(p, 1, g)
    BY DEF Partial
  <2>2. 0 \in 0 .. n - 1 /\ 0 + 1 = 1
    OBVIOUS
  <2>. HIDE DEF g
  <2>. QED BY <2>1, <2>2
<1>2. \A k \in 0 .. n - 1 - 1 : k \in S => k + 1 \in S
  <2>. SUFFICES ASSUME NEW k \in 0 .. n - 1 - 1, k \in S PROVE k + 1 \in S
    OBVIOUS
  <2>1. PICK g : Partial(p, k + 1, g)
    OBVIOUS
  <2>. DEFINE h == [i \in 1 .. k + 1 + 1 |-> IF i = k + 1 + 1 THEN g[k + 1] \o p[i] ELSE g[i]]
  <2>2. \A i \in 1 .. k + 1 : g[i] = IF i = 1 THEN p[i] ELSE g[i - 1] \o p[i]
    BY <2>1, PartialAt
  <2>3. \A i \in 1 .. k + 1 + 1 : h[i] = IF i = 1 THEN p[i] ELSE h[i - 1] \o p[i]
    <3>. SUFFICES ASSUME NEW i \in 1 .. k + 1 + 1
                  PROVE h[i] = IF i = 1 THEN p[i] ELSE h[i - 1] \o p[i]
      OBVIOUS
    <3>1. CASE i = k + 1 + 1
      <4>2. i # 1 /\ i - 1 \in 1 .. k + 1 + 1 /\ i - 1 # k + 1 + 1 /\ i - 1 = k + 1
        BY <3>1
      <4>3. h[i] = g[k + 1] \o p[i]
        BY <3>1
      <4>4. h[i - 1] = g[i - 1]
        BY <4>2
      <4>1. h[i] = g[k + 1] \o p[i] /\ h[i - 1] = g[k + 1] /\ i # 1
        BY <4>2, <4>3, <4>4
      <4>. QED BY <4>1
    <3>2. CASE i \in 1 .. k + 1
      <4>1. h[i] = g[i]
        BY <3>2
      <4>2. i # 1 => h[i - 1] = g[i - 1]
        BY <3>2
      <4>. HIDE DEF h
      <4>. QED BY <2>2, <3>2, <4>1, <4>2
    <3>. QED BY <3>1, <3>2
  <2>4. h = [i \in 1 .. k + 1 + 1 |-> IF i = 1 THEN p[i] ELSE h[i - 1] \o p[i]]
    <3>1. h = [i \in 1 .. k + 1 + 1 |-> h[i]]
      OBVIOUS
    <3>. HIDE DEF h
    <3>. QED BY <2>3, <3>1
  <2>. HIDE DEF h
  <2>5. Partial(p, k + 1 + 1, h)
    BY <2>4 DEF Partial
  <2>. QED BY <2>5
<1>3. n - 1 \in Nat
  OBVIOUS
<1>4. \A k \in 0 .. n - 1 : k \in S
  <2>. HIDE DEF S
  <2>. QED BY <1>1, <1>2, <1>3, UpTo
<1>5. n - 1 \in S /\ n - 1 + 1 = n
  BY <1>3, <1>4
<1>. QED BY <1>5

\* Such functions agree where both are defined, for pieces that agree there.
LEMMA PartialUnique ==
  ASSUME NEW m \in Nat \ {0}, NEW n \in Nat, m <= n, NEW p, NEW q, NEW g, NEW h,
         Partial(p, m, g), Partial(q, n, h), \A i \in 1 .. m : p[i] = q[i]
  PROVE  g[m] = h[m]
<1>. DEFINE S == {k \in 0 .. m - 1 : g[k + 1] = h[k + 1]}
<1>1. \A i \in 1 .. m : g[i] = IF i = 1 THEN p[i] ELSE g[i - 1] \o p[i]
  BY PartialAt
<1>7. \A i \in 1 .. m : h[i] = IF i = 1 THEN q[i] ELSE h[i - 1] \o q[i]
  <2>1. \A i \in 1 .. n : h[i] = IF i = 1 THEN q[i] ELSE h[i - 1] \o q[i]
    BY PartialAt
  <2>. QED BY <2>1
<1>2. 0 \in S
  BY <1>1, <1>7
<1>3. \A k \in 0 .. m - 1 - 1 : k \in S => k + 1 \in S
  <2>. SUFFICES ASSUME NEW k \in 0 .. m - 1 - 1, k \in S PROVE k + 1 \in S
    OBVIOUS
  <2>1. k + 1 \in 0 .. m - 1 /\ k + 1 + 1 \in 1 .. m /\ k + 1 + 1 # 1 /\ k + 1 + 1 - 1 = k + 1
    OBVIOUS
  <2>2. g[k + 1] = h[k + 1]
    OBVIOUS
  <2>3. g[k + 1 + 1] = g[k + 1] \o p[k + 1 + 1] /\ h[k + 1 + 1] = h[k + 1] \o q[k + 1 + 1]
    <3>. DEFINE i == k + 1 + 1
    <3>1. i \in 1 .. m /\ i # 1 /\ i - 1 = k + 1
      BY <2>1
    <3>. HIDE DEF i
    <3>2. g[i] = g[i - 1] \o p[i] /\ h[i] = h[i - 1] \o q[i]
      BY <1>1, <1>7, <3>1
    <3>3. g[i] = g[k + 1] \o p[i] /\ h[i] = h[k + 1] \o q[i]
      BY <3>1, <3>2
    <3>. QED BY <3>3 DEF i
  <2>4. p[k + 1 + 1] = q[k + 1 + 1]
    BY <2>1
  <2>. QED BY <2>1, <2>2, <2>3, <2>4
<1>4. m - 1 \in Nat
  OBVIOUS
<1>5. \A k \in 0 .. m - 1 : k \in S
  <2>. HIDE DEF S
  <2>. QED BY <1>2, <1>3, <1>4, UpTo
<1>6. m - 1 \in S /\ m - 1 + 1 = m
  BY <1>4, <1>5
<1>. QED BY <1>6

\* FlattenSeq is the last of them.
LEMMA FlattenIsPartial ==
  ASSUME NEW p, Len(p) \in Nat \ {0}
  PROVE  \E g : Partial(p, Len(p), g) /\ FlattenSeq(p) = g[Len(p)]
<1>. DEFINE f == CHOOSE g : Partial(p, Len(p), g)
<1>1. Partial(p, Len(p), f)
  BY PartialExists
<1>2. FlattenSeq(p) = f[Len(p)]
  BY DEF FlattenSeq, Partial
<1>. QED BY <1>1, <1>2

-----------------------------------------------------------------------------

\* \o, as a name whose definition a proof step can leave alone.
Cat(s, t) == s \o t

\* The type, the length and the elements of two sequences one after the other.
LEMMA CatFacts ==
  ASSUME NEW T, NEW x, NEW y, x \in Seq(T), y \in Seq(T)
  PROVE  /\ Cat(x, y) \in Seq(T)
         /\ Len(x) \in Nat /\ Len(y) \in Nat /\ Len(Cat(x, y)) = Len(x) + Len(y)
         /\ \A i \in 1 .. Len(x) : i \in 1 .. Len(Cat(x, y)) /\ Cat(x, y)[i] = x[i]
         /\ \A i \in 1 .. Len(y) :
              Len(x) + i \in 1 .. Len(Cat(x, y)) /\ Cat(x, y)[Len(x) + i] = y[i]
BY ConcatProperties DEF Cat

\* The empty sequence changes nothing.
LEMMA CatNone == ASSUME NEW T, NEW x, x \in Seq(T) PROVE Cat(<<>>, x) = x /\ Cat(x, <<>>) = x
BY ConcatEmptySeq DEF Cat

\* It does not matter which two are joined first.
LEMMA CatThrice ==
  ASSUME NEW T, NEW x, NEW y, NEW z, x \in Seq(T), y \in Seq(T), z \in Seq(T)
  PROVE  Cat(Cat(x, y), z) = Cat(x, Cat(y, z))
BY ConcatAssociative DEF Cat

\* The pieces 1 .. n one after the other.
Fl(n, F) == FlattenSeq([i \in 1 .. n |-> F[i]])

\* Each of them is a sequence.
Pieces(T, n, F) == \A i \in 1 .. n : F[i] \in Seq(T)

\* The first k pieces of n.
LEMMA PiecesFewer ==
  ASSUME NEW T, NEW n \in Nat, NEW F, Pieces(T, n, F), NEW k \in 0 .. n PROVE Pieces(T, k, F)
BY DEF Pieces

\* Sequences over S are sequences over what contains it.
LEMMA PiecesWider ==
  ASSUME NEW S, NEW T, S \subseteq T, NEW n, NEW F, Pieces(S, n, F) PROVE Pieces(T, n, F)
<1>. SUFFICES ASSUME NEW i \in 1 .. n PROVE F[i] \in Seq(T)
  BY DEF Pieces
<1>1. F[i] \in Seq(S)
  BY DEF Pieces
<1>. QED BY <1>1, SeqMonotonic

\* No pieces.
LEMMA FlNone == ASSUME NEW F PROVE Fl(0, F) = <<>>
<1>1. [i \in 1 .. 0 |-> F[i]] = <<>> /\ Len(<<>>) = 0
  OBVIOUS
<1>. QED BY <1>1 DEF Fl, FlattenSeq

\* Only the first n pieces count.
LEMMA FlSame ==
  ASSUME NEW n, NEW F, NEW G, \A i \in 1 .. n : F[i] = G[i]
  PROVE  Fl(n, F) = Fl(n, G)
<1>1. [i \in 1 .. n |-> F[i]] = [i \in 1 .. n |-> G[i]]
  OBVIOUS
<1>. QED BY <1>1 DEF Fl

\* The last piece is appended.
LEMMA FlStep ==
  ASSUME NEW T, NEW n \in Nat \ {0}, NEW F, Pieces(T, n, F)
  PROVE  Fl(n, F) = Cat(Fl(n - 1, F), F[n])
<1>. DEFINE p == [i \in 1 .. n |-> F[i]]
            q == [i \in 1 .. n - 1 |-> F[i]]
<1>1. Len(p) = n /\ \A i \in 1 .. n : p[i] = F[i]
  OBVIOUS
<1>2. Len(q) = n - 1 /\ \A i \in 1 .. n - 1 : q[i] = F[i]
  OBVIOUS
<1>3. Fl(n, F) = FlattenSeq(p) /\ Fl(n - 1, F) = FlattenSeq(q)
  BY DEF Fl
<1>. HIDE DEF p, q
<1>4. PICK g : Partial(p, n, g) /\ FlattenSeq(p) = g[n]
  BY <1>1, FlattenIsPartial
<1>5. CASE n = 1
  <2>1. g[1] = p[1]
    BY <1>4, <1>5, PartialAt
  <2>2. Fl(0, F) = <<>>
    BY FlNone
  <2>3. F[1] \in Seq(T)
    BY <1>5 DEF Pieces
  <2>4. Cat(<<>>, F[1]) = F[1]
    BY <2>3, CatNone
  <2>5. Fl(n, F) = F[n] /\ p[1] = F[1] /\ Fl(n - 1, F) = <<>>
    BY <1>1, <1>3, <1>4, <1>5, <2>1, <2>2
  <2>. QED BY <1>5, <2>4, <2>5
<1>6. CASE n # 1
  <2>1. n - 1 \in Nat \ {0} /\ n - 1 <= n
    BY <1>6
  <2>2. PICK h : Partial(q, n - 1, h) /\ FlattenSeq(q) = h[n - 1]
    BY <1>2, <2>1, FlattenIsPartial
  <2>3. \A i \in 1 .. n - 1 : q[i] = p[i]
    BY <1>1, <1>2
  <2>4. h[n - 1] = g[n - 1]
    BY <1>4, <2>1, <2>2, <2>3, PartialUnique
  <2>5. g[n] = g[n - 1] \o p[n]
    <3>1. \A i \in 1 .. n : g[i] = IF i = 1 THEN p[i] ELSE g[i - 1] \o p[i]
      BY <1>4, PartialAt
    <3>2. n \in 1 .. n
      OBVIOUS
    <3>. QED BY <1>6, <3>1, <3>2
  <2>6. p[n] = F[n]
    BY <1>1
  <2>. QED BY <1>3, <1>4, <2>2, <2>4, <2>5, <2>6 DEF Cat
<1>. QED BY <1>5, <1>6

\* One more piece.
LEMMA FlNext ==
  ASSUME NEW T, NEW n \in Nat, NEW F, Pieces(T, n, F), NEW k \in 0 .. n - 1
  PROVE  Fl(k + 1, F) = Cat(Fl(k, F), F[k + 1])
<1>. DEFINE m == k + 1
<1>1. m \in Nat \ {0} /\ m \in 0 .. n /\ m - 1 = k
  OBVIOUS
<1>. HIDE DEF m
<1>2. Pieces(T, m, F)
  BY <1>1, PiecesFewer
<1>3. Fl(m, F) = Cat(Fl(m - 1, F), F[m])
  BY <1>1, <1>2, FlStep
<1>4. Fl(m, F) = Cat(Fl(k, F), F[m])
  BY <1>1, <1>3
<1>. QED BY <1>4 DEF m

\* The pieces together are a sequence of the same kind.
LEMMA FlType ==
  ASSUME NEW T, NEW n \in Nat, NEW F, Pieces(T, n, F)
  PROVE  Fl(n, F) \in Seq(T)
<1>. DEFINE S == {k \in 0 .. n : Fl(k, F) \in Seq(T)}
<1>1. 0 \in S
  <2>1. <<>> \in Seq(T)
    OBVIOUS
  <2>2. Fl(0, F) \in Seq(T)
    BY <2>1, FlNone, Zenon
  <2>. QED BY <2>2
<1>2. \A k \in 0 .. n - 1 : k \in S => k + 1 \in S
  <2>. SUFFICES ASSUME NEW k \in 0 .. n - 1, k \in S PROVE k + 1 \in S
    OBVIOUS
  <2>. DEFINE a == Fl(k, F)
              b == F[k + 1]
              c == Fl(k + 1, F)
  <2>1. k + 1 \in 0 .. n /\ k + 1 \in 1 .. n
    OBVIOUS
  <2>2. c = Cat(a, b)
    BY FlNext
  <2>3. a \in Seq(T) /\ b \in Seq(T)
    BY <2>1 DEF Pieces
  <2>4. c \in Seq(T)
    <3>. HIDE DEF a, b, c
    <3>. QED BY <2>2, <2>3, CatFacts
  <2>. QED BY <2>1, <2>4
<1>3. \A k \in 0 .. n : k \in S
  <2>. HIDE DEF S
  <2>. QED BY <1>1, <1>2, UpTo
<1>. QED BY <1>3

\* One more piece adds its length.
LEMMA FlLen ==
  ASSUME NEW T, NEW n \in Nat, NEW F, Pieces(T, n, F), NEW k \in 0 .. n - 1
  PROVE  /\ Fl(k, F) \in Seq(T) /\ Fl(k + 1, F) \in Seq(T) /\ F[k + 1] \in Seq(T)
         /\ Len(Fl(k, F)) \in Nat /\ Len(F[k + 1]) \in Nat
         /\ Len(Fl(k + 1, F)) = Len(Fl(k, F)) + Len(F[k + 1])
<1>. DEFINE a == Fl(k, F)
            b == F[k + 1]
            c == Fl(k + 1, F)
<1>1. k \in 0 .. n /\ k + 1 \in 0 .. n /\ k + 1 \in 1 .. n
  OBVIOUS
<1>2. Pieces(T, k, F) /\ Pieces(T, k + 1, F)
  BY <1>1, PiecesFewer
<1>3. a \in Seq(T) /\ c \in Seq(T)
  BY <1>2, FlType
<1>4. b \in Seq(T)
  BY <1>1 DEF Pieces
<1>5. c = Cat(a, b)
  BY FlNext
<1>. HIDE DEF a, b, c
<1>6. Len(a) \in Nat /\ Len(b) \in Nat /\ Len(c) = Len(a) + Len(b)
  BY <1>3, <1>4, <1>5, CatFacts
<1>. QED BY <1>3, <1>4, <1>6 DEF a, b, c

\* The same for every number of pieces.
LEMMA FlLenNext ==
  ASSUME NEW T, NEW n \in Nat, NEW F, Pieces(T, n, F)
  PROVE  \A k \in 0 .. n - 1 : Len(Fl(k + 1, F)) = Len(Fl(k, F)) + Len(F[k + 1])
BY FlLen

\* The members of A up to k.
Upto(A, k) == {i \in A : i <= k}

\* They can be counted.
LEMMA UptoFinite ==
  ASSUME NEW n \in Nat, NEW A \in SUBSET (1 .. n), NEW k
  PROVE  IsFiniteSet(Upto(A, k)) /\ Cardinality(Upto(A, k)) \in Nat
<1>1. Upto(A, k) \in SUBSET (1 .. n)
  BY DEF Upto
<1>2. IsFiniteSet(1 .. n)
  BY FS_Interval
<1>. QED BY <1>1, <1>2, FS_Subset, FS_CardinalityType

\* There are none at 0.
LEMMA UptoNone ==
  ASSUME NEW n \in Nat, NEW A \in SUBSET (1 .. n) PROVE Cardinality(Upto(A, 0)) = 0
<1>1. Upto(A, 0) = {}
  <2>1. \A i \in A : ~ (i <= 0)
    OBVIOUS
  <2>. QED BY <2>1 DEF Upto
<1>. QED BY <1>1, FS_EmptySet

\* One more when k + 1 is a member.
LEMMA UptoNext ==
  ASSUME NEW n \in Nat, NEW A \in SUBSET (1 .. n), NEW k \in Nat
  PROVE  Cardinality(Upto(A, k + 1)) = Cardinality(Upto(A, k)) + (IF k + 1 \in A THEN 1 ELSE 0)
<1>1. k + 1 \notin Upto(A, k)
  BY DEF Upto
<1>2. ASSUME k + 1 \in A PROVE Upto(A, k + 1) = Upto(A, k) \cup {k + 1}
  <2>1. \A i \in A : i <= k + 1 <=> i <= k \/ i = k + 1
    OBVIOUS
  <2>. QED BY <1>2, <2>1 DEF Upto
<1>3. ASSUME k + 1 \notin A PROVE Upto(A, k + 1) = Upto(A, k)
  <2>1. \A i \in A : i <= k + 1 <=> i <= k
    BY <1>3
  <2>. QED BY <2>1 DEF Upto
<1>4. IsFiniteSet(Upto(A, k)) /\ Cardinality(Upto(A, k)) \in Nat
  BY UptoFinite
<1>5. CASE k + 1 \in A
  BY <1>1, <1>2, <1>4, <1>5, FS_AddElement
<1>6. CASE k + 1 \notin A
  BY <1>3, <1>4, <1>6
<1>. QED BY <1>5, <1>6

\* When all are members, there are k of them.
LEMMA UptoAll ==
  ASSUME NEW n \in Nat, NEW k \in 0 .. n PROVE Cardinality(Upto(1 .. n, k)) = k
<1>1. Upto(1 .. n, k) = 1 .. k
  BY DEF Upto
<1>. QED BY <1>1, FS_Interval

\* The pieces of A have one element more than the others, which have c.
Longer(n, F, A, c) ==
  /\ A \in SUBSET (1 .. n) /\ c \in {0, 1}
  /\ \A i \in 1 .. n : Len(F[i]) = IF i \in A THEN c + 1 ELSE c

\* How long they are together.
Counted(n, F, A, c) ==
  \A k \in 0 .. n : Len(Fl(k, F)) = (IF c = 1 THEN k ELSE 0) + Cardinality(Upto(A, k))

\* The lengths of the pieces, summed up.
LEMMA FlCount ==
  ASSUME NEW T, NEW n \in Nat, NEW F, Pieces(T, n, F), NEW A, NEW c, Longer(n, F, A, c)
  PROVE  Counted(n, F, A, c)
<1>. /\ A \in SUBSET (1 .. n) /\ c \in {0, 1}
     /\ \A i \in 1 .. n : Len(F[i]) = IF i \in A THEN c + 1 ELSE c
  BY DEF Longer
<1>. DEFINE S == {k \in 0 .. n : Len(Fl(k, F)) = (IF c = 1 THEN k ELSE 0) + Cardinality(Upto(A, k))}
<1>4. \A k \in 0 .. n - 1 : Len(Fl(k + 1, F)) = Len(Fl(k, F)) + Len(F[k + 1])
  BY FlLenNext, ZenonT(60)
<1>1. 0 \in S
  <2>1. Len(Fl(0, F)) = 0
    <3>1. Len(<<>>) = 0
      OBVIOUS
    <3>. QED BY <3>1, FlNone, Zenon
  <2>2. Cardinality(Upto(A, 0)) = 0
    BY UptoNone
  <2>3. Len(Fl(0, F)) = (IF c = 1 THEN 0 ELSE 0) + Cardinality(Upto(A, 0))
    BY <2>1, <2>2
  <2>4. 0 \in 0 .. n
    OBVIOUS
  <2>. QED BY <2>3, <2>4, Zenon
<1>2. \A k \in 0 .. n - 1 : k \in S => k + 1 \in S
  <2>. SUFFICES ASSUME NEW k \in 0 .. n - 1, k \in S PROVE k + 1 \in S
    OBVIOUS
  <2>1. Len(Fl(k, F)) = (IF c = 1 THEN k ELSE 0) + Cardinality(Upto(A, k))
    OBVIOUS
  <2>. HIDE DEF S
  <2>2. k + 1 \in 1 .. n /\ k + 1 \in 0 .. n /\ k \in Nat
    OBVIOUS
  <2>3. Len(Fl(k + 1, F)) = Len(Fl(k, F)) + Len(F[k + 1])
    BY <1>4
  <2>4. Len(F[k + 1]) = IF k + 1 \in A THEN c + 1 ELSE c
    BY <2>2
  <2>5. Cardinality(Upto(A, k + 1)) = Cardinality(Upto(A, k)) + (IF k + 1 \in A THEN 1 ELSE 0)
    BY <2>2, UptoNext
  <2>6. Cardinality(Upto(A, k)) \in Nat
    BY UptoFinite
  <2>. DEFINE l == Len(Fl(k + 1, F))
              a == Cardinality(Upto(A, k + 1))
              d == Cardinality(Upto(A, k))
              m == k + 1
  <2>7. l = (IF c = 1 THEN m ELSE 0) + a
    <3>1. l = (IF c = 1 THEN k ELSE 0) + d + (IF m \in A THEN c + 1 ELSE c)
      BY <2>1, <2>3, <2>4
    <3>2. a = d + (IF m \in A THEN 1 ELSE 0) /\ m = k + 1 /\ d \in Nat
      BY <2>5, <2>6
    <3>. HIDE DEF l, a, d, m
    <3>. QED BY <3>1, <3>2
  <2>. QED BY <2>2, <2>7 DEF S
<1>3. \A k \in 0 .. n : k \in S
  <2>. HIDE DEF S
  <2>. QED BY <1>1, <1>2, UpTo
<1>. QED BY <1>3 DEF Counted

\* Where an element of the i-th piece stands.
Stands(n, F) ==
  \A i \in 1 .. n : \A j \in 1 .. Len(F[i]) :
    /\ Len(Fl(i - 1, F)) + j \in 1 .. Len(Fl(n, F))
    /\ Fl(n, F)[Len(Fl(i - 1, F)) + j] = F[i][j]

\* Every element stands behind all the earlier pieces.
LEMMA FlAt ==
  ASSUME NEW T, NEW n \in Nat, NEW F, Pieces(T, n, F)
  PROVE  Stands(n, F)
<1>. DEFINE Placed(k, i, j) == /\ Len(Fl(i - 1, F)) + j \in 1 .. Len(Fl(k, F))
                               /\ Fl(k, F)[Len(Fl(i - 1, F)) + j] = F[i][j]
            S == {k \in 0 .. n : \A i \in 1 .. k : \A j \in 1 .. Len(F[i]) : Placed(k, i, j)}
<1>5. \A k \in 0 .. n - 1 : Fl(k + 1, F) = Cat(Fl(k, F), F[k + 1])
  BY FlNext
<1>1. 0 \in S
  OBVIOUS
<1>2. \A k \in 0 .. n - 1 : k \in S => k + 1 \in S
  <2>. SUFFICES ASSUME NEW k \in 0 .. n - 1, k \in S PROVE k + 1 \in S
    OBVIOUS
  <2>. SUFFICES ASSUME NEW i \in 1 .. k + 1, NEW j \in 1 .. Len(F[i]) PROVE Placed(k + 1, i, j)
    OBVIOUS
  <2>. DEFINE a == Fl(k, F)
              b == F[k + 1]
              c == Fl(k + 1, F)
  <2>1. /\ a \in Seq(T) /\ b \in Seq(T) /\ c \in Seq(T) /\ Len(a) \in Nat /\ Len(b) \in Nat
        /\ Len(c) = Len(a) + Len(b)
    BY FlLen
  <2>2. c = Cat(a, b)
    BY <1>5
  <2>3. \A x \in 1 .. Len(a) : x \in 1 .. Len(c) /\ c[x] = a[x]
    <3>. HIDE DEF a, b, c
    <3>. QED BY <2>1, <2>2, CatFacts
  <2>4. \A y \in 1 .. Len(b) : Len(a) + y \in 1 .. Len(c) /\ c[Len(a) + y] = b[y]
    <3>. HIDE DEF a, b, c
    <3>. QED BY <2>1, <2>2, CatFacts
  <2>5. CASE i = k + 1
    <3>1. Fl(i - 1, F) = a /\ F[i] = b
      <4>1. i - 1 = k
        BY <2>5
      <4>. QED BY <2>5, <4>1
    <3>. HIDE DEF a, b, c
    <3>2. j \in 1 .. Len(b)
      BY <3>1
    <3>3. Len(a) + j \in 1 .. Len(c) /\ c[Len(a) + j] = b[j]
      BY <2>4, <3>2
    <3>. QED BY <3>1, <3>3 DEF c
  <2>6. CASE i \in 1 .. k
    <3>1. Placed(k, i, j)
      BY <2>6
    <3>. DEFINE x == Len(Fl(i - 1, F)) + j
    <3>2. x \in 1 .. Len(a) /\ a[x] = F[i][j]
      BY <3>1
    <3>. HIDE DEF x
    <3>3. x \in 1 .. Len(c) /\ c[x] = F[i][j]
      BY <2>3, <3>2
    <3>. QED BY <3>3 DEF x
  <2>. QED BY <2>5, <2>6
<1>3. \A k \in 0 .. n : k \in S
  <2>. HIDE DEF S
  <2>. QED BY <1>1, <1>2, UpTo
<1>4. n \in S
  BY <1>3
<1>. QED BY <1>4 DEF Stands

-----------------------------------------------------------------------------

\* Pieces of one element each.
LEMMA FlSingles ==
  ASSUME NEW T, NEW n \in Nat, NEW s \in [1 .. n -> T], NEW F, \A i \in 1 .. n : F[i] = <<s[i]>>
  PROVE  Fl(n, F) = s
<1>1. \A i \in 1 .. n : F[i] \in Seq(T) /\ Len(F[i]) = 1 /\ F[i][1] = s[i]
  <2>. SUFFICES ASSUME NEW i \in 1 .. n PROVE F[i] \in Seq(T) /\ Len(F[i]) = 1 /\ F[i][1] = s[i]
    OBVIOUS
  <2>. DEFINE a == s[i]
  <2>1. a \in T /\ F[i] = <<a>>
    OBVIOUS
  <2>. HIDE DEF a
  <2>2. <<a>> \in Seq(T) /\ Len(<<a>>) = 1 /\ <<a>>[1] = a
    BY <2>1
  <2>3. F[i] \in Seq(T) /\ Len(F[i]) = 1 /\ F[i][1] = a
    BY ONLY <2>1, <2>2, Zenon
  <2>. QED BY <2>3 DEF a
<1>2. Pieces(T, n, F)
  BY <1>1 DEF Pieces
<1>3. \A k \in 0 .. n : Len(Fl(k, F)) = k
  <2>1. Longer(n, F, {}, 1)
    BY <1>1 DEF Longer
  <2>2. Counted(n, F, {}, 1)
    BY <1>2, <2>1, FlCount, Zenon
  <2>3. \A k : Cardinality(Upto({}, k)) = 0
    <3>1. \A k : Upto({}, k) = {}
      BY DEF Upto
    <3>. QED BY <3>1, FS_EmptySet, Zenon
  <2>. QED BY <2>2, <2>3 DEF Counted
<1>4. \A i \in 1 .. n : Fl(n, F)[i] = s[i]
  <2>. SUFFICES ASSUME NEW i \in 1 .. n PROVE Fl(n, F)[i] = s[i]
    OBVIOUS
  <2>1. Stands(n, F)
    BY <1>2, FlAt, Zenon
  <2>2. 1 \in 1 .. Len(F[i]) /\ F[i][1] = s[i]
    BY <1>1
  <2>3. Fl(n, F)[Len(Fl(i - 1, F)) + 1] = s[i]
    BY <2>1, <2>2 DEF Stands
  <2>4. Len(Fl(i - 1, F)) + 1 = i
    <3>1. i - 1 \in 0 .. n /\ i - 1 + 1 = i
      OBVIOUS
    <3>. QED BY <1>3, <3>1
  <2>. QED BY <2>3, <2>4
<1>5. Fl(n, F) \in Seq(T) /\ s \in Seq(T) /\ Len(s) = n
  BY <1>2, FlType
<1>6. Len(Fl(n, F)) = n
  BY <1>3
<1>. QED BY <1>4, <1>5, <1>6, SeqEqual

\* The pieces of H are the a pieces of F and then the b pieces of G.
Joined(a, b, F, G, H) ==
  /\ \A i \in 1 .. a : H[i] = F[i]
  /\ \A i \in 1 .. b : H[a + i] = G[i]

\* The pieces of two lists one after the other.
LEMMA FlCat ==
  ASSUME NEW T, NEW a \in Nat, NEW b \in Nat, NEW F, Pieces(T, a, F), NEW G, Pieces(T, b, G),
         NEW H, Joined(a, b, F, G, H)
  PROVE  Fl(a + b, H) = Cat(Fl(a, F), Fl(b, G))
<1>. /\ \A i \in 1 .. a : H[i] = F[i]
     /\ \A i \in 1 .. b : H[a + i] = G[i]
  BY DEF Joined
<1>. DEFINE S == {k \in 0 .. b : Fl(a + k, H) = Cat(Fl(a, F), Fl(k, G))}
<1>1. Fl(a, F) \in Seq(T)
  BY FlType
<1>2. a + b \in Nat /\ Pieces(T, a + b, H)
  <2>. SUFFICES ASSUME NEW i \in 1 .. a + b PROVE H[i] \in Seq(T)
    BY DEF Pieces
  <2>1. CASE i \in 1 .. a
    BY <2>1 DEF Pieces
  <2>2. CASE i \notin 1 .. a
    <3>1. i - a \in 1 .. b /\ a + (i - a) = i
      BY <2>2
    <3>2. H[a + (i - a)] = G[i - a]
      BY <3>1
    <3>. QED BY <3>1, <3>2 DEF Pieces
  <2>. QED BY <2>1, <2>2
<1>3. 0 \in S
  <2>1. Cat(Fl(a, F), <<>>) = Fl(a, F)
    BY <1>1, CatNone
  <2>2. Fl(a, H) = Fl(a, F)
    BY FlSame
  <2>3. Fl(0, G) = <<>>
    BY FlNone
  <2>4. a + 0 = a /\ 0 \in 0 .. b
    OBVIOUS
  <2>5. Fl(a + 0, H) = Cat(Fl(a, F), Fl(0, G))
    BY <2>1, <2>2, <2>3, <2>4, Zenon
  <2>. QED BY <2>4, <2>5, Zenon
<1>4. \A k \in 0 .. (a + b) - 1 : Fl(k + 1, H) = Cat(Fl(k, H), H[k + 1])
  BY <1>2, FlNext
<1>5. \A k \in 0 .. b - 1 : Fl(k + 1, G) = Cat(Fl(k, G), G[k + 1])
  BY FlNext
<1>6. \A k \in 0 .. b - 1 : k \in S => k + 1 \in S
  <2>. SUFFICES ASSUME NEW k \in 0 .. b - 1, k \in S PROVE k + 1 \in S
    OBVIOUS
  <2>1. Fl(a + k, H) = Cat(Fl(a, F), Fl(k, G))
    OBVIOUS
  <2>2. a + k \in 0 .. (a + b) - 1 /\ a + k + 1 = a + (k + 1) /\ k + 1 \in 1 .. b /\ k + 1 \in 0 .. b
    OBVIOUS
  <2>3. Fl(a + (k + 1), H) = Cat(Fl(a + k, H), H[a + (k + 1)])
    BY <1>4, <2>2
  <2>4. H[a + (k + 1)] = G[k + 1] /\ G[k + 1] \in Seq(T)
    BY <2>2 DEF Pieces
  <2>5. Fl(k, G) \in Seq(T)
    <3>1. Pieces(T, k, G) /\ k \in Nat
      BY PiecesFewer
    <3>. QED BY <3>1, FlType
  <2>6. Fl(k + 1, G) = Cat(Fl(k, G), G[k + 1])
    BY <1>5
  <2>7. Cat(Cat(Fl(a, F), Fl(k, G)), G[k + 1]) = Cat(Fl(a, F), Cat(Fl(k, G), G[k + 1]))
    BY <1>1, <2>4, <2>5, CatThrice
  <2>8. Fl(a + (k + 1), H) = Cat(Fl(a, F), Fl(k + 1, G))
    BY <2>1, <2>3, <2>4, <2>6, <2>7, Zenon
  <2>. QED BY <2>2, <2>8, Zenon
<1>7. \A k \in 0 .. b : k \in S
  <2>. HIDE DEF S
  <2>. QED BY <1>3, <1>6, UpTo
<1>8. b \in S
  <2>. HIDE DEF S
  <2>. QED BY <1>7
<1>. QED BY <1>8

-----------------------------------------------------------------------------

\* Every element of s replaced by the sequence that H has for it.
\* H has a sequence over U for every element of T.
Gives(H, T, U) == H \in [T -> Seq(U)]

Each(H, s) == [k \in 1 .. Len(s) |-> H[s[k]]]
Through(H, s) == Fl(Len(s), Each(H, s))

\* What is put for the elements of a sequence is a sequence again.
LEMMA ThroughPieces ==
  ASSUME NEW T, NEW U, NEW H, Gives(H, T, U), NEW s \in Seq(T)
  PROVE  Pieces(U, Len(s), Each(H, s)) /\ Through(H, s) \in Seq(U)
<1>. DEFINE F == [k \in 1 .. Len(s) |-> H[s[k]]]
<1>1. Pieces(U, Len(s), F)
  <2>1. \A k \in 1 .. Len(s) : s[k] \in T
    OBVIOUS
  <2>. QED BY <2>1 DEF Pieces, Gives
<1>2. Len(s) \in Nat
  OBVIOUS
<1>3. Fl(Len(s), F) \in Seq(U)
  <2>. HIDE DEF F
  <2>. QED BY <1>1, <1>2, FlType
<1>. QED BY <1>1, <1>3 DEF Through, Each

\* Nothing for no elements.
LEMMA ThroughNone == ASSUME NEW H PROVE Through(H, <<>>) = <<>>
<1>1. Len(<<>>) = 0
  OBVIOUS
<1>2. Through(H, <<>>) = Fl(0, Each(H, <<>>))
  BY <1>1, Zenon DEF Through
<1>. QED BY <1>2, FlNone, Zenon

\* One sequence after the other, element by element.
LEMMA ThroughCat ==
  ASSUME NEW T, NEW U, NEW H, Gives(H, T, U), NEW s \in Seq(T), NEW t \in Seq(T)
  PROVE  Through(H, Cat(s, t)) = Cat(Through(H, s), Through(H, t))
<1>. DEFINE F == Each(H, s)
            G == Each(H, t)
            K == Each(H, Cat(s, t))
<1>1. Pieces(U, Len(s), F) /\ Pieces(U, Len(t), G)
  BY ThroughPieces
<1>2. Len(s) \in Nat /\ Len(t) \in Nat /\ Len(Cat(s, t)) = Len(s) + Len(t)
  BY CatFacts
<1>3. Joined(Len(s), Len(t), F, G, K)
  <2>. DEFINE c == Cat(s, t)
  <2>1. \A i \in 1 .. Len(s) : i \in 1 .. Len(c) /\ c[i] = s[i]
    BY CatFacts
  <2>2. \A i \in 1 .. Len(t) : Len(s) + i \in 1 .. Len(c) /\ c[Len(s) + i] = t[i]
    BY CatFacts
  <2>. HIDE DEF c
  <2>3. \A i \in 1 .. Len(s) : Each(H, c)[i] = Each(H, s)[i]
    BY <2>1 DEF Each
  <2>4. \A i \in 1 .. Len(t) : Each(H, c)[Len(s) + i] = Each(H, t)[i]
    BY <2>2 DEF Each
  <2>. QED BY <2>3, <2>4 DEF Joined, c
<1>4. Fl(Len(s) + Len(t), K) = Cat(Fl(Len(s), F), Fl(Len(t), G))
  <2>. HIDE DEF F, G, K
  <2>. QED BY <1>1, <1>2, <1>3, FlCat
<1>. QED BY <1>2, <1>4, Zenon DEF Through

\* A single element.
LEMMA ThroughOne ==
  ASSUME NEW T, NEW U, NEW H, Gives(H, T, U), NEW x \in T
  PROVE  Through(H, <<x>>) = H[x]
<1>1. <<x>> \in Seq(T) /\ Len(<<x>>) = 1 /\ <<x>>[1] = x
  OBVIOUS
<1>. DEFINE F == Each(H, <<x>>)
<1>2. Pieces(U, 1, F)
  <2>1. Pieces(U, Len(<<x>>), F)
    BY <1>1, ThroughPieces
  <2>. QED BY <1>1, <2>1, Zenon
<1>3. F[1] = H[x]
  BY <1>1 DEF Each
<1>4. Fl(1, F) = H[x]
  <2>. HIDE DEF F
  <2>1. Fl(1, F) = Cat(Fl(1 - 1, F), F[1])
    BY <1>2, FlStep
  <2>2. Fl(1 - 1, F) = <<>>
    BY FlNone
  <2>3. H[x] \in Seq(U)
    BY DEF Gives
  <2>4. Cat(<<>>, H[x]) = H[x]
    BY <2>3, CatNone
  <2>. QED BY <1>3, <2>1, <2>2, <2>4, Zenon
<1>. QED BY <1>1, <1>4, Zenon DEF Through

\* A pair is two elements joined.
LEMMA CatSingles ==
  ASSUME NEW T, NEW x \in T, NEW y \in T PROVE <<x, y>> = Cat(<<x>>, <<y>>)
<1>. DEFINE a == <<x>>
            b == <<y>>
            c == <<x, y>>
            d == Cat(a, b)
<1>1. a \in Seq(T) /\ Len(a) = 1 /\ a[1] = x
  OBVIOUS
<1>2. b \in Seq(T) /\ Len(b) = 1 /\ b[1] = y
  OBVIOUS
<1>3. c \in Seq(T) /\ Len(c) = 2 /\ c[1] = x /\ c[2] = y
  OBVIOUS
<1>. HIDE DEF a, b, c
<1>4. d \in Seq(T) /\ Len(d) = 2 /\ d[1] = x /\ d[2] = y
  <2>1. /\ d \in Seq(T) /\ Len(d) = Len(a) + Len(b)
        /\ \A i \in 1 .. Len(a) : d[i] = a[i]
        /\ \A i \in 1 .. Len(b) : d[Len(a) + i] = b[i]
    <3>1. a \in Seq(T) /\ b \in Seq(T)
      BY <1>1, <1>2
    <3>. QED BY ONLY <3>1, CatFacts
  <2>. HIDE DEF d
  <2>. QED BY <1>1, <1>2, <2>1
<1>. HIDE DEF d
<1>5. Len(c) = Len(d) /\ \A i \in 1 .. Len(c) : c[i] = d[i]
  BY <1>3, <1>4
<1>6. c = d
  BY <1>3, <1>4, <1>5, SeqEqual
<1>. QED BY <1>6 DEF a, b, c, d

\* A pair.
LEMMA ThroughTwo ==
  ASSUME NEW T, NEW U, NEW H, Gives(H, T, U), NEW x \in T, NEW y \in T
  PROVE  Through(H, <<x, y>>) = Cat(H[x], H[y])
<1>. DEFINE a == <<x>>
            b == <<y>>
<1>1. a \in Seq(T) /\ b \in Seq(T)
  OBVIOUS
<1>2. <<x, y>> = Cat(a, b)
  BY CatSingles
<1>3. Through(H, a) = H[x] /\ Through(H, b) = H[y]
  BY ThroughOne
<1>. HIDE DEF a, b
<1>4. Through(H, Cat(a, b)) = Cat(Through(H, a), Through(H, b))
  BY <1>1, ThroughCat
<1>. QED BY <1>2, <1>3, <1>4, Zenon

\* Replacing every element of the whole is replacing those of each piece.
LEMMA ThroughFl ==
  ASSUME NEW T, NEW U, NEW H, Gives(H, T, U), NEW n \in Nat, NEW P, Pieces(T, n, P),
         NEW Q, \A i \in 1 .. n : Q[i] = Through(H, P[i])
  PROVE  Through(H, Fl(n, P)) = Fl(n, Q)
<1>. DEFINE S == {k \in 0 .. n : Through(H, Fl(k, P)) = Fl(k, Q)}
<1>1. 0 \in S
  <2>1. Fl(0, P) = <<>> /\ Fl(0, Q) = <<>> /\ Through(H, <<>>) = <<>>
    BY FlNone, ThroughNone
  <2>2. 0 \in 0 .. n
    OBVIOUS
  <2>3. Through(H, Fl(0, P)) = Fl(0, Q)
    BY <2>1, Zenon
  <2>. QED BY <2>2, <2>3
<1>2. Pieces(U, n, Q)
  <2>. SUFFICES ASSUME NEW i \in 1 .. n PROVE Q[i] \in Seq(U)
    BY DEF Pieces
  <2>1. P[i] \in Seq(T)
    BY DEF Pieces
  <2>2. Through(H, P[i]) \in Seq(U)
    BY <2>1, ThroughPieces
  <2>. QED BY <2>2
<1>3. \A k \in 0 .. n - 1 : Fl(k + 1, P) = Cat(Fl(k, P), P[k + 1])
  BY FlNext
<1>4. \A k \in 0 .. n - 1 : Fl(k + 1, Q) = Cat(Fl(k, Q), Q[k + 1])
  BY <1>2, FlNext
<1>5. \A k \in 0 .. n - 1 : k \in S => k + 1 \in S
  <2>. SUFFICES ASSUME NEW k \in 0 .. n - 1, k \in S PROVE k + 1 \in S
    OBVIOUS
  <2>1. Through(H, Fl(k, P)) = Fl(k, Q)
    OBVIOUS
  <2>2. k + 1 \in 1 .. n /\ k + 1 \in 0 .. n /\ k \in Nat
    OBVIOUS
  <2>3. Fl(k, P) \in Seq(T) /\ P[k + 1] \in Seq(T)
    <3>1. Pieces(T, k, P)
      BY PiecesFewer
    <3>. QED BY <2>2, <3>1, FlType DEF Pieces
  <2>4. Through(H, Cat(Fl(k, P), P[k + 1])) = Cat(Through(H, Fl(k, P)), Through(H, P[k + 1]))
    BY <2>3, ThroughCat
  <2>5. Q[k + 1] = Through(H, P[k + 1])
    BY <2>2
  <2>6. Fl(k + 1, P) = Cat(Fl(k, P), P[k + 1]) /\ Fl(k + 1, Q) = Cat(Fl(k, Q), Q[k + 1])
    BY <1>3, <1>4
  <2>7. Through(H, Fl(k + 1, P)) = Fl(k + 1, Q)
    BY <2>1, <2>4, <2>5, <2>6, Zenon
  <2>. QED BY <2>2, <2>7
<1>6. \A k \in 0 .. n : k \in S
  <2>. HIDE DEF S
  <2>. QED BY <1>1, <1>5, UpTo
<1>7. n \in S
  <2>. HIDE DEF S
  <2>. QED BY <1>6
<1>. QED BY <1>7

\* Pieces of two elements each.
LEMMA FlPairs ==
  ASSUME NEW T, NEW n \in Nat, NEW P, Pieces(T, n, P), \A i \in 1 .. n : Len(P[i]) = 2
  PROVE  /\ Fl(n, P) \in Seq(T) /\ Len(Fl(n, P)) = 2 * n
         /\ \A i \in 1 .. n : Fl(n, P)[2 * i - 1] = P[i][1] /\ Fl(n, P)[2 * i] = P[i][2]
<1>1. Longer(n, P, 1 .. n, 1)
  BY DEF Longer
<1>2. Counted(n, P, 1 .. n, 1)
  BY <1>1, FlCount
<1>3. \A k \in 0 .. n : Len(Fl(k, P)) = 2 * k
  <2>. SUFFICES ASSUME NEW k \in 0 .. n PROVE Len(Fl(k, P)) = 2 * k
    OBVIOUS
  <2>1. Len(Fl(k, P)) = k + Cardinality(Upto(1 .. n, k))
    BY <1>2 DEF Counted
  <2>2. Cardinality(Upto(1 .. n, k)) = k
    BY UptoAll
  <2>. QED BY <2>1, <2>2
<1>4. Stands(n, P)
  BY FlAt
<1>5. \A i \in 1 .. n : Fl(n, P)[2 * i - 1] = P[i][1] /\ Fl(n, P)[2 * i] = P[i][2]
  <2>. SUFFICES ASSUME NEW i \in 1 .. n
                PROVE Fl(n, P)[2 * i - 1] = P[i][1] /\ Fl(n, P)[2 * i] = P[i][2]
    OBVIOUS
  <2>. DEFINE l == Len(Fl(i - 1, P))
  <2>1. l = 2 * (i - 1)
    BY <1>3
  <2>2. 1 \in 1 .. Len(P[i]) /\ 2 \in 1 .. Len(P[i])
    BY SMTT(30)
  <2>3. Fl(n, P)[l + 1] = P[i][1] /\ Fl(n, P)[l + 2] = P[i][2]
    BY <1>4, <2>2 DEF Stands
  <2>4. l + 1 = 2 * i - 1 /\ l + 2 = 2 * i
    BY <2>1
  <2>. HIDE DEF l
  <2>. QED BY <2>3, <2>4
<1>6. Fl(n, P) \in Seq(T) /\ Len(Fl(n, P)) = 2 * n
  BY <1>3, FlType
<1>. QED BY <1>5, <1>6

-----------------------------------------------------------------------------

\* A loop that appends is Fl.
LEMMA FlOf ==
  ASSUME NEW n, NEW F, F = [i \in 1 .. n |-> F[i]] PROVE FlattenSeq(F) = Fl(n, F)
BY Zenon DEF Fl

\* The pieces of F are the elements of v whose position is in A.
Picks(T, n, A, v, F) ==
  /\ A \in SUBSET (1 .. n)
  /\ \A i \in A : v[i] \in T
  /\ \A i \in 1 .. n : F[i] = IF i \in A THEN <<v[i]>> ELSE <<>>

\* Each of them is found by the rank of its position in A.
Ranked(n, A, v, F) ==
  \A i \in A : /\ Cardinality(Upto(A, i)) \in 1 .. Len(Fl(n, F))
              /\ Fl(n, F)[Cardinality(Upto(A, i))] = v[i]

\* Their type and number, and where each of them is.
LEMMA FlRank ==
  ASSUME NEW T, NEW n \in Nat, NEW A, NEW v, NEW F, Picks(T, n, A, v, F)
  PROVE  /\ Pieces(T, n, F) /\ Fl(n, F) \in Seq(T) /\ Len(Fl(n, F)) = Cardinality(A)
         /\ Ranked(n, A, v, F)
<1>. /\ A \in SUBSET (1 .. n)
     /\ \A i \in A : v[i] \in T
     /\ \A i \in 1 .. n : F[i] = IF i \in A THEN <<v[i]>> ELSE <<>>
  BY DEF Picks
<1>1. \A i \in A : F[i] \in Seq(T) /\ Len(F[i]) = 1 /\ F[i][1] = v[i]
  <2>. SUFFICES ASSUME NEW i \in A PROVE F[i] \in Seq(T) /\ Len(F[i]) = 1 /\ F[i][1] = v[i]
    OBVIOUS
  <2>. DEFINE a == v[i]
  <2>1. a \in T /\ F[i] = <<a>>
    OBVIOUS
  <2>. HIDE DEF a
  <2>2. <<a>> \in Seq(T) /\ Len(<<a>>) = 1 /\ <<a>>[1] = a
    BY <2>1
  <2>3. F[i] \in Seq(T) /\ Len(F[i]) = 1 /\ F[i][1] = a
    BY ONLY <2>1, <2>2, Zenon
  <2>. QED BY <2>3 DEF a
<1>2. \A i \in 1 .. n : i \notin A => F[i] \in Seq(T) /\ Len(F[i]) = 0
  <2>. SUFFICES ASSUME NEW i \in 1 .. n, i \notin A PROVE F[i] \in Seq(T) /\ Len(F[i]) = 0
    OBVIOUS
  <2>1. F[i] = <<>>
    OBVIOUS
  <2>2. <<>> \in Seq(T) /\ Len(<<>>) = 0
    OBVIOUS
  <2>. QED BY ONLY <2>1, <2>2, Zenon
<1>3. Pieces(T, n, F)
  BY <1>1, <1>2 DEF Pieces
<1>4. Fl(n, F) \in Seq(T)
  BY <1>3, FlType
<1>5. Longer(n, F, A, 0)
  <2>1. \A i \in 1 .. n : Len(F[i]) = IF i \in A THEN 0 + 1 ELSE 0
    <3>1. \A i \in A : Len(F[i]) = 0 + 1
      BY <1>1
    <3>2. \A i \in 1 .. n : i \notin A => Len(F[i]) = 0
      BY <1>2
    <3>. QED BY ONLY <3>1, <3>2
  <2>2. 0 \in {0, 1} /\ A \in SUBSET (1 .. n)
    OBVIOUS
  <2>. QED BY ONLY <2>1, <2>2 DEF Longer
<1>6. Counted(n, F, A, 0)
  BY <1>3, <1>5, FlCount
<1>7. Stands(n, F)
  BY <1>3, FlAt
<1>8. Len(Fl(n, F)) = Cardinality(A)
  <2>1. Upto(A, n) = A
    <3>1. \A i \in A : i <= n
      OBVIOUS
    <3>. QED BY ONLY <3>1 DEF Upto
  <2>2. Cardinality(Upto(A, n)) \in Nat
    BY UptoFinite
  <2>3. Len(Fl(n, F)) = 0 + Cardinality(Upto(A, n))
    BY <1>6 DEF Counted
  <2>. QED BY <2>1, <2>2, <2>3
<1>9. ASSUME NEW i \in A
      PROVE  /\ Cardinality(Upto(A, i)) \in 1 .. Len(Fl(n, F))
             /\ Fl(n, F)[Cardinality(Upto(A, i))] = v[i]
  <2>. DEFINE l == Len(Fl(i - 1, F))
  <2>1. i - 1 \in 0 .. n /\ i - 1 \in Nat /\ i - 1 + 1 = i /\ i \in 1 .. n
    OBVIOUS
  <2>2. l = Cardinality(Upto(A, i - 1))
    <3>1. l = 0 + Cardinality(Upto(A, i - 1))
      BY <1>6, <2>1 DEF Counted
    <3>2. Cardinality(Upto(A, i - 1)) \in Nat
      BY UptoFinite
    <3>. QED BY <3>1, <3>2
  <2>3. Cardinality(Upto(A, i)) = Cardinality(Upto(A, i - 1)) + 1
    <3>1. Cardinality(Upto(A, i - 1 + 1)) = Cardinality(Upto(A, i - 1)) + (IF i - 1 + 1 \in A THEN 1 ELSE 0)
      BY <2>1, UptoNext
    <3>. QED BY <2>1, <3>1
  <2>4. 1 \in 1 .. Len(F[i]) /\ F[i][1] = v[i]
    BY <1>1
  <2>5. l + 1 \in 1 .. Len(Fl(n, F)) /\ Fl(n, F)[l + 1] = v[i]
    BY <1>7, <2>1, <2>4 DEF Stands
  <2>. QED BY <2>2, <2>3, <2>5
<1>10. Ranked(n, A, v, F)
  BY <1>9 DEF Ranked
<1>. QED BY <1>3, <1>4, <1>8, <1>10
=============================================================================

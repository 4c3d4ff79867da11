------------------------- MODULE MCPartialSymmetry -------------------------
(***************************************************************************)
(* Small instances of PartialSymmetry: for every partition of the          *)
(* dimensions a tensor that is symmetric in its sets and in nothing else.  *)
(***************************************************************************)
EXTENDS PartialSymmetry, TLC

Primes == <<2, 3, 5, 7, 11, 13, 17, 19, 23, 29, 31, 37>>

Partitions(n) == {a \in [1 .. n -> 1 .. n] : \A d \in 1 .. n : a[d] <= d /\ a[a[d]] = a[d]}

\* The entries that exchanges within the sets make equal, by their position.
Position(i) == 1 + (i[1] - 1) + (IF Len(i) > 1 THEN 2 * (i[2] - 1) ELSE 0) + (IF Len(i) > 2 THEN 4 * (i[3] - 1) ELSE 0)

Orbit(i, ann) ==
  {[d \in DOMAIN i |-> i[p[d]]] : p \in {q \in Perms(Len(i)) : \A d \in DOMAIN i : ann[q[d]] = ann[d]}}

Generic(shape, ann) == Tensor(shape, LAMBDA i : Primes[Min({Position(j) : j \in Orbit(i, ann)})])

Cubes(n) == {Generic([d \in 1 .. n |-> 2], ann) : ann \in Partitions(n)}

Chosen(anns) == {Generic([d \in 1 .. Len(ann) |-> 2], ann) : ann \in anns}
SmallTensors == Cubes(1) \union Cubes(2) \union Chosen({<<1, 2, 3>>, <<1, 2, 1>>, <<1, 1, 1>>})

\* A tensor without symmetry, whose product with itself has two free dimensions
\* on either side; and two of which the difference has none.
Unsymmetric == Chosen({<<1, 2, 3>>})
Matrices == Cubes(2)
=============================================================================

------------------------ MODULE EnzymePrimitiveProofs ------------------------
(***************************************************************************)
(* Proofs about the JAX primitives, for a function of any number of        *)
(* arguments and results and any set of used arguments.  A first level of  *)
(* differentiation can leave an equation in a few forms only; each of them *)
(* is written down here as a record of the numbers of arguments n and      *)
(* results m and the choices made on the way, and the lowering of each is  *)
(* shown to give every operand and result to whom it belongs.              *)
(***************************************************************************)
EXTENDS EnzymePrimitive, FoldLemmas

Vals == [role : {"in", "tangent", "cotangent", "tape", "out", "outTangent", "grad"}, of : Int]

Ins(n) == [i \in 1 .. n |-> In(i)]
Tangents(n) == [i \in 1 .. n |-> Tangent(i)]
Seeds(m) == [j \in 1 .. m |-> Cotangent(j)]
Results(m) == [j \in 1 .. m |-> Out(j)]
ResultTangents(m) == [j \in 1 .. m |-> OutTangent(j)]
Grads(n) == [i \in 1 .. n |-> Grad(i)]

\* The members of S one by one, each argument of n with its tangent when it is
\* active, and the position of the argument of each of them.
Only(n, S) == [i \in 1 .. n |-> IF i \in S THEN <<i>> ELSE <<>>]
Beside(n, active) == [i \in 1 .. n |-> IF i \in active THEN <<In(i), Tangent(i)>> ELSE <<In(i)>>]
Twice(n, active) == [i \in 1 .. n |-> IF i \in active THEN <<i, i>> ELSE <<i>>]
SeedsOf(m, live) == [j \in 1 .. m |-> IF j \in live THEN <<Cotangent(j)>> ELSE <<>>]

Acts(n, active) == [i \in 1 .. n |-> IF i \in active THEN "dup" ELSE "const"]

FreshEqn(n, m) ==
  [prim |-> "primal", args |-> Ins(n), inIdx |-> [i \in 1 .. n |-> i],
   outIdx |-> [j \in 1 .. m |-> 0], wrap |-> NoWrap, outs |-> Results(m)]

ForwardWrap(n, m, active) ==
  [mode |-> "ForwardMode", argTys |-> Acts(n, active), retTys |-> [j \in 1 .. m |-> "dup"]]

ForwardEqn(n, m, active) ==
  [prim |-> "primal", args |-> Fl(n, Beside(n, active)), inIdx |-> Fl(n, Twice(n, active)),
   outIdx |-> [j \in 1 .. 2 * m |-> 0], wrap |-> ForwardWrap(n, m, active),
   outs |-> WithTangents(Results(m))]

TangentsOf(n, active) ==
  [k \in 1 .. Len(Fl(n, Only(n, active))) |-> Tangent(Fl(n, Only(n, active))[k])]

LinearEqn(n, m, active) ==
  [ForwardEqn(n, m, active) EXCEPT !.prim = "shadow_aug",
     !.args = Ins(n) \o TangentsOf(n, active), !.outs = ResultTangents(m)]

ReverseWrap(n, m, active, live) ==
  [mode |-> "ReverseModeCombined",
   argTys |-> [i \in 1 .. n |-> IF i \in active THEN "active" ELSE "const"],
   retTys |-> [j \in 1 .. m |-> IF j \in live THEN "active" ELSE "const"]]

ReverseEqn(n, m, active, live) ==
  [prim |-> "primal", args |-> Ins(n) \o Fl(m, SeedsOf(m, live)), inIdx |-> [i \in 1 .. n |-> i],
   outIdx |-> Fl(n, Only(n, active)), wrap |-> ReverseWrap(n, m, active, live),
   outs |-> [k \in 1 .. Len(Fl(n, Only(n, active))) |-> Grad(Fl(n, Only(n, active))[k])]]

FwdEqn(n, m) ==
  [FreshEqn(n, m) EXCEPT !.prim = "fwd", !.args = Fl(n, Beside(n, 1 .. n)),
                         !.outs = WithTangents(Results(m))]
AugEqn(n, m) ==
  [FwdEqn(n, m) EXCEPT !.prim = "aug", !.args = Ins(n), !.outs = Append(Results(m), Tape)]
ShadowEqn(n, m) ==
  [FwdEqn(n, m) EXCEPT !.prim = "shadow_aug", !.args = <<Tape>> \o Ins(n) \o Tangents(n),
                       !.outs = ResultTangents(m)]
RevEqn(n, m) ==
  [FwdEqn(n, m) EXCEPT !.prim = "rev", !.args = <<Tape>> \o Seeds(m), !.outs = Grads(n)]

\* The function that is called.
IsFn ==
  /\ mlirAd \in BOOLEAN /\ nArgs \in Nat \ {0} /\ nOuts \in Nat \ {0}
  /\ kept \in SUBSET (1 .. nArgs)

\* The arguments with a tangent: the function uses them.
Actives == (SUBSET kept) \ {{}}
Lives == (SUBSET (1 .. nOuts)) \ {{}}

FirstLevel ==
  \/ eqn = FreshEqn(nArgs, nOuts)
  \/ eqn.prim = "primal" /\ eqn.wrap = Nested
  \/ \E active \in Actives : mlirAd /\ eqn = ForwardEqn(nArgs, nOuts, active)
  \/ \E active \in Actives : mlirAd /\ eqn = LinearEqn(nArgs, nOuts, active)
  \/ \E active \in Actives, live \in Lives : mlirAd /\ eqn = ReverseEqn(nArgs, nOuts, active, live)
  \/ ~mlirAd /\ eqn \in {FwdEqn(nArgs, nOuts), AugEqn(nArgs, nOuts), ShadowEqn(nArgs, nOuts),
                         RevEqn(nArgs, nOuts)}

\* The inductive invariant: a first level leaves one of a few equations, and a
\* call that has ended did so as the properties say.
PrimitiveInv ==
  /\ IsFn /\ FirstLevel
  /\ OperandsMatch /\ ResultsMatch /\ AssertionsHold /\ FirstOrderRaisesOnly

-----------------------------------------------------------------------------

\* The constructors of values, one field at a time.
LEMMA ValFacts ==
  ASSUME NEW i \in Int
  PROVE  /\ In(i) \in Vals /\ In(i).of = i /\ In(i).role = "in"
         /\ Tangent(i) \in Vals /\ Tangent(i).of = i /\ Tangent(i).role = "tangent"
         /\ Cotangent(i) \in Vals /\ Cotangent(i).of = i /\ Cotangent(i).role = "cotangent"
         /\ Out(i) \in Vals /\ Out(i).of = i /\ Out(i).role = "out"
         /\ OutTangent(i) \in Vals /\ OutTangent(i).of = i
         /\ Grad(i) \in Vals
         /\ TangentOf(In(i)) = Tangent(i) /\ TangentOf(Out(i)) = OutTangent(i)
<1>1. /\ In(i).of = i /\ In(i).role = "in" /\ Tangent(i).of = i /\ Tangent(i).role = "tangent"
      /\ Cotangent(i).of = i /\ Cotangent(i).role = "cotangent"
      /\ Out(i).of = i /\ Out(i).role = "out" /\ OutTangent(i).of = i
  BY DEF In, Tangent, Cotangent, Out, OutTangent
<1>2. /\ In(i) \in Vals /\ Tangent(i) \in Vals /\ Cotangent(i) \in Vals
      /\ Out(i) \in Vals /\ OutTangent(i) \in Vals /\ Grad(i) \in Vals
  BY DEF Vals, In, Tangent, Cotangent, Out, OutTangent, Grad
<1>3. TangentOf(In(i)) = Tangent(i)
  BY DEF TangentOf, In, Tangent
<1>4. TangentOf(Out(i)) = OutTangent(i)
  BY DEF TangentOf, Out, OutTangent
<1>. QED BY <1>1, <1>2, <1>3, <1>4

\* One element, or two.
LEMMA OneOrTwo ==
  ASSUME NEW T, NEW x \in T, NEW y \in T
  PROVE  /\ <<x>> \in Seq(T) /\ Len(<<x>>) = 1 /\ <<x>>[1] = x
         /\ <<x, y>> \in Seq(T) /\ Len(<<x, y>>) = 2 /\ <<x, y>>[1] = x /\ <<x, y>>[2] = y
OBVIOUS

\* The members of S in order: who they are, how many, and each at its rank.
LEMMA OnlyFacts ==
  ASSUME NEW n \in Nat, NEW S \in SUBSET (1 .. n)
  PROVE  /\ Ascending(n, S) = Fl(n, Only(n, S))
         /\ Pieces(S, n, Only(n, S)) /\ Fl(n, Only(n, S)) \in Seq(S)
         /\ Len(Fl(n, Only(n, S))) = Cardinality(S)
         /\ \A i \in S : Fl(n, Only(n, S))[Cardinality(Upto(S, i))] = i
<1>. DEFINE F == Only(n, S)
            v == [i \in S |-> i]
<1>1. Ascending(n, S) = FlattenSeq(F)
  BY DEF Ascending, Gather, Only
<1>2. F = [i \in 1 .. n |-> F[i]]
  BY DEF Only
<1>3. \A i \in 1 .. n : F[i] = IF i \in S THEN <<v[i]>> ELSE <<>>
  BY DEF Only
<1>4. \A i \in S : v[i] \in S /\ v[i] = i
  OBVIOUS
<1>. HIDE DEF F, v
<1>5. FlattenSeq(F) = Fl(n, F)
  BY <1>2, FlOf
<1>6. /\ Pieces(S, n, F) /\ Fl(n, F) \in Seq(S) /\ Len(Fl(n, F)) = Cardinality(S)
      /\ \A i \in S : Fl(n, F)[Cardinality(Upto(S, i))] = v[i]
  <2>1. Picks(S, n, S, v, F)
    BY <1>3, <1>4 DEF Picks
  <2>2. /\ Pieces(S, n, F) /\ Fl(n, F) \in Seq(S) /\ Len(Fl(n, F)) = Cardinality(S)
        /\ Ranked(n, S, v, F)
    BY <2>1, FlRank
  <2>. QED BY <2>2 DEF Ranked
<1>. QED BY <1>1, <1>4, <1>5, <1>6 DEF F

\* Where an argument and its tangent stand among the interleaved operands.
LEMMA PlaceIs ==
  ASSUME NEW n \in Nat, NEW active \in SUBSET (1 .. n), NEW T, NEW F, Pieces(T, n, F),
         Longer(n, F, active, 1)
  PROVE  /\ Dup(Acts(n, active)) = active
         /\ \A i \in 1 .. n :
              /\ Place(Acts(n, active), i) \in 1 .. Len(Fl(n, F))
              /\ Fl(n, F)[Place(Acts(n, active), i)] = F[i][1]
              /\ i \in active => Fl(n, F)[Place(Acts(n, active), i) + 1] = F[i][2]
<1>. DEFINE acts == Acts(n, active)
<1>1. Dup(acts) = active
  BY DEF Dup, Acts
<1>2. Counted(n, F, active, 1)
  BY FlCount
<1>3. Stands(n, F)
  BY FlAt
<1>. HIDE DEF acts
<1>4. ASSUME NEW i \in 1 .. n
      PROVE  /\ Place(acts, i) \in 1 .. Len(Fl(n, F))
             /\ Fl(n, F)[Place(acts, i)] = F[i][1]
             /\ i \in active => Fl(n, F)[Place(acts, i) + 1] = F[i][2]
  <2>. DEFINE l == Len(Fl(i - 1, F))
              c == Cardinality(Upto(active, i - 1))
  <2>1. i - 1 \in 0 .. n
    OBVIOUS
  <2>2. l = i - 1 + c
    BY <1>2, <2>1 DEF Counted
  <2>3. {k \in active : k < i} = Upto(active, i - 1)
    <3>1. \A k \in active : k < i <=> k <= i - 1
      OBVIOUS
    <3>. QED BY <3>1 DEF Upto
  <2>4. Place(acts, i) = i + c
    BY <1>1, <2>3 DEF Place
  <2>5. c \in Nat
    BY UptoFinite
  <2>. HIDE DEF l, c
  <2>6. Place(acts, i) = l + 1 /\ Place(acts, i) + 1 = l + 2
    BY <2>2, <2>4, <2>5
  <2>7. Len(F[i]) = IF i \in active THEN 2 ELSE 1
    BY DEF Longer
  <2>8. \A j \in 1 .. Len(F[i]) : l + j \in 1 .. Len(Fl(n, F)) /\ Fl(n, F)[l + j] = F[i][j]
    BY <1>3 DEF Stands, l
  <2>9. 1 \in 1 .. Len(F[i]) /\ (i \in active => 2 \in 1 .. Len(F[i]))
    BY <2>7
  <2>. QED BY <2>6, <2>8, <2>9
<1>. QED BY <1>1, <1>4 DEF acts

\* The interleaved operands, piece by piece.
LEMMA BesideFacts ==
  ASSUME NEW n \in Nat, NEW active \in SUBSET (1 .. n)
  PROVE  /\ Pieces(Vals, n, Beside(n, active)) /\ Longer(n, Beside(n, active), active, 1)
         /\ Fl(n, Beside(n, active)) \in Seq(Vals)
         /\ \A i \in 1 .. n : Beside(n, active)[i][1] = In(i)
         /\ \A i \in active : Beside(n, active)[i][2] = Tangent(i)
<1>. DEFINE F == Beside(n, active)
<1>1. ASSUME NEW i \in 1 .. n
      PROVE  /\ F[i] \in Seq(Vals) /\ Len(F[i]) = (IF i \in active THEN 1 + 1 ELSE 1)
             /\ F[i][1] = In(i) /\ (i \in active => F[i][2] = Tangent(i))
  <2>. DEFINE x == In(i)
              y == Tangent(i)
  <2>1. x \in Vals /\ y \in Vals
    BY ValFacts
  <2>2. F[i] = IF i \in active THEN <<x, y>> ELSE <<x>>
    BY DEF Beside
  <2>. HIDE DEF x, y, F
  <2>3. /\ <<x>> \in Seq(Vals) /\ Len(<<x>>) = 1 /\ <<x>>[1] = x
        /\ <<x, y>> \in Seq(Vals) /\ Len(<<x, y>>) = 2 /\ <<x, y>>[1] = x /\ <<x, y>>[2] = y
    BY <2>1, OneOrTwo
  <2>4. CASE i \in active
    <3>1. F[i] = <<x, y>>
      BY <2>2, <2>4
    <3>2. F[i] \in Seq(Vals) /\ Len(F[i]) = 2 /\ F[i][1] = x /\ F[i][2] = y
      BY ONLY <2>3, <3>1, Zenon
    <3>. QED BY <2>4, <3>2 DEF x, y
  <2>5. CASE i \notin active
    <3>1. F[i] = <<x>>
      BY <2>2, <2>5
    <3>2. F[i] \in Seq(Vals) /\ Len(F[i]) = 1 /\ F[i][1] = x
      BY ONLY <2>3, <3>1, Zenon
    <3>. QED BY <2>5, <3>2 DEF x
  <2>. QED BY <2>4, <2>5
<1>. HIDE DEF F
<1>2. Pieces(Vals, n, F)
  BY <1>1 DEF Pieces
<1>3. Longer(n, F, active, 1)
  BY <1>1 DEF Longer
<1>4. Fl(n, F) \in Seq(Vals)
  BY <1>2, FlType
<1>. QED BY <1>1, <1>2, <1>3, <1>4 DEF F

\* Their map, piece by piece.
LEMMA TwiceFacts ==
  ASSUME NEW n \in Nat, NEW active \in SUBSET (1 .. n)
  PROVE  /\ Pieces(1 .. n, n, Twice(n, active)) /\ Longer(n, Twice(n, active), active, 1)
         /\ \A i \in 1 .. n : Twice(n, active)[i][1] = i
<1>. DEFINE F == Twice(n, active)
<1>1. ASSUME NEW i \in 1 .. n
      PROVE  /\ F[i] \in Seq(1 .. n) /\ Len(F[i]) = (IF i \in active THEN 1 + 1 ELSE 1)
             /\ F[i][1] = i
  <2>2. F[i] = IF i \in active THEN <<i, i>> ELSE <<i>>
    BY DEF Twice
  <2>. HIDE DEF F
  <2>3. /\ <<i>> \in Seq(1 .. n) /\ Len(<<i>>) = 1 /\ <<i>>[1] = i
        /\ <<i, i>> \in Seq(1 .. n) /\ Len(<<i, i>>) = 2 /\ <<i, i>>[1] = i
    BY OneOrTwo
  <2>4. CASE i \in active
    <3>1. F[i] = <<i, i>>
      BY <2>2, <2>4
    <3>2. F[i] \in Seq(1 .. n) /\ Len(F[i]) = 2 /\ F[i][1] = i
      BY ONLY <2>3, <3>1, Zenon
    <3>. QED BY <2>4, <3>2
  <2>5. CASE i \notin active
    <3>1. F[i] = <<i>>
      BY <2>2, <2>5
    <3>2. F[i] \in Seq(1 .. n) /\ Len(F[i]) = 1 /\ F[i][1] = i
      BY ONLY <2>3, <3>1, Zenon
    <3>. QED BY <2>5, <3>2
  <2>. QED BY <2>4, <2>5
<1>. HIDE DEF F
<1>2. Pieces(1 .. n, n, F)
  BY <1>1 DEF Pieces
<1>3. Longer(n, F, active, 1)
  BY <1>1 DEF Longer
<1>. QED BY <1>1, <1>2, <1>3 DEF F

\* The same by the sequence of positions: H replaces an argument.
LEMMA OnlyThrough ==
  ASSUME NEW U, NEW n \in Nat, NEW S \in SUBSET (1 .. n), NEW H, Gives(H, 1 .. n, U),
         NEW F, \A i \in 1 .. n : F[i] = IF i \in S THEN H[i] ELSE <<>>
  PROVE  Through(H, Fl(n, Only(n, S))) = Fl(n, F)
<1>1. Pieces(1 .. n, n, Only(n, S))
  BY OnlyFacts, PiecesWider
<1>2. ASSUME NEW i \in 1 .. n PROVE F[i] = Through(H, Only(n, S)[i])
  <2>1. CASE i \in S
    <3>1. Only(n, S)[i] = <<i>>
      BY <2>1 DEF Only
    <3>2. Through(H, <<i>>) = H[i]
      BY ThroughOne
    <3>3. F[i] = H[i]
      BY <2>1
    <3>. QED BY ONLY <3>1, <3>2, <3>3, Zenon
  <2>2. CASE i \notin S
    <3>1. Only(n, S)[i] = <<>>
      BY <2>2 DEF Only
    <3>2. Through(H, <<>>) = <<>>
      BY ThroughNone
    <3>3. F[i] = <<>>
      BY <2>2
    <3>. QED BY ONLY <3>1, <3>2, <3>3, Zenon
  <2>. QED BY <2>1, <2>2
<1>. QED BY <1>1, <1>2, ThroughFl

\* H gives for each member of T one element, which h names.
Singly(T, U, h, H) == \A x \in T : h[x] \in U /\ H[x] = <<h[x]>>

\* Replacing every element by one other is applying h to each.
LEMMA SingleThrough ==
  ASSUME NEW T, NEW U, NEW s \in Seq(T), NEW h, NEW H, Gives(H, T, U), Singly(T, U, h, H)
  PROVE  Through(H, s) = [k \in 1 .. Len(s) |-> h[s[k]]]
<1>. DEFINE t == [k \in 1 .. Len(s) |-> h[s[k]]]
            F == Each(H, s)
            n == Len(s)
<1>1. n \in Nat /\ \A k \in 1 .. n : s[k] \in T
  OBVIOUS
<1>2. t \in [1 .. n -> U]
  BY <1>1 DEF Singly
<1>3. \A k \in 1 .. n : F[k] = <<t[k]>>
  BY <1>1 DEF Each, Singly
<1>4. Through(H, s) = Fl(n, F)
  BY DEF Through
<1>. HIDE DEF t, F, n
<1>5. Fl(n, F) = t
  BY <1>1, <1>2, <1>3, FlSingles
<1>. QED BY <1>4, <1>5 DEF t

-----------------------------------------------------------------------------

\* The operands a lowering keeps: K are the used arguments.
Used(K) == [v \in Vals |-> IF v.role = "cotangent" \/ v.of \in K THEN <<v>> ELSE <<>>]

KeptBeside(n, K, active) == [i \in 1 .. n |-> IF i \in K THEN Beside(n, active)[i] ELSE <<>>]

\* An operand is kept or dropped.
LEMMA UsedGives == ASSUME NEW K PROVE Gives(Used(K), Vals, Vals)
<1>1. ASSUME NEW v \in Vals
      PROVE (IF v.role = "cotangent" \/ v.of \in K THEN <<v>> ELSE <<>>) \in Seq(Vals)
  OBVIOUS
<1>. QED BY <1>1 DEF Used, Gives

\* Seeds are kept; an argument and its tangent when it is used.
LEMMA UsedOf ==
  ASSUME NEW K, NEW i \in Int
  PROVE  /\ Used(K)[Cotangent(i)] = <<Cotangent(i)>>
         /\ i \in K => Used(K)[In(i)] = <<In(i)>> /\ Used(K)[Tangent(i)] = <<Tangent(i)>>
         /\ i \notin K => Used(K)[In(i)] = <<>> /\ Used(K)[Tangent(i)] = <<>>
<1>1. /\ In(i) \in Vals /\ In(i).of = i /\ In(i).role # "cotangent"
      /\ Tangent(i) \in Vals /\ Tangent(i).of = i /\ Tangent(i).role # "cotangent"
      /\ Cotangent(i) \in Vals /\ Cotangent(i).role = "cotangent"
  BY ValFacts
<1>2. \A v \in Vals : Used(K)[v] = IF v.role = "cotangent" \/ v.of \in K THEN <<v>> ELSE <<>>
  BY DEF Used
<1>. QED BY <1>1, <1>2

\* The operands kept of interleaved arguments: the pieces of the used ones.
LEMMA UsedBeside ==
  ASSUME NEW n \in Nat, NEW K \in SUBSET (1 .. n), NEW active \in SUBSET (1 .. n)
  PROVE  Through(Used(K), Fl(n, Beside(n, active))) = Fl(n, KeptBeside(n, K, active))
<1>. DEFINE H == Used(K)
            P == Beside(n, active)
            Q == KeptBeside(n, K, active)
<1>1. ASSUME NEW i \in 1 .. n PROVE Q[i] = Through(H, P[i])
  <2>. DEFINE x == In(i)
              y == Tangent(i)
  <2>1. x \in Vals /\ y \in Vals
    BY ValFacts
  <2>2. P[i] = IF i \in active THEN <<x, y>> ELSE <<x>>
    BY DEF Beside
  <2>3. Q[i] = IF i \in K THEN P[i] ELSE <<>>
    BY DEF KeptBeside
  <2>4. /\ i \in K => H[x] = <<x>> /\ H[y] = <<y>>
        /\ i \notin K => H[x] = <<>> /\ H[y] = <<>>
    BY UsedOf
  <2>5. Gives(H, Vals, Vals)
    BY UsedGives
  <2>. HIDE DEF x, y, P, Q, H
  <2>6. Through(H, <<x>>) = H[x]
    BY <2>1, <2>5, ThroughOne
  <2>7. Through(H, <<x, y>>) = Cat(H[x], H[y])
    BY <2>1, <2>5, ThroughTwo
  <2>8. <<x, y>> = Cat(<<x>>, <<y>>)
    BY <2>1, CatSingles
  <2>9. Cat(<<>>, <<>>) = <<>>
    <3>1. <<>> \in Seq(Vals)
      OBVIOUS
    <3>. QED BY <3>1, CatNone
  <2>10. CASE i \in K
    <3>1. Q[i] = P[i] /\ H[x] = <<x>> /\ H[y] = <<y>>
      BY <2>3, <2>4, <2>10
    <3>2. CASE i \in active
      <4>1. P[i] = <<x, y>>
        BY <2>2, <3>2
      <4>. QED BY ONLY <3>1, <4>1, <2>7, <2>8, Zenon
    <3>3. CASE i \notin active
      <4>1. P[i] = <<x>>
        BY <2>2, <3>3
      <4>. QED BY ONLY <3>1, <4>1, <2>6, Zenon
    <3>. QED BY <3>2, <3>3
  <2>11. CASE i \notin K
    <3>1. Q[i] = <<>> /\ H[x] = <<>> /\ H[y] = <<>>
      BY <2>3, <2>4, <2>11
    <3>2. CASE i \in active
      <4>1. P[i] = <<x, y>>
        BY <2>2, <3>2
      <4>. QED BY ONLY <3>1, <4>1, <2>7, <2>9, Zenon
    <3>3. CASE i \notin active
      <4>1. P[i] = <<x>>
        BY <2>2, <3>3
      <4>. QED BY ONLY <3>1, <4>1, <2>6, Zenon
    <3>. QED BY <3>2, <3>3
  <2>. QED BY <2>10, <2>11
<1>2. Pieces(Vals, n, P) /\ Gives(H, Vals, Vals)
  BY BesideFacts, UsedGives
<1>. HIDE DEF P, Q, H
<1>3. Through(H, Fl(n, P)) = Fl(n, Q)
  BY <1>1, <1>2, ThroughFl
<1>. QED BY <1>3 DEF P, Q, H

\* The same operands by the sequence of used arguments.
LEMMA KeptThrough ==
  ASSUME NEW n \in Nat, NEW K \in SUBSET (1 .. n), NEW active \in SUBSET (1 .. n)
  PROVE  /\ Gives(Beside(n, active), 1 .. n, Vals)
         /\ Through(Beside(n, active), Fl(n, Only(n, K))) = Fl(n, KeptBeside(n, K, active))
<1>. DEFINE H == Beside(n, active)
            F == KeptBeside(n, K, active)
<1>1. Gives(H, 1 .. n, Vals)
  <2>1. \A i \in 1 .. n : H[i] \in Seq(Vals)
    BY BesideFacts DEF Pieces
  <2>2. H = [i \in 1 .. n |-> H[i]]
    BY DEF Beside
  <2>. HIDE DEF H
  <2>. QED BY <2>1, <2>2 DEF Gives
<1>2. \A i \in 1 .. n : F[i] = IF i \in K THEN H[i] ELSE <<>>
  BY DEF KeptBeside
<1>. HIDE DEF H, F
<1>3. Through(H, Fl(n, Only(n, K))) = Fl(n, F)
  BY <1>1, <1>2, OnlyThrough
<1>. QED BY <1>1, <1>3 DEF H, F

\* Arguments without tangents.
LEMMA InsBeside ==
  ASSUME NEW n \in Nat PROVE Fl(n, Beside(n, {})) = Ins(n) /\ Ins(n) \in Seq(Vals)
<1>1. Ins(n) \in [1 .. n -> Vals] /\ \A i \in 1 .. n : Ins(n)[i] = In(i)
  BY ValFacts DEF Ins
<1>2. \A i \in 1 .. n : Beside(n, {})[i] = <<Ins(n)[i]>>
  BY <1>1 DEF Beside
<1>. DEFINE F == Beside(n, {})
            s == Ins(n)
<1>3. s \in [1 .. n -> Vals] /\ \A i \in 1 .. n : F[i] = <<s[i]>>
  BY <1>1, <1>2
<1>. HIDE DEF F, s
<1>4. Fl(n, F) = s
  BY <1>3, FlSingles
<1>5. s \in Seq(Vals)
  BY <1>3
<1>. QED BY <1>4, <1>5 DEF F, s

\* Every seed is kept.
LEMMA SeedsKept ==
  ASSUME NEW m \in Nat, NEW live \in SUBSET (1 .. m), NEW K
  PROVE  /\ Pieces(Vals, m, SeedsOf(m, live)) /\ Fl(m, SeedsOf(m, live)) \in Seq(Vals)
         /\ Len(Fl(m, SeedsOf(m, live))) = Cardinality(live)
         /\ Through(Used(K), Fl(m, SeedsOf(m, live))) = Fl(m, SeedsOf(m, live))
<1>. DEFINE F == SeedsOf(m, live)
            H == Used(K)
            v == [j \in 1 .. m |-> Cotangent(j)]
<1>1. Picks(Vals, m, live, v, F)
  BY ValFacts DEF Picks, SeedsOf
<1>2. Gives(H, Vals, Vals)
  BY UsedGives
<1>3. ASSUME NEW j \in 1 .. m PROVE F[j] = Through(H, F[j])
  <2>. DEFINE x == Cotangent(j)
  <2>1. x \in Vals /\ H[x] = <<x>>
    <3>1. j \in Int
      OBVIOUS
    <3>2. x \in Vals
      BY <3>1, ValFacts
    <3>3. H[x] = <<x>>
      BY <3>1, UsedOf
    <3>. QED BY <3>2, <3>3
  <2>2. F[j] = IF j \in live THEN <<x>> ELSE <<>>
    BY DEF SeedsOf
  <2>. HIDE DEF x, F, H, v
  <2>3. Through(H, <<x>>) = H[x] /\ Through(H, <<>>) = <<>>
    BY <1>2, <2>1, ThroughOne, ThroughNone
  <2>. QED BY <2>1, <2>2, <2>3, Zenon
<1>. HIDE DEF F, H, v
<1>4. Pieces(Vals, m, F) /\ Fl(m, F) \in Seq(Vals) /\ Len(Fl(m, F)) = Cardinality(live)
  BY <1>1, FlRank
<1>5. Through(H, Fl(m, F)) = Fl(m, F)
  BY <1>2, <1>3, <1>4, ThroughFl
<1>. QED BY <1>4, <1>5 DEF F, H

\* The map of interleaved operands has the argument of each of them.
LEMMA TwiceIs ==
  ASSUME NEW n \in Nat, NEW active \in SUBSET (1 .. n)
  PROVE  Fl(n, Twice(n, active)) =
           [k \in 1 .. Len(Fl(n, Beside(n, active))) |-> Fl(n, Beside(n, active))[k].of]
<1>. DEFINE h == [v \in Vals |-> v.of]
            H == [v \in Vals |-> <<v.of>>]
            P == Beside(n, active)
            Q == Twice(n, active)
<1>1. \A v \in Vals : h[v] \in Int /\ H[v] = <<h[v]>> /\ h[v] = v.of
  BY DEF Vals
<1>2. Gives(H, Vals, Int)
  <2>1. \A v \in Vals : <<v.of>> \in Seq(Int)
    BY DEF Vals
  <2>. QED BY <2>1 DEF Gives
<1>3. ASSUME NEW i \in 1 .. n PROVE Q[i] = Through(H, P[i])
  <2>. DEFINE x == In(i)
              y == Tangent(i)
  <2>1. x \in Vals /\ y \in Vals /\ x.of = i /\ y.of = i
    BY ValFacts
  <2>2. H[x] = <<i>> /\ H[y] = <<i>>
    BY <2>1
  <2>3. P[i] = (IF i \in active THEN <<x, y>> ELSE <<x>>)
    BY DEF Beside
  <2>4. Q[i] = (IF i \in active THEN <<i, i>> ELSE <<i>>)
    BY DEF Twice
  <2>. HIDE DEF x, y, h, H, P, Q
  <2>5. Through(H, <<x>>) = H[x]
    BY <1>2, <2>1, ThroughOne
  <2>6. Through(H, <<x, y>>) = Cat(H[x], H[y])
    BY <1>2, <2>1, ThroughTwo
  <2>7. <<i, i>> = Cat(<<i>>, <<i>>)
    BY CatSingles
  <2>8. CASE i \in active
    <3>1. P[i] = <<x, y>> /\ Q[i] = <<i, i>>
      BY <2>3, <2>4, <2>8
    <3>. QED BY ONLY <2>2, <2>6, <2>7, <3>1, Zenon
  <2>9. CASE i \notin active
    <3>1. P[i] = <<x>> /\ Q[i] = <<i>>
      BY <2>3, <2>4, <2>9
    <3>. QED BY ONLY <2>2, <2>5, <3>1, Zenon
  <2>. QED BY <2>8, <2>9
<1>4. Pieces(Vals, n, P) /\ Fl(n, P) \in Seq(Vals)
  BY BesideFacts
<1>. DEFINE s == Fl(n, P)
<1>5. \A k \in 1 .. Len(s) : s[k] \in Vals
  BY <1>4
<1>. HIDE DEF h, H, P, Q
<1>6. Through(H, s) = Fl(n, Q)
  BY <1>2, <1>3, <1>4, ThroughFl
<1>. HIDE DEF s
<1>7. Through(H, s) = [k \in 1 .. Len(s) |-> h[s[k]]]
  <2>1. s \in Seq(Vals)
    BY <1>4 DEF s
  <2>2. Singly(Vals, Int, h, H)
    BY <1>1 DEF Singly
  <2>. QED BY ONLY <1>2, <2>1, <2>2, SingleThrough
<1>8. \A k \in 1 .. Len(s) : h[s[k]] = s[k].of
  BY <1>1, <1>5
<1>9. Fl(n, Q) = [k \in 1 .. Len(s) |-> s[k].of]
  BY <1>6, <1>7, <1>8
<1>. QED BY <1>9 DEF s, P, Q

-----------------------------------------------------------------------------
(* What the lowering computes *)

\* Whether operand k is kept can be read off the value it is.
UsedByValue ==
  /\ eqn.args \in Seq(Vals)
  /\ \A k \in 1 .. Len(eqn.args) :
       (k \notin DOMAIN eqn.inIdx \/ eqn.inIdx[k] \in kept)
       <=> (eqn.args[k].role = "cotangent" \/ eqn.args[k].of \in kept)

\* What the lowering passes is what is kept of every operand.
LEMMA UsedArgsIs == ASSUME UsedByValue PROVE UsedArgs = Through(Used(kept), eqn.args)
<1>. DEFINE n == Len(eqn.args)
            F == Each(Used(kept), eqn.args)
            G == [i \in 1 .. n |-> IF i \notin DOMAIN eqn.inIdx \/ eqn.inIdx[i] \in kept
                                   THEN <<eqn.args[i]>> ELSE <<>>]
<1>1. \A k \in 1 .. n : eqn.args[k] \in Vals
  BY DEF UsedByValue
<1>2. \A k \in 1 .. n : F[k] = G[k]
  <2>. SUFFICES ASSUME NEW k \in 1 .. n PROVE F[k] = G[k]
    OBVIOUS
  <2>1. F[k] = Used(kept)[eqn.args[k]]
    BY DEF Each
  <2>2. Used(kept)[eqn.args[k]]
          = IF eqn.args[k].role = "cotangent" \/ eqn.args[k].of \in kept THEN <<eqn.args[k]>> ELSE <<>>
    BY <1>1 DEF Used
  <2>. QED BY <2>1, <2>2 DEF UsedByValue
<1>3. F = [i \in 1 .. n |-> F[i]] /\ G = [i \in 1 .. n |-> G[i]]
  BY DEF Each
<1>4. UsedArgs = FlattenSeq(G)
  BY Zenon DEF UsedArgs, Gather
<1>5. Through(Used(kept), eqn.args) = Fl(n, F)
  BY DEF Through
<1>. HIDE DEF F, G, n
<1>6. F = G
  BY <1>2, <1>3
<1>7. FlattenSeq(G) = Fl(n, G)
  BY <1>3, FlOf
<1>. QED BY <1>4, <1>5, <1>6, <1>7

\* The used arguments in order.
LEMMA KeptSeqIs ==
  ASSUME IsFn
  PROVE  /\ KeptSeq = Fl(nArgs, Only(nArgs, kept)) /\ KeptSeq \in Seq(kept)
         /\ \A k \in 1 .. Len(KeptSeq) : KeptSeq[k] \in kept /\ KeptSeq[k] \in 1 .. nArgs
         /\ Len(KeptSeq) \in Nat
         /\ \A i \in kept : KeptSeq[Cardinality(Upto(kept, i))] = i
<1>1. nArgs \in Nat /\ kept \in SUBSET (1 .. nArgs)
  BY DEF IsFn
<1>2. KeptSeq = Fl(nArgs, Only(nArgs, kept)) /\ KeptSeq \in Seq(kept)
      /\ \A i \in kept : KeptSeq[Cardinality(Upto(kept, i))] = i
  BY <1>1, OnlyFacts DEF KeptSeq
<1>. HIDE DEF KeptSeq
<1>3. \A k \in 1 .. Len(KeptSeq) : KeptSeq[k] \in kept
  BY <1>2
<1>4. Len(KeptSeq) \in Nat
  BY <1>2
<1>. QED BY <1>1, <1>2, <1>3, <1>4

\* When every argument is used, the arguments left are the arguments.
LEMMA KeptSeqAll == ASSUME IsFn, kept = 1 .. nArgs PROVE KeptSeq = [i \in 1 .. nArgs |-> i]
<1>. DEFINE F == Only(nArgs, kept)
            s == [i \in 1 .. nArgs |-> i]
<1>1. nArgs \in Nat /\ s \in [1 .. nArgs -> 1 .. nArgs] /\ \A i \in 1 .. nArgs : F[i] = <<s[i]>>
  BY DEF IsFn, Only
<1>2. KeptSeq = Fl(nArgs, F)
  BY KeptSeqIs
<1>. HIDE DEF F, s
<1>3. Fl(nArgs, F) = s
  BY <1>1, FlSingles
<1>. QED BY <1>2, <1>3 DEF s

\* The parameters of the lowered function are the used arguments.
LEMMA ParamsAre ==
  ASSUME IsFn
  PROVE  /\ Params = Fl(nArgs, KeptBeside(nArgs, kept, {}))
         /\ Len(Params) = Len(KeptSeq) /\ Params \in Seq(Vals)
         /\ \A k \in 1 .. Len(KeptSeq) : Params[k] = In(KeptSeq[k]) /\ Params[k].of = KeptSeq[k]
<1>. DEFINE h == Ins(nArgs)
            H == Beside(nArgs, {})
            T == 1 .. nArgs
<1>1. nArgs \in Nat /\ kept \in SUBSET T /\ {} \in SUBSET T
  BY DEF IsFn
<1>2. Gives(H, T, Vals) /\ Through(H, Fl(nArgs, Only(nArgs, kept))) = Fl(nArgs, KeptBeside(nArgs, kept, {}))
  BY <1>1, KeptThrough
<1>3. \A x \in T : h[x] \in Vals /\ H[x] = <<h[x]>> /\ h[x] = In(x)
  BY ValFacts DEF Ins, Beside
<1>4. KeptSeq = Fl(nArgs, Only(nArgs, kept)) /\ KeptSeq \in Seq(T) /\ Len(KeptSeq) \in Nat
      /\ \A k \in 1 .. Len(KeptSeq) : KeptSeq[k] \in T
  <2>1. KeptSeq \in Seq(kept) /\ kept \subseteq T
    BY <1>1, KeptSeqIs
  <2>2. KeptSeq \in Seq(T)
    BY <2>1, SeqMonotonic
  <2>. QED BY <2>2, KeptSeqIs
<1>. HIDE DEF h, H, T, KeptSeq
<1>5. Through(H, KeptSeq) = [k \in 1 .. Len(KeptSeq) |-> h[KeptSeq[k]]]
  <2>1. Singly(T, Vals, h, H)
    BY <1>3 DEF Singly
  <2>. QED BY ONLY <1>2, <1>4, <2>1, SingleThrough
<1>6. Params = [k \in 1 .. Len(KeptSeq) |-> h[KeptSeq[k]]]
  BY <1>3, <1>4 DEF Params
<1>7. \A k \in 1 .. Len(KeptSeq) : Params[k] = In(KeptSeq[k]) /\ Params[k].of = KeptSeq[k]
  <2>1. \A i \in T : In(i).of = i
    BY ValFacts DEF T
  <2>. QED BY <1>4, <2>1 DEF Params
<1>8. Len(Params) = Len(KeptSeq) /\ Params \in Seq(Vals)
  BY <1>3, <1>4, <1>6
<1>. QED BY <1>2, <1>4, <1>5, <1>6, <1>7, <1>8

\* Some operand stands for every argument.
Covers == {eqn.inIdx[i] : i \in DOMAIN eqn.inIdx} = 1 .. nArgs

\* The activities of the arguments that are left are those of the used ones,
\* whether or not any argument was dropped.
LEMMA UsedWrapIs ==
  ASSUME IsFn, NEW T, NEW a \in [1 .. nArgs -> T], NEW md, NEW r,
         eqn.wrap = [mode |-> md, argTys |-> a, retTys |-> r], Covers
  PROVE  UsedWrap = [mode |-> md, argTys |-> [k \in 1 .. Len(KeptSeq) |-> a[KeptSeq[k]]],
                     retTys |-> r]
<1>. DEFINE H == [i \in 1 .. nArgs |-> <<a[i]>>]
            F == [i \in 1 .. nArgs |-> IF i \in kept THEN <<a[i]>> ELSE <<>>]
            t == [k \in 1 .. Len(KeptSeq) |-> a[KeptSeq[k]]]
<1>1. nArgs \in Nat /\ kept \in SUBSET (1 .. nArgs)
  BY DEF IsFn
<1>2. CASE kept = 1 .. nArgs
  <2>1. KeptSeq = [i \in 1 .. nArgs |-> i]
    BY <1>2, KeptSeqAll
  <2>2. t = a
    BY <1>1, <2>1
  <2>3. UsedWrap = eqn.wrap
    BY <1>2 DEF UsedWrap, Covers
  <2>. QED BY <2>2, <2>3
<1>3. CASE kept # 1 .. nArgs
  <2>1. Len(a) = nArgs
    BY <1>1
  <2>2. UsedWrap = [mode |-> md, argTys |-> FlattenSeq(F), retTys |-> r]
    <3>1. UsedWrap = [eqn.wrap EXCEPT !.argTys = FlattenSeq(F)]
      <4>1. eqn.wrap.argTys = a
        OBVIOUS
      <4>. QED BY <1>3, <2>1, <4>1 DEF UsedWrap, Gather, Covers
    <3>. QED BY <3>1
  <2>3. F = [i \in 1 .. nArgs |-> F[i]]
    OBVIOUS
  <2>4. Gives(H, 1 .. nArgs, T)
    BY DEF Gives
  <2>5. Singly(1 .. nArgs, T, a, H)
    BY DEF Singly
  <2>6. \A i \in 1 .. nArgs : F[i] = IF i \in kept THEN H[i] ELSE <<>>
    OBVIOUS
  <2>7. KeptSeq = Fl(nArgs, Only(nArgs, kept)) /\ KeptSeq \in Seq(1 .. nArgs)
    <3>1. KeptSeq \in Seq(kept) /\ kept \subseteq 1 .. nArgs
      BY <1>1, KeptSeqIs
    <3>. QED BY <3>1, SeqMonotonic, KeptSeqIs
  <2>. HIDE DEF F, H, KeptSeq
  <2>8. Fl(nArgs, F) = FlattenSeq(F)
    BY <2>3, FlOf
  <2>9. Through(H, Fl(nArgs, Only(nArgs, kept))) = Fl(nArgs, F)
    BY <1>1, <2>4, <2>6, OnlyThrough
  <2>10. Through(H, KeptSeq) = [k \in 1 .. Len(KeptSeq) |-> a[KeptSeq[k]]]
    <3>. DEFINE D == 1 .. nArgs
                h == a
    <3>1. KeptSeq \in Seq(D) /\ Gives(H, D, T) /\ Singly(D, T, h, H)
      BY <2>4, <2>5, <2>7
    <3>. HIDE DEF D, h
    <3>2. Through(H, KeptSeq) = [k \in 1 .. Len(KeptSeq) |-> h[KeptSeq[k]]]
      BY ONLY <3>1, SingleThrough
    <3>. QED BY <3>2 DEF h
  <2>. QED BY <2>2, <2>7, <2>8, <2>9, <2>10
<1>. QED BY <1>2, <1>3

\* A call that was not differentiated has no activities to drop.
LEMMA UsedWrapNone == ASSUME eqn.wrap = NoWrap PROVE UsedWrap.mode = "none"
<1>. DEFINE c == kept = {eqn.inIdx[i] : i \in DOMAIN eqn.inIdx}
            g == Gather(Len(eqn.wrap.argTys),
                        LAMBDA i : IF i \in kept THEN <<eqn.wrap.argTys[i]>> ELSE <<>>)
<1>1. UsedWrap = IF c THEN eqn.wrap ELSE [eqn.wrap EXCEPT !.argTys = g]
  BY Zenon DEF UsedWrap
<1>. HIDE DEF c, g
<1>2. [NoWrap EXCEPT !.argTys = g].mode = "none" /\ NoWrap.mode = "none"
  BY DEF NoWrap
<1>. QED BY <1>1, <1>2

\* When no result was dropped, each goes where it is.
LEMMA SpreadAll ==
  ASSUME NEW n \in Nat, DOMAIN eqn.outIdx = 1 .. n, UsedOuts = 1 .. n,
         NEW s, s = [j \in 1 .. n |-> s[j]]
  PROVE  SpreadResults(s) = s /\ Cardinality(UsedOuts) = n
<1>1. \A j \in 1 .. n : Cardinality({i \in UsedOuts : i <= j}) = j
  <2>. SUFFICES ASSUME NEW j \in 1 .. n PROVE Cardinality({i \in 1 .. n : i <= j}) = j
    OBVIOUS
  <2>1. Cardinality(Upto(1 .. n, j)) = j
    BY UptoAll
  <2>. QED BY <2>1 DEF Upto
<1>2. SpreadResults(s) = [j \in 1 .. n |-> s[j]]
  BY <1>1 DEF SpreadResults
<1>3. Cardinality(UsedOuts) = n
  <2>1. Cardinality(Upto(1 .. n, n)) = n
    BY UptoAll
  <2>2. Upto(1 .. n, n) = 1 .. n
    BY DEF Upto
  <2>. QED BY <2>1, <2>2
<1>. QED BY <1>2, <1>3

-----------------------------------------------------------------------------
(* Lowering the equations of the pipeline that is edited *)

\* The transformed function and the call of it fit, and every result comes out
\* where it belongs.
LowersRight ==
  /\ eqn.wrap # NoWrap => Len(UsedWrap.argTys) = Len(Params)
  /\ UsedArgs = Wrapped(UsedWrap).params
  /\ Len(Wrapped(UsedWrap).outs) = Cardinality(UsedOuts)
  /\ SpreadResults(Wrapped(UsedWrap).outs) = eqn.outs

\* No seed is among the interleaved operands.
LEMMA BesideHasNoSeed ==
  ASSUME NEW n \in Nat, NEW active \in SUBSET (1 .. n)
  PROVE  \A k \in 1 .. Len(Fl(n, Beside(n, active))) : Fl(n, Beside(n, active))[k].role # "cotangent"
<1>. DEFINE F == Beside(n, active)
            S == {v \in Vals : v.role # "cotangent"}
<1>1. Pieces(S, n, F)
  <2>. SUFFICES ASSUME NEW i \in 1 .. n PROVE F[i] \in Seq(S)
    BY DEF Pieces
  <2>1. In(i) \in S /\ Tangent(i) \in S
    BY ValFacts
  <2>2. /\ F[i] \in Seq(Vals) /\ Len(F[i]) = (IF i \in active THEN 2 ELSE 1)
        /\ F[i][1] = In(i) /\ (i \in active => F[i][2] = Tangent(i))
    BY BesideFacts DEF Pieces, Longer
  <2>. HIDE DEF F, S
  <2>3. \A k \in 1 .. Len(F[i]) : F[i][k] \in S
    <3>. SUFFICES ASSUME NEW k \in 1 .. Len(F[i]) PROVE F[i][k] \in S
      OBVIOUS
    <3>1. k = 1 \/ (i \in active /\ k = 2)
      BY <2>2
    <3>. QED BY <2>1, <2>2, <3>1
  <2>. QED BY <2>2, <2>3
<1>. HIDE DEF F
<1>2. Fl(n, F) \in Seq(S)
  BY <1>1, FlType
<1>3. \A k \in 1 .. Len(Fl(n, F)) : Fl(n, F)[k] \in S
  BY <1>2
<1>. QED BY <1>3 DEF S, F

\* A call of which nothing was differentiated.
LEMMA LowerFresh ==
  ASSUME IsFn, eqn = FreshEqn(nArgs, nOuts) PROVE LowersRight
<1>. DEFINE n == nArgs
            m == nOuts
<1>1. n \in Nat /\ m \in Nat /\ kept \in SUBSET (1 .. n) /\ {} \in SUBSET (1 .. n)
  BY DEF IsFn
<1>2. /\ eqn.args = Ins(n) /\ eqn.inIdx = [i \in 1 .. n |-> i]
      /\ eqn.outIdx = [j \in 1 .. m |-> 0] /\ eqn.wrap = NoWrap /\ eqn.outs = Results(m)
  BY DEF FreshEqn
<1>3. Fl(n, Beside(n, {})) = Ins(n) /\ Ins(n) \in Seq(Vals)
  BY <1>1, InsBeside
<1>4. UsedArgs = Params
  <2>1. UsedByValue
    <3>1. Len(Ins(n)) = n
      BY <1>1 DEF Ins
    <3>2. \A k \in 1 .. n : Ins(n)[k].of = k /\ Ins(n)[k].role = "in"
      BY ValFacts DEF Ins
    <3>. QED BY <1>2, <1>3, <3>1, <3>2 DEF UsedByValue
  <2>2. UsedArgs = Through(Used(kept), Fl(n, Beside(n, {})))
    BY <1>2, <1>3, <2>1, UsedArgsIs
  <2>3. Through(Used(kept), Fl(n, Beside(n, {}))) = Fl(n, KeptBeside(n, kept, {}))
    BY <1>1, UsedBeside
  <2>4. Params = Fl(n, KeptBeside(n, kept, {}))
    BY ParamsAre
  <2>. QED BY <2>2, <2>3, <2>4
<1>5. Wrapped(UsedWrap).params = Params /\ Wrapped(UsedWrap).outs = Outs
  <2>1. UsedWrap.mode = "none"
    BY <1>2, UsedWrapNone
  <2>2. Wrapped(UsedWrap) = [params |-> Params, outs |-> Outs]
    BY <2>1, Zenon DEF Wrapped
  <2>. QED BY <2>2
<1>6. Outs = Results(m) /\ Len(Outs) = m /\ Outs = [j \in 1 .. m |-> Outs[j]]
  BY <1>1 DEF Outs, Results
<1>7. DOMAIN eqn.outIdx = 1 .. m /\ UsedOuts = 1 .. m
  BY <1>2 DEF UsedOuts
<1>. HIDE DEF n, m
<1>8. SpreadResults(Outs) = Outs /\ Cardinality(UsedOuts) = m
  BY <1>1, <1>6, <1>7, SpreadAll
<1>. QED BY <1>2, <1>4, <1>5, <1>6, <1>8 DEF LowersRight

\* Of a sequence with tangents, the values and the tangents are each second element.
LEMMA TangentsBeside ==
  ASSUME NEW s \in Seq(Vals)
  PROVE  /\ WithTangents(s) \in Seq(Vals) /\ Len(WithTangents(s)) = 2 * Len(s)
         /\ \A j \in 1 .. Len(s) : /\ WithTangents(s)[2 * j - 1] = s[j]
                                   /\ WithTangents(s)[2 * j] = TangentOf(s[j])
         /\ Firsts(WithTangents(s)) = s
         /\ Seconds(WithTangents(s)) = [j \in 1 .. Len(s) |-> TangentOf(s[j])]
<1>. DEFINE n == Len(s)
            F == [j \in 1 .. n |-> <<s[j], TangentOf(s[j])>>]
            t == WithTangents(s)
<1>1. n \in Nat /\ \A j \in 1 .. n : s[j] \in Vals /\ TangentOf(s[j]) \in Vals
  <2>1. \A v \in Vals : TangentOf(v) \in Vals
    BY DEF Vals, TangentOf
  <2>. QED BY <2>1
<1>2. ASSUME NEW j \in 1 .. n
      PROVE  /\ F[j] \in Seq(Vals) /\ Len(F[j]) = 2 /\ F[j][1] = s[j] /\ F[j][2] = TangentOf(s[j])
  <2>. DEFINE x == s[j]
              y == TangentOf(s[j])
  <2>1. F[j] = <<x, y>> /\ x \in Vals /\ y \in Vals
    BY <1>1
  <2>. HIDE DEF x, y, F
  <2>2. <<x, y>> \in Seq(Vals) /\ Len(<<x, y>>) = 2 /\ <<x, y>>[1] = x /\ <<x, y>>[2] = y
    BY <2>1, OneOrTwo
  <2>3. F[j] \in Seq(Vals) /\ Len(F[j]) = 2 /\ F[j][1] = x /\ F[j][2] = y
    BY ONLY <2>1, <2>2, Zenon
  <2>. QED BY <2>3 DEF x, y
<1>3. t = FlattenSeq(F) /\ F = [j \in 1 .. n |-> F[j]]
  BY Zenon DEF WithTangents, Gather
<1>. HIDE DEF F
<1>4. Pieces(Vals, n, F)
  BY <1>2 DEF Pieces
<1>5. t = Fl(n, F)
  BY <1>3, FlOf
<1>6. /\ Fl(n, F) \in Seq(Vals) /\ Len(Fl(n, F)) = 2 * n
      /\ \A i \in 1 .. n : Fl(n, F)[2 * i - 1] = F[i][1] /\ Fl(n, F)[2 * i] = F[i][2]
  BY <1>1, <1>2, <1>4, FlPairs
<1>. HIDE DEF t, n
<1>7. /\ t \in Seq(Vals) /\ Len(t) = 2 * n
      /\ \A j \in 1 .. n : t[2 * j - 1] = s[j] /\ t[2 * j] = TangentOf(s[j])
  BY <1>2, <1>5, <1>6
<1>8. Len(t) \div 2 = n
  BY <1>1, <1>7
<1>9. s = [j \in 1 .. n |-> s[j]]
  BY DEF n
<1>10. Firsts(t) = s /\ Seconds(t) = [j \in 1 .. n |-> TangentOf(s[j])]
  BY <1>7, <1>8, <1>9 DEF Firsts, Seconds
<1>. QED BY <1>7, <1>10 DEF t, n

\* The results and their tangents.
LEMMA ResultsAre ==
  ASSUME NEW m \in Nat
  PROVE  /\ Results(m) \in Seq(Vals) /\ Len(Results(m)) = m
         /\ ResultTangents(m) = [j \in 1 .. m |-> TangentOf(Results(m)[j])]
<1>1. \A j \in 1 .. m : Out(j) \in Vals /\ TangentOf(Out(j)) = OutTangent(j)
  BY ValFacts
<1>. QED BY <1>1 DEF Results, ResultTangents

\* A first level of forward differentiation.
LEMMA LowerForward ==
  ASSUME IsFn, NEW active \in SUBSET (1 .. nArgs), eqn = ForwardEqn(nArgs, nOuts, active)
  PROVE  LowersRight
<1>. DEFINE n == nArgs
            m == nOuts
            F == Beside(n, active)
            acts == [k \in 1 .. Len(KeptSeq) |-> Acts(n, active)[KeptSeq[k]]]
            w == [mode |-> "ForwardMode", argTys |-> acts, retTys |-> [j \in 1 .. m |-> "dup"]]
            G == [k \in 1 .. Len(Params) |-> IF acts[k] = "dup" THEN <<Params[k], Tangent(Params[k].of)>>
                                             ELSE <<Params[k]>>]
<1>1. n \in Nat /\ m \in Nat /\ kept \in SUBSET (1 .. n)
  BY DEF IsFn
<1>2. /\ eqn.args = Fl(n, F) /\ eqn.inIdx = Fl(n, Twice(n, active))
      /\ eqn.outIdx = [j \in 1 .. 2 * m |-> 0] /\ eqn.wrap = ForwardWrap(n, m, active)
      /\ eqn.outs = WithTangents(Results(m))
  BY DEF ForwardEqn
<1>3. Fl(n, F) \in Seq(Vals) /\ Pieces(Vals, n, F)
  BY <1>1, BesideFacts
<1>4. UsedByValue
  <2>1. eqn.inIdx = [k \in 1 .. Len(eqn.args) |-> eqn.args[k].of]
    BY <1>1, <1>2, TwiceIs
  <2>2. \A k \in 1 .. Len(eqn.args) : eqn.args[k].role # "cotangent"
    BY <1>1, <1>2, BesideHasNoSeed
  <2>3. eqn.args \in Seq(Vals)
    BY <1>2, <1>3
  <2>. QED BY <2>1, <2>2, <2>3 DEF UsedByValue
<1>5. UsedArgs = Fl(n, KeptBeside(n, kept, active))
  <2>1. UsedArgs = Through(Used(kept), Fl(n, F))
    BY <1>2, <1>4, UsedArgsIs
  <2>. QED BY <1>1, <2>1, UsedBeside
<1>6. UsedWrap = w
  <2>. DEFINE a == Acts(n, active)
              r == [j \in 1 .. m |-> "dup"]
  <2>1. a \in [1 .. n -> {"dup", "const"}]
    BY DEF Acts
  <2>2. Covers
    <3>. DEFINE D == Twice(n, active)
    <3>1. Pieces(1 .. n, n, D) /\ Longer(n, D, active, 1) /\ \A i \in 1 .. n : D[i][1] = i
      BY <1>1, TwiceFacts
    <3>2. Fl(n, D) \in Seq(1 .. n)
      BY <1>1, <3>1, FlType
    <3>3. \A i \in 1 .. n : /\ Place(Acts(n, active), i) \in 1 .. Len(Fl(n, D))
                            /\ Fl(n, D)[Place(Acts(n, active), i)] = i
      BY <1>1, <3>1, PlaceIs
    <3>. DEFINE s == Fl(n, D)
    <3>. HIDE DEF D, s
    <3>4. DOMAIN s = 1 .. Len(s) /\ \A k \in 1 .. Len(s) : s[k] \in 1 .. n
      <4>1. s \in Seq(1 .. n)
        BY <3>2 DEF s
      <4>2. DOMAIN s = 1 .. Len(s) /\ s \in [1 .. Len(s) -> 1 .. n]
        BY <4>1, LenProperties
      <4>. QED BY <4>2
    <3>5. {s[i] : i \in DOMAIN s} = 1 .. n
      BY <3>3, <3>4 DEF s
    <3>. QED BY <1>2, <3>5 DEF D, s, Covers
  <2>3. eqn.wrap = [mode |-> "ForwardMode", argTys |-> a, retTys |-> r]
    BY <1>2 DEF ForwardWrap
  <2>. HIDE DEF F, G, w, acts, a, r
  <2>4. UsedWrap = [mode |-> "ForwardMode", argTys |-> [k \in 1 .. Len(KeptSeq) |-> a[KeptSeq[k]]],
                    retTys |-> r]
    BY <2>1, <2>2, <2>3, UsedWrapIs
  <2>. QED BY <2>4, Zenon DEF w, acts, a, r
<1>7. Wrapped(w) = [params |-> FlattenSeq(G), outs |-> WithTangents(Outs)]
  BY Zenon DEF Wrapped, Gather
<1>8. FlattenSeq(G) = Fl(n, KeptBeside(n, kept, active))
  <2>1. /\ Len(Params) = Len(KeptSeq)
        /\ \A k \in 1 .. Len(KeptSeq) : Params[k] = In(KeptSeq[k]) /\ Params[k].of = KeptSeq[k]
    BY ParamsAre
  <2>2. /\ KeptSeq = Fl(n, Only(n, kept)) /\ \A k \in 1 .. Len(KeptSeq) : KeptSeq[k] \in 1 .. n
    BY KeptSeqIs
  <2>3. \A k \in 1 .. Len(KeptSeq) : G[k] = F[KeptSeq[k]]
    BY <2>1, <2>2 DEF Acts, Beside
  <2>4. G = Each(F, KeptSeq)
    BY <2>1, <2>3 DEF Each
  <2>5. G = [k \in 1 .. Len(KeptSeq) |-> G[k]]
    BY <2>1
  <2>6. Through(F, Fl(n, Only(n, kept))) = Fl(n, KeptBeside(n, kept, active))
    BY <1>1, KeptThrough
  <2>. HIDE DEF F, G, KeptSeq, acts
  <2>7. FlattenSeq(G) = Fl(Len(KeptSeq), Each(F, KeptSeq))
    BY <2>4, <2>5, FlOf
  <2>. QED BY <2>2, <2>6, <2>7 DEF Through
<1>9. Outs = Results(m)
  BY DEF Outs, Results
<1>10. /\ WithTangents(Results(m)) = [j \in 1 .. 2 * m |-> WithTangents(Results(m))[j]]
       /\ Len(WithTangents(Results(m))) = 2 * m
  <2>1. Results(m) \in Seq(Vals) /\ Len(Results(m)) = m
    BY <1>1, ResultsAre
  <2>2. WithTangents(Results(m)) \in Seq(Vals) /\ Len(WithTangents(Results(m))) = 2 * m
    BY <2>1, TangentsBeside
  <2>. QED BY <2>2
<1>11. DOMAIN eqn.outIdx = 1 .. 2 * m /\ UsedOuts = 1 .. 2 * m /\ 2 * m \in Nat
  BY <1>1, <1>2 DEF UsedOuts
<1>12. Len(UsedWrap.argTys) = Len(Params)
  <2>1. Len(acts) = Len(KeptSeq)
    BY KeptSeqIs
  <2>. QED BY <1>6, <2>1, ParamsAre
<1>. HIDE DEF n, m, F, acts, w, G
<1>13. SpreadResults(eqn.outs) = eqn.outs /\ Cardinality(UsedOuts) = 2 * m
  BY <1>2, <1>10, <1>11, SpreadAll
<1>14. Wrapped(UsedWrap).params = UsedArgs /\ Wrapped(UsedWrap).outs = eqn.outs
  BY <1>2, <1>5, <1>6, <1>7, <1>8, <1>9
<1>. QED BY <1>2, <1>10, <1>12, <1>13, <1>14 DEF LowersRight

\* Nothing but seeds is among the seeds.
LEMMA SeedsAreSeeds ==
  ASSUME NEW m \in Nat, NEW live \in SUBSET (1 .. m)
  PROVE  \A k \in 1 .. Len(Fl(m, SeedsOf(m, live))) : Fl(m, SeedsOf(m, live))[k].role = "cotangent"
<1>. DEFINE F == SeedsOf(m, live)
            v == [j \in 1 .. m |-> Cotangent(j)]
            S == {x \in Vals : x.role = "cotangent"}
<1>1. Picks(S, m, live, v, F)
  BY ValFacts DEF Picks, SeedsOf
<1>. HIDE DEF F, v
<1>2. Fl(m, F) \in Seq(S)
  BY <1>1, FlRank
<1>3. \A k \in 1 .. Len(Fl(m, F)) : Fl(m, F)[k] \in S
  BY <1>2
<1>. QED BY <1>3 DEF S, F

\* The gradients of the arguments that are active, among the used ones.
LEMMA GradientsAre ==
  ASSUME NEW n \in Nat, NEW K \in SUBSET (1 .. n), NEW active \in SUBSET K, NEW H,
         H = [i \in 1 .. n |-> IF i \in active THEN <<Grad(i)>> ELSE <<>>]
  PROVE  /\ Gives(H, 1 .. n, Vals)
         /\ Through(H, Fl(n, Only(n, K)))
              = [k \in 1 .. Len(Fl(n, Only(n, active))) |-> Grad(Fl(n, Only(n, active))[k])]
<1>. DEFINE h == [i \in 1 .. n |-> Grad(i)]
            G == [i \in 1 .. n |-> <<Grad(i)>>]
            D == 1 .. n
            s == Fl(n, Only(n, active))
<1>1. \A i \in D : Grad(i) \in Vals
  BY ValFacts
<1>2. Gives(H, D, Vals)
  <2>1. \A i \in D : (IF i \in active THEN <<Grad(i)>> ELSE <<>>) \in Seq(Vals)
    BY <1>1
  <2>. QED BY <2>1 DEF Gives
<1>3. Gives(G, D, Vals) /\ Singly(D, Vals, h, G)
  BY <1>1 DEF Gives, Singly
<1>4. \A i \in D : H[i] = IF i \in K THEN H[i] ELSE <<>>
  OBVIOUS
<1>5. \A i \in D : H[i] = IF i \in active THEN G[i] ELSE <<>>
  OBVIOUS
<1>6. active \in SUBSET D /\ K \in SUBSET D
  OBVIOUS
<1>7. s \in Seq(D) /\ \A k \in 1 .. Len(s) : s[k] \in D
  <2>1. s \in Seq(active)
    BY <1>6, OnlyFacts
  <2>. HIDE DEF s
  <2>2. s \in Seq(D)
    BY <1>6, <2>1, SeqMonotonic
  <2>. QED BY <2>2
<1>8. \A i \in D : h[i] = Grad(i)
  OBVIOUS
<1>9. Through(H, Fl(n, Only(n, K))) = Fl(n, H)
  BY <1>2, <1>4, <1>6, OnlyThrough
<1>10. Through(G, s) = Fl(n, H)
  BY <1>3, <1>5, <1>6, OnlyThrough
<1>. HIDE DEF h, G, D, s
<1>11. Through(G, s) = [k \in 1 .. Len(s) |-> h[s[k]]]
  BY ONLY <1>3, <1>7, SingleThrough
<1>12. Through(G, s) = [k \in 1 .. Len(s) |-> Grad(s[k])]
  BY <1>7, <1>8, <1>11
<1>. QED BY <1>2, <1>9, <1>10, <1>12 DEF D, s

\* Reverse differentiation.
LEMMA LowerReverse ==
  ASSUME IsFn, NEW active \in SUBSET kept, NEW live \in SUBSET (1 .. nOuts),
         eqn = ReverseEqn(nArgs, nOuts, active, live)
  PROVE  LowersRight
<1>. DEFINE n == nArgs
            m == nOuts
            B == Fl(m, SeedsOf(m, live))
            dups == Fl(n, Only(n, active))
            a == [i \in 1 .. n |-> IF i \in active THEN "active" ELSE "const"]
            r == [j \in 1 .. m |-> IF j \in live THEN "active" ELSE "const"]
            acts == [k \in 1 .. Len(KeptSeq) |-> a[KeptSeq[k]]]
            w == [mode |-> "ReverseModeCombined", argTys |-> acts, retTys |-> r]
            H == [i \in 1 .. n |-> IF i \in active THEN <<Grad(i)>> ELSE <<>>]
            G == [k \in 1 .. Len(Params) |-> IF acts[k] = "active" THEN <<Grad(Params[k].of)>> ELSE <<>>]
            S == [j \in 1 .. m |-> IF r[j] = "active" THEN <<Cotangent(j)>> ELSE <<>>]
<1>1. n \in Nat /\ m \in Nat /\ kept \in SUBSET (1 .. n) /\ active \in SUBSET (1 .. n) /\ {} \in SUBSET (1 .. n)
  BY DEF IsFn
<1>2. /\ eqn.args = Cat(Ins(n), B) /\ eqn.inIdx = [i \in 1 .. n |-> i]
      /\ eqn.outIdx = dups /\ eqn.wrap = ReverseWrap(n, m, active, live)
      /\ eqn.outs = [k \in 1 .. Len(dups) |-> Grad(dups[k])]
  BY DEF ReverseEqn, Cat
<1>3. /\ Fl(n, Beside(n, {})) = Ins(n) /\ Ins(n) \in Seq(Vals) /\ B \in Seq(Vals)
      /\ Len(Ins(n)) = n
  <2>1. Fl(n, Beside(n, {})) = Ins(n) /\ Ins(n) \in Seq(Vals)
    BY <1>1, InsBeside
  <2>2. B \in Seq(Vals)
    BY <1>1, SeedsKept
  <2>3. Len(Ins(n)) = n
    BY <1>1 DEF Ins
  <2>. QED BY <2>1, <2>2, <2>3
<1>4. UsedByValue
  <2>1. \A k \in 1 .. Len(B) : B[k].role = "cotangent"
    BY <1>1, SeedsAreSeeds
  <2>2. \A k \in 1 .. n : Ins(n)[k].of = k /\ Ins(n)[k].role = "in"
    BY ValFacts DEF Ins
  <2>. HIDE DEF B, n
  <2>3. /\ Cat(Ins(n), B) \in Seq(Vals) /\ Len(B) \in Nat /\ Len(Cat(Ins(n), B)) = n + Len(B)
        /\ \A i \in 1 .. n : Cat(Ins(n), B)[i] = Ins(n)[i]
        /\ \A i \in 1 .. Len(B) : Cat(Ins(n), B)[n + i] = B[i]
    <3>. DEFINE A == Ins(n)
    <3>1. A \in Seq(Vals) /\ B \in Seq(Vals) /\ Len(A) = n
      BY <1>3
    <3>. HIDE DEF A
    <3>2. /\ Cat(A, B) \in Seq(Vals) /\ Len(B) \in Nat /\ Len(Cat(A, B)) = Len(A) + Len(B)
          /\ \A i \in 1 .. Len(A) : Cat(A, B)[i] = A[i]
          /\ \A i \in 1 .. Len(B) : Cat(A, B)[Len(A) + i] = B[i]
      <4>1. A \in Seq(Vals) /\ B \in Seq(Vals)
        BY <3>1
      <4>. QED BY ONLY <4>1, CatFacts
    <3>3. Len(A) = n
      BY <3>1
    <3>. QED BY ONLY <3>2, <3>3, Zenon DEF A
  <2>4. ASSUME NEW k \in 1 .. Len(eqn.args)
        PROVE  (k \notin DOMAIN eqn.inIdx \/ eqn.inIdx[k] \in kept)
               <=> (eqn.args[k].role = "cotangent" \/ eqn.args[k].of \in kept)
    <3>1. CASE k \in 1 .. n
      <4>1. eqn.inIdx[k] = k /\ k \in DOMAIN eqn.inIdx
        BY <1>2, <3>1
      <4>2. eqn.args[k].of = k /\ eqn.args[k].role = "in"
        BY <1>2, <2>2, <2>3, <3>1
      <4>. QED BY <4>1, <4>2
    <3>2. CASE k \notin 1 .. n
      <4>1. k - n \in 1 .. Len(B) /\ k = n + (k - n)
        BY <1>1, <1>2, <2>3, <3>2
      <4>2. eqn.args[k] = B[k - n]
        BY <1>2, <2>3, <4>1
      <4>3. k \notin DOMAIN eqn.inIdx
        BY <1>2, <3>2
      <4>. QED BY <2>1, <4>1, <4>2, <4>3
    <3>. QED BY <3>1, <3>2
  <2>. QED BY <1>2, <2>3, <2>4 DEF UsedByValue
<1>5. UsedArgs = Cat(Params, B)
  <2>1. Through(Used(kept), B) = B
    BY <1>1, SeedsKept
  <2>2. Through(Used(kept), Ins(n)) = Params
    BY <1>1, <1>3, UsedBeside, ParamsAre
  <2>3. Gives(Used(kept), Vals, Vals)
    BY UsedGives
  <2>. HIDE DEF B, n
  <2>4. Through(Used(kept), Cat(Ins(n), B)) = Cat(Through(Used(kept), Ins(n)), Through(Used(kept), B))
    BY <1>3, <2>3, ThroughCat
  <2>. QED BY <1>2, <1>4, <2>1, <2>2, <2>4, UsedArgsIs
<1>6. UsedWrap = w
  <2>1. a \in [1 .. n -> {"active", "const"}]
    OBVIOUS
  <2>2. Covers
    <3>1. DOMAIN eqn.inIdx = 1 .. n /\ \A i \in 1 .. n : eqn.inIdx[i] = i
      BY <1>2
    <3>. QED BY <3>1 DEF Covers
  <2>3. eqn.wrap = [mode |-> "ReverseModeCombined", argTys |-> a, retTys |-> r]
    BY <1>2 DEF ReverseWrap
  <2>. HIDE DEF B, G, w, acts, a, r
  <2>4. UsedWrap = [mode |-> "ReverseModeCombined", argTys |-> [k \in 1 .. Len(KeptSeq) |-> a[KeptSeq[k]]],
                    retTys |-> r]
    BY <2>1, <2>2, <2>3, UsedWrapIs
  <2>. QED BY <2>4, Zenon DEF w, acts, a, r
<1>7. Wrapped(w) = [params |-> Params \o FlattenSeq(S), outs |-> FlattenSeq(G)]
  BY Zenon DEF Wrapped, Gather
<1>8. Params \o FlattenSeq(S) = Cat(Params, B)
  <2>1. S = SeedsOf(m, live)
    BY DEF SeedsOf
  <2>2. S = [j \in 1 .. m |-> S[j]]
    OBVIOUS
  <2>. HIDE DEF S
  <2>3. FlattenSeq(S) = Fl(m, S)
    BY <2>2, FlOf
  <2>. QED BY <2>1, <2>3 DEF Cat
<1>9. FlattenSeq(G) = eqn.outs
  <2>1. /\ Len(Params) = Len(KeptSeq)
        /\ \A k \in 1 .. Len(KeptSeq) : Params[k] = In(KeptSeq[k]) /\ Params[k].of = KeptSeq[k]
    BY ParamsAre
  <2>2. /\ KeptSeq = Fl(n, Only(n, kept)) /\ \A k \in 1 .. Len(KeptSeq) : KeptSeq[k] \in 1 .. n
    BY KeptSeqIs
  <2>3. \A k \in 1 .. Len(KeptSeq) : G[k] = H[KeptSeq[k]]
    BY <2>1, <2>2
  <2>4. G = Each(H, KeptSeq)
    BY <2>1, <2>3 DEF Each
  <2>5. G = [k \in 1 .. Len(KeptSeq) |-> G[k]]
    BY <2>1
  <2>6. Through(H, Fl(n, Only(n, kept))) = [k \in 1 .. Len(dups) |-> Grad(dups[k])]
    <3>1. H = [i \in 1 .. n |-> IF i \in active THEN <<Grad(i)>> ELSE <<>>]
      OBVIOUS
    <3>2. n \in Nat /\ kept \in SUBSET (1 .. n) /\ active \in SUBSET kept
      BY <1>1
    <3>. HIDE DEF H, n
    <3>. QED BY ONLY <3>1, <3>2, GradientsAre DEF dups
  <2>. HIDE DEF H, G, KeptSeq, acts
  <2>7. FlattenSeq(G) = Fl(Len(KeptSeq), Each(H, KeptSeq))
    BY <2>4, <2>5, FlOf
  <2>. QED BY <1>2, <2>2, <2>6, <2>7 DEF Through
<1>10. /\ Len(dups) \in Nat /\ DOMAIN eqn.outIdx = 1 .. Len(dups) /\ UsedOuts = 1 .. Len(dups)
       /\ Len(eqn.outs) = Len(dups) /\ eqn.outs = [k \in 1 .. Len(dups) |-> eqn.outs[k]]
  <2>1. dups \in Seq(active)
    BY <1>1, OnlyFacts
  <2>. HIDE DEF dups
  <2>2. DOMAIN dups = 1 .. Len(dups) /\ Len(dups) \in Nat /\ \A k \in 1 .. Len(dups) : dups[k] \in active
    BY <2>1, LenProperties
  <2>3. \A k \in 1 .. Len(dups) : dups[k] \in kept
    BY <2>2
  <2>4. UsedOuts = 1 .. Len(dups)
    BY <1>2, <2>2, <2>3 DEF UsedOuts
  <2>. QED BY <1>2, <2>2, <2>4
<1>11. Len(UsedWrap.argTys) = Len(Params)
  <2>1. Len(acts) = Len(KeptSeq)
    BY KeptSeqIs
  <2>. QED BY <1>6, <2>1, ParamsAre
<1>. HIDE DEF n, m, B, dups, acts, w, G, S
<1>12. SpreadResults(eqn.outs) = eqn.outs /\ Cardinality(UsedOuts) = Len(dups)
  BY <1>10, SpreadAll
<1>13. Wrapped(UsedWrap).params = UsedArgs /\ Wrapped(UsedWrap).outs = eqn.outs
  BY <1>5, <1>6, <1>7, <1>8, <1>9
<1>. QED BY <1>10, <1>11, <1>12, <1>13 DEF LowersRight

-----------------------------------------------------------------------------
(* Lowering the primitives of the other pipelines *)

\* An argument and its tangent each, one after the other.
LEMMA PairsAre ==
  ASSUME NEW n \in Nat
  PROVE  /\ WithTangents(Ins(n)) = Fl(n, Beside(n, 1 .. n))
         /\ Fl(n, Beside(n, 1 .. n)) \in Seq(Vals) /\ Len(Fl(n, Beside(n, 1 .. n))) = 2 * n
         /\ \A k \in 1 .. 2 * n : Fl(n, Beside(n, 1 .. n))[k].of = (k + 1) \div 2
<1>. DEFINE s == Ins(n)
            G == [j \in 1 .. Len(s) |-> <<s[j], TangentOf(s[j])>>]
            F == Beside(n, 1 .. n)
<1>1. Len(s) = n /\ s \in Seq(Vals)
  <2>1. s \in [1 .. n -> Vals]
    BY ValFacts DEF Ins
  <2>. QED BY <2>1
<1>2. \A i \in 1 .. n : G[i] = F[i]
  BY <1>1, ValFacts DEF Ins, Beside
<1>3. WithTangents(s) = FlattenSeq(G)
  BY Zenon DEF WithTangents, Gather
<1>4. G = [i \in 1 .. n |-> G[i]]
  BY <1>1
<1>. HIDE DEF s, G, F
<1>5. WithTangents(s) = Fl(n, G)
  BY <1>3, <1>4, FlOf
<1>6. Fl(n, G) = Fl(n, F)
  BY <1>2, FlSame
<1>7. /\ Fl(n, F) \in Seq(Vals) /\ Len(Fl(n, F)) = 2 * n
      /\ \A i \in 1 .. n : Fl(n, F)[2 * i - 1] = F[i][1] /\ Fl(n, F)[2 * i] = F[i][2]
  <2>1. Pieces(Vals, n, F) /\ \A i \in 1 .. n : Len(F[i]) = 2
    <3>1. 1 .. n \in SUBSET (1 .. n)
      OBVIOUS
    <3>2. Pieces(Vals, n, F) /\ Longer(n, F, 1 .. n, 1)
      BY <3>1, BesideFacts DEF F
    <3>3. \A i \in 1 .. n : Len(F[i]) = 2
      BY <3>2 DEF Longer
    <3>. QED BY <3>2, <3>3
  <2>. QED BY <2>1, FlPairs
<1>8. \A i \in 1 .. n : F[i][1].of = i /\ F[i][2].of = i
  <2>1. \A i \in 1 .. n : F[i][1] = In(i) /\ F[i][2] = Tangent(i)
    BY BesideFacts DEF F
  <2>. QED BY <2>1, ValFacts
<1>9. ASSUME NEW k \in 1 .. 2 * n PROVE Fl(n, F)[k].of = (k + 1) \div 2
  <2>. DEFINE i == (k + 1) \div 2
  <2>1. i \in 1 .. n /\ (k = 2 * i - 1 \/ k = 2 * i)
    OBVIOUS
  <2>. HIDE DEF i
  <2>. QED BY <1>7, <1>8, <2>1 DEF i
<1>. QED BY <1>5, <1>6, <1>7, <1>9 DEF s, F

\* The pieces a lowering keeps by position are those kept by value.
LEMMA KeptByPosition ==
  ASSUME NEW n \in Nat, NEW s \in Seq(Vals), Len(s) = n, NEW F,
         \A k \in 1 .. n : F[k] = Used(kept)[s[k]], F = [k \in 1 .. n |-> F[k]]
  PROVE  FlattenSeq(F) = Through(Used(kept), s)
<1>1. FlattenSeq(F) = Fl(n, F)
  BY FlOf
<1>2. Fl(n, F) = Fl(n, Each(Used(kept), s))
  <2>1. \A k \in 1 .. n : F[k] = Each(Used(kept), s)[k]
    BY DEF Each
  <2>. QED BY <2>1, FlSame
<1>. QED BY <1>1, <1>2 DEF Through

\* The operands of fwd left by position are those with tangents of the used arguments.
LEMMA LowerFwdIs ==
  ASSUME IsFn, eqn = FwdEqn(nArgs, nOuts)
  PROVE  /\ Gather(Len(eqn.args), LAMBDA i : IF (i + 1) \div 2 \in kept THEN <<eqn.args[i]>> ELSE <<>>)
              = WithTangents(Params)
         /\ WithTangents(Outs) = eqn.outs
<1>. DEFINE n == nArgs
            H == Beside(n, 1 .. n)
            s == Fl(n, H)
            F == [i \in 1 .. Len(eqn.args) |-> IF (i + 1) \div 2 \in kept THEN <<eqn.args[i]>> ELSE <<>>]
            G == [k \in 1 .. Len(Params) |-> <<Params[k], TangentOf(Params[k])>>]
<1>1. n \in Nat /\ kept \in SUBSET (1 .. n) /\ 1 .. n \in SUBSET (1 .. n)
  BY DEF IsFn
<1>2. eqn.args = s /\ eqn.outs = WithTangents(Results(nOuts))
  BY DEF FwdEqn, FreshEqn
<1>3. s \in Seq(Vals) /\ Len(s) = 2 * n /\ \A k \in 1 .. 2 * n : s[k].of = (k + 1) \div 2
  BY <1>1, PairsAre
<1>4. FlattenSeq(F) = Fl(n, KeptBeside(n, kept, 1 .. n))
  <2>1. \A k \in 1 .. 2 * n : s[k] \in Vals /\ s[k].role # "cotangent"
    <3>1. \A k \in 1 .. Len(s) : s[k].role # "cotangent"
      BY <1>1, BesideHasNoSeed
    <3>. QED BY <1>3, <3>1
  <2>2. \A k \in 1 .. 2 * n : F[k] = Used(kept)[s[k]]
    BY <1>2, <1>3, <2>1 DEF Used
  <2>3. F = [k \in 1 .. 2 * n |-> F[k]]
    BY <1>2, <1>3
  <2>. HIDE DEF F, s
  <2>4. FlattenSeq(F) = Through(Used(kept), s)
    BY <1>1, <1>3, <2>2, <2>3, KeptByPosition
  <2>5. Through(Used(kept), s) = Fl(n, KeptBeside(n, kept, 1 .. n))
    BY <1>1, UsedBeside DEF s
  <2>. QED BY <2>4, <2>5
<1>5. WithTangents(Params) = Fl(n, KeptBeside(n, kept, 1 .. n))
  <2>1. /\ Len(Params) = Len(KeptSeq)
        /\ \A k \in 1 .. Len(KeptSeq) : Params[k] = In(KeptSeq[k])
    BY ParamsAre
  <2>2. KeptSeq = Fl(n, Only(n, kept)) /\ \A k \in 1 .. Len(KeptSeq) : KeptSeq[k] \in 1 .. n
    BY KeptSeqIs
  <2>3. \A k \in 1 .. Len(KeptSeq) : G[k] = H[KeptSeq[k]]
    BY <2>1, <2>2, ValFacts DEF Beside
  <2>4. G = Each(H, KeptSeq)
    BY <2>1, <2>3 DEF Each
  <2>5. G = [k \in 1 .. Len(KeptSeq) |-> G[k]]
    BY <2>1
  <2>6. Through(H, Fl(n, Only(n, kept))) = Fl(n, KeptBeside(n, kept, 1 .. n))
    BY <1>1, KeptThrough
  <2>7. WithTangents(Params) = FlattenSeq(G)
    BY Zenon DEF WithTangents, Gather
  <2>. HIDE DEF H, G, KeptSeq
  <2>8. FlattenSeq(G) = Fl(Len(KeptSeq), Each(H, KeptSeq))
    BY <2>4, <2>5, FlOf
  <2>. QED BY <2>2, <2>6, <2>7, <2>8 DEF Through
<1>6. Outs = Results(nOuts)
  BY DEF Outs, Results
<1>7. Gather(Len(eqn.args), LAMBDA i : IF (i + 1) \div 2 \in kept THEN <<eqn.args[i]>> ELSE <<>>)
        = FlattenSeq(F)
  BY Zenon DEF Gather
<1>. HIDE DEF F
<1>. QED BY <1>2, <1>4, <1>5, <1>6, <1>7

\* The operands of aug left by position are the used arguments.
LEMMA LowerAugIs ==
  ASSUME IsFn, eqn = AugEqn(nArgs, nOuts)
  PROVE  /\ Gather(Len(eqn.args), LAMBDA i : IF i \in kept THEN <<eqn.args[i]>> ELSE <<>>) = Params
         /\ Append(Outs, Tape) = eqn.outs
<1>. DEFINE n == nArgs
            s == Ins(n)
            F == [i \in 1 .. Len(eqn.args) |-> IF i \in kept THEN <<eqn.args[i]>> ELSE <<>>]
<1>1. n \in Nat /\ kept \in SUBSET (1 .. n) /\ {} \in SUBSET (1 .. n)
  BY DEF IsFn
<1>2. eqn.args = s /\ eqn.outs = Append(Results(nOuts), Tape)
  BY DEF AugEqn, FwdEqn, FreshEqn
<1>3. s \in Seq(Vals) /\ Len(s) = n /\ \A k \in 1 .. n : s[k] \in Vals /\ s[k].of = k /\ s[k].role = "in"
  <2>1. s \in [1 .. n -> Vals] /\ \A k \in 1 .. n : s[k].of = k /\ s[k].role = "in"
    BY ValFacts DEF Ins
  <2>. QED BY <1>1, <2>1
<1>4. \A k \in 1 .. n : F[k] = Used(kept)[s[k]]
  BY <1>2, <1>3 DEF Used
<1>5. F = [k \in 1 .. n |-> F[k]]
  BY <1>2, <1>3
<1>6. Through(Used(kept), Fl(n, Beside(n, {}))) = Params
  BY <1>1, UsedBeside, ParamsAre
<1>7. Fl(n, Beside(n, {})) = s
  BY <1>1, InsBeside
<1>8. Gather(Len(eqn.args), LAMBDA i : IF i \in kept THEN <<eqn.args[i]>> ELSE <<>>) = FlattenSeq(F)
  BY Zenon DEF Gather
<1>9. Outs = Results(nOuts)
  BY DEF Outs, Results
<1>. HIDE DEF F, s
<1>10. FlattenSeq(F) = Through(Used(kept), s)
  BY <1>1, <1>3, <1>4, <1>5, KeptByPosition
<1>. QED BY <1>2, <1>6, <1>7, <1>8, <1>9, <1>10

\* The gradient of a used argument is found by its rank.
LEMMA LowerRevIs ==
  ASSUME IsFn, eqn = RevEqn(nArgs, nOuts)
  PROVE  /\ eqn.args = <<Tape>> \o [j \in 1 .. nOuts |-> Cotangent(j)]
         /\ DOMAIN eqn.outs = 1 .. nArgs /\ Len(eqn.outs) = nArgs
         /\ \A i \in 1 .. nArgs :
              /\ eqn.outs[i] = Grad(i)
              /\ i \in kept => KeptSeq[Cardinality({k \in kept : k <= i})] = i
<1>1. eqn.args = <<Tape>> \o Seeds(nOuts) /\ eqn.outs = Grads(nArgs)
  BY DEF RevEqn, FwdEqn, FreshEqn
<1>2. nArgs \in Nat
  BY DEF IsFn
<1>3. \A i \in kept : KeptSeq[Cardinality({k \in kept : k <= i})] = i
  BY KeptSeqIs DEF Upto
<1>4. DOMAIN eqn.outs = 1 .. nArgs /\ Len(eqn.outs) = nArgs /\ \A i \in 1 .. nArgs : eqn.outs[i] = Grad(i)
  BY <1>1, <1>2 DEF Grads
<1>. QED BY <1>1, <1>3, <1>4 DEF Seeds

-----------------------------------------------------------------------------
(* The steps between the forms *)

\* The fields of a call of which nothing was differentiated.
LEMMA FreshIs ==
  ASSUME IsFn, eqn = FreshEqn(nArgs, nOuts)
  PROVE  /\ eqn.prim = "primal" /\ eqn.args = Ins(nArgs) /\ eqn.inIdx = [i \in 1 .. nArgs |-> i]
         /\ eqn.outIdx = [j \in 1 .. nOuts |-> 0] /\ eqn.wrap = NoWrap /\ eqn.outs = Results(nOuts)
         /\ Len(Ins(nArgs)) = nArgs /\ DOMAIN Ins(nArgs) = 1 .. nArgs
         /\ \A i \in 1 .. nArgs : Ins(nArgs)[i] = In(i)
         /\ Len(Results(nOuts)) = nOuts
BY DEF FreshEqn, IsFn, Ins, Results

\* jvp of a call of which nothing was differentiated.
LEMMA FreshJvp ==
  ASSUME IsFn, eqn = FreshEqn(nArgs, nOuts), NEW active \in SUBSET (1 .. nArgs), MlirJvp(active)
  PROVE  eqn' = ForwardEqn(nArgs, nOuts, active)
<1>. DEFINE n == nArgs
            m == nOuts
            F == [i \in 1 .. Len(eqn.args) |-> IF i \in active THEN <<eqn.args[i], TangentOf(eqn.args[i])>>
                                               ELSE <<eqn.args[i]>>]
            D == [i \in 1 .. Len(eqn.args) |-> IF i \in active THEN <<eqn.inIdx[i], eqn.inIdx[i]>>
                                               ELSE <<eqn.inIdx[i]>>]
            o == [j \in 1 .. 2 * Len(eqn.outs) |-> eqn.outIdx[(j + 1) \div 2]]
            w == [mode |-> "ForwardMode",
                  argTys |-> [i \in 1 .. Len(eqn.args) |-> IF i \in active THEN "dup" ELSE "const"],
                  retTys |-> [j \in 1 .. Len(eqn.outs) |-> "dup"]]
<1>1. n \in Nat /\ m \in Nat
  BY DEF IsFn
<1>2. eqn.wrap = NoWrap
  BY FreshIs
<1>3. eqn' = [prim |-> "primal", args |-> FlattenSeq(F), inIdx |-> FlattenSeq(D), outIdx |-> o,
              wrap |-> w, outs |-> WithTangents(eqn.outs)]
  BY <1>2, Zenon DEF MlirJvp, Gather
<1>4. F = Beside(n, active)
  <2>1. \A i \in 1 .. n : TangentOf(In(i)) = Tangent(i)
    BY ValFacts
  <2>. QED BY <2>1, FreshIs DEF Beside
<1>5. D = Twice(n, active)
  BY FreshIs DEF Twice
<1>6. o = [j \in 1 .. 2 * m |-> 0]
  <2>1. \A j \in 1 .. 2 * m : (j + 1) \div 2 \in 1 .. m
    BY <1>1
  <2>. QED BY <2>1, FreshIs
<1>7. w = ForwardWrap(n, m, active)
  BY FreshIs DEF ForwardWrap, Acts
<1>8. FlattenSeq(Beside(n, active)) = Fl(n, Beside(n, active))
  <2>1. Beside(n, active) = [i \in 1 .. n |-> Beside(n, active)[i]]
    BY DEF Beside
  <2>. QED BY <2>1, FlOf
<1>9. FlattenSeq(Twice(n, active)) = Fl(n, Twice(n, active))
  <2>1. Twice(n, active) = [i \in 1 .. n |-> Twice(n, active)[i]]
    BY DEF Twice
  <2>. QED BY <2>1, FlOf
<1>10. eqn.outs = Results(m)
  BY FreshIs
<1>. HIDE DEF n, m, F, D, o, w
<1>11. eqn' = ForwardEqn(n, m, active)
  BY <1>3, <1>4, <1>5, <1>6, <1>7, <1>8, <1>9, <1>10, Zenon DEF ForwardEqn
<1>. QED BY <1>11 DEF n, m

\* jvp in the other pipelines.
LEMMA FreshXlaJvp ==
  ASSUME IsFn, eqn = FreshEqn(nArgs, nOuts), XlaJvp PROVE eqn' = FwdEqn(nArgs, nOuts)
<1>1. nArgs \in Nat
  BY DEF IsFn
<1>2. Gather(Len(eqn.args), LAMBDA i : <<eqn.args[i], TangentOf(eqn.args[i])>>) = WithTangents(eqn.args)
  BY Zenon DEF WithTangents
<1>3. WithTangents(eqn.args) = Fl(nArgs, Beside(nArgs, 1 .. nArgs))
  BY <1>1, PairsAre, FreshIs
<1>4. WithTangents(eqn.outs) = WithTangents(Results(nOuts))
  BY FreshIs
<1>. DEFINE a == Gather(Len(eqn.args), LAMBDA i : <<eqn.args[i], TangentOf(eqn.args[i])>>)
<1>5. eqn' = [eqn EXCEPT !.prim = "fwd", !.args = a, !.outs = WithTangents(eqn.outs)]
  BY Zenon DEF XlaJvp
<1>. HIDE DEF a
<1>6. a = Fl(nArgs, Beside(nArgs, 1 .. nArgs))
  BY <1>2, <1>3 DEF a
<1>. QED BY <1>4, <1>5, <1>6 DEF FwdEqn

\* A second level can only be a text that is no pipeline.
LEMMA NestedJvp ==
  ASSUME eqn.wrap # NoWrap, NEW active, MlirJvp(active)
  PROVE  eqn'.prim = "primal" /\ eqn'.wrap = Nested
BY DEF MlirJvp

\* The fields of a forward level.
LEMMA ForwardIs ==
  ASSUME IsFn, NEW active \in SUBSET (1 .. nArgs), eqn = ForwardEqn(nArgs, nOuts, active)
  PROVE  /\ eqn.prim = "primal" /\ eqn.wrap.mode = "ForwardMode" /\ eqn.wrap # NoWrap
         /\ eqn.wrap.argTys = Acts(nArgs, active) /\ Len(Acts(nArgs, active)) = nArgs
         /\ Len(eqn.inIdx) = Len(eqn.args)
<1>1. nArgs \in Nat
  BY DEF IsFn
<1>2. eqn.prim = "primal" /\ eqn.wrap = ForwardWrap(nArgs, nOuts, active)
  BY DEF ForwardEqn
<1>3. /\ eqn.wrap.mode = "ForwardMode" /\ eqn.wrap # NoWrap /\ eqn.wrap.argTys = Acts(nArgs, active)
  BY <1>2 DEF ForwardWrap, NoWrap
<1>4. Len(Acts(nArgs, active)) = nArgs
  BY <1>1 DEF Acts
<1>5. eqn.inIdx = [k \in 1 .. Len(eqn.args) |-> eqn.args[k].of] /\ Len(eqn.args) \in Nat
  <2>1. eqn.inIdx = Fl(nArgs, Twice(nArgs, active)) /\ eqn.args = Fl(nArgs, Beside(nArgs, active))
    BY DEF ForwardEqn
  <2>2. eqn.args \in Seq(Vals)
    BY <1>1, <2>1, BesideFacts
  <2>. QED BY <1>1, <2>1, <2>2, TwiceIs
<1>6. Len(eqn.inIdx) = Len(eqn.args)
  BY <1>5
<1>. QED BY <1>2, <1>3, <1>4, <1>6

\* The fields of a reverse level; it has an operand that is not in the map.
LEMMA ReverseIs ==
  ASSUME IsFn, NEW active \in SUBSET (1 .. nArgs), NEW live \in Lives,
         eqn = ReverseEqn(nArgs, nOuts, active, live)
  PROVE  /\ eqn.prim = "primal" /\ eqn.wrap.mode = "ReverseModeCombined" /\ eqn.wrap # NoWrap
         /\ Len(eqn.inIdx) < Len(eqn.args)
<1>. DEFINE B == Fl(nOuts, SeedsOf(nOuts, live))
<1>1. nArgs \in Nat /\ nOuts \in Nat /\ live \in SUBSET (1 .. nOuts) /\ live # {}
  BY DEF IsFn, Lives
<1>2. eqn.prim = "primal" /\ eqn.wrap = ReverseWrap(nArgs, nOuts, active, live)
  BY DEF ReverseEqn
<1>3. eqn.wrap.mode = "ReverseModeCombined" /\ eqn.wrap # NoWrap
  BY <1>2 DEF ReverseWrap, NoWrap
<1>4. eqn.args = Cat(Ins(nArgs), B) /\ eqn.inIdx = [i \in 1 .. nArgs |-> i]
  BY DEF ReverseEqn, Cat
<1>5. B \in Seq(Vals) /\ Len(B) = Cardinality(live) /\ Ins(nArgs) \in Seq(Vals) /\ Len(Ins(nArgs)) = nArgs
  <2>1. B \in Seq(Vals) /\ Len(B) = Cardinality(live)
    BY <1>1, SeedsKept
  <2>2. Ins(nArgs) \in Seq(Vals)
    BY <1>1, InsBeside
  <2>3. Len(Ins(nArgs)) = nArgs
    BY <1>1 DEF Ins
  <2>. QED BY <2>1, <2>2, <2>3
<1>6. Cardinality(live) \in Nat \ {0}
  <2>1. IsFiniteSet(live)
    <3>1. IsFiniteSet(1 .. nOuts)
      BY <1>1, FS_Interval
    <3>. QED BY <1>1, <3>1, FS_Subset
  <2>. QED BY <1>1, <2>1, FS_CardinalityType, FS_EmptySet
<1>. HIDE DEF B
<1>7. Len(eqn.args) = nArgs + Len(B)
  BY <1>4, <1>5, CatFacts
<1>8. Len(eqn.inIdx) = nArgs
  BY <1>1, <1>4
<1>. QED BY <1>1, <1>2, <1>3, <1>5, <1>6, <1>7, <1>8

\* What is read at the place of an argument in the interleaved operands and map.
LEMMA ForwardPlaces ==
  ASSUME IsFn, NEW active \in SUBSET (1 .. nArgs), eqn = ForwardEqn(nArgs, nOuts, active)
  PROVE  \A i \in 1 .. nArgs :
           /\ eqn.args[Place(Acts(nArgs, active), i)] = In(i)
           /\ eqn.inIdx[Place(Acts(nArgs, active), i)] = i
           /\ i \in active => eqn.args[Place(Acts(nArgs, active), i) + 1] = Tangent(i)
<1>. DEFINE n == nArgs
            F == Beside(n, active)
            D == Twice(n, active)
            acts == Acts(n, active)
<1>1. n \in Nat
  BY DEF IsFn
<1>2. eqn.args = Fl(n, F) /\ eqn.inIdx = Fl(n, D)
  BY DEF ForwardEqn
<1>3. /\ Pieces(Vals, n, F) /\ Longer(n, F, active, 1)
      /\ \A i \in 1 .. n : F[i][1] = In(i)
      /\ \A i \in active : F[i][2] = Tangent(i)
  BY <1>1, BesideFacts
<1>4. Pieces(1 .. n, n, D) /\ Longer(n, D, active, 1) /\ \A i \in 1 .. n : D[i][1] = i
  BY <1>1, TwiceFacts
<1>. HIDE DEF F, D
<1>5. \A i \in 1 .. n : /\ Fl(n, F)[Place(acts, i)] = F[i][1]
                        /\ i \in active => Fl(n, F)[Place(acts, i) + 1] = F[i][2]
  BY <1>1, <1>3, PlaceIs
<1>6. \A i \in 1 .. n : Fl(n, D)[Place(acts, i)] = D[i][1]
  BY <1>1, <1>4, PlaceIs
<1>. QED BY <1>2, <1>3, <1>4, <1>5, <1>6

\* The arguments with a tangent, in order.
LEMMA DupsAre ==
  ASSUME NEW n \in Nat, NEW active \in SUBSET (1 .. n)
  PROVE  /\ Ascending(n, Dup(Acts(n, active))) = Fl(n, Only(n, active))
         /\ Len(Fl(n, Only(n, active))) \in Nat
         /\ \A k \in 1 .. Len(Fl(n, Only(n, active))) :
              Fl(n, Only(n, active))[k] \in active /\ Fl(n, Only(n, active))[k] \in 1 .. n
         /\ Fl(n, Only(n, active))
              = [k \in 1 .. Len(Fl(n, Only(n, active))) |-> Fl(n, Only(n, active))[k]]
<1>. DEFINE s == Fl(n, Only(n, active))
<1>1. Dup(Acts(n, active)) = active
  BY DEF Dup, Acts
<1>2. Ascending(n, active) = s /\ s \in Seq(active)
  BY OnlyFacts
<1>. HIDE DEF s
<1>3. Len(s) \in Nat /\ s \in [1 .. Len(s) -> active]
  BY <1>2, LenProperties
<1>. QED BY <1>1, <1>2, <1>3 DEF s

\* The two equations, for the activities, how many they are and the arguments
\* with a tangent.
PartialEvals(acts, n, dups) ==
  LET primals == [i \in 1 .. n |-> eqn.args[Place(acts, i)]]
      tangents == [k \in 1 .. Len(dups) |-> eqn.args[Place(acts, dups[k]) + 1]]
  IN {[prim |-> "primal", args |-> primals, inIdx |-> [i \in 1 .. n |-> eqn.inIdx[Place(acts, i)]],
       outIdx |-> MapOfPrimals(eqn.outIdx), wrap |-> NoWrap, outs |-> Firsts(eqn.outs)],
      [eqn EXCEPT !.prim = "shadow_aug", !.args = primals \o tangents, !.outs = Seconds(eqn.outs)]}

\* Partial evaluation of a forward level: the call as it was, and a linear one.
LEMMA ForwardPartialEval ==
  ASSUME IsFn, NEW active \in SUBSET (1 .. nArgs), eqn = ForwardEqn(nArgs, nOuts, active),
         MlirPartialEval
  PROVE  eqn' = FreshEqn(nArgs, nOuts) \/ eqn' = LinearEqn(nArgs, nOuts, active)
<1>. DEFINE n == nArgs
            m == nOuts
            acts == Acts(n, active)
            dups == Fl(n, Only(n, active))
            primals == [i \in 1 .. n |-> eqn.args[Place(acts, i)]]
            idx == [i \in 1 .. n |-> eqn.inIdx[Place(acts, i)]]
            tangents == [k \in 1 .. Len(dups) |-> eqn.args[Place(acts, dups[k]) + 1]]
<1>1. n \in Nat /\ m \in Nat
  BY DEF IsFn
<1>2. eqn.wrap.argTys = acts /\ Len(acts) = n
  BY ForwardIs
<1>3. /\ eqn.outIdx = [j \in 1 .. 2 * m |-> 0] /\ eqn.outs = WithTangents(Results(m))
  BY DEF ForwardEqn
<1>4. Ascending(n, Dup(acts)) = dups
  BY <1>1, DupsAre
<1>5. primals = Ins(n) /\ idx = [i \in 1 .. n |-> i]
  BY ForwardPlaces DEF Ins
<1>6. tangents = TangentsOf(n, active)
  <2>1. \A k \in 1 .. Len(dups) : dups[k] \in active /\ dups[k] \in 1 .. n
    BY <1>1, DupsAre
  <2>2. \A k \in 1 .. Len(dups) : eqn.args[Place(acts, dups[k]) + 1] = Tangent(dups[k])
    BY <2>1, ForwardPlaces
  <2>. QED BY <2>2 DEF TangentsOf
<1>7. MapOfPrimals(eqn.outIdx) = [j \in 1 .. m |-> 0]
  <2>1. Len(eqn.outIdx) \div 2 = m
    BY <1>1, <1>3
  <2>2. \A j \in 1 .. m : eqn.outIdx[2 * j - 1] = 0
    BY <1>1, <1>3
  <2>. QED BY <2>1, <2>2 DEF MapOfPrimals, Firsts
<1>8. Firsts(eqn.outs) = Results(m) /\ Seconds(eqn.outs) = ResultTangents(m)
  <2>1. Results(m) \in Seq(Vals) /\ Len(Results(m)) = m
        /\ ResultTangents(m) = [j \in 1 .. m |-> TangentOf(Results(m)[j])]
    BY <1>1, ResultsAre
  <2>2. Firsts(WithTangents(Results(m))) = Results(m)
        /\ Seconds(WithTangents(Results(m))) = [j \in 1 .. Len(Results(m)) |-> TangentOf(Results(m)[j])]
    BY <2>1, TangentsBeside
  <2>. QED BY <1>3, <2>1, <2>2
<1>9. eqn' \in {[prim |-> "primal", args |-> primals, inIdx |-> idx, outIdx |-> MapOfPrimals(eqn.outIdx),
                 wrap |-> NoWrap, outs |-> Firsts(eqn.outs)],
                [eqn EXCEPT !.prim = "shadow_aug", !.args = primals \o tangents,
                            !.outs = Seconds(eqn.outs)]}
  <2>. DEFINE a == eqn.wrap.argTys
  <2>1. eqn' \in PartialEvals(a, Len(a), Ascending(Len(a), Dup(a)))
    BY Zenon DEF MlirPartialEval, PartialEvals
  <2>. HIDE DEF a, acts, n, dups
  <2>2. PartialEvals(a, Len(a), Ascending(Len(a), Dup(a))) = PartialEvals(acts, n, dups)
    BY <1>2, <1>4, Zenon DEF a
  <2>3. eqn' \in PartialEvals(acts, n, dups)
    BY <2>1, <2>2
  <2>. QED BY <2>3, Zenon DEF PartialEvals
<1>. HIDE DEF n, m, acts, dups, primals, idx, tangents
<1>10. \/ eqn' = [prim |-> "primal", args |-> Ins(n), inIdx |-> [i \in 1 .. n |-> i],
                  outIdx |-> [j \in 1 .. m |-> 0], wrap |-> NoWrap, outs |-> Results(m)]
       \/ eqn' = [eqn EXCEPT !.prim = "shadow_aug", !.args = Ins(n) \o TangentsOf(n, active),
                             !.outs = ResultTangents(m)]
  BY <1>5, <1>6, <1>7, <1>8, <1>9, Zenon
<1>. QED BY <1>10, Zenon DEF FreshEqn, LinearEqn, n, m

\* Partial evaluation of fwd.
LEMMA FwdPartialEval ==
  ASSUME IsFn, eqn = FwdEqn(nArgs, nOuts), XlaPartialEval
  PROVE  eqn' = AugEqn(nArgs, nOuts) \/ eqn' = ShadowEqn(nArgs, nOuts)
<1>. DEFINE n == nArgs
            m == nOuts
<1>1. n \in Nat /\ m \in Nat
  BY DEF IsFn
<1>2. eqn.args = WithTangents(Ins(n)) /\ eqn.outs = WithTangents(Results(m))
  <2>1. WithTangents(Ins(n)) = Fl(n, Beside(n, 1 .. n))
    BY <1>1, PairsAre
  <2>. QED BY <2>1 DEF FwdEqn, FreshEqn
<1>3. Ins(n) \in Seq(Vals) /\ Len(Ins(n)) = n /\ \A i \in 1 .. n : TangentOf(Ins(n)[i]) = Tangent(i)
  <2>1. Ins(n) \in [1 .. n -> Vals] /\ \A i \in 1 .. n : TangentOf(Ins(n)[i]) = Tangent(i)
    BY ValFacts DEF Ins
  <2>. QED BY <1>1, <2>1
<1>4. Firsts(eqn.args) = Ins(n) /\ Seconds(eqn.args) = Tangents(n)
  <2>1. Firsts(WithTangents(Ins(n))) = Ins(n)
        /\ Seconds(WithTangents(Ins(n))) = [j \in 1 .. Len(Ins(n)) |-> TangentOf(Ins(n)[j])]
    BY <1>3, TangentsBeside
  <2>2. [j \in 1 .. Len(Ins(n)) |-> TangentOf(Ins(n)[j])] = Tangents(n)
    BY <1>3 DEF Tangents
  <2>. QED BY <1>2, <2>1, <2>2
<1>5. Firsts(eqn.outs) = Results(m) /\ Seconds(eqn.outs) = ResultTangents(m)
  <2>1. Results(m) \in Seq(Vals) /\ Len(Results(m)) = m
        /\ ResultTangents(m) = [j \in 1 .. m |-> TangentOf(Results(m)[j])]
    BY <1>1, ResultsAre
  <2>2. Firsts(WithTangents(Results(m))) = Results(m)
        /\ Seconds(WithTangents(Results(m))) = [j \in 1 .. Len(Results(m)) |-> TangentOf(Results(m)[j])]
    BY <2>1, TangentsBeside
  <2>. QED BY <1>2, <2>1, <2>2
<1>6. eqn' \in {[eqn EXCEPT !.prim = "aug", !.args = Firsts(eqn.args), !.outs = Append(Firsts(eqn.outs), Tape)],
                [eqn EXCEPT !.prim = "shadow_aug",
                            !.args = <<Tape>> \o Firsts(eqn.args) \o Seconds(eqn.args),
                            !.outs = Seconds(eqn.outs)]}
  BY Zenon DEF XlaPartialEval
<1>7. \/ eqn' = [eqn EXCEPT !.prim = "aug", !.args = Ins(n), !.outs = Append(Results(m), Tape)]
      \/ eqn' = [eqn EXCEPT !.prim = "shadow_aug", !.args = <<Tape>> \o Ins(n) \o Tangents(n),
                            !.outs = ResultTangents(m)]
  BY <1>4, <1>5, <1>6, Zenon
<1>. QED BY <1>7, Zenon DEF AugEqn, ShadowEqn, n, m

\* Each seed by the result it is for.
LEMMA CotangentsAre ==
  ASSUME NEW live, nOuts \in Nat, eqn.outs = ResultTangents(nOuts)
  PROVE  /\ Cotangents(live) = Fl(nOuts, SeedsOf(nOuts, live)) /\ DOMAIN eqn.outs = 1 .. nOuts
         /\ Len(eqn.outs) = nOuts
<1>. DEFINE m == nOuts
            F == [j \in 1 .. Len(eqn.outs) |-> IF j \in live THEN <<Cotangent(eqn.outs[j].of)>> ELSE <<>>]
<1>1. DOMAIN eqn.outs = 1 .. m /\ Len(eqn.outs) = m /\ \A j \in 1 .. m : eqn.outs[j].of = j
  BY ValFacts DEF ResultTangents
<1>2. F = SeedsOf(m, live)
  BY <1>1 DEF SeedsOf
<1>3. F = [j \in 1 .. m |-> F[j]]
  BY <1>1
<1>4. Cotangents(live) = FlattenSeq(F)
  BY Zenon DEF Cotangents, Gather
<1>. HIDE DEF F
<1>5. FlattenSeq(F) = Fl(m, F)
  BY <1>3, FlOf
<1>. QED BY <1>1, <1>2, <1>4, <1>5

\* The equation a transposition gives, for the activities, how many they are and
\* the arguments with a tangent.
Transposed(acts, n, dups, live) ==
  [prim |-> "primal", args |-> SubSeq(eqn.args, 1, n) \o Cotangents(live),
   inIdx |-> [i \in 1 .. n |-> eqn.inIdx[Place(acts, i)]],
   outIdx |-> [k \in 1 .. Len(dups) |-> eqn.inIdx[Place(acts, dups[k])]],
   wrap |-> [mode |-> "ReverseModeCombined",
             argTys |-> [i \in 1 .. n |-> IF acts[i] = "dup" THEN "active" ELSE "const"],
             retTys |-> [j \in DOMAIN eqn.outs |-> IF j \in live THEN "active" ELSE "const"]],
   outs |-> GradsFor(n, Len(dups))]

\* The fields of a linear equation, and its map read at the place of an argument.
LEMMA LinearIs ==
  ASSUME IsFn, NEW active \in SUBSET (1 .. nArgs), eqn = LinearEqn(nArgs, nOuts, active)
  PROVE  /\ eqn.prim = "shadow_aug" /\ eqn.wrap.argTys = Acts(nArgs, active) /\ Len(Acts(nArgs, active)) = nArgs
         /\ eqn.outs = ResultTangents(nOuts) /\ eqn.args = Ins(nArgs) \o TangentsOf(nArgs, active)
         /\ \A i \in 1 .. nArgs : eqn.inIdx[Place(Acts(nArgs, active), i)] = i
<1>. DEFINE n == nArgs
            F == Twice(n, active)
            acts == Acts(n, active)
<1>1. n \in Nat
  BY DEF IsFn
<1>2. /\ eqn.prim = "shadow_aug" /\ eqn.wrap = ForwardWrap(nArgs, nOuts, active) /\ eqn.outs = ResultTangents(nOuts)
      /\ eqn.inIdx = Fl(nArgs, Twice(nArgs, active)) /\ eqn.args = Ins(nArgs) \o TangentsOf(nArgs, active)
  BY DEF LinearEqn, ForwardEqn
<1>3. eqn.wrap.argTys = acts
  BY <1>2 DEF ForwardWrap
<1>4. Len(acts) = n
  BY <1>1 DEF Acts
<1>5. Pieces(1 .. n, n, F) /\ Longer(n, F, active, 1) /\ \A i \in 1 .. n : F[i][1] = i
  BY <1>1, TwiceFacts
<1>. HIDE DEF F
<1>6. \A i \in 1 .. n : Fl(n, F)[Place(acts, i)] = F[i][1]
  BY <1>1, <1>5, PlaceIs
<1>7. \A i \in 1 .. n : eqn.inIdx[Place(acts, i)] = i
  BY <1>2, <1>5, <1>6 DEF F
<1>. QED BY <1>2, <1>3, <1>4, <1>7

\* The transposition of a linear equation.
LEMMA LinearTranspose ==
  ASSUME IsFn, NEW active \in SUBSET (1 .. nArgs), eqn = LinearEqn(nArgs, nOuts, active),
         NEW live, MlirVjp(live)
  PROVE  eqn' = ReverseEqn(nArgs, nOuts, active, live)
<1>. DEFINE n == nArgs
            m == nOuts
            acts == Acts(n, active)
            dups == Fl(n, Only(n, active))
            A == Ins(n)
            B == TangentsOf(n, active)
<1>1. n \in Nat /\ m \in Nat
  BY DEF IsFn
<1>2. /\ eqn.wrap.argTys = acts /\ Len(acts) = n /\ eqn.outs = ResultTangents(m)
      /\ eqn.args = Cat(A, B) /\ \A i \in 1 .. n : eqn.inIdx[Place(acts, i)] = i
  BY LinearIs DEF Cat
<1>3. /\ Len(dups) \in Nat /\ dups = [k \in 1 .. Len(dups) |-> dups[k]]
      /\ \A k \in 1 .. Len(dups) : dups[k] \in 1 .. n
  BY <1>1, DupsAre
<1>4. /\ A \in Seq(Vals) /\ Len(A) = n
  <2>1. A \in [1 .. n -> Vals]
    BY ValFacts DEF Ins
  <2>. QED BY <1>1, <2>1
<1>5. B \in Seq(Vals) /\ Len(B) = Len(dups) /\ \A k \in 1 .. Len(dups) : B[k].of = dups[k]
  <2>1. B = [k \in 1 .. Len(dups) |-> Tangent(dups[k])]
    BY DEF TangentsOf
  <2>. HIDE DEF B, dups, n
  <2>2. \A k \in 1 .. Len(dups) : Tangent(dups[k]) \in Vals /\ Tangent(dups[k]).of = dups[k]
    BY <1>3, ValFacts
  <2>. QED BY <1>3, <2>1, <2>2
<1>6. eqn' = Transposed(acts, n, dups, live)
  <2>. DEFINE a == eqn.wrap.argTys
  <2>1. eqn' = Transposed(a, Len(a), Ascending(Len(a), Dup(a)), live)
    BY Zenon DEF MlirVjp, Transposed
  <2>2. Ascending(n, Dup(acts)) = dups
    BY <1>1, DupsAre
  <2>. HIDE DEF a, acts, n, dups
  <2>3. Transposed(a, Len(a), Ascending(Len(a), Dup(a)), live) = Transposed(acts, n, dups, live)
    BY <1>2, <2>2, Zenon DEF a
  <2>. QED BY <2>1, <2>3
<1>7. Cotangents(live) = Fl(m, SeedsOf(m, live)) /\ DOMAIN eqn.outs = 1 .. m
  BY <1>1, <1>2, CotangentsAre
<1>. DEFINE C == Cat(A, B)
<1>8. /\ Len(C) = n + Len(dups) /\ \A i \in 1 .. n : C[i] = A[i]
      /\ \A k \in 1 .. Len(dups) : C[n + k] = B[k]
  <2>1. A \in Seq(Vals) /\ B \in Seq(Vals) /\ Len(A) = n /\ Len(B) = Len(dups)
    BY <1>4, <1>5
  <2>. HIDE DEF A, B, n, dups
  <2>2. /\ Len(Cat(A, B)) = Len(A) + Len(B) /\ \A i \in 1 .. Len(A) : Cat(A, B)[i] = A[i]
        /\ \A k \in 1 .. Len(B) : Cat(A, B)[Len(A) + k] = B[k]
    <3>1. A \in Seq(Vals) /\ B \in Seq(Vals)
      BY <2>1
    <3>. QED BY ONLY <3>1, CatFacts
  <2>. QED BY ONLY <2>1, <2>2, Zenon DEF C
<1>9. SubSeq(eqn.args, 1, n) = A
  <2>. HIDE DEF C
  <2>1. SubSeq(C, 1, n) = [i \in 1 .. n |-> C[i]]
    <3>1. 1 - 1 + n = n
      BY <1>1
    <3>. QED BY <1>1, <3>1
  <2>2. A = [i \in 1 .. n |-> A[i]]
    BY DEF Ins
  <2>. QED BY <1>2, <1>8, <2>1, <2>2 DEF C
<1>10. [i \in 1 .. n |-> eqn.inIdx[Place(acts, i)]] = [i \in 1 .. n |-> i]
  BY <1>2
<1>11. [k \in 1 .. Len(dups) |-> eqn.inIdx[Place(acts, dups[k])]] = dups
  <2>. HIDE DEF dups, acts, n
  <2>1. \A k \in 1 .. Len(dups) : eqn.inIdx[Place(acts, dups[k])] = dups[k]
    BY <1>2, <1>3
  <2>. QED BY <1>3, <2>1
<1>12. GradsFor(n, Len(dups)) = [k \in 1 .. Len(dups) |-> Grad(dups[k])]
  <2>1. \A k \in 1 .. Len(dups) : eqn.args[n + k].of = dups[k]
    BY <1>2, <1>5, <1>8
  <2>. HIDE DEF dups, n
  <2>. QED BY <2>1 DEF GradsFor
<1>13. [mode |-> "ReverseModeCombined",
        argTys |-> [i \in 1 .. n |-> IF acts[i] = "dup" THEN "active" ELSE "const"],
        retTys |-> [j \in DOMAIN eqn.outs |-> IF j \in live THEN "active" ELSE "const"]]
         = ReverseWrap(n, m, active, live)
  <2>1. [i \in 1 .. n |-> IF acts[i] = "dup" THEN "active" ELSE "const"]
          = [i \in 1 .. n |-> IF i \in active THEN "active" ELSE "const"]
    BY DEF Acts
  <2>2. [j \in DOMAIN eqn.outs |-> IF j \in live THEN "active" ELSE "const"]
          = [j \in 1 .. m |-> IF j \in live THEN "active" ELSE "const"]
    BY <1>7
  <2>. QED BY <2>1, <2>2, Zenon DEF ReverseWrap
<1>. HIDE DEF n, m, acts, dups, A, B, C
<1>14. Transposed(acts, n, dups, live)
         = [prim |-> "primal", args |-> A \o Fl(m, SeedsOf(m, live)), inIdx |-> [i \in 1 .. n |-> i],
            outIdx |-> dups, wrap |-> ReverseWrap(n, m, active, live),
            outs |-> [k \in 1 .. Len(dups) |-> Grad(dups[k])]]
  BY <1>7, <1>9, <1>10, <1>11, <1>12, <1>13, Zenon DEF Transposed
<1>. QED BY <1>6, <1>14, Zenon DEF ReverseEqn, A, dups, n, m

\* The transposition of a linear equation of the other pipelines.
LEMMA ShadowTranspose ==
  ASSUME IsFn, eqn = ShadowEqn(nArgs, nOuts)
  PROVE  /\ eqn.prim = "shadow_aug" /\ eqn.outs = ResultTangents(nOuts)
         /\ DOMAIN eqn.outs = 1 .. nOuts
         /\ XlaVjp(1 .. nOuts) => eqn' = RevEqn(nArgs, nOuts)
<1>. DEFINE n == nArgs
            m == nOuts
            A == <<Tape>>
            B == Ins(n)
            C == Tangents(n)
<1>1. n \in Nat /\ m \in Nat
  BY DEF IsFn
<1>2. /\ eqn.prim = "shadow_aug" /\ eqn.outs = ResultTangents(m) /\ eqn.args = Cat(Cat(A, B), C)
  BY DEF ShadowEqn, FwdEqn, FreshEqn, Cat
<1>3. /\ A \in Seq(Vals) /\ B \in Seq(Vals) /\ C \in Seq(Vals)
      /\ Len(A) = 1 /\ Len(B) = n /\ Len(C) = n /\ \A i \in 1 .. n : C[i].of = i
  <2>1. Tape \in Vals
    BY DEF Tape, Vals
  <2>2. B \in [1 .. n -> Vals] /\ C \in [1 .. n -> Vals] /\ \A i \in 1 .. n : C[i].of = i
    BY ValFacts DEF Ins, Tangents
  <2>. QED BY <1>1, <2>1, <2>2
<1>4. Cotangents(1 .. m) = Seeds(m) /\ DOMAIN eqn.outs = 1 .. m
  <2>. DEFINE F == SeedsOf(m, 1 .. m)
              s == Seeds(m)
  <2>1. Cotangents(1 .. m) = Fl(m, F) /\ DOMAIN eqn.outs = 1 .. m
    BY <1>1, <1>2, CotangentsAre
  <2>2. s \in [1 .. m -> Vals] /\ \A j \in 1 .. m : F[j] = <<s[j]>>
    BY ValFacts DEF Seeds, SeedsOf
  <2>. HIDE DEF F, s
  <2>3. Fl(m, F) = s
    BY <1>1, <2>2, FlSingles
  <2>. QED BY <2>1, <2>3 DEF s
<1>. DEFINE s == eqn.args
<1>5. Len(s) = 1 + n + n /\ \A k \in 1 .. n : s[1 + n + k].of = k
  <2>. HIDE DEF A, B, C, n, s
  <2>1. Cat(A, B) \in Seq(Vals) /\ Len(Cat(A, B)) = 1 + n
    <3>1. A \in Seq(Vals) /\ B \in Seq(Vals) /\ Len(A) = 1 /\ Len(B) = n
      BY <1>3
    <3>2. Cat(A, B) \in Seq(Vals) /\ Len(Cat(A, B)) = Len(A) + Len(B)
      <4>1. A \in Seq(Vals) /\ B \in Seq(Vals)
        BY <3>1
      <4>. QED BY ONLY <4>1, CatFacts
    <3>. QED BY <3>1, <3>2
  <2>2. /\ Len(Cat(Cat(A, B), C)) = 1 + n + n
        /\ \A k \in 1 .. n : Cat(Cat(A, B), C)[1 + n + k] = C[k]
    BY <1>3, <2>1, CatFacts
  <2>. QED BY <1>2, <1>3, <2>2 DEF s
<1>6. (Len(s) - 1) \div 2 = n
  BY <1>1, <1>5
<1>7. GradsFor(1 + n, n) = Grads(n)
  BY <1>5 DEF GradsFor, Grads
<1>8. ASSUME XlaVjp(1 .. m) PROVE eqn' = RevEqn(n, m)
  <2>. DEFINE h == (Len(s) - 1) \div 2
  <2>1. eqn' = [eqn EXCEPT !.prim = "rev", !.args = <<Tape>> \o Cotangents(1 .. m), !.outs = GradsFor(1 + h, h)]
    BY <1>8, Zenon DEF XlaVjp
  <2>. HIDE DEF h, n, m
  <2>2. eqn' = [eqn EXCEPT !.prim = "rev", !.args = <<Tape>> \o Seeds(m), !.outs = Grads(n)]
    BY ONLY <1>4, <1>6, <1>7, <2>1, Zenon DEF h
  <2>3. eqn = ShadowEqn(n, m)
    BY DEF n, m
  <2>. QED BY <2>2, <2>3 DEF RevEqn, ShadowEqn
<1>. QED BY <1>2, <1>4, <1>8

-----------------------------------------------------------------------------
(* Every step keeps the invariant *)

Props == OperandsMatch /\ ResultsMatch /\ AssertionsHold /\ FirstOrderRaisesOnly

\* Which rules apply to a form is told by its primitive.
LEMMA FormsByPrim ==
  ASSUME FirstLevel, IsFn
  PROVE  /\ eqn.prim = "primal" =>
              \/ eqn = FreshEqn(nArgs, nOuts)
              \/ eqn.wrap = Nested
              \/ \E active \in Actives : mlirAd /\ eqn = ForwardEqn(nArgs, nOuts, active)
              \/ \E active \in Actives, live \in Lives : mlirAd /\ eqn = ReverseEqn(nArgs, nOuts, active, live)
         /\ eqn.prim = "fwd" => ~mlirAd /\ eqn = FwdEqn(nArgs, nOuts)
         /\ eqn.prim = "aug" => ~mlirAd /\ eqn = AugEqn(nArgs, nOuts)
         /\ eqn.prim = "rev" => ~mlirAd /\ eqn = RevEqn(nArgs, nOuts)
         /\ eqn.prim = "shadow_aug" =>
              \/ \E active \in Actives : mlirAd /\ eqn = LinearEqn(nArgs, nOuts, active)
              \/ ~mlirAd /\ eqn = ShadowEqn(nArgs, nOuts)
<1>1. ASSUME NEW active, NEW live
      PROVE  /\ FreshEqn(nArgs, nOuts).prim = "primal"
             /\ ForwardEqn(nArgs, nOuts, active).prim = "primal"
             /\ LinearEqn(nArgs, nOuts, active).prim = "shadow_aug"
             /\ ReverseEqn(nArgs, nOuts, active, live).prim = "primal"
             /\ FwdEqn(nArgs, nOuts).prim = "fwd" /\ AugEqn(nArgs, nOuts).prim = "aug"
             /\ ShadowEqn(nArgs, nOuts).prim = "shadow_aug" /\ RevEqn(nArgs, nOuts).prim = "rev"
  BY DEF FreshEqn, ForwardEqn, LinearEqn, ReverseEqn, FwdEqn, AugEqn, ShadowEqn, RevEqn
<1>2. CASE eqn = FreshEqn(nArgs, nOuts)
  BY <1>1, <1>2
<1>3. CASE eqn.prim = "primal" /\ eqn.wrap = Nested
  BY <1>3
<1>4. CASE \E active \in Actives : mlirAd /\ eqn = ForwardEqn(nArgs, nOuts, active)
  BY <1>1, <1>4
<1>5. CASE \E active \in Actives : mlirAd /\ eqn = LinearEqn(nArgs, nOuts, active)
  BY <1>1, <1>5
<1>6. CASE \E active \in Actives, live \in Lives : mlirAd /\ eqn = ReverseEqn(nArgs, nOuts, active, live)
  BY <1>1, <1>6
<1>7. CASE ~mlirAd /\ eqn \in {FwdEqn(nArgs, nOuts), AugEqn(nArgs, nOuts), ShadowEqn(nArgs, nOuts),
                               RevEqn(nArgs, nOuts)}
  BY <1>1, <1>7
<1>. QED BY <1>2, <1>3, <1>4, <1>5, <1>6, <1>7 DEF FirstLevel

\* Only used arguments are active.
LEMMA ActivesAre ==
  ASSUME IsFn PROVE \A active \in Actives : active \in SUBSET kept /\ active \in SUBSET (1 .. nArgs)
BY DEF IsFn, Actives

\* While the call is traced only the form of the equation matters.
LEMMA TracedKeeps ==
  ASSUME IsFn, UNCHANGED fnVars, FirstLevel', status' = "traced" PROVE PrimitiveInv'
BY DEF IsFn, fnVars, PrimitiveInv, OperandsMatch, ResultsMatch, AssertionsHold, FirstOrderRaisesOnly

\* A step that ends the call leaves the equation.
LEMMA EndKeeps ==
  ASSUME IsFn, FirstLevel, UNCHANGED <<fnVars, eqn>>, Props' PROVE PrimitiveInv'
<1>1. IsFn'
  BY DEF IsFn, fnVars
<1>2. FirstLevel'
  BY DEF FirstLevel, Actives, Lives, fnVars
<1>. QED BY <1>1, <1>2 DEF PrimitiveInv, Props

\* jvp.
LEMMA JvpKeeps == ASSUME PrimitiveInv, Jvp PROVE PrimitiveInv'
<1>1. IsFn /\ FirstLevel /\ UNCHANGED <<fnVars, call>> /\ status = "traced"
  BY DEF PrimitiveInv, Jvp
<1>2. eqn.prim = "primal" /\ eqn.wrap # Nested
  BY DEF Jvp
<1>3. PICK active \in (SUBSET Differentiable) \ {{}} :
        IF ~mlirAd THEN XlaJvp /\ UNCHANGED status
        ELSE IF Len(eqn.inIdx) < Len(eqn.args) THEN status' = "KeyError" /\ UNCHANGED eqn
        ELSE MlirJvp(active) /\ UNCHANGED status
  BY DEF Jvp
<1>4. UNCHANGED <<mlirAd, nArgs, nOuts, kept>>
  BY <1>1 DEF fnVars
<1>5. CASE eqn = FreshEqn(nArgs, nOuts)
  <2>1. CASE ~mlirAd
    <3>1. eqn' = FwdEqn(nArgs, nOuts) /\ status' = "traced"
      BY <1>1, <1>3, <1>5, <2>1, FreshXlaJvp
    <3>2. FirstLevel'
      BY <1>4, <2>1, <3>1 DEF FirstLevel
    <3>. QED BY <1>1, <3>1, <3>2, TracedKeeps
  <2>2. CASE mlirAd
    <3>1. Len(eqn.inIdx) = nArgs /\ Len(eqn.args) = nArgs /\ active \in Actives
      <4>1. /\ eqn.args = Ins(nArgs) /\ eqn.inIdx = [i \in 1 .. nArgs |-> i] /\ nArgs \in Nat
            /\ Len(Ins(nArgs)) = nArgs /\ DOMAIN Ins(nArgs) = 1 .. nArgs /\ kept \in SUBSET (1 .. nArgs)
        BY <1>1, <1>5, FreshIs DEF IsFn
      <4>2. Differentiable = kept
        BY <4>1 DEF Differentiable
      <4>. QED BY <1>3, <4>1, <4>2 DEF Actives
    <3>2. MlirJvp(active) /\ status' = "traced"
      <4>1. ~(Len(eqn.inIdx) < Len(eqn.args))
        BY <1>1, <3>1 DEF IsFn
      <4>. QED BY <1>1, <1>3, <2>2, <4>1
    <3>3. active \in SUBSET (1 .. nArgs)
      BY <1>1, <3>1, ActivesAre
    <3>4. eqn' = ForwardEqn(nArgs, nOuts, active)
      BY <1>1, <1>5, <3>2, <3>3, FreshJvp
    <3>5. FirstLevel'
      BY <1>4, <2>2, <3>1, <3>4 DEF FirstLevel, Actives
    <3>. QED BY <1>1, <3>2, <3>5, TracedKeeps
  <2>. QED BY <2>1, <2>2
<1>6. ASSUME NEW a \in Actives, mlirAd, eqn = ForwardEqn(nArgs, nOuts, a) PROVE PrimitiveInv'
  <2>1. Len(eqn.inIdx) = Len(eqn.args) /\ eqn.wrap # NoWrap /\ Len(eqn.args) \in Nat
    <3>1. a \in SUBSET (1 .. nArgs)
      BY <1>1, ActivesAre
    <3>2. Len(eqn.inIdx) = Len(eqn.args) /\ eqn.wrap # NoWrap
      BY <1>1, <1>6, <3>1, ForwardIs
    <3>3. Fl(nArgs, Beside(nArgs, a)) \in Seq(Vals)
      BY <1>1, <3>1, BesideFacts DEF IsFn
    <3>4. eqn.args \in Seq(Vals)
      BY <1>6, <3>3 DEF ForwardEqn
    <3>. QED BY <3>2, <3>4
  <2>2. MlirJvp(active) /\ status' = "traced"
    <3>1. ~(Len(eqn.inIdx) < Len(eqn.args))
      BY <2>1
    <3>. QED BY <1>1, <1>3, <1>6, <3>1
  <2>3. eqn'.prim = "primal" /\ eqn'.wrap = Nested
    BY <2>1, <2>2, NestedJvp
  <2>4. FirstLevel'
    BY <2>3 DEF FirstLevel, Nested
  <2>. QED BY <1>1, <2>2, <2>4, TracedKeeps
<1>7. ASSUME NEW a \in Actives, NEW live \in Lives, mlirAd, eqn = ReverseEqn(nArgs, nOuts, a, live)
      PROVE  PrimitiveInv'
  <2>1. a \in SUBSET (1 .. nArgs)
    BY <1>1, ActivesAre
  <2>2. eqn.wrap.mode = "ReverseModeCombined" /\ Len(eqn.inIdx) < Len(eqn.args)
    BY <1>1, <1>7, <2>1, ReverseIs
  <2>3. status' = "KeyError" /\ UNCHANGED eqn
    BY <1>3, <1>7, <2>2
  <2>4. Props'
    BY <2>2, <2>3 DEF Props, OperandsMatch, ResultsMatch, AssertionsHold, FirstOrderRaisesOnly
  <2>. QED BY <1>1, <2>3, <2>4, EndKeeps
<1>. QED BY <1>1, <1>2, <1>5, <1>6, <1>7, FormsByPrim

\* Partial evaluation.
LEMMA PartialEvalKeeps == ASSUME PrimitiveInv, PartialEval PROVE PrimitiveInv'
<1>1. IsFn /\ FirstLevel /\ UNCHANGED fnVars /\ status' = "traced"
  BY DEF PrimitiveInv, PartialEval
<1>2. UNCHANGED <<mlirAd, nArgs, nOuts, kept>>
  BY <1>1 DEF fnVars
<1>3. CASE eqn.prim = "primal" /\ eqn.wrap.mode = "ForwardMode" /\ MlirPartialEval
  <2>1. eqn # FreshEqn(nArgs, nOuts) /\ eqn.wrap # Nested
    BY <1>1, <1>3, FreshIs DEF NoWrap, Nested
  <2>2. ASSUME NEW a \in Actives, NEW live \in Lives PROVE eqn # ReverseEqn(nArgs, nOuts, a, live)
    <3>1. a \in SUBSET (1 .. nArgs)
      BY <1>1, ActivesAre
    <3>. QED BY <1>1, <1>3, <3>1, ReverseIs
  <2>3. PICK a \in Actives : mlirAd /\ eqn = ForwardEqn(nArgs, nOuts, a)
    BY <1>1, <1>3, <2>1, <2>2, FormsByPrim
  <2>4. a \in SUBSET (1 .. nArgs)
    BY <1>1, ActivesAre
  <2>5. eqn' = FreshEqn(nArgs, nOuts) \/ eqn' = LinearEqn(nArgs, nOuts, a)
    BY <1>1, <1>3, <2>3, <2>4, ForwardPartialEval
  <2>6. FirstLevel'
    BY <1>2, <2>3, <2>5 DEF FirstLevel, Actives
  <2>. QED BY <1>1, <2>6, TracedKeeps
<1>4. CASE eqn.prim = "fwd" /\ XlaPartialEval
  <2>1. ~mlirAd /\ eqn = FwdEqn(nArgs, nOuts)
    BY <1>1, <1>4, FormsByPrim
  <2>2. eqn' = AugEqn(nArgs, nOuts) \/ eqn' = ShadowEqn(nArgs, nOuts)
    BY <1>1, <1>4, <2>1, FwdPartialEval
  <2>3. FirstLevel'
    BY <1>2, <2>1, <2>2 DEF FirstLevel
  <2>. QED BY <1>1, <2>3, TracedKeeps
<1>. QED BY <1>3, <1>4 DEF PartialEval

\* Transposition.
LEMMA TransposeKeeps == ASSUME PrimitiveInv, Transpose PROVE PrimitiveInv'
<1>1. IsFn /\ FirstLevel /\ UNCHANGED <<fnVars, call>> /\ status = "traced" /\ eqn.prim = "shadow_aug"
  BY DEF PrimitiveInv, Transpose
<1>2. UNCHANGED <<mlirAd, nArgs, nOuts, kept>>
  BY <1>1 DEF fnVars
<1>3. nArgs \in Nat /\ nOuts \in Nat
  BY <1>1 DEF IsFn
<1>4. PICK live \in (SUBSET DOMAIN eqn.outs) \ {{}} :
        IF mlirAd
        THEN IF Len(eqn.outs) > Len(eqn.wrap.argTys) THEN status' = "IndexError" /\ UNCHANGED eqn
             ELSE MlirVjp(live) /\ UNCHANGED status
        ELSE IF live # DOMAIN eqn.outs THEN status' = "TypeError" /\ UNCHANGED eqn
             ELSE XlaVjp(live) /\ UNCHANGED status
  BY DEF Transpose
<1>5. ASSUME NEW a \in Actives, mlirAd, eqn = LinearEqn(nArgs, nOuts, a) PROVE PrimitiveInv'
  <2>1. a \in SUBSET (1 .. nArgs)
    BY <1>1, ActivesAre
  <2>2. /\ eqn.wrap.argTys = Acts(nArgs, a) /\ Len(Acts(nArgs, a)) = nArgs
        /\ eqn.outs = ResultTangents(nOuts)
    BY <1>1, <1>5, <2>1, LinearIs
  <2>3. Len(eqn.outs) = nOuts /\ DOMAIN eqn.outs = 1 .. nOuts
    BY <1>3, <2>2, CotangentsAre
  <2>4. CASE nOuts > nArgs
    <3>1. status' = "IndexError" /\ UNCHANGED eqn
      BY <1>4, <1>5, <2>2, <2>3, <2>4
    <3>2. Props'
      BY <1>2, <2>4, <3>1 DEF Props, OperandsMatch, ResultsMatch, AssertionsHold, FirstOrderRaisesOnly
    <3>. QED BY <1>1, <3>1, <3>2, EndKeeps
  <2>5. CASE ~(nOuts > nArgs)
    <3>1. MlirVjp(live) /\ status' = "traced"
      BY <1>1, <1>4, <1>5, <2>2, <2>3, <2>5
    <3>2. live \in Lives
      BY <1>4, <2>3 DEF Lives
    <3>3. eqn' = ReverseEqn(nArgs, nOuts, a, live)
      BY <1>1, <1>5, <2>1, <3>1, LinearTranspose
    <3>4. FirstLevel'
      BY <1>2, <1>5, <3>2, <3>3 DEF FirstLevel, Actives, Lives
    <3>. QED BY <1>1, <3>1, <3>4, TracedKeeps
  <2>. QED BY <2>4, <2>5
<1>6. CASE ~mlirAd /\ eqn = ShadowEqn(nArgs, nOuts)
  <2>1. DOMAIN eqn.outs = 1 .. nOuts /\ (XlaVjp(1 .. nOuts) => eqn' = RevEqn(nArgs, nOuts))
    BY <1>1, <1>6, ShadowTranspose
  <2>2. CASE live # DOMAIN eqn.outs
    <3>1. status' = "TypeError" /\ UNCHANGED eqn
      BY <1>4, <1>6, <2>2
    <3>2. nOuts > 1
      <4>1. live \in SUBSET (1 .. nOuts) /\ live # {} /\ live # 1 .. nOuts
        BY <1>4, <2>1, <2>2
      <4>2. SUFFICES ASSUME ~(nOuts > 1) PROVE FALSE
        OBVIOUS
      <4>3. \A j \in 1 .. nOuts : j = 1
        BY <1>3, <4>2
      <4>. QED BY <4>1, <4>3
    <3>3. Props'
      BY <1>2, <1>6, <3>1, <3>2 DEF Props, OperandsMatch, ResultsMatch, AssertionsHold, FirstOrderRaisesOnly
    <3>. QED BY <1>1, <3>1, <3>3, EndKeeps
  <2>3. CASE live = DOMAIN eqn.outs
    <3>1. XlaVjp(1 .. nOuts) /\ status' = "traced"
      BY <1>1, <1>4, <1>6, <2>1, <2>3
    <3>2. eqn' = RevEqn(nArgs, nOuts)
      BY <2>1, <3>1
    <3>3. FirstLevel'
      BY <1>2, <1>6, <3>2 DEF FirstLevel
    <3>. QED BY <1>1, <3>1, <3>3, TracedKeeps
  <2>. QED BY <2>2, <2>3
<1>. QED BY <1>1, <1>5, <1>6, FormsByPrim

\* What the lowering of a form that lowers right comes to.
LEMMA LowersRightKeeps ==
  ASSUME PrimitiveInv, LowerPrimal, LowersRight, eqn.wrap # Nested PROVE PrimitiveInv'
<1>1. IsFn /\ FirstLevel /\ UNCHANGED <<fnVars, eqn>>
  BY DEF PrimitiveInv, LowerPrimal
<1>. DEFINE W == Wrapped(UsedWrap)
<1>2. /\ UsedArgs = W.params /\ Len(W.outs) = Cardinality(UsedOuts) /\ SpreadResults(W.outs) = eqn.outs
      /\ ~(eqn.wrap = Nested \/ (eqn.wrap # NoWrap /\ Len(UsedWrap.argTys) # Len(Params)))
  BY DEF LowersRight
<1>3. IF eqn.wrap = Nested \/ (eqn.wrap # NoWrap /\ Len(UsedWrap.argTys) # Len(Params))
      THEN status' = "PipelineError" /\ UNCHANGED call
      ELSE IF Len(W.outs) # Cardinality(UsedOuts)
      THEN status' = "AssertionError" /\ UNCHANGED call
      ELSE /\ status' = "lowered"
           /\ call' = [given |-> UsedArgs, expected |-> W.params, results |-> SpreadResults(W.outs)]
  BY DEF LowerPrimal
<1>. HIDE DEF W
<1>4. status' = "lowered" /\ call' = [given |-> UsedArgs, expected |-> W.params, results |-> SpreadResults(W.outs)]
  BY <1>2, <1>3
<1>5. call'.given = call'.expected /\ call'.results = eqn.outs
  BY <1>2, <1>4
<1>6. Props'
  BY <1>1, <1>4, <1>5 DEF Props, OperandsMatch, ResultsMatch, AssertionsHold, FirstOrderRaisesOnly
<1>. QED BY <1>1, <1>6, EndKeeps

\* The lowering of the primitive whose pipeline is edited.
LEMMA LowerPrimalKeeps == ASSUME PrimitiveInv, LowerPrimal PROVE PrimitiveInv'
<1>1. IsFn /\ FirstLevel /\ UNCHANGED <<fnVars, eqn>> /\ eqn.prim = "primal"
  BY DEF PrimitiveInv, LowerPrimal
<1>2. CASE eqn = FreshEqn(nArgs, nOuts)
  <2>1. LowersRight
    BY <1>1, <1>2, LowerFresh
  <2>2. eqn.wrap # Nested
    BY <1>1, <1>2, FreshIs DEF NoWrap, Nested
  <2>. QED BY <2>1, <2>2, LowersRightKeeps
<1>3. CASE eqn.wrap = Nested
  <2>1. status' = "PipelineError"
    BY <1>3 DEF LowerPrimal
  <2>2. Props'
    BY <1>1, <1>3, <2>1 DEF Props, OperandsMatch, ResultsMatch, AssertionsHold, FirstOrderRaisesOnly
  <2>. QED BY <1>1, <2>2, EndKeeps
<1>4. ASSUME NEW a \in Actives, mlirAd, eqn = ForwardEqn(nArgs, nOuts, a) PROVE PrimitiveInv'
  <2>1. a \in SUBSET (1 .. nArgs)
    BY <1>1, ActivesAre
  <2>2. LowersRight
    BY <1>1, <1>4, <2>1, LowerForward
  <2>3. eqn.wrap # Nested
    BY <1>1, <1>4, <2>1, ForwardIs DEF Nested
  <2>. QED BY <2>2, <2>3, LowersRightKeeps
<1>5. ASSUME NEW a \in Actives, NEW live \in Lives, mlirAd, eqn = ReverseEqn(nArgs, nOuts, a, live)
      PROVE  PrimitiveInv'
  <2>1. a \in SUBSET kept /\ a \in SUBSET (1 .. nArgs) /\ live \in SUBSET (1 .. nOuts)
    BY <1>1, ActivesAre DEF Lives
  <2>2. LowersRight
    BY <1>1, <1>5, <2>1, LowerReverse
  <2>3. eqn.wrap # Nested
    BY <1>1, <1>5, <2>1, ReverseIs DEF Nested
  <2>. QED BY <2>2, <2>3, LowersRightKeeps
<1>. QED BY <1>1, <1>2, <1>3, <1>4, <1>5, FormsByPrim

\* The lowering of fwd.
LEMMA LowerFwdKeeps == ASSUME PrimitiveInv, LowerFwd PROVE PrimitiveInv'
<1>1. IsFn /\ FirstLevel /\ UNCHANGED <<fnVars, eqn>> /\ eqn.prim = "fwd" /\ status' = "lowered"
  BY DEF PrimitiveInv, LowerFwd
<1>. DEFINE g == Gather(Len(eqn.args), LAMBDA i : IF (i + 1) \div 2 \in kept THEN <<eqn.args[i]>> ELSE <<>>)
<1>2. call' = [given |-> g, expected |-> WithTangents(Params), results |-> WithTangents(Outs)]
  BY Zenon DEF LowerFwd
<1>3. eqn = FwdEqn(nArgs, nOuts)
  BY <1>1, FormsByPrim
<1>4. g = WithTangents(Params) /\ WithTangents(Outs) = eqn.outs
  BY <1>1, <1>3, LowerFwdIs, Zenon
<1>. HIDE DEF g
<1>5. call'.given = call'.expected /\ call'.results = eqn.outs
  BY <1>2, <1>4
<1>6. Props'
  BY <1>1, <1>5 DEF Props, OperandsMatch, ResultsMatch, AssertionsHold, FirstOrderRaisesOnly
<1>. QED BY <1>1, <1>6, EndKeeps

\* The lowering of aug.
LEMMA LowerAugKeeps == ASSUME PrimitiveInv, LowerAug PROVE PrimitiveInv'
<1>1. IsFn /\ FirstLevel /\ UNCHANGED <<fnVars, eqn>> /\ eqn.prim = "aug" /\ status' = "lowered"
  BY DEF PrimitiveInv, LowerAug
<1>. DEFINE g == Gather(Len(eqn.args), LAMBDA i : IF i \in kept THEN <<eqn.args[i]>> ELSE <<>>)
<1>2. call' = [given |-> g, expected |-> Params, results |-> Append(Outs, Tape)]
  BY Zenon DEF LowerAug
<1>3. eqn = AugEqn(nArgs, nOuts)
  BY <1>1, FormsByPrim
<1>4. g = Params /\ Append(Outs, Tape) = eqn.outs
  BY <1>1, <1>3, LowerAugIs, Zenon
<1>. HIDE DEF g
<1>5. call'.given = call'.expected /\ call'.results = eqn.outs
  BY <1>2, <1>4
<1>6. Props'
  BY <1>1, <1>5 DEF Props, OperandsMatch, ResultsMatch, AssertionsHold, FirstOrderRaisesOnly
<1>. QED BY <1>1, <1>6, EndKeeps

\* The lowering of rev; zeros stand for the gradients of unused arguments.
LEMMA LowerRevKeeps == ASSUME PrimitiveInv, LowerRev PROVE PrimitiveInv'
<1>1. IsFn /\ FirstLevel /\ UNCHANGED <<fnVars, eqn>> /\ eqn.prim = "rev" /\ status' = "lowered"
  BY DEF PrimitiveInv, LowerRev
<1>. DEFINE n == nArgs
            r == [i \in DOMAIN eqn.outs |->
                    IF i \in kept THEN Grad(KeptSeq[Cardinality({k \in kept : k <= i})]) ELSE ZeroFor(i)]
<1>2. call' = [given |-> eqn.args, expected |-> <<Tape>> \o [j \in 1 .. nOuts |-> Cotangent(j)], results |-> r]
  BY Zenon DEF LowerRev
<1>3. eqn = RevEqn(nArgs, nOuts)
  BY <1>1, FormsByPrim
<1>4. /\ eqn.args = <<Tape>> \o [j \in 1 .. nOuts |-> Cotangent(j)]
      /\ DOMAIN eqn.outs = 1 .. n /\ Len(eqn.outs) = n
      /\ \A i \in 1 .. n :
           /\ eqn.outs[i] = Grad(i)
           /\ i \in kept => KeptSeq[Cardinality({k \in kept : k <= i})] = i
  BY <1>1, <1>3, LowerRevIs
<1>5. Len(r) = n /\ \A i \in 1 .. n : r[i] = IF i \in kept THEN eqn.outs[i] ELSE ZeroFor(i)
  BY <1>1, <1>4 DEF IsFn
<1>6. \A i \in 1 .. n : eqn.outs[i].role = "grad" /\ eqn.outs[i].of = i /\ ZeroFor(i).role = "zero" /\ ZeroFor(i).of = i
  <2>1. \A i \in 1 .. n : /\ Grad(i).role = "grad" /\ Grad(i).of = i
                          /\ ZeroFor(i).role = "zero" /\ ZeroFor(i).of = i
    BY DEF Grad, ZeroFor
  <2>2. \A i \in 1 .. n : eqn.outs[i] = Grad(i)
    BY <1>4
  <2>. QED BY ONLY <2>1, <2>2
<1>. HIDE DEF r
<1>7. call'.given = call'.expected /\ call'.results = r
  BY <1>2, <1>4
<1>8. ResultsMatch'
  <2>1. Len(call'.results) = Len(eqn'.outs)
    BY <1>1, <1>4, <1>5, <1>7
  <2>2. ASSUME NEW i \in DOMAIN eqn'.outs
        PROVE  \/ call'.results[i] = eqn'.outs[i]
               \/ /\ call'.results[i].role = "zero" /\ eqn'.outs[i].role = "grad"
                  /\ eqn'.outs[i].of = call'.results[i].of /\ eqn'.outs[i].of \notin kept'
    <3>1. eqn' = eqn /\ kept' = kept /\ i \in 1 .. n
      BY <1>1, <1>4 DEF fnVars
    <3>2. CASE i \in kept
      BY <1>5, <1>7, <3>1, <3>2
    <3>3. CASE i \notin kept
      BY <1>5, <1>6, <1>7, <3>1, <3>3
    <3>. QED BY <3>2, <3>3
  <2>. QED BY <2>1, <2>2 DEF ResultsMatch
<1>9. Props'
  BY <1>1, <1>7, <1>8 DEF Props, OperandsMatch, AssertionsHold, FirstOrderRaisesOnly
<1>. QED BY <1>1, <1>9, EndKeeps

\* Init => IInv and IInv /\ [Next]_vars => IInv'.
THEOREM PrimitiveInvariant == Spec => []PrimitiveInv
<1>1. Init => PrimitiveInv
  <2>. SUFFICES ASSUME Init PROVE PrimitiveInv
    OBVIOUS
  <2>1. IsFn
    <3>1. mlirAd \in BOOLEAN
      BY MlirAdAssumption DEF Init
    <3>2. nArgs \in Nat \ {0} /\ nOuts \in Nat \ {0} /\ kept \in SUBSET (1 .. nArgs)
      BY BoundsAssumption DEF Init
    <3>. QED BY <3>1, <3>2 DEF IsFn
  <2>2. eqn = FreshEqn(nArgs, nOuts)
    BY Zenon DEF Init, FreshEqn, Ins, Results
  <2>3. status = "traced"
    BY DEF Init
  <2>. QED BY <2>1, <2>2, <2>3
         DEF PrimitiveInv, FirstLevel, OperandsMatch, ResultsMatch, AssertionsHold, FirstOrderRaisesOnly
<1>2. PrimitiveInv /\ [Next]_vars => PrimitiveInv'
  <2>. SUFFICES ASSUME PrimitiveInv, [Next]_vars PROVE PrimitiveInv'
    OBVIOUS
  <2>1. CASE UNCHANGED vars
    BY <2>1 DEF vars, PrimitiveInv, IsFn, FirstLevel, Actives, Lives, OperandsMatch, ResultsMatch,
                AssertionsHold, FirstOrderRaisesOnly
  <2>2. CASE Next
    BY <2>2, JvpKeeps, PartialEvalKeeps, TransposeKeeps, LowerPrimalKeeps, LowerFwdKeeps,
       LowerAugKeeps, LowerRevKeeps DEF Next
  <2>. QED BY <2>1, <2>2
<1>. QED BY <1>1, <1>2, PTL DEF Spec

\* Whatever was differentiated, and whichever arguments the function uses, the
\* transformed function is given the operands it expects, in its order.
THEOREM OperandsReachTheirParameters == Spec => []OperandsMatch
<1>1. PrimitiveInv => OperandsMatch
  BY DEF PrimitiveInv
<1>. QED BY <1>1, PrimitiveInvariant, PTL

\* Every result of a lowered call is what JAX takes it for; only the gradient of
\* an argument the function does not use is replaced by zeros.
THEOREM ResultsReachTheirTakers == Spec => []ResultsMatch
<1>1. PrimitiveInv => ResultsMatch
  BY DEF PrimitiveInv
<1>. QED BY <1>1, PrimitiveInvariant, PTL

\* The assertions of the lowering hold for every function, and a pipeline that
\* does not fit is one that was edited for a second level.
THEOREM AssertionsNeverFail == Spec => []AssertionsHold
<1>1. PrimitiveInv => AssertionsHold
  BY DEF PrimitiveInv
<1>. QED BY <1>1, PrimitiveInvariant, PTL

\* A rule raises for nothing but a second level, more results than arguments or a
\* cotangent left out.
THEOREM RaisesForTheUnsupportedOnly == Spec => []FirstOrderRaisesOnly
<1>1. PrimitiveInv => FirstOrderRaisesOnly
  BY DEF PrimitiveInv
<1>. QED BY <1>1, PrimitiveInvariant, PTL
=============================================================================

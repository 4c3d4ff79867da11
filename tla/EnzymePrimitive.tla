--------------------------- MODULE EnzymePrimitive ---------------------------
(***************************************************************************)
(* The JAX primitives of src/src/enzyme_ad/jax/primitives.py: how one call *)
(* of a function is carried through JAX's transformations (jvp, partial    *)
(* evaluation, transposition) and lowered.  An equation keeps its operands *)
(* and maps from operand and result positions to the arguments of the      *)
(* function; every rule rewrites the maps, and the lowering drops what the *)
(* function does not use.  What must come out right is who is who.         *)
(*                                                                         *)
(* Two pipelines: JaXPipeline edits the pass pipeline of one primitive,    *)
(* XLAPipeline (and C++ sources) go through primitives of their own.       *)
(* Positions are 1-based here, 0-based in the source.                      *)
(***************************************************************************)
EXTENDS Integers, Sequences, FiniteSets, SequencesExt

CONSTANTS
  MaxArgs, MaxOuts,  \* bounds on the function's arguments and results
  MlirAd             \* the values of pipeline_options.mlir_ad() to consider

ASSUME BoundsAssumption == MaxArgs \in Nat \ {0} /\ MaxOuts \in Nat \ {0}
ASSUME MlirAdAssumption == MlirAd \subseteq BOOLEAN

\* An operand stands for argument i, its tangent, the cotangent of result j, or
\* the tape.  A result stands for result j, its tangent, the gradient of
\* argument i, the tape, or zeros.
Value == [role : {"in", "tangent", "cotangent", "tape", "out", "outTangent", "grad", "zero"},
          of : 0 .. MaxArgs + MaxOuts]
In(i) == [role |-> "in", of |-> i]
Tangent(i) == [role |-> "tangent", of |-> i]
Cotangent(j) == [role |-> "cotangent", of |-> j]
Out(j) == [role |-> "out", of |-> j]
OutTangent(j) == [role |-> "outTangent", of |-> j]
Grad(i) == [role |-> "grad", of |-> i]
Tape == [role |-> "tape", of |-> 0]
ZeroFor(i) == [role |-> "zero", of |-> i]

\* The enzyme-wrap pass of the pipeline: none, one, or a text edited for a
\* second level of differentiation.
NoWrap == [mode |-> "none", argTys |-> <<>>, retTys |-> <<>>]
Nested == [mode |-> "nested", argTys |-> <<>>, retTys |-> <<>>]

VARIABLES
  mlirAd, nArgs, nOuts,
  kept,     \* the arguments the function uses (_kept_var_idx)
  eqn,      \* the equation: prim, args, inIdx, outIdx (0 for -1), wrap, and
            \* outs, what JAX takes each of its results for
  status,   \* "traced", "lowered", or why the process raised
  call      \* once lowered: operands given, operands expected, results

vars == <<mlirAd, nArgs, nOuts, kept, eqn, status, call>>
fnVars == <<mlirAd, nArgs, nOuts, kept>>

NoCall == [given |-> <<>>, expected |-> <<>>, results |-> <<>>]

Raises == {"KeyError", "IndexError", "TypeError", "AssertionError", "PipelineError"}

-----------------------------------------------------------------------------

\* The pieces for 1, 2, .. n one after the other: a loop that appends.
Gather(n, Piece(_)) == FlattenSeq([i \in 1 .. n |-> Piece(i)])

\* The members of S up to n in order.
Ascending(n, S) == Gather(n, LAMBDA i : IF i \in S THEN <<i>> ELSE <<>>)

Dup(acts) == {i \in DOMAIN acts : acts[i] = "dup"}

\* Mutant: the tangents are not skipped.
PlaceUnskipped(acts, i) == i

\* Where the i-th primal stands: every earlier primal that is dup is followed
\* by its tangent.
Place(acts, i) == i + Cardinality({k \in Dup(acts) : k < i})

\* enzyme_jax_ir: arguments the function does not use are replaced by zeros.
Init ==
  /\ mlirAd \in MlirAd /\ nArgs \in 1 .. MaxArgs /\ nOuts \in 1 .. MaxOuts
  /\ kept \in SUBSET (1 .. nArgs)
  /\ eqn = [prim |-> "primal", args |-> [i \in 1 .. nArgs |-> In(i)],
            inIdx |-> [i \in 1 .. nArgs |-> i], outIdx |-> [j \in 1 .. nOuts |-> 0],
            wrap |-> NoWrap, outs |-> [j \in 1 .. nOuts |-> Out(j)]]
  /\ status = "traced" /\ call = NoCall

-----------------------------------------------------------------------------
(* enzyme_jvp *)

\* The operands whose tangent can be other than a symbolic zero.
Differentiable ==
  {i \in DOMAIN eqn.args : i \notin DOMAIN eqn.inIdx \/ eqn.inIdx[i] \in kept}

TangentOf(v) == [v EXCEPT !.role = IF v.role = "out" THEN "outTangent" ELSE "tangent"]

\* Two results for each, the value and its tangent.
WithTangents(outs) ==
  Gather(Len(outs), LAMBDA j : <<outs[j], TangentOf(outs[j])>>)

\* Mutant: the tangents are not entered in the map.
MlirJvpUnmapped(active) ==
  LET Pair(i) == IF i \in active THEN <<eqn.args[i], TangentOf(eqn.args[i])>> ELSE <<eqn.args[i]>>
      n == Len(eqn.args)
      m == Len(eqn.outs)
  IN eqn' = [prim |-> "primal", args |-> Gather(n, Pair), inIdx |-> eqn.inIdx,
             outIdx |-> [j \in 1 .. 2 * m |-> eqn.outIdx[(j + 1) \div 2]],
             wrap |-> IF eqn.wrap # NoWrap THEN Nested
                      ELSE [mode |-> "ForwardMode",
                            argTys |-> [i \in 1 .. n |-> IF i \in active THEN "dup" ELSE "const"],
                            retTys |-> [j \in 1 .. m |-> "dup"]],
             outs |-> WithTangents(eqn.outs)]

MlirJvp(active) ==
  LET Pair(i) == IF i \in active THEN <<eqn.args[i], TangentOf(eqn.args[i])>> ELSE <<eqn.args[i]>>
      Index(i) == IF i \in active THEN <<eqn.inIdx[i], eqn.inIdx[i]>> ELSE <<eqn.inIdx[i]>>
      n == Len(eqn.args)
      m == Len(eqn.outs)
  IN eqn' = [prim |-> "primal", args |-> Gather(n, Pair), inIdx |-> Gather(n, Index),
             outIdx |-> [j \in 1 .. 2 * m |-> eqn.outIdx[(j + 1) \div 2]],
             wrap |-> IF eqn.wrap # NoWrap THEN Nested
                      ELSE [mode |-> "ForwardMode",
                            argTys |-> [i \in 1 .. n |-> IF i \in active THEN "dup" ELSE "const"],
                            retTys |-> [j \in 1 .. m |-> "dup"]],
             outs |-> WithTangents(eqn.outs)]

\* Zero tangents are materialised: every operand gets one.
XlaJvp ==
  eqn' = [eqn EXCEPT
    !.prim = "fwd",
    !.args = Gather(Len(eqn.args), LAMBDA i : <<eqn.args[i], TangentOf(eqn.args[i])>>),
    !.outs = WithTangents(eqn.outs)]

Jvp ==
  /\ status = "traced" /\ eqn.prim = "primal" /\ eqn.wrap # Nested
  /\ \E active \in (SUBSET Differentiable) \ {{}} :
       IF ~mlirAd THEN XlaJvp /\ UNCHANGED status
       \* in_idx_map[idx] of a cotangent, which no transposition enters in the map
       ELSE IF Len(eqn.inIdx) < Len(eqn.args) THEN status' = "KeyError" /\ UNCHANGED eqn
       ELSE MlirJvp(active) /\ UNCHANGED status
  /\ UNCHANGED <<fnVars, call>>

-----------------------------------------------------------------------------
(* primal_partial_eval and fwd_partial_eval, with known primals and unknown   *)
(* tangents: a known equation and a linear one, of which we follow either.    *)

Firsts(s) == [j \in 1 .. Len(s) \div 2 |-> s[2 * j - 1]]
Seconds(s) == [j \in 1 .. Len(s) \div 2 |-> s[2 * j]]

\* k // 2 for the even k.
MapOfPrimals(s) == Firsts(s)

MlirPartialEval ==
  LET acts == eqn.wrap.argTys
      n == Len(acts)
      primals == [i \in 1 .. n |-> eqn.args[Place(acts, i)]]
      dups == Ascending(n, Dup(acts))
      tangents == [k \in 1 .. Len(dups) |-> eqn.args[Place(acts, dups[k]) + 1]]
      known == [prim |-> "primal", args |-> primals,
                inIdx |-> [i \in 1 .. n |-> eqn.inIdx[Place(acts, i)]],
                outIdx |-> MapOfPrimals(eqn.outIdx), wrap |-> NoWrap, outs |-> Firsts(eqn.outs)]
      \* The source, with its maps for interleaved operands, goes along as it is.
      linear == [eqn EXCEPT !.prim = "shadow_aug", !.args = primals \o tangents,
                            !.outs = Seconds(eqn.outs)]
  IN eqn' \in {known, linear}

XlaPartialEval ==
  LET aug == [eqn EXCEPT !.prim = "aug", !.args = Firsts(eqn.args),
                         !.outs = Append(Firsts(eqn.outs), Tape)]
      linear == [eqn EXCEPT !.prim = "shadow_aug",
                            !.args = <<Tape>> \o Firsts(eqn.args) \o Seconds(eqn.args),
                            !.outs = Seconds(eqn.outs)]
  IN eqn' \in {aug, linear}

PartialEval ==
  /\ status = "traced"
  /\ \/ eqn.prim = "primal" /\ eqn.wrap.mode = "ForwardMode" /\ MlirPartialEval
     \/ eqn.prim = "fwd" /\ XlaPartialEval
  /\ UNCHANGED <<fnVars, status, call>>

-----------------------------------------------------------------------------
(* enzyme_vjp: live are the results whose cotangent is not a symbolic zero    *)

Cotangents(live) == Gather(Len(eqn.outs), LAMBDA j : IF j \in live THEN <<Cotangent(eqn.outs[j].of)>> ELSE <<>>)

\* JAX takes the k-th gradient for that of the k-th linear operand.
GradsFor(first, n) == [k \in 1 .. n |-> Grad(eqn.args[first + k].of)]

MlirVjp(live) ==
  LET acts == eqn.wrap.argTys
      n == Len(acts)
      dups == Ascending(n, Dup(acts))
  IN eqn' = [prim |-> "primal", args |-> SubSeq(eqn.args, 1, n) \o Cotangents(live),
             inIdx |-> [i \in 1 .. n |-> eqn.inIdx[Place(acts, i)]],
             outIdx |-> [k \in 1 .. Len(dups) |-> eqn.inIdx[Place(acts, dups[k])]],
             wrap |-> [mode |-> "ReverseModeCombined",
                       argTys |-> [i \in 1 .. n |-> IF acts[i] = "dup" THEN "active" ELSE "const"],
                       retTys |-> [j \in DOMAIN eqn.outs |-> IF j \in live THEN "active" ELSE "const"]],
             outs |-> GradsFor(n, Len(dups))]

XlaVjp(live) ==
  LET n == (Len(eqn.args) - 1) \div 2
  IN eqn' = [eqn EXCEPT !.prim = "rev", !.args = <<Tape>> \o Cotangents(live),
                        !.outs = GradsFor(1 + n, n)]

Transpose ==
  /\ status = "traced" /\ eqn.prim = "shadow_aug"
  /\ \E live \in (SUBSET DOMAIN eqn.outs) \ {{}} :
       IF mlirAd
       \* acts[i], an activity per argument, is read for every result
       THEN IF Len(eqn.outs) > Len(eqn.wrap.argTys) THEN status' = "IndexError" /\ UNCHANGED eqn
            ELSE MlirVjp(live) /\ UNCHANGED status
       \* a symbolic zero is no operand of a primitive
       ELSE IF live # DOMAIN eqn.outs THEN status' = "TypeError" /\ UNCHANGED eqn
            ELSE XlaVjp(live) /\ UNCHANGED status
  /\ UNCHANGED <<fnVars, call>>

-----------------------------------------------------------------------------
(* Lowering *)

\* enzyme-wrap, and the kernels built for the other primitives: the operands a
\* transformed function expects and the results it gives.
KeptSeq == Ascending(nArgs, kept)
Params == [i \in 1 .. Len(KeptSeq) |-> In(KeptSeq[i])]
Outs == [j \in 1 .. nOuts |-> Out(j)]

Wrapped(wrap) ==
  LET Given(i) == IF wrap.argTys[i] = "dup" THEN <<Params[i], Tangent(Params[i].of)>> ELSE <<Params[i]>>
      Seed(j) == IF wrap.retTys[j] = "active" THEN <<Cotangent(j)>> ELSE <<>>
      Gradient(i) == IF wrap.argTys[i] = "active" THEN <<Grad(Params[i].of)>> ELSE <<>>
      n == Len(Params)
  IN CASE wrap.mode = "none" -> [params |-> Params, outs |-> Outs]
       [] wrap.mode = "ForwardMode" -> [params |-> Gather(n, Given), outs |-> WithTangents(Outs)]
       [] OTHER -> [params |-> Params \o Gather(nOuts, Seed), outs |-> Gather(n, Gradient)]

\* Operands of dropped arguments are dropped; those not in the map are seeds.
UsedArgs ==
  Gather(Len(eqn.args), LAMBDA i :
    IF i \notin DOMAIN eqn.inIdx \/ eqn.inIdx[i] \in kept THEN <<eqn.args[i]>> ELSE <<>>)

\* Mutant: the pipeline keeps the activities of dropped arguments.
UsedWrapUnfiltered == eqn.wrap

\* The activities of the arguments that are left.
UsedWrap ==
  IF kept = {eqn.inIdx[i] : i \in DOMAIN eqn.inIdx} THEN eqn.wrap
  ELSE [eqn.wrap EXCEPT !.argTys =
          Gather(Len(@), LAMBDA i : IF i \in kept THEN <<eqn.wrap.argTys[i]>> ELSE <<>>)]

UsedOuts == {j \in DOMAIN eqn.outIdx : eqn.outIdx[j] = 0 \/ eqn.outIdx[j] \in kept}

\* Results go to the positions that were not dropped, zeros to the others.
SpreadResults(outs) ==
  [j \in DOMAIN eqn.outIdx |->
     IF j \in UsedOuts THEN outs[Cardinality({i \in UsedOuts : i <= j})] ELSE ZeroFor(eqn.outIdx[j])]

\* _enzyme_primal_lowering; the asserted lengths are those of the maps and the
\* results of the transformed function.
LowerPrimal ==
  /\ status = "traced" /\ eqn.prim = "primal"
  /\ IF eqn.wrap = Nested \/ (eqn.wrap # NoWrap /\ Len(UsedWrap.argTys) # Len(Params))
     THEN status' = "PipelineError" /\ UNCHANGED call
     ELSE IF Len(Wrapped(UsedWrap).outs) # Cardinality(UsedOuts)
     THEN status' = "AssertionError" /\ UNCHANGED call
     ELSE /\ status' = "lowered"
          /\ call' = [given |-> UsedArgs, expected |-> Wrapped(UsedWrap).params,
                      results |-> SpreadResults(Wrapped(UsedWrap).outs)]
  /\ UNCHANGED <<fnVars, eqn>>

\* Operand 2i - 1 and 2i belong to argument i.
LowerFwd ==
  /\ status = "traced" /\ eqn.prim = "fwd"
  /\ status' = "lowered"
  /\ call' = [given |-> Gather(Len(eqn.args), LAMBDA i :
                          IF (i + 1) \div 2 \in kept THEN <<eqn.args[i]>> ELSE <<>>),
              expected |-> WithTangents(Params), results |-> WithTangents(Outs)]
  /\ UNCHANGED <<fnVars, eqn>>

LowerAug ==
  /\ status = "traced" /\ eqn.prim = "aug"
  /\ status' = "lowered"
  /\ call' = [given |-> Gather(Len(eqn.args), LAMBDA i : IF i \in kept THEN <<eqn.args[i]>> ELSE <<>>),
              expected |-> Params, results |-> Append(Outs, Tape)]
  /\ UNCHANGED <<fnVars, eqn>>

\* Mutant: the gradients of used arguments are not spread out.
LowerRevUnspread ==
  /\ status = "traced" /\ eqn.prim = "rev"
  /\ status' = "lowered"
  /\ call' = [given |-> eqn.args,
              expected |-> <<Tape>> \o [j \in 1 .. nOuts |-> Cotangent(j)],
              results |-> [i \in DOMAIN eqn.outs |->
                IF i <= Len(KeptSeq) THEN Grad(KeptSeq[i]) ELSE ZeroFor(i)]]
  /\ UNCHANGED <<fnVars, eqn>>

\* The kernel gives the gradients of used arguments; the others are zero.
LowerRev ==
  /\ status = "traced" /\ eqn.prim = "rev"
  /\ status' = "lowered"
  /\ call' = [given |-> eqn.args,
              expected |-> <<Tape>> \o [j \in 1 .. nOuts |-> Cotangent(j)],
              results |-> [i \in DOMAIN eqn.outs |->
                IF i \in kept THEN Grad(KeptSeq[Cardinality({k \in kept : k <= i})]) ELSE ZeroFor(i)]]
  /\ UNCHANGED <<fnVars, eqn>>

Next == Jvp \/ PartialEval \/ Transpose \/ LowerPrimal \/ LowerFwd \/ LowerAug \/ LowerRev

Spec == Init /\ [][Next]_vars

-----------------------------------------------------------------------------
(* Properties *)

\* Whatever was done to the call, the transformed function is given the values
\* it expects, in its order: arguments, tangents beside them, cotangents last.
OperandsMatch == status = "lowered" => call.given = call.expected

\* Every result is what JAX takes it for; zeros stand only for the gradient of
\* an argument the function does not use.
ResultsMatch ==
  status = "lowered" =>
    /\ Len(call.results) = Len(eqn.outs)
    /\ \A j \in DOMAIN eqn.outs :
         \/ call.results[j] = eqn.outs[j]
         \/ /\ call.results[j].role = "zero" /\ eqn.outs[j].role = "grad"
            /\ eqn.outs[j].of = call.results[j].of /\ eqn.outs[j].of \notin kept

\* Lines 557, 677 and 1439 of primitives.py: the assertions of the lowering and of the
\* transposition hold, and a pipeline with one level fits the function.
AssertionsHold ==
  /\ status # "AssertionError"
  /\ status = "PipelineError" => eqn.wrap = Nested

\* The rules raise for nothing but what they do not support: a second level, a
\* function with more results than arguments, a cotangent left out.
FirstOrderRaisesOnly ==
  /\ status = "KeyError" => eqn.wrap.mode = "ReverseModeCombined"
  /\ status = "IndexError" => nOuts > nArgs
  /\ status = "TypeError" => ~mlirAd /\ nOuts > 1
=============================================================================

----------------------------- MODULE WhileLoopInfo -----------------------------
(***************************************************************************)
(* What src/src/enzyme_ad/jax/Implementations/WhileLoopInfo.cpp finds out  *)
(* about a stablehlo.while, the pattern RemoveNoOpsFromWhileLoop of        *)
(* Passes/EnzymeHLOOpt.cpp that rewrites the body on the strength of it,   *)
(* and the execution of the loop.                                          *)
(*                                                                         *)
(* The body is a sequence of integer operations in two's complement.       *)
(* Value 0 is the induction variable, value n > 0 the result of the n-th   *)
(* operation. An operand is a value, a constant, or an argument the body   *)
(* passes on unchanged (which an analysis may read as its initial value).  *)
(* Shapes are those of scalars, so reshapes are left out.                  *)
(***************************************************************************)
EXTENDS Integers, Sequences, FiniteSets

CONSTANTS
  Width,       \* bits of the induction variable
  Loops,       \* the loops that may be given
  DataValues,  \* what an operation "load" may yield
  MaxIters     \* iterations followed

\* One bit holds 0 and -1 only, not a step of one.
ASSUME WidthAssumption == Width \in Nat \ {0, 1}
ASSUME MaxItersAssumption == MaxIters \in Nat

VARIABLES
  loop,      \* the loop as given: start, limit, arg, body, inc, known
  body,      \* its operations, rewritten
  alias,     \* the operand that stands for the result of each operation
  phase,     \* what the pass is doing
  affine,    \* affineIndexInfo
  work,      \* worklist of the propagation
  guessed,   \* values whose entry derives from none: see SliceOfIota
  bounds,    \* boundsMap
  visited,   \* operations the propagation of bounds has visited
  marks,     \* attributes enzymexla.bounds
  todo,      \* operations still to be rewritten in this round
  changed,   \* this round changed something
  exact,     \* no bound wrapped around and no rewrite was of a kind that is wrong
  iv, iters, \* the induction variable, and iterations run
  data,      \* what "load" yields in this iteration
  clean      \* no operation of an earlier iteration left its width
analysis == <<affine, work, guessed>>
ranges == <<bounds, visited, marks, todo, changed, exact>>
run == <<iv, iters, data, clean>>
vars == <<loop, body, alias, phase, analysis, ranges, run>>

-----------------------------------------------------------------------------
(* Integers of w bits, and operations on them                              *)

Wrap(x, w) == ((x + 2^(w - 1)) % 2^w) - 2^(w - 1)

Least(S) == CHOOSE x \in S : \A y \in S : x <= y
Greatest(S) == CHOOSE x \in S : \A y \in S : x >= y
Magnitude(x) == IF x < 0 THEN -x ELSE x

\* Division of C++ and of StableHLO: towards zero. A division by zero has
\* no result to speak of; zero stands for it.
Quotient(a, b) ==
  IF b = 0 THEN 0
  ELSE IF (a < 0) = (b < 0) THEN Magnitude(a) \div Magnitude(b)
  ELSE -(Magnitude(a) \div Magnitude(b))
Remainder(a, b) == a - b * Quotient(a, b)

Holds(dir, a, b) ==
  CASE dir = "EQ" -> a = b [] dir = "NE" -> a # b [] dir = "GE" -> a >= b
    [] dir = "GT" -> a > b [] dir = "LE" -> a <= b [] dir = "LT" -> a < b

Val(n) == [k |-> "val", v |-> n]
Cst(c) == [k |-> "cst", v |-> c]
Arg == [k |-> "arg", v |-> 0]

\* The result of an operation on operands a, before it is cut to its width.
Result(o, a, load) ==
  CASE o.op = "add" -> a[1] + a[2]
    [] o.op = "sub" -> a[1] - a[2]
    [] o.op = "mul" -> a[1] * a[2]
    [] o.op = "div" -> Quotient(a[1], a[2])
    [] o.op = "rem" -> Remainder(a[1], a[2])
    [] o.op = "min" -> Least({a[1], a[2]})
    [] o.op = "max" -> Greatest({a[1], a[2]})
    [] o.op = "neg" -> -a[1]
    [] o.op = "abs" -> Magnitude(a[1])
    [] o.op = "convert" -> a[1]
    [] o.op = "clamp" -> Least({Greatest({a[1], a[2]}), a[3]})
    [] o.op = "compare" -> IF Holds(o.dir, a[1], a[2]) THEN 1 ELSE 0
    [] o.op = "iota" -> o.first + o.stride * Least({Greatest({a[1], 0}), o.size - 1})
    [] o.op = "load" -> load

Operand(x, vals, arg) == CASE x.k = "val" -> vals[x.v] [] x.k = "cst" -> x.v [] x.k = "arg" -> arg
Operands(o, vals, arg) == [j \in DOMAIN o.in |-> Operand(o.in[j], vals, arg)]

\* The values of an iteration of the operations ops in the place of the body of l.
Values(l, ops, i, load) ==
  LET v[n \in 0 .. Len(ops)] ==
        IF n = 0 THEN i ELSE Wrap(Result(ops[n], Operands(ops[n], v, l.arg), load), ops[n].w)
  IN  v

\* No result of the body of l left its width and nothing was divided by zero;
\* an index of a slice of an iota was within it.
IsClean(l, i, load) ==
  LET v == Values(l, l.body, i, load)
  IN  \A n \in DOMAIN l.body :
        LET o == l.body[n]
            a == Operands(o, v, l.arg)
        IN  /\ Result(o, a, load) = v[n]
            /\ o.op \in {"div", "rem"} => a[2] # 0
            /\ o.op = "iota" => a[1] \in 0 .. o.size - 1

-----------------------------------------------------------------------------
(* The loops that may be given: what the verifiers of the operations ask   *)

Signed(w) == -(2^(w - 1)) .. 2^(w - 1) - 1
\* The numbers up to w have the powers of two they should.
Doubling(w) == 2^0 = 1 /\ \A k \in 1 .. w : 2^k = 2 * 2^(k - 1)

OperandSet == [k : {"val", "cst", "arg"}, v : Int]
UnaryNames == {"neg", "abs", "convert", "iota"}
BinaryNames == {"add", "sub", "mul", "div", "rem", "min", "max", "compare"}
Directions == {"EQ", "NE", "GE", "GT", "LE", "LT"}

\* An operation has as many operands as it takes, each computed before it.
WellFormed(ops, n) ==
  LET o == ops[n]
  IN  /\ {"op", "in", "w"} \subseteq DOMAIN o
      /\ o.w \in Nat \ {0}
      /\ o.in \in Seq(OperandSet)
      /\ \/ o.op \in UnaryNames /\ Len(o.in) = 1
         \/ o.op \in BinaryNames /\ Len(o.in) = 2
         \/ o.op = "clamp" /\ Len(o.in) = 3
         \/ o.op = "load" /\ Len(o.in) = 0
      /\ o.op = "compare" => "dir" \in DOMAIN o /\ o.dir \in Directions
      /\ o.op = "iota" => /\ {"first", "stride", "size"} \subseteq DOMAIN o
                          /\ o.first \in Int /\ o.stride \in Int /\ o.size \in Nat \ {0}
      /\ \A j \in DOMAIN o.in : o.in[j].k = "val" => o.in[j].v \in 0 .. n - 1

\* Operands are as wide as the operation, conversions and indices apart.
ValueWidth(l, v) == IF v = 0 THEN Width ELSE l.body[v].w
WellTypedOperand(l, x, w) ==
  /\ x.k = "val" => ValueWidth(l, x.v) = w
  /\ x.k = "cst" => x.v \in Signed(w)
  /\ x.k = "arg" => l.arg \in Signed(w)
HasTypedOperands(o) == o.op \notin {"convert", "iota"}

WellFormedLoop(l) ==
  /\ l.start \in Signed(Width) /\ l.limit \in Signed(Width) /\ l.arg \in Int
  /\ Len(l.body) \in Nat /\ DOMAIN l.body = 1 .. Len(l.body)
  /\ l.inc \in DOMAIN l.body /\ l.body[l.inc].w = Width
  /\ \A n \in DOMAIN l.body :
       /\ WellFormed(l.body, n)
       /\ Doubling(l.body[n].w)
       /\ HasTypedOperands(l.body[n]) =>
            \A j \in DOMAIN l.body[n].in : WellTypedOperand(l, l.body[n].in[j], l.body[n].w)

ASSUME LoopsAssumption == Doubling(Width) /\ \A l \in Loops : WellFormedLoop(l)
ASSUME DataAssumption == DataValues \subseteq Int

-----------------------------------------------------------------------------
Ops == DOMAIN body
\* Operations that have not been replaced, and those of them that use a value.
Live(n) == alias[n] = Val(n)
Users(x) == {n \in Ops : Live(n) /\ \E j \in DOMAIN body[n].in : body[n].in[j] = Val(x)}

-----------------------------------------------------------------------------
(* Affine indices                                                          *)

\* isConstantValue
IsConstantValue(x) == x.k \in {"cst", "arg"}
ConstantOf(x) == Operand(x, <<>>, loop.arg)

\* Mutant: the entry is kept in an integer that does not overflow.
UpdateUnbounded(cur, scale, offset) ==
  [cur EXCEPT !.scale = scale * cur.scale, !.offset = scale * cur.offset + offset]

\* updateAffineIndexInfo
Update(cur, scale, offset) ==
  [cur EXCEPT !.scale = Wrap(scale * cur.scale, cur.w),
              !.offset = Wrap(scale * cur.offset + offset, cur.w)]

\* The position of the operand of o that is not x; 1 if there is none.
Other(o, x) == IF Len(o.in) = 2 /\ o.in[1] = Val(x) THEN 2 ELSE 1

\* The operation o has an entry if its operand x has one.
Propagates(o, x) ==
  \/ o.op \in {"neg", "convert"}
  \/ o.op \in {"add", "sub", "mul"} /\ IsConstantValue(o.in[Other(o, x)])

\* Mutant: a constant minus a value keeps the sign of the value.
InfoSubtractedPlain(o, x, cur) ==
  LET c == ConstantOf(o.in[Other(o, x)])
  IN  CASE o.op = "add" -> Update(cur, 1, c)
        [] o.op = "sub" -> Update(cur, 1, IF Other(o, x) = 2 THEN -c ELSE c)
        [] o.op = "mul" -> Update(cur, c, 0)
        [] o.op = "neg" -> Update(cur, -1, 0)
        [] o.op = "convert" -> cur

\* The entry of the operation o, whose operand x has the entry cur.
InfoOf(o, x, cur) ==
  LET c == ConstantOf(o.in[Other(o, x)])
  IN  CASE o.op = "add" -> Update(cur, 1, c)
        [] o.op = "sub" -> IF Other(o, x) = 2 THEN Update(cur, 1, -c) ELSE Update(cur, -1, c)
        [] o.op = "mul" -> Update(cur, c, 0)
        [] o.op = "neg" -> Update(cur, -1, 0)
        [] o.op = "convert" -> cur

\* propagateAffineIndexInfo, the start: the induction variable is itself.
StartInfo == [v \in {0} |-> [w |-> Width, scale |-> 1, offset |-> 0]]

\* propagateAffineIndexInfo, one round of its worklist.
Propagate ==
  /\ phase = "affine"
  /\ \E x \in work :
       LET new == {n \in Users(x) \ DOMAIN affine : Propagates(body[n], x)}
       IN  /\ affine' = [n \in DOMAIN affine \union new |->
                           IF n \in new THEN InfoOf(body[n], x, affine[x]) ELSE affine[n]]
           /\ work' = (work \ {x}) \union new
           /\ guessed' = IF x \in guessed THEN guessed \union new ELSE guessed
  /\ UNCHANGED <<loop, body, alias, phase, ranges, run>>

\* An entry made by default: APInt() is a zero of one bit.
NoInfo == [w |-> 1, scale |-> 0, offset |-> 0]
Slices == {n \in Ops : Live(n) /\ body[n].op = "iota" /\ n \notin DOMAIN affine /\ body[n].in[1] # Cst(0)}

\* propagateAffineIndexInfo, the slices of iotas, in the order of the body.
\* An index without an entry gets one by being looked up.
SliceOfIota ==
  /\ phase = "affine" /\ work = {} /\ Slices # {}
  /\ LET n == Least(Slices)
         o == body[n]
         index == IF o.in[1].k = "val" THEN {o.in[1].v} ELSE {}
         known == index # {} /\ index \subseteq DOMAIN affine
         cur == IF known THEN affine[o.in[1].v] ELSE NoInfo
         info == [w |-> cur.w, scale |-> Wrap(cur.scale * o.stride, cur.w),
                  offset |-> Wrap(o.stride * cur.offset + o.first, cur.w)]
     IN  /\ affine' = [m \in DOMAIN affine \union index \union {n} |->
                         IF m = n THEN info ELSE IF m \in index THEN cur ELSE affine[m]]
         /\ work' = {n}
         /\ guessed' = guessed \union (IF ~known THEN index \union {n}
                                       ELSE IF index \subseteq guessed THEN {n} ELSE {})
  /\ UNCHANGED <<loop, body, alias, phase, ranges, run>>

-----------------------------------------------------------------------------
(* Step and trip count                                                     *)

\* computeInfo. The next value of the induction variable has an entry of
\* scale one, or there is no constant step.
Next_iv == alias[loop.inc]
HasStep == Next_iv.k = "val" /\ Next_iv.v \in DOMAIN affine /\ affine[Next_iv.v].scale = 1
Step == affine[Next_iv.v].offset

\* Mutant: the count is not rounded up.
RoundedDown(start, limit, step) ==
  IF limit < start \/ (step < 0 /\ limit > start) THEN 0 ELSE Quotient(limit - start, step)

\* getConstantNumIters
ConstantNumIters(start, limit, step) ==
  IF limit < start \/ (step < 0 /\ limit > start) THEN 0 ELSE Quotient(limit - start + step - 1, step)

\* getNumIters, for bounds that are known only when the program runs.
NumIters(start, limit, step) == Quotient(limit - start, step)

IsConstant == HasStep /\ loop.known

-----------------------------------------------------------------------------
(* Bounds                                                                  *)

\* RemoveNoOpsFromWhileLoop goes on if the trip count is known and positive.
Rewritable == IsConstant /\ ConstantNumIters(loop.start, loop.limit, Step) > 0

\* propagateBounds, the start.
InductionBounds ==
  IF Step > 0 THEN [min |-> loop.start, max |-> Wrap(loop.limit - 1, Width)]
  ELSE [min |-> Wrap(loop.limit + 1, Width), max |-> loop.start]

Analysed ==
  /\ phase = "affine" /\ work = {} /\ Slices = {}
  /\ IF Rewritable THEN phase' = "bounds" /\ bounds' = [v \in {0} |-> InductionBounds]
                   ELSE phase' = "run" /\ bounds' = bounds
  /\ visited' = {}
  /\ UNCHANGED <<loop, body, alias, analysis, marks, todo, changed, exact, run>>

\* getBounds: what was found in this round, else an attribute of an earlier
\* one, else a constant.
HasBounds(x) == x.k = "cst" \/ (x.k = "val" /\ x.v \in DOMAIN bounds \union DOMAIN marks)
BoundsOf(x) ==
  IF x.k = "cst" THEN [min |-> Wrap(x.v, Width), max |-> Wrap(x.v, Width)]
  ELSE IF x.v \in DOMAIN bounds THEN bounds[x.v] ELSE marks[x.v]

Ends(lo, hi) == [min |-> lo, max |-> hi]
Hull(S) == Ends(Least(S), Greatest(S))

\* A result x as the width of the ranges holds it, or as it is.
Cut(x, wraps) == IF wraps THEN Wrap(x, Width) ELSE x

\* The result for the ends x and y, and the results for all ends.
Corner(o, x, y, wraps) == Cut(Result(o, <<x, y>>, 0), wraps)
Corners(o, a, b, wraps) == {Corner(o, x, y, wraps) : x \in {a.min, a.max}, y \in {b.min, b.max}}

\* computeBounds for two operands.
RangeOfTwo(o, a, b, wraps) ==
  CASE o.op \in {"add", "min", "max"} -> Ends(Corner(o, a.min, b.min, wraps), Corner(o, a.max, b.max, wraps))
    [] o.op = "sub" -> Ends(Cut(a.min - b.max, wraps), Cut(a.max - b.min, wraps))
    [] o.op \in {"mul", "div"} -> Hull(Corners(o, a, b, wraps))
    [] o.op = "rem" -> Ends(IF a.min >= 0 THEN 0 ELSE Greatest({a.min, 1 - b.min}),
                            IF a.max <= 0 /\ a.min < 0 THEN 0 ELSE Least({a.max, b.min - 1}))

\* computeBounds for one operand.
Negated(a, wraps) == Ends(Cut(-a.max, wraps), Cut(-a.min, wraps))
RangeOfOne(o, a, wraps) ==
  CASE o.op = "convert" -> a
    [] o.op = "neg" -> Negated(a, wraps)
    [] o.op = "abs" -> IF a.min >= 0 THEN a
                       ELSE IF a.max <= 0 THEN Negated(a, wraps)
                       ELSE Ends(0, Cut(Greatest({Magnitude(a.min), Magnitude(a.max)}), wraps))

\* The range of the operation o.
RangeOf(o, wraps) ==
  IF Len(o.in) = 1 THEN RangeOfOne(o, BoundsOf(o.in[1]), wraps)
  ELSE RangeOfTwo(o, BoundsOf(o.in[1]), BoundsOf(o.in[2]), wraps)

\* Mutant: a divisor may be of either sign.
BoundedAnyDivisor(o) ==
  /\ \A j \in DOMAIN o.in : HasBounds(o.in[j])
  /\ \/ o.op \in {"neg", "abs", "add", "sub", "mul", "min", "max", "div"}
     \/ o.op = "rem" /\ BoundsOf(o.in[2]).min = BoundsOf(o.in[2]).max /\ BoundsOf(o.in[2]).min > 0

\* computeBounds returns a range for the operation o.
Bounded(o) ==
  /\ \A j \in DOMAIN o.in : HasBounds(o.in[j])
  /\ \/ o.op \in {"neg", "abs", "add", "sub", "mul", "min", "max"}
     \/ /\ o.op = "convert"
        /\ o.w <= Width
        /\ BoundsOf(o.in[1]).min >= -(2^(o.w - 1)) /\ BoundsOf(o.in[1]).max < 2^(o.w - 1)
     \/ o.op = "div" /\ (BoundsOf(o.in[2]).min > 0 \/ BoundsOf(o.in[2]).max < 0)
     \/ o.op = "rem" /\ BoundsOf(o.in[2]).min = BoundsOf(o.in[2]).max /\ BoundsOf(o.in[2]).min > 0

\* propagateBounds, one operation. It is visited once, whether or not the
\* bounds of all its operands are known by then; the order is that of the
\* lists of uses, here any.
Visit ==
  /\ phase = "bounds"
  /\ \E n \in Ops \ visited :
       /\ \E x \in DOMAIN bounds : n \in Users(x)
       /\ visited' = visited \union {n}
       /\ LET cut == RangeOf(body[n], TRUE)
          IN  IF Bounded(body[n])
              THEN /\ bounds' = [v \in DOMAIN bounds \union {n} |-> IF v = n THEN cut ELSE bounds[v]]
                   /\ exact' = (exact /\ cut = RangeOf(body[n], FALSE))
              ELSE UNCHANGED <<bounds, exact>>
  /\ UNCHANGED <<loop, body, alias, phase, analysis, marks, todo, changed, run>>

-----------------------------------------------------------------------------
(* Rewriting the body                                                      *)

Rewritten == {"rem", "compare", "abs", "clamp"}

\* Mutant: writing an attribute counts as a change though it was there already.
AnnotateAgain ==
  /\ phase = "bounds"
  /\ \A x \in DOMAIN bounds : Users(x) \subseteq visited
  /\ phase' = "fold"
  /\ LET found == DOMAIN bounds \ {0}
     IN  /\ marks' = [n \in DOMAIN marks \union found |-> IF n \in found THEN bounds[n] ELSE marks[n]]
         /\ changed' = (found # {})
  /\ todo' = {n \in (DOMAIN bounds \ {0}) \union UNION {Users(x) : x \in DOMAIN bounds} :
                body[n].op \in Rewritten}
  /\ UNCHANGED <<loop, body, alias, analysis, bounds, visited, exact, run>>

\* matchAndRewriteImpl, the attributes, and the operations to look at.
Annotate ==
  /\ phase = "bounds"
  /\ \A x \in DOMAIN bounds : Users(x) \subseteq visited
  /\ phase' = "fold"
  /\ LET found == DOMAIN bounds \ {0}
     IN  /\ marks' = [n \in DOMAIN marks \union found |-> IF n \in found THEN bounds[n] ELSE marks[n]]
         /\ changed' = (marks' # marks)
  /\ todo' = {n \in (DOMAIN bounds \ {0}) \union UNION {Users(x) : x \in DOMAIN bounds} :
                body[n].op \in Rewritten}
  /\ UNCHANGED <<loop, body, alias, analysis, bounds, visited, exact, run>>

\* What a comparison of ranges a and b is replaced with: at most one Boolean.
Decided(dir, a, b) ==
  LET below == a.max < b.min
      above == b.max < a.min
      point == a.min = a.max /\ b.min = b.max /\ a.min = b.min
  IN  CASE dir = "EQ" -> IF point THEN {TRUE} ELSE IF below \/ above THEN {FALSE} ELSE {}
        [] dir = "NE" -> IF below \/ above THEN {FALSE} ELSE {}
        [] dir = "GE" -> IF below THEN {FALSE} ELSE IF a.min >= b.max THEN {TRUE} ELSE {}
        [] dir = "GT" -> IF a.max <= b.min THEN {FALSE} ELSE IF above THEN {TRUE} ELSE {}
        [] dir = "LE" -> IF above THEN {FALSE} ELSE IF b.min >= a.max THEN {TRUE} ELSE {}
        [] dir = "LT" -> IF b.max <= a.min THEN {FALSE} ELSE IF below THEN {TRUE} ELSE {}

\* Mutant: a remainder is the dividend up to and including the divisor.
RemainderUpToDivisor(o, b) ==
  CASE o.op = "rem" ->
         LET m == Least({Wrap(Magnitude(b[2].min), Width), Wrap(Magnitude(b[2].max), Width)})
         IN  IF b[1].max <= m /\ b[1].min > Wrap(-m, Width) THEN {o.in[1]} ELSE {}
    [] o.op = "compare" -> {IF t THEN Cst(1) ELSE Cst(0) : t \in Decided(o.dir, b[1], b[2])}
    [] o.op = "abs" -> IF b[1].min >= 0 THEN {o.in[1]} ELSE {}
    [] o.op = "clamp" -> IF b[1].max <= b[2].min /\ b[3].min >= b[2].max THEN {o.in[2]} ELSE {}

\* The operands that replace the operation o, with bounds b of its operands
\* (the four overloads of rewriteOperation): at most one.
Replacement(o, b) ==
  CASE o.op = "rem" ->
         LET m == Least({Wrap(Magnitude(b[2].min), Width), Wrap(Magnitude(b[2].max), Width)})
         IN  IF b[1].max < m /\ b[1].min > Wrap(-m, Width) THEN {o.in[1]} ELSE {}
    [] o.op = "compare" -> {IF t THEN Cst(1) ELSE Cst(0) : t \in Decided(o.dir, b[1], b[2])}
    [] o.op = "abs" -> IF b[1].min >= 0 THEN {o.in[1]} ELSE {}
    [] o.op = "clamp" -> IF b[1].max <= b[2].min /\ b[3].min >= b[2].max THEN {o.in[2]} ELSE {}

\* Two rewrites are wrong as they stand: disjoint ranges make NE true, and the
\* ends of a range of divisors say nothing of its middle if it spans zero.
IsExact(o, b) ==
  /\ ~(o.op = "compare" /\ o.dir = "NE")
  /\ o.op = "rem" => b[2].min > 0 \/ b[2].max < 0

\* replaceOp: whatever used the result of n uses x.
Replace(n, x) ==
  /\ body' = [m \in Ops |-> [body[m] EXCEPT !.in = [j \in DOMAIN @ |-> IF @[j] = Val(n) THEN x ELSE @[j]]]]
  /\ alias' = [m \in Ops |-> IF alias[m] = Val(n) THEN x ELSE alias[m]]

\* matchAndRewriteImpl, one operation.
Rewrite ==
  /\ phase = "fold"
  /\ \E n \in todo :
       /\ todo' = todo \ {n}
       /\ LET o == body[n]
              b == [j \in DOMAIN o.in |-> BoundsOf(o.in[j])]
              new == IF \A j \in DOMAIN o.in : HasBounds(o.in[j]) THEN Replacement(o, b) ELSE {}
          IN  IF new = {} THEN UNCHANGED <<body, alias, exact, changed>>
              ELSE /\ \E x \in new : Replace(n, x)
                   /\ changed' = TRUE
                   /\ exact' = (exact /\ IsExact(o, b))
  /\ UNCHANGED <<loop, phase, analysis, bounds, visited, marks, run>>

\* matchAndRewriteImpl, the return: the driver applies a pattern that
\* changed something again, with a new analysis.
EndRound ==
  /\ phase = "fold" /\ todo = {}
  /\ IF changed
     THEN phase' = "affine" /\ affine' = StartInfo /\ work' = {0} /\ guessed' = {}
     ELSE phase' = "run" /\ UNCHANGED analysis
  /\ UNCHANGED <<loop, body, alias, ranges, run>>

-----------------------------------------------------------------------------
(* The loop runs                                                           *)

Running == phase = "run" /\ iv < loop.limit /\ iters < MaxIters
Done == phase = "run" /\ iv >= loop.limit

Given == Values(loop, loop.body, iv, data)
Now == Values(loop, body, iv, data)
CleanSoFar == clean /\ IsClean(loop, iv, data)

LoadsOf(ops) == IF \E n \in DOMAIN ops : ops[n].op = "load" THEN DataValues ELSE {0}

\* One iteration of the loop as given.
Iterate ==
  /\ Running
  /\ iv' = Given[loop.inc]
  /\ iters' = iters + 1
  /\ clean' = CleanSoFar
  /\ data' \in LoadsOf(loop.body)
  /\ UNCHANGED <<loop, body, alias, phase, analysis, ranges>>

Init ==
  /\ loop \in Loops
  /\ body = loop.body
  /\ alias = [n \in DOMAIN body |-> Val(n)]
  /\ phase = "affine"
  /\ affine = StartInfo /\ work = {0} /\ guessed = {}
  /\ bounds = <<>> /\ visited = {} /\ marks = <<>> /\ todo = {} /\ changed = FALSE /\ exact = TRUE
  /\ iv = loop.start /\ iters = 0 /\ clean = TRUE /\ data \in LoadsOf(loop.body)

Analyse == Propagate \/ SliceOfIota \/ Analysed \/ Visit \/ Annotate \/ Rewrite \/ EndRound
Next == Analyse \/ Iterate

\* The pass is one thread: it goes on while it can.
Spec == Init /\ [][Next]_vars /\ WF_vars(Analyse)

-----------------------------------------------------------------------------
(* Properties                                                              *)

\* The variables keep to their types: entries only for values of the body,
\* ranges and values within the width of the induction variable.
TypeOK ==
  LET signed == -(2^(Width - 1)) .. 2^(Width - 1) - 1
  IN  /\ phase \in {"affine", "bounds", "fold", "run"}
      /\ DOMAIN affine \subseteq {0} \union Ops /\ work \subseteq DOMAIN affine /\ guessed \subseteq DOMAIN affine
      /\ \A x \in DOMAIN affine : affine[x].scale \in signed /\ affine[x].offset \in signed
      /\ DOMAIN bounds \subseteq {0} \union Ops /\ visited \subseteq Ops /\ todo \subseteq visited
      /\ \A x \in DOMAIN bounds : bounds[x].min \in signed /\ bounds[x].max \in signed
      /\ iv \in signed /\ iters \in 0 .. MaxIters

\* The fewest bits a value of the loop goes through.
Narrowest == Least({Width} \union {loop.body[n].w : n \in DOMAIN loop.body})

\* No operation has been replaced. Every slice of an iota lies within it.
AsGiven == \A n \in Ops : Live(n)
SlicesWithin ==
  \A n \in DOMAIN loop.body : loop.body[n].op = "iota" =>
    Operands(loop.body[n], Given, loop.arg)[1] \in 0 .. loop.body[n].size - 1

\* In every iteration a value with an entry is scale times the induction
\* variable plus offset, up to multiples of the narrowest width: converting,
\* overflowing and extending a constant lose no more than that. Left out are
\* slices that leave their iota and entries made by looking an index up; and,
\* once an operation has been replaced, iterations after an overflow.
AffineTruthful ==
  (Running /\ SlicesWithin /\ (AsGiven \/ (exact /\ CleanSoFar)))
    => \A x \in DOMAIN affine \ guessed :
         (Given[x] - affine[x].scale * iv - affine[x].offset) % 2^Narrowest = 0

\* A loop that ends without overflow has run as often as getConstantNumIters
\* says, provided it counts up, or starts beyond its limit; a count computed
\* when the program runs (getNumIters) is right just when the distance to the
\* limit is made of whole steps, or is less than a step the wrong way.
CountsTrips ==
  (Done /\ clean /\ HasStep /\ (Step > 0 \/ loop.start > loop.limit)) =>
    /\ iters = ConstantNumIters(loop.start, loop.limit, Step)
    /\ Step > 0 => LET d == loop.limit - loop.start
                   IN  (iters = NumIters(loop.start, loop.limit, Step)) <=> (IF d >= 0 THEN d % Step = 0 ELSE -d < Step)

\* In every iteration, unless something overflowed, the value of an operation
\* lies within the bounds the pass wrote on it.
BoundsTruthful ==
  (Running /\ exact /\ CleanSoFar) =>
    \A x \in DOMAIN bounds : Given[x] >= bounds[x].min /\ Given[x] <= bounds[x].max

\* Unless something overflowed or a rewrite of a wrong kind was made, the
\* rewritten body yields in every iteration what the given one does.
FoldsKeepValue ==
  (Running /\ exact /\ CleanSoFar) =>
    \A n \in Ops : Operand(alias[n], Now, loop.arg) = Given[n]

\* The same of every rewrite: that for "lhs != rhs" (EnzymeHLOOpt.cpp 30725) is
\* made when the ranges are "outside of" each other.
FoldsAlwaysKeepValue ==
  (Running /\ CleanSoFar) =>
    \A n \in Ops : Operand(alias[n], Now, loop.arg) = Given[n]

\* The rounds of annotating and rewriting come to an end.
AnalysisEnds == <>(phase = "run")
=============================================================================

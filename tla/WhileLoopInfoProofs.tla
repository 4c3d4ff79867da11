------------------------- MODULE WhileLoopInfoProofs -------------------------
(***************************************************************************)
(* Proofs about WhileLoopInfo, for loops of any body, width and length.    *)
(***************************************************************************)
EXTENDS WhileLoopInfo, FoldLemmas

-----------------------------------------------------------------------------
(* Powers of two, and numbers cut to a width                               *)

\* Powers of two are positive.
LEMMA PowerPositive ==
  ASSUME NEW w \in Nat, Doubling(w), NEW k \in 0 .. w
  PROVE  2^k \in Nat \ {0}
<1>. DEFINE S == {n \in Nat : n <= w => 2^n \in Nat \ {0}}
<1>1. 0 \in S
  BY DEF Doubling
<1>2. \A n \in 0 .. w - 1 : n \in S => n + 1 \in S
  <2>. SUFFICES ASSUME NEW n \in 0 .. w - 1, 2^n \in Nat \ {0} PROVE 2^(n + 1) \in Nat \ {0}
    OBVIOUS
  <2>. DEFINE m == n + 1
  <2>1. m \in 1 .. w /\ m - 1 = n
    OBVIOUS
  <2>2. 2^m = 2 * 2^(m - 1)
    BY <2>1 DEF Doubling
  <2>. QED BY <2>1, <2>2
<1>3. \A n \in 0 .. w : n \in S
  <2>. HIDE DEF S
  <2>. QED BY <1>1, <1>2, UpTo
<1>. QED BY <1>3

\* The number of values of a width is twice that of the values below zero.
LEMMA TwoHalves ==
  ASSUME NEW w \in Nat \ {0}, Doubling(w)
  PROVE  2^(w - 1) \in Nat \ {0} /\ 2^w = 2 * 2^(w - 1)
<1>1. w \in 1 .. w /\ w - 1 \in 0 .. w
  OBVIOUS
<1>2. 2^w = 2 * 2^(w - 1)
  BY <1>1 DEF Doubling
<1>3. 2^(w - 1) \in Nat \ {0}
  BY <1>1, PowerPositive
<1>. QED BY <1>2, <1>3

\* A wider number takes in what a narrower one does.
LEMMA PowersGrow ==
  ASSUME NEW w \in Nat, Doubling(w), NEW m \in 0 .. w
  PROVE  2^m <= 2^w
<1>. DEFINE S == {n \in Nat : m + n <= w => 2^m <= 2^(m + n)}
<1>1. 0 \in S
  <2>1. m + 0 = m /\ 2^m \in Int
    OBVIOUS
  <2>. QED BY <2>1
<1>2. \A n \in 0 .. (w - m) - 1 : n \in S => n + 1 \in S
  <2>. SUFFICES ASSUME NEW n \in 0 .. (w - m) - 1, 2^m <= 2^(m + n) PROVE 2^m <= 2^(m + n + 1)
    OBVIOUS
  <2>. DEFINE p == m + n + 1
  <2>1. p \in 1 .. w /\ p - 1 = m + n /\ m + n \in 0 .. w
    OBVIOUS
  <2>2. 2^p = 2 * 2^(p - 1)
    BY <2>1 DEF Doubling
  <2>3. 2^(m + n) \in Nat \ {0} /\ 2^m \in Nat \ {0}
    BY <2>1, PowerPositive
  <2>. QED BY <2>1, <2>2, <2>3
<1>3. \A n \in 0 .. (w - m) : n \in S
  <2>. HIDE DEF S
  <2>1. w - m \in Nat
    OBVIOUS
  <2>. QED BY <1>1, <1>2, <2>1, UpTo
<1>4. w - m \in S
  BY <1>3
<1>5. m + (w - m) = w
  OBVIOUS
<1>. QED BY <1>4, <1>5

\* A wider number is signed like a narrower one.
LEMMA SignedGrows ==
  ASSUME NEW w \in Nat \ {0}, Doubling(w), NEW m \in 1 .. w
  PROVE  Signed(m) \subseteq Signed(w)
<1>1. Doubling(w - 1)
  BY DEF Doubling
<1>2. 2^(m - 1) <= 2^(w - 1)
  <2>1. w - 1 \in Nat /\ m - 1 \in 0 .. w - 1
    OBVIOUS
  <2>. QED BY <1>1, <2>1, PowersGrow
<1>3. 2^(m - 1) \in Int /\ 2^(w - 1) \in Int
  OBVIOUS
<1>. QED BY <1>2, <1>3 DEF Signed

\* Division with remainder.
LEMMA DivMod ==
  ASSUME NEW a \in Int, NEW m \in Nat \ {0}
  PROVE  a \div m \in Int /\ a % m \in 0 .. m - 1 /\ a = m * (a \div m) + (a % m)
OBVIOUS

\* a and b differ by a multiple of m.
Congruent(a, b, m) == \E k \in Int : a = b + k * m

\* Cutting to a width yields a number of that width, and changes it by a
\* multiple of the number of its values.
LEMMA WrapType ==
  ASSUME NEW w \in Nat \ {0}, Doubling(w), NEW x \in Int
  PROVE  Wrap(x, w) \in Signed(w) /\ Wrap(x, w) \in Int /\ Congruent(Wrap(x, w), x, 2^w)
<1>. DEFINE H == 2^(w - 1)
            M == 2^w
            q == (x + H) \div M
            r == (x + H) % M
<1>1. H \in Nat \ {0} /\ M = 2 * H
  BY TwoHalves
<1>2. Wrap(x, w) = r - H
  BY DEF Wrap
<1>. HIDE DEF H, M
<1>3. q \in Int /\ r \in 0 .. M - 1 /\ x + H = M * q + r
  <2>1. M \in Nat \ {0} /\ x + H \in Int
    BY <1>1
  <2>. QED BY <2>1, DivMod
<1>. HIDE DEF q, r
<1>4. r - H \in -H .. H - 1
  BY <1>1, <1>3
<1>5. r - H = x + (-q) * M /\ -q \in Int
  BY <1>1, <1>3
<1>6. \E k \in Int : r - H = x + k * M
  BY <1>5
<1>7. Wrap(x, w) \in -H .. H - 1 /\ Congruent(Wrap(x, w), x, M)
  BY <1>2, <1>4, <1>6 DEF Congruent
<1>. QED BY <1>7 DEF Signed, H, M

\* Two numbers of a width that differ by a multiple of its number of values
\* are equal.
LEMMA SignedUnique ==
  ASSUME NEW w \in Nat \ {0}, Doubling(w), NEW x \in Signed(w), NEW y \in Signed(w), Congruent(x, y, 2^w)
  PROVE  x = y
<1>. DEFINE H == 2^(w - 1)
            M == 2^w
<1>1. H \in Nat \ {0} /\ M = 2 * H
  BY TwoHalves
<1>2. PICK k \in Int : x = y + k * M
  BY DEF Congruent
<1>3. x \in -H .. H - 1 /\ y \in -H .. H - 1
  BY DEF Signed
<1>. HIDE DEF H, M
<1>4. k * M < M /\ -M < k * M
  BY <1>1, <1>2, <1>3
<1>5. k = 0
  <2>1. k >= 1 => k * M >= M
    BY <1>1
  <2>2. k <= -1 => k * M <= -M
    BY <1>1
  <2>. QED BY <1>1, <1>4, <2>1, <2>2
<1>. QED BY <1>1, <1>2, <1>3, <1>5

\* A number of a width is not changed by cutting it to that width.
LEMMA WrapSame ==
  ASSUME NEW w \in Nat \ {0}, Doubling(w), NEW x \in Signed(w)
  PROVE  Wrap(x, w) = x
<1>1. x \in Int
  BY DEF Signed
<1>. QED BY <1>1, WrapType, SignedUnique

-----------------------------------------------------------------------------
(* Least and greatest numbers, products and quotients of ranges            *)

\* The lesser of two numbers.
LEMMA LeastPair ==
  ASSUME NEW a \in Int, NEW b \in Int
  PROVE  Least({a, b}) = IF a <= b THEN a ELSE b
<1>. DEFINE m == IF a <= b THEN a ELSE b
<1>1. m \in {a, b} /\ \A y \in {a, b} : m <= y
  OBVIOUS
<1>2. \A x \in {a, b} : (\A y \in {a, b} : x <= y) => x = m
  OBVIOUS
<1>. QED BY <1>1, <1>2, Zenon DEF Least

\* The greater of two numbers.
LEMMA GreatestPair ==
  ASSUME NEW a \in Int, NEW b \in Int
  PROVE  Greatest({a, b}) = IF a >= b THEN a ELSE b
<1>. DEFINE m == IF a >= b THEN a ELSE b
<1>1. m \in {a, b} /\ \A y \in {a, b} : m >= y
  OBVIOUS
<1>2. \A x \in {a, b} : (\A y \in {a, b} : x >= y) => x = m
  OBVIOUS
<1>. QED BY <1>1, <1>2, Zenon DEF Greatest

\* The least of four numbers.
LEMMA LeastFour ==
  ASSUME NEW a \in Int, NEW b \in Int, NEW c \in Int, NEW d \in Int, NEW S, S = {a, b, c, d}
  PROVE  Least(S) \in S /\ \A y \in S : Least(S) <= y
<1>1. \E x \in S : \A y \in S : x <= y
  <2>1. CASE a <= b /\ a <= c /\ a <= d
    BY <2>1
  <2>2. CASE b <= a /\ b <= c /\ b <= d
    BY <2>2
  <2>3. CASE c <= a /\ c <= b /\ c <= d
    BY <2>3
  <2>4. CASE d <= a /\ d <= b /\ d <= c
    BY <2>4
  <2>. QED BY <2>1, <2>2, <2>3, <2>4
<1>. QED BY ONLY <1>1, Zenon DEF Least

\* The greatest of four numbers.
LEMMA GreatestFour ==
  ASSUME NEW a \in Int, NEW b \in Int, NEW c \in Int, NEW d \in Int, NEW S, S = {a, b, c, d}
  PROVE  Greatest(S) \in S /\ \A y \in S : Greatest(S) >= y
<1>1. \E x \in S : \A y \in S : x >= y
  <2>1. CASE a >= b /\ a >= c /\ a >= d
    BY <2>1
  <2>2. CASE b >= a /\ b >= c /\ b >= d
    BY <2>2
  <2>3. CASE c >= a /\ c >= b /\ c >= d
    BY <2>3
  <2>4. CASE d >= a /\ d >= b /\ d >= c
    BY <2>4
  <2>. QED BY <2>1, <2>2, <2>3, <2>4
<1>. QED BY ONLY <1>1, Zenon DEF Greatest

\* A factor that is not negative keeps the order, one that is not positive
\* turns it round.
LEMMA TimesMonotone ==
  ASSUME NEW a \in Int, NEW b \in Int, NEW c \in Int, a <= b
  PROVE  /\ c >= 0 => a * c <= b * c
         /\ c <= 0 => b * c <= a * c
<1>. DEFINE d == b - a
<1>1. d \in Nat /\ b = a + d
  OBVIOUS
<1>. HIDE DEF d
<1>2. b * c = a * c + d * c
  BY <1>1
<1>3. c >= 0 => d * c >= 0
  BY <1>1
<1>4. c <= 0 => d * c <= 0
  BY <1>1
<1>. QED BY <1>1, <1>2, <1>3, <1>4

\* A product of numbers of two ranges lies between products of their ends.
LEMMA TimesBetween ==
  ASSUME NEW a \in Int, NEW b \in Int, NEW c \in Int, NEW d \in Int, NEW x \in a .. b, NEW y \in c .. d
  PROVE  /\ \E p \in {a, b}, q \in {c, d} : p * q <= x * y
         /\ \E p \in {a, b}, q \in {c, d} : x * y <= p * q
<1>1. \A p \in {a, b} : \E q \in {c, d} : p * q <= p * y
  <2>. SUFFICES ASSUME NEW p \in {a, b} PROVE \E q \in {c, d} : p * q <= p * y
    OBVIOUS
  <2>1. p >= 0 => c * p <= y * p
    BY TimesMonotone
  <2>2. p <= 0 => d * p <= y * p
    BY TimesMonotone
  <2>3. c * p = p * c /\ d * p = p * d /\ y * p = p * y
    OBVIOUS
  <2>. QED BY <2>1, <2>2, <2>3
<1>2. \A p \in {a, b} : \E q \in {c, d} : p * y <= p * q
  <2>. SUFFICES ASSUME NEW p \in {a, b} PROVE \E q \in {c, d} : p * y <= p * q
    OBVIOUS
  <2>1. p >= 0 => y * p <= d * p
    BY TimesMonotone
  <2>2. p <= 0 => y * p <= c * p
    BY TimesMonotone
  <2>3. c * p = p * c /\ d * p = p * d /\ y * p = p * y
    OBVIOUS
  <2>. QED BY <2>1, <2>2, <2>3
<1>3. y >= 0 => a * y <= x * y /\ x * y <= b * y
  BY TimesMonotone
<1>4. y <= 0 => b * y <= x * y /\ x * y <= a * y
  BY TimesMonotone
<1>. DEFINE ay == a * y
            by == b * y
            xy == x * y
            ac == a * c
            ad == a * d
            bc == b * c
            bd == b * d
<1>5. ay \in Int /\ by \in Int /\ xy \in Int /\ ac \in Int /\ ad \in Int /\ bc \in Int /\ bd \in Int
  OBVIOUS
<1>6. (ac <= ay \/ ad <= ay) /\ (bc <= by \/ bd <= by) /\ (ay <= ac \/ ay <= ad) /\ (by <= bc \/ by <= bd)
  BY <1>1, <1>2
<1>7. (ay <= xy /\ xy <= by) \/ (by <= xy /\ xy <= ay)
  BY <1>3, <1>4
<1>8. /\ ac <= xy \/ ad <= xy \/ bc <= xy \/ bd <= xy
      /\ xy <= ac \/ xy <= ad \/ xy <= bc \/ xy <= bd
  <2>. HIDE DEF ay, by, xy, ac, ad, bc, bd
  <2>. QED BY <1>5, <1>6, <1>7
<1>. QED BY <1>8

\* Natural numbers: a greater dividend has no lesser quotient, a greater
\* divisor no greater one.
LEMMA DivMonotone ==
  ASSUME NEW a \in Nat, NEW b \in Nat, a <= b, NEW m \in Nat \ {0}, NEW n \in Nat \ {0}, m <= n
  PROVE  a \div m \in Nat /\ a \div m <= b \div m /\ a \div n <= a \div m
<1>. DEFINE q == a \div m
            r == b \div m
            s == a \div n
<1>1. /\ q \in Int /\ m * q <= a /\ a < m * q + m
      /\ r \in Int /\ m * r <= b /\ b < m * r + m
      /\ s \in Int /\ n * s <= a /\ a < n * s + n
  <2>1. a \in Int /\ b \in Int
    OBVIOUS
  <2>2. a \div m \in Int /\ a % m \in 0 .. m - 1 /\ a = m * (a \div m) + (a % m)
    BY <2>1, DivMod
  <2>3. b \div m \in Int /\ b % m \in 0 .. m - 1 /\ b = m * (b \div m) + (b % m)
    BY <2>1, DivMod
  <2>4. a \div n \in Int /\ a % n \in 0 .. n - 1 /\ a = n * (a \div n) + (a % n)
    BY <2>1, DivMod
  <2>. QED BY <2>1, <2>2, <2>3, <2>4
<1>. HIDE DEF q, r, s
<1>2. q >= 0
  <2>1. q <= -1 => m * q + m <= 0
    <3>1. m * q + m = m * (q + 1)
      BY <1>1
    <3>2. q + 1 <= 0 => m * (q + 1) <= 0
      BY <1>1
    <3>. QED BY <1>1, <3>1, <3>2
  <2>. QED BY <1>1, <2>1
<1>3. q <= r
  <2>. SUFFICES ASSUME r + 1 <= q PROVE FALSE
    BY <1>1
  <2>1. (r + 1) * m <= q * m
    BY <1>1, TimesMonotone
  <2>2. (r + 1) * m = m * r + m /\ q * m = m * q
    BY <1>1
  <2>. QED BY <1>1, <2>1, <2>2
<1>4. s <= q
  <2>. SUFFICES ASSUME q + 1 <= s PROVE FALSE
    BY <1>1
  <2>1. (q + 1) * n <= s * n
    BY <1>1, TimesMonotone
  <2>2. m * (q + 1) <= n * (q + 1)
    BY <1>1, <1>2, TimesMonotone
  <2>3. m * (q + 1) = m * q + m /\ (q + 1) * n = n * (q + 1) /\ s * n = n * s
    BY <1>1
  <2>. QED BY <1>1, <2>1, <2>2, <2>3
<1>. QED BY <1>1, <1>2, <1>3, <1>4 DEF q, r, s

\* Division towards zero by a positive number.
Towards(x, m) == IF x >= 0 THEN x \div m ELSE -((-x) \div m)

\* It is a number.
LEMMA TowardsType == ASSUME NEW x \in Int, NEW m \in Nat \ {0} PROVE Towards(x, m) \in Int
BY DEF Towards

\* The quotient is that by the magnitude of the divisor, with its sign.
LEMMA QuotientTowards ==
  ASSUME NEW x \in Int, NEW y \in Int, y # 0
  PROVE  Quotient(x, y) = IF y > 0 THEN Towards(x, y) ELSE -Towards(x, -y)
<1>1. CASE y > 0
  BY <1>1 DEF Quotient, Towards, Magnitude
<1>2. CASE y < 0 /\ x >= 0
  BY <1>2 DEF Quotient, Towards, Magnitude
<1>3. CASE y < 0 /\ x < 0
  <2>. DEFINE q == (-x) \div (-y)
  <2>1. q \in Int
    BY <1>3
  <2>2. Quotient(x, y) = q
    BY <1>3 DEF Quotient, Magnitude
  <2>3. Towards(x, -y) = -q
    BY <1>3 DEF Towards
  <2>. HIDE DEF q
  <2>. QED BY <1>3, <2>1, <2>2, <2>3
<1>. QED BY <1>1, <1>2, <1>3

\* Division towards zero keeps the order of dividends; a greater divisor
\* brings the quotient nearer to zero.
LEMMA TowardsMonotone ==
  ASSUME NEW x \in Int, NEW y \in Int, x <= y, NEW m \in Nat \ {0}, NEW n \in Nat \ {0}, m <= n
  PROVE  /\ Towards(x, m) <= Towards(y, m)
         /\ x >= 0 => Towards(x, n) <= Towards(x, m)
         /\ x <= 0 => Towards(x, m) <= Towards(x, n)
<1>1. CASE x >= 0
  <2>0. x \in Nat /\ y \in Nat
    BY <1>1
  <2>1. x \div m \in Nat /\ x \div m <= y \div m /\ x \div n <= x \div m
    BY ONLY <2>0, x <= y, m \in Nat \ {0}, n \in Nat \ {0}, m <= n, DivMonotone
  <2>2. x = 0 => x \div m = 0 /\ x \div n = 0
    OBVIOUS
  <2>3. Towards(x, m) = x \div m /\ Towards(x, n) = x \div n /\ Towards(y, m) = y \div m
    BY <1>1, <2>0 DEF Towards
  <2>. QED BY ONLY <1>1, <2>1, <2>2, <2>3, x \in Int
<1>2. CASE x < 0 /\ y >= 0
  <2>. DEFINE u == -x
  <2>1. u \in Nat /\ u <= u
    BY <1>2
  <2>2. u \div m \in Nat /\ u \div n <= u \div m
    <3>. HIDE DEF u
    <3>. QED BY <2>1, DivMonotone
  <2>3. y \div m \in Nat
    BY <1>2, DivMonotone
  <2>4. Towards(x, m) = -(u \div m) /\ Towards(x, n) = -(u \div n) /\ Towards(y, m) = y \div m
    BY <1>2 DEF Towards
  <2>5. u \div n \in Int
    BY <2>1
  <2>. QED BY <1>2, <2>2, <2>3, <2>4, <2>5
<1>3. CASE x < 0 /\ y < 0
  <2>. DEFINE u == -x
              v == -y
  <2>1. u \in Nat /\ v \in Nat /\ v <= u
    BY <1>3
  <2>2. u \div m \in Nat /\ v \div m \in Nat /\ v \div m <= u \div m /\ u \div n <= u \div m /\ u \div n \in Int
    <3>. HIDE DEF u, v
    <3>1. v \div m \in Nat /\ v \div m <= u \div m
      BY <2>1, DivMonotone
    <3>2. u <= u
      BY <2>1
    <3>3. u \div m \in Nat /\ u \div n <= u \div m
      BY <2>1, <3>2, DivMonotone
    <3>4. u \div n \in Int
      BY <2>1
    <3>. QED BY <3>1, <3>3, <3>4
  <2>3. Towards(x, m) = -(u \div m) /\ Towards(x, n) = -(u \div n) /\ Towards(y, m) = -(v \div m)
    BY <1>3 DEF Towards
  <2>. QED BY <1>3, <2>2, <2>3
<1>. QED BY <1>1, <1>2, <1>3

\* The quotient of numbers of two ranges, the divisors positive, lies between
\* quotients of their ends.
LEMMA TowardsBetween ==
  ASSUME NEW a \in Int, NEW b \in Int, NEW c \in Nat \ {0}, NEW d \in Nat, NEW x \in a .. b, NEW y \in c .. d
  PROVE  /\ \E p \in {a, b}, q \in {c, d} : Towards(p, q) <= Towards(x, y)
         /\ \E p \in {a, b}, q \in {c, d} : Towards(x, y) <= Towards(p, q)
<1>1. a <= x /\ x <= b /\ c <= y /\ y <= d /\ y \in Nat \ {0} /\ d \in Nat \ {0}
  OBVIOUS
<1>2. Towards(a, y) <= Towards(x, y) /\ Towards(x, y) <= Towards(b, y)
  BY <1>1, TowardsMonotone
<1>3. /\ a >= 0 => Towards(a, d) <= Towards(a, y)
      /\ a <= 0 => Towards(a, c) <= Towards(a, y)
  BY <1>1, TowardsMonotone
<1>4. /\ b >= 0 => Towards(b, y) <= Towards(b, c)
      /\ b <= 0 => Towards(b, y) <= Towards(b, d)
  BY <1>1, TowardsMonotone
<1>5. \A p \in {a, b, x}, q \in {c, d, y} : Towards(p, q) \in Int
  BY <1>1, TowardsType
<1>. QED BY <1>2, <1>3, <1>4, <1>5

\* The same for divisors of one sign.
LEMMA QuotientBetween ==
  ASSUME NEW a \in Int, NEW b \in Int, NEW c \in Int, NEW d \in Int, NEW x \in a .. b, NEW y \in c .. d,
         c > 0 \/ d < 0
  PROVE  /\ \E p \in {a, b}, q \in {c, d} : Quotient(p, q) <= Quotient(x, y)
         /\ \E p \in {a, b}, q \in {c, d} : Quotient(x, y) <= Quotient(p, q)
<1>1. CASE c > 0
  <2>1. c \in Nat \ {0} /\ d \in Nat /\ y > 0 /\ d > 0
    BY <1>1
  <2>2. \A p \in {a, b, x}, q \in {c, d, y} : Quotient(p, q) = Towards(p, q)
    BY <1>1, <2>1, QuotientTowards
  <2>. QED BY <2>1, <2>2, TowardsBetween
<1>2. CASE d < 0
  <2>. DEFINE e == -d
              f == -c
              z == -y
  <2>1. e \in Nat \ {0} /\ f \in Nat /\ z \in e .. f
    BY <1>2
  <2>2. /\ \E p \in {a, b}, q \in {e, f} : Towards(p, q) <= Towards(x, z)
        /\ \E p \in {a, b}, q \in {e, f} : Towards(x, z) <= Towards(p, q)
    <3>. HIDE DEF e, f, z
    <3>. QED BY <2>1, TowardsBetween
  <2>3. \A p \in {a, b, x}, q \in {c, d, y} : Quotient(p, q) = -Towards(p, -q) /\ Towards(p, -q) \in Int
    <3>. SUFFICES ASSUME NEW p \in {a, b, x}, NEW q \in {c, d, y}
                  PROVE  Quotient(p, q) = -Towards(p, -q) /\ Towards(p, -q) \in Int
      OBVIOUS
    <3>1. p \in Int /\ q \in Int /\ q < 0
      BY <1>2
    <3>2. q # 0 /\ ~(q > 0) /\ -q \in Nat \ {0}
      BY <3>1
    <3>. QED BY <3>1, <3>2, QuotientTowards, TowardsType
  <2>. QED BY <2>2, <2>3
<1>. QED BY <1>1, <1>2

-----------------------------------------------------------------------------
(* The values of an iteration                                              *)

\* A sequence of operations, each from the values before it.
WellFormedBody(ops) ==
  /\ Len(ops) \in Nat /\ DOMAIN ops = 1 .. Len(ops)
  /\ \A n \in DOMAIN ops : WellFormed(ops, n) /\ Doubling(ops[n].w)

\* The operands of operation n are numbers if the values before it are.
LEMMA OperandsType ==
  ASSUME NEW ops, NEW n, WellFormed(ops, n), NEW v, NEW arg \in Int,
         \A m \in 0 .. n - 1 : v[m] \in Int
  PROVE  Operands(ops[n], v, arg) \in [DOMAIN ops[n].in -> Int]
<1>. DEFINE o == ops[n]
<1>1. o.in \in Seq(OperandSet) /\ \A j \in DOMAIN o.in : o.in[j].k = "val" => o.in[j].v \in 0 .. n - 1
  BY Zenon DEF WellFormed
<1>. HIDE DEF o
<1>2. \A j \in DOMAIN o.in : o.in[j] \in OperandSet
  BY <1>1, ElementOfSeq
<1>3. \A j \in DOMAIN o.in : Operand(o.in[j], v, arg) \in Int
  <2>. SUFFICES ASSUME NEW j \in DOMAIN o.in PROVE Operand(o.in[j], v, arg) \in Int
    OBVIOUS
  <2>1. o.in[j].k \in {"val", "cst", "arg"} /\ o.in[j].v \in Int
    BY <1>2 DEF OperandSet
  <2>. QED BY <1>1, <2>1 DEF Operand
<1>4. Operands(o, v, arg) \in [DOMAIN o.in -> Int]
  BY <1>3 DEF Operands
<1>. QED BY <1>4 DEF o

\* They depend on nothing else.
LEMMA OperandsAgree ==
  ASSUME NEW ops, NEW n, WellFormed(ops, n), NEW u, NEW v, NEW arg, \A m \in 0 .. n - 1 : u[m] = v[m]
  PROVE  Operands(ops[n], u, arg) = Operands(ops[n], v, arg)
<1>. DEFINE o == ops[n]
<1>1. o.in \in Seq(OperandSet) /\ \A j \in DOMAIN o.in : o.in[j].k = "val" => o.in[j].v \in 0 .. n - 1
  BY Zenon DEF WellFormed
<1>. HIDE DEF o
<1>2. \A j \in DOMAIN o.in : Operand(o.in[j], u, arg) = Operand(o.in[j], v, arg)
  <2>. SUFFICES ASSUME NEW j \in DOMAIN o.in PROVE Operand(o.in[j], u, arg) = Operand(o.in[j], v, arg)
    OBVIOUS
  <2>1. o.in[j] \in OperandSet
    BY <1>1, ElementOfSeq
  <2>2. o.in[j].k \in {"val", "cst", "arg"}
    BY <2>1 DEF OperandSet
  <2>. QED BY <1>1, <2>2 DEF Operand
<1>3. Operands(o, u, arg) = Operands(o, v, arg)
  BY <1>2 DEF Operands
<1>. QED BY <1>3 DEF o

\* A quotient is a number.
LEMMA QuotientType == ASSUME NEW x \in Int, NEW y \in Int PROVE Quotient(x, y) \in Int
<1>1. CASE y = 0
  BY <1>1 DEF Quotient
<1>2. CASE y # 0
  <2>1. y > 0 => Towards(x, y) \in Int
    BY TowardsType
  <2>2. y < 0 => Towards(x, -y) \in Int
    <3>1. y < 0 => -y \in Nat \ {0}
      OBVIOUS
    <3>. QED BY <3>1, TowardsType
  <2>. QED BY <1>2, <2>1, <2>2, QuotientTowards
<1>. QED BY <1>1, <1>2

\* The operands an operation takes.
LEMMA ArityOf ==
  ASSUME NEW ops, NEW n, WellFormed(ops, n)
  PROVE  /\ ops[n].op \in UnaryNames => DOMAIN ops[n].in = 1 .. 1
         /\ ops[n].op \in BinaryNames => DOMAIN ops[n].in = 1 .. 2
         /\ ops[n].op = "clamp" => DOMAIN ops[n].in = 1 .. 3
         /\ ops[n].op \in UnaryNames \union BinaryNames \union {"clamp", "load"}
<1>. DEFINE o == ops[n]
<1>1. /\ o.in \in Seq(OperandSet)
      /\ \/ o.op \in UnaryNames /\ Len(o.in) = 1
         \/ o.op \in BinaryNames /\ Len(o.in) = 2
         \/ o.op = "clamp" /\ Len(o.in) = 3
         \/ o.op = "load" /\ Len(o.in) = 0
  BY Zenon DEF WellFormed
<1>2. DOMAIN o.in = 1 .. Len(o.in)
  BY <1>1, LenProperties
<1>. HIDE DEF o
<1>. DEFINE name == o.op
            k == Len(o.in)
<1>3. /\ name \in UnaryNames => k = 1
      /\ name \in BinaryNames => k = 2
      /\ name = "clamp" => k = 3
      /\ name \in UnaryNames \union BinaryNames \union {"clamp", "load"}
  <2>1. \/ name \in UnaryNames /\ k = 1
        \/ name \in BinaryNames /\ k = 2
        \/ name = "clamp" /\ k = 3
        \/ name = "load" /\ k = 0
    BY <1>1
  <2>. HIDE DEF name, k
  <2>. QED BY <2>1 DEF UnaryNames, BinaryNames
<1>. QED BY <1>2, <1>3 DEF o

\* What each operation computes.
ResultRules(o, a, load) ==
  /\ o.op = "add" => Result(o, a, load) = a[1] + a[2]
  /\ o.op = "sub" => Result(o, a, load) = a[1] - a[2]
  /\ o.op = "mul" => Result(o, a, load) = a[1] * a[2]
  /\ o.op = "div" => Result(o, a, load) = Quotient(a[1], a[2])
  /\ o.op = "rem" => Result(o, a, load) = Remainder(a[1], a[2])
  /\ o.op = "min" => Result(o, a, load) = Least({a[1], a[2]})
  /\ o.op = "max" => Result(o, a, load) = Greatest({a[1], a[2]})
  /\ o.op = "neg" => Result(o, a, load) = -a[1]
  /\ o.op = "abs" => Result(o, a, load) = Magnitude(a[1])
  /\ o.op = "convert" => Result(o, a, load) = a[1]
  /\ o.op = "clamp" => Result(o, a, load) = Least({Greatest({a[1], a[2]}), a[3]})
  /\ o.op = "compare" => Result(o, a, load) = IF Holds(o.dir, a[1], a[2]) THEN 1 ELSE 0
  /\ o.op = "iota" => Result(o, a, load) =
                       o.first + o.stride * Least({Greatest({a[1], 0}), o.size - 1})
  /\ o.op = "load" => Result(o, a, load) = load

\* Result follows the rules.
LEMMA ResultFollows == ASSUME NEW o, NEW a, NEW load PROVE ResultRules(o, a, load)
BY DEF Result, ResultRules

\* The result of an operation is a number.
LEMMA ResultType ==
  ASSUME NEW ops, NEW n, WellFormed(ops, n), NEW a \in [DOMAIN ops[n].in -> Int], NEW load \in Int
  PROVE  Result(ops[n], a, load) \in Int
<1>. DEFINE o == ops[n]
<1>1. /\ o.op \in UnaryNames => a[1] \in Int
      /\ o.op \in BinaryNames => a[1] \in Int /\ a[2] \in Int
      /\ o.op = "clamp" => a[1] \in Int /\ a[2] \in Int /\ a[3] \in Int
      /\ o.op \in UnaryNames \union BinaryNames \union {"clamp", "load"}
  BY ArityOf
<1>2. o.op = "iota" => o.first \in Int /\ o.stride \in Int /\ o.size \in Nat \ {0}
  BY Zenon DEF WellFormed
<1>. SUFFICES Result(o, a, load) \in Int
  OBVIOUS
<1>. HIDE DEF o
<1>0. ResultRules(o, a, load)
  BY ResultFollows
<1>3. CASE o.op \in {"add", "sub", "mul"}
  <2>1. a[1] \in Int /\ a[2] \in Int
    BY <1>1, <1>3 DEF BinaryNames
  <2>2. Result(o, a, load) \in {a[1] + a[2], a[1] - a[2], a[1] * a[2]}
    BY <1>3, <1>0, Zenon DEF ResultRules
  <2>3. a[1] + a[2] \in Int /\ a[1] - a[2] \in Int /\ a[1] * a[2] \in Int
    BY <2>1
  <2>. QED BY <2>2, <2>3, Zenon
<1>4. CASE o.op \in {"min", "max"}
  <2>1. a[1] \in Int /\ a[2] \in Int
    BY <1>1, <1>4 DEF BinaryNames
  <2>2. Least({a[1], a[2]}) \in Int /\ Greatest({a[1], a[2]}) \in Int
    BY <2>1, LeastPair, GreatestPair
  <2>. QED BY <1>4, <2>2, <1>0 DEF ResultRules
<1>5. CASE o.op \in {"div", "rem"}
  <2>1. a[1] \in Int /\ a[2] \in Int
    BY <1>1, <1>5 DEF BinaryNames
  <2>2. Quotient(a[1], a[2]) \in Int
    BY <2>1, QuotientType
  <2>3. Remainder(a[1], a[2]) \in Int
    BY <2>1, <2>2 DEF Remainder
  <2>. QED BY <1>5, <2>2, <2>3, <1>0 DEF ResultRules
<1>6. CASE o.op = "clamp"
  <2>1. a[1] \in Int /\ a[2] \in Int /\ a[3] \in Int
    BY <1>1, <1>6
  <2>2. Greatest({a[1], a[2]}) \in Int
    BY <2>1, GreatestPair
  <2>3. Least({Greatest({a[1], a[2]}), a[3]}) \in Int
    BY <2>1, <2>2, LeastPair
  <2>. QED BY <1>6, <2>3, <1>0 DEF ResultRules
<1>7. CASE o.op = "compare" \/ o.op = "load"
  <2>1. Result(o, a, load) \in {load, 0, 1}
    <3>1. CASE o.op = "compare"
      <4>1. Result(o, a, load) = IF Holds(o.dir, a[1], a[2]) THEN 1 ELSE 0
        BY <3>1, <1>0, Zenon DEF ResultRules
      <4>. QED BY <4>1
    <3>2. CASE o.op = "load"
      BY <3>2, <1>0, Zenon DEF ResultRules
    <3>. QED BY <1>7, <3>1, <3>2
  <2>. QED BY <2>1
<1>8. CASE o.op = "iota"
  <2>1. a[1] \in Int /\ 0 \in Int
    BY <1>1, <1>8 DEF UnaryNames
  <2>2. Greatest({a[1], 0}) \in Int
    BY <2>1, GreatestPair
  <2>. DEFINE z == o.size - 1
  <2>3. z \in Int /\ o.first \in Int /\ o.stride \in Int
    BY <1>2, <1>8
  <2>4. Least({Greatest({a[1], 0}), z}) \in Int
    <3>. HIDE DEF z
    <3>. QED BY <2>2, <2>3, LeastPair
  <2>5. Result(o, a, load) = o.first + o.stride * Least({Greatest({a[1], 0}), z})
    BY <1>8, <1>0 DEF ResultRules
  <2>. QED BY <2>3, <2>4, <2>5
<1>10. CASE o.op \in {"neg", "abs", "convert"}
  <2>1. a[1] \in Int
    BY <1>1, <1>10 DEF UnaryNames
  <2>2. Result(o, a, load) \in {-a[1], Magnitude(a[1]), a[1]}
    BY <1>10, <1>0, Zenon DEF ResultRules
  <2>3. -a[1] \in Int /\ Magnitude(a[1]) \in Int
    BY <2>1 DEF Magnitude
  <2>. QED BY <2>1, <2>2, <2>3, Zenon
<1>. QED BY <1>1, <1>3, <1>4, <1>5, <1>6, <1>7, <1>8, <1>10 DEF UnaryNames, BinaryNames

\* The value of operation n, from the values v before it.
NextValue(l, ops, v, i, load, n) ==
  IF n = 0 THEN i ELSE Wrap(Result(ops[n], Operands(ops[n], v, l.arg), load), ops[n].w)

\* v holds the values up to k.
Computes(l, ops, i, load, v, k) ==
  /\ v \in [0 .. k -> Int]
  /\ \A n \in 0 .. k : v[n] = NextValue(l, ops, v, i, load, n)

\* A value is a number of its width.
LEMMA NextValueType ==
  ASSUME NEW l, l.arg \in Int, NEW ops, WellFormedBody(ops), NEW n \in DOMAIN ops, NEW v,
         \A m \in 0 .. n - 1 : v[m] \in Int, NEW i, NEW load \in Int
  PROVE  NextValue(l, ops, v, i, load, n) \in Signed(ops[n].w) /\ NextValue(l, ops, v, i, load, n) \in Int
<1>1. n # 0 /\ WellFormed(ops, n) /\ Doubling(ops[n].w)
  BY DEF WellFormedBody
<1>2. Operands(ops[n], v, l.arg) \in [DOMAIN ops[n].in -> Int]
  BY <1>1, OperandsType
<1>3. Result(ops[n], Operands(ops[n], v, l.arg), load) \in Int
  BY <1>1, <1>2, ResultType
<1>4. ops[n].w \in Nat \ {0}
  BY <1>1, Zenon DEF WellFormed
<1>5. NextValue(l, ops, v, i, load, n) = Wrap(Result(ops[n], Operands(ops[n], v, l.arg), load), ops[n].w)
  BY <1>1, Zenon DEF NextValue
<1>. QED BY <1>1, <1>3, <1>4, <1>5, WrapType

\* It depends on the values before it alone.
LEMMA NextValueAgrees ==
  ASSUME NEW l, NEW ops, WellFormedBody(ops), NEW n \in 0 .. Len(ops), NEW u, NEW v,
         \A m \in 0 .. n - 1 : u[m] = v[m], NEW i, NEW load
  PROVE  NextValue(l, ops, u, i, load, n) = NextValue(l, ops, v, i, load, n)
<1>1. CASE n = 0
  BY <1>1 DEF NextValue
<1>2. CASE n # 0
  <2>1. n \in DOMAIN ops /\ WellFormed(ops, n)
    BY <1>2 DEF WellFormedBody
  <2>2. Operands(ops[n], u, l.arg) = Operands(ops[n], v, l.arg)
    BY <2>1, OperandsAgree
  <2>. QED BY <2>2, Zenon DEF NextValue
<1>. QED BY <1>1, <1>2

\* The values up to k, and then the next one.
LEMMA ComputesOneMore ==
  ASSUME NEW l, l.arg \in Int, NEW ops, WellFormedBody(ops), NEW i \in Int, NEW load \in Int,
         NEW k \in 0 .. Len(ops) - 1, NEW v, Computes(l, ops, i, load, v, k)
  PROVE  \E u : Computes(l, ops, i, load, u, k + 1)
<1>. DEFINE x == NextValue(l, ops, v, i, load, k + 1)
            u == [n \in 0 .. k + 1 |-> IF n = k + 1 THEN x ELSE v[n]]
<1>0. Len(ops) \in Nat /\ DOMAIN ops = 1 .. Len(ops) /\ k \in Nat
  BY DEF WellFormedBody
<1>1. v \in [0 .. k -> Int] /\ \A n \in 0 .. k : v[n] = NextValue(l, ops, v, i, load, n)
  BY DEF Computes
<1>2. x \in Int
  <2>1. k + 1 \in DOMAIN ops /\ \A m \in 0 .. (k + 1) - 1 : v[m] \in Int
    BY <1>0, <1>1
  <2>. QED BY <2>1, NextValueType
<1>3. u \in [0 .. k + 1 -> Int]
  <2>. HIDE DEF x
  <2>. QED BY <1>0, <1>1, <1>2
<1>4. \A n \in 0 .. k : u[n] = v[n]
  BY <1>0
<1>5. u[k + 1] = x
  BY <1>0
<1>6. \A n \in 0 .. k + 1 : NextValue(l, ops, u, i, load, n) = NextValue(l, ops, v, i, load, n)
  <2>. SUFFICES ASSUME NEW n \in 0 .. k + 1
                PROVE NextValue(l, ops, u, i, load, n) = NextValue(l, ops, v, i, load, n)
    OBVIOUS
  <2>1. n \in 0 .. Len(ops) /\ \A m \in 0 .. n - 1 : u[m] = v[m]
    <3>. HIDE DEF u
    <3>. QED BY <1>0, <1>4
  <2>. HIDE DEF u
  <2>. QED BY <2>1, NextValueAgrees
<1>. HIDE DEF u
<1>7. \A n \in 0 .. k + 1 : u[n] = NextValue(l, ops, u, i, load, n)
  <2>. SUFFICES ASSUME NEW n \in 0 .. k + 1 PROVE u[n] = NextValue(l, ops, u, i, load, n)
    OBVIOUS
  <2>1. CASE n = k + 1
    BY <1>5, <1>6, <2>1
  <2>2. CASE n # k + 1
    <3>1. n \in 0 .. k
      BY <1>0, <2>2
    <3>2. u[n] = v[n] /\ v[n] = NextValue(l, ops, v, i, load, n)
      BY <1>1, <1>4, <3>1
    <3>3. NextValue(l, ops, u, i, load, n) = NextValue(l, ops, v, i, load, n)
      BY <1>6
    <3>. QED BY <3>2, <3>3
  <2>. QED BY <2>1, <2>2
<1>. QED BY <1>3, <1>7 DEF Computes

\* There are values up to the last one.
LEMMA ValuesExist ==
  ASSUME NEW l, l.arg \in Int, NEW ops, WellFormedBody(ops), NEW i \in Int, NEW load \in Int
  PROVE  \E v : Computes(l, ops, i, load, v, Len(ops))
<1>. DEFINE S == {k \in Nat : \E v : Computes(l, ops, i, load, v, k)}
<1>0. Len(ops) \in Nat
  BY DEF WellFormedBody
<1>1. 0 \in S
  <2>. DEFINE v == [n \in 0 .. 0 |-> i]
  <2>1. v \in [0 .. 0 -> Int] /\ \A n \in 0 .. 0 : n = 0 /\ v[n] = i
    OBVIOUS
  <2>. HIDE DEF v
  <2>2. Computes(l, ops, i, load, v, 0)
    BY <2>1 DEF Computes, NextValue
  <2>. QED BY <2>2
<1>2. \A k \in 0 .. Len(ops) - 1 : k \in S => k + 1 \in S
  <2>. SUFFICES ASSUME NEW k \in 0 .. Len(ops) - 1, NEW v, Computes(l, ops, i, load, v, k)
                PROVE  k + 1 \in S
    OBVIOUS
  <2>1. \E u : Computes(l, ops, i, load, u, k + 1)
    BY ComputesOneMore
  <2>2. k + 1 \in Nat
    BY <1>0
  <2>. QED BY <2>1, <2>2
<1>. HIDE DEF S
<1>3. Len(ops) \in S
  <2>1. \A k \in 0 .. Len(ops) : k \in S
    BY <1>0, <1>1, <1>2, UpTo
  <2>. QED BY <1>0, <2>1
<1>. QED BY <1>3 DEF S

\* Values is what its definition says.
LEMMA ValuesCompute ==
  ASSUME NEW l, l.arg \in Int, NEW ops, WellFormedBody(ops), NEW i \in Int, NEW load \in Int
  PROVE  Computes(l, ops, i, load, Values(l, ops, i, load), Len(ops))
<1>1. PICK v : Computes(l, ops, i, load, v, Len(ops))
  BY ValuesExist
<1>2. v = [n \in 0 .. Len(ops) |-> v[n]]
  BY <1>1 DEF Computes
<1>3. v = [n \in 0 .. Len(ops) |->
             IF n = 0 THEN i ELSE Wrap(Result(ops[n], Operands(ops[n], v, l.arg), load), ops[n].w)]
  BY <1>1, <1>2, Zenon DEF Computes, NextValue
<1>. DEFINE u == Values(l, ops, i, load)
<1>4. u = [n \in 0 .. Len(ops) |->
             IF n = 0 THEN i ELSE Wrap(Result(ops[n], Operands(ops[n], u, l.arg), load), ops[n].w)]
  BY <1>3 DEF Values
<1>. HIDE DEF u
<1>5. \A n \in 0 .. Len(ops) : u[n] = NextValue(l, ops, u, i, load, n)
  BY <1>4 DEF NextValue
<1>6. DOMAIN u = 0 .. Len(ops) /\ u = [n \in 0 .. Len(ops) |-> u[n]]
  BY <1>4
<1>7. \A n \in 0 .. Len(ops) : u[n] \in Int
  <2>. DEFINE S == {k \in Nat : k <= Len(ops) => \A m \in 0 .. k : u[m] \in Int}
  <2>0. Len(ops) \in Nat /\ DOMAIN ops = 1 .. Len(ops)
    BY DEF WellFormedBody
  <2>1. 0 \in S
    <3>1. u[0] = i
      BY <1>5, <2>0 DEF NextValue
    <3>. QED BY <3>1
  <2>2. \A k \in 0 .. Len(ops) - 1 : k \in S => k + 1 \in S
    <3>. SUFFICES ASSUME NEW k \in 0 .. Len(ops) - 1, \A m \in 0 .. k : u[m] \in Int
                  PROVE  u[k + 1] \in Int
      BY <2>0
    <3>1. k + 1 \in DOMAIN ops /\ \A m \in 0 .. (k + 1) - 1 : u[m] \in Int
      BY <2>0
    <3>2. NextValue(l, ops, u, i, load, k + 1) \in Int
      BY <3>1, NextValueType
    <3>3. k + 1 \in 0 .. Len(ops)
      BY <2>0
    <3>. QED BY <1>5, <3>2, <3>3
  <2>. HIDE DEF S
  <2>3. Len(ops) \in S
    <3>1. \A k \in 0 .. Len(ops) : k \in S
      BY <2>0, <2>1, <2>2, UpTo
    <3>. QED BY <2>0, <3>1
  <2>. QED BY <2>0, <2>3 DEF S
<1>8. u \in [0 .. Len(ops) -> Int]
  BY <1>6, <1>7
<1>. QED BY <1>5, <1>8 DEF Computes, u

\* Nothing else is.
LEMMA ValuesUnique ==
  ASSUME NEW l, NEW ops, WellFormedBody(ops), NEW i, NEW load,
         NEW u, Computes(l, ops, i, load, u, Len(ops)), NEW v, Computes(l, ops, i, load, v, Len(ops))
  PROVE  u = v
<1>. DEFINE S == {k \in Nat : k <= Len(ops) => \A m \in 0 .. k : u[m] = v[m]}
<1>0. Len(ops) \in Nat
  BY DEF WellFormedBody
<1>1. /\ u \in [0 .. Len(ops) -> Int] /\ v \in [0 .. Len(ops) -> Int]
      /\ \A n \in 0 .. Len(ops) : u[n] = NextValue(l, ops, u, i, load, n) /\ v[n] = NextValue(l, ops, v, i, load, n)
  BY DEF Computes
<1>2. \A n \in 0 .. Len(ops) : (\A m \in 0 .. n - 1 : u[m] = v[m]) => u[n] = v[n]
  BY <1>1, NextValueAgrees
<1>3. 0 \in S
  <2>1. 0 \in 0 .. Len(ops) /\ \A m \in 0 .. 0 - 1 : u[m] = v[m]
    BY <1>0
  <2>2. u[0] = v[0]
    BY <1>2, <2>1
  <2>. QED BY <2>2
<1>4. \A k \in 0 .. Len(ops) - 1 : k \in S => k + 1 \in S
  <2>. SUFFICES ASSUME NEW k \in 0 .. Len(ops) - 1, \A m \in 0 .. k : u[m] = v[m] PROVE u[k + 1] = v[k + 1]
    BY <1>0
  <2>1. k + 1 \in 0 .. Len(ops) /\ \A m \in 0 .. (k + 1) - 1 : u[m] = v[m]
    BY <1>0
  <2>. QED BY <1>2, <2>1
<1>. HIDE DEF S
<1>5. Len(ops) \in S
  <2>1. \A k \in 0 .. Len(ops) : k \in S
    BY <1>0, <1>3, <1>4, UpTo
  <2>. QED BY <1>0, <2>1
<1>6. \A n \in 0 .. Len(ops) : u[n] = v[n]
  BY <1>0, <1>5 DEF S
<1>. QED BY <1>1, <1>6

\* The values of an iteration of the loop as given.
Iteration(l, i, load) == Values(l, l.body, i, load)

\* The body of a loop that may be given is one.
LEMMA LoopBody == ASSUME NEW l, WellFormedLoop(l) PROVE WellFormedBody(l.body) /\ l.arg \in Int
BY DEF WellFormedLoop, WellFormedBody

\* The induction variable comes first; every other value is a number of its
\* width, what its operation yields cut to that width.
LEMMA IterationValues ==
  ASSUME NEW l, WellFormedLoop(l), NEW i \in Int, NEW load \in Int
  PROVE  LET v == Iteration(l, i, load)
         IN  /\ v \in [0 .. Len(l.body) -> Int] /\ v[0] = i
             /\ \A n \in DOMAIN l.body : v[n] \in Signed(l.body[n].w) /\ v[n] = NextValue(l, l.body, v, i, load, n)
<1>. DEFINE v == Iteration(l, i, load)
<1>1. WellFormedBody(l.body) /\ l.arg \in Int
  BY LoopBody
<1>2. Computes(l, l.body, i, load, v, Len(l.body))
  BY <1>1, ValuesCompute DEF Iteration
<1>3. Len(l.body) \in Nat /\ DOMAIN l.body = 1 .. Len(l.body)
  BY <1>1 DEF WellFormedBody
<1>. HIDE DEF v
<1>4. v \in [0 .. Len(l.body) -> Int] /\ \A n \in 0 .. Len(l.body) : v[n] = NextValue(l, l.body, v, i, load, n)
  BY <1>2 DEF Computes
<1>5. v[0] = i
  <2>1. 0 \in 0 .. Len(l.body)
    BY <1>3
  <2>2. v[0] = NextValue(l, l.body, v, i, load, 0)
    BY <1>4, <2>1
  <2>. QED BY <2>2 DEF NextValue
<1>6. \A n \in DOMAIN l.body : v[n] \in Signed(l.body[n].w) /\ v[n] = NextValue(l, l.body, v, i, load, n)
  <2>. SUFFICES ASSUME NEW n \in DOMAIN l.body
                PROVE v[n] \in Signed(l.body[n].w) /\ v[n] = NextValue(l, l.body, v, i, load, n)
    OBVIOUS
  <2>1. n \in 0 .. Len(l.body) /\ \A m \in 0 .. n - 1 : v[m] \in Int
    BY <1>3, <1>4
  <2>2. v[n] = NextValue(l, l.body, v, i, load, n)
    BY <1>4, <2>1
  <2>3. NextValue(l, l.body, v, i, load, n) \in Signed(l.body[n].w)
    BY <1>1, <2>1, NextValueType
  <2>. QED BY <2>2, <2>3
<1>. QED BY <1>4, <1>5, <1>6 DEF v

\* In a clean iteration nothing is cut.
LEMMA CleanValues ==
  ASSUME NEW l, NEW i, NEW load, IsClean(l, i, load), NEW n \in DOMAIN l.body
  PROVE  LET v == Iteration(l, i, load)
             a == Operands(l.body[n], v, l.arg)
         IN  /\ v[n] = Result(l.body[n], a, load)
             /\ l.body[n].op \in {"div", "rem"} => a[2] # 0
             /\ l.body[n].op = "iota" => a[1] \in 0 .. l.body[n].size - 1
BY Zenon DEF IsClean, Iteration

\* An operand of an operation whose operands are as wide as it is is a number
\* of that width.
LEMMA OperandFits ==
  ASSUME NEW l, WellFormedLoop(l), NEW i \in Signed(Width), NEW load \in Int,
         NEW n \in DOMAIN l.body, HasTypedOperands(l.body[n]), NEW j \in DOMAIN l.body[n].in
  PROVE  Operand(l.body[n].in[j], Iteration(l, i, load), l.arg) \in Signed(l.body[n].w)
<1>. DEFINE v == Iteration(l, i, load)
            x == l.body[n].in[j]
            w == l.body[n].w
<1>0. i \in Int
  BY DEF Signed
<1>1. WellTypedOperand(l, x, w) /\ WellFormed(l.body, n) /\ DOMAIN l.body = 1 .. Len(l.body) /\ Len(l.body) \in Nat
  BY DEF WellFormedLoop
<1>2. v[0] = i /\ \A m \in DOMAIN l.body : v[m] \in Signed(l.body[m].w)
  BY <1>0, IterationValues
<1>3. x \in OperandSet /\ (x.k = "val" => x.v \in 0 .. n - 1)
  <2>1. l.body[n].in \in Seq(OperandSet) /\ \A p \in DOMAIN l.body[n].in :
          l.body[n].in[p].k = "val" => l.body[n].in[p].v \in 0 .. n - 1
    BY <1>1, Zenon DEF WellFormed
  <2>. QED BY <2>1, ElementOfSeq
<1>4. x.k \in {"val", "cst", "arg"}
  BY <1>3 DEF OperandSet
<1>. SUFFICES Operand(x, v, l.arg) \in Signed(w)
  OBVIOUS
<1>. HIDE DEF v, x, w
<1>5. CASE x.k = "val"
  <2>1. Operand(x, v, l.arg) = v[x.v] /\ ValueWidth(l, x.v) = w
    BY <1>1, <1>5 DEF Operand, WellTypedOperand
  <2>2. CASE x.v = 0
    BY <1>2, <2>1, <2>2 DEF ValueWidth
  <2>3. CASE x.v # 0
    <3>1. x.v \in DOMAIN l.body
      BY <1>1, <1>3, <1>5, <2>3
    <3>. QED BY <1>2, <2>1, <2>3, <3>1 DEF ValueWidth
  <2>. QED BY <2>2, <2>3
<1>6. CASE x.k = "cst"
  BY <1>1, <1>6 DEF Operand, WellTypedOperand
<1>7. CASE x.k = "arg"
  BY <1>1, <1>7 DEF Operand, WellTypedOperand
<1>. QED BY <1>4, <1>5, <1>6, <1>7

-----------------------------------------------------------------------------
(* A rewritten body                                                        *)

\* Operations o and p differ at most in their operands.
SameOperation(o, p) ==
  /\ o.op = p.op /\ o.w = p.w /\ DOMAIN o.in = DOMAIN p.in
  /\ o.op = "compare" => o.dir = p.dir
  /\ o.op = "iota" => o.first = p.first /\ o.stride = p.stride /\ o.size = p.size

\* Values that are operands are as wide as the operation.
ValuesTyped(l, o) ==
  HasTypedOperands(o) => \A j \in DOMAIN o.in : o.in[j].k = "val" => ValueWidth(l, o.in[j].v) = o.w

\* b is the body of l, with other operands of the same widths.
SameShape(l, b) ==
  /\ Len(b) = Len(l.body) /\ DOMAIN b = DOMAIN l.body
  /\ \A n \in DOMAIN l.body : WellFormed(b, n) /\ SameOperation(b[n], l.body[n]) /\ ValuesTyped(l, b[n])

\* The operands that b has in the place of those of the body have the same values.
SameOperands(l, b, i, load) ==
  \A n \in DOMAIN l.body :
    Operands(b[n], Iteration(l, i, load), l.arg) = Operands(l.body[n], Iteration(l, i, load), l.arg)

\* Operations that differ in their operands alone do the same with operands.
LEMMA SameResult ==
  ASSUME NEW o, NEW p, SameOperation(o, p), NEW a, NEW load,
         o.op \in UnaryNames \union BinaryNames \union {"clamp", "load"}
  PROVE  Result(o, a, load) = Result(p, a, load)
<1>0. ResultRules(o, a, load) /\ ResultRules(p, a, load)
  BY ResultFollows
<1>1. o.op = p.op
  BY DEF SameOperation
<1>2. CASE o.op = "compare"
  <2>1. o.dir = p.dir
    BY <1>2 DEF SameOperation
  <2>2. Result(o, a, load) = (IF Holds(o.dir, a[1], a[2]) THEN 1 ELSE 0)
        /\ Result(p, a, load) = (IF Holds(p.dir, a[1], a[2]) THEN 1 ELSE 0)
    BY <1>0, <1>1, <1>2 DEF ResultRules
  <2>3. Result(o, a, load) = (IF Holds(p.dir, a[1], a[2]) THEN 1 ELSE 0)
    BY <2>1, <2>2
  <2>. QED BY <2>2, <2>3
<1>3. CASE o.op = "iota"
  <2>1. o.first = p.first /\ o.stride = p.stride /\ o.size = p.size
    BY <1>3 DEF SameOperation
  <2>2. /\ Result(o, a, load) = o.first + o.stride * Least({Greatest({a[1], 0}), o.size - 1})
        /\ Result(p, a, load) = p.first + p.stride * Least({Greatest({a[1], 0}), p.size - 1})
    BY <1>0, <1>1, <1>3 DEF ResultRules
  <2>. QED BY <2>1, <2>2, Zenon
<1>4. CASE o.op \in {"add", "sub", "mul", "div", "rem", "min", "max"}
  BY <1>0, <1>1, <1>4 DEF ResultRules
<1>5. CASE o.op \in {"neg", "abs", "convert", "clamp", "load"}
  BY <1>0, <1>1, <1>5 DEF ResultRules
<1>. QED BY <1>2, <1>3, <1>4, <1>5 DEF UnaryNames, BinaryNames

\* The rewritten body is one.
LEMMA ShapeBody == ASSUME NEW l, WellFormedLoop(l), NEW b, SameShape(l, b) PROVE WellFormedBody(b)
BY DEF WellFormedLoop, WellFormedBody, SameShape, SameOperation

\* If its operands have the same values, so have its results.
LEMMA RewrittenValues ==
  ASSUME NEW l, WellFormedLoop(l), NEW b, SameShape(l, b), NEW i \in Int, NEW load \in Int,
         SameOperands(l, b, i, load)
  PROVE  Values(l, b, i, load) = Iteration(l, i, load)
<1>. DEFINE v == Iteration(l, i, load)
<1>1. WellFormedBody(b) /\ WellFormedBody(l.body) /\ l.arg \in Int
  BY LoopBody, ShapeBody
<1>2. Computes(l, l.body, i, load, v, Len(l.body))
  BY <1>1, ValuesCompute DEF Iteration
<1>3. Len(b) = Len(l.body) /\ DOMAIN b = DOMAIN l.body /\ DOMAIN b = 1 .. Len(b) /\ Len(b) \in Nat
  BY <1>1 DEF SameShape, WellFormedBody
<1>4. \A n \in 0 .. Len(b) : NextValue(l, b, v, i, load, n) = NextValue(l, l.body, v, i, load, n)
  <2>. SUFFICES ASSUME NEW n \in 0 .. Len(b)
                PROVE  NextValue(l, b, v, i, load, n) = NextValue(l, l.body, v, i, load, n)
    OBVIOUS
  <2>1. CASE n = 0
    BY <2>1 DEF NextValue
  <2>2. CASE n # 0
    <3>1. n \in DOMAIN l.body
      BY <1>3, <2>2
    <3>2. SameOperation(b[n], l.body[n]) /\ WellFormed(b, n)
      BY <3>1 DEF SameShape
    <3>3. Operands(b[n], v, l.arg) = Operands(l.body[n], v, l.arg)
      BY <3>1 DEF SameOperands
    <3>4. b[n].op \in UnaryNames \union BinaryNames \union {"clamp", "load"}
      BY <3>2, ArityOf
    <3>. DEFINE a == Operands(l.body[n], v, l.arg)
    <3>5. Result(b[n], a, load) = Result(l.body[n], a, load)
      <4>. HIDE DEF a
      <4>. QED BY <3>2, <3>4, SameResult
    <3>6. b[n].w = l.body[n].w
      BY <3>2 DEF SameOperation
    <3>. QED BY <2>2, <3>3, <3>5, <3>6, Zenon DEF NextValue
  <2>. QED BY <2>1, <2>2
<1>. HIDE DEF v
<1>5. Computes(l, b, i, load, v, Len(b))
  BY <1>2, <1>3, <1>4 DEF Computes
<1>6. Computes(l, b, i, load, Values(l, b, i, load), Len(b))
  BY <1>1, ValuesCompute
<1>7. Values(l, b, i, load) = v
  BY <1>1, <1>5, <1>6, ValuesUnique
<1>. QED BY <1>7 DEF v

-----------------------------------------------------------------------------
(* Entries of affine                                                       *)

\* Entries, and what cutting to the width of one does.
EntrySet == [w : {1, Width}, scale : Signed(Width), offset : Signed(Width)]

\* The induction variable has a width, with powers of two to match.
LEMMA WidthFacts ==
  /\ Width \in Nat \ {0} /\ Doubling(Width) /\ 1 \in 1 .. Width /\ Doubling(1)
  /\ 2^Width \in Nat \ {0} /\ Signed(1) \subseteq Signed(Width) /\ Signed(Width) \subseteq Int
<1>1. Width \in Nat \ {0} /\ Doubling(Width)
  BY WidthAssumption, LoopsAssumption
<1>2. 1 \in 1 .. Width /\ Width \in 0 .. Width
  BY <1>1
<1>3. Doubling(1)
  BY <1>1, <1>2 DEF Doubling
<1>4. 2^Width \in Nat \ {0}
  BY <1>1, <1>2, PowerPositive
<1>5. Signed(1) \subseteq Signed(Width)
  BY <1>1, <1>2, SignedGrows
<1>. QED BY <1>1, <1>2, <1>3, <1>4, <1>5 DEF Signed

\* A number cut to the width of an entry is one of the width of the
\* induction variable.
LEMMA CutEntry ==
  ASSUME NEW w \in {1, Width}, NEW x \in Int
  PROVE  Wrap(x, w) \in Signed(Width)
<1>1. w \in Nat \ {0} /\ Doubling(w) /\ Signed(w) \subseteq Signed(Width)
  BY WidthFacts
<1>. QED BY <1>1, WrapType

\* Zero is cut to zero.
LEMMA CutZero == ASSUME NEW w \in {1, Width} PROVE Wrap(0, w) = 0
<1>1. w \in Nat \ {0} /\ Doubling(w)
  BY WidthFacts
<1>2. 2^(w - 1) \in Nat \ {0}
  BY <1>1, TwoHalves
<1>3. 0 \in Signed(w)
  BY <1>2 DEF Signed
<1>. QED BY <1>1, <1>3, WrapSame

\* An updated entry is one; scaling nothing yields nothing.
LEMMA UpdateType ==
  ASSUME NEW cur \in EntrySet, NEW c \in Int, NEW d \in Int
  PROVE  LET new == Update(cur, c, d)
         IN  /\ new \in EntrySet /\ new.w = cur.w
             /\ new.scale = Wrap(c * cur.scale, cur.w) /\ new.offset = Wrap(c * cur.offset + d, cur.w)
             /\ cur.scale = 0 => new.scale = 0
<1>1. cur.w \in {1, Width} /\ cur.scale \in Int /\ cur.offset \in Int
  BY WidthFacts DEF EntrySet
<1>2. c * cur.scale \in Int /\ c * cur.offset + d \in Int
  BY <1>1
<1>. DEFINE s == Wrap(c * cur.scale, cur.w)
            o == Wrap(c * cur.offset + d, cur.w)
<1>3. s \in Signed(Width) /\ o \in Signed(Width)
  BY <1>1, <1>2, CutEntry
<1>4. cur.scale = 0 => s = 0
  <2>1. cur.scale = 0 => c * cur.scale = 0
    OBVIOUS
  <2>. QED BY <1>1, <2>1, CutZero
<1>5. Update(cur, c, d) = [cur EXCEPT !.scale = s, !.offset = o]
  BY DEF Update
<1>. HIDE DEF s, o
<1>6. LET new == [cur EXCEPT !.scale = s, !.offset = o]
      IN  new \in EntrySet /\ new.w = cur.w /\ new.scale = s /\ new.offset = o
  BY <1>3 DEF EntrySet
<1>7. LET new == Update(cur, c, d)
      IN  new \in EntrySet /\ new.w = cur.w /\ new.scale = s /\ new.offset = o /\ (cur.scale = 0 => new.scale = 0)
  BY <1>4, <1>5, <1>6
<1>. QED BY <1>7 DEF s, o

\* In the clean iterations that start in D the value x is S times the induction
\* variable plus O.
LinearWith(l, x, S, O, D) ==
  \A i \in D, load \in Int : IsClean(l, i, load) => Iteration(l, i, load)[x] = S * i + O

\* And so it is for scale s and offset o, up to multiples of the number of
\* values of the width.
LinearValue(l, x, s, o, D) ==
  \E S, O \in Int : /\ Congruent(S, s, 2^Width) /\ Congruent(O, o, 2^Width)
                    /\ LinearWith(l, x, S, O, D)

\* Cutting a multiple of s plus d keeps what s stands for.
LEMMA CongruentTimes ==
  ASSUME NEW w \in Nat \ {0}, Doubling(w), NEW c \in Int, NEW d \in Int, NEW s \in Int, NEW S \in Int,
         Congruent(S, s, 2^w)
  PROVE  Congruent(c * S + d, Wrap(c * s + d, w), 2^w)
<1>. DEFINE M == 2^w
            x == c * s + d
            y == Wrap(x, w)
<1>0. M \in Int
  OBVIOUS
<1>1. PICK k \in Int : S = s + k * M
  BY DEF Congruent
<1>2. x \in Int /\ y \in Int /\ Congruent(y, x, M)
  <2>1. x \in Int
    OBVIOUS
  <2>. HIDE DEF x, M
  <2>. QED BY <2>1, WrapType DEF M
<1>3. PICK m \in Int : y = x + m * M
  BY <1>2 DEF Congruent
<1>4. c * S + d = x + (c * k) * M
  <2>. HIDE DEF M
  <2>1. c * (s + k * M) = c * s + (c * k) * M
    BY <1>0, <1>1
  <2>. QED BY <1>0, <1>1, <2>1
<1>. HIDE DEF M, x, y
<1>5. x + (c * k) * M = y + (c * k - m) * M
  <2>. DEFINE p == c * k
  <2>1. p \in Int
    BY <1>1
  <2>. HIDE DEF p
  <2>2. (p - m) * M = p * M - m * M
    BY <1>0, <1>3, <2>1
  <2>3. p * M \in Int /\ m * M \in Int
    BY <1>0, <1>3, <2>1
  <2>4. x + p * M = y + (p - m) * M
    BY <1>2, <1>3, <2>2, <2>3
  <2>. QED BY <2>4 DEF p
<1>6. c * k - m \in Int
  BY <1>1, <1>3
<1>7. \E q \in Int : c * S + d = y + q * M
  BY <1>4, <1>5, <1>6
<1>. QED BY <1>7 DEF Congruent, M, x, y

\* A multiple of a linear value plus a constant is linear.
LEMMA LinearTimes ==
  ASSUME NEW l, WellFormedLoop(l), NEW D \in SUBSET Int, NEW x \in 0 .. Len(l.body), NEW y,
         NEW s \in Int, NEW o \in Int, LinearValue(l, x, s, o, D), NEW c \in Int, NEW d \in Int,
         \A i \in D, load \in Int : IsClean(l, i, load) =>
            Iteration(l, i, load)[y] = c * Iteration(l, i, load)[x] + d
  PROVE  LinearValue(l, y, Wrap(c * s, Width), Wrap(c * o + d, Width), D)
<1>1. PICK S, O \in Int : Congruent(S, s, 2^Width) /\ Congruent(O, o, 2^Width) /\ LinearWith(l, x, S, O, D)
  BY Zenon DEF LinearValue
<1>2. Congruent(c * O + d, Wrap(c * o + d, Width), 2^Width)
  BY <1>1, WidthFacts, CongruentTimes
<1>3. Congruent(c * S + 0, Wrap(c * s + 0, Width), 2^Width)
  <2>. DEFINE z == 0
  <2>1. z \in Int
    OBVIOUS
  <2>. HIDE DEF z
  <2>2. Congruent(c * S + z, Wrap(c * s + z, Width), 2^Width)
    BY <1>1, <2>1, WidthFacts, CongruentTimes
  <2>. QED BY <2>2 DEF z
<1>4. c * S + 0 = c * S /\ c * s + 0 = c * s /\ c * S \in Int /\ c * O + d \in Int
  BY ONLY c \in Int, d \in Int, s \in Int, S \in Int, O \in Int
<1>5. Congruent(c * S, Wrap(c * s, Width), 2^Width)
  BY <1>3, <1>4
<1>6. LinearWith(l, y, c * S, c * O + d, D)
  <2>. SUFFICES ASSUME NEW i \in D, NEW load \in Int, IsClean(l, i, load)
                PROVE  Iteration(l, i, load)[y] = (c * S) * i + (c * O + d)
    BY DEF LinearWith
  <2>1. Iteration(l, i, load)[y] = c * Iteration(l, i, load)[x] + d
    OBVIOUS
  <2>2. Iteration(l, i, load)[x] = S * i + O
    BY <1>1 DEF LinearWith
  <2>3. i \in Int
    OBVIOUS
  <2>4. c * (S * i + O) + d = (c * S) * i + (c * O + d)
    BY ONLY <2>3, c \in Int, d \in Int, S \in Int, O \in Int
  <2>. QED BY <2>1, <2>2, <2>4
<1>. QED BY <1>2, <1>4, <1>5, <1>6, Zenon DEF LinearValue

\* What is known of an operand, at whatever values.
LEMMA OperandRules ==
  ASSUME NEW x, NEW v, NEW arg
  PROVE  /\ x.k = "val" => Operand(x, v, arg) = v[x.v]
         /\ x.k = "cst" => Operand(x, v, arg) = x.v
         /\ x.k = "arg" => Operand(x, v, arg) = arg
BY DEF Operand

\* A constant does not depend on the values.
LEMMA ConstantIsOne ==
  ASSUME NEW x \in OperandSet, IsConstantValue(x), loop.arg \in Int
  PROVE  ConstantOf(x) \in Int /\ \A v : Operand(x, v, loop.arg) = ConstantOf(x)
<1>1. x.v \in Int /\ (x.k = "cst" \/ x.k = "arg")
  BY DEF OperandSet, IsConstantValue
<1>2. CASE x.k = "cst"
  BY <1>1, <1>2, OperandRules DEF ConstantOf
<1>3. CASE x.k = "arg"
  BY <1>1, <1>3, OperandRules DEF ConstantOf
<1>. QED BY <1>1, <1>2, <1>3

\* Operands one by one.
LEMMA OperandAt ==
  ASSUME NEW o, NEW v, NEW arg, NEW j \in DOMAIN o.in
  PROVE  Operands(o, v, arg)[j] = Operand(o.in[j], v, arg)
BY DEF Operands

\* The operation o scales its operand x by c and adds d; its entry says so.
Scales(o, x, cur, c, d) ==
  /\ \/ InfoOf(o, x, cur) = Update(cur, c, d)
     \/ InfoOf(o, x, cur) = cur /\ c = 1 /\ d = 0
  /\ \A v, load : v[x] \in Int => Result(o, Operands(o, v, loop.arg), load) = c * v[x] + d
ScalesOperand(o, x, cur) == \E c, d \in Int : Scales(o, x, cur, c, d)

\* The operations through which an entry passes are linear in the operand that
\* has it: scaled and shifted as their entry is.
LEMMA Propagated ==
  ASSUME NEW ops, NEW n, WellFormed(ops, n), NEW j \in DOMAIN ops[n].in, NEW x, ops[n].in[j] = Val(x),
         Propagates(ops[n], x), loop.arg \in Int, NEW cur
  PROVE  ScalesOperand(ops[n], x, cur)
<1>. SUFFICES \E c, d \in Int :
           /\ \/ InfoOf(ops[n], x, cur) = Update(cur, c, d)
              \/ InfoOf(ops[n], x, cur) = cur /\ c = 1 /\ d = 0
           /\ \A v, load : v[x] \in Int => Result(ops[n], Operands(ops[n], v, loop.arg), load) = c * v[x] + d
  BY Zenon DEF ScalesOperand, Scales
<1>. DEFINE o == ops[n]
            A(v) == Operands(o, v, loop.arg)
<1>1. o.in \in Seq(OperandSet) /\ DOMAIN o.in = 1 .. Len(o.in) /\ Len(o.in) \in Nat
  <2>1. o.in \in Seq(OperandSet)
    BY Zenon DEF WellFormed
  <2>. QED BY <2>1, LenProperties
<1>2. /\ o.op \in UnaryNames => DOMAIN o.in = 1 .. 1
      /\ o.op \in BinaryNames => DOMAIN o.in = 1 .. 2
  BY ArityOf
<1>3. \A k \in DOMAIN o.in : o.in[k] \in OperandSet
  BY <1>1, ElementOfSeq
<1>4. \A v : Operand(Val(x), v, loop.arg) = v[x]
  <2>1. Val(x).k = "val" /\ Val(x).v = x
    BY DEF Val
  <2>. QED BY <2>1, OperandRules
<1>5. \A v, load : ResultRules(o, A(v), load)
  BY ResultFollows
<1>6. j \in DOMAIN o.in /\ o.in[j] = Val(x) /\ Propagates(o, x)
  OBVIOUS
<1>7. \A v : \A k \in DOMAIN o.in : A(v)[k] = Operand(o.in[k], v, loop.arg)
  BY OperandAt
<1>. SUFFICES \E c, d \in Int :
           /\ InfoOf(o, x, cur) = Update(cur, c, d) \/ (InfoOf(o, x, cur) = cur /\ c = 1 /\ d = 0)
           /\ \A v, load : v[x] \in Int => Result(o, A(v), load) = c * v[x] + d
  OBVIOUS
<1>. HIDE DEF o, A
<1>8. CASE o.op = "neg" \/ o.op = "convert"
  <2>1. j = 1 /\ 1 \in DOMAIN o.in
    BY <1>2, <1>6, <1>8 DEF UnaryNames
  <2>2. \A v : A(v)[1] = v[x]
    BY <1>4, <1>6, <1>7, <2>1
  <2>3. CASE o.op = "neg"
    <3>1. InfoOf(o, x, cur) = Update(cur, -1, 0)
      BY <2>3 DEF InfoOf
    <3>2. \A v, load : Result(o, A(v), load) = -v[x]
      BY <1>5, <2>2, <2>3 DEF ResultRules
    <3>3. \A v, load : v[x] \in Int => Result(o, A(v), load) = (-1) * v[x] + 0
      BY <3>2
    <3>. QED BY <3>1, <3>3
  <2>4. CASE o.op = "convert"
    <3>1. InfoOf(o, x, cur) = cur
      BY <2>4 DEF InfoOf
    <3>2. \A v, load : Result(o, A(v), load) = v[x]
      BY <1>5, <2>2, <2>4 DEF ResultRules
    <3>3. \A v, load : v[x] \in Int => Result(o, A(v), load) = 1 * v[x] + 0
      BY <3>2
    <3>. QED BY <3>1, <3>3
  <2>. QED BY <1>8, <2>3, <2>4
<1>9. CASE o.op \in {"add", "sub", "mul"}
  <2>. DEFINE p == Other(o, x)
              c == ConstantOf(o.in[p])
  <2>1. IsConstantValue(o.in[p])
    BY <1>6, <1>9 DEF Propagates
  <2>2. DOMAIN o.in = 1 .. 2
    BY <1>2, <1>9 DEF BinaryNames
  <2>3. Len(o.in) = 2
    <3>. DEFINE k == Len(o.in)
    <3>1. 1 .. k = 1 .. 2 /\ k \in Nat
      BY <1>1, <2>2
    <3>. HIDE DEF k
    <3>2. 2 \in 1 .. k /\ ~(3 \in 1 .. k)
      BY <3>1
    <3>3. k = 2
      BY <3>1, <3>2
    <3>. QED BY <3>3 DEF k
  <2>4. (p = 2 /\ o.in[1] = Val(x)) \/ (p = 1 /\ o.in[2] = Val(x))
    BY <1>6, <2>2, <2>3 DEF Other
  <2>5. p \in DOMAIN o.in /\ 1 \in DOMAIN o.in /\ 2 \in DOMAIN o.in
    BY <2>2, <2>4
  <2>6. c \in Int /\ \A v : Operand(o.in[p], v, loop.arg) = c
    BY <1>3, <2>1, <2>5, ConstantIsOne
  <2>7. \A v : (p = 2 /\ A(v)[1] = v[x] /\ A(v)[2] = c) \/ (p = 1 /\ A(v)[2] = v[x] /\ A(v)[1] = c)
    <3>. HIDE DEF c, p
    <3>. QED BY <1>4, <1>7, <2>4, <2>5, <2>6
  <2>8. CASE o.op = "add"
    <3>1. InfoOf(o, x, cur) = Update(cur, 1, c)
      BY <2>8 DEF InfoOf
    <3>. HIDE DEF c, p
    <3>2. \A v, load : Result(o, A(v), load) = A(v)[1] + A(v)[2]
      BY <1>5, <2>8 DEF ResultRules
    <3>3. \A v, load : v[x] \in Int => Result(o, A(v), load) = 1 * v[x] + c
      <4>. SUFFICES ASSUME NEW v, NEW load, v[x] \in Int PROVE Result(o, A(v), load) = 1 * v[x] + c
        OBVIOUS
      <4>. QED BY <2>6, <2>7, <3>2
    <3>. QED BY <2>6, <3>1, <3>3
  <2>9. CASE o.op = "sub"
    <3>1. InfoOf(o, x, cur) = IF p = 2 THEN Update(cur, 1, -c) ELSE Update(cur, -1, c)
      BY <2>9 DEF InfoOf
    <3>. HIDE DEF c, p
    <3>2. \A v, load : Result(o, A(v), load) = A(v)[1] - A(v)[2]
      BY <1>5, <2>9 DEF ResultRules
    <3>3. CASE p = 2
      <4>1. \A v, load : v[x] \in Int => Result(o, A(v), load) = 1 * v[x] + (-c)
        <5>. SUFFICES ASSUME NEW v, NEW load, v[x] \in Int PROVE Result(o, A(v), load) = 1 * v[x] + (-c)
          OBVIOUS
        <5>. QED BY <2>6, <2>7, <3>2, <3>3
      <4>. DEFINE e == -c
      <4>2. e \in Int /\ InfoOf(o, x, cur) = Update(cur, 1, e)
        BY <2>6, <3>1, <3>3
      <4>3. \A v, load : v[x] \in Int => Result(o, A(v), load) = 1 * v[x] + e
        BY <4>1
      <4>. HIDE DEF e
      <4>. QED BY <4>2, <4>3
    <3>4. CASE p # 2
      <4>1. \A v, load : v[x] \in Int => Result(o, A(v), load) = (-1) * v[x] + c
        <5>. SUFFICES ASSUME NEW v, NEW load, v[x] \in Int PROVE Result(o, A(v), load) = (-1) * v[x] + c
          OBVIOUS
        <5>. QED BY <2>6, <2>7, <3>2, <3>4
      <4>. QED BY <2>6, <3>1, <3>4, <4>1
    <3>. QED BY <3>3, <3>4
  <2>10. CASE o.op = "mul"
    <3>1. InfoOf(o, x, cur) = Update(cur, c, 0)
      BY <2>10 DEF InfoOf
    <3>. HIDE DEF c, p
    <3>2. \A v, load : Result(o, A(v), load) = A(v)[1] * A(v)[2]
      BY <1>5, <2>10 DEF ResultRules
    <3>3. \A v, load : v[x] \in Int => Result(o, A(v), load) = c * v[x] + 0
      <4>. SUFFICES ASSUME NEW v, NEW load, v[x] \in Int PROVE Result(o, A(v), load) = c * v[x] + 0
        OBVIOUS
      <4>1. Result(o, A(v), load) = v[x] * c \/ Result(o, A(v), load) = c * v[x]
        BY <2>7, <3>2
      <4>. QED BY <2>6, <4>1
    <3>. QED BY <2>6, <3>1, <3>3
  <2>. QED BY <1>9, <2>8, <2>9, <2>10
<1>. QED BY <1>6, <1>8, <1>9 DEF Propagates

-----------------------------------------------------------------------------
(* Ranges                                                                  *)

\* Ranges of values.
RangeSet == [min : Signed(Width), max : Signed(Width)]

\* x lies in the range r.
Within(x, r) == x >= r.min /\ x <= r.max

\* Ends of ranges are numbers, zero among them.
LEMMA EndsType ==
  /\ Signed(Width) \subseteq Int /\ 0 \in Signed(Width)
  /\ \A a, b \in Signed(Width) : a .. b \subseteq Signed(Width)
  /\ \A x \in Int : Wrap(x, Width) \in Signed(Width)
  /\ \A x \in Signed(Width) : Wrap(x, Width) = x
<1>1. Width \in Nat \ {0} /\ Doubling(Width)
  BY WidthFacts
<1>. DEFINE H == 2^(Width - 1)
<1>2. H \in Nat \ {0}
  BY <1>1, TwoHalves
<1>3. Signed(Width) = -H .. H - 1
  BY DEF Signed
<1>. HIDE DEF H
<1>4. \A x \in Int : Wrap(x, Width) \in Signed(Width)
  BY <1>1, WrapType
<1>5. \A x \in Signed(Width) : Wrap(x, Width) = x
  BY <1>1, WrapSame
<1>. QED BY <1>2, <1>3, <1>4, <1>5

\* A cut number is one of the width.
LEMMA CutType ==
  ASSUME NEW x \in Int
  PROVE  Cut(x, TRUE) \in Signed(Width) /\ Cut(x, FALSE) = x
BY EndsType DEF Cut

\* Operations of one number that have ranges.
OneNames == {"neg", "abs", "convert"}

\* What the range of an operation of one operand is.
RangeOfOneRules(o, a, wraps) ==
  /\ o.op = "convert" => RangeOfOne(o, a, wraps) = a
  /\ o.op = "neg" => RangeOfOne(o, a, wraps) = Negated(a, wraps)
  /\ o.op = "abs" /\ a.min >= 0 => RangeOfOne(o, a, wraps) = a
  /\ o.op = "abs" /\ ~(a.min >= 0) /\ a.max <= 0 => RangeOfOne(o, a, wraps) = Negated(a, wraps)
  /\ o.op = "abs" /\ ~(a.min >= 0) /\ ~(a.max <= 0) =>
       RangeOfOne(o, a, wraps) = Ends(0, Cut(Greatest({Magnitude(a.min), Magnitude(a.max)}), wraps))

\* They follow from its definition.
LEMMA RangeOfOneFollows ==
  ASSUME NEW o, NEW a, NEW wraps
  PROVE  RangeOfOneRules(o, a, wraps)
<1>1. o.op = "convert" => RangeOfOne(o, a, wraps) = a
  BY DEF RangeOfOne
<1>2. o.op = "neg" => RangeOfOne(o, a, wraps) = Negated(a, wraps)
  BY DEF RangeOfOne
<1>3. o.op = "abs" => RangeOfOne(o, a, wraps) =
        IF a.min >= 0 THEN a ELSE IF a.max <= 0 THEN Negated(a, wraps)
        ELSE Ends(0, Cut(Greatest({Magnitude(a.min), Magnitude(a.max)}), wraps))
  BY DEF RangeOfOne
<1>. DEFINE R == RangeOfOne(o, a, wraps)
            g == Ends(0, Cut(Greatest({Magnitude(a.min), Magnitude(a.max)}), wraps))
            P == a.min >= 0
            Q == a.max <= 0
            z == Negated(a, wraps)
<1>4. o.op = "abs" => R = IF P THEN a ELSE IF Q THEN z ELSE g
  BY <1>3
<1>. HIDE DEF R, P, Q, g, z
<1>5. /\ o.op = "abs" /\ P => R = a
      /\ o.op = "abs" /\ ~P /\ Q => R = z
      /\ o.op = "abs" /\ ~P /\ ~Q => R = g
  BY <1>4, Zenon
<1>. QED BY <1>1, <1>2, <1>5, Zenon DEF R, P, Q, g, z, RangeOfOneRules

\* Ends that are numbers of the width make a range.
LEMMA EndsRange ==
  ASSUME NEW x \in Signed(Width), NEW y \in Signed(Width)
  PROVE  Ends(x, y) \in RangeSet /\ Ends(x, y).min = x /\ Ends(x, y).max = y
BY DEF Ends, RangeSet

\* The range of an operation of one operand is one.
LEMMA RangeOfOneType ==
  ASSUME NEW o, o.op \in OneNames, NEW a \in RangeSet
  PROVE  RangeOfOne(o, a, TRUE) \in RangeSet
<1>0. RangeOfOneRules(o, a, TRUE)
  BY RangeOfOneFollows
<1>1. a.min \in Int /\ a.max \in Int
  BY EndsType DEF RangeSet
<1>2. Negated(a, TRUE) \in RangeSet
  <2>1. -a.max \in Int /\ -a.min \in Int
    BY <1>1
  <2>2. Cut(-a.max, TRUE) \in Signed(Width)
    BY <2>1, CutType
  <2>3. Cut(-a.min, TRUE) \in Signed(Width)
    BY <2>1, CutType
  <2>. QED BY <2>2, <2>3, EndsRange DEF Negated
<1>3. Ends(0, Cut(Greatest({Magnitude(a.min), Magnitude(a.max)}), TRUE)) \in RangeSet
  <2>1. Magnitude(a.min) \in Int /\ Magnitude(a.max) \in Int
    BY <1>1 DEF Magnitude
  <2>2. Greatest({Magnitude(a.min), Magnitude(a.max)}) \in Int
    BY <2>1, GreatestPair
  <2>3. Cut(Greatest({Magnitude(a.min), Magnitude(a.max)}), TRUE) \in Signed(Width)
    BY <2>2, CutType
  <2>4. 0 \in Signed(Width)
    BY EndsType
  <2>. QED BY <2>3, <2>4, EndsRange
<1>. QED BY <1>0, <1>2, <1>3, Zenon DEF RangeOfOneRules, OneNames

\* Numbers within a range negated.
LEMMA NegatedWithin ==
  ASSUME NEW a, a.min \in Int, a.max \in Int, NEW x \in Int, Within(x, a)
  PROVE  Within(-x, Negated(a, FALSE))
<1>. DEFINE p == a.min
            q == a.max
<1>1. Negated(a, FALSE).min = -q /\ Negated(a, FALSE).max = -p
  BY DEF Negated, Ends, Cut
<1>2. p \in Int /\ q \in Int /\ x >= p /\ x <= q
  BY DEF Within
<1>. HIDE DEF p, q
<1>3. -x >= -q /\ -x <= -p
  BY <1>2
<1>. QED BY <1>1, <1>3 DEF Within

\* If nothing had to be cut it holds the results.
LEMMA RangeOfOneSound ==
  ASSUME NEW o, o.op \in OneNames, NEW a \in RangeSet,
         NEW A, A[1] \in Int, Within(A[1], a), NEW load
  PROVE  Within(Result(o, A, load), RangeOfOne(o, a, FALSE))
<1>0. RangeOfOneRules(o, a, FALSE) /\ ResultRules(o, A, load)
  BY RangeOfOneFollows, ResultFollows
<1>. DEFINE x == A[1]
            p == a.min
            q == a.max
            R == RangeOfOne(o, a, FALSE)
            r == Result(o, A, load)
            g == Greatest({Magnitude(a.min), Magnitude(a.max)})
<1>1. p \in Int /\ q \in Int /\ x \in Int /\ p <= x /\ x <= q
  BY EndsType DEF RangeSet, Within
<1>2. /\ o.op = "convert" => r = x
      /\ o.op = "neg" => r = -x
      /\ o.op = "abs" => r = Magnitude(x)
  BY <1>0 DEF ResultRules
<1>3. Within(x, a) /\ Within(-x, Negated(a, FALSE))
  BY <1>1, NegatedWithin
<1>4. /\ o.op = "convert" => R = a
      /\ o.op = "neg" => R = Negated(a, FALSE)
      /\ o.op = "abs" /\ p >= 0 => R = a
      /\ o.op = "abs" /\ ~(p >= 0) /\ q <= 0 => R = Negated(a, FALSE)
      /\ o.op = "abs" /\ ~(p >= 0) /\ ~(q <= 0) => R = Ends(0, Cut(g, FALSE))
  BY <1>0 DEF RangeOfOneRules
<1>5. Magnitude(p) \in Int /\ Magnitude(q) \in Int
  BY <1>1 DEF Magnitude
<1>6. g \in Int /\ g >= Magnitude(p) /\ g >= Magnitude(q)
  BY <1>5, GreatestPair
<1>. SUFFICES Within(r, R)
  OBVIOUS
<1>. HIDE DEF x, p, q, R, r, g
<1>7. (p >= 0 => Magnitude(x) = x) /\ (q <= 0 => Magnitude(x) = -x)
  BY <1>1 DEF Magnitude
<1>8. Magnitude(x) >= 0 /\ Magnitude(x) <= g
  BY <1>1, <1>5, <1>6 DEF Magnitude
<1>9. Within(Magnitude(x), Ends(0, Cut(g, FALSE)))
  BY <1>8 DEF Within, Ends, Cut
<1>. QED BY <1>2, <1>3, <1>4, <1>7, <1>9, Zenon DEF OneNames

\* The hull of four numbers.
LEMMA HullOfFour ==
  ASSUME NEW a \in Int, NEW b \in Int, NEW c \in Int, NEW d \in Int, NEW S, S = {a, b, c, d}
  PROVE  /\ Hull(S) = Ends(Hull(S).min, Hull(S).max) /\ Hull(S).min \in S /\ Hull(S).max \in S
         /\ \A y \in S : Within(y, Hull(S))
<1>1. Least(S) \in S /\ \A y \in S : Least(S) <= y
  BY LeastFour
<1>2. Greatest(S) \in S /\ \A y \in S : Greatest(S) >= y
  BY GreatestFour
<1>3. \A y \in S : y \in Int
  OBVIOUS
<1>4. Hull(S) = Ends(Least(S), Greatest(S))
  BY DEF Hull
<1>5. Hull(S).min = Least(S) /\ Hull(S).max = Greatest(S)
  BY ONLY <1>4 DEF Ends
<1>6. \A y \in S : Within(y, Hull(S))
  <2>. SUFFICES ASSUME NEW y \in S PROVE Within(y, Hull(S))
    OBVIOUS
  <2>1. y \in Int /\ Least(S) \in Int /\ Greatest(S) \in Int /\ Least(S) <= y /\ Greatest(S) >= y
    BY <1>1, <1>2, <1>3, Zenon
  <2>. QED BY ONLY <1>5, <2>1 DEF Within
<1>. QED BY <1>1, <1>2, <1>4, <1>5, <1>6, Zenon

\* The rest of a division by a positive number has the sign of the dividend
\* and is smaller than both.
LEMMA RemainderBetween ==
  ASSUME NEW x \in Int, NEW m \in Nat \ {0}
  PROVE  /\ Remainder(x, m) \in Int
         /\ x >= 0 => Remainder(x, m) >= 0 /\ Remainder(x, m) <= x /\ Remainder(x, m) <= m - 1
         /\ x <= 0 => Remainder(x, m) <= 0 /\ Remainder(x, m) >= x /\ Remainder(x, m) >= 1 - m
<1>1. Quotient(x, m) = Towards(x, m)
  BY QuotientTowards
<1>2. CASE x >= 0
  <2>. DEFINE d == x \div m
              e == x % m
  <2>1. d \in Int /\ e \in 0 .. m - 1 /\ x = m * d + e
    BY DivMod
  <2>2. Remainder(x, m) = x - m * d
    BY <1>1, <1>2 DEF Remainder, Towards
  <2>3. d >= 0
    BY <1>2, x \in Nat, DivMonotone
  <2>. DEFINE md == m * d
  <2>4. md \in Int /\ md >= 0
    <3>1. d \in Nat
      BY <2>1, <2>3
    <3>. HIDE DEF d
    <3>. QED BY <3>1
  <2>5. x = md + e /\ Remainder(x, m) = x - md
    BY <2>1, <2>2
  <2>. HIDE DEF d, e, md
  <2>6. Remainder(x, m) = e
    BY <2>1, <2>4, <2>5
  <2>. QED BY <1>2, <2>1, <2>4, <2>5, <2>6
<1>3. CASE x < 0
  <2>. DEFINE z == -x
  <2>0. z \in Nat /\ z > 0
    BY <1>3
  <2>. DEFINE d == z \div m
              e == z % m
              md == m * d
  <2>1. d \in Int /\ e \in 0 .. m - 1 /\ z = md + e
    <3>. HIDE DEF z
    <3>. QED BY <2>0, DivMod
  <2>2. Remainder(x, m) = x - m * (-d)
    BY <1>1, <1>3 DEF Remainder, Towards
  <2>3. d \in Nat
    <3>. HIDE DEF z
    <3>. QED BY <2>0, DivMonotone
  <2>. HIDE DEF z
  <2>4. md \in Int /\ md >= 0 /\ m * (-d) = -md
    <3>. HIDE DEF d
    <3>. QED BY <2>3
  <2>. HIDE DEF d, e, md
  <2>5. x = -z
    BY DEF z
  <2>6. Remainder(x, m) = -e
    BY <2>0, <2>1, <2>2, <2>4, <2>5
  <2>. QED BY <2>0, <2>1, <2>4, <2>5, <2>6
<1>. QED BY <1>2, <1>3

\* What the range of an operation of two operands is.
RangeOfTwoRules(o, a, b, wraps) ==
  /\ o.op = "add" \/ o.op = "min" \/ o.op = "max" =>
       RangeOfTwo(o, a, b, wraps) = Ends(Corner(o, a.min, b.min, wraps), Corner(o, a.max, b.max, wraps))
  /\ o.op = "sub" => RangeOfTwo(o, a, b, wraps) = Ends(Cut(a.min - b.max, wraps), Cut(a.max - b.min, wraps))
  /\ o.op = "mul" \/ o.op = "div" => RangeOfTwo(o, a, b, wraps) = Hull(Corners(o, a, b, wraps))
  /\ o.op = "rem" => RangeOfTwo(o, a, b, wraps) =
       Ends(IF a.min >= 0 THEN 0 ELSE Greatest({a.min, 1 - b.min}),
            IF a.max <= 0 /\ a.min < 0 THEN 0 ELSE Least({a.max, b.min - 1}))

\* They follow from its definition.
LEMMA RangeOfTwoFollows == ASSUME NEW o, NEW a, NEW b, NEW wraps PROVE RangeOfTwoRules(o, a, b, wraps)
BY DEF RangeOfTwo, RangeOfTwoRules

\* Operations of two numbers that have results for all numbers.
TwoNames == {"add", "sub", "mul", "div", "min", "max"}

\* The results of an operation of two numbers.
LEMMA CornerValue ==
  ASSUME NEW o, o.op \in TwoNames, NEW A, A[1] \in Int, A[2] \in Int, NEW load
  PROVE  /\ Result(o, A, load) \in Int
         /\ o.op = "add" => Result(o, A, load) = A[1] + A[2]
         /\ o.op = "sub" => Result(o, A, load) = A[1] - A[2]
         /\ o.op = "mul" => Result(o, A, load) = A[1] * A[2]
         /\ o.op = "div" => Result(o, A, load) = Quotient(A[1], A[2])
         /\ o.op = "min" => Result(o, A, load) = IF A[1] <= A[2] THEN A[1] ELSE A[2]
         /\ o.op = "max" => Result(o, A, load) = IF A[1] >= A[2] THEN A[1] ELSE A[2]
<1>. DEFINE p == A[1]
            q == A[2]
            r == Result(o, A, load)
<1>1. p \in Int /\ q \in Int
  OBVIOUS
<1>2. /\ o.op = "add" => r = p + q
      /\ o.op = "sub" => r = p - q
      /\ o.op = "mul" => r = p * q
      /\ o.op = "div" => r = Quotient(p, q)
      /\ o.op = "min" => r = Least({p, q})
      /\ o.op = "max" => r = Greatest({p, q})
  BY ResultFollows DEF ResultRules
<1>. SUFFICES /\ r \in Int
              /\ o.op = "add" => r = p + q
              /\ o.op = "sub" => r = p - q
              /\ o.op = "mul" => r = p * q
              /\ o.op = "div" => r = Quotient(p, q)
              /\ o.op = "min" => r = IF p <= q THEN p ELSE q
              /\ o.op = "max" => r = IF p >= q THEN p ELSE q
  OBVIOUS
<1>. HIDE DEF p, q, r
<1>3. Quotient(p, q) \in Int
  BY <1>1, QuotientType
<1>4. Least({p, q}) = IF p <= q THEN p ELSE q
  BY <1>1, LeastPair
<1>5. Greatest({p, q}) = IF p >= q THEN p ELSE q
  BY <1>1, GreatestPair
<1>6. r \in Int
  BY <1>1, <1>2, <1>3, <1>4, <1>5 DEF TwoNames
<1>. QED BY <1>2, <1>4, <1>5, <1>6

\* Corners are numbers, and what is not cut is the result.
LEMMA CornerType ==
  ASSUME NEW o, o.op \in TwoNames, NEW p \in Int, NEW q \in Int
  PROVE  /\ Corner(o, p, q, TRUE) \in Signed(Width) /\ Corner(o, p, q, TRUE) \in Int
         /\ Corner(o, p, q, FALSE) = Result(o, <<p, q>>, 0) /\ Corner(o, p, q, FALSE) \in Int
<1>1. Result(o, <<p, q>>, 0) \in Int
  BY CornerValue
<1>. QED BY <1>1, CutType, EndsType DEF Corner

\* There are four corners.
LEMMA FourCorners ==
  ASSUME NEW o, NEW a, NEW b, NEW wraps
  PROVE  Corners(o, a, b, wraps) = {Corner(o, a.min, b.min, wraps), Corner(o, a.min, b.max, wraps),
                                    Corner(o, a.max, b.min, wraps), Corner(o, a.max, b.max, wraps)}
BY DEF Corners

\* The ranges of operands for which computeBounds knows a range of the result.
Divides(o, b) ==
  /\ o.op = "div" => b.min > 0 \/ b.max < 0
  /\ o.op = "rem" => b.min = b.max /\ b.min > 0

\* Of two numbers of the width the one picked is of the width.
LEMMA PairType ==
  ASSUME NEW x \in Signed(Width), NEW y \in Signed(Width)
  PROVE  Least({x, y}) \in Signed(Width) /\ Greatest({x, y}) \in Signed(Width)
<1>1. x \in Int /\ y \in Int
  BY EndsType
<1>2. Least({x, y}) \in {x, y} /\ Greatest({x, y}) \in {x, y}
  BY <1>1, LeastPair, GreatestPair
<1>. QED BY <1>2

\* The range of an operation of two operands is one.
LEMMA RangeOfTwoType ==
  ASSUME NEW o, o.op \in TwoNames \union {"rem"}, NEW a \in RangeSet, NEW b \in RangeSet, Divides(o, b)
  PROVE  RangeOfTwo(o, a, b, TRUE) \in RangeSet
<1>0. RangeOfTwoRules(o, a, b, TRUE)
  BY RangeOfTwoFollows
<1>1. a.min \in Signed(Width) /\ a.max \in Signed(Width) /\ b.min \in Signed(Width) /\ b.max \in Signed(Width)
  BY DEF RangeSet
<1>2. a.min \in Int /\ a.max \in Int /\ b.min \in Int /\ b.max \in Int
  BY <1>1, EndsType
<1>. DEFINE C(p, q) == Corner(o, p, q, TRUE)
<1>3. ASSUME o.op \in TwoNames, NEW p \in Int, NEW q \in Int PROVE C(p, q) \in Signed(Width) /\ C(p, q) \in Int
  BY <1>3, CornerType
<1>4. CASE o.op = "add" \/ o.op = "min" \/ o.op = "max"
  <2>1. RangeOfTwo(o, a, b, TRUE) = Ends(C(a.min, b.min), C(a.max, b.max))
    BY ONLY <1>0, <1>4, Zenon DEF RangeOfTwoRules
  <2>2. o.op \in TwoNames
    BY <1>4 DEF TwoNames
  <2>3. C(a.min, b.min) \in Signed(Width)
    BY <1>2, <1>3, <2>2
  <2>4. C(a.max, b.max) \in Signed(Width)
    BY <1>2, <1>3, <2>2
  <2>. HIDE DEF C
  <2>. QED BY <2>1, <2>3, <2>4, EndsRange
<1>5. CASE o.op = "sub"
  <2>1. RangeOfTwo(o, a, b, TRUE) = Ends(Cut(a.min - b.max, TRUE), Cut(a.max - b.min, TRUE))
    BY ONLY <1>5 DEF RangeOfTwo
  <2>2. a.min - b.max \in Int /\ a.max - b.min \in Int
    BY <1>2
  <2>3. Cut(a.min - b.max, TRUE) \in Signed(Width)
    BY <2>2, CutType
  <2>4. Cut(a.max - b.min, TRUE) \in Signed(Width)
    BY <2>2, CutType
  <2>. QED BY <2>1, <2>3, <2>4, EndsRange
<1>6. CASE o.op = "mul" \/ o.op = "div"
  <2>. DEFINE S == {C(a.min, b.min), C(a.min, b.max), C(a.max, b.min), C(a.max, b.max)}
  <2>1. RangeOfTwo(o, a, b, TRUE) = Hull(Corners(o, a, b, TRUE))
    BY ONLY <1>0, <1>6, Zenon DEF RangeOfTwoRules
  <2>2. RangeOfTwo(o, a, b, TRUE) = Hull(S)
    <3>1. Corners(o, a, b, TRUE) = S
      BY FourCorners
    <3>. QED BY ONLY <2>1, <3>1, Zenon
  <2>3. o.op \in TwoNames
    BY <1>6 DEF TwoNames
  <2>4. C(a.min, b.min) \in Signed(Width) /\ C(a.min, b.min) \in Int
    BY <1>2, <1>3, <2>3
  <2>5. C(a.min, b.max) \in Signed(Width) /\ C(a.min, b.max) \in Int
    BY <1>2, <1>3, <2>3
  <2>6. C(a.max, b.min) \in Signed(Width) /\ C(a.max, b.min) \in Int
    BY <1>2, <1>3, <2>3
  <2>7. C(a.max, b.max) \in Signed(Width) /\ C(a.max, b.max) \in Int
    BY <1>2, <1>3, <2>3
  <2>. HIDE DEF C
  <2>8. S \subseteq Signed(Width)
    BY <2>4, <2>5, <2>6, <2>7
  <2>9. Hull(S) = Ends(Hull(S).min, Hull(S).max) /\ Hull(S).min \in S /\ Hull(S).max \in S
    BY <2>4, <2>5, <2>6, <2>7, HullOfFour
  <2>. HIDE DEF S
  <2>10. Hull(S).min \in Signed(Width) /\ Hull(S).max \in Signed(Width)
    BY <2>8, <2>9, Zenon
  <2>11. Ends(Hull(S).min, Hull(S).max) \in RangeSet
    BY <2>10, EndsRange
  <2>. QED BY <2>2, <2>9, <2>11, Zenon
<1>7. CASE o.op = "rem"
  <2>. DEFINE x == IF a.min >= 0 THEN 0 ELSE Greatest({a.min, 1 - b.min})
              y == IF a.max <= 0 /\ a.min < 0 THEN 0 ELSE Least({a.max, b.min - 1})
  <2>1. RangeOfTwo(o, a, b, TRUE) = Ends(x, y)
    BY ONLY <1>7 DEF RangeOfTwo
  <2>. DEFINE m == b.min
              c == 1 - m
              d == m - 1
  <2>2. m > 0 /\ m \in Int /\ m \in Signed(Width)
    BY <1>1, <1>2, <1>7 DEF Divides
  <2>. HIDE DEF m
  <2>3. 0 \in Signed(Width) /\ Signed(Width) = -(2^(Width - 1)) .. 2^(Width - 1) - 1 /\ 2^(Width - 1) \in Nat \ {0}
    BY EndsType, WidthFacts, TwoHalves DEF Signed
  <2>4. c \in Signed(Width) /\ d \in Signed(Width)
    <3>. DEFINE H == 2^(Width - 1)
    <3>1. H \in Nat \ {0} /\ Signed(Width) = -H .. H - 1
      BY <2>3
    <3>. HIDE DEF H
    <3>2. m <= H - 1
      BY <2>2, <3>1
    <3>. QED BY <2>2, <3>1, <3>2
  <2>5. Greatest({a.min, c}) \in Signed(Width)
    BY <1>1, <2>4, PairType
  <2>6. Least({a.max, d}) \in Signed(Width)
    BY <1>1, <2>4, PairType
  <2>7. x = IF a.min >= 0 THEN 0 ELSE Greatest({a.min, c})
    BY DEF m
  <2>8. y = IF a.max <= 0 /\ a.min < 0 THEN 0 ELSE Least({a.max, d})
    BY DEF m
  <2>. HIDE DEF x, y, c, d
  <2>9. x \in Signed(Width) /\ y \in Signed(Width)
    BY <2>3, <2>5, <2>6, <2>7, <2>8, Zenon
  <2>. QED BY <2>1, <2>9, EndsRange
<1>. QED BY <1>4, <1>5, <1>6, <1>7 DEF TwoNames

\* A number between two ends lies in the range they make.
LEMMA WithinEnds ==
  ASSUME NEW x \in Int, NEW p \in Int, NEW q \in Int, p <= x, x <= q
  PROVE  Within(x, Ends(p, q))
BY DEF Within, Ends

\* A number between two numbers of a set lies in its hull.
LEMMA WithinHull ==
  ASSUME NEW a \in Int, NEW b \in Int, NEW c \in Int, NEW d \in Int, NEW S, S = {a, b, c, d},
         NEW x \in Int, \E y \in S : y <= x, \E y \in S : x <= y
  PROVE  Within(x, Hull(S))
<1>1. Hull(S).min \in S /\ Hull(S).max \in S /\ \A y \in S : Within(y, Hull(S))
  BY HullOfFour
<1>2. \A y \in S : y \in Int
  OBVIOUS
<1>. DEFINE p == Hull(S).min
            q == Hull(S).max
<1>3. p \in Int /\ q \in Int /\ \A y \in S : y >= p /\ y <= q
  BY <1>1, <1>2 DEF Within
<1>. HIDE DEF p, q
<1>4. x >= p /\ x <= q
  BY <1>2, <1>3
<1>. QED BY <1>4 DEF Within, p, q

\* If nothing had to be cut it holds the results.
LEMMA RangeOfTwoSound ==
  ASSUME NEW o, o.op \in TwoNames \union {"rem"}, NEW a \in RangeSet, NEW b \in RangeSet, Divides(o, b),
         NEW A, A[1] \in Int, A[2] \in Int, Within(A[1], a), Within(A[2], b), NEW load
  PROVE  Within(Result(o, A, load), RangeOfTwo(o, a, b, FALSE))
<1>0. RangeOfTwoRules(o, a, b, FALSE)
  BY RangeOfTwoFollows
<1>. DEFINE x == A[1]
            y == A[2]
            p == a.min
            q == a.max
            r == b.min
            s == b.max
            C(u, v) == Corner(o, u, v, FALSE)
            V == Result(o, A, load)
            R == RangeOfTwo(o, a, b, FALSE)
<1>1. /\ p \in Int /\ q \in Int /\ r \in Int /\ s \in Int /\ x \in Int /\ y \in Int
      /\ p <= x /\ x <= q /\ r <= y /\ y <= s
  BY EndsType DEF RangeSet, Within
<1>2. ASSUME o.op \in TwoNames, NEW u \in Int, NEW v \in Int
      PROVE  /\ C(u, v) \in Int
             /\ o.op = "add" => C(u, v) = u + v
             /\ o.op = "mul" => C(u, v) = u * v
             /\ o.op = "div" => C(u, v) = Quotient(u, v)
             /\ o.op = "min" => C(u, v) = IF u <= v THEN u ELSE v
             /\ o.op = "max" => C(u, v) = IF u >= v THEN u ELSE v
  <2>1. C(u, v) = Result(o, <<u, v>>, 0) /\ C(u, v) \in Int
    BY <1>2, CornerType
  <2>. DEFINE w == <<u, v>>
  <2>2. w[1] = u /\ w[2] = v
    OBVIOUS
  <2>. HIDE DEF w
  <2>3. /\ o.op = "add" => Result(o, w, 0) = u + v
        /\ o.op = "mul" => Result(o, w, 0) = u * v
        /\ o.op = "div" => Result(o, w, 0) = Quotient(u, v)
        /\ o.op = "min" => Result(o, w, 0) = IF u <= v THEN u ELSE v
        /\ o.op = "max" => Result(o, w, 0) = IF u >= v THEN u ELSE v
    <3>1. w[1] \in Int /\ w[2] \in Int
      BY <2>2
    <3>. QED BY <1>2, <2>2, <3>1, CornerValue
  <2>. QED BY <2>1, <2>3 DEF w
<1>3. o.op \in TwoNames =>
        /\ V \in Int
        /\ o.op = "add" => V = x + y
        /\ o.op = "sub" => V = x - y
        /\ o.op = "mul" => V = x * y
        /\ o.op = "div" => V = Quotient(x, y)
        /\ o.op = "min" => V = IF x <= y THEN x ELSE y
        /\ o.op = "max" => V = IF x >= y THEN x ELSE y
  BY CornerValue
<1>4. /\ o.op = "add" \/ o.op = "min" \/ o.op = "max" => R = Ends(C(p, r), C(q, s))
      /\ o.op = "sub" => R = Ends(Cut(p - s, FALSE), Cut(q - r, FALSE))
      /\ o.op = "mul" \/ o.op = "div" => R = Hull(Corners(o, a, b, FALSE))
      /\ o.op = "rem" => R = Ends(IF p >= 0 THEN 0 ELSE Greatest({p, 1 - r}),
                                  IF q <= 0 /\ p < 0 THEN 0 ELSE Least({q, r - 1}))
  BY <1>0, Zenon DEF RangeOfTwoRules
<1>5. o.op = "rem" => V = Remainder(x, y)
  BY ResultFollows DEF ResultRules
<1>6. Corners(o, a, b, FALSE) = {C(p, r), C(p, s), C(q, r), C(q, s)}
  BY FourCorners
<1>7. (o.op = "div" => r > 0 \/ s < 0) /\ (o.op = "rem" => r = s /\ r > 0)
  BY DEF Divides
<1>. SUFFICES Within(V, R)
  OBVIOUS
<1>. HIDE DEF x, y, p, q, r, s, C, V, R
<1>8. CASE o.op = "add" \/ o.op = "min" \/ o.op = "max"
  <2>1. o.op \in TwoNames
    BY <1>8 DEF TwoNames
  <2>2. C(p, r) \in Int /\ C(q, s) \in Int /\ C(p, r) <= V /\ V <= C(q, s)
    <3>1. /\ C(p, r) \in Int
          /\ o.op = "add" => C(p, r) = p + r
          /\ o.op = "min" => C(p, r) = IF p <= r THEN p ELSE r
          /\ o.op = "max" => C(p, r) = IF p >= r THEN p ELSE r
      BY <1>1, <1>2, <2>1
    <3>2. /\ C(q, s) \in Int
          /\ o.op = "add" => C(q, s) = q + s
          /\ o.op = "min" => C(q, s) = IF q <= s THEN q ELSE s
          /\ o.op = "max" => C(q, s) = IF q >= s THEN q ELSE s
      BY <1>1, <1>2, <2>1
    <3>. QED BY <1>1, <1>3, <1>8, <2>1, <3>1, <3>2
  <2>3. V \in Int
    BY <1>3, <2>1
  <2>. QED BY <1>4, <1>8, <2>2, <2>3, WithinEnds
<1>9. CASE o.op = "sub"
  <2>1. R = Ends(p - s, q - r)
    BY <1>4, <1>9 DEF Cut
  <2>2. V = x - y
    BY <1>3, <1>9 DEF TwoNames
  <2>. DEFINE u == p - s
              v == q - r
  <2>3. u \in Int /\ v \in Int /\ V \in Int /\ u <= V /\ V <= v
    BY <1>1, <2>2
  <2>4. R = Ends(u, v)
    BY <2>1
  <2>. HIDE DEF u, v
  <2>. QED BY <2>3, <2>4, WithinEnds
<1>10. CASE o.op = "mul" \/ o.op = "div"
  <2>1. o.op \in TwoNames
    BY <1>10 DEF TwoNames
  <2>. DEFINE S == Corners(o, a, b, FALSE)
  <2>2. C(p, r) \in Int /\ C(p, s) \in Int /\ C(q, r) \in Int /\ C(q, s) \in Int
    BY <1>1, <1>2, <2>1
  <2>3. (\E z \in S : z <= V) /\ \E z \in S : V <= z
    <3>1. x \in p .. q /\ y \in r .. s
      BY <1>1
    <3>2. CASE o.op = "mul"
      <4>1. C(p, r) = p * r /\ C(p, s) = p * s /\ C(q, r) = q * r /\ C(q, s) = q * s
        BY <1>1, <1>2, <2>1, <3>2
      <4>2. V = x * y
        BY <1>3, <2>1, <3>2
      <4>3. /\ \E u \in {p, q}, v \in {r, s} : u * v <= x * y
            /\ \E u \in {p, q}, v \in {r, s} : x * y <= u * v
        BY <1>1, <3>1, TimesBetween
      <4>4. S = {p * r, p * s, q * r, q * s}
        BY <1>6, <4>1, Zenon
      <4>. HIDE DEF S
      <4>5. \A u \in {p, q}, v \in {r, s} : u * v \in S
        BY <4>4
      <4>. QED BY <4>2, <4>3, <4>5
    <3>3. CASE o.op = "div"
      <4>1. /\ C(p, r) = Quotient(p, r) /\ C(p, s) = Quotient(p, s)
            /\ C(q, r) = Quotient(q, r) /\ C(q, s) = Quotient(q, s)
        BY <1>1, <1>2, <2>1, <3>3
      <4>2. V = Quotient(x, y)
        BY <1>3, <2>1, <3>3
      <4>3. /\ \E u \in {p, q}, v \in {r, s} : Quotient(u, v) <= Quotient(x, y)
            /\ \E u \in {p, q}, v \in {r, s} : Quotient(x, y) <= Quotient(u, v)
        BY <1>1, <1>7, <3>1, <3>3, QuotientBetween
      <4>4. S = {Quotient(p, r), Quotient(p, s), Quotient(q, r), Quotient(q, s)}
        BY <1>6, <4>1, Zenon
      <4>. HIDE DEF S
      <4>5. \A u \in {p, q}, v \in {r, s} : Quotient(u, v) \in S
        BY <4>4
      <4>. QED BY <4>2, <4>3, <4>5
    <3>. QED BY <1>10, <3>2, <3>3
  <2>4. V \in Int
    BY <1>3, <2>1
  <2>5. Within(V, Hull(S))
    BY <1>6, <2>2, <2>3, <2>4, WithinHull
  <2>. QED BY <1>4, <1>10, <2>5
<1>11. CASE o.op = "rem"
  <2>1. y = r /\ r \in Nat \ {0}
    BY <1>1, <1>7, <1>11
  <2>2. /\ V \in Int
        /\ x >= 0 => V >= 0 /\ V <= x /\ V <= r - 1
        /\ x <= 0 => V <= 0 /\ V >= x /\ V >= 1 - r
    BY <1>1, <1>5, <1>11, <2>1, RemainderBetween
  <2>. DEFINE e == 1 - r
              f == r - 1
              u == IF p >= 0 THEN 0 ELSE Greatest({p, e})
              v == IF q <= 0 /\ p < 0 THEN 0 ELSE Least({q, f})
  <2>3. R = Ends(u, v)
    BY <1>4, <1>11
  <2>4. e \in Int /\ f \in Int /\ e <= 0 /\ f >= 0
    BY <2>1
  <2>5. Greatest({p, e}) = IF p >= e THEN p ELSE e
    <3>. HIDE DEF e
    <3>. QED BY <1>1, <2>4, GreatestPair
  <2>6. Least({q, f}) = IF q <= f THEN q ELSE f
    <3>. HIDE DEF f
    <3>. QED BY <1>1, <2>4, LeastPair
  <2>7. u = IF p >= 0 THEN 0 ELSE IF p >= e THEN p ELSE e
    <3>. HIDE DEF e
    <3>. QED BY <2>5
  <2>8. v = IF q <= 0 /\ p < 0 THEN 0 ELSE IF q <= f THEN q ELSE f
    <3>. HIDE DEF f
    <3>. QED BY <2>6
  <2>9. (x >= 0 => V >= 0 /\ V <= x /\ V <= f) /\ (x <= 0 => V <= 0 /\ V >= x /\ V >= e)
    BY <2>2
  <2>. HIDE DEF u, v, e, f
  <2>10. u \in Int /\ v \in Int /\ u <= V /\ V <= v
    BY <1>1, <2>2, <2>4, <2>7, <2>8, <2>9
  <2>. QED BY <2>2, <2>3, <2>10, WithinEnds
<1>. QED BY <1>8, <1>9, <1>10, <1>11 DEF TwoNames

-----------------------------------------------------------------------------
(* Replacements                                                            *)

\* The rest of a division by a number of greater magnitude is the dividend.
LEMMA SmallRemainder ==
  ASSUME NEW x \in Int, NEW y \in Int, NEW m \in Nat, -m < x, x < m, m <= y \/ y <= -m
  PROVE  Remainder(x, y) = x
<1>. DEFINE p == Magnitude(x)
            q == Magnitude(y)
<1>1. p \in Nat /\ q \in Nat \ {0} /\ p < q /\ y # 0
  BY DEF Magnitude
<1>2. p \div q = 0
  <2>. HIDE DEF p, q
  <2>. DEFINE d == p \div q
              e == p % q
              t == q * d
  <2>1. d \in Int /\ e \in 0 .. q - 1 /\ p = t + e
    BY <1>1, DivMod
  <2>2. d \in Nat
    BY <1>1, DivMonotone
  <2>3. d >= 1 => t >= q
    <3>. HIDE DEF d
    <3>1. ASSUME d >= 1 PROVE t >= q
      <4>1. d - 1 \in Nat /\ q \in Nat
        BY <1>1, <2>2, <3>1
      <4>. DEFINE f == d - 1
      <4>2. f \in Nat /\ d = f + 1
        BY <2>2, <4>1
      <4>. HIDE DEF f
      <4>3. q * d = q * f + q /\ q * f \in Nat
        BY <4>1, <4>2
      <4>. QED BY <4>1, <4>3
    <3>. QED BY <3>1
  <2>4. t \in Int
    <3>. HIDE DEF d
    <3>. QED BY <1>1, <2>1
  <2>. SUFFICES d = 0
    OBVIOUS
  <2>. HIDE DEF d, e, t
  <2>. QED BY <1>1, <2>1, <2>2, <2>3, <2>4
<1>3. Quotient(x, y) = 0
  <2>1. Quotient(x, y) = (IF y = 0 THEN 0 ELSE IF (x < 0) = (y < 0) THEN p \div q ELSE -(p \div q))
    BY DEF Quotient
  <2>. HIDE DEF p, q
  <2>. QED BY <1>1, <1>2, <2>1
<1>. QED BY <1>3 DEF Remainder

\* The divisors of a range on one side of zero: none has a smaller magnitude
\* than the one the rewrite compares with.
LEMMA LeastDivisor ==
  ASSUME NEW b \in RangeSet, b.min > 0 \/ b.max < 0, NEW y \in Int, Within(y, b), NEW x \in Int,
         NEW m, m = Least({Wrap(Magnitude(b.min), Width), Wrap(Magnitude(b.max), Width)}),
         x < m, x > Wrap(-m, Width)
  PROVE  Remainder(x, y) = x
<1>. DEFINE H == 2^(Width - 1)
            p == b.min
            q == b.max
            s == Wrap(Magnitude(p), Width)
            t == Wrap(Magnitude(q), Width)
<1>1. H \in Nat \ {0} /\ Signed(Width) = -H .. H - 1
  BY WidthFacts, TwoHalves DEF Signed
<1>2. p \in -H .. H - 1 /\ q \in -H .. H - 1 /\ p <= y /\ y <= q /\ (p > 0 \/ q < 0)
  BY <1>1 DEF RangeSet, Within
<1>3. \A z \in Int : Wrap(z, Width) \in -H .. H - 1
  BY <1>1, EndsType
<1>4. \A z \in -H .. H - 1 : Wrap(z, Width) = z
  BY <1>1, EndsType
<1>5. Magnitude(p) \in Int /\ Magnitude(q) \in Int
  BY <1>1, <1>2 DEF Magnitude
<1>6. s \in -H .. H - 1 /\ t \in -H .. H - 1
  BY <1>3, <1>5
<1>7. m = Least({s, t})
  OBVIOUS
<1>8. (Magnitude(p) \in -H .. H - 1 => s = Magnitude(p)) /\ (Magnitude(q) \in -H .. H - 1 => t = Magnitude(q))
  BY <1>4
<1>9. \A z \in -H .. H - 1 : -z \in -H .. H - 1 => Wrap(-z, Width) = -z
  BY <1>4
<1>. HIDE DEF H, p, q, s, t
<1>10. s \in Int /\ t \in Int
  BY <1>1, <1>6
<1>11. m = IF s <= t THEN s ELSE t
  BY <1>7, <1>10, LeastPair
<1>12. m \in -H .. H - 1 /\ m \in Int
  BY <1>1, <1>6, <1>11
<1>13. CASE m > 0
  <2>1. Wrap(-m, Width) = -m
    BY <1>1, <1>9, <1>12, <1>13
  <2>2. -m < x
    <3>. DEFINE z == -m
    <3>1. x > z
      BY <2>1
    <3>. QED BY <1>12, <3>1
  <2>3. m <= y \/ y <= -m
    <3>1. CASE p > 0
      <4>1. Magnitude(p) = p /\ s = p
        BY <1>1, <1>2, <1>8, <3>1 DEF Magnitude
      <4>. QED BY <1>1, <1>2, <1>6, <1>11, <4>1
    <3>2. CASE q < 0
      <4>1. Magnitude(q) = -q
        BY <1>1, <1>2, <3>2 DEF Magnitude
      <4>2. CASE q = -H
        <5>1. p = -H
          BY <1>1, <1>2, <4>2
        <5>. QED BY <1>1, <1>2, <1>12, <4>2, <5>1
      <4>3. CASE q # -H
        <5>1. t = -q
          BY <1>1, <1>2, <1>8, <3>2, <4>1, <4>3
        <5>2. m <= t
          BY <1>10, <1>11
        <5>. QED BY <1>1, <1>2, <1>12, <5>1, <5>2
      <4>. QED BY <4>2, <4>3
    <3>. QED BY <1>2, <3>1, <3>2
  <2>4. m \in Nat
    BY <1>12, <1>13
  <2>. QED BY <2>2, <2>3, <2>4, SmallRemainder
<1>14. CASE ~(m > 0)
  <2>1. CASE m = -H
    <3>1. x < -H
      BY <2>1
    <3>2. Wrap(-m, Width) \in -H .. H - 1
      <4>. DEFINE z == -m
      <4>1. z \in Int
        BY <1>12
      <4>. HIDE DEF z
      <4>2. Wrap(z, Width) \in -H .. H - 1
        BY <1>3, <4>1
      <4>. QED BY <4>2 DEF z
    <3>. DEFINE z == Wrap(-m, Width)
    <3>3. x > z /\ z \in -H .. H - 1
      BY <3>2
    <3>. HIDE DEF z
    <3>. QED BY <1>1, <3>1, <3>3
  <2>2. CASE m # -H
    <3>1. -m \in -H .. H - 1
      BY <1>1, <1>12, <1>14, <2>2
    <3>2. Wrap(-m, Width) = -m
      BY <1>9, <1>12, <3>1
    <3>. DEFINE z == -m
    <3>3. x > z
      BY <3>2
    <3>. QED BY <1>12, <1>14, <3>3
  <2>. QED BY <2>1, <2>2
<1>. QED BY <1>13, <1>14

\* What a comparison of ranges decides is so, except that disjoint ranges are unequal.
LEMMA DecidedSound ==
  ASSUME NEW dir \in Directions, dir # "NE", NEW a \in RangeSet, NEW b \in RangeSet,
         NEW x \in Int, Within(x, a), NEW y \in Int, Within(y, b), NEW t \in Decided(dir, a, b)
  PROVE  t \in BOOLEAN /\ (t <=> Holds(dir, x, y))
<1>. DEFINE p == a.min
            q == a.max
            r == b.min
            s == b.max
            below == q < r
            above == s < p
            point == p = q /\ r = s /\ p = r
            D == Decided(dir, a, b)
            h == Holds(dir, x, y)
<1>1. /\ p \in Int /\ q \in Int /\ r \in Int /\ s \in Int /\ p <= x /\ x <= q /\ r <= y /\ y <= s
  BY EndsType DEF RangeSet, Within
<1>2. /\ dir = "EQ" => D = IF point THEN {TRUE} ELSE IF below \/ above THEN {FALSE} ELSE {}
      /\ dir = "GE" => D = IF below THEN {FALSE} ELSE IF p >= s THEN {TRUE} ELSE {}
      /\ dir = "GT" => D = IF q <= r THEN {FALSE} ELSE IF above THEN {TRUE} ELSE {}
      /\ dir = "LE" => D = IF above THEN {FALSE} ELSE IF r >= q THEN {TRUE} ELSE {}
      /\ dir = "LT" => D = IF s <= p THEN {FALSE} ELSE IF below THEN {TRUE} ELSE {}
  BY DEF Decided
<1>3. /\ dir = "EQ" => (h <=> x = y)
      /\ dir = "GE" => (h <=> x >= y)
      /\ dir = "GT" => (h <=> x > y)
      /\ dir = "LE" => (h <=> x <= y)
      /\ dir = "LT" => (h <=> x < y)
  BY DEF Holds
<1>4. t \in D
  OBVIOUS
<1>. SUFFICES t \in BOOLEAN /\ (t <=> h)
  OBVIOUS
<1>. HIDE DEF D, h
<1>5. ASSUME dir = "EQ" PROVE (t = TRUE /\ h) \/ (t = FALSE /\ ~h)
  <2>1. t \in IF point THEN {TRUE} ELSE IF below \/ above THEN {FALSE} ELSE {}
    BY <1>2, <1>4, <1>5
  <2>2. (point => x = y) /\ (below \/ above => x # y)
    <3>. HIDE DEF p, q, r, s
    <3>. QED BY <1>1
  <2>. HIDE DEF point, below, above
  <2>. QED BY <1>3, <1>5, <2>1, <2>2, Zenon
<1>6. ASSUME dir = "GE" PROVE (t = TRUE /\ h) \/ (t = FALSE /\ ~h)
  <2>. DEFINE g == p >= s
  <2>1. t \in IF below THEN {FALSE} ELSE IF g THEN {TRUE} ELSE {}
    BY <1>2, <1>4, <1>6
  <2>2. (g => x >= y) /\ (below => ~(x >= y))
    <3>. HIDE DEF p, q, r, s
    <3>. QED BY <1>1
  <2>. HIDE DEF g, below
  <2>. QED BY <1>3, <1>6, <2>1, <2>2, Zenon
<1>7. ASSUME dir = "GT" PROVE (t = TRUE /\ h) \/ (t = FALSE /\ ~h)
  <2>. DEFINE g == q <= r
  <2>1. t \in IF g THEN {FALSE} ELSE IF above THEN {TRUE} ELSE {}
    BY <1>2, <1>4, <1>7
  <2>2. (above => x > y) /\ (g => ~(x > y))
    <3>. HIDE DEF p, q, r, s
    <3>. QED BY <1>1
  <2>. HIDE DEF g, above
  <2>. QED BY <1>3, <1>7, <2>1, <2>2, Zenon
<1>8. ASSUME dir = "LE" PROVE (t = TRUE /\ h) \/ (t = FALSE /\ ~h)
  <2>. DEFINE g == r >= q
  <2>1. t \in IF above THEN {FALSE} ELSE IF g THEN {TRUE} ELSE {}
    BY <1>2, <1>4, <1>8
  <2>2. (g => x <= y) /\ (above => ~(x <= y))
    <3>. HIDE DEF p, q, r, s
    <3>. QED BY <1>1
  <2>. HIDE DEF g, above
  <2>. QED BY <1>3, <1>8, <2>1, <2>2, Zenon
<1>9. ASSUME dir = "LT" PROVE (t = TRUE /\ h) \/ (t = FALSE /\ ~h)
  <2>. DEFINE g == s <= p
  <2>1. t \in IF g THEN {FALSE} ELSE IF below THEN {TRUE} ELSE {}
    BY <1>2, <1>4, <1>9
  <2>2. (below => x < y) /\ (g => ~(x < y))
    <3>. HIDE DEF p, q, r, s
    <3>. QED BY <1>1
  <2>. HIDE DEF g, below
  <2>. QED BY <1>3, <1>9, <2>1, <2>2, Zenon
<1>10. (t = TRUE /\ h) \/ (t = FALSE /\ ~h)
  BY <1>5, <1>6, <1>7, <1>8, <1>9 DEF Directions
<1>. QED BY <1>10

\* The least magnitude of the ends of a range, as the rewrite computes it.
LeastMagnitude(r) == Least({Wrap(Magnitude(r.min), Width), Wrap(Magnitude(r.max), Width)})

\* When an operation is replaced, and with what.
LEMMA ReplacementRules ==
  ASSUME NEW o, NEW b, NEW x \in Replacement(o, b)
  PROVE  /\ o.op = "rem" => /\ x = o.in[1] /\ b[1].max < LeastMagnitude(b[2])
                            /\ b[1].min > Wrap(-LeastMagnitude(b[2]), Width)
         /\ o.op = "compare" => \E t \in Decided(o.dir, b[1], b[2]) : x = IF t THEN Cst(1) ELSE Cst(0)
         /\ o.op = "abs" => x = o.in[1] /\ b[1].min >= 0
         /\ o.op = "clamp" => x = o.in[2] /\ b[1].max <= b[2].min /\ b[3].min >= b[2].max
<1>. DEFINE R == Replacement(o, b)
            m == LeastMagnitude(b[2])
            C == {IF t THEN Cst(1) ELSE Cst(0) : t \in Decided(o.dir, b[1], b[2])}
<1>1. o.op = "rem" => R = IF b[1].max < m /\ b[1].min > Wrap(-m, Width) THEN {o.in[1]} ELSE {}
  BY DEF Replacement, LeastMagnitude
<1>2. o.op = "compare" => R = C
  BY DEF Replacement
<1>3. o.op = "abs" => R = IF b[1].min >= 0 THEN {o.in[1]} ELSE {}
  BY DEF Replacement
<1>4. o.op = "clamp" => R = IF b[1].max <= b[2].min /\ b[3].min >= b[2].max THEN {o.in[2]} ELSE {}
  BY DEF Replacement
<1>5. x \in R
  OBVIOUS
<1>. HIDE DEF R, m
<1>6. o.op = "rem" => x = o.in[1] /\ b[1].max < m /\ b[1].min > Wrap(-m, Width)
  BY ONLY <1>1, <1>5
<1>7. o.op = "compare" => \E t \in Decided(o.dir, b[1], b[2]) : x = IF t THEN Cst(1) ELSE Cst(0)
  BY ONLY <1>2, <1>5
<1>8. o.op = "abs" => x = o.in[1] /\ b[1].min >= 0
  BY ONLY <1>3, <1>5
<1>9. o.op = "clamp" => x = o.in[2] /\ b[1].max <= b[2].min /\ b[3].min >= b[2].max
  BY ONLY <1>4, <1>5
<1>. QED BY <1>6, <1>7, <1>8, <1>9 DEF m

\* The bounds b of operands of which the values are A.
Bounding(o, b, A) == \A j \in DOMAIN o.in : b[j] \in RangeSet /\ A[j] \in Int /\ Within(A[j], b[j])

\* x is a constant or an operand of o, and has the value o yields.
StandsFor(x, o, A, load) ==
  \/ (x = Cst(0) \/ x = Cst(1)) /\ Result(o, A, load) = x.v
  \/ \E j \in DOMAIN o.in : x = o.in[j] /\ Result(o, A, load) = A[j]

\* A replacement of an exact kind is a constant or an operand, and has the
\* value of what it replaces.
LEMMA ReplacementSound ==
  ASSUME NEW ops, NEW n, WellFormed(ops, n), ops[n].op \in Rewritten, NEW b, NEW x \in Replacement(ops[n], b),
         IsExact(ops[n], b), NEW A, Bounding(ops[n], b, A), NEW load
  PROVE  StandsFor(x, ops[n], A, load)
<1>. SUFFICES \/ (x = Cst(0) \/ x = Cst(1)) /\ Result(ops[n], A, load) = x.v
              \/ \E j \in DOMAIN ops[n].in : x = ops[n].in[j] /\ Result(ops[n], A, load) = A[j]
  BY Zenon DEF StandsFor
<1>. DEFINE o == ops[n]
            r == Result(ops[n], A, load)
<1>0. ResultRules(o, A, load)
  BY ResultFollows
<1>1. /\ o.op = "abs" => DOMAIN o.in = 1 .. 1
      /\ o.op = "rem" \/ o.op = "compare" => DOMAIN o.in = 1 .. 2
      /\ o.op = "clamp" => DOMAIN o.in = 1 .. 3
  BY ArityOf DEF UnaryNames, BinaryNames
<1>2. \A j \in DOMAIN o.in : b[j] \in RangeSet /\ A[j] \in Int /\ Within(A[j], b[j])
  BY DEF Bounding
<1>3. CASE o.op = "rem"
  <2>1. 1 \in DOMAIN o.in /\ 2 \in DOMAIN o.in
    BY <1>1, <1>3
  <2>2. b[1] \in RangeSet /\ A[1] \in Int /\ Within(A[1], b[1])
    BY <1>2, <2>1
  <2>3. b[2] \in RangeSet /\ A[2] \in Int /\ Within(A[2], b[2])
    BY <1>2, <2>1
  <2>. DEFINE m == LeastMagnitude(b[2])
              w == Wrap(-m, Width)
              p == b[1].min
              q == b[1].max
              y == A[1]
  <2>4. x = o.in[1] /\ q < m /\ p > w
    BY <1>3, ReplacementRules
  <2>5. b[2].min > 0 \/ b[2].max < 0
    BY <1>3 DEF IsExact
  <2>6. p \in Int /\ q \in Int /\ y \in Int /\ p <= y /\ y <= q
    BY <2>2, EndsType DEF RangeSet, Within
  <2>7. m \in Int /\ w \in Int
    <3>. DEFINE u == Magnitude(b[2].min)
                v == Magnitude(b[2].max)
    <3>1. u \in Int /\ v \in Int
      BY <2>3, EndsType DEF RangeSet, Magnitude
    <3>. HIDE DEF u, v
    <3>2. Wrap(u, Width) \in Int /\ Wrap(v, Width) \in Int
      BY <3>1, EndsType
    <3>3. m = Least({Wrap(u, Width), Wrap(v, Width)})
      BY DEF LeastMagnitude, u, v
    <3>4. m \in Int
      BY <3>2, <3>3, LeastPair
    <3>. HIDE DEF m
    <3>5. -m \in Int
      BY <3>4
    <3>. QED BY <3>4, <3>5, EndsType
  <2>8. y < m /\ y > w
    <3>. HIDE DEF m, w, p, q, y
    <3>. QED BY <2>4, <2>6, <2>7
  <2>9. Remainder(y, A[2]) = y
    <3>1. m = Least({Wrap(Magnitude(b[2].min), Width), Wrap(Magnitude(b[2].max), Width)})
      BY DEF LeastMagnitude
    <3>. DEFINE e == b[2]
    <3>2. /\ e \in RangeSet /\ (e.min > 0 \/ e.max < 0) /\ A[2] \in Int /\ Within(A[2], e) /\ y \in Int
          /\ m = Least({Wrap(Magnitude(e.min), Width), Wrap(Magnitude(e.max), Width)})
          /\ y < m /\ y > Wrap(-m, Width)
      BY <2>3, <2>5, <2>6, <2>8, <3>1
    <3>. HIDE DEF m, y, e
    <3>. QED BY <3>2, LeastDivisor
  <2>10. r = Remainder(A[1], A[2])
    BY <1>3, <1>0 DEF ResultRules
  <2>. QED BY <2>1, <2>4, <2>9, <2>10
<1>4. CASE o.op = "compare"
  <2>1. 1 \in DOMAIN o.in /\ 2 \in DOMAIN o.in
    BY <1>1, <1>4
  <2>2. b[1] \in RangeSet /\ A[1] \in Int /\ Within(A[1], b[1])
    BY <1>2, <2>1
  <2>3. b[2] \in RangeSet /\ A[2] \in Int /\ Within(A[2], b[2])
    BY <1>2, <2>1
  <2>4. o.dir \in Directions /\ o.dir # "NE"
    <3>1. o.dir \in Directions
      BY ONLY WellFormed(ops, n), <1>4 DEF WellFormed
    <3>2. o.dir # "NE"
      BY ONLY IsExact(ops[n], b), <1>4 DEF IsExact
    <3>. QED BY <3>1, <3>2
  <2>5. PICK t \in Decided(o.dir, b[1], b[2]) : x = IF t THEN Cst(1) ELSE Cst(0)
    <3>1. x \in Replacement(o, b)
      OBVIOUS
    <3>. HIDE DEF o
    <3>. QED BY ONLY <1>4, <3>1, ReplacementRules, Zenon
  <2>6. t \in BOOLEAN /\ (t <=> Holds(o.dir, A[1], A[2]))
    BY ONLY <2>2, <2>3, <2>4, <2>5, DecidedSound
  <2>7. r = IF Holds(o.dir, A[1], A[2]) THEN 1 ELSE 0
    BY <1>0, <1>4 DEF ResultRules
  <2>8. Cst(1).v = 1 /\ Cst(0).v = 0
    BY DEF Cst
  <2>9. CASE t = TRUE
    <3>1. x = Cst(1)
      BY <2>5, <2>9
    <3>2. r = 1
      BY <2>6, <2>7, <2>9
    <3>. QED BY <2>8, <3>1, <3>2
  <2>10. CASE t = FALSE
    <3>1. x = Cst(0)
      BY <2>5, <2>10
    <3>2. r = 0
      BY <2>6, <2>7, <2>10
    <3>. QED BY <2>8, <3>1, <3>2
  <2>. QED BY <2>6, <2>9, <2>10
<1>5. CASE o.op = "abs"
  <2>1. 1 \in DOMAIN o.in
    BY <1>1, <1>5
  <2>2. b[1] \in RangeSet /\ A[1] \in Int /\ Within(A[1], b[1])
    BY <1>2, <2>1
  <2>3. x = o.in[1] /\ b[1].min >= 0
    BY <1>5, ReplacementRules
  <2>4. r = Magnitude(A[1])
    BY <1>5, <1>0 DEF ResultRules
  <2>5. A[1] >= 0
    <3>. DEFINE p == b[1].min
                y == A[1]
    <3>1. p \in Int /\ y \in Int /\ p >= 0 /\ y >= p
      BY <2>2, <2>3, EndsType DEF RangeSet, Within
    <3>. HIDE DEF p, y
    <3>2. y >= 0
      BY <3>1
    <3>. QED BY <3>2 DEF y
  <2>6. Magnitude(A[1]) = A[1]
    BY <2>2, <2>5 DEF Magnitude
  <2>. QED BY <2>1, <2>3, <2>4, <2>6
<1>6. CASE o.op = "clamp"
  <2>1. 1 \in DOMAIN o.in /\ 2 \in DOMAIN o.in /\ 3 \in DOMAIN o.in
    BY <1>1, <1>6
  <2>2. b[1] \in RangeSet /\ A[1] \in Int /\ Within(A[1], b[1])
    BY <1>2, <2>1
  <2>3. b[2] \in RangeSet /\ A[2] \in Int /\ Within(A[2], b[2])
    BY <1>2, <2>1
  <2>4. b[3] \in RangeSet /\ A[3] \in Int /\ Within(A[3], b[3])
    BY <1>2, <2>1
  <2>. DEFINE p == A[1]
              q == A[2]
              s == A[3]
  <2>5. x = o.in[2] /\ b[1].max <= b[2].min /\ b[3].min >= b[2].max
    BY <1>6, ReplacementRules
  <2>6. r = Least({Greatest({p, q}), s})
    BY <1>6, <1>0 DEF ResultRules
  <2>7. p \in Int /\ q \in Int /\ s \in Int /\ p <= q /\ q <= s
    <3>1. b[1].max \in Int /\ b[2].min \in Int /\ b[2].max \in Int /\ b[3].min \in Int
      BY <2>2, <2>3, <2>4, EndsType DEF RangeSet
    <3>2. p <= b[1].max /\ q >= b[2].min /\ q <= b[2].max /\ s >= b[3].min
      BY <2>2, <2>3, <2>4 DEF Within
    <3>3. p \in Int /\ q \in Int /\ s \in Int
      BY <2>2, <2>3, <2>4
    <3>. HIDE DEF p, q, s
    <3>. QED BY <2>5, <3>1, <3>2, <3>3
  <2>8. r = q
    <3>. HIDE DEF p, q, s
    <3>1. Greatest({p, q}) = IF p >= q THEN p ELSE q
      BY <2>7, GreatestPair
    <3>2. Greatest({p, q}) = q
      BY <2>7, <3>1
    <3>3. Least({q, s}) = IF q <= s THEN q ELSE s
      BY <2>7, LeastPair
    <3>4. Least({q, s}) = q
      BY <2>7, <3>3
    <3>. QED BY <2>6, <3>2, <3>4
  <2>. QED BY <2>1, <2>5, <2>8
<1>. QED BY <1>3, <1>4, <1>5, <1>6 DEF Rewritten

-----------------------------------------------------------------------------
(* Replacing an operation                                                  *)

\* An operand with x in the place of the result of n, and an operation, and a
\* body with such operands.
Instead(y, n, x) == IF y = Val(n) THEN x ELSE y
OperationInstead(o, n, x) == [o EXCEPT !.in = [j \in DOMAIN @ |-> Instead(@[j], n, x)]]
BodyInstead(b, n, x) == [m \in DOMAIN b |-> OperationInstead(b[m], n, x)]

\* This is what Replace does.
LEMMA ReplaceIs ==
  ASSUME NEW n, NEW x, Replace(n, x)
  PROVE  body' = BodyInstead(body, n, x) /\ alias' = [m \in DOMAIN body |-> Instead(alias[m], n, x)]
BY Zenon DEF Replace, BodyInstead, OperationInstead, Instead, Ops

\* Only the operands change.
LEMMA InsteadFields ==
  ASSUME NEW o, {"op", "in", "w"} \subseteq DOMAIN o, NEW n, NEW x
  PROVE  LET p == OperationInstead(o, n, x)
         IN  /\ DOMAIN p = DOMAIN o /\ p.op = o.op /\ p.w = o.w /\ DOMAIN p.in = DOMAIN o.in
             /\ \A j \in DOMAIN o.in : p.in[j] = Instead(o.in[j], n, x)
             /\ p.in = [j \in DOMAIN o.in |-> Instead(o.in[j], n, x)]
             /\ p.dir = o.dir /\ p.first = o.first /\ p.stride = o.stride /\ p.size = o.size
BY DEF OperationInstead

\* What may stand for the result of operation n of b.
Substitute(l, b, n, x) ==
  /\ x \in OperandSet
  /\ x.k = "val" => x.v \in 0 .. n - 1 /\ ValueWidth(l, x.v) = l.body[n].w

\* A substitute is an operand before it.
LEMMA InsteadOperand ==
  ASSUME NEW l, NEW b, NEW n \in Nat, NEW x, Substitute(l, b, n, x), NEW y \in OperandSet
  PROVE  /\ Instead(y, n, x) \in OperandSet
         /\ \A m \in Nat : (y.k = "val" => y.v \in 0 .. m - 1) =>
              (Instead(y, n, x).k = "val" => Instead(y, n, x).v \in 0 .. m - 1)
<1>1. CASE y = Val(n)
  <2>1. Instead(y, n, x) = x
    BY <1>1 DEF Instead
  <2>2. y.k = "val" /\ y.v = n
    BY <1>1 DEF Val
  <2>. QED BY <2>1, <2>2 DEF Substitute
<1>2. CASE y # Val(n)
  BY <1>2 DEF Instead
<1>. QED BY <1>1, <1>2

\* The operation with other operands is well formed.
LEMMA InsteadWellFormed ==
  ASSUME NEW l, NEW b, NEW n \in Nat, NEW x, Substitute(l, b, n, x),
         NEW m \in DOMAIN b, m \in Nat, WellFormed(b, m)
  PROVE  WellFormed(BodyInstead(b, n, x), m)
<1>. DEFINE o == b[m]
            p == OperationInstead(o, n, x)
            c == BodyInstead(b, n, x)
            k == Len(o.in)
<1>1. /\ {"op", "in", "w"} \subseteq DOMAIN o
      /\ o.w \in Nat \ {0}
      /\ o.in \in Seq(OperandSet)
      /\ \/ o.op \in UnaryNames /\ k = 1
         \/ o.op \in BinaryNames /\ k = 2
         \/ o.op = "clamp" /\ k = 3
         \/ o.op = "load" /\ k = 0
      /\ o.op = "compare" => "dir" \in DOMAIN o /\ o.dir \in Directions
      /\ o.op = "iota" => /\ {"first", "stride", "size"} \subseteq DOMAIN o
                          /\ o.first \in Int /\ o.stride \in Int /\ o.size \in Nat \ {0}
      /\ \A j \in DOMAIN o.in : o.in[j].k = "val" => o.in[j].v \in 0 .. m - 1
  BY Zenon DEF WellFormed
<1>2. c[m] = p
  BY DEF BodyInstead
<1>3. /\ DOMAIN p = DOMAIN o /\ p.op = o.op /\ p.w = o.w /\ DOMAIN p.in = DOMAIN o.in
      /\ \A j \in DOMAIN o.in : p.in[j] = Instead(o.in[j], n, x)
      /\ p.in = [j \in DOMAIN o.in |-> Instead(o.in[j], n, x)]
      /\ p.dir = o.dir /\ p.first = o.first /\ p.stride = o.stride /\ p.size = o.size
  <2>. HIDE DEF o
  <2>. QED BY <1>1, InsteadFields
<1>4. k \in Nat /\ DOMAIN o.in = 1 .. k /\ \A j \in 1 .. k : o.in[j] \in OperandSet
  BY <1>1
<1>. HIDE DEF o, p, c, k
<1>5. \A j \in 1 .. k : Instead(o.in[j], n, x) \in OperandSet
  BY <1>4, InsteadOperand
<1>6. p.in \in Seq(OperandSet) /\ Len(p.in) = k
  <2>. DEFINE e(j) == Instead(o.in[j], n, x)
              f == [j \in 1 .. k |-> e(j)]
  <2>1. p.in = f
    BY <1>3, <1>4
  <2>2. \A j \in 1 .. k : e(j) \in OperandSet
    BY <1>5
  <2>. HIDE DEF e
  <2>3. f \in Seq(OperandSet) /\ Len(f) = k
    BY <1>4, <2>2
  <2>. QED BY <2>1, <2>3
<1>7. \A j \in DOMAIN p.in : p.in[j].k = "val" => p.in[j].v \in 0 .. m - 1
  <2>. SUFFICES ASSUME NEW j \in DOMAIN p.in, p.in[j].k = "val" PROVE p.in[j].v \in 0 .. m - 1
    OBVIOUS
  <2>1. j \in DOMAIN o.in /\ o.in[j] \in OperandSet /\ p.in[j] = Instead(o.in[j], n, x)
    BY <1>3, <1>4
  <2>2. o.in[j].k = "val" => o.in[j].v \in 0 .. m - 1
    BY <1>1, <2>1
  <2>. DEFINE y == o.in[j]
  <2>. HIDE DEF y
  <2>3. y \in OperandSet /\ p.in[j] = Instead(y, n, x) /\ (y.k = "val" => y.v \in 0 .. m - 1)
    BY <2>1, <2>2 DEF y
  <2>4. Instead(y, n, x).k = "val" => Instead(y, n, x).v \in 0 .. m - 1
    BY <2>3, InsteadOperand
  <2>. QED BY <2>3, <2>4
<1>8. /\ {"op", "in", "w"} \subseteq DOMAIN p
      /\ p.w \in Nat \ {0}
      /\ p.in \in Seq(OperandSet)
      /\ \/ p.op \in UnaryNames /\ Len(p.in) = 1
         \/ p.op \in BinaryNames /\ Len(p.in) = 2
         \/ p.op = "clamp" /\ Len(p.in) = 3
         \/ p.op = "load" /\ Len(p.in) = 0
      /\ p.op = "compare" => "dir" \in DOMAIN p /\ p.dir \in Directions
      /\ p.op = "iota" => /\ {"first", "stride", "size"} \subseteq DOMAIN p
                          /\ p.first \in Int /\ p.stride \in Int /\ p.size \in Nat \ {0}
      /\ \A j \in DOMAIN p.in : p.in[j].k = "val" => p.in[j].v \in 0 .. m - 1
  BY <1>1, <1>3, <1>6, <1>7
<1>9. WellFormed(c, m)
  BY <1>2, <1>8, Zenon DEF WellFormed
<1>. QED BY <1>9 DEF c

\* The body with other operands has the shape of the given one.
LEMMA InsteadShape ==
  ASSUME NEW l, WellFormedLoop(l), NEW b, SameShape(l, b), NEW n \in DOMAIN l.body, NEW x, Substitute(l, b, n, x)
  PROVE  SameShape(l, BodyInstead(b, n, x))
<1>. DEFINE c == BodyInstead(b, n, x)
            k == Len(l.body)
<1>1. DOMAIN b = 1 .. k /\ DOMAIN l.body = 1 .. k /\ k \in Nat /\ Len(b) = k
  BY DEF SameShape, WellFormedLoop
<1>2. c = [m \in 1 .. k |-> OperationInstead(b[m], n, x)]
  BY <1>1 DEF BodyInstead
<1>3. DOMAIN c = 1 .. k /\ Len(c) = k
  <2>. DEFINE e(m) == OperationInstead(b[m], n, x)
  <2>1. c = [m \in 1 .. k |-> e(m)]
    BY <1>2
  <2>. HIDE DEF e, c, k
  <2>. QED BY <1>1, <2>1
<1>4. \A m \in DOMAIN l.body : WellFormed(c, m) /\ SameOperation(c[m], l.body[m]) /\ ValuesTyped(l, c[m])
  <2>. SUFFICES ASSUME NEW m \in DOMAIN l.body
                PROVE  WellFormed(c, m) /\ SameOperation(c[m], l.body[m]) /\ ValuesTyped(l, c[m])
    OBVIOUS
  <2>. DEFINE o == b[m]
              p == OperationInstead(o, n, x)
              q == l.body[m]
  <2>1. WellFormed(b, m) /\ SameOperation(o, q) /\ ValuesTyped(l, o)
    BY DEF SameShape
  <2>2. n \in Nat /\ m \in Nat /\ m \in DOMAIN b
    BY <1>1
  <2>3. WellFormed(c, m)
    BY <2>1, <2>2, InsteadWellFormed
  <2>4. {"op", "in", "w"} \subseteq DOMAIN o /\ o.in \in Seq(OperandSet)
    BY ONLY <2>1, Zenon DEF WellFormed
  <2>5. c[m] = p
    BY <1>1, <1>2
  <2>6. /\ DOMAIN p = DOMAIN o /\ p.op = o.op /\ p.w = o.w /\ DOMAIN p.in = DOMAIN o.in
        /\ \A j \in DOMAIN o.in : p.in[j] = Instead(o.in[j], n, x)
        /\ p.in = [j \in DOMAIN o.in |-> Instead(o.in[j], n, x)]
        /\ p.dir = o.dir /\ p.first = o.first /\ p.stride = o.stride /\ p.size = o.size
    <3>. HIDE DEF o
    <3>. QED BY <2>4, InsteadFields
  <2>. HIDE DEF c, o, p, q
  <2>7. SameOperation(p, q)
    BY ONLY <2>1, <2>6 DEF SameOperation
  <2>8. ValuesTyped(l, p)
    <3>. SUFFICES ASSUME HasTypedOperands(p), NEW j \in DOMAIN p.in, p.in[j].k = "val"
                  PROVE  ValueWidth(l, p.in[j].v) = p.w
      BY DEF ValuesTyped
    <3>1. HasTypedOperands(o)
      BY <2>6 DEF HasTypedOperands
    <3>2. j \in DOMAIN o.in /\ p.in[j] = Instead(o.in[j], n, x) /\ p.w = o.w
      BY <2>6
    <3>3. o.in[j].k = "val" => ValueWidth(l, o.in[j].v) = o.w
      BY <2>1, <3>1, <3>2 DEF ValuesTyped
    <3>4. CASE o.in[j] = Val(n)
      <4>1. p.in[j] = x
        BY <3>2, <3>4 DEF Instead
      <4>2. x.k = "val" /\ ValueWidth(l, x.v) = l.body[n].w
        BY <4>1 DEF Substitute
      <4>3. o.in[j].k = "val" /\ o.in[j].v = n
        BY <3>4 DEF Val
      <4>4. ValueWidth(l, n) = l.body[n].w
        BY <1>1 DEF ValueWidth
      <4>. QED BY <3>2, <3>3, <4>1, <4>2, <4>3, <4>4
    <3>5. CASE o.in[j] # Val(n)
      BY <3>2, <3>3, <3>5 DEF Instead
    <3>. QED BY <3>4, <3>5
  <2>. QED BY <2>3, <2>5, <2>7, <2>8, Zenon DEF q
<1>. QED BY <1>1, <1>3, <1>4 DEF SameShape

\* A replacement is a substitute.
LEMMA ReplacementType ==
  ASSUME NEW l, WellFormedLoop(l), NEW b, SameShape(l, b), NEW n \in DOMAIN l.body, b[n].op \in Rewritten,
         NEW r, NEW x \in Replacement(b[n], r)
  PROVE  Substitute(l, b, n, x)
<1>. DEFINE o == b[n]
<1>1. WellFormed(b, n) /\ SameOperation(o, l.body[n]) /\ ValuesTyped(l, o)
  BY DEF SameShape
<1>2. /\ o.op = "abs" => DOMAIN o.in = 1 .. 1
      /\ o.op = "rem" \/ o.op = "compare" => DOMAIN o.in = 1 .. 2
      /\ o.op = "clamp" => DOMAIN o.in = 1 .. 3
  BY <1>1, ArityOf DEF UnaryNames, BinaryNames
<1>3. o.in \in Seq(OperandSet) /\ \A j \in DOMAIN o.in : o.in[j].k = "val" => o.in[j].v \in 0 .. n - 1
  BY ONLY <1>1, Zenon DEF WellFormed
<1>4. o.w = l.body[n].w
  BY <1>1 DEF SameOperation
<1>5. HasTypedOperands(o)
  BY DEF HasTypedOperands, Rewritten
<1>6. (\E j \in DOMAIN o.in : x = o.in[j]) \/ x \in {Cst(0), Cst(1)}
  <2>1. CASE o.op = "rem"
    BY <1>2, <2>1, ReplacementRules
  <2>2. CASE o.op = "compare"
    <3>1. x \in Replacement(o, r)
      OBVIOUS
    <3>2. \E t \in Decided(o.dir, r[1], r[2]) : x = IF t THEN Cst(1) ELSE Cst(0)
      <4>. HIDE DEF o
      <4>. QED BY ONLY <2>2, <3>1, ReplacementRules, Zenon
    <3>. QED BY ONLY <3>2, Zenon
  <2>3. CASE o.op = "abs"
    BY <1>2, <2>3, ReplacementRules
  <2>4. CASE o.op = "clamp"
    BY <1>2, <2>4, ReplacementRules
  <2>. QED BY <2>1, <2>2, <2>3, <2>4 DEF Rewritten
<1>7. CASE x \in {Cst(0), Cst(1)}
  BY <1>7 DEF Cst, OperandSet, Substitute
<1>8. CASE \E j \in DOMAIN o.in : x = o.in[j]
  <2>1. PICK j \in DOMAIN o.in : x = o.in[j]
    BY <1>8
  <2>2. x \in OperandSet
    <3>. DEFINE s == o.in
    <3>1. s \in Seq(OperandSet) /\ j \in DOMAIN s /\ x = s[j]
      BY <1>3, <2>1
    <3>. HIDE DEF s
    <3>. QED BY <3>1, ElementOfSeq
  <2>3. x.k = "val" => x.v \in 0 .. n - 1
    BY <1>3, <2>1
  <2>4. x.k = "val" => ValueWidth(l, x.v) = o.w
    BY <1>1, <1>5, <2>1 DEF ValuesTyped
  <2>. QED BY <1>4, <2>2, <2>3, <2>4 DEF Substitute
<1>. QED BY <1>6, <1>7, <1>8

-----------------------------------------------------------------------------
(* Types                                                                   *)

\* The loop is one that may be given, and the body has kept its shape.
Shape ==
  /\ loop \in Loops
  /\ SameShape(loop, body)
  /\ alias \in [DOMAIN loop.body -> OperandSet]
  /\ phase \in {"affine", "bounds", "fold", "run"}

\* Entries are of values of the body; those that derive from none have no scale.
Entries ==
  /\ DOMAIN affine \subseteq 0 .. Len(loop.body)
  /\ \A x \in DOMAIN affine : affine[x] \in EntrySet
  /\ work \subseteq DOMAIN affine /\ guessed \subseteq DOMAIN affine
  /\ \A x \in guessed : affine[x].scale = 0

\* Ranges r of values of the body, none wider than the ranges.
Known(r) ==
  /\ DOMAIN r \subseteq 0 .. Len(loop.body)
  /\ \A x \in DOMAIN r : r[x] \in RangeSet /\ ValueWidth(loop, x) <= Width

\* Operations visited are as wide as the values that led to them, conversions apart.
Narrow(n) == HasTypedOperands(loop.body[n]) => loop.body[n].w <= Width
RangesKnown ==
  /\ Known(bounds) /\ Known(marks)
  /\ visited \subseteq DOMAIN loop.body /\ \A n \in visited : Narrow(n)
  /\ todo \subseteq visited /\ \A n \in todo : loop.body[n].op \in Rewritten
  /\ phase = "bounds" => DOMAIN bounds \subseteq {0} \union visited
  /\ phase # "fold" => todo = {}

\* The loop starts when the pass is done.
RunTypes ==
  /\ iv \in Signed(Width) /\ iters \in 0 .. MaxIters /\ data \in Int
  /\ phase # "run" => iv = loop.start /\ iters = 0

Types == Shape /\ Entries /\ RangesKnown /\ RunTypes

\* What is known of the loop.
LEMMA ShapeFacts ==
  ASSUME Shape
  PROVE  /\ WellFormedLoop(loop) /\ SameShape(loop, body)
         /\ Len(loop.body) \in Nat /\ DOMAIN loop.body = 1 .. Len(loop.body) /\ Ops = DOMAIN loop.body
         /\ loop.arg \in Int /\ loop.inc \in DOMAIN loop.body
         /\ loop.start \in Signed(Width) /\ loop.limit \in Signed(Width)
         /\ \A n \in Ops : WellFormed(body, n) /\ SameOperation(body[n], loop.body[n]) /\ ValuesTyped(loop, body[n])
         /\ Len(body) = Len(loop.body)
<1>1. WellFormedLoop(loop) /\ SameShape(loop, body)
  BY LoopsAssumption DEF Shape
<1>2. Len(loop.body) \in Nat /\ DOMAIN loop.body = 1 .. Len(loop.body)
      /\ loop.arg \in Int /\ loop.inc \in DOMAIN loop.body
      /\ loop.start \in Signed(Width) /\ loop.limit \in Signed(Width)
  BY <1>1 DEF WellFormedLoop
<1>3. Ops = DOMAIN loop.body /\ Len(body) = Len(loop.body)
  BY <1>1 DEF SameShape, Ops
<1>4. \A n \in Ops : WellFormed(body, n) /\ SameOperation(body[n], loop.body[n]) /\ ValuesTyped(loop, body[n])
  BY <1>1, <1>3 DEF SameShape
<1>. QED BY <1>1, <1>2, <1>3, <1>4

\* An operand of an operation is one.
LEMMA OperandOf ==
  ASSUME Shape, NEW n \in Ops, NEW j \in DOMAIN body[n].in
  PROVE  body[n].in[j] \in OperandSet /\ (body[n].in[j].k = "val" => body[n].in[j].v \in 0 .. n - 1)
<1>. DEFINE s == body[n].in
<1>1. WellFormed(body, n)
  BY ShapeFacts
<1>2. s \in Seq(OperandSet) /\ (s[j].k = "val" => s[j].v \in 0 .. n - 1) /\ j \in DOMAIN s
  BY ONLY <1>1, j \in DOMAIN body[n].in, Zenon DEF WellFormed
<1>. HIDE DEF s
<1>3. s[j] \in OperandSet
  BY <1>2, ElementOfSeq
<1>. QED BY <1>2, <1>3 DEF s

\* The value an operation uses is one of its operands.
LEMMA UserOf ==
  ASSUME NEW x, NEW n \in Users(x)
  PROVE  n \in Ops /\ \E j \in DOMAIN body[n].in : body[n].in[j] = Val(x)
BY DEF Users

\* Rewriting an operation.
RewriteOf(n) ==
  LET o == body[n]
      b == [j \in DOMAIN o.in |-> BoundsOf(o.in[j])]
      new == IF \A j \in DOMAIN o.in : HasBounds(o.in[j]) THEN Replacement(o, b) ELSE {}
  IN  IF new = {} THEN UNCHANGED <<body, alias, exact, changed>>
      ELSE /\ \E x \in new : Replace(n, x)
           /\ changed' = TRUE
           /\ exact' = (exact /\ IsExact(o, b))

\* The ranges of its operands.
OperandRanges(n) == [j \in DOMAIN body[n].in |-> BoundsOf(body[n].in[j])]

\* Either nothing is rewritten, or all operands have ranges and one replaces it.
LEMMA RewriteCases ==
  ASSUME Rewrite
  PROVE  \E n \in todo :
           /\ todo' = todo \ {n} /\ phase = "fold"
           /\ UNCHANGED <<loop, phase, analysis, bounds, visited, marks, run>>
           /\ \/ UNCHANGED <<body, alias, exact, changed>>
              \/ /\ \A j \in DOMAIN body[n].in : HasBounds(body[n].in[j])
                 /\ \E x \in Replacement(body[n], OperandRanges(n)) : Replace(n, x)
                 /\ exact' = (exact /\ IsExact(body[n], OperandRanges(n)))
<1>1. PICK n \in todo : todo' = todo \ {n} /\ RewriteOf(n)
  BY Zenon DEF Rewrite, RewriteOf
<1>2. phase = "fold" /\ UNCHANGED <<loop, phase, analysis, bounds, visited, marks, run>>
  BY Zenon DEF Rewrite
<1>. DEFINE all == \A j \in DOMAIN body[n].in : HasBounds(body[n].in[j])
            R == Replacement(body[n], OperandRanges(n))
            new == IF all THEN R ELSE {}
            same == UNCHANGED <<body, alias, exact, changed>>
            some(S) == \E x \in S : Replace(n, x)
            e == exact' = (exact /\ IsExact(body[n], OperandRanges(n)))
<1>3. IF new = {} THEN same ELSE some(new) /\ changed' = TRUE /\ e
  BY <1>1, Zenon DEF RewriteOf, OperandRanges
<1>. HIDE DEF all, R, same, some, e
<1>4. CASE new = {}
  <2>1. same
    BY ONLY <1>3, <1>4, Zenon
  <2>. QED BY <1>1, <1>2, <2>1, Zenon DEF same
<1>5. CASE new # {}
  <2>1. some(new) /\ e
    BY ONLY <1>3, <1>5, Zenon
  <2>2. all
    BY ONLY <1>5, Zenon
  <2>3. some(R)
    BY ONLY <2>1, <2>2, Zenon
  <2>. QED BY <1>1, <1>2, <2>1, <2>2, <2>3, Zenon DEF all, some, e, R
<1>. QED BY <1>4, <1>5, Zenon

\* The loop, the body and its aliases in every action but the rewriting of an operation.
LEMMA BodyKept ==
  ASSUME Propagate \/ SliceOfIota \/ Analysed \/ Visit \/ Annotate \/ EndRound \/ Iterate \/ UNCHANGED vars
  PROVE  loop' = loop /\ body' = body /\ alias' = alias
<1>1. CASE Propagate
  BY <1>1, Zenon DEF Propagate
<1>2. CASE SliceOfIota
  BY <1>2, Zenon DEF SliceOfIota
<1>3. CASE Analysed
  BY <1>3, Zenon DEF Analysed
<1>4. CASE Visit
  BY <1>4, Zenon DEF Visit
<1>5. CASE Annotate
  BY <1>5, Zenon DEF Annotate
<1>6. CASE EndRound
  BY <1>6, Zenon DEF EndRound
<1>7. CASE Iterate
  BY <1>7, Zenon DEF Iterate
<1>8. CASE UNCHANGED vars
  BY <1>8 DEF vars
<1>. QED BY <1>1, <1>2, <1>3, <1>4, <1>5, <1>6, <1>7, <1>8

\* The phase after every action.
LEMMA PhaseStep ==
  ASSUME phase \in {"affine", "bounds", "fold", "run"}, [Next]_vars
  PROVE  phase' \in {"affine", "bounds", "fold", "run"}
<1>1. CASE Propagate
  BY <1>1, Zenon DEF Propagate
<1>2. CASE SliceOfIota
  BY <1>2, Zenon DEF SliceOfIota
<1>3. CASE Analysed
  <2>1. phase' = "bounds" \/ phase' = "run"
    BY <1>3 DEF Analysed
  <2>. QED BY <2>1
<1>4. CASE Visit
  BY <1>4, Zenon DEF Visit
<1>5. CASE Annotate
  <2>1. phase' = "fold"
    BY <1>5, Zenon DEF Annotate
  <2>. QED BY <2>1
<1>6. CASE EndRound
  <2>1. phase' = "affine" \/ phase' = "run"
    BY <1>6 DEF EndRound
  <2>. QED BY <2>1
<1>7. CASE Iterate
  BY <1>7, Zenon DEF Iterate
<1>8. CASE Rewrite
  BY <1>8, Zenon DEF Rewrite
<1>9. CASE UNCHANGED vars
  BY <1>9 DEF vars
<1>. QED BY <1>1, <1>2, <1>3, <1>4, <1>5, <1>6, <1>7, <1>8, <1>9 DEF Next, Analyse

\* Every action keeps the shape of the body.
LEMMA ShapeStep ==
  ASSUME Types, [Next]_vars
  PROVE  Shape'
<1>0. Shape
  BY DEF Types
<1>1. phase' \in {"affine", "bounds", "fold", "run"}
  BY <1>0, PhaseStep DEF Shape
<1>2. CASE loop' = loop /\ body' = body /\ alias' = alias
  BY <1>0, <1>1, <1>2 DEF Shape
<1>3. CASE Rewrite
  <2>1. PICK n \in todo :
           /\ UNCHANGED <<loop, phase, analysis, bounds, visited, marks, run>>
           /\ \/ UNCHANGED <<body, alias, exact, changed>>
              \/ /\ \A j \in DOMAIN body[n].in : HasBounds(body[n].in[j])
                 /\ \E x \in Replacement(body[n], OperandRanges(n)) : Replace(n, x)
                 /\ exact' = (exact /\ IsExact(body[n], OperandRanges(n)))
    BY <1>3, RewriteCases, Zenon
  <2>2. loop' = loop
    BY <2>1
  <2>3. CASE UNCHANGED <<body, alias, exact, changed>>
    BY <1>2, <2>2, <2>3
  <2>4. CASE \E x \in Replacement(body[n], OperandRanges(n)) : Replace(n, x)
    <3>1. PICK x \in Replacement(body[n], OperandRanges(n)) : Replace(n, x)
      BY <2>4
    <3>2. n \in Ops /\ loop.body[n].op \in Rewritten
      BY <1>0, ShapeFacts DEF Types, RangesKnown
    <3>3. /\ WellFormedLoop(loop) /\ SameShape(loop, body) /\ Ops = DOMAIN loop.body
          /\ SameOperation(body[n], loop.body[n])
          /\ DOMAIN loop.body = 1 .. Len(loop.body) /\ Len(loop.body) \in Nat
      BY <1>0, <3>2, ShapeFacts
    <3>4. body[n].op \in Rewritten
      BY <3>2, <3>3 DEF SameOperation
    <3>5. Substitute(loop, body, n, x)
      BY <3>2, <3>3, <3>4, ReplacementType
    <3>6. body' = BodyInstead(body, n, x) /\ alias' = [m \in DOMAIN body |-> Instead(alias[m], n, x)]
      BY <3>1, ReplaceIs
    <3>7. SameShape(loop, body')
      BY <3>2, <3>3, <3>5, <3>6, InsteadShape
    <3>8. \A m \in DOMAIN body : Instead(alias[m], n, x) \in OperandSet
      <4>. SUFFICES ASSUME NEW m \in DOMAIN body PROVE Instead(alias[m], n, x) \in OperandSet
        OBVIOUS
      <4>1. alias[m] \in OperandSet
        BY <1>0, <3>3 DEF Shape, SameShape
      <4>2. n \in Nat
        BY <3>2, <3>3
      <4>. QED BY <3>5, <4>1, <4>2, InsteadOperand
    <3>9. alias' \in [DOMAIN loop.body -> OperandSet]
      <4>1. DOMAIN body = DOMAIN loop.body
        BY <3>3 DEF SameShape
      <4>. QED BY <3>6, <3>8, <4>1
    <3>. QED BY <1>0, <1>1, <2>2, <3>7, <3>9 DEF Shape
  <2>. QED BY <2>1, <2>3, <2>4
<1>4. CASE ~Rewrite
  <2>1. Propagate \/ SliceOfIota \/ Analysed \/ Visit \/ Annotate \/ EndRound \/ Iterate \/ UNCHANGED vars
    BY <1>4 DEF Next, Analyse
  <2>. QED BY <1>2, <2>1, BodyKept
<1>. QED BY <1>3, <1>4

\* The least of a set of natural numbers is in it and no greater than any of them.
LEMMA LeastOf ==
  ASSUME NEW T \in SUBSET Nat, T # {}
  PROVE  Least(T) \in T /\ \A y \in T : Least(T) <= y
<1>. DEFINE R == OpToRel(<, Nat)
<1>1. \A x, y \in Nat : x < y => <<x, y>> \in R
  BY DEF OpToRel
<1>2. IsWellFoundedOn(R, Nat)
  BY NatLessThanWellFounded
<1>. HIDE DEF R
<1>3. PICK k \in T : \A y \in T : ~ (<<y, k>> \in R)
  BY <1>2, WFMin
<1>4. \A y \in T : k <= y
  <2>. SUFFICES ASSUME NEW y \in T PROVE k <= y
    OBVIOUS
  <2>1. y \in Nat /\ k \in Nat
    OBVIOUS
  <2>2. ~(y < k)
    BY <1>1, <1>3, <2>1
  <2>. QED BY <2>1, <2>2
<1>5. \E x \in T : \A y \in T : x <= y
  BY <1>4
<1>. QED BY <1>5, Zenon DEF Least

\* The entry of an operation derived from that of an operand.
LEMMA DerivedEntry ==
  ASSUME Shape, NEW x, NEW n \in Users(x), Propagates(body[n], x), NEW cur \in EntrySet
  PROVE  /\ InfoOf(body[n], x, cur) \in EntrySet /\ InfoOf(body[n], x, cur).w = cur.w
         /\ cur.scale = 0 => InfoOf(body[n], x, cur).scale = 0
<1>1. n \in Ops
  BY UserOf
<1>2. PICK j \in DOMAIN body[n].in : body[n].in[j] = Val(x)
  BY UserOf
<1>3. WellFormed(body, n) /\ loop.arg \in Int
  BY <1>1, ShapeFacts
<1>4. ScalesOperand(body[n], x, cur)
  BY <1>2, <1>3, Propagated
<1>6. PICK c, d \in Int : Scales(body[n], x, cur, c, d)
  BY <1>4, Zenon DEF ScalesOperand
<1>7. InfoOf(body[n], x, cur) = Update(cur, c, d) \/ InfoOf(body[n], x, cur) = cur
  BY <1>6, Zenon DEF Scales
<1>5. /\ Update(cur, c, d) \in EntrySet /\ Update(cur, c, d).w = cur.w
      /\ cur.scale = 0 => Update(cur, c, d).scale = 0
  BY UpdateType
<1>. QED BY <1>5, <1>7

\* The next slice of an iota.
LEMMA NextSlice ==
  ASSUME Shape, Slices # {}
  PROVE  LET n == Least(Slices)
         IN  /\ n \in Ops /\ n \notin DOMAIN affine /\ body[n].op = "iota" /\ 1 \in DOMAIN body[n].in
             /\ body[n].first \in Int /\ body[n].stride \in Int /\ body[n].size \in Nat \ {0}
<1>. DEFINE n == Least(Slices)
<1>1. Slices \in SUBSET Nat
  BY ShapeFacts DEF Slices
<1>2. n \in Slices
  BY <1>1, LeastOf
<1>. HIDE DEF n
<1>3. n \in Ops /\ n \notin DOMAIN affine /\ body[n].op = "iota"
  BY <1>2 DEF Slices
<1>4. WellFormed(body, n)
  BY <1>3, ShapeFacts
<1>5. DOMAIN body[n].in = 1 .. 1
  BY <1>3, <1>4, ArityOf DEF UnaryNames
<1>6. body[n].first \in Int /\ body[n].stride \in Int /\ body[n].size \in Nat \ {0}
  BY ONLY <1>3, <1>4 DEF WellFormed
<1>. QED BY <1>3, <1>5, <1>6 DEF n

\* The entry of a slice of an iota, and of its index.
IndexOf(n) == IF body[n].in[1].k = "val" THEN {body[n].in[1].v} ELSE {}
IndexKnown(n) == IndexOf(n) # {} /\ IndexOf(n) \subseteq DOMAIN affine
IndexEntry(n) == IF IndexKnown(n) THEN affine[body[n].in[1].v] ELSE NoInfo
SliceEntry(n) ==
  [w |-> IndexEntry(n).w, scale |-> Wrap(IndexEntry(n).scale * body[n].stride, IndexEntry(n).w),
   offset |-> Wrap(body[n].stride * IndexEntry(n).offset + body[n].first, IndexEntry(n).w)]

\* This is what SliceOfIota does.
LEMMA SliceIs ==
  ASSUME SliceOfIota
  PROVE  LET n == Least(Slices)
         IN  /\ phase = "affine" /\ Slices # {}
             /\ affine' = [m \in DOMAIN affine \union IndexOf(n) \union {n} |->
                             IF m = n THEN SliceEntry(n) ELSE IF m \in IndexOf(n) THEN IndexEntry(n) ELSE affine[m]]
             /\ work' = {n}
             /\ guessed' = guessed \union (IF ~IndexKnown(n) THEN IndexOf(n) \union {n}
                                           ELSE IF IndexOf(n) \subseteq guessed THEN {n} ELSE {})
             /\ UNCHANGED <<loop, body, alias, phase, ranges, run>>
BY Zenon DEF SliceOfIota, IndexOf, IndexKnown, IndexEntry, SliceEntry

\* The entry of an index, and of a slice.
LEMMA SliceEntryType ==
  ASSUME Shape, Entries, Slices # {}
  PROVE  LET n == Least(Slices)
         IN  /\ IndexOf(n) \subseteq 0 .. Len(loop.body) /\ n \notin IndexOf(n)
             /\ IndexEntry(n) \in EntrySet /\ SliceEntry(n) \in EntrySet
             /\ IndexKnown(n) => IndexEntry(n) = affine[body[n].in[1].v] /\ IndexOf(n) = {body[n].in[1].v}
                                 /\ body[n].in[1].v \in DOMAIN affine
             /\ ~IndexKnown(n) => IndexEntry(n).scale = 0
             /\ IndexEntry(n).scale = 0 => SliceEntry(n).scale = 0
             /\ SliceEntry(n).w = IndexEntry(n).w
<1>. DEFINE n == Least(Slices)
            c == IndexEntry(n)
            e == SliceEntry(n)
            y == body[n].in[1]
<1>1. /\ n \in Ops /\ 1 \in DOMAIN body[n].in /\ body[n].first \in Int /\ body[n].stride \in Int
  BY NextSlice
<1>. HIDE DEF n
<1>2. y \in OperandSet /\ (y.k = "val" => y.v \in 0 .. n - 1)
  BY <1>1, OperandOf
<1>3. n \in 1 .. Len(loop.body) /\ Len(loop.body) \in Nat
  BY <1>1, ShapeFacts
<1>4. IndexOf(n) \subseteq 0 .. Len(loop.body) /\ n \notin IndexOf(n)
  <2>. HIDE DEF y
  <2>1. IndexOf(n) = IF y.k = "val" THEN {y.v} ELSE {}
    BY DEF IndexOf, y
  <2>. QED BY <1>2, <1>3, <2>1
<1>5. IndexKnown(n) => c = affine[y.v] /\ IndexOf(n) = {y.v} /\ y.v \in DOMAIN affine
  <2>1. IndexKnown(n) => c = affine[y.v]
    BY DEF IndexEntry
  <2>2. IndexKnown(n) => IndexOf(n) = {y.v}
    BY DEF IndexKnown, IndexOf
  <2>3. IndexKnown(n) => IndexOf(n) \subseteq DOMAIN affine
    BY DEF IndexKnown
  <2>. QED BY <2>1, <2>2, <2>3
<1>6. NoInfo \in EntrySet /\ NoInfo.scale = 0
  BY EndsType DEF NoInfo, EntrySet
<1>7. ~IndexKnown(n) => c = NoInfo
  BY DEF IndexEntry
<1>8. c \in EntrySet
  BY <1>5, <1>6, <1>7 DEF Entries
<1>9. c.w \in {1, Width} /\ c.scale \in Int /\ c.offset \in Int
  BY <1>8, EndsType DEF EntrySet
<1>10. e = [w |-> c.w, scale |-> Wrap(c.scale * body[n].stride, c.w),
            offset |-> Wrap(body[n].stride * c.offset + body[n].first, c.w)]
  BY DEF SliceEntry
<1>. DEFINE s == c.scale
            o == c.offset
            t == body[n].stride
            f == body[n].first
            w == c.w
<1>11. e = [w |-> w, scale |-> Wrap(s * t, w), offset |-> Wrap(t * o + f, w)]
  BY <1>10
<1>12. s \in Int /\ o \in Int /\ t \in Int /\ f \in Int /\ w \in {1, Width}
  BY <1>1, <1>9
<1>. HIDE DEF s, o, t, f, w, e
<1>13. s * t \in Int /\ t * o + f \in Int
  BY <1>12
<1>14. Wrap(s * t, w) \in Signed(Width)
  BY <1>12, <1>13, CutEntry
<1>15. Wrap(t * o + f, w) \in Signed(Width)
  BY <1>12, <1>13, CutEntry
<1>16. e \in EntrySet /\ e.w = w /\ e.scale = Wrap(s * t, w)
  BY <1>11, <1>12, <1>14, <1>15 DEF EntrySet
<1>17. s = 0 => e.scale = 0
  <2>1. s = 0 => s * t = 0
    BY <1>12
  <2>2. Wrap(0, w) = 0
    BY <1>12, CutZero
  <2>. QED BY <1>16, <2>1, <2>2
<1>18. /\ c.scale = 0 => e.scale = 0
       /\ e.w = c.w
  BY <1>16, <1>17 DEF s, w
<1>19. ~IndexKnown(n) => c.scale = 0
  BY <1>6, <1>7
<1>. HIDE DEF c
<1>20. /\ IndexOf(n) \subseteq 0 .. Len(loop.body) /\ n \notin IndexOf(n)
       /\ c \in EntrySet /\ e \in EntrySet
       /\ IndexKnown(n) => c = affine[y.v] /\ IndexOf(n) = {y.v} /\ y.v \in DOMAIN affine
       /\ ~IndexKnown(n) => c.scale = 0
       /\ c.scale = 0 => e.scale = 0
       /\ e.w = c.w
  BY <1>4, <1>5, <1>8, <1>16, <1>18, <1>19
<1>. QED BY <1>20 DEF c, e, n, y

\* The operations that get an entry from x.
NewFrom(x) == {n \in Users(x) \ DOMAIN affine : Propagates(body[n], x)}

\* This is what Propagate does.
LEMMA PropagateIs ==
  ASSUME Propagate
  PROVE  /\ \E x \in work :
              /\ affine' = [n \in DOMAIN affine \union NewFrom(x) |->
                              IF n \in NewFrom(x) THEN InfoOf(body[n], x, affine[x]) ELSE affine[n]]
              /\ work' = (work \ {x}) \union NewFrom(x)
              /\ guessed' = IF x \in guessed THEN guessed \union NewFrom(x) ELSE guessed
         /\ phase = "affine"
         /\ UNCHANGED <<loop, body, alias, phase, ranges, run>>
BY Zenon DEF Propagate, NewFrom

\* Propagating keeps the types of entries.
LEMMA PropagateEntries ==
  ASSUME Shape, Entries, Propagate
  PROVE  Entries'
<1>1. PICK x \in work :
        /\ affine' = [n \in DOMAIN affine \union NewFrom(x) |->
                        IF n \in NewFrom(x) THEN InfoOf(body[n], x, affine[x]) ELSE affine[n]]
        /\ work' = (work \ {x}) \union NewFrom(x)
        /\ guessed' = IF x \in guessed THEN guessed \union NewFrom(x) ELSE guessed
  BY PropagateIs, Zenon
<1>2. loop' = loop
  BY PropagateIs
<1>. DEFINE N == NewFrom(x)
<1>3. \A n \in N : n \in Users(x) /\ Propagates(body[n], x) /\ n \in Ops /\ n \notin DOMAIN affine
  BY UserOf DEF NewFrom
<1>4. affine[x] \in EntrySet /\ x \in DOMAIN affine
  BY DEF Entries
<1>5. \A n \in N : /\ InfoOf(body[n], x, affine[x]) \in EntrySet
                   /\ affine[x].scale = 0 => InfoOf(body[n], x, affine[x]).scale = 0
  BY <1>3, <1>4, DerivedEntry
<1>6. N \subseteq 0 .. Len(loop.body)
  BY <1>3, ShapeFacts
<1>. HIDE DEF N
<1>7. /\ DOMAIN affine' = DOMAIN affine \union N
      /\ \A n \in DOMAIN affine' : affine'[n] = IF n \in N THEN InfoOf(body[n], x, affine[x]) ELSE affine[n]
  BY <1>1 DEF N
<1>8. work' = (work \ {x}) \union N /\ guessed' = IF x \in guessed THEN guessed \union N ELSE guessed
  BY <1>1 DEF N
<1>9. DOMAIN affine' \subseteq 0 .. Len(loop.body)
  BY <1>6, <1>7 DEF Entries
<1>10. \A n \in DOMAIN affine' : affine'[n] \in EntrySet
  BY <1>5, <1>7 DEF Entries
<1>11. work' \subseteq DOMAIN affine' /\ guessed' \subseteq DOMAIN affine'
  BY <1>7, <1>8 DEF Entries
<1>12. \A n \in guessed' : affine'[n].scale = 0
  <2>. SUFFICES ASSUME NEW n \in guessed' PROVE affine'[n].scale = 0
    OBVIOUS
  <2>1. CASE n \in N
    <3>1. affine'[n] = InfoOf(body[n], x, affine[x])
      BY <1>7, <2>1
    <3>2. x \in guessed
      <4>1. n \notin guessed
        BY <1>3, <2>1 DEF Entries, N
      <4>. QED BY <1>8, <4>1
    <3>3. affine[x].scale = 0
      BY <3>2 DEF Entries
    <3>. QED BY <1>5, <2>1, <3>1, <3>3
  <2>2. CASE n \notin N
    <3>1. n \in guessed
      BY <1>8, <2>2
    <3>2. affine'[n] = affine[n]
      BY <1>7, <1>11, <2>2
    <3>. QED BY <3>1, <3>2 DEF Entries
  <2>. QED BY <2>1, <2>2
<1>. QED BY <1>2, <1>9, <1>10, <1>11, <1>12 DEF Entries

\* So do slices of iotas.
LEMMA SliceEntries ==
  ASSUME Shape, Entries, SliceOfIota
  PROVE  Entries'
<1>. DEFINE n == Least(Slices)
            X == IndexOf(n)
            c == IndexEntry(n)
            e == SliceEntry(n)
            y == body[n].in[1]
<1>1. /\ affine' = [m \in DOMAIN affine \union X \union {n} |-> IF m = n THEN e ELSE IF m \in X THEN c ELSE affine[m]]
      /\ work' = {n}
      /\ guessed' = guessed \union (IF ~IndexKnown(n) THEN X \union {n} ELSE IF X \subseteq guessed THEN {n} ELSE {})
      /\ Slices # {} /\ loop' = loop
  BY SliceIs
<1>2. n \in Ops /\ n \notin DOMAIN affine
  BY <1>1, NextSlice
<1>3. /\ X \subseteq 0 .. Len(loop.body) /\ n \notin X
      /\ c \in EntrySet /\ e \in EntrySet
      /\ IndexKnown(n) => c = affine[y.v] /\ X = {y.v} /\ y.v \in DOMAIN affine
      /\ ~IndexKnown(n) => c.scale = 0
      /\ c.scale = 0 => e.scale = 0
  BY <1>1, SliceEntryType
<1>4. n \in 0 .. Len(loop.body)
  BY <1>2, ShapeFacts
<1>. DEFINE k == IndexKnown(n)
            z == y.v
<1>5. /\ k => c = affine[z] /\ X = {z} /\ z \in DOMAIN affine
      /\ ~k => c.scale = 0
      /\ guessed' = guessed \union (IF ~k THEN X \union {n} ELSE IF X \subseteq guessed THEN {n} ELSE {})
  BY <1>1, <1>3
<1>. HIDE DEF n, X, c, e, y, k, z
<1>6. /\ DOMAIN affine' = DOMAIN affine \union X \union {n}
      /\ \A m \in DOMAIN affine' : affine'[m] = IF m = n THEN e ELSE IF m \in X THEN c ELSE affine[m]
  BY <1>1
<1>7. DOMAIN affine' \subseteq 0 .. Len(loop.body)
  BY <1>3, <1>4, <1>6 DEF Entries
<1>8. \A m \in DOMAIN affine' : affine'[m] \in EntrySet
  BY <1>3, <1>6 DEF Entries
<1>9. work' \subseteq DOMAIN affine' /\ guessed' \subseteq DOMAIN affine'
  BY <1>1, <1>5, <1>6 DEF Entries
<1>10. \A m \in guessed' : affine'[m].scale = 0
  <2>. SUFFICES ASSUME NEW m \in guessed' PROVE affine'[m].scale = 0
    OBVIOUS
  <2>0. \A u \in guessed : u \in DOMAIN affine /\ affine[u].scale = 0
    BY DEF Entries
  <2>1. CASE m = n
    <3>1. affine'[m] = e /\ m \notin guessed
      BY <1>2, <1>6, <1>9, <2>0, <2>1
    <3>2. CASE ~k
      BY <1>3, <1>5, <3>1, <3>2
    <3>3. CASE k
      <4>1. X \subseteq guessed
        BY <1>5, <3>1, <3>3
      <4>2. z \in guessed /\ c = affine[z]
        BY <1>5, <3>3, <4>1
      <4>. QED BY <1>3, <2>0, <3>1, <4>2
    <3>. QED BY <3>2, <3>3
  <2>2. CASE m # n /\ m \in X
    <3>1. affine'[m] = c
      BY <1>6, <1>9, <2>2
    <3>2. CASE ~k
      BY <1>5, <3>1, <3>2
    <3>3. CASE k
      <4>1. m \in guessed
        BY <1>5, <2>2, <3>3
      <4>2. m = z /\ c = affine[z]
        BY <1>5, <2>2, <3>3
      <4>. QED BY <2>0, <3>1, <4>1, <4>2
    <3>. QED BY <3>2, <3>3
  <2>3. CASE m # n /\ m \notin X
    <3>1. affine'[m] = affine[m] /\ m \in guessed
      BY <1>5, <1>6, <1>9, <2>3
    <3>. QED BY <2>0, <3>1
  <2>. QED BY <2>1, <2>2, <2>3
<1>. QED BY <1>1, <1>7, <1>8, <1>9, <1>10 DEF Entries

\* A step of one is a number of the width of the induction variable.
LEMMA OneFits == 1 \in Signed(Width)
<1>. DEFINE H == 2^(Width - 1)
<1>1. H \in Nat \ {0} /\ Signed(Width) = -H .. H - 1 /\ Width \in Nat \ {0, 1} /\ Doubling(Width)
  BY WidthFacts, WidthAssumption, TwoHalves DEF Signed
<1>2. 1 \in 0 .. Width - 1 /\ Width - 1 \in Nat
  BY <1>1
<1>3. Doubling(Width - 1)
  BY <1>1 DEF Doubling
<1>4. 2^1 <= H
  BY <1>2, <1>3, PowersGrow
<1>5. 2^1 = 2
  <2>1. 2^0 = 1 /\ 2^1 = 2 * 2^(1 - 1)
    BY <1>1, WidthFacts DEF Doubling
  <2>2. 1 - 1 = 0
    OBVIOUS
  <2>. QED BY <2>1, <2>2
<1>. HIDE DEF H
<1>. QED BY <1>1, <1>4, <1>5

\* The start of the analysis.
LEMMA StartEntries ==
  ASSUME Len(loop.body) \in Nat, affine = StartInfo, work = {0}, guessed = {}
  PROVE  Entries
<1>1. 1 \in Signed(Width)
  BY OneFits
<1>2. 0 \in Signed(Width)
  BY EndsType
<1>3. DOMAIN affine = {0} /\ affine[0] = [w |-> Width, scale |-> 1, offset |-> 0]
  BY DEF StartInfo
<1>4. affine[0] \in EntrySet
  BY <1>1, <1>2, <1>3 DEF EntrySet
<1>. QED BY <1>3, <1>4 DEF Entries

\* The ranges of operands are ranges.
LEMMA BoundsType ==
  ASSUME Known(bounds), Known(marks), NEW x \in OperandSet, HasBounds(x)
  PROVE  BoundsOf(x) \in RangeSet
<1>1. CASE x.k = "cst"
  <2>1. Wrap(x.v, Width) \in Signed(Width)
    BY EndsType DEF OperandSet
  <2>2. BoundsOf(x) = Ends(Wrap(x.v, Width), Wrap(x.v, Width))
    BY <1>1 DEF BoundsOf, Ends
  <2>. QED BY <2>1, <2>2, EndsRange
<1>2. CASE x.k # "cst"
  <2>1. x.v \in DOMAIN bounds \union DOMAIN marks
    BY <1>2 DEF HasBounds
  <2>2. BoundsOf(x) = IF x.v \in DOMAIN bounds THEN bounds[x.v] ELSE marks[x.v]
    BY <1>2 DEF BoundsOf
  <2>. QED BY <2>1, <2>2 DEF Known
<1>. QED BY <1>1, <1>2

\* Operations that computeBounds bounds.
LEMMA BoundedCases ==
  ASSUME Shape, NEW n \in Ops, Bounded(body[n])
  PROVE  /\ \A j \in DOMAIN body[n].in : HasBounds(body[n].in[j])
         /\ \/ body[n].op \in OneNames /\ DOMAIN body[n].in = 1 .. 1 /\ Len(body[n].in) = 1
            \/ body[n].op \in TwoNames \union {"rem"} /\ DOMAIN body[n].in = 1 .. 2 /\ Len(body[n].in) = 2
         /\ Divides(body[n], BoundsOf(body[n].in[2]))
         /\ body[n].op = "convert" => body[n].w <= Width
<1>. DEFINE o == body[n]
            b == BoundsOf(o.in[2])
            a == BoundsOf(o.in[1])
            s == o.in
<1>1. WellFormed(body, n)
  BY ShapeFacts
<1>2. /\ o.op \in UnaryNames => DOMAIN s = 1 .. 1
      /\ o.op \in BinaryNames => DOMAIN s = 1 .. 2
  BY <1>1, ArityOf
<1>3. /\ \A j \in DOMAIN s : HasBounds(s[j])
      /\ \/ o.op \in {"neg", "abs", "add", "sub", "mul", "min", "max"}
         \/ /\ o.op = "convert"
            /\ o.w <= Width
            /\ a.min >= -(2^(o.w - 1)) /\ a.max < 2^(o.w - 1)
         \/ o.op = "div" /\ (b.min > 0 \/ b.max < 0)
         \/ o.op = "rem" /\ b.min = b.max /\ b.min > 0
  BY Zenon DEF Bounded
<1>4. s \in Seq(OperandSet)
  BY ONLY <1>1, Zenon DEF WellFormed
<1>5. DOMAIN s = 1 .. Len(s) /\ Len(s) \in Nat
  <2>. HIDE DEF s
  <2>. QED BY <1>4, LenProperties
<1>. DEFINE k == Len(s)
<1>6. (DOMAIN s = 1 .. 1 => k = 1) /\ (DOMAIN s = 1 .. 2 => k = 2)
  <2>1. k \in Nat /\ DOMAIN s = 1 .. k
    BY <1>5
  <2>. HIDE DEF k
  <2>2. ASSUME DOMAIN s = 1 .. 1 PROVE k = 1
    <3>0. 1 .. k = 1 .. 1
      BY <2>1, <2>2
    <3>1. 1 \in 1 .. k /\ ~(2 \in 1 .. k)
      BY <3>0
    <3>. QED BY <2>1, <3>1
  <2>3. ASSUME DOMAIN s = 1 .. 2 PROVE k = 2
    <3>0. 1 .. k = 1 .. 2
      BY <2>1, <2>3
    <3>1. 2 \in 1 .. k /\ ~(3 \in 1 .. k)
      BY <3>0
    <3>. QED BY <2>1, <3>1
  <2>. QED BY <2>2, <2>3
<1>7. Divides(o, b)
  <2>1. o.op = "div" => b.min > 0 \/ b.max < 0
    BY ONLY <1>3
  <2>2. o.op = "rem" => b.min = b.max /\ b.min > 0
    BY ONLY <1>3
  <2>. QED BY ONLY <2>1, <2>2, Zenon DEF Divides
<1>8. o.op \in OneNames \/ o.op \in TwoNames \union {"rem"}
  BY ONLY <1>3 DEF OneNames, TwoNames
<1>9. o.op = "convert" => o.w <= Width
  BY ONLY <1>3
<1>10. o.op \in OneNames => DOMAIN s = 1 .. 1
  BY <1>2 DEF OneNames, UnaryNames
<1>11. o.op \in TwoNames \union {"rem"} => DOMAIN s = 1 .. 2
  BY <1>2 DEF BinaryNames, TwoNames
<1>12. \A j \in DOMAIN s : HasBounds(s[j])
  BY ONLY <1>3
<1>13. \/ o.op \in OneNames /\ DOMAIN s = 1 .. 1 /\ k = 1
       \/ o.op \in TwoNames \union {"rem"} /\ DOMAIN s = 1 .. 2 /\ k = 2
  BY ONLY <1>6, <1>8, <1>10, <1>11, Zenon
<1>. QED BY <1>7, <1>9, <1>12, <1>13

\* The range of a bounded operation is one.
LEMMA RangeType ==
  ASSUME Shape, Known(bounds), Known(marks), NEW n \in Ops, Bounded(body[n])
  PROVE  RangeOf(body[n], TRUE) \in RangeSet
<1>. DEFINE o == body[n]
<1>1. /\ \A j \in DOMAIN o.in : HasBounds(o.in[j])
      /\ \/ o.op \in OneNames /\ DOMAIN o.in = 1 .. 1 /\ Len(o.in) = 1
         \/ o.op \in TwoNames \union {"rem"} /\ DOMAIN o.in = 1 .. 2 /\ Len(o.in) = 2
      /\ Divides(o, BoundsOf(o.in[2]))
  BY BoundedCases
<1>2. \A j \in DOMAIN o.in : o.in[j] \in OperandSet
  BY OperandOf
<1>. HIDE DEF o
<1>3. CASE o.op \in OneNames /\ DOMAIN o.in = 1 .. 1 /\ Len(o.in) = 1
  <2>1. RangeOf(o, TRUE) = RangeOfOne(o, BoundsOf(o.in[1]), TRUE)
    BY <1>3 DEF RangeOf
  <2>2. 1 \in DOMAIN o.in
    BY <1>3
  <2>3. BoundsOf(o.in[1]) \in RangeSet
    BY <1>1, <1>2, <2>2, BoundsType
  <2>4. RangeOfOne(o, BoundsOf(o.in[1]), TRUE) \in RangeSet
    BY <1>3, <2>3, RangeOfOneType
  <2>. QED BY <2>1, <2>4 DEF o
<1>4. CASE o.op \in TwoNames \union {"rem"} /\ DOMAIN o.in = 1 .. 2 /\ Len(o.in) = 2
  <2>1. RangeOf(o, TRUE) = RangeOfTwo(o, BoundsOf(o.in[1]), BoundsOf(o.in[2]), TRUE)
    BY <1>4 DEF RangeOf
  <2>2. 1 \in DOMAIN o.in /\ 2 \in DOMAIN o.in
    BY <1>4
  <2>3. BoundsOf(o.in[1]) \in RangeSet
    BY <1>1, <1>2, <2>2, BoundsType
  <2>4. BoundsOf(o.in[2]) \in RangeSet
    BY <1>1, <1>2, <2>2, BoundsType
  <2>5. RangeOfTwo(o, BoundsOf(o.in[1]), BoundsOf(o.in[2]), TRUE) \in RangeSet
    BY <1>1, <1>4, <2>3, <2>4, RangeOfTwoType
  <2>. QED BY <2>1, <2>5 DEF o
<1>. QED BY <1>1, <1>3, <1>4

\* An operation that uses a value the ranges can hold is no wider, if its
\* operands are as wide as it is.
LEMMA UserWidth ==
  ASSUME Shape, NEW x, ValueWidth(loop, x) <= Width, NEW n \in Users(x)
  PROVE  n \in DOMAIN loop.body /\ Narrow(n) /\ body[n].w = loop.body[n].w /\ body[n].op = loop.body[n].op
         /\ ValueWidth(loop, n) = loop.body[n].w
<1>1. n \in Ops /\ \E j \in DOMAIN body[n].in : body[n].in[j] = Val(x)
  BY UserOf
<1>2. n \in DOMAIN loop.body /\ SameOperation(body[n], loop.body[n]) /\ ValuesTyped(loop, body[n]) /\ n # 0
  BY <1>1, ShapeFacts
<1>3. body[n].w = loop.body[n].w /\ body[n].op = loop.body[n].op
  BY <1>2 DEF SameOperation
<1>4. Narrow(n)
  <2>. SUFFICES ASSUME HasTypedOperands(loop.body[n]) PROVE loop.body[n].w <= Width
    BY DEF Narrow
  <2>1. HasTypedOperands(body[n])
    BY <1>3 DEF HasTypedOperands
  <2>2. PICK j \in DOMAIN body[n].in : body[n].in[j] = Val(x)
    BY <1>1
  <2>3. body[n].in[j].k = "val" /\ body[n].in[j].v = x
    BY <2>2 DEF Val
  <2>4. ValueWidth(loop, x) = body[n].w
    BY <1>2, <2>1, <2>3 DEF ValuesTyped
  <2>. QED BY <1>3, <2>4
<1>. QED BY <1>2, <1>3, <1>4 DEF ValueWidth

\* The ranges of the induction variable are ranges.
LEMMA InductionRange ==
  ASSUME Shape, Rewritable, Step \in Int
  PROVE  InductionBounds \in RangeSet
<1>1. loop.start \in Signed(Width) /\ loop.limit \in Int
  BY ShapeFacts, EndsType
<1>. DEFINE p == loop.limit - 1
            q == loop.limit + 1
<1>2. p \in Int /\ q \in Int
  BY <1>1
<1>3. InductionBounds = IF Step > 0 THEN Ends(loop.start, Wrap(p, Width)) ELSE Ends(Wrap(q, Width), loop.start)
  BY DEF InductionBounds, Ends
<1>. HIDE DEF p, q
<1>4. Wrap(p, Width) \in Signed(Width) /\ Wrap(q, Width) \in Signed(Width)
  BY <1>2, EndsType
<1>5. Ends(loop.start, Wrap(p, Width)) \in RangeSet
  BY <1>1, <1>4, EndsRange
<1>6. Ends(Wrap(q, Width), loop.start) \in RangeSet
  BY <1>1, <1>4, EndsRange
<1>. QED BY <1>3, <1>5, <1>6

\* The range of a value whose range has been found.
VisitedRange(n) == RangeOf(body[n], TRUE)

\* This is what Visit does.
LEMMA VisitIs ==
  ASSUME Visit
  PROVE  /\ \E n \in Ops \ visited, x \in DOMAIN bounds :
              /\ n \in Users(x)
              /\ visited' = visited \union {n}
              /\ \/ UNCHANGED <<bounds, exact>>
                 \/ /\ Bounded(body[n])
                    /\ bounds' = [v \in DOMAIN bounds \union {n} |-> IF v = n THEN VisitedRange(n) ELSE bounds[v]]
                    /\ exact' = (exact /\ VisitedRange(n) = RangeOf(body[n], FALSE))
         /\ phase = "bounds"
         /\ UNCHANGED <<loop, body, alias, phase, analysis, marks, todo, changed, run>>
<1>1. PICK n \in Ops \ visited :
        /\ \E x \in DOMAIN bounds : n \in Users(x)
        /\ visited' = visited \union {n}
        /\ IF Bounded(body[n])
           THEN /\ bounds' = [v \in DOMAIN bounds \union {n} |-> IF v = n THEN VisitedRange(n) ELSE bounds[v]]
                /\ exact' = (exact /\ VisitedRange(n) = RangeOf(body[n], FALSE))
           ELSE UNCHANGED <<bounds, exact>>
  BY Zenon DEF Visit, VisitedRange
<1>2. phase = "bounds" /\ UNCHANGED <<loop, body, alias, phase, analysis, marks, todo, changed, run>>
  BY Zenon DEF Visit
<1>3. PICK x \in DOMAIN bounds : n \in Users(x)
  BY <1>1
<1>4. \/ UNCHANGED <<bounds, exact>>
      \/ /\ Bounded(body[n])
         /\ bounds' = [v \in DOMAIN bounds \union {n} |-> IF v = n THEN VisitedRange(n) ELSE bounds[v]]
         /\ exact' = (exact /\ VisitedRange(n) = RangeOf(body[n], FALSE))
  BY <1>1, Zenon
<1>. QED BY <1>1, <1>2, <1>3, <1>4, Zenon

\* Visiting an operation keeps ranges ranges.
LEMMA VisitRanges ==
  ASSUME Types, Visit
  PROVE  RangesKnown'
<1>1. PICK n \in Ops \ visited, x \in DOMAIN bounds :
        /\ n \in Users(x)
        /\ visited' = visited \union {n}
        /\ \/ UNCHANGED <<bounds, exact>>
           \/ /\ Bounded(body[n])
              /\ bounds' = [v \in DOMAIN bounds \union {n} |-> IF v = n THEN VisitedRange(n) ELSE bounds[v]]
              /\ exact' = (exact /\ VisitedRange(n) = RangeOf(body[n], FALSE))
  BY VisitIs, Zenon
<1>2. phase = "bounds" /\ phase' = "bounds" /\ loop' = loop /\ marks' = marks /\ todo' = todo
  BY VisitIs, Zenon
<1>3. Shape /\ RangesKnown /\ Known(bounds) /\ Known(marks)
  BY DEF Types, RangesKnown
<1>4. ValueWidth(loop, x) <= Width
  BY <1>3 DEF Known
<1>5. n \in DOMAIN loop.body /\ Narrow(n) /\ body[n].w = loop.body[n].w /\ body[n].op = loop.body[n].op
      /\ ValueWidth(loop, n) = loop.body[n].w
  BY <1>1, <1>3, <1>4, UserWidth
<1>6. Narrow(n)' /\ \A m \in visited : Narrow(m)'
  BY <1>2, <1>3, <1>5 DEF Narrow, RangesKnown
<1>7. visited' \subseteq DOMAIN loop.body /\ \A m \in visited' : Narrow(m)'
  BY <1>1, <1>3, <1>5, <1>6 DEF RangesKnown
<1>8. Known(bounds)' /\ DOMAIN bounds' \subseteq DOMAIN bounds \union {n}
  <2>1. CASE bounds' = bounds
    <3>1. Known(bounds)'
      BY <1>2, <1>3, <2>1 DEF Known
    <3>. QED BY <2>1, <3>1
  <2>2. CASE Bounded(body[n]) /\ bounds' = [v \in DOMAIN bounds \union {n} |->
                                             IF v = n THEN VisitedRange(n) ELSE bounds[v]]
    <3>1. VisitedRange(n) \in RangeSet
      BY <1>1, <1>3, <2>2, RangeType DEF VisitedRange
    <3>2. ValueWidth(loop, n) <= Width
      <4>1. CASE body[n].op = "convert"
        BY <1>1, <1>3, <1>5, <2>2, <4>1, BoundedCases
      <4>2. CASE body[n].op # "convert"
        <5>1. body[n].op \in OneNames \/ body[n].op \in TwoNames \union {"rem"}
          BY <1>1, <1>3, <2>2, BoundedCases
        <5>2. HasTypedOperands(loop.body[n])
          BY <1>5, <4>2, <5>1 DEF OneNames, TwoNames, HasTypedOperands
        <5>. QED BY <1>5, <5>2 DEF Narrow
      <4>. QED BY <4>1, <4>2
    <3>3. n \in 0 .. Len(loop.body)
      BY <1>3, <1>5, ShapeFacts
    <3>. DEFINE r == VisitedRange(n)
    <3>4. /\ DOMAIN bounds' = DOMAIN bounds \union {n}
          /\ \A v \in DOMAIN bounds' : bounds'[v] = IF v = n THEN r ELSE bounds[v]
      BY <2>2
    <3>. HIDE DEF r
    <3>5. \A v \in DOMAIN bounds' : bounds'[v] \in RangeSet /\ ValueWidth(loop, v) <= Width
      BY <1>3, <3>1, <3>2, <3>4 DEF Known, r
    <3>6. Known(bounds)'
      BY <1>2, <1>3, <3>3, <3>4, <3>5 DEF Known
    <3>. QED BY <3>4, <3>6
  <2>3. bounds' = bounds \/ (Bounded(body[n]) /\ bounds' = [v \in DOMAIN bounds \union {n} |->
                                                          IF v = n THEN VisitedRange(n) ELSE bounds[v]])
    BY <1>1, Zenon
  <2>. QED BY <2>1, <2>2, <2>3
<1>9. Known(marks)'
  BY <1>2, <1>3 DEF Known
<1>10. todo' = {} /\ (phase' = "bounds" => DOMAIN bounds' \subseteq {0} \union visited')
  BY <1>1, <1>2, <1>3, <1>8 DEF RangesKnown
<1>11. visited' \subseteq DOMAIN loop'.body
  BY <1>2, <1>7
<1>. QED BY <1>7, <1>8, <1>9, <1>10, <1>11 DEF RangesKnown

\* So does writing the attributes.
LEMMA AnnotateRanges ==
  ASSUME Types, Annotate
  PROVE  RangesKnown'
<1>. DEFINE found == DOMAIN bounds \ {0}
            seen == found \union UNION {Users(x) : x \in DOMAIN bounds}
<1>1. /\ phase = "bounds" /\ phase' = "fold" /\ loop' = loop /\ bounds' = bounds /\ visited' = visited
      /\ \A x \in DOMAIN bounds : Users(x) \subseteq visited
      /\ marks' = [n \in DOMAIN marks \union found |-> IF n \in found THEN bounds[n] ELSE marks[n]]
      /\ todo' = {n \in seen : body[n].op \in Rewritten}
  BY Zenon DEF Annotate
<1>2. Shape /\ RangesKnown /\ Known(bounds) /\ Known(marks)
  BY DEF Types, RangesKnown
<1>3. found \subseteq visited
  BY <1>1, <1>2 DEF RangesKnown
<1>4. seen \subseteq visited
  BY <1>1, <1>3
<1>. HIDE DEF found, seen
<1>5. Known(bounds)'
  BY <1>1, <1>2 DEF Known
<1>6. Known(marks)'
  <2>1. /\ DOMAIN marks' = DOMAIN marks \union found
        /\ \A n \in DOMAIN marks' : marks'[n] = IF n \in found THEN bounds[n] ELSE marks[n]
    BY <1>1
  <2>2. found \subseteq DOMAIN bounds
    BY DEF found
  <2>. QED BY <1>1, <1>2, <2>1, <2>2 DEF Known
<1>7. visited' \subseteq DOMAIN loop'.body /\ \A n \in visited' : Narrow(n)'
  BY <1>1, <1>2 DEF RangesKnown, Narrow
<1>8. todo' \subseteq visited' /\ \A n \in todo' : loop'.body[n].op \in Rewritten
  <2>1. todo' \subseteq visited
    BY <1>1, <1>4
  <2>2. \A n \in visited : body[n].op = loop.body[n].op
    <3>. SUFFICES ASSUME NEW n \in visited PROVE body[n].op = loop.body[n].op
      OBVIOUS
    <3>1. n \in Ops
      BY <1>2, ShapeFacts DEF RangesKnown
    <3>2. SameOperation(body[n], loop.body[n])
      BY <1>2, <3>1, ShapeFacts
    <3>. QED BY <3>2 DEF SameOperation
  <2>. QED BY <1>1, <2>1, <2>2
<1>. QED BY <1>1, <1>5, <1>6, <1>7, <1>8 DEF RangesKnown

\* So does rewriting an operation.
LEMMA RewriteRanges ==
  ASSUME Types, Rewrite
  PROVE  RangesKnown'
<1>1. PICK n \in todo :
         /\ todo' = todo \ {n} /\ phase = "fold"
         /\ UNCHANGED <<loop, phase, analysis, bounds, visited, marks, run>>
  BY RewriteCases, Zenon
<1>2. phase = "fold" /\ phase' = phase /\ loop' = loop /\ bounds' = bounds /\ marks' = marks /\ visited' = visited
      /\ todo' \subseteq todo
  BY <1>1
<1>3. RangesKnown
  BY DEF Types
<1>4. Known(bounds)' /\ Known(marks)'
  BY <1>2, <1>3 DEF Known, RangesKnown
<1>5. visited' \subseteq DOMAIN loop'.body /\ \A m \in visited' : Narrow(m)'
  BY <1>2, <1>3 DEF RangesKnown, Narrow
<1>6. todo' \subseteq visited' /\ \A m \in todo' : loop'.body[m].op \in Rewritten
  BY <1>2, <1>3 DEF RangesKnown
<1>. QED BY <1>2, <1>4, <1>5, <1>6 DEF RangesKnown

\* So does the end of the affine analysis.
LEMMA AnalysedRanges ==
  ASSUME Types, Analysed
  PROVE  RangesKnown'
<1>1. /\ phase = "affine" /\ visited' = {} /\ loop' = loop /\ marks' = marks /\ todo' = todo
      /\ \/ Rewritable /\ phase' = "bounds" /\ bounds' = [v \in {0} |-> InductionBounds]
         \/ phase' = "run" /\ bounds' = bounds
  BY DEF Analysed
<1>2. Shape /\ Entries /\ RangesKnown /\ Known(bounds) /\ Known(marks)
  BY DEF Types, RangesKnown
<1>3. todo' = {}
  BY <1>1, <1>2 DEF RangesKnown
<1>4. Known(marks)'
  BY <1>1, <1>2 DEF Known
<1>5. Known(bounds)' /\ (phase' = "bounds" => DOMAIN bounds' \subseteq {0})
  <2>1. CASE phase' = "run" /\ bounds' = bounds
    BY <1>1, <1>2, <2>1 DEF Known
  <2>2. CASE Rewritable /\ phase' = "bounds" /\ bounds' = [v \in {0} |-> InductionBounds]
    <3>1. Next_iv.v \in DOMAIN affine
      BY <2>2 DEF Rewritable, IsConstant, HasStep
    <3>2. Step \in Int
      BY <1>2, <3>1, EndsType DEF Entries, EntrySet, Step
    <3>3. InductionBounds \in RangeSet
      BY <1>2, <2>2, <3>2, InductionRange
    <3>4. DOMAIN bounds' = {0} /\ bounds'[0] = InductionBounds
      BY <2>2
    <3>5. ValueWidth(loop, 0) = Width /\ Width \in Nat
      BY WidthAssumption DEF ValueWidth
    <3>6. \A x \in DOMAIN bounds' : bounds'[x] \in RangeSet /\ ValueWidth(loop', x) <= Width
      BY <1>1, <3>3, <3>4, <3>5
    <3>7. DOMAIN bounds' \subseteq 0 .. Len(loop'.body)
      BY <1>1, <1>2, <3>4, ShapeFacts
    <3>. QED BY <3>4, <3>6, <3>7 DEF Known
  <2>. QED BY <1>1, <2>1, <2>2
<1>. QED BY <1>1, <1>3, <1>4, <1>5 DEF RangesKnown

\* Every action keeps ranges ranges.
LEMMA RangesStep ==
  ASSUME Types, [Next]_vars
  PROVE  RangesKnown'
<1>1. CASE Propagate \/ SliceOfIota \/ EndRound \/ Iterate \/ UNCHANGED vars
  <2>1. RangesKnown
    BY DEF Types
  <2>2. /\ UNCHANGED <<loop, bounds, visited, marks, todo>>
        /\ phase' = phase \/ (phase = "fold" /\ todo = {} /\ phase' \in {"affine", "run"})
    <3>1. CASE Propagate
      BY <3>1, Zenon DEF Propagate, ranges
    <3>2. CASE SliceOfIota
      BY <3>2, Zenon DEF SliceOfIota, ranges
    <3>3. CASE EndRound
      BY <3>3 DEF EndRound, ranges
    <3>4. CASE Iterate
      BY <3>4, Zenon DEF Iterate, ranges
    <3>5. CASE UNCHANGED vars
      BY <3>5 DEF vars, ranges
    <3>. QED BY <1>1, <3>1, <3>2, <3>3, <3>4, <3>5
  <2>3. Known(bounds)' /\ Known(marks)'
    BY <2>1, <2>2 DEF Known, RangesKnown
  <2>4. visited' \subseteq DOMAIN loop'.body /\ \A m \in visited' : Narrow(m)'
    BY <2>1, <2>2 DEF RangesKnown, Narrow
  <2>5. todo' \subseteq visited' /\ \A m \in todo' : loop'.body[m].op \in Rewritten
    BY <2>1, <2>2 DEF RangesKnown
  <2>6. (phase' = "bounds" => DOMAIN bounds' \subseteq {0} \union visited') /\ (phase' # "fold" => todo' = {})
    BY <2>1, <2>2 DEF RangesKnown
  <2>. QED BY <2>3, <2>4, <2>5, <2>6 DEF RangesKnown
<1>. QED BY <1>1, VisitRanges, AnnotateRanges, RewriteRanges, AnalysedRanges DEF Next, Analyse

\* Every action keeps entries entries.
LEMMA EntriesStep ==
  ASSUME Types, [Next]_vars
  PROVE  Entries'
<1>0. Shape /\ Entries
  BY DEF Types
<1>1. CASE UNCHANGED <<loop, affine, work, guessed>>
  BY <1>0, <1>1 DEF Entries
<1>2. CASE Propagate
  BY <1>0, <1>2, PropagateEntries
<1>3. CASE SliceOfIota
  BY <1>0, <1>3, SliceEntries
<1>4. CASE EndRound
  <2>1. loop' = loop /\ (UNCHANGED analysis \/ (affine' = StartInfo /\ work' = {0} /\ guessed' = {}))
    BY <1>4 DEF EndRound
  <2>2. CASE UNCHANGED analysis
    BY <1>1, <2>1, <2>2 DEF analysis
  <2>3. CASE affine' = StartInfo /\ work' = {0} /\ guessed' = {}
    <3>1. Len(loop'.body) \in Nat
      BY <1>0, <2>1, ShapeFacts
    <3>2. 1 \in Signed(Width)
      BY OneFits
    <3>3. 0 \in Signed(Width)
      BY EndsType
    <3>4. DOMAIN affine' = {0} /\ affine'[0] = [w |-> Width, scale |-> 1, offset |-> 0]
      BY <2>3 DEF StartInfo
    <3>5. affine'[0] \in EntrySet
      BY <3>2, <3>3, <3>4 DEF EntrySet
    <3>. QED BY <2>3, <3>1, <3>4, <3>5 DEF Entries
  <2>. QED BY <2>1, <2>2, <2>3
<1>5. CASE Analysed \/ Visit \/ Annotate \/ Rewrite \/ Iterate \/ UNCHANGED vars
  <2>1. UNCHANGED <<loop, affine, work, guessed>>
    <3>1. CASE Analysed
      BY <3>1, Zenon DEF Analysed, analysis
    <3>2. CASE Visit
      BY <3>2, Zenon DEF Visit, analysis
    <3>3. CASE Annotate
      BY <3>3, Zenon DEF Annotate, analysis
    <3>4. CASE Rewrite
      BY <3>4, Zenon DEF Rewrite, analysis
    <3>5. CASE Iterate
      BY <3>5, Zenon DEF Iterate, analysis
    <3>6. CASE UNCHANGED vars
      BY <3>6 DEF vars, analysis
    <3>. QED BY <1>5, <3>1, <3>2, <3>3, <3>4, <3>5, <3>6
  <2>. QED BY <1>1, <2>1
<1>. QED BY <1>2, <1>3, <1>4, <1>5 DEF Next, Analyse

\* What an operation of unknown result may yield.
LEMMA LoadsType ==
  ASSUME NEW ops, NEW d \in LoadsOf(ops)
  PROVE  d \in Int
<1>. DEFINE some == \E n \in DOMAIN ops : ops[n].op = "load"
<1>1. LoadsOf(ops) = DataValues \/ LoadsOf(ops) = {0}
  <2>1. CASE some
    BY ONLY <2>1, Zenon DEF LoadsOf
  <2>2. CASE ~some
    BY ONLY <2>2, Zenon DEF LoadsOf
  <2>. QED BY <2>1, <2>2
<1>2. d \in DataValues \/ d \in {0}
  BY ONLY d \in LoadsOf(ops), <1>1, Zenon
<1>3. CASE d \in DataValues
  BY <1>3, DataAssumption
<1>4. CASE d \in {0}
  BY ONLY <1>4
<1>. QED BY ONLY <1>2, <1>3, <1>4, Zenon

\* Every action keeps the induction variable a number of its width.
LEMMA RunStep ==
  ASSUME Types, [Next]_vars
  PROVE  RunTypes'
<1>0. Shape /\ RunTypes
  BY DEF Types
<1>1. CASE Iterate
  <2>1. phase = "run" /\ phase' = phase /\ iters < MaxIters /\ iters' = iters + 1 /\ iv' = Given[loop.inc]
    BY <1>1 DEF Iterate, Running
  <2>2. data' \in Int
    <3>1. data' \in LoadsOf(loop.body)
      BY <1>1, Zenon DEF Iterate
    <3>. QED BY <3>1, LoadsType
  <2>3. iters' \in 0 .. MaxIters
    BY <1>0, <2>1, MaxItersAssumption DEF RunTypes
  <2>4. iv' \in Signed(Width)
    <3>1. WellFormedLoop(loop) /\ iv \in Int /\ data \in Int
      BY <1>0, ShapeFacts, EndsType DEF RunTypes
    <3>2. loop.inc \in DOMAIN loop.body /\ loop.body[loop.inc].w = Width
      BY <3>1 DEF WellFormedLoop
    <3>3. Iteration(loop, iv, data)[loop.inc] \in Signed(loop.body[loop.inc].w)
      BY <3>1, <3>2, IterationValues
    <3>. QED BY <2>1, <3>2, <3>3 DEF Iteration, Given
  <2>. QED BY <2>1, <2>2, <2>3, <2>4 DEF RunTypes
<1>2. CASE ~Iterate
  <2>1. UNCHANGED <<loop, iv, iters, data>> /\ (phase = "run" => phase' = "run")
    <3>1. CASE Propagate
      BY <3>1, Zenon DEF Propagate, run
    <3>2. CASE SliceOfIota
      BY <3>2, Zenon DEF SliceOfIota, run
    <3>3. CASE Analysed
      BY <3>3 DEF Analysed, run
    <3>4. CASE Visit
      BY <3>4, Zenon DEF Visit, run
    <3>5. CASE Annotate
      <4>1. phase = "bounds" /\ UNCHANGED run /\ loop' = loop
        BY <3>5, Zenon DEF Annotate
      <4>. QED BY <4>1 DEF run
    <3>6. CASE Rewrite
      <4>1. phase = "fold" /\ UNCHANGED run /\ loop' = loop
        BY <3>6, Zenon DEF Rewrite
      <4>. QED BY <4>1 DEF run
    <3>7. CASE EndRound
      <4>1. phase = "fold" /\ UNCHANGED run /\ loop' = loop
        BY <3>7, Zenon DEF EndRound
      <4>. QED BY <4>1 DEF run
    <3>8. CASE UNCHANGED vars
      BY <3>8 DEF vars, run
    <3>. QED BY <1>2, <3>1, <3>2, <3>3, <3>4, <3>5, <3>6, <3>7, <3>8 DEF Next, Analyse
  <2>. QED BY <1>0, <2>1 DEF RunTypes
<1>. QED BY <1>1, <1>2

\* Every action keeps the types.
LEMMA TypesStep ==
  ASSUME Types, [Next]_vars
  PROVE  Types'
BY ShapeStep, EntriesStep, RangesStep, RunStep DEF Types

\* A body that has not been rewritten has its shape.
LEMMA SameAtStart ==
  ASSUME NEW l, WellFormedLoop(l)
  PROVE  SameShape(l, l.body)
<1>1. DOMAIN l.body = 1 .. Len(l.body) /\ \A n \in DOMAIN l.body : WellFormed(l.body, n)
  BY DEF WellFormedLoop
<1>2. \A n \in DOMAIN l.body : SameOperation(l.body[n], l.body[n])
  BY DEF SameOperation
<1>3. \A n \in DOMAIN l.body : ValuesTyped(l, l.body[n])
  <2>. SUFFICES ASSUME NEW n \in DOMAIN l.body, HasTypedOperands(l.body[n]),
                       NEW j \in DOMAIN l.body[n].in, l.body[n].in[j].k = "val"
                PROVE  ValueWidth(l, l.body[n].in[j].v) = l.body[n].w
    BY DEF ValuesTyped
  <2>1. WellTypedOperand(l, l.body[n].in[j], l.body[n].w)
    BY DEF WellFormedLoop
  <2>. QED BY <2>1 DEF WellTypedOperand
<1>. QED BY <1>1, <1>2, <1>3 DEF SameShape

\* The variables have their types in the first state.
LEMMA InitTypes ==
  ASSUME Init
  PROVE  Types
<1>1. /\ loop \in Loops /\ body = loop.body /\ alias = [n \in DOMAIN body |-> Val(n)] /\ phase = "affine"
      /\ affine = StartInfo /\ work = {0} /\ guessed = {}
      /\ bounds = <<>> /\ visited = {} /\ marks = <<>> /\ todo = {}
      /\ iv = loop.start /\ iters = 0 /\ data \in LoadsOf(loop.body)
  BY Zenon DEF Init
<1>2. WellFormedLoop(loop)
  BY <1>1, LoopsAssumption
<1>3. Shape
  <2>1. SameShape(loop, body)
    BY <1>1, <1>2, SameAtStart
  <2>2. \A n \in DOMAIN body : Val(n) \in OperandSet
    BY <1>1, <1>2 DEF WellFormedLoop, Val, OperandSet
  <2>3. alias \in [DOMAIN loop.body -> OperandSet]
    BY <1>1, <2>2
  <2>. QED BY <1>1, <2>1, <2>3 DEF Shape
<1>4. Entries
  <2>1. Len(loop.body) \in Nat
    BY <1>3, ShapeFacts
  <2>. QED BY <1>1, <2>1, StartEntries
<1>5. RangesKnown
  <2>1. DOMAIN bounds = {} /\ DOMAIN marks = {}
    BY <1>1
  <2>. QED BY <1>1, <2>1 DEF RangesKnown, Known
<1>6. RunTypes
  <2>1. data \in Int
    BY <1>1, LoadsType
  <2>2. loop.start \in Signed(Width)
    BY <1>3, ShapeFacts
  <2>. QED BY <1>1, <2>1, <2>2, MaxItersAssumption DEF RunTypes
<1>. QED BY <1>3, <1>4, <1>5, <1>6 DEF Types

\* The types are those the runs check.
LEMMA TypesImply ==
  ASSUME Types
  PROVE  TypeOK
<1>. DEFINE k == Len(loop.body)
<1>1. Shape /\ Entries /\ RangesKnown /\ RunTypes /\ Known(bounds)
  BY DEF Types, RangesKnown
<1>2. Ops = 1 .. k /\ k \in Nat
  BY <1>1, ShapeFacts
<1>. HIDE DEF k
<1>3. 0 .. k \subseteq {0} \union Ops
  BY <1>2
<1>4. DOMAIN affine \subseteq {0} \union Ops /\ DOMAIN bounds \subseteq {0} \union Ops
  BY <1>1, <1>3 DEF Entries, Known, k
<1>5. \A x \in DOMAIN affine : affine[x].scale \in Signed(Width) /\ affine[x].offset \in Signed(Width)
  BY <1>1 DEF Entries, EntrySet
<1>6. \A x \in DOMAIN bounds : bounds[x].min \in Signed(Width) /\ bounds[x].max \in Signed(Width)
  BY <1>1 DEF Known, RangeSet
<1>7. visited \subseteq Ops /\ todo \subseteq visited
  <2>1. Ops = DOMAIN loop.body
    BY <1>1, ShapeFacts
  <2>. QED BY <1>1, <2>1 DEF RangesKnown
<1>8. phase \in {"affine", "bounds", "fold", "run"} /\ work \subseteq DOMAIN affine /\ guessed \subseteq DOMAIN affine
      /\ iv \in Signed(Width) /\ iters \in 0 .. MaxIters
  BY <1>1 DEF Shape, Entries, RunTypes
<1>. QED BY <1>4, <1>5, <1>6, <1>7, <1>8 DEF TypeOK, Signed

\* The variables keep to their types: an entry of the affine analysis is cut to
\* the width of the induction variable by updateAffineIndexInfo, a range by
\* computeBounds, and only values of the body have either.
THEOREM TypeCorrect == Spec => []TypeOK
<1>1. Init => Types
  BY InitTypes
<1>2. Types /\ [Next]_vars => Types'
  BY TypesStep
<1>3. Types => TypeOK
  BY TypesImply
<1>. QED BY <1>1, <1>2, <1>3, PTL DEF Spec

-----------------------------------------------------------------------------
(* The analysis and the values of an iteration                             *)

\* The starts of the iterations of a loop that counts up.
Starts(l) == l.start .. l.limit - 1

\* In the clean iterations that start in D the rewritten operations have the
\* operands of the given ones, the aliases have the values they stand for, the
\* values lie within the ranges r, the entries are right.
SameOn(D) == \A i \in D, load \in Int : IsClean(loop, i, load) => SameOperands(loop, body, i, load)
AliasOn(D) ==
  \A i \in D, load \in Int : IsClean(loop, i, load) =>
    \A n \in DOMAIN loop.body : Operand(alias[n], Iteration(loop, i, load), loop.arg) = Iteration(loop, i, load)[n]
InRanges(r, i, load) == \A x \in DOMAIN r : Within(Iteration(loop, i, load)[x], r[x])
WithinOn(r, D) == \A i \in D, load \in Int : IsClean(loop, i, load) => InRanges(r, i, load)
LinearEntry(x, D) == affine[x].w = Width /\ LinearValue(loop, x, affine[x].scale, affine[x].offset, D)
LinearOn(D) == \A x \in DOMAIN affine \ guessed : LinearEntry(x, D)

\* The starts of iterations are numbers of the width of the induction variable.
LEMMA StartsType ==
  ASSUME NEW l, WellFormedLoop(l)
  PROVE  Starts(l) \subseteq Signed(Width) /\ Starts(l) \subseteq Int
<1>1. l.start \in Signed(Width) /\ l.limit \in Signed(Width)
  BY DEF WellFormedLoop
<1>. DEFINE H == 2^(Width - 1)
<1>2. H \in Nat \ {0} /\ Signed(Width) = -H .. H - 1
  BY WidthFacts, TwoHalves DEF Signed
<1>. HIDE DEF H
<1>. QED BY <1>1, <1>2 DEF Starts

\* The operation n has the operands of the given one, in one iteration.
OperandsKept(n, i, load) ==
  Operands(body[n], Iteration(loop, i, load), loop.arg) = Operands(loop.body[n], Iteration(loop, i, load), loop.arg)

\* In a clean iteration an operation that has kept its operands yields, uncut,
\* what the given one does.
LEMMA BodyResult ==
  ASSUME Shape, NEW i \in Int, NEW load \in Int, IsClean(loop, i, load), NEW n \in Ops, OperandsKept(n, i, load)
  PROVE  LET v == Iteration(loop, i, load)
             a == Operands(body[n], v, loop.arg)
         IN  /\ v[n] = Result(body[n], a, load)
             /\ v \in [0 .. Len(loop.body) -> Int]
             /\ body[n].op = "iota" => a[1] \in 0 .. body[n].size - 1
<1>. DEFINE v == Iteration(loop, i, load)
            a == Operands(body[n], v, loop.arg)
            b == Operands(loop.body[n], v, loop.arg)
            o == body[n]
            p == loop.body[n]
<1>1. /\ WellFormedLoop(loop) /\ WellFormed(body, n) /\ SameOperation(o, p) /\ n \in DOMAIN loop.body
  BY ShapeFacts
<1>2. a = b
  BY DEF OperandsKept
<1>3. v[n] = Result(p, b, load) /\ (p.op = "iota" => b[1] \in 0 .. p.size - 1)
  BY <1>1, CleanValues
<1>4. o.op \in UnaryNames \union BinaryNames \union {"clamp", "load"}
  BY <1>1, ArityOf
<1>5. Result(o, b, load) = Result(p, b, load)
  <2>. HIDE DEF o, p, b
  <2>. QED BY <1>1, <1>4, SameResult
<1>6. v \in [0 .. Len(loop.body) -> Int]
  BY <1>1, IterationValues
<1>7. o.op = p.op /\ (o.op = "iota" => o.size = p.size)
  BY <1>1 DEF SameOperation
<1>8. /\ v[n] = Result(o, a, load) /\ v \in [0 .. Len(loop.body) -> Int]
      /\ o.op = "iota" => a[1] \in 0 .. o.size - 1
  <2>. HIDE DEF v, a, b, o, p
  <2>. QED BY <1>2, <1>3, <1>5, <1>6, <1>7
<1>. QED BY <1>8

\* If its operands are as wide as it is, they are numbers of that width.
LEMMA BodyOperand ==
  ASSUME Shape, NEW i \in Signed(Width), NEW load \in Int, SameOperands(loop, body, i, load),
         NEW n \in Ops, HasTypedOperands(body[n]), NEW j \in DOMAIN body[n].in
  PROVE  Operand(body[n].in[j], Iteration(loop, i, load), loop.arg) \in Signed(loop.body[n].w)
<1>. DEFINE v == Iteration(loop, i, load)
<1>1. /\ WellFormedLoop(loop) /\ SameOperation(body[n], loop.body[n]) /\ n \in DOMAIN loop.body
  BY ShapeFacts
<1>2. HasTypedOperands(loop.body[n]) /\ j \in DOMAIN loop.body[n].in
  BY <1>1 DEF SameOperation, HasTypedOperands
<1>3. Operands(body[n], v, loop.arg) = Operands(loop.body[n], v, loop.arg)
  BY <1>1 DEF SameOperands
<1>4. Operands(body[n], v, loop.arg)[j] = Operand(body[n].in[j], v, loop.arg)
  BY OperandAt
<1>5. Operands(loop.body[n], v, loop.arg)[j] = Operand(loop.body[n].in[j], v, loop.arg)
  BY <1>2, OperandAt
<1>6. Operand(loop.body[n].in[j], v, loop.arg) \in Signed(loop.body[n].w)
  BY <1>1, <1>2, OperandFits
<1>. QED BY <1>3, <1>4, <1>5, <1>6

\* The start of the analysis is right.
LEMMA StartLinear ==
  ASSUME NEW l, WellFormedLoop(l), NEW D \in SUBSET Int
  PROVE  LinearValue(l, 0, 1, 0, D)
<1>1. Congruent(1, 1, 2^Width) /\ Congruent(0, 0, 2^Width)
  <2>. DEFINE M == 2^Width
  <2>1. M \in Int
    BY WidthFacts
  <2>. HIDE DEF M
  <2>2. 0 \in Int /\ 1 = 1 + 0 * M /\ 0 = 0 + 0 * M
    BY <2>1
  <2>. QED BY <2>2 DEF Congruent, M
<1>2. LinearWith(l, 0, 1, 0, D)
  <2>. SUFFICES ASSUME NEW i \in D, NEW load \in Int PROVE Iteration(l, i, load)[0] = 1 * i + 0
    BY DEF LinearWith
  <2>1. Iteration(l, i, load)[0] = i
    BY IterationValues
  <2>. QED BY <2>1
<1>. QED BY <1>1, <1>2 DEF LinearValue

\* The entries of the values F are right in the clean iterations that start in D.
LinearIn(F, D) == \A x \in (DOMAIN affine \ guessed) \intersect F : LinearEntry(x, D)

\* The operations F use values of F only, and have kept their operands in the
\* clean iterations that start in D.
KeptIn(F, D) ==
  \A n \in F \intersect Ops :
    /\ \A j \in DOMAIN body[n].in : body[n].in[j].k = "val" => body[n].in[j].v \in F
    /\ \A i \in D, load \in Int : IsClean(loop, i, load) => OperandsKept(n, i, load)

\* Propagating keeps entries right, where the operations have kept their operands.
LEMMA PropagateIn ==
  ASSUME Shape, Entries, NEW D \in SUBSET Int, NEW F, KeptIn(F, D), LinearIn(F, D), Propagate
  PROVE  LinearIn(F, D)'
<1>1. PICK x \in work :
        /\ affine' = [n \in DOMAIN affine \union NewFrom(x) |->
                        IF n \in NewFrom(x) THEN InfoOf(body[n], x, affine[x]) ELSE affine[n]]
        /\ guessed' = IF x \in guessed THEN guessed \union NewFrom(x) ELSE guessed
  BY PropagateIs, Zenon
<1>2. loop' = loop
  BY PropagateIs
<1>. DEFINE N == NewFrom(x)
<1>3. \A n \in N : n \in Users(x) /\ Propagates(body[n], x) /\ n \in Ops /\ n \notin DOMAIN affine
                   /\ \E j \in DOMAIN body[n].in : body[n].in[j] = Val(x)
  BY UserOf DEF NewFrom
<1>4. x \in DOMAIN affine /\ x \in 0 .. Len(loop.body) /\ affine[x] \in EntrySet
  BY DEF Entries
<1>. HIDE DEF N
<1>5. /\ DOMAIN affine' = DOMAIN affine \union N
      /\ \A n \in DOMAIN affine' : affine'[n] = IF n \in N THEN InfoOf(body[n], x, affine[x]) ELSE affine[n]
      /\ guessed' = IF x \in guessed THEN guessed \union N ELSE guessed
  BY <1>1 DEF N
<1>. SUFFICES ASSUME NEW n \in DOMAIN affine', n \notin guessed', n \in F
              PROVE  affine'[n].w = Width /\ LinearValue(loop, n, affine'[n].scale, affine'[n].offset, D)
  BY <1>2 DEF LinearIn, LinearEntry
<1>6. CASE n \notin N
  <2>1. n \in DOMAIN affine \ guessed /\ affine'[n] = affine[n]
    BY <1>5, <1>6
  <2>. QED BY <2>1 DEF LinearIn, LinearEntry
<1>7. CASE n \in N
  <2>. DEFINE cur == affine[x]
  <2>1. x \notin guessed /\ affine'[n] = InfoOf(body[n], x, cur)
    BY <1>5, <1>7
  <2>3. n \in Ops /\ Propagates(body[n], x)
    BY <1>3, <1>7
  <2>4. PICK j \in DOMAIN body[n].in : body[n].in[j] = Val(x)
    BY <1>3, <1>7
  <2>14. x \in F
    <3>1. body[n].in[j].k = "val" /\ body[n].in[j].v = x
      BY <2>4 DEF Val
    <3>. QED BY <2>3, <3>1 DEF KeptIn
  <2>2. cur.w = Width /\ LinearValue(loop, x, cur.scale, cur.offset, D) /\ cur \in EntrySet
    BY <1>4, <2>1, <2>14 DEF LinearIn, LinearEntry
  <2>5. WellFormedLoop(loop) /\ WellFormed(body, n) /\ loop.arg \in Int
    BY <2>3, ShapeFacts
  <2>. HIDE DEF cur
  <2>6. ScalesOperand(body[n], x, cur)
    BY <2>3, <2>4, <2>5, Propagated
  <2>7. PICK c, d \in Int : Scales(body[n], x, cur, c, d)
    BY <2>6, Zenon DEF ScalesOperand
  <2>8. \A i \in D, load \in Int : IsClean(loop, i, load) =>
          Iteration(loop, i, load)[n] = c * Iteration(loop, i, load)[x] + d
    <3>. SUFFICES ASSUME NEW i \in D, NEW load \in Int, IsClean(loop, i, load)
                  PROVE  Iteration(loop, i, load)[n] = c * Iteration(loop, i, load)[x] + d
      OBVIOUS
    <3>. DEFINE v == Iteration(loop, i, load)
    <3>1. OperandsKept(n, i, load)
      BY <2>3 DEF KeptIn
    <3>2. v[n] = Result(body[n], Operands(body[n], v, loop.arg), load) /\ v \in [0 .. Len(loop.body) -> Int]
      BY <2>3, <3>1, BodyResult
    <3>3. v[x] \in Int
      BY <1>4, <3>2
    <3>4. Result(body[n], Operands(body[n], v, loop.arg), load) = c * v[x] + d
      <4>. HIDE DEF v
      <4>. QED BY <2>7, <3>3, Zenon DEF Scales
    <3>. QED BY <3>2, <3>4
  <2>9. cur.scale \in Int /\ cur.offset \in Int /\ cur.scale \in Signed(Width) /\ cur.offset \in Signed(Width)
    BY <2>2, EndsType DEF EntrySet
  <2>10. LinearValue(loop, n, Wrap(c * cur.scale, Width), Wrap(c * cur.offset + d, Width), D)
    BY <1>4, <2>2, <2>5, <2>8, <2>9, LinearTimes
  <2>11. CASE InfoOf(body[n], x, cur) = Update(cur, c, d)
    <3>1. LET new == Update(cur, c, d)
          IN  /\ new.w = cur.w
              /\ new.scale = Wrap(c * cur.scale, cur.w) /\ new.offset = Wrap(c * cur.offset + d, cur.w)
      BY <2>2, UpdateType
    <3>2. /\ affine'[n].w = Width
          /\ affine'[n].scale = Wrap(c * cur.scale, Width)
          /\ affine'[n].offset = Wrap(c * cur.offset + d, Width)
      BY <2>1, <2>2, <2>11, <3>1
    <3>. QED BY <2>10, <3>2
  <2>12. CASE InfoOf(body[n], x, cur) = cur /\ c = 1 /\ d = 0
    <3>1. c * cur.scale = cur.scale /\ c * cur.offset + d = cur.offset
      BY <2>9, <2>12
    <3>2. Wrap(c * cur.scale, Width) = cur.scale /\ Wrap(c * cur.offset + d, Width) = cur.offset
      BY <2>9, <3>1, EndsType
    <3>. QED BY <2>1, <2>2, <2>10, <2>12, <3>2
  <2>13. InfoOf(body[n], x, cur) = Update(cur, c, d) \/ (InfoOf(body[n], x, cur) = cur /\ c = 1 /\ d = 0)
    BY <2>7, Zenon DEF Scales
  <2>. QED BY <2>11, <2>12, <2>13
<1>. QED BY <1>6, <1>7

\* So do slices of iotas.
LEMMA SliceIn ==
  ASSUME Shape, Entries, NEW D \in SUBSET Int, NEW F, KeptIn(F, D), LinearIn(F, D), SliceOfIota
  PROVE  LinearIn(F, D)'
<1>. DEFINE n == Least(Slices)
            X == IndexOf(n)
            c == IndexEntry(n)
            e == SliceEntry(n)
            y == body[n].in[1]
            z == y.v
            k == IndexKnown(n)
<1>1. /\ affine' = [m \in DOMAIN affine \union X \union {n} |-> IF m = n THEN e ELSE IF m \in X THEN c ELSE affine[m]]
      /\ guessed' = guessed \union (IF ~k THEN X \union {n} ELSE IF X \subseteq guessed THEN {n} ELSE {})
      /\ Slices # {} /\ loop' = loop
  BY SliceIs
<1>2. n \in Ops /\ n \notin DOMAIN affine /\ body[n].op = "iota" /\ 1 \in DOMAIN body[n].in
      /\ body[n].first \in Int /\ body[n].stride \in Int /\ body[n].size \in Nat \ {0}
  BY <1>1, NextSlice
<1>3. /\ n \notin X /\ c \in EntrySet
      /\ k => c = affine[z] /\ X = {z} /\ z \in DOMAIN affine
      /\ k => y.k = "val"
  <2>1. k => y.k = "val"
    BY DEF IndexKnown, IndexOf
  <2>. QED BY <1>1, <2>1, SliceEntryType
<1>4. e = [w |-> c.w, scale |-> Wrap(c.scale * body[n].stride, c.w),
           offset |-> Wrap(body[n].stride * c.offset + body[n].first, c.w)]
  BY DEF SliceEntry
<1>5. k /\ n \in F => \A i \in D, load \in Int : IsClean(loop, i, load) =>
             Iteration(loop, i, load)[n] = body[n].stride * Iteration(loop, i, load)[z] + body[n].first
  <2>. SUFFICES ASSUME k, n \in F, NEW i \in D, NEW load \in Int, IsClean(loop, i, load)
                PROVE  Iteration(loop, i, load)[n] = body[n].stride * Iteration(loop, i, load)[z] + body[n].first
    OBVIOUS
  <2>. DEFINE v == Iteration(loop, i, load)
              a == Operands(body[n], v, loop.arg)
              o == body[n]
  <2>1. OperandsKept(n, i, load)
    BY <1>2 DEF KeptIn
  <2>2. v[n] = Result(o, a, load) /\ v \in [0 .. Len(loop.body) -> Int] /\ a[1] \in 0 .. o.size - 1
    BY <1>2, <2>1, BodyResult
  <2>3. a[1] = Operand(y, v, loop.arg)
    BY <1>2, OperandAt
  <2>4. a[1] = v[z]
    BY <1>3, <2>3, OperandRules
  <2>5. ResultRules(o, a, load)
    BY ResultFollows
  <2>6. Result(o, a, load) = o.first + o.stride * Least({Greatest({a[1], 0}), o.size - 1})
    BY <1>2, <2>5 DEF ResultRules
  <2>. DEFINE p == a[1]
              q == o.size - 1
  <2>7. p \in 0 .. q /\ q \in Int
    BY <1>2, <2>2
  <2>8. Least({Greatest({p, 0}), q}) = p
    <3>. HIDE DEF p, q
    <3>1. Greatest({p, 0}) = p
      BY <2>7, GreatestPair
    <3>2. Least({p, q}) = p
      BY <2>7, LeastPair
    <3>. QED BY <3>1, <3>2
  <2>9. v[n] = o.first + o.stride * v[z] /\ v[z] \in Int
    BY <2>2, <2>4, <2>6, <2>7, <2>8
  <2>. HIDE DEF v, a, o
  <2>10. o.first \in Int /\ o.stride \in Int
    BY <1>2 DEF o
  <2>11. o.first + o.stride * v[z] = o.stride * v[z] + o.first
    BY <2>9, <2>10
  <2>. QED BY <2>9, <2>11 DEF v, o
<1>. DEFINE t == body[n].stride
            f == body[n].first
<1>6. k /\ n \in F => \A i \in D, load \in Int : IsClean(loop, i, load) =>
             Iteration(loop, i, load)[n] = t * Iteration(loop, i, load)[z] + f
  BY <1>5
<1>7. /\ t \in Int /\ f \in Int
      /\ e = [w |-> c.w, scale |-> Wrap(c.scale * t, c.w), offset |-> Wrap(t * c.offset + f, c.w)]
  BY <1>2, <1>4
<1>12. k /\ n \in F => z \in F
  <2>. HIDE DEF n, k
  <2>. QED BY <1>2, <1>3 DEF KeptIn
<1>. HIDE DEF n, X, c, e, y, z, k, t, f
<1>8. /\ DOMAIN affine' = DOMAIN affine \union X \union {n}
      /\ \A m \in DOMAIN affine' : affine'[m] = IF m = n THEN e ELSE IF m \in X THEN c ELSE affine[m]
  BY <1>1
<1>. SUFFICES ASSUME NEW m \in DOMAIN affine', m \notin guessed', m \in F
              PROVE  affine'[m].w = Width /\ LinearValue(loop, m, affine'[m].scale, affine'[m].offset, D)
  BY <1>1 DEF LinearIn, LinearEntry
<1>9. m \notin guessed
  BY <1>1
<1>10. CASE m # n
  <2>1. m \in DOMAIN affine /\ affine'[m] = affine[m]
    <3>1. CASE m \in X
      <4>1. k
        BY <1>1, <3>1
      <4>. QED BY <1>3, <1>8, <1>10, <3>1, <4>1
    <3>2. CASE m \notin X
      BY <1>8, <1>10, <3>2
    <3>. QED BY <3>1, <3>2
  <2>. QED BY <1>9, <2>1 DEF LinearIn, LinearEntry
<1>11. CASE m = n
  <2>1. k /\ z \notin guessed
    <3>1. k
      BY <1>1, <1>11
    <3>2. ~(X \subseteq guessed)
      BY <1>1, <1>11, <3>1
    <3>. QED BY <1>3, <3>1, <3>2
  <2>2. c = affine[z] /\ z \in DOMAIN affine
    BY <1>3, <2>1
  <2>3. c.w = Width /\ LinearValue(loop, z, c.scale, c.offset, D)
    BY <1>11, <1>12, <2>1, <2>2 DEF LinearIn, LinearEntry
  <2>4. z \in 0 .. Len(loop.body) /\ WellFormedLoop(loop)
    BY <2>2, ShapeFacts DEF Entries
  <2>5. c.scale \in Int /\ c.offset \in Int
    BY <1>3, EndsType DEF EntrySet
  <2>6. LinearValue(loop, n, Wrap(t * c.scale, Width), Wrap(t * c.offset + f, Width), D)
    BY <1>6, <1>7, <1>11, <2>1, <2>3, <2>4, <2>5, LinearTimes
  <2>7. t * c.scale = c.scale * t
    BY <1>7, <2>5
  <2>8. affine'[m] = e
    BY <1>8, <1>11
  <2>9. e.w = Width /\ e.scale = Wrap(t * c.scale, Width) /\ e.offset = Wrap(t * c.offset + f, Width)
    BY <1>7, <2>3, <2>7
  <2>. QED BY <1>11, <2>6, <2>8, <2>9
<1>. QED BY <1>10, <1>11

\* All values of the loop use values of the loop only.
LEMMA AllKept ==
  ASSUME Shape, NEW D \in SUBSET Int, SameOn(D), NEW F, F = 0 .. Len(loop.body)
  PROVE  KeptIn(F, D)
<1>. SUFFICES ASSUME NEW n \in Ops
              PROVE  /\ \A j \in DOMAIN body[n].in : body[n].in[j].k = "val" => body[n].in[j].v \in F
                     /\ \A i \in D, load \in Int : IsClean(loop, i, load) => OperandsKept(n, i, load)
  BY DEF KeptIn
<1>1. Ops = DOMAIN loop.body /\ WellFormed(body, n) /\ Ops = 1 .. Len(loop.body) /\ Len(loop.body) \in Nat
  BY ShapeFacts
<1>2. \A j \in DOMAIN body[n].in : body[n].in[j].k = "val" => body[n].in[j].v \in 0 .. n - 1
  BY <1>1, Zenon DEF WellFormed
<1>3. 0 .. n - 1 \subseteq F
  BY <1>1
<1>4. \A i \in D, load \in Int : IsClean(loop, i, load) => OperandsKept(n, i, load)
  BY <1>1 DEF SameOn, SameOperands, OperandsKept
<1>. QED BY <1>2, <1>3, <1>4

\* So it is for all entries.
LEMMA PropagateLinear ==
  ASSUME Shape, Entries, NEW D \in SUBSET Int, SameOn(D), LinearOn(D), Propagate
  PROVE  LinearOn(D)'
<1>1. PICK F : F = 0 .. Len(loop.body)
  OBVIOUS
<1>2. LinearIn(F, D)'
  <2>1. LinearIn(F, D)
    BY DEF LinearIn, LinearOn
  <2>. QED BY <1>1, <2>1, AllKept, PropagateIn
<1>3. DOMAIN affine' \subseteq F
  <2>1. Entries' /\ loop' = loop
    BY PropagateEntries, PropagateIs
  <2>. QED BY <1>1, <2>1 DEF Entries
<1>. QED BY <1>2, <1>3 DEF LinearIn, LinearOn, LinearEntry

\* And for slices.
LEMMA SliceLinear ==
  ASSUME Shape, Entries, NEW D \in SUBSET Int, SameOn(D), LinearOn(D), SliceOfIota
  PROVE  LinearOn(D)'
<1>1. PICK F : F = 0 .. Len(loop.body)
  OBVIOUS
<1>2. LinearIn(F, D)'
  <2>1. LinearIn(F, D)
    BY DEF LinearIn, LinearOn
  <2>. QED BY <1>1, <2>1, AllKept, SliceIn
<1>3. DOMAIN affine' \subseteq F
  <2>1. Entries' /\ loop' = loop
    BY SliceEntries, SliceIs
  <2>. QED BY <1>1, <2>1 DEF Entries
<1>. QED BY <1>2, <1>3 DEF LinearIn, LinearOn, LinearEntry

\* The value of an operand with a range lies within it, if the ranges hold and
\* the operand is no wider than they are.
LEMMA OperandWithin ==
  ASSUME Known(bounds), Known(marks), NEW i, NEW load,
         InRanges(bounds, i, load), InRanges(marks, i, load), NEW x \in OperandSet, HasBounds(x),
         x.k = "cst" => x.v \in Signed(Width)
  PROVE  /\ Within(Operand(x, Iteration(loop, i, load), loop.arg), BoundsOf(x))
         /\ BoundsOf(x) \in RangeSet
<1>. DEFINE v == Iteration(loop, i, load)
            a == Operand(x, v, loop.arg)
<1>0. BoundsOf(x) \in RangeSet
  BY BoundsType
<1>1. CASE x.k = "cst"
  <2>1. BoundsOf(x) = [min |-> Wrap(x.v, Width), max |-> Wrap(x.v, Width)]
    BY <1>1 DEF BoundsOf
  <2>2. Wrap(x.v, Width) = x.v /\ x.v \in Int
    BY <1>1, EndsType
  <2>3. a = x.v
    BY <1>1, OperandRules
  <2>. QED BY <1>0, <2>1, <2>2, <2>3 DEF Within
<1>2. CASE x.k # "cst"
  <2>1. x.k = "val" /\ x.v \in DOMAIN bounds \union DOMAIN marks
    BY <1>2 DEF HasBounds
  <2>2. BoundsOf(x) = IF x.v \in DOMAIN bounds THEN bounds[x.v] ELSE marks[x.v]
    BY <1>2 DEF BoundsOf
  <2>3. a = v[x.v]
    BY <2>1, OperandRules
  <2>4. Within(v[x.v], BoundsOf(x))
    BY <2>1, <2>2 DEF InRanges
  <2>. QED BY <1>0, <2>3, <2>4
<1>. QED BY <1>1, <1>2

\* The operands of an operation no wider than the ranges lie within theirs.
LEMMA OperandsWithin ==
  ASSUME Shape, Known(bounds), Known(marks), NEW i \in Signed(Width), NEW load \in Int,
         SameOperands(loop, body, i, load), InRanges(bounds, i, load), InRanges(marks, i, load),
         NEW n \in Ops, HasTypedOperands(body[n]), loop.body[n].w <= Width,
         NEW j \in DOMAIN body[n].in, HasBounds(body[n].in[j])
  PROVE  LET a == Operand(body[n].in[j], Iteration(loop, i, load), loop.arg)
         IN  /\ a \in Int /\ Within(a, BoundsOf(body[n].in[j]))
             /\ BoundsOf(body[n].in[j]) \in RangeSet
<1>. DEFINE x == body[n].in[j]
            a == Operand(x, Iteration(loop, i, load), loop.arg)
            w == loop.body[n].w
<1>1. x \in OperandSet
  BY OperandOf
<1>2. a \in Signed(w)
  BY BodyOperand
<1>3. WellFormedLoop(loop) /\ n \in DOMAIN loop.body
  BY ShapeFacts
<1>4. w \in 1 .. Width /\ Width \in Nat \ {0} /\ Doubling(Width)
  <2>1. WellFormed(loop.body, n)
    BY <1>3 DEF WellFormedLoop
  <2>2. w \in Nat \ {0}
    BY ONLY <2>1, Zenon DEF WellFormed
  <2>. QED BY <2>2, WidthFacts
<1>5. a \in Signed(Width)
  BY <1>2, <1>4, SignedGrows
<1>6. x.k = "cst" => x.v \in Signed(Width)
  BY <1>5, OperandRules
<1>7. Within(a, BoundsOf(x)) /\ BoundsOf(x) \in RangeSet
  BY <1>1, <1>6, OperandWithin
<1>8. a \in Int
  BY <1>5, EndsType
<1>. QED BY <1>7, <1>8

\* The range found for an operation holds, if it did not wrap around.
LEMMA VisitSound ==
  ASSUME Shape, Known(bounds), Known(marks), NEW i \in Signed(Width), NEW load \in Int, IsClean(loop, i, load),
         SameOperands(loop, body, i, load), InRanges(bounds, i, load), InRanges(marks, i, load),
         NEW x \in DOMAIN bounds, NEW n \in Users(x), Bounded(body[n]), VisitedRange(n) = RangeOf(body[n], FALSE)
  PROVE  Within(Iteration(loop, i, load)[n], VisitedRange(n))
<1>. DEFINE v == Iteration(loop, i, load)
            o == body[n]
            A == Operands(o, v, loop.arg)
            p == o.in[1]
            q == o.in[2]
<1>1. n \in Ops /\ \E j \in DOMAIN o.in : o.in[j] = Val(x)
  BY UserOf
<1>2. /\ \A j \in DOMAIN o.in : HasBounds(o.in[j])
      /\ \/ o.op \in OneNames /\ DOMAIN o.in = 1 .. 1 /\ Len(o.in) = 1
         \/ o.op \in TwoNames \union {"rem"} /\ DOMAIN o.in = 1 .. 2 /\ Len(o.in) = 2
      /\ Divides(o, BoundsOf(q))
  BY <1>1, BoundedCases
<1>3. i \in Int
  BY EndsType
<1>14. OperandsKept(n, i, load)
  BY <1>1, ShapeFacts DEF SameOperands, OperandsKept
<1>4. v[n] = Result(o, A, load) /\ v \in [0 .. Len(loop.body) -> Int]
  BY <1>1, <1>3, <1>14, BodyResult
<1>5. \A j \in DOMAIN o.in : A[j] = Operand(o.in[j], v, loop.arg)
  BY OperandAt
<1>6. ValueWidth(loop, x) <= Width /\ x \in 0 .. Len(loop.body)
  BY DEF Known
<1>7. Narrow(n) /\ body[n].op = loop.body[n].op
  BY <1>6, UserWidth
<1>8. o.op # "convert" => \A j \in DOMAIN o.in : /\ A[j] \in Int /\ Within(A[j], BoundsOf(o.in[j]))
                                                 /\ BoundsOf(o.in[j]) \in RangeSet
  <2>. SUFFICES ASSUME o.op # "convert", NEW j \in DOMAIN o.in
                PROVE  A[j] \in Int /\ Within(A[j], BoundsOf(o.in[j])) /\ BoundsOf(o.in[j]) \in RangeSet
    OBVIOUS
  <2>1. HasTypedOperands(o) /\ HasTypedOperands(loop.body[n])
    BY <1>2, <1>7 DEF HasTypedOperands, OneNames, TwoNames
  <2>2. loop.body[n].w <= Width
    BY <1>7, <2>1 DEF Narrow
  <2>. QED BY <1>1, <1>2, <1>5, <2>1, <2>2, OperandsWithin
<1>9. o.op = "convert" => A[1] \in Int /\ Within(A[1], BoundsOf(p)) /\ BoundsOf(p) \in RangeSet
  <2>. SUFFICES ASSUME o.op = "convert" PROVE A[1] \in Int /\ Within(A[1], BoundsOf(p)) /\ BoundsOf(p) \in RangeSet
    OBVIOUS
  <2>1. DOMAIN o.in = 1 .. 1
    BY <1>2 DEF TwoNames
  <2>2. p = Val(x) /\ 1 \in DOMAIN o.in
    BY <1>1, <2>1
  <2>3. p.k = "val" /\ p.v = x
    BY <2>2 DEF Val
  <2>4. A[1] = v[x]
    BY <1>5, <2>2, <2>3, OperandRules
  <2>5. BoundsOf(p) = bounds[x]
    BY <2>3 DEF BoundsOf
  <2>. QED BY <1>4, <1>6, <2>4, <2>5 DEF InRanges, Known
<1>. HIDE DEF v, A
<1>10. CASE o.op \in OneNames /\ DOMAIN o.in = 1 .. 1 /\ Len(o.in) = 1
  <2>1. RangeOf(o, FALSE) = RangeOfOne(o, BoundsOf(p), FALSE)
    BY <1>10 DEF RangeOf
  <2>2. A[1] \in Int /\ Within(A[1], BoundsOf(p)) /\ BoundsOf(p) \in RangeSet
    BY <1>8, <1>9, <1>10
  <2>. HIDE DEF o, p
  <2>3. Within(Result(o, A, load), RangeOfOne(o, BoundsOf(p), FALSE))
    BY <1>10, <2>2, RangeOfOneSound
  <2>. QED BY <1>4, <2>1, <2>3 DEF v, o
<1>11. CASE o.op \in TwoNames \union {"rem"} /\ DOMAIN o.in = 1 .. 2 /\ Len(o.in) = 2
  <2>1. RangeOf(o, FALSE) = RangeOfTwo(o, BoundsOf(p), BoundsOf(q), FALSE)
    BY <1>11 DEF RangeOf
  <2>2. o.op # "convert"
    BY <1>11 DEF TwoNames
  <2>3. /\ A[1] \in Int /\ Within(A[1], BoundsOf(p)) /\ BoundsOf(p) \in RangeSet
        /\ A[2] \in Int /\ Within(A[2], BoundsOf(q)) /\ BoundsOf(q) \in RangeSet
    BY <1>8, <1>11, <2>2
  <2>. HIDE DEF o, p, q
  <2>4. Within(Result(o, A, load), RangeOfTwo(o, BoundsOf(p), BoundsOf(q), FALSE))
    BY <1>2, <1>11, <2>3, RangeOfTwoSound
  <2>. QED BY <1>4, <2>1, <2>4 DEF v, o
<1>. QED BY <1>2, <1>10, <1>11

\* The operand that replaces an operation has its value.
LEMMA RewriteSound ==
  ASSUME Shape, Known(bounds), Known(marks), NEW i \in Signed(Width), NEW load \in Int, IsClean(loop, i, load),
         SameOperands(loop, body, i, load), InRanges(bounds, i, load), InRanges(marks, i, load),
         NEW n \in Ops, loop.body[n].op \in Rewritten, Narrow(n),
         \A j \in DOMAIN body[n].in : HasBounds(body[n].in[j]),
         NEW x \in Replacement(body[n], OperandRanges(n)), IsExact(body[n], OperandRanges(n))
  PROVE  Operand(x, Iteration(loop, i, load), loop.arg) = Iteration(loop, i, load)[n]
<1>. DEFINE v == Iteration(loop, i, load)
            o == body[n]
            A == Operands(o, v, loop.arg)
            b == OperandRanges(n)
<1>1. o.op = loop.body[n].op /\ WellFormed(body, n)
  BY ShapeFacts DEF SameOperation
<1>2. HasTypedOperands(o) /\ HasTypedOperands(loop.body[n]) /\ o.op \in Rewritten
  BY <1>1 DEF HasTypedOperands, Rewritten
<1>3. loop.body[n].w <= Width
  BY <1>2 DEF Narrow
<1>14. OperandsKept(n, i, load)
  BY ShapeFacts DEF SameOperands, OperandsKept
<1>4. v[n] = Result(o, A, load)
  BY <1>14, EndsType, BodyResult
<1>5. \A j \in DOMAIN o.in : A[j] = Operand(o.in[j], v, loop.arg)
  BY OperandAt
<1>6. \A j \in DOMAIN o.in : /\ Operand(o.in[j], v, loop.arg) \in Int
                             /\ Within(Operand(o.in[j], v, loop.arg), BoundsOf(o.in[j]))
                             /\ BoundsOf(o.in[j]) \in RangeSet
  BY <1>2, <1>3, OperandsWithin
<1>11. \A j \in DOMAIN o.in : b[j] = BoundsOf(o.in[j])
  BY DEF OperandRanges
<1>. HIDE DEF v, A, b
<1>10. Bounding(o, b, A)
  BY <1>5, <1>6, <1>11 DEF Bounding
<1>7. StandsFor(x, o, A, load)
  <2>1. WellFormed(body, n) /\ body[n].op \in Rewritten /\ Bounding(body[n], b, A)
        /\ x \in Replacement(body[n], b) /\ IsExact(body[n], b)
    BY <1>1, <1>2, <1>10 DEF b
  <2>. HIDE DEF o
  <2>. QED BY ONLY <2>1, ReplacementSound DEF o
<1>8. CASE (x = Cst(0) \/ x = Cst(1)) /\ Result(o, A, load) = x.v
  <2>1. x.k = "cst"
    BY <1>8 DEF Cst
  <2>2. Operand(x, v, loop.arg) = x.v
    BY <2>1, OperandRules
  <2>. QED BY <1>4, <1>8, <2>2 DEF v
<1>9. CASE \E j \in DOMAIN o.in : x = o.in[j] /\ Result(o, A, load) = A[j]
  <2>1. PICK j \in DOMAIN o.in : x = o.in[j] /\ Result(o, A, load) = A[j]
    BY <1>9
  <2>. QED BY <1>4, <1>5, <2>1 DEF v
<1>. QED BY <1>7, <1>8, <1>9, Zenon DEF StandsFor

\* What the pass has found and done is right in the clean iterations that start in D.
SoundOn(D) == SameOn(D) /\ AliasOn(D) /\ WithinOn(bounds, D) /\ WithinOn(marks, D) /\ LinearOn(D)

\* It stays right while nothing is found or done.
LEMMA SoundKept ==
  ASSUME NEW D, SoundOn(D), loop' = loop, body' = body, alias' = alias
  PROVE  /\ SameOn(D)' /\ AliasOn(D)'
         /\ bounds' = bounds => WithinOn(bounds, D)'
         /\ marks' = marks => WithinOn(marks, D)'
         /\ affine' = affine /\ guessed' = guessed => LinearOn(D)'
<1>1. SameOn(D)'
  BY DEF SoundOn, SameOn
<1>2. AliasOn(D)'
  BY DEF SoundOn, AliasOn
<1>3. bounds' = bounds => WithinOn(bounds, D)'
  BY DEF SoundOn, WithinOn, InRanges
<1>4. marks' = marks => WithinOn(marks, D)'
  BY DEF SoundOn, WithinOn, InRanges
<1>5. affine' = affine /\ guessed' = guessed => LinearOn(D)'
  BY DEF SoundOn, LinearOn, LinearEntry
<1>. QED BY <1>1, <1>2, <1>3, <1>4, <1>5

\* A visit keeps it right, if the range did not wrap around.
LEMMA VisitKeeps ==
  ASSUME Types, NEW D \in SUBSET Signed(Width), exact => SoundOn(D), Visit, exact'
  PROVE  SoundOn(D)'
<1>1. PICK n \in Ops \ visited, x \in DOMAIN bounds :
        /\ n \in Users(x)
        /\ visited' = visited \union {n}
        /\ \/ UNCHANGED <<bounds, exact>>
           \/ /\ Bounded(body[n])
              /\ bounds' = [v \in DOMAIN bounds \union {n} |-> IF v = n THEN VisitedRange(n) ELSE bounds[v]]
              /\ exact' = (exact /\ VisitedRange(n) = RangeOf(body[n], FALSE))
  BY VisitIs, Zenon
<1>2. UNCHANGED <<loop, body, alias, phase, analysis, marks, todo, changed, run>>
  BY VisitIs, Zenon
<1>3. loop' = loop /\ body' = body /\ alias' = alias /\ marks' = marks /\ affine' = affine /\ guessed' = guessed
  BY <1>2 DEF analysis
<1>4. exact
  <2>1. exact' = exact \/ exact' = (exact /\ VisitedRange(n) = RangeOf(body[n], FALSE))
    BY <1>1
  <2>. QED BY <2>1, Zenon
<1>5. SoundOn(D)
  BY <1>4
<1>6. /\ SameOn(D)' /\ AliasOn(D)' /\ WithinOn(marks, D)' /\ LinearOn(D)'
      /\ bounds' = bounds => WithinOn(bounds, D)'
  BY <1>3, <1>5, SoundKept
<1>7. CASE UNCHANGED <<bounds, exact>>
  BY <1>6, <1>7 DEF SoundOn
<1>8. CASE /\ Bounded(body[n])
           /\ bounds' = [v \in DOMAIN bounds \union {n} |-> IF v = n THEN VisitedRange(n) ELSE bounds[v]]
           /\ exact' = (exact /\ VisitedRange(n) = RangeOf(body[n], FALSE))
  <2>1. VisitedRange(n) = RangeOf(body[n], FALSE)
    BY <1>8, Zenon
  <2>. DEFINE r == VisitedRange(n)
  <2>2. /\ DOMAIN bounds' = DOMAIN bounds \union {n}
        /\ \A v \in DOMAIN bounds' : bounds'[v] = IF v = n THEN r ELSE bounds[v]
    BY <1>8
  <2>3. Shape /\ Known(bounds) /\ Known(marks)
    BY DEF Types, RangesKnown
  <2>4. \A i \in D, load \in Int : IsClean(loop, i, load) => InRanges(bounds', i, load)
    <3>. SUFFICES ASSUME NEW i \in D, NEW load \in Int, IsClean(loop, i, load)
                  PROVE  InRanges(bounds', i, load)
      OBVIOUS
    <3>1. /\ SameOperands(loop, body, i, load) /\ InRanges(bounds, i, load) /\ InRanges(marks, i, load)
      BY <1>5 DEF SoundOn, SameOn, WithinOn
    <3>2. i \in Signed(Width)
      OBVIOUS
    <3>3. Within(Iteration(loop, i, load)[n], r)
      BY <1>1, <1>8, <2>1, <2>3, <3>1, <3>2, VisitSound
    <3>. HIDE DEF r
    <3>. QED BY <2>2, <3>1, <3>3 DEF InRanges
  <2>5. WithinOn(bounds, D)'
    BY <1>3, <2>4 DEF WithinOn, InRanges
  <2>. QED BY <1>6, <2>5 DEF SoundOn
<1>. QED BY <1>1, <1>7, <1>8

\* Writing the attributes keeps it right.
LEMMA AnnotateKeeps ==
  ASSUME NEW D, SoundOn(D), Annotate
  PROVE  SoundOn(D)'
<1>. DEFINE found == DOMAIN bounds \ {0}
<1>1. /\ loop' = loop /\ body' = body /\ alias' = alias /\ bounds' = bounds
      /\ UNCHANGED analysis
      /\ marks' = [n \in DOMAIN marks \union found |-> IF n \in found THEN bounds[n] ELSE marks[n]]
  BY Zenon DEF Annotate
<1>2. affine' = affine /\ guessed' = guessed
  BY <1>1 DEF analysis
<1>3. SameOn(D)' /\ AliasOn(D)' /\ WithinOn(bounds, D)' /\ LinearOn(D)'
  BY <1>1, <1>2, SoundKept
<1>4. /\ DOMAIN marks' = DOMAIN marks \union found
      /\ \A n \in DOMAIN marks' : marks'[n] = IF n \in found THEN bounds[n] ELSE marks[n]
  BY <1>1
<1>5. \A i \in D, load \in Int : IsClean(loop, i, load) => InRanges(marks', i, load)
  <2>. SUFFICES ASSUME NEW i \in D, NEW load \in Int, IsClean(loop, i, load)
                PROVE  InRanges(marks', i, load)
    OBVIOUS
  <2>1. InRanges(bounds, i, load) /\ InRanges(marks, i, load)
    BY DEF SoundOn, WithinOn
  <2>. QED BY <1>4, <2>1 DEF InRanges
<1>6. WithinOn(marks, D)'
  BY <1>1, <1>5 DEF WithinOn, InRanges
<1>. QED BY <1>3, <1>6 DEF SoundOn

\* Where the value of n is that of x, any operand may have x in the place of n.
LEMMA InsteadValue ==
  ASSUME NEW v, NEW arg, NEW n, NEW x, Operand(x, v, arg) = v[n], NEW y
  PROVE  Operand(Instead(y, n, x), v, arg) = Operand(y, v, arg)
<1>1. CASE y = Val(n)
  <2>1. Instead(y, n, x) = x
    BY <1>1 DEF Instead
  <2>2. y.k = "val" /\ y.v = n
    BY <1>1 DEF Val
  <2>. QED BY <2>1, <2>2, OperandRules
<1>2. CASE y # Val(n)
  BY <1>2 DEF Instead
<1>. QED BY <1>1, <1>2

\* Rewriting an operation keeps it right, if the rewrite is of an exact kind.
LEMMA RewriteKeeps ==
  ASSUME Types, NEW D \in SUBSET Signed(Width), exact => SoundOn(D), Rewrite, exact'
  PROVE  SoundOn(D)'
<1>1. PICK n \in todo :
         /\ UNCHANGED <<loop, phase, analysis, bounds, visited, marks, run>>
         /\ \/ UNCHANGED <<body, alias, exact, changed>>
            \/ /\ \A j \in DOMAIN body[n].in : HasBounds(body[n].in[j])
               /\ \E x \in Replacement(body[n], OperandRanges(n)) : Replace(n, x)
               /\ exact' = (exact /\ IsExact(body[n], OperandRanges(n)))
  BY RewriteCases, Zenon
<1>2. loop' = loop /\ bounds' = bounds /\ marks' = marks /\ affine' = affine /\ guessed' = guessed
  BY <1>1 DEF analysis
<1>3. CASE UNCHANGED <<body, alias, exact, changed>>
  <2>1. SoundOn(D)
    BY <1>3
  <2>. QED BY <1>2, <1>3, <2>1, SoundKept DEF SoundOn
<1>4. CASE /\ \A j \in DOMAIN body[n].in : HasBounds(body[n].in[j])
           /\ \E x \in Replacement(body[n], OperandRanges(n)) : Replace(n, x)
           /\ exact' = (exact /\ IsExact(body[n], OperandRanges(n)))
  <2>1. exact /\ IsExact(body[n], OperandRanges(n))
    BY <1>4, Zenon
  <2>2. SoundOn(D)
    BY <2>1
  <2>3. PICK x \in Replacement(body[n], OperandRanges(n)) : Replace(n, x)
    BY <1>4
  <2>4. body' = BodyInstead(body, n, x) /\ alias' = [m \in DOMAIN body |-> Instead(alias[m], n, x)]
    BY <2>3, ReplaceIs
  <2>5. Shape /\ Known(bounds) /\ Known(marks) /\ n \in Ops /\ loop.body[n].op \in Rewritten /\ Narrow(n)
    BY ShapeFacts DEF Types, RangesKnown
  <2>6. \A i \in D, load \in Int : IsClean(loop, i, load) =>
          Operand(x, Iteration(loop, i, load), loop.arg) = Iteration(loop, i, load)[n]
    <3>. SUFFICES ASSUME NEW i \in D, NEW load \in Int, IsClean(loop, i, load)
                  PROVE  Operand(x, Iteration(loop, i, load), loop.arg) = Iteration(loop, i, load)[n]
      OBVIOUS
    <3>1. /\ SameOperands(loop, body, i, load) /\ InRanges(bounds, i, load) /\ InRanges(marks, i, load)
      BY <2>2 DEF SoundOn, SameOn, WithinOn
    <3>2. i \in Signed(Width)
      OBVIOUS
    <3>. QED BY <1>4, <2>1, <2>5, <3>1, <3>2, RewriteSound
  <2>7. Ops = DOMAIN loop.body /\ \A m \in Ops : WellFormed(body, m)
    BY <2>5, ShapeFacts
  <2>8. SameOn(D)'
    <3>. SUFFICES ASSUME NEW i \in D, NEW load \in Int, IsClean(loop, i, load), NEW m \in DOMAIN loop.body
                  PROVE  Operands(body'[m], Iteration(loop, i, load), loop.arg)
                           = Operands(loop.body[m], Iteration(loop, i, load), loop.arg)
      BY <1>2 DEF SameOn, SameOperands
    <3>. DEFINE v == Iteration(loop, i, load)
                o == body[m]
                p == OperationInstead(o, n, x)
    <3>1. Operands(o, v, loop.arg) = Operands(loop.body[m], v, loop.arg)
      BY <2>2 DEF SoundOn, SameOn, SameOperands
    <3>2. body'[m] = p
      BY <2>4, <2>7 DEF BodyInstead, Ops
    <3>3. {"op", "in", "w"} \subseteq DOMAIN o
      <4>1. WellFormed(body, m)
        BY <2>7
      <4>. QED BY <4>1, Zenon DEF WellFormed
    <3>4. DOMAIN p.in = DOMAIN o.in /\ \A j \in DOMAIN o.in : p.in[j] = Instead(o.in[j], n, x)
      <4>. HIDE DEF o
      <4>1. /\ DOMAIN p = DOMAIN o /\ p.op = o.op /\ p.w = o.w /\ DOMAIN p.in = DOMAIN o.in
            /\ \A j \in DOMAIN o.in : p.in[j] = Instead(o.in[j], n, x)
            /\ p.in = [j \in DOMAIN o.in |-> Instead(o.in[j], n, x)]
            /\ p.dir = o.dir /\ p.first = o.first /\ p.stride = o.stride /\ p.size = o.size
        BY ONLY <3>3, InsteadFields
      <4>. QED BY <4>1
    <3>5. Operand(x, v, loop.arg) = v[n]
      BY <2>6
    <3>. HIDE DEF v, o, p
    <3>6. Operands(p, v, loop.arg) = Operands(o, v, loop.arg)
      <4>1. \A j \in DOMAIN o.in : Operand(p.in[j], v, loop.arg) = Operand(o.in[j], v, loop.arg)
        BY <3>4, <3>5, InsteadValue
      <4>. QED BY <3>4, <4>1 DEF Operands
    <3>. QED BY <3>1, <3>2, <3>6 DEF v, o, p
  <2>9. AliasOn(D)'
    <3>. SUFFICES ASSUME NEW i \in D, NEW load \in Int, IsClean(loop, i, load), NEW m \in DOMAIN loop.body
                  PROVE  Operand(alias'[m], Iteration(loop, i, load), loop.arg) = Iteration(loop, i, load)[m]
      BY <1>2 DEF AliasOn
    <3>. DEFINE v == Iteration(loop, i, load)
    <3>1. Operand(alias[m], v, loop.arg) = v[m]
      BY <2>2 DEF SoundOn, AliasOn
    <3>2. alias'[m] = Instead(alias[m], n, x)
      BY <2>4, <2>7 DEF Ops
    <3>3. Operand(x, v, loop.arg) = v[n]
      BY <2>6
    <3>. HIDE DEF v
    <3>4. Operand(alias'[m], v, loop.arg) = v[m]
      BY <3>1, <3>2, <3>3, InsteadValue
    <3>. QED BY <3>4 DEF v
  <2>10. WithinOn(bounds, D)'
    BY <1>2, <2>2 DEF SoundOn, WithinOn, InRanges
  <2>11. WithinOn(marks, D)'
    BY <1>2, <2>2 DEF SoundOn, WithinOn, InRanges
  <2>12. LinearOn(D)'
    BY <1>2, <2>2 DEF SoundOn, LinearOn, LinearEntry
  <2>. QED BY <2>8, <2>9, <2>10, <2>11, <2>12 DEF SoundOn
<1>. QED BY <1>1, <1>3, <1>4

\* A loop with iterations that has a positive count of them counts up.
LEMMA StepPositive ==
  ASSUME NEW s \in Int, NEW t \in Int, NEW step \in Int, s < t, ConstantNumIters(s, t, step) > 0
  PROVE  step > 0
<1>1. ~(t < s \/ (step < 0 /\ t > s))
  BY DEF ConstantNumIters
<1>2. step >= 0
  BY <1>1
<1>3. step # 0
  <2>. SUFFICES ASSUME step = 0 PROVE FALSE
    OBVIOUS
  <2>1. ConstantNumIters(s, t, step) = 0
    BY DEF ConstantNumIters, Quotient
  <2>. QED BY <2>1
<1>. QED BY <1>2, <1>3

\* The step is a number.
LEMMA StepType ==
  ASSUME Entries, HasStep
  PROVE  /\ Step \in Int /\ Step \in Signed(Width)
         /\ Next_iv.v \in DOMAIN affine \ guessed /\ affine[Next_iv.v].scale = 1 /\ Next_iv.k = "val"
<1>1. Next_iv.v \in DOMAIN affine /\ affine[Next_iv.v].scale = 1 /\ Next_iv.k = "val"
  BY DEF HasStep
<1>2. Step \in Signed(Width)
  BY <1>1 DEF Entries, EntrySet, Step
<1>3. Next_iv.v \notin guessed
  BY <1>1 DEF Entries
<1>. QED BY <1>1, <1>2, <1>3, EndsType

\* The ranges start right: the induction variable runs from the start of the
\* loop to its limit.
LEMMA AnalysedKeeps ==
  ASSUME Types, NEW D, D = Starts(loop), SoundOn(D), Analysed
  PROVE  SoundOn(D)'
<1>1. /\ loop' = loop /\ body' = body /\ alias' = alias /\ marks' = marks /\ UNCHANGED analysis
      /\ \/ Rewritable /\ bounds' = [v \in {0} |-> InductionBounds]
         \/ bounds' = bounds
  BY DEF Analysed
<1>2. affine' = affine /\ guessed' = guessed
  BY <1>1 DEF analysis
<1>3. /\ SameOn(D)' /\ AliasOn(D)' /\ WithinOn(marks, D)' /\ LinearOn(D)'
      /\ bounds' = bounds => WithinOn(bounds, D)'
  BY <1>1, <1>2, SoundKept
<1>4. CASE Rewritable /\ bounds' = [v \in {0} |-> InductionBounds]
  <2>1. WellFormedLoop(loop) /\ loop.start \in Signed(Width) /\ loop.limit \in Signed(Width) /\ Entries
    BY ShapeFacts DEF Types
  <2>2. \A i \in D, load \in Int : InRanges(bounds', i, load)
    <3>. SUFFICES ASSUME NEW i \in D, NEW load \in Int PROVE InRanges(bounds', i, load)
      OBVIOUS
    <3>1. loop.start \in Int /\ loop.limit \in Int
      BY <2>1, EndsType
    <3>2. i \in loop.start .. loop.limit - 1 /\ i \in Int
      BY <3>1 DEF Starts
    <3>3. loop.start < loop.limit /\ loop.start <= i /\ i <= loop.limit - 1
      BY <3>1, <3>2
    <3>4. Step > 0
      <4>1. HasStep /\ ConstantNumIters(loop.start, loop.limit, Step) > 0
        BY <1>4 DEF Rewritable, IsConstant
      <4>2. Step \in Int
        BY <2>1, <4>1, StepType
      <4>. DEFINE s == loop.start
                  t == loop.limit
                  u == Step
      <4>3. s \in Int /\ t \in Int /\ u \in Int /\ s < t /\ ConstantNumIters(s, t, u) > 0
        BY <3>1, <3>3, <4>1, <4>2
      <4>. HIDE DEF s, t, u
      <4>4. u > 0
        BY <4>3, StepPositive
      <4>. QED BY <4>4 DEF u
    <3>. DEFINE p == loop.limit - 1
    <3>5. p \in Signed(Width)
      <4>1. loop.start .. loop.limit \subseteq Signed(Width)
        BY <2>1, EndsType
      <4>. QED BY <3>1, <3>3, <4>1
    <3>6. InductionBounds = [min |-> loop.start, max |-> Wrap(p, Width)]
      BY <3>4 DEF InductionBounds
    <3>7. Wrap(p, Width) = p
      <4>. HIDE DEF p
      <4>. QED BY <3>5, EndsType
    <3>8. DOMAIN bounds' = {0} /\ bounds'[0] = InductionBounds
      BY <1>4
    <3>9. Iteration(loop, i, load)[0] = i
      BY <2>1, <3>2, IterationValues
    <3>10. Within(i, InductionBounds)
      BY <3>3, <3>6, <3>7 DEF Within
    <3>. QED BY <3>8, <3>9, <3>10 DEF InRanges
  <2>3. WithinOn(bounds, D)'
    BY <1>1, <2>2 DEF WithinOn, InRanges
  <2>. QED BY <1>3, <2>3 DEF SoundOn
<1>. QED BY <1>1, <1>3, <1>4 DEF SoundOn

\* The entries of a new analysis are right.
LEMMA FreshLinear ==
  ASSUME WellFormedLoop(loop), NEW D \in SUBSET Int, affine = StartInfo
  PROVE  LinearOn(D)
<1>1. DOMAIN affine = {0} /\ affine[0] = [w |-> Width, scale |-> 1, offset |-> 0]
  BY DEF StartInfo
<1>2. LinearValue(loop, 0, 1, 0, D)
  BY StartLinear
<1>. QED BY <1>1, <1>2 DEF LinearOn, LinearEntry

\* The end of a round keeps it right.
LEMMA EndRoundKeeps ==
  ASSUME Types, NEW D \in SUBSET Int, SoundOn(D), EndRound
  PROVE  SoundOn(D)'
<1>1. /\ loop' = loop /\ body' = body /\ alias' = alias /\ UNCHANGED ranges
      /\ UNCHANGED analysis \/ affine' = StartInfo
  BY DEF EndRound
<1>2. bounds' = bounds /\ marks' = marks
  BY <1>1 DEF ranges
<1>3. /\ SameOn(D)' /\ AliasOn(D)' /\ WithinOn(bounds, D)' /\ WithinOn(marks, D)'
      /\ affine' = affine /\ guessed' = guessed => LinearOn(D)'
  BY <1>1, <1>2, SoundKept
<1>4. CASE UNCHANGED analysis
  BY <1>3, <1>4 DEF SoundOn, analysis
<1>5. CASE affine' = StartInfo
  <2>1. WellFormedLoop(loop)
    BY ShapeFacts DEF Types
  <2>2. LinearValue(loop, 0, 1, 0, D)
    BY <2>1, StartLinear
  <2>3. DOMAIN affine' = {0} /\ affine'[0] = [w |-> Width, scale |-> 1, offset |-> 0]
    BY <1>5 DEF StartInfo
  <2>4. LinearOn(D)'
    BY <1>1, <2>2, <2>3 DEF LinearOn, LinearEntry
  <2>. QED BY <1>3, <2>4 DEF SoundOn
<1>. QED BY <1>1, <1>4, <1>5

\* Exactness, once lost, is lost.
LEMMA ExactStep ==
  ASSUME [Next]_vars, exact'
  PROVE  exact
<1>1. CASE Visit
  <2>1. UNCHANGED <<bounds, exact>> \/ \E n \in Ops : exact' = (exact /\ VisitedRange(n) = RangeOf(body[n], FALSE))
    BY <1>1, VisitIs, Zenon
  <2>2. exact' = exact \/ \E n \in Ops : exact' = (exact /\ VisitedRange(n) = RangeOf(body[n], FALSE))
    BY <2>1
  <2>. QED BY <2>2, Zenon
<1>2. CASE Rewrite
  <2>1. UNCHANGED <<body, alias, exact, changed>>
        \/ \E n \in todo : exact' = (exact /\ IsExact(body[n], OperandRanges(n)))
    BY <1>2, RewriteCases, Zenon
  <2>2. exact' = exact \/ \E n \in todo : exact' = (exact /\ IsExact(body[n], OperandRanges(n)))
    BY <2>1
  <2>. QED BY <2>2, Zenon
<1>3. CASE exact' = exact
  BY <1>3
<1>4. CASE Propagate
  BY <1>3, <1>4, Zenon DEF Propagate, ranges
<1>5. CASE SliceOfIota
  BY <1>3, <1>5, Zenon DEF SliceOfIota, ranges
<1>6. CASE Analysed
  BY <1>3, <1>6, Zenon DEF Analysed
<1>7. CASE Annotate
  BY <1>3, <1>7, Zenon DEF Annotate
<1>8. CASE EndRound
  BY <1>3, <1>8, Zenon DEF EndRound, ranges
<1>9. CASE Iterate
  BY <1>3, <1>9, Zenon DEF Iterate, ranges
<1>10. CASE UNCHANGED vars
  <2>1. exact' = exact
    BY <1>10 DEF vars, ranges
  <2>. QED BY <1>3, <2>1
<1>. QED BY <1>1, <1>2, <1>4, <1>5, <1>6, <1>7, <1>8, <1>9, <1>10 DEF Next, Analyse

\* Every action keeps what was found and done right, while it is exact.
LEMMA SoundStep ==
  ASSUME Types, NEW D, D = Starts(loop), exact => SoundOn(D), [Next]_vars, exact'
  PROVE  SoundOn(D)'
<1>1. D \in SUBSET Signed(Width) /\ D \in SUBSET Int /\ Shape /\ Entries
  BY ShapeFacts, StartsType DEF Types
<1>2. exact /\ SoundOn(D)
  BY ExactStep
<1>3. CASE Visit
  BY <1>1, <1>3, VisitKeeps
<1>4. CASE Rewrite
  BY <1>1, <1>4, RewriteKeeps
<1>5. CASE Annotate
  BY <1>2, <1>5, AnnotateKeeps
<1>6. CASE Analysed
  BY <1>2, <1>6, AnalysedKeeps
<1>7. CASE EndRound
  BY <1>1, <1>2, <1>7, EndRoundKeeps
<1>8. CASE Propagate
  <2>1. UNCHANGED <<loop, body, alias, phase, ranges, run>>
    BY <1>8, PropagateIs, Zenon
  <2>2. loop' = loop /\ body' = body /\ alias' = alias /\ bounds' = bounds /\ marks' = marks
    BY <2>1 DEF ranges
  <2>3. LinearOn(D)'
    BY <1>1, <1>2, <1>8, PropagateLinear DEF SoundOn
  <2>. QED BY <1>2, <2>2, <2>3, SoundKept DEF SoundOn
<1>9. CASE SliceOfIota
  <2>1. loop' = loop /\ body' = body /\ alias' = alias /\ UNCHANGED ranges
    BY <1>9, SliceIs
  <2>2. bounds' = bounds /\ marks' = marks
    BY <2>1 DEF ranges
  <2>3. LinearOn(D)'
    BY <1>1, <1>2, <1>9, SliceLinear DEF SoundOn
  <2>. QED BY <1>2, <2>1, <2>2, <2>3, SoundKept DEF SoundOn
<1>10. CASE Iterate \/ UNCHANGED vars
  <2>1. UNCHANGED <<loop, body, alias, analysis, ranges>>
    <3>1. CASE Iterate
      BY <3>1, Zenon DEF Iterate
    <3>2. CASE UNCHANGED vars
      BY <3>2 DEF vars
    <3>. QED BY <1>10, <3>1, <3>2
  <2>2. loop' = loop /\ body' = body /\ alias' = alias /\ bounds' = bounds /\ marks' = marks
        /\ affine' = affine /\ guessed' = guessed
    BY <2>1 DEF ranges, analysis
  <2>. QED BY <1>2, <2>2, SoundKept DEF SoundOn
<1>. QED BY <1>3, <1>4, <1>5, <1>6, <1>7, <1>8, <1>9, <1>10 DEF Next, Analyse

\* What was found and done is right in the first state.
LEMMA InitSound ==
  ASSUME Init, NEW D \in SUBSET Int
  PROVE  SoundOn(D)
<1>1. /\ body = loop.body /\ alias = [n \in DOMAIN body |-> Val(n)]
      /\ affine = StartInfo /\ bounds = <<>> /\ marks = <<>>
  BY Zenon DEF Init
<1>2. WellFormedLoop(loop)
  BY InitTypes, ShapeFacts DEF Types
<1>3. SameOn(D)
  BY <1>1 DEF SameOn, SameOperands
<1>4. AliasOn(D)
  <2>. SUFFICES ASSUME NEW v, NEW n \in DOMAIN loop.body PROVE Operand(alias[n], v, loop.arg) = v[n]
    BY DEF AliasOn
  <2>1. alias[n].k = "val" /\ alias[n].v = n
    BY <1>1 DEF Val
  <2>. QED BY <2>1, OperandRules
<1>5. DOMAIN bounds = {} /\ DOMAIN marks = {}
  BY <1>1
<1>6. WithinOn(bounds, D) /\ WithinOn(marks, D)
  BY <1>5 DEF WithinOn, InRanges
<1>7. LinearOn(D)
  BY <1>1, <1>2, FreshLinear
<1>. QED BY <1>3, <1>4, <1>6, <1>7 DEF SoundOn

-----------------------------------------------------------------------------
(* The loop runs                                                           *)

\* The next value of the induction variable is st more, up to multiples of the
\* number of values of the width, in clean iterations wherever they start.
LinearInc(l, st) == LinearValue(l, l.inc, 1, st, Int)

\* Operations of the kinds that are not rewritten, on the results of such.
Steady(l, F) ==
  \A n \in F \intersect DOMAIN l.body :
    /\ l.body[n].op \notin Rewritten
    /\ \A j \in DOMAIN l.body[n].in : l.body[n].in[j].k = "val" => l.body[n].in[j].v \in F

\* The next value of the induction variable is the result of one.
Anchored(l) == \E F \in SUBSET (0 .. Len(l.body)) : Steady(l, F) /\ l.inc \in F

\* The loop is one the pass has not touched, or one that counts up.
Fresh ==
  /\ phase \in {"affine", "run"}
  /\ body = loop.body /\ \A n \in DOMAIN loop.body : alias[n] = Val(n)
  /\ DOMAIN bounds = {}
  /\ LinearOn(Int)
  /\ Steady(loop, DOMAIN affine \ guessed)
CountsUp ==
  /\ loop.start < loop.limit => \E st \in Signed(Width) : st > 0 /\ LinearInc(loop, st)
  /\ Anchored(loop)

\* No action changes the loop.
LEMMA LoopKept == ASSUME [Next]_vars PROVE loop' = loop
<1>1. CASE Rewrite
  BY <1>1, Zenon DEF Rewrite
<1>2. CASE ~Rewrite
  <2>1. Propagate \/ SliceOfIota \/ Analysed \/ Visit \/ Annotate \/ EndRound \/ Iterate \/ UNCHANGED vars
    BY <1>2 DEF Next, Analyse
  <2>. QED BY <2>1, BodyKept
<1>. QED BY <1>1, <1>2

\* An entry passes to an operation that has no other value as its operand.
LEMMA PropagatedOperands ==
  ASSUME NEW ops, NEW n, WellFormed(ops, n), NEW i \in DOMAIN ops[n].in, NEW x, ops[n].in[i] = Val(x),
         Propagates(ops[n], x)
  PROVE  /\ ops[n].op \notin Rewritten
         /\ \A j \in DOMAIN ops[n].in : ops[n].in[j].k = "val" => ops[n].in[j].v = x
<1>. DEFINE o == ops[n]
<1>1. /\ o.op \in UnaryNames => DOMAIN o.in = 1 .. 1
      /\ o.op \in BinaryNames => DOMAIN o.in = 1 .. 2
  BY ArityOf
<1>2. o.in[i].v = x
  BY DEF Val
<1>3. i \in DOMAIN o.in /\ o.in[i] = Val(x) /\ Propagates(o, x)
  OBVIOUS
<1>4. DOMAIN o.in = 1 .. Len(o.in) /\ Len(o.in) \in Nat
  <2>1. o.in \in Seq(OperandSet)
    BY Zenon DEF WellFormed
  <2>. QED BY <2>1, LenProperties
<1>. SUFFICES /\ o.op \notin Rewritten
              /\ \A j \in DOMAIN o.in : o.in[j].k = "val" => o.in[j].v = x
  OBVIOUS
<1>. HIDE DEF o
<1>5. CASE o.op = "neg" \/ o.op = "convert"
  <2>1. DOMAIN o.in = 1 .. 1
    BY <1>1, <1>5 DEF UnaryNames
  <2>2. \A j \in DOMAIN o.in : j = i
    BY <1>3, <2>1
  <2>. QED BY <1>2, <1>5, <2>2 DEF Rewritten
<1>6. CASE o.op \in {"add", "sub", "mul"}
  <2>. DEFINE p == Other(o, x)
  <2>1. IsConstantValue(o.in[p])
    BY <1>3, <1>6 DEF Propagates
  <2>2. o.in[p].k # "val"
    BY <2>1 DEF IsConstantValue
  <2>3. DOMAIN o.in = 1 .. 2
    BY <1>1, <1>6 DEF BinaryNames
  <2>4. p = 1 \/ p = 2
    BY DEF Other
  <2>5. i # p
    <3>1. o.in[i].k = "val"
      BY <1>3 DEF Val
    <3>. QED BY <2>2, <3>1
  <2>. HIDE DEF p
  <2>6. \A j \in DOMAIN o.in : j = i \/ j = p
    BY <1>3, <2>3, <2>4, <2>5
  <2>7. o.op \notin Rewritten
    BY <1>6 DEF Rewritten
  <2>. QED BY <1>2, <2>2, <2>6, <2>7
<1>. QED BY <1>3, <1>5, <1>6 DEF Propagates

\* Entries propagated or looked up are of such operations.
LEMMA FreshSteady ==
  ASSUME Shape, Entries, Fresh, Propagate \/ SliceOfIota
  PROVE  Steady(loop, DOMAIN affine \ guessed)'
<1>. DEFINE F == DOMAIN affine \ guessed
            G == DOMAIN affine' \ guessed'
<1>1. loop' = loop /\ body = loop.body /\ Steady(loop, F) /\ Ops = DOMAIN loop.body
  <2>1. loop' = loop
    BY PropagateIs, SliceIs
  <2>. QED BY <2>1, ShapeFacts DEF Fresh
<1>2. CASE Propagate
  <2>1. PICK x \in work :
          /\ affine' = [n \in DOMAIN affine \union NewFrom(x) |->
                          IF n \in NewFrom(x) THEN InfoOf(body[n], x, affine[x]) ELSE affine[n]]
          /\ guessed' = IF x \in guessed THEN guessed \union NewFrom(x) ELSE guessed
    BY <1>2, PropagateIs, Zenon
  <2>2. DOMAIN affine' = DOMAIN affine \union NewFrom(x)
    BY <2>1
  <2>3. F \subseteq G
    BY <2>1, <2>2 DEF NewFrom, Entries
  <2>. SUFFICES ASSUME NEW n \in G \intersect DOMAIN loop.body
                PROVE  /\ loop.body[n].op \notin Rewritten
                       /\ \A j \in DOMAIN loop.body[n].in :
                            loop.body[n].in[j].k = "val" => loop.body[n].in[j].v \in G
    BY <1>1 DEF Steady
  <2>4. CASE n \in F
    BY <1>1, <2>3, <2>4 DEF Steady
  <2>5. CASE n \notin F
    <3>1. n \in NewFrom(x) /\ x \notin guessed /\ x \in F
      BY <2>1, <2>2, <2>5 DEF Entries
    <3>2. Propagates(body[n], x) /\ \E i \in DOMAIN body[n].in : body[n].in[i] = Val(x)
      BY <3>1, UserOf DEF NewFrom
    <3>3. PICK i \in DOMAIN body[n].in : body[n].in[i] = Val(x)
      BY <3>2
    <3>4. WellFormed(body, n)
      BY <1>1, ShapeFacts
    <3>5. /\ body[n].op \notin Rewritten
          /\ \A j \in DOMAIN body[n].in : body[n].in[j].k = "val" => body[n].in[j].v = x
      BY <3>2, <3>3, <3>4, PropagatedOperands
    <3>. QED BY <1>1, <2>3, <3>1, <3>5
  <2>. QED BY <2>4, <2>5
<1>3. CASE SliceOfIota
  <2>. DEFINE n == Least(Slices)
              X == IndexOf(n)
              k == IndexKnown(n)
              z == body[n].in[1].v
  <2>1. /\ DOMAIN affine' = DOMAIN affine \union X \union {n}
        /\ guessed' = guessed \union (IF ~k THEN X \union {n} ELSE IF X \subseteq guessed THEN {n} ELSE {})
        /\ Slices # {}
    <3>1. /\ affine' = [m \in DOMAIN affine \union X \union {n} |->
                          IF m = n THEN SliceEntry(n) ELSE IF m \in X THEN IndexEntry(n) ELSE affine[m]]
          /\ guessed' = guessed \union (IF ~k THEN X \union {n} ELSE IF X \subseteq guessed THEN {n} ELSE {})
          /\ Slices # {}
      BY <1>3, SliceIs
    <3>. HIDE DEF n, X, k
    <3>. QED BY <3>1
  <2>2. n \in Ops /\ n \notin DOMAIN affine /\ body[n].op = "iota" /\ 1 \in DOMAIN body[n].in
    BY <2>1, NextSlice
  <2>3. DOMAIN body[n].in = 1 .. 1
    <3>1. WellFormed(body, n)
      BY <2>2, ShapeFacts
    <3>. HIDE DEF n
    <3>. QED BY <2>2, <3>1, ArityOf DEF UnaryNames
  <2>4. k => X = {z} /\ z \in DOMAIN affine
    BY <2>1, SliceEntryType
  <2>5. ~k => X \intersect DOMAIN affine = {}
    <3>. HIDE DEF n
    <3>. QED BY DEF IndexKnown, IndexOf
  <2>. HIDE DEF n, X, k, z
  <2>6. F \subseteq G
    BY <2>1, <2>2, <2>5
  <2>7. G \subseteq F \union {n} /\ (n \in G => z \in F)
    <3>1. n \in G => k /\ z \in F
      BY <2>1, <2>4
    <3>2. G \subseteq F \union {n}
      BY <2>1, <2>4
    <3>. QED BY <3>1, <3>2
  <2>8. n \in G => \A j \in DOMAIN body[n].in : body[n].in[j].v \in G
    <3>1. \A j \in DOMAIN body[n].in : j = 1
      BY <2>3
    <3>. QED BY <2>6, <2>7, <3>1 DEF z
  <2>9. body[n].op \notin Rewritten
    BY <2>2 DEF Rewritten
  <2>. SUFFICES ASSUME NEW m \in G \intersect DOMAIN loop.body
                PROVE  /\ loop.body[m].op \notin Rewritten
                       /\ \A j \in DOMAIN loop.body[m].in :
                            loop.body[m].in[j].k = "val" => loop.body[m].in[j].v \in G
    BY <1>1 DEF Steady
  <2>10. CASE m = n
    BY <1>1, <2>8, <2>9, <2>10
  <2>11. CASE m # n
    <3>1. m \in F
      BY <2>7, <2>11
    <3>. QED BY <1>1, <2>6, <3>1 DEF Steady
  <2>. QED BY <2>10, <2>11
<1>. QED BY <1>2, <1>3

\* The step of a loop the pass has not touched is that of its induction variable.
LEMMA FreshStep ==
  ASSUME Types, Fresh, HasStep
  PROVE  Step \in Signed(Width) /\ LinearInc(loop, Step)
<1>1. Entries /\ Shape /\ loop.inc \in DOMAIN loop.body
  BY ShapeFacts DEF Types
<1>2. Step \in Signed(Width) /\ Next_iv.v \in DOMAIN affine \ guessed /\ affine[Next_iv.v].scale = 1
  BY <1>1, StepType
<1>3. Next_iv = Val(loop.inc)
  BY <1>1 DEF Fresh, Next_iv
<1>4. Next_iv.v = loop.inc
  BY <1>3 DEF Val
<1>5. LinearEntry(loop.inc, Int)
  BY <1>2, <1>4 DEF Fresh, LinearOn
<1>6. Step = affine[loop.inc].offset /\ affine[loop.inc].scale = 1
  BY <1>2, <1>4 DEF Step
<1>. QED BY <1>2, <1>5, <1>6 DEF LinearEntry, LinearInc

\* A loop that the pass touches counts up.
LEMMA TouchedStep ==
  ASSUME Types, Fresh \/ CountsUp, [Next]_vars
  PROVE  (Fresh \/ CountsUp)'
<1>0. loop' = loop
  BY LoopKept
<1>1. CASE CountsUp
  BY <1>0, <1>1 DEF CountsUp
<1>2. CASE Fresh
  <2>0. Shape /\ Entries /\ WellFormedLoop(loop)
    BY ShapeFacts DEF Types
  <2>1. SameOn(Int) /\ LinearOn(Int) /\ Int \in SUBSET Int
    BY <1>2 DEF Fresh, SameOn, SameOperands
  <2>7. Propagate \/ SliceOfIota => Steady(loop, DOMAIN affine \ guessed)'
    BY <1>2, <2>0, FreshSteady
  <2>2. CASE Propagate
    <3>1. UNCHANGED <<loop, body, alias, phase, ranges, run>>
      BY <2>2, PropagateIs, Zenon
    <3>2. LinearOn(Int)'
      <4>1. ASSUME NEW D, D = Int PROVE LinearOn(D)'
        BY <2>0, <2>1, <2>2, <4>1, PropagateLinear
      <4>. QED BY <4>1
    <3>. QED BY <1>2, <2>2, <2>7, <3>1, <3>2 DEF Fresh, ranges
  <2>3. CASE SliceOfIota
    <3>1. loop' = loop /\ body' = body /\ alias' = alias /\ phase' = phase /\ UNCHANGED ranges
      <4>1. UNCHANGED <<loop, body, alias, phase, ranges, run>>
        BY <2>3, Zenon DEF SliceOfIota
      <4>. QED BY <4>1
    <3>2. LinearOn(Int)'
      <4>1. ASSUME NEW D, D = Int PROVE LinearOn(D)'
        BY <2>0, <2>1, <2>3, <4>1, SliceLinear
      <4>. QED BY <4>1
    <3>. QED BY <1>2, <2>3, <2>7, <3>1, <3>2 DEF Fresh, ranges
  <2>4. CASE Analysed
    <3>1. /\ body' = body /\ alias' = alias /\ UNCHANGED analysis
          /\ Rewritable \/ (phase' = "run" /\ bounds' = bounds)
      BY <2>4 DEF Analysed
    <3>2. CASE Rewritable
      <4>1. HasStep /\ ConstantNumIters(loop.start, loop.limit, Step) > 0
        BY <3>2 DEF Rewritable, IsConstant
      <4>2. Step \in Signed(Width) /\ LinearInc(loop, Step)
        BY <1>2, <4>1, FreshStep
      <4>3. loop.start < loop.limit => Step > 0
        <5>. DEFINE s == loop.start
                    t == loop.limit
                    u == Step
        <5>1. s \in Int /\ t \in Int /\ u \in Int /\ ConstantNumIters(s, t, u) > 0
          BY <2>0, <4>1, <4>2, EndsType DEF WellFormedLoop
        <5>. HIDE DEF s, t, u
        <5>2. s < t => u > 0
          BY <5>1, StepPositive
        <5>. QED BY <5>2 DEF s, t, u
      <4>4. Anchored(loop)
        <5>1. Next_iv.v \in DOMAIN affine \ guessed
          BY <2>0, <4>1, StepType
        <5>2. loop.inc \in DOMAIN loop.body /\ DOMAIN affine \subseteq 0 .. Len(loop.body)
          BY <2>0, ShapeFacts DEF Entries
        <5>3. Next_iv = Val(loop.inc)
          BY <1>2, <5>2 DEF Fresh, Next_iv
        <5>4. loop.inc \in DOMAIN affine \ guessed
          BY <5>1, <5>3 DEF Val
        <5>. QED BY <1>2, <5>2, <5>4 DEF Fresh, Anchored
      <4>5. CountsUp
        BY <4>2, <4>3, <4>4 DEF CountsUp
      <4>. QED BY <1>0, <4>5 DEF CountsUp
    <3>3. CASE phase' = "run" /\ bounds' = bounds
      <4>1. affine' = affine /\ guessed' = guessed
        BY <3>1 DEF analysis
      <4>2. LinearOn(Int)'
        BY <1>0, <2>1, <4>1 DEF LinearOn, LinearEntry
      <4>. QED BY <1>0, <1>2, <3>1, <3>3, <4>1, <4>2 DEF Fresh
    <3>. QED BY <3>1, <3>2, <3>3
  <2>5. CASE Visit \/ Annotate \/ Rewrite \/ EndRound
    <3>1. phase \in {"bounds", "fold"}
      <4>1. CASE Visit
        BY <4>1, VisitIs
      <4>2. CASE Annotate
        BY <4>2, Zenon DEF Annotate
      <4>3. CASE Rewrite
        BY <4>3, Zenon DEF Rewrite
      <4>4. CASE EndRound
        BY <4>4, Zenon DEF EndRound
      <4>. QED BY <2>5, <4>1, <4>2, <4>3, <4>4
    <3>. QED BY <1>2, <3>1 DEF Fresh
  <2>6. CASE Iterate \/ UNCHANGED vars
    <3>1. UNCHANGED <<loop, body, alias, phase, analysis, ranges>>
      <4>1. CASE Iterate
        BY <4>1, Zenon DEF Iterate
      <4>2. CASE UNCHANGED vars
        BY <4>2 DEF vars
      <4>. QED BY <2>6, <4>1, <4>2
    <3>2. bounds' = bounds /\ affine' = affine /\ guessed' = guessed
      BY <3>1 DEF ranges, analysis
    <3>3. LinearOn(Int)'
      BY <1>0, <2>1, <3>2 DEF LinearOn, LinearEntry
    <3>. QED BY <1>2, <3>1, <3>2, <3>3 DEF Fresh
  <2>. QED BY <2>2, <2>3, <2>4, <2>5, <2>6 DEF Next, Analyse
<1>. QED BY <1>1, <1>2

\* Operations F stand as they were given.
StandsAsGiven(F) == \A n \in F \intersect DOMAIN loop.body : body[n].in = loop.body[n].in /\ alias[n] = Val(n)

\* Whatever the pass rewrites, the operations that are not of the kinds it
\* rewrites, on results of such, stand as given, and their entries are right.
Undisturbed ==
  \A F \in SUBSET (0 .. Len(loop.body)) :
    Steady(loop, F) => StandsAsGiven(F) /\ LinearIn(F, Int)

\* Operations that stand as given keep their operands.
LEMMA SteadyKept ==
  ASSUME Shape, NEW F, Steady(loop, F), StandsAsGiven(F)
  PROVE  KeptIn(F, Int)
<1>. SUFFICES ASSUME NEW n \in F \intersect Ops
              PROVE  /\ \A j \in DOMAIN body[n].in : body[n].in[j].k = "val" => body[n].in[j].v \in F
                     /\ \A i \in Int, load \in Int : IsClean(loop, i, load) => OperandsKept(n, i, load)
  BY DEF KeptIn
<1>1. n \in F \intersect DOMAIN loop.body /\ body[n].in = loop.body[n].in
  BY ShapeFacts DEF StandsAsGiven
<1>2. \A j \in DOMAIN body[n].in : body[n].in[j].k = "val" => body[n].in[j].v \in F
  BY <1>1 DEF Steady
<1>3. \A i \in Int, load \in Int : OperandsKept(n, i, load)
  BY <1>1 DEF OperandsKept, Operands
<1>. QED BY <1>2, <1>3

\* Rewriting does not disturb them.
LEMMA RewriteUndisturbed ==
  ASSUME Types, NEW F, Steady(loop, F), StandsAsGiven(F), Rewrite
  PROVE  StandsAsGiven(F)'
<1>1. PICK n \in todo :
         /\ UNCHANGED <<loop, phase, analysis, bounds, visited, marks, run>>
         /\ \/ UNCHANGED <<body, alias, exact, changed>>
            \/ \E x \in Replacement(body[n], OperandRanges(n)) : Replace(n, x)
  BY RewriteCases, Zenon
<1>2. CASE UNCHANGED <<body, alias, exact, changed>>
  BY <1>1, <1>2 DEF StandsAsGiven
<1>3. CASE \E x \in Replacement(body[n], OperandRanges(n)) : Replace(n, x)
  <2>1. PICK x : Replace(n, x)
    BY <1>3
  <2>2. body' = BodyInstead(body, n, x) /\ alias' = [m \in DOMAIN body |-> Instead(alias[m], n, x)]
    BY <2>1, ReplaceIs
  <2>3. n \notin F /\ Ops = DOMAIN loop.body /\ DOMAIN body = DOMAIN loop.body
    <3>1. loop.body[n].op \in Rewritten /\ n \in DOMAIN loop.body
      BY ShapeFacts DEF Types, RangesKnown
    <3>. QED BY <3>1, ShapeFacts DEF Steady, Types, Ops
  <2>. SUFFICES ASSUME NEW m \in F \intersect DOMAIN loop.body
                PROVE  body'[m].in = loop.body[m].in /\ alias'[m] = Val(m)
    BY <1>1 DEF StandsAsGiven
  <2>4. alias'[m] = Val(m)
    <3>1. alias[m] = Val(m) /\ m # n /\ m \in DOMAIN body
      BY <2>3 DEF StandsAsGiven
    <3>2. Val(m) # Val(n)
      BY <3>1 DEF Val
    <3>. QED BY <2>2, <3>1, <3>2 DEF Instead
  <2>5. body'[m].in = loop.body[m].in
    <3>. DEFINE o == body[m]
    <3>1. body'[m] = OperationInstead(o, n, x)
      BY <2>2, <2>3 DEF BodyInstead
    <3>2. o.in = loop.body[m].in
      BY DEF StandsAsGiven
    <3>3. {"op", "in", "w"} \subseteq DOMAIN o /\ o.in \in Seq(OperandSet)
      <4>1. WellFormed(body, m)
        BY <2>3, ShapeFacts DEF Types
      <4>. QED BY <4>1, Zenon DEF WellFormed
    <3>4. \A j \in DOMAIN o.in : o.in[j] # Val(n)
      <4>1. \A j \in DOMAIN o.in : o.in[j].k = "val" => o.in[j].v \in F
        BY <3>2 DEF Steady
      <4>2. Val(n).k = "val" /\ Val(n).v = n
        BY DEF Val
      <4>. QED BY <2>3, <4>1, <4>2
    <3>. HIDE DEF o
    <3>5. OperationInstead(o, n, x).in = [j \in DOMAIN o.in |-> Instead(o.in[j], n, x)]
      BY <3>3 DEF OperationInstead
    <3>6. \A j \in DOMAIN o.in : Instead(o.in[j], n, x) = o.in[j]
      BY <3>4 DEF Instead
    <3>7. [j \in DOMAIN o.in |-> Instead(o.in[j], n, x)] = [j \in DOMAIN o.in |-> o.in[j]]
      BY <3>6
    <3>8. o.in = [j \in DOMAIN o.in |-> o.in[j]]
      <4>. DEFINE q == o.in
      <4>1. q \in [1 .. Len(q) -> OperandSet]
        <5>1. q \in Seq(OperandSet)
          BY <3>3
        <5>. HIDE DEF q
        <5>. QED BY <5>1, LenProperties
      <4>. HIDE DEF q
      <4>2. q = [j \in DOMAIN q |-> q[j]]
        BY <4>1
      <4>. QED BY <4>2 DEF q
    <3>. QED BY <3>1, <3>2, <3>5, <3>7, <3>8
  <2>. QED BY <2>4, <2>5
<1>. QED BY <1>1, <1>2, <1>3

\* Nor does anything else.
LEMMA UndisturbedStep ==
  ASSUME Types, Undisturbed, [Next]_vars
  PROVE  Undisturbed'
<1>1. loop' = loop /\ Shape /\ Entries /\ WellFormedLoop(loop)
  BY LoopKept, ShapeFacts DEF Types
<1>. SUFFICES ASSUME NEW F \in SUBSET (0 .. Len(loop.body)), Steady(loop, F)
              PROVE  StandsAsGiven(F)' /\ LinearIn(F, Int)'
  BY <1>1 DEF Undisturbed
<1>2. StandsAsGiven(F) /\ LinearIn(F, Int)
  BY DEF Undisturbed
<1>3. CASE Rewrite
  <2>1. StandsAsGiven(F)'
    BY <1>2, <1>3, RewriteUndisturbed
  <2>2. UNCHANGED analysis
    BY <1>3, Zenon DEF Rewrite
  <2>3. LinearIn(F, Int)'
    BY <1>1, <1>2, <2>2 DEF LinearIn, LinearEntry, analysis
  <2>. QED BY <2>1, <2>3
<1>4. CASE ~Rewrite
  <2>1. Propagate \/ SliceOfIota \/ Analysed \/ Visit \/ Annotate \/ EndRound \/ Iterate \/ UNCHANGED vars
    BY <1>4 DEF Next, Analyse
  <2>2. body' = body /\ alias' = alias
    BY <2>1, BodyKept
  <2>3. StandsAsGiven(F)'
    BY <1>1, <1>2, <2>2 DEF StandsAsGiven
  <2>4. CASE Propagate \/ SliceOfIota
    <3>1. KeptIn(F, Int)
      BY <1>1, <1>2, SteadyKept
    <3>2. ASSUME NEW D, D = Int PROVE LinearIn(F, D)'
      BY <1>1, <1>2, <2>4, <3>1, <3>2, PropagateIn, SliceIn
    <3>3. LinearIn(F, Int)'
      BY <3>2
    <3>. QED BY <2>3, <3>3
  <2>5. CASE UNCHANGED analysis
    <3>1. LinearIn(F, Int)'
      BY <1>1, <1>2, <2>5 DEF LinearIn, LinearEntry, analysis
    <3>. QED BY <2>3, <3>1
  <2>6. CASE EndRound
    <3>1. UNCHANGED analysis \/ affine' = StartInfo
      BY <2>6 DEF EndRound
    <3>2. CASE affine' = StartInfo
      <4>1. DOMAIN affine' = {0} /\ affine'[0] = [w |-> Width, scale |-> 1, offset |-> 0]
        BY <3>2 DEF StartInfo
      <4>2. LinearValue(loop, 0, 1, 0, Int)
        BY <1>1, StartLinear
      <4>3. LinearIn(F, Int)'
        BY <1>1, <4>1, <4>2 DEF LinearIn, LinearEntry
      <4>. QED BY <2>3, <4>3
    <3>. QED BY <2>5, <3>1, <3>2
  <2>7. CASE Analysed \/ Visit \/ Annotate \/ Iterate \/ UNCHANGED vars
    <3>1. UNCHANGED analysis
      <4>1. CASE Analysed
        BY <4>1, Zenon DEF Analysed
      <4>2. CASE Visit
        BY <4>2, Zenon DEF Visit
      <4>3. CASE Annotate
        BY <4>3, Zenon DEF Annotate
      <4>4. CASE Iterate
        BY <4>4, Zenon DEF Iterate
      <4>5. CASE UNCHANGED vars
        BY <4>5 DEF vars
      <4>. QED BY <2>7, <4>1, <4>2, <4>3, <4>4, <4>5
    <3>. QED BY <2>5, <3>1
  <2>. QED BY <2>1, <2>4, <2>6, <2>7
<1>. QED BY <1>3, <1>4

\* A multiple is at least as far from zero as what it is a multiple of.
LEMMA TimesFar ==
  ASSUME NEW q \in Int, NEW M \in Nat \ {0}
  PROVE  /\ q * M \in Int
         /\ q >= 1 => q * M >= M
         /\ q <= -1 => q * M <= -M
         /\ q <= -2 => q * M <= -(2 * M)
<1>1. q * M \in Int
  OBVIOUS
<1>2. ASSUME q >= 1 PROVE q * M >= M
  <2>1. (q - 1) * M >= 0
    BY <1>2
  <2>2. (q - 1) * M = q * M - M
    OBVIOUS
  <2>. QED BY <1>1, <2>1, <2>2
<1>3. ASSUME q <= -1 PROVE q * M <= -M
  <2>1. (-1 - q) * M >= 0
    BY <1>3
  <2>2. (-1 - q) * M = -M - q * M
    OBVIOUS
  <2>. QED BY <1>1, <2>1, <2>2
<1>4. ASSUME q <= -2 PROVE q * M <= -(2 * M)
  <2>1. (-2 - q) * M >= 0
    BY <1>4
  <2>2. (-2 - q) * M = -(2 * M) - q * M
    OBVIOUS
  <2>. QED BY <1>1, <2>1, <2>2
<1>. QED BY <1>1, <1>2, <1>3, <1>4

\* The halves of the numbers of the width.
LEMMA HalfWidth ==
  LET H == 2^(Width - 1)
  IN  H \in Nat \ {0} /\ Signed(Width) = -H .. H - 1 /\ 2^Width = 2 * H
BY WidthFacts, TwoHalves DEF Signed

\* A scale of one and an offset of st, up to multiples of M, do what they do up
\* to a multiple of M.
LEMMA ScaleAndOffset ==
  ASSUME NEW M \in Int, NEW k \in Int, NEW m \in Int, NEW st \in Int, NEW i \in Int
  PROVE  (1 + k * M) * i + (st + m * M) = i + st + (k * i + m) * M
<1>1. (1 + k * M) * i = i + (k * i) * M
  OBVIOUS
<1>2. (k * i + m) * M = (k * i) * M + m * M
  OBVIOUS
<1>3. (k * i) * M \in Int /\ m * M \in Int
  OBVIOUS
<1>. QED BY <1>1, <1>2, <1>3

\* In a clean iteration the induction variable goes up by the step, or it wraps
\* around and no iteration that starts there is clean.
LEMMA LinearNext ==
  ASSUME NEW l, WellFormedLoop(l), NEW st \in Signed(Width), st > 0, LinearInc(l, st),
         NEW i \in Signed(Width), NEW load \in Int, IsClean(l, i, load)
  PROVE  LET j == Iteration(l, i, load)[l.inc]
         IN  \/ j = i + st
             \/ j < i /\ \A other \in Int : ~IsClean(l, j, other)
<1>. DEFINE H == 2^(Width - 1)
            M == 2^Width
            j == Iteration(l, i, load)[l.inc]
<1>1. H \in Nat \ {0} /\ Signed(Width) = -H .. H - 1 /\ M = 2 * H
  BY HalfWidth
<1>2. PICK S, O \in Int : Congruent(S, 1, M) /\ Congruent(O, st, M) /\ LinearWith(l, l.inc, S, O, Int)
  BY Zenon DEF LinearInc, LinearValue
<1>3. PICK k \in Int : S = 1 + k * M
  BY <1>2 DEF Congruent
<1>4. PICK m \in Int : O = st + m * M
  BY <1>2 DEF Congruent
<1>5. \A x \in Signed(Width), other \in Int : IsClean(l, x, other) =>
        /\ Iteration(l, x, other)[l.inc] = S * x + O
        /\ Iteration(l, x, other)[l.inc] \in Signed(Width)
  <2>. SUFFICES ASSUME NEW x \in Signed(Width), NEW other \in Int, IsClean(l, x, other)
                PROVE  /\ Iteration(l, x, other)[l.inc] = S * x + O
                       /\ Iteration(l, x, other)[l.inc] \in Signed(Width)
    OBVIOUS
  <2>1. x \in Int
    BY EndsType
  <2>2. l.inc \in DOMAIN l.body /\ l.body[l.inc].w = Width
    BY DEF WellFormedLoop
  <2>3. Iteration(l, x, other)[l.inc] \in Signed(l.body[l.inc].w)
    BY <2>1, <2>2, IterationValues
  <2>. QED BY <1>2, <2>1, <2>2, <2>3 DEF LinearWith
<1>6. j = S * i + O /\ j \in Signed(Width)
  BY <1>5
<1>7. M \in Nat \ {0} /\ st \in Int /\ i \in Int /\ j \in Int
  BY <1>1, <1>6
<1>. DEFINE q == k * i + m
<1>8. q \in Int /\ j = i + st + q * M
  <2>1. q \in Int
    BY <1>3, <1>4, <1>7
  <2>2. S * i + O = i + st + q * M
    <3>. HIDE DEF M
    <3>. QED BY <1>3, <1>4, <1>6, <1>7, ScaleAndOffset
  <2>. QED BY <1>6, <2>1, <2>2
<1>. SUFFICES ASSUME j # i + st PROVE j < i /\ \A other \in Int : ~IsClean(l, j, other)
  OBVIOUS
<1>. HIDE DEF q, M, H, j
<1>9. /\ q * M \in Int
      /\ q >= 1 => q * M >= M
      /\ q <= -1 => q * M <= -M
      /\ q <= -2 => q * M <= -(2 * M)
  BY <1>7, <1>8, TimesFar
<1>10. q = -1
  <2>1. ~(q >= 1)
    BY <1>1, <1>6, <1>7, <1>8, <1>9
  <2>2. ~(q <= -2)
    BY <1>1, <1>6, <1>7, <1>8, <1>9
  <2>3. q # 0
    BY <1>7, <1>8
  <2>. QED BY <1>8, <2>1, <2>2, <2>3
<1>11. j = i + st - M
  BY <1>7, <1>8, <1>10
<1>12. j < i
  BY <1>1, <1>7, <1>11
<1>13. \A other \in Int : ~IsClean(l, j, other)
  <2>. SUFFICES ASSUME NEW other \in Int, IsClean(l, j, other) PROVE FALSE
    OBVIOUS
  <2>. DEFINE n == Iteration(l, j, other)[l.inc]
              p == k * j + m
  <2>1. n = S * j + O /\ n \in Signed(Width)
    BY <1>5, <1>6
  <2>2. p \in Int /\ n = j + st + p * M
    <3>1. p \in Int
      BY <1>3, <1>4, <1>7
    <3>2. S * j + O = j + st + p * M
      BY <1>3, <1>4, <1>6, <1>7, ScaleAndOffset
    <3>. QED BY <2>1, <3>1, <3>2
  <2>. DEFINE d == i - j
  <2>3. d \in Nat /\ d >= 2
    BY <1>1, <1>7, <1>11
  <2>4. q - p = k * d
    BY <1>7 DEF q
  <2>. HIDE DEF n, p
  <2>5. /\ p * M \in Int
        /\ p >= 1 => p * M >= M
        /\ p <= -1 => p * M <= -M
    BY <1>7, <2>2, TimesFar
  <2>6. p = 0
    <3>1. ~(p >= 1)
      BY <1>1, <1>6, <1>7, <1>11, <2>1, <2>2, <2>5
    <3>2. ~(p <= -1)
      BY <1>1, <1>6, <1>7, <1>11, <2>1, <2>2, <2>5
    <3>. QED BY <2>2, <3>1, <3>2
  <2>7. k * d = -1
    BY <1>10, <2>4, <2>6
  <2>. HIDE DEF d
  <2>8. /\ k >= 1 => k * d >= d
        /\ k <= -1 => k * d <= -d
    BY <1>3, <2>3, TimesFar
  <2>9. k = 0 => k * d = 0
    BY <2>3
  <2>. QED BY <1>3, <2>3, <2>7, <2>8, <2>9
<1>. QED BY <1>12, <1>13

\* The induction variable is where iters steps of st lead it from the start, and
\* was short of the limit a step before; or it is stuck.
OnTrack(st) ==
  /\ iv = loop.start + iters * st
  /\ iters > 0 => loop.start + (iters - 1) * st < loop.limit
Stuck == iv < loop.limit /\ \A load \in Int : ~IsClean(loop, iv, load)
Trips ==
  /\ iters = 0 => iv = loop.start
  /\ iters > 0 => loop.start < loop.limit
  /\ iters > 0 /\ clean => \E load \in Int : IsClean(loop, loop.start, load)
  /\ clean => \A st \in Signed(Width) : st > 0 /\ LinearInc(loop, st) => OnTrack(st) \/ Stuck

\* Every iteration keeps it there.
LEMMA TripsStep ==
  ASSUME Types, Trips, [Next]_vars
  PROVE  Trips'
<1>0. loop' = loop /\ WellFormedLoop(loop) /\ RunTypes
  BY LoopKept, ShapeFacts DEF Types
<1>1. CASE Iterate
  <2>1. iv < loop.limit /\ iters' = iters + 1 /\ iv' = Given[loop.inc] /\ clean' = CleanSoFar
    BY <1>1, Zenon DEF Iterate, Running
  <2>2. clean' => clean /\ IsClean(loop, iv, data)
    BY <2>1, Zenon DEF CleanSoFar
  <2>3. iv' = Iteration(loop, iv, data)[loop.inc]
    BY <2>1 DEF Given, Iteration
  <2>4. iters \in Nat /\ iters' \in Nat /\ iters' > 0 /\ iv \in Signed(Width) /\ iv \in Int /\ data \in Int
        /\ loop.start \in Int /\ loop.limit \in Int
    BY <1>0, <2>1, MaxItersAssumption, EndsType DEF RunTypes, WellFormedLoop
  <2>5. loop.start < loop.limit
    <3>1. CASE iters = 0
      BY <2>1, <3>1 DEF Trips
    <3>2. CASE iters > 0
      BY <3>2 DEF Trips
    <3>. QED BY <2>4, <3>1, <3>2
  <2>6. clean' => \E load \in Int : IsClean(loop, loop.start, load)
    <3>1. CASE iters = 0
      BY <2>2, <2>4, <3>1 DEF Trips
    <3>2. CASE iters > 0
      BY <2>2, <3>2 DEF Trips
    <3>. QED BY <2>4, <3>1, <3>2
  <2>7. ASSUME clean', NEW st \in Signed(Width), st > 0, LinearInc(loop, st)
        PROVE  \/ iv' = loop.start + iters' * st /\ loop.start + (iters' - 1) * st < loop.limit
               \/ iv' < loop.limit /\ \A load \in Int : ~IsClean(loop, iv', load)
    <3>1. OnTrack(st) \/ Stuck
      BY <2>2, <2>7 DEF Trips
    <3>2. OnTrack(st)
      BY <2>2, <2>4, <2>7, <3>1 DEF Stuck
    <3>3. iv = loop.start + iters * st
      BY <3>2 DEF OnTrack
    <3>4. \/ iv' = iv + st
          \/ iv' < iv /\ \A load \in Int : ~IsClean(loop, iv', load)
      BY <1>0, <2>2, <2>3, <2>4, <2>7, LinearNext
    <3>5. CASE iv' = iv + st
      <4>1. st \in Int
        BY EndsType
      <4>2. (iters + 1) * st = iters * st + st /\ iters * st \in Int
        BY <2>4, <4>1
      <4>3. iters' - 1 = iters
        BY <2>1, <2>4
      <4>4. loop.start + iters' * st = iv'
        BY <2>1, <2>4, <3>3, <3>5, <4>1, <4>2
      <4>5. loop.start + (iters' - 1) * st < loop.limit
        BY <2>1, <3>3, <4>3
      <4>. QED BY <4>4, <4>5
    <3>6. CASE iv' < iv /\ \A load \in Int : ~IsClean(loop, iv', load)
      <4>1. iv' \in Int
        <5>1. loop.inc \in DOMAIN loop.body /\ loop.inc \in 0 .. Len(loop.body)
          BY <1>0 DEF WellFormedLoop
        <5>2. Iteration(loop, iv, data) \in [0 .. Len(loop.body) -> Int]
          BY <1>0, <2>4, IterationValues
        <5>. QED BY <2>3, <5>1, <5>2
      <4>2. iv' < loop.limit
        BY <2>1, <2>4, <3>6, <4>1
      <4>. QED BY <3>6, <4>2
    <3>. QED BY <3>4, <3>5, <3>6
  <2>8. clean' => \A st \in Signed(Width) : st > 0 /\ LinearInc(loop, st) => (OnTrack(st) \/ Stuck)'
    BY <1>0, <2>7 DEF OnTrack, Stuck
  <2>9. iters' # 0
    BY <2>4
  <2>. QED BY <1>0, <2>5, <2>6, <2>8, <2>9 DEF Trips
<1>2. CASE ~Iterate
  <2>1. iv' = iv /\ iters' = iters /\ clean' = clean
    <3>1. UNCHANGED run
      <4>1. CASE Propagate
        BY <4>1, Zenon DEF Propagate
      <4>2. CASE SliceOfIota
        BY <4>2, Zenon DEF SliceOfIota
      <4>3. CASE Analysed
        BY <4>3, Zenon DEF Analysed
      <4>4. CASE Visit
        BY <4>4, Zenon DEF Visit
      <4>5. CASE Annotate
        BY <4>5, Zenon DEF Annotate
      <4>6. CASE Rewrite
        BY <4>6, Zenon DEF Rewrite
      <4>7. CASE EndRound
        BY <4>7, Zenon DEF EndRound
      <4>8. CASE UNCHANGED vars
        BY <4>8 DEF vars
      <4>. QED BY <1>2, <4>1, <4>2, <4>3, <4>4, <4>5, <4>6, <4>7, <4>8 DEF Next, Analyse
    <3>. QED BY <3>1 DEF run
  <2>. QED BY <1>0, <2>1 DEF Trips, OnTrack, Stuck
<1>. QED BY <1>1, <1>2

-----------------------------------------------------------------------------
(* Entries up to the narrowest width                                       *)

\* No value of the loop goes through fewer bits than the narrowest.
LEMMA NarrowestType ==
  ASSUME WellFormedLoop(loop)
  PROVE  /\ Narrowest \in 1 .. Width
         /\ \A n \in DOMAIN loop.body : Narrowest \in 1 .. loop.body[n].w
<1>. DEFINE T == {Width} \union {loop.body[n].w : n \in DOMAIN loop.body}
<1>1. T \in SUBSET (Nat \ {0})
  <2>1. \A n \in DOMAIN loop.body : loop.body[n].w \in Nat \ {0}
    <3>. SUFFICES ASSUME NEW n \in DOMAIN loop.body PROVE loop.body[n].w \in Nat \ {0}
      OBVIOUS
    <3>1. WellFormed(loop.body, n)
      BY DEF WellFormedLoop
    <3>. QED BY <3>1, Zenon DEF WellFormed
  <2>. QED BY <2>1, WidthFacts
<1>2. Width \in T /\ \A n \in DOMAIN loop.body : loop.body[n].w \in T
  OBVIOUS
<1>3. Narrowest = Least(T)
  BY DEF Narrowest
<1>. HIDE DEF T
<1>4. Least(T) \in T /\ \A y \in T : Least(T) <= y
  <2>1. T \in SUBSET Nat /\ T # {}
    BY <1>1, <1>2
  <2>. QED BY <2>1, LeastOf
<1>. DEFINE k == Least(T)
<1>5. k \in Nat \ {0} /\ k <= Width /\ \A n \in DOMAIN loop.body : k <= loop.body[n].w /\ loop.body[n].w \in Nat
  BY <1>1, <1>2, <1>4
<1>. HIDE DEF k
<1>6. k \in 1 .. Width /\ \A n \in DOMAIN loop.body : k \in 1 .. loop.body[n].w
  BY <1>5, WidthFacts
<1>. QED BY <1>3, <1>6 DEF k

\* The power of two of a narrower width divides that of a wider one.
LEMMA PowersDivide ==
  ASSUME NEW w \in Nat, Doubling(w), NEW m \in 0 .. w
  PROVE  \E q \in Int : 2^w = q * 2^m
<1>. DEFINE S == {n \in Nat : m + n <= w => \E q \in Int : 2^(m + n) = q * 2^m}
<1>1. 0 \in S
  <2>1. m + 0 = m /\ 2^m = 1 * 2^m /\ 1 \in Int
    <3>1. 2^m \in Int
      OBVIOUS
    <3>. QED BY <3>1
  <2>. QED BY <2>1
<1>2. \A n \in 0 .. (w - m) - 1 : n \in S => n + 1 \in S
  <2>. SUFFICES ASSUME NEW n \in 0 .. (w - m) - 1, NEW q \in Int, 2^(m + n) = q * 2^m
                PROVE  \E r \in Int : 2^(m + n + 1) = r * 2^m
    OBVIOUS
  <2>. DEFINE p == m + n + 1
              M == 2^m
  <2>1. p \in 1 .. w /\ p - 1 = m + n /\ M \in Int
    OBVIOUS
  <2>2. 2^p = 2 * 2^(p - 1)
    BY <2>1 DEF Doubling
  <2>3. 2^(m + n) = q * M
    OBVIOUS
  <2>4. 2^p = 2 * (q * M)
    BY <2>1, <2>2, <2>3
  <2>. HIDE DEF M
  <2>5. 2 * (q * M) = (2 * q) * M /\ 2 * q \in Int
    BY <2>1
  <2>. QED BY <2>4, <2>5 DEF M
<1>3. \A n \in 0 .. (w - m) : n \in S
  <2>. HIDE DEF S
  <2>1. w - m \in Nat
    OBVIOUS
  <2>. QED BY <1>1, <1>2, <2>1, UpTo
<1>4. w - m \in S
  BY <1>3
<1>5. m + (w - m) = w /\ w - m \in Nat
  OBVIOUS
<1>. QED BY <1>4, <1>5

\* Numbers that differ by a multiple of a multiple of m differ by one of m.
LEMMA CongruentCoarser ==
  ASSUME NEW a \in Int, NEW b \in Int, NEW w \in Nat, Doubling(w), NEW m \in 0 .. w, Congruent(a, b, 2^w)
  PROVE  Congruent(a, b, 2^m)
<1>. DEFINE M == 2^m
            W == 2^w
<1>1. PICK q \in Int : W = q * M
  BY PowersDivide
<1>2. PICK k \in Int : a = b + k * W
  BY DEF Congruent
<1>3. M \in Int
  OBVIOUS
<1>. HIDE DEF M, W
<1>4. k * W = (k * q) * M /\ k * q \in Int
  BY <1>1, <1>3
<1>5. a = b + (k * q) * M
  BY <1>2, <1>4
<1>6. \E j \in Int : a = b + j * M
  BY <1>4, <1>5
<1>. QED BY <1>6 DEF Congruent, M

\* A number differs from itself by no multiple.
LEMMA CongruentSelf == ASSUME NEW a \in Int, NEW m \in Int PROVE Congruent(a, a, m)
<1>1. 0 \in Int /\ a = a + 0 * m
  OBVIOUS
<1>. QED BY <1>1 DEF Congruent

\* A multiple of a linear value plus a constant is linear, up to multiples of m,
\* whatever multiples were cut off.
LEMMA NearTimes ==
  ASSUME NEW m \in Int, NEW v \in Int, NEW s \in Int, NEW o \in Int, NEW i \in Int, NEW c \in Int, NEW d \in Int,
         NEW r \in Int, NEW S \in Int, NEW O \in Int,
         Congruent(v, s * i + o, m), Congruent(r, c * v + d, m), Congruent(S, c * s, m), Congruent(O, c * o + d, m)
  PROVE  Congruent(r, S * i + O, m)
<1>. DEFINE h == s * i
<1>1. PICK a \in Int : v = h + o + a * m
  BY DEF Congruent
<1>2. PICK b \in Int : r = c * v + d + b * m
  BY DEF Congruent
<1>3. PICK e \in Int : S = c * s + e * m
  BY DEF Congruent
<1>4. PICK f \in Int : O = c * o + d + f * m
  BY DEF Congruent
<1>5. c * h = (c * s) * i /\ h \in Int
  OBVIOUS
<1>. HIDE DEF h
<1>6. c * (h + o + a * m) = c * h + c * o + (c * a) * m
  BY <1>5
<1>7. (c * s + e * m) * i = (c * s) * i + (e * i) * m
  <2>. DEFINE p == c * s
              q == e * m
  <2>1. p \in Int /\ q \in Int
    OBVIOUS
  <2>2. q * i = (e * i) * m
    OBVIOUS
  <2>. HIDE DEF p, q
  <2>3. (p + q) * i = p * i + q * i
    BY <2>1
  <2>. QED BY <2>2, <2>3 DEF p, q
<1>. DEFINE z == c * a + b - e * i - f
<1>8. z \in Int /\ z * m = (c * a) * m + b * m - (e * i) * m - f * m
  OBVIOUS
<1>. HIDE DEF z
<1>9. S * i = c * h + (e * i) * m
  BY <1>3, <1>5, <1>7
<1>10. r = c * h + c * o + (c * a) * m + d + b * m
  BY <1>1, <1>2, <1>6
<1>11. /\ c * h \in Int /\ c * o \in Int /\ (c * a) * m \in Int /\ b * m \in Int
       /\ (e * i) * m \in Int /\ f * m \in Int /\ S * i \in Int /\ z * m \in Int
  BY <1>5, <1>8
<1>12. r = S * i + O + z * m
  <2>. DEFINE p1 == c * h
              p2 == c * o
              p3 == (c * a) * m
              p4 == b * m
              p5 == (e * i) * m
              p6 == f * m
              p7 == S * i
              p8 == z * m
  <2>1. /\ p1 \in Int /\ p2 \in Int /\ p3 \in Int /\ p4 \in Int /\ p5 \in Int /\ p6 \in Int
        /\ p7 \in Int /\ p8 \in Int
    BY <1>11
  <2>2. /\ O = p2 + d + p6 /\ p8 = p3 + p4 - p5 - p6 /\ p7 = p1 + p5
        /\ r = p1 + p2 + p3 + d + p4
    BY <1>4, <1>8, <1>9, <1>10
  <2>. HIDE DEF p1, p2, p3, p4, p5, p6, p7, p8
  <2>3. r = p7 + O + p8
    BY ONLY <2>1, <2>2, d \in Int
  <2>. QED BY <2>3 DEF p7, p8
<1>13. \E k \in Int : r = S * i + O + k * m
  BY <1>8, <1>12
<1>. QED BY <1>13 DEF Congruent

\* Every slice of an iota lies within it, in one iteration.
InIotas(l, i, load) ==
  \A n \in DOMAIN l.body : l.body[n].op = "iota" =>
    Operands(l.body[n], Iteration(l, i, load), l.arg)[1] \in 0 .. l.body[n].size - 1

\* The value x is what its entry says in every such iteration, whatever
\* overflows, up to multiples of the narrowest width; and so are all entries.
Near(x, cur) ==
  \A i \in Int, load \in Int : InIotas(loop, i, load) =>
    Congruent(Iteration(loop, i, load)[x], cur.scale * i + cur.offset, 2^Narrowest)
NearlyLinear == \A x \in DOMAIN affine \ guessed : affine[x].w = Width /\ Near(x, affine[x])

\* A result that is cut is kept up to multiples of the narrowest width.
LEMMA UncutValue ==
  ASSUME WellFormedLoop(loop), NEW i \in Int, NEW load \in Int, NEW n \in DOMAIN loop.body
  PROVE  LET v == Iteration(loop, i, load)
             r == Result(loop.body[n], Operands(loop.body[n], v, loop.arg), load)
         IN  r \in Int /\ v \in [0 .. Len(loop.body) -> Int] /\ v[n] \in Int /\ Congruent(v[n], r, 2^Narrowest)
<1>. DEFINE v == Iteration(loop, i, load)
            o == loop.body[n]
            r == Result(o, Operands(o, v, loop.arg), load)
<1>1. v \in [0 .. Len(loop.body) -> Int] /\ v[n] = NextValue(loop, loop.body, v, i, load, n)
  BY IterationValues
<1>2. /\ WellFormed(loop.body, n) /\ Doubling(o.w) /\ loop.arg \in Int
      /\ DOMAIN loop.body = 1 .. Len(loop.body) /\ Len(loop.body) \in Nat
  BY DEF WellFormedLoop
<1>3. o.w \in Nat \ {0}
  BY <1>2, Zenon DEF WellFormed
<1>4. n # 0 /\ n \in 0 .. Len(loop.body)
  BY <1>2
<1>5. v[n] = Wrap(r, o.w)
  BY <1>1, <1>4 DEF NextValue
<1>6. r \in Int
  <2>1. \A m \in 0 .. n - 1 : v[m] \in Int
    BY <1>1, <1>2
  <2>2. Operands(o, v, loop.arg) \in [DOMAIN o.in -> Int]
    <3>. HIDE DEF v
    <3>. QED BY <1>2, <2>1, OperandsType
  <2>. DEFINE a == Operands(o, v, loop.arg)
  <2>3. a \in [DOMAIN o.in -> Int]
    BY <2>2
  <2>. HIDE DEF a
  <2>4. Result(o, a, load) \in Int
    BY <1>2, <2>3, ResultType
  <2>. QED BY <2>4 DEF a
<1>. HIDE DEF r, v, o
<1>7. v[n] \in Int /\ Congruent(v[n], r, 2^o.w)
  BY <1>2, <1>3, <1>5, <1>6, WrapType
<1>8. Narrowest \in 0 .. o.w
  BY <1>3, NarrowestType DEF o
<1>9. Congruent(v[n], r, 2^Narrowest)
  BY <1>2, <1>3, <1>6, <1>7, <1>8, CongruentCoarser
<1>. QED BY <1>1, <1>6, <1>7, <1>9 DEF v, r, o

\* An entry derived from one that is right is right.
LEMMA NearDerived ==
  ASSUME WellFormedLoop(loop), NEW x \in 0 .. Len(loop.body), NEW n \in DOMAIN loop.body,
         NEW cur \in EntrySet, Near(x, cur), NEW c \in Int, NEW d \in Int,
         \A i \in Int, load \in Int : InIotas(loop, i, load) =>
           Result(loop.body[n], Operands(loop.body[n], Iteration(loop, i, load), loop.arg), load)
             = c * Iteration(loop, i, load)[x] + d,
         NEW new, new.scale = Wrap(c * cur.scale, Width), new.offset = Wrap(c * cur.offset + d, Width)
  PROVE  Near(n, new)
<1>. SUFFICES ASSUME NEW i \in Int, NEW load \in Int, InIotas(loop, i, load)
              PROVE  Congruent(Iteration(loop, i, load)[n], new.scale * i + new.offset, 2^Narrowest)
  BY DEF Near
<1>. DEFINE v == Iteration(loop, i, load)
            r == Result(loop.body[n], Operands(loop.body[n], v, loop.arg), load)
            P == 2^Narrowest
            s == cur.scale
            o == cur.offset
            S == new.scale
            O == new.offset
<1>1. r = c * v[x] + d
  OBVIOUS
<1>2. v \in [0 .. Len(loop.body) -> Int] /\ v[n] \in Int /\ Congruent(v[n], r, P)
  BY UncutValue
<1>3. Congruent(v[x], s * i + o, P)
  BY DEF Near
<1>4. s \in Int /\ o \in Int
  BY EndsType DEF EntrySet
<1>5. P \in Int /\ Narrowest \in 0 .. Width
  <2>1. Narrowest \in 1 .. Width
    BY NarrowestType
  <2>. QED BY <2>1, WidthFacts
<1>6. S \in Int /\ Congruent(S, c * s, P) /\ O \in Int /\ Congruent(O, c * o + d, P)
  <2>. DEFINE y == c * s
              z == c * o + d
  <2>1. y \in Int /\ z \in Int /\ S = Wrap(y, Width) /\ O = Wrap(z, Width)
    BY <1>4
  <2>. HIDE DEF y, z, S, O
  <2>2. S \in Int /\ Congruent(S, y, 2^Width) /\ O \in Int /\ Congruent(O, z, 2^Width)
    BY <2>1, WidthFacts, WrapType
  <2>3. Congruent(S, y, P) /\ Congruent(O, z, P)
    BY <1>5, <2>1, <2>2, WidthFacts, CongruentCoarser
  <2>. QED BY <2>2, <2>3 DEF y, z
<1>7. v[x] \in Int
  BY <1>2
<1>. HIDE DEF v, r, P, s, o, S, O
<1>8. Congruent(v[n], c * v[x] + d, P)
  BY <1>1, <1>2
<1>9. Congruent(v[n], S * i + O, P)
  <2>. DEFINE a == v[n]
              b == v[x]
  <2>1. a \in Int /\ b \in Int /\ Congruent(b, s * i + o, P) /\ Congruent(a, c * b + d, P)
    BY <1>2, <1>3, <1>7, <1>8
  <2>. HIDE DEF a, b
  <2>2. Congruent(a, S * i + O, P)
    BY <1>4, <1>5, <1>6, <2>1, NearTimes
  <2>. QED BY <2>2 DEF a
<1>. QED BY <1>9 DEF v, S, O, P

\* Propagating keeps entries right, up to the narrowest width, while the body
\* is as given.
LEMMA PropagateNear ==
  ASSUME Shape, Entries, body = loop.body, NearlyLinear, Propagate
  PROVE  NearlyLinear'
<1>1. PICK x \in work :
        /\ affine' = [n \in DOMAIN affine \union NewFrom(x) |->
                        IF n \in NewFrom(x) THEN InfoOf(body[n], x, affine[x]) ELSE affine[n]]
        /\ guessed' = IF x \in guessed THEN guessed \union NewFrom(x) ELSE guessed
  BY PropagateIs, Zenon
<1>2. loop' = loop
  BY PropagateIs
<1>. DEFINE N == NewFrom(x)
<1>3. \A n \in N : n \in Users(x) /\ Propagates(body[n], x) /\ n \in Ops /\ n \notin DOMAIN affine
                   /\ \E j \in DOMAIN body[n].in : body[n].in[j] = Val(x)
  BY UserOf DEF NewFrom
<1>4. x \in DOMAIN affine /\ x \in 0 .. Len(loop.body) /\ affine[x] \in EntrySet
  BY DEF Entries
<1>. HIDE DEF N
<1>5. /\ DOMAIN affine' = DOMAIN affine \union N
      /\ \A n \in DOMAIN affine' : affine'[n] = IF n \in N THEN InfoOf(body[n], x, affine[x]) ELSE affine[n]
      /\ guessed' = IF x \in guessed THEN guessed \union N ELSE guessed
  BY <1>1 DEF N
<1>. SUFFICES ASSUME NEW n \in DOMAIN affine', n \notin guessed'
              PROVE  affine'[n].w = Width /\ Near(n, affine'[n])
  BY <1>2 DEF NearlyLinear, Near, Narrowest
<1>6. CASE n \notin N
  <2>1. n \in DOMAIN affine \ guessed /\ affine'[n] = affine[n]
    BY <1>5, <1>6
  <2>. QED BY <2>1 DEF NearlyLinear
<1>7. CASE n \in N
  <2>. DEFINE cur == affine[x]
              new == affine'[n]
  <2>1. x \notin guessed /\ new = InfoOf(body[n], x, cur)
    BY <1>5, <1>7
  <2>2. cur.w = Width /\ Near(x, cur) /\ cur \in EntrySet
    BY <1>4, <2>1 DEF NearlyLinear
  <2>3. n \in Ops /\ Propagates(body[n], x)
    BY <1>3, <1>7
  <2>4. PICK j \in DOMAIN body[n].in : body[n].in[j] = Val(x)
    BY <1>3, <1>7
  <2>5. WellFormedLoop(loop) /\ WellFormed(body, n) /\ loop.arg \in Int /\ n \in DOMAIN loop.body
    BY <2>3, ShapeFacts
  <2>. HIDE DEF cur, new
  <2>6. ScalesOperand(body[n], x, cur)
    BY <2>3, <2>4, <2>5, Propagated
  <2>7. PICK c, d \in Int : Scales(body[n], x, cur, c, d)
    BY <2>6, Zenon DEF ScalesOperand
  <2>8. \A i \in Int, load \in Int : InIotas(loop, i, load) =>
          Result(loop.body[n], Operands(loop.body[n], Iteration(loop, i, load), loop.arg), load)
            = c * Iteration(loop, i, load)[x] + d
    <3>. SUFFICES ASSUME NEW i \in Int, NEW load \in Int
                  PROVE  Result(body[n], Operands(body[n], Iteration(loop, i, load), loop.arg), load)
                           = c * Iteration(loop, i, load)[x] + d
      OBVIOUS
    <3>. DEFINE v == Iteration(loop, i, load)
    <3>1. v \in [0 .. Len(loop.body) -> Int]
      BY <2>5, UncutValue
    <3>2. v[x] \in Int
      BY <1>4, <3>1
    <3>. HIDE DEF v
    <3>3. Result(body[n], Operands(body[n], v, loop.arg), load) = c * v[x] + d
      BY <2>7, <3>2, Zenon DEF Scales
    <3>. QED BY <3>3 DEF v
  <2>9. cur.scale \in Int /\ cur.offset \in Int /\ cur.scale \in Signed(Width) /\ cur.offset \in Signed(Width)
    BY <2>2, EndsType DEF EntrySet
  <2>10. /\ new.w = Width
         /\ new.scale = Wrap(c * cur.scale, Width)
         /\ new.offset = Wrap(c * cur.offset + d, Width)
    <3>1. CASE InfoOf(body[n], x, cur) = Update(cur, c, d)
      <4>1. LET next == Update(cur, c, d)
            IN  /\ next.w = cur.w
                /\ next.scale = Wrap(c * cur.scale, cur.w) /\ next.offset = Wrap(c * cur.offset + d, cur.w)
        BY <2>2, UpdateType
      <4>. QED BY <2>1, <2>2, <3>1, <4>1
    <3>2. CASE InfoOf(body[n], x, cur) = cur /\ c = 1 /\ d = 0
      <4>1. c * cur.scale = cur.scale /\ c * cur.offset + d = cur.offset
        BY <2>9, <3>2
      <4>2. Wrap(c * cur.scale, Width) = cur.scale /\ Wrap(c * cur.offset + d, Width) = cur.offset
        BY <2>9, <4>1, EndsType
      <4>. QED BY <2>1, <2>2, <3>2, <4>2
    <3>3. InfoOf(body[n], x, cur) = Update(cur, c, d) \/ (InfoOf(body[n], x, cur) = cur /\ c = 1 /\ d = 0)
      BY <2>7, Zenon DEF Scales
    <3>. QED BY <3>1, <3>2, <3>3
  <2>11. Near(n, new)
    BY <1>4, <2>2, <2>5, <2>8, <2>10, NearDerived
  <2>. QED BY <2>10, <2>11 DEF new
<1>. QED BY <1>6, <1>7

\* So do slices of iotas.
LEMMA SliceNear ==
  ASSUME Shape, Entries, body = loop.body, NearlyLinear, SliceOfIota
  PROVE  NearlyLinear'
<1>. DEFINE n == Least(Slices)
            X == IndexOf(n)
            c == IndexEntry(n)
            e == SliceEntry(n)
            y == body[n].in[1]
            z == y.v
            k == IndexKnown(n)
            t == body[n].stride
            f == body[n].first
<1>1. /\ affine' = [m \in DOMAIN affine \union X \union {n} |-> IF m = n THEN e ELSE IF m \in X THEN c ELSE affine[m]]
      /\ guessed' = guessed \union (IF ~k THEN X \union {n} ELSE IF X \subseteq guessed THEN {n} ELSE {})
      /\ Slices # {} /\ loop' = loop
  BY SliceIs
<1>2. n \in Ops /\ n \notin DOMAIN affine /\ body[n].op = "iota" /\ 1 \in DOMAIN body[n].in
      /\ t \in Int /\ f \in Int /\ body[n].size \in Nat \ {0} /\ n \in DOMAIN loop.body
  BY <1>1, NextSlice, ShapeFacts
<1>3. /\ n \notin X /\ c \in EntrySet
      /\ k => c = affine[z] /\ X = {z} /\ z \in DOMAIN affine
      /\ k => y.k = "val"
  <2>1. k => y.k = "val"
    BY DEF IndexKnown, IndexOf
  <2>. QED BY <1>1, <2>1, SliceEntryType
<1>4. e = [w |-> c.w, scale |-> Wrap(c.scale * t, c.w), offset |-> Wrap(t * c.offset + f, c.w)]
  BY DEF SliceEntry
<1>5. k => \A i \in Int, load \in Int : InIotas(loop, i, load) =>
             Result(loop.body[n], Operands(loop.body[n], Iteration(loop, i, load), loop.arg), load)
               = t * Iteration(loop, i, load)[z] + f
  <2>. SUFFICES ASSUME k, NEW i \in Int, NEW load \in Int, InIotas(loop, i, load)
                PROVE  Result(body[n], Operands(body[n], Iteration(loop, i, load), loop.arg), load)
                         = t * Iteration(loop, i, load)[z] + f
    OBVIOUS
  <2>. DEFINE v == Iteration(loop, i, load)
              a == Operands(body[n], v, loop.arg)
              o == body[n]
              p == a[1]
              q == o.size - 1
  <2>1. p \in 0 .. q /\ q \in Int
    BY <1>2 DEF InIotas
  <2>2. a[1] = Operand(y, v, loop.arg)
    BY <1>2, OperandAt
  <2>3. a[1] = v[z]
    BY <1>3, <2>2, OperandRules
  <2>4. ResultRules(o, a, load)
    BY ResultFollows
  <2>5. Result(o, a, load) = o.first + o.stride * Least({Greatest({a[1], 0}), o.size - 1})
    BY <1>2, <2>4 DEF ResultRules
  <2>6. Least({Greatest({p, 0}), q}) = p
    <3>. HIDE DEF p, q
    <3>1. Greatest({p, 0}) = p
      BY <2>1, GreatestPair
    <3>2. Least({p, q}) = p
      BY <2>1, LeastPair
    <3>. QED BY <3>1, <3>2
  <2>7. Result(o, a, load) = f + t * v[z] /\ v[z] \in Int
    BY <2>1, <2>3, <2>5, <2>6
  <2>. HIDE DEF v, a, o, t, f
  <2>8. f + t * v[z] = t * v[z] + f
    BY <1>2, <2>7
  <2>. QED BY <2>7, <2>8 DEF v, a, o
<1>6. Shape /\ WellFormedLoop(loop)
  BY ShapeFacts
<1>11. loop' = loop
  BY <1>1
<1>. HIDE DEF n, X, c, e, z, k, t, f
<1>7. /\ DOMAIN affine' = DOMAIN affine \union X \union {n}
      /\ \A m \in DOMAIN affine' : affine'[m] = IF m = n THEN e ELSE IF m \in X THEN c ELSE affine[m]
  BY <1>1
<1>. SUFFICES ASSUME NEW m \in DOMAIN affine', m \notin guessed'
              PROVE  affine'[m].w = Width /\ Near(m, affine'[m])
  BY <1>11 DEF NearlyLinear, Near, Narrowest
<1>8. m \notin guessed
  BY <1>1
<1>9. CASE m # n
  <2>1. m \in DOMAIN affine /\ affine'[m] = affine[m]
    <3>1. CASE m \in X
      <4>1. k
        BY <1>1, <3>1
      <4>. QED BY <1>3, <1>7, <1>9, <3>1, <4>1
    <3>2. CASE m \notin X
      BY <1>7, <1>9, <3>2
    <3>. QED BY <3>1, <3>2
  <2>. QED BY <1>8, <2>1 DEF NearlyLinear
<1>10. CASE m = n
  <2>1. k /\ z \notin guessed
    <3>1. k
      BY <1>1, <1>10
    <3>2. ~(X \subseteq guessed)
      BY <1>1, <1>10, <3>1
    <3>. QED BY <1>3, <3>1, <3>2
  <2>2. c = affine[z] /\ z \in DOMAIN affine
    BY <1>3, <2>1
  <2>3. c.w = Width /\ Near(z, c)
    BY <2>1, <2>2 DEF NearlyLinear
  <2>4. z \in 0 .. Len(loop.body)
    BY <2>2 DEF Entries
  <2>5. c.scale \in Int /\ t * c.scale = c.scale * t
    <3>1. c.scale \in Int
      BY <1>3, EndsType DEF EntrySet
    <3>. QED BY <1>2, <3>1
  <2>6. e.w = Width /\ e.scale = Wrap(t * c.scale, Width) /\ e.offset = Wrap(t * c.offset + f, Width)
    BY <1>4, <2>3, <2>5
  <2>7. Near(n, e)
    BY <1>2, <1>3, <1>5, <1>6, <2>1, <2>3, <2>4, <2>6, NearDerived
  <2>. QED BY <1>7, <1>10, <2>6, <2>7
<1>. QED BY <1>9, <1>10\* As long as no operation is replaced the body is as given, and every entry
\* right up to the narrowest width, in iterations that overflow too.
Plain == AsGiven => body = loop.body /\ NearlyLinear

\* An operation is never replaced with itself.
LEMMA ReplacedOnce ==
  ASSUME Types, Rewrite
  PROVE  (body' = body /\ alias' = alias) \/ ~AsGiven'
<1>1. PICK n \in todo :
         /\ UNCHANGED <<loop, phase, analysis, bounds, visited, marks, run>>
         /\ \/ UNCHANGED <<body, alias, exact, changed>>
            \/ \E x \in Replacement(body[n], OperandRanges(n)) : Replace(n, x)
  BY RewriteCases, Zenon
<1>2. CASE UNCHANGED <<body, alias, exact, changed>>
  BY <1>2
<1>3. CASE \E x \in Replacement(body[n], OperandRanges(n)) : Replace(n, x)
  <2>1. PICK x \in Replacement(body[n], OperandRanges(n)) : Replace(n, x)
    BY <1>3
  <2>2. body' = BodyInstead(body, n, x) /\ alias' = [m \in DOMAIN body |-> Instead(alias[m], n, x)]
    BY <2>1, ReplaceIs
  <2>3. n \in DOMAIN body /\ loop.body[n].op \in Rewritten /\ WellFormedLoop(loop) /\ SameShape(loop, body)
        /\ n \in DOMAIN loop.body /\ n \in Nat
    BY ShapeFacts DEF Types, RangesKnown, Ops
  <2>4. Substitute(loop, body, n, x)
    <3>1. body[n].op \in Rewritten
      BY <2>3 DEF SameShape, SameOperation
    <3>. QED BY <2>3, <3>1, ReplacementType
  <2>5. x # Val(n)
    <3>1. Val(n).k = "val" /\ Val(n).v = n /\ ~(n \in 0 .. n - 1)
      BY <2>3 DEF Val
    <3>. QED BY <2>4, <3>1 DEF Substitute
  <2>6. DOMAIN body' = DOMAIN body /\ alias'[n] = Instead(alias[n], n, x)
    BY <2>2, <2>3 DEF BodyInstead
  <2>7. alias'[n] # Val(n)
    BY <2>5, <2>6 DEF Instead
  <2>8. n \in Ops'
    BY <2>3, <2>6 DEF Ops
  <2>. QED BY <2>7, <2>8 DEF AsGiven, Live
<1>. QED BY <1>1, <1>2, <1>3

\* The first entry is right.
LEMMA StartNear ==
  ASSUME WellFormedLoop(loop), NEW cur, cur.scale = 1, cur.offset = 0
  PROVE  Near(0, cur)
<1>. SUFFICES ASSUME NEW i \in Int, NEW load \in Int
              PROVE  Congruent(Iteration(loop, i, load)[0], cur.scale * i + cur.offset, 2^Narrowest)
  BY DEF Near
<1>1. Iteration(loop, i, load)[0] = i
  BY IterationValues
<1>2. cur.scale * i + cur.offset = i
  OBVIOUS
<1>3. 2^Narrowest \in Int
  <2>1. Narrowest \in Nat
    BY NarrowestType, WidthFacts
  <2>. QED BY <2>1
<1>4. Congruent(i, i, 2^Narrowest)
  BY <1>3, CongruentSelf
<1>. QED BY <1>1, <1>2, <1>4

\* Every step keeps it so.
LEMMA PlainStep ==
  ASSUME Types, Plain, [Next]_vars
  PROVE  Plain'
<1>1. loop' = loop /\ Shape /\ Entries /\ WellFormedLoop(loop)
  BY LoopKept, ShapeFacts DEF Types
<1>. SUFFICES ASSUME AsGiven' PROVE body' = loop.body /\ NearlyLinear'
  BY <1>1 DEF Plain
<1>2. body' = body /\ alias' = alias
  <2>1. CASE Rewrite
    BY <2>1, ReplacedOnce
  <2>2. CASE ~Rewrite
    <3>1. Propagate \/ SliceOfIota \/ Analysed \/ Visit \/ Annotate \/ EndRound \/ Iterate \/ UNCHANGED vars
      BY <2>2 DEF Next, Analyse
    <3>. QED BY <3>1, BodyKept
  <2>. QED BY <2>1, <2>2
<1>3. AsGiven
  BY <1>2 DEF AsGiven, Live, Ops
<1>4. body = loop.body /\ NearlyLinear
  BY <1>3 DEF Plain
<1>5. CASE Propagate
  BY <1>1, <1>2, <1>4, <1>5, PropagateNear
<1>6. CASE SliceOfIota
  BY <1>1, <1>2, <1>4, <1>6, SliceNear
<1>7. CASE UNCHANGED analysis
  <2>1. affine' = affine /\ guessed' = guessed
    BY <1>7 DEF analysis
  <2>2. NearlyLinear'
    BY <1>1, <1>4, <2>1 DEF NearlyLinear, Near, Narrowest
  <2>. QED BY <1>2, <1>4, <2>2
<1>8. CASE EndRound
  <2>1. UNCHANGED analysis \/ affine' = StartInfo
    BY <1>8 DEF EndRound
  <2>2. CASE affine' = StartInfo
    <3>1. DOMAIN affine' = {0} /\ affine'[0] = [w |-> Width, scale |-> 1, offset |-> 0]
      BY <2>2 DEF StartInfo
    <3>2. Near(0, affine'[0]) /\ affine'[0].w = Width
      BY <1>1, <3>1, StartNear
    <3>3. NearlyLinear'
      BY <1>1, <3>1, <3>2 DEF NearlyLinear, Near, Narrowest
    <3>. QED BY <1>2, <1>4, <3>3
  <2>. QED BY <1>7, <2>1, <2>2
<1>9. CASE Analysed \/ Visit \/ Annotate \/ Rewrite \/ Iterate \/ UNCHANGED vars
  <2>1. UNCHANGED analysis
    <3>1. CASE Analysed
      BY <3>1, Zenon DEF Analysed
    <3>2. CASE Visit
      BY <3>2, Zenon DEF Visit
    <3>3. CASE Annotate
      BY <3>3, Zenon DEF Annotate
    <3>4. CASE Rewrite
      BY <3>4, Zenon DEF Rewrite
    <3>5. CASE Iterate
      BY <3>5, Zenon DEF Iterate
    <3>6. CASE UNCHANGED vars
      BY <3>6 DEF vars
    <3>. QED BY <1>9, <3>1, <3>2, <3>3, <3>4, <3>5, <3>6
  <2>. QED BY <1>7, <2>1
<1>. QED BY <1>5, <1>6, <1>8, <1>9 DEF Next, Analyse

\* In the first state it is so.
LEMMA InitPlain ==
  ASSUME Init, WellFormedLoop(loop)
  PROVE  Plain
<1>1. body = loop.body /\ affine = StartInfo
  BY Zenon DEF Init
<1>2. DOMAIN affine = {0} /\ affine[0] = [w |-> Width, scale |-> 1, offset |-> 0]
  BY <1>1 DEF StartInfo
<1>3. Near(0, affine[0]) /\ affine[0].w = Width
  BY <1>2, StartNear
<1>. QED BY <1>1, <1>2, <1>3 DEF Plain, NearlyLinear

\* Scales and offsets that differ by multiples of m lead to values that do.
LEMMA NearLinear ==
  ASSUME NEW m \in Int, NEW S \in Int, NEW s \in Int, NEW O \in Int, NEW o \in Int, NEW i \in Int,
         Congruent(S, s, m), Congruent(O, o, m)
  PROVE  Congruent(S * i + O, s * i + o, m)
<1>1. PICK k \in Int : S = s + k * m
  BY DEF Congruent
<1>2. PICK j \in Int : O = o + j * m
  BY DEF Congruent
<1>. DEFINE q == k * m
<1>3. q * i = (k * i) * m /\ q \in Int /\ j * m \in Int /\ s * i \in Int /\ (k * i) * m \in Int
  OBVIOUS
<1>4. S = s + q
  BY <1>1
<1>. HIDE DEF q
<1>5. S * i = s * i + q * i
  BY <1>3, <1>4
<1>6. (k * i + j) * m = (k * i) * m + j * m /\ k * i + j \in Int
  OBVIOUS
<1>7. S * i + O = s * i + o + (k * i + j) * m
  BY <1>2, <1>3, <1>5, <1>6
<1>8. \E z \in Int : S * i + O = s * i + o + z * m
  BY <1>6, <1>7
<1>. QED BY <1>8 DEF Congruent

\* The difference of two such numbers leaves no remainder.
LEMMA CongruentModulo ==
  ASSUME NEW a \in Int, NEW b \in Int, NEW m \in Nat \ {0}, Congruent(a, b, m)
  PROVE  (a - b) % m = 0
<1>1. PICK k \in Int : a = b + k * m
  BY DEF Congruent
<1>. DEFINE d == a - b
            q == d \div m
            r == d % m
            z == k - q
<1>2. d \in Int /\ d = k * m
  BY <1>1
<1>. HIDE DEF d
<1>3. q \in Int /\ r \in 0 .. m - 1 /\ d = m * q + r
  BY <1>2, DivMod
<1>. HIDE DEF q, r
<1>4. z \in Int /\ z * m = k * m - m * q
  BY <1>3
<1>5. k * m \in Int /\ m * q \in Int
  BY <1>3
<1>. HIDE DEF z
<1>6. r = z * m
  BY <1>2, <1>3, <1>4, <1>5
<1>7. /\ z >= 1 => z * m >= m
      /\ z <= -1 => z * m <= -m
  BY <1>4, TimesFar
<1>8. z = 0
  BY <1>3, <1>4, <1>6, <1>7
<1>9. r = 0
  BY <1>6, <1>8
<1>. QED BY <1>9 DEF r, d

-----------------------------------------------------------------------------
(* What the runs check                                                     *)

\* The loop is untouched or counts up; what was found and done is right in its
\* iterations, unless it is known to be inexact; the induction variable is
\* where its step leads it; as long as nothing was replaced, entries are right
\* up to the narrowest width.
Inv ==
  /\ Types
  /\ Fresh \/ CountsUp
  /\ Undisturbed
  /\ exact => SoundOn(Starts(loop))
  /\ Trips
  /\ Plain

\* It holds in the first state.
LEMMA InitInv ==
  ASSUME Init
  PROVE  Inv
<1>1. Types
  BY InitTypes
<1>2. WellFormedLoop(loop)
  BY <1>1, ShapeFacts DEF Types
<1>3. SoundOn(Starts(loop))
  BY <1>2, InitSound, StartsType
<1>4. Fresh
  <2>1. /\ body = loop.body /\ alias = [n \in DOMAIN body |-> Val(n)] /\ phase = "affine"
        /\ affine = StartInfo /\ guessed = {} /\ bounds = <<>>
    BY Zenon DEF Init
  <2>2. LinearOn(Int)
    BY <1>2, <2>1, FreshLinear
  <2>3. DOMAIN bounds = {}
    BY <2>1
  <2>4. Steady(loop, DOMAIN affine \ guessed)
    <3>1. DOMAIN affine \ guessed = {0}
      BY <2>1 DEF StartInfo
    <3>2. 0 \notin DOMAIN loop.body
      BY <1>2 DEF WellFormedLoop
    <3>. QED BY <3>1, <3>2 DEF Steady
  <2>. QED BY <2>1, <2>2, <2>3, <2>4 DEF Fresh
<1>6. Undisturbed
  <2>1. /\ body = loop.body /\ alias = [n \in DOMAIN body |-> Val(n)] /\ affine = StartInfo
    BY Zenon DEF Init
  <2>2. LinearOn(Int)
    BY <1>2, <2>1, FreshLinear
  <2>. SUFFICES ASSUME NEW F PROVE StandsAsGiven(F) /\ LinearIn(F, Int)
    BY DEF Undisturbed
  <2>3. StandsAsGiven(F)
    BY <2>1 DEF StandsAsGiven
  <2>. QED BY <2>2, <2>3 DEF LinearIn, LinearOn
<1>5. Trips
  <2>1. iv = loop.start /\ iters = 0
    BY Zenon DEF Init
  <2>2. loop.start \in Int
    BY <1>2, EndsType DEF WellFormedLoop
  <2>3. ASSUME NEW st \in Signed(Width) PROVE OnTrack(st)
    <3>1. st \in Int
      BY EndsType
    <3>. QED BY <2>1, <2>2, <3>1 DEF OnTrack
  <2>. QED BY <2>1, <2>3 DEF Trips
<1>7. Plain
  BY <1>2, InitPlain
<1>. QED BY <1>1, <1>3, <1>4, <1>5, <1>6, <1>7 DEF Inv

\* Every step keeps it.
LEMMA InvStep ==
  ASSUME Inv, [Next]_vars
  PROVE  Inv'
<1>1. Types /\ (Fresh \/ CountsUp) /\ Undisturbed /\ (exact => SoundOn(Starts(loop))) /\ Trips /\ Plain
  BY DEF Inv
<1>2. loop' = loop
  BY LoopKept
<1>3. ASSUME exact' PROVE SoundOn(Starts(loop))'
  <2>1. ASSUME NEW D, D = Starts(loop) PROVE SoundOn(D)'
    BY <1>1, <1>3, <2>1, SoundStep
  <2>2. PICK D : D = Starts(loop)
    OBVIOUS
  <2>3. SoundOn(D)'
    BY <2>1, <2>2
  <2>4. D = Starts(loop')
    BY <1>2, <2>2
  <2>. QED BY <2>3, <2>4 DEF SoundOn, SameOn, AliasOn, WithinOn, LinearOn, LinearEntry
<1>4. Types' /\ (Fresh \/ CountsUp)' /\ Undisturbed' /\ Trips' /\ Plain'
  BY <1>1, TypesStep, TouchedStep, UndisturbedStep, TripsStep, PlainStep
<1>. QED BY <1>3, <1>4 DEF Inv

\* The iterations that are clean are those of the values the pass thinks the
\* induction variable has.
LEMMA RunningStart ==
  ASSUME Types, CountsUp, Trips, Running, CleanSoFar
  PROVE  iv \in Starts(loop)
<1>1. WellFormedLoop(loop) /\ RunTypes
  BY ShapeFacts DEF Types
<1>2. iv < loop.limit /\ clean /\ IsClean(loop, iv, data) /\ data \in Int /\ iters \in Nat /\ iv \in Int
      /\ loop.start \in Int /\ loop.limit \in Int
  BY <1>1, MaxItersAssumption, EndsType DEF Running, CleanSoFar, RunTypes, WellFormedLoop
<1>3. loop.start < loop.limit
  <2>1. CASE iters = 0
    BY <1>2, <2>1 DEF Trips
  <2>2. CASE iters > 0
    BY <2>2 DEF Trips
  <2>. QED BY <1>2, <2>1, <2>2
<1>4. PICK st \in Signed(Width) : st > 0 /\ LinearInc(loop, st)
  BY <1>3 DEF CountsUp
<1>5. iv = loop.start + iters * st
  <2>1. ~Stuck
    BY <1>2 DEF Stuck
  <2>2. OnTrack(st)
    BY <1>2, <1>4, <2>1 DEF Trips
  <2>. QED BY <2>2 DEF OnTrack
<1>6. st \in Nat /\ iters * st >= 0 /\ iters * st \in Int
  <2>1. st \in Int
    BY EndsType
  <2>2. st \in Nat
    BY <1>4, <2>1
  <2>. QED BY <1>2, <2>2
<1>. QED BY <1>2, <1>5, <1>6 DEF Starts

\* Values with an entry are what it says.
LEMMA InvAffine ==
  ASSUME Inv
  PROVE  AffineTruthful
<1>. SUFFICES ASSUME Running, SlicesWithin, AsGiven \/ (exact /\ CleanSoFar), NEW x \in DOMAIN affine \ guessed
              PROVE  (Given[x] - affine[x].scale * iv - affine[x].offset) % 2^Narrowest = 0
  BY DEF AffineTruthful
<1>1. Types /\ (Fresh \/ CountsUp) /\ Plain /\ (exact => SoundOn(Starts(loop))) /\ Trips
      /\ Entries /\ WellFormedLoop(loop) /\ RunTypes /\ Ops = DOMAIN loop.body
  BY ShapeFacts DEF Inv, Types
<1>. DEFINE P == 2^Narrowest
            v == Given[x]
            s == affine[x].scale
            o == affine[x].offset
<1>2. Given = Iteration(loop, iv, data)
  BY DEF Given, Iteration
<1>3. iv \in Int /\ data \in Int /\ s \in Int /\ o \in Int
  BY <1>1, EndsType DEF RunTypes, Entries, EntrySet
<1>4. P \in Nat \ {0} /\ Narrowest \in 0 .. Width
  <2>1. Narrowest \in 0 .. Width
    BY <1>1, NarrowestType, WidthFacts
  <2>. QED BY <2>1, WidthFacts, PowerPositive
<1>5. v \in Int
  <2>1. x \in 0 .. Len(loop.body)
    BY <1>1 DEF Entries
  <2>. QED BY <1>1, <1>2, <1>3, <2>1, IterationValues
<1>6. Congruent(v, s * iv + o, P)
  <2>1. CASE AsGiven
    <3>1. Near(x, affine[x])
      BY <1>1, <2>1 DEF Plain, NearlyLinear
    <3>2. InIotas(loop, iv, data)
      BY <1>2 DEF InIotas, SlicesWithin
    <3>. QED BY <1>2, <1>3, <3>1, <3>2 DEF Near
  <2>2. CASE ~AsGiven
    <3>1. exact /\ CleanSoFar /\ CountsUp
      <4>1. ~Fresh
        BY <1>1, <2>2 DEF Fresh, AsGiven, Live
      <4>. QED BY <1>1, <2>2, <4>1, Zenon
    <3>2. iv \in Starts(loop)
      BY <1>1, <3>1, RunningStart
    <3>3. LinearEntry(x, Starts(loop))
      BY <1>1, <3>1 DEF SoundOn, LinearOn
    <3>4. PICK S, O \in Int : Congruent(S, s, 2^Width) /\ Congruent(O, o, 2^Width)
                              /\ LinearWith(loop, x, S, O, Starts(loop))
      BY <3>3, Zenon DEF LinearEntry, LinearValue
    <3>5. v = S * iv + O
      BY <1>2, <1>3, <3>1, <3>2, <3>4 DEF LinearWith, CleanSoFar
    <3>6. Congruent(S, s, P) /\ Congruent(O, o, P)
      <4>. HIDE DEF s, o
      <4>. QED BY <1>3, <1>4, <3>4, WidthFacts, CongruentCoarser
    <3>7. Congruent(S * iv + O, s * iv + o, P)
      <4>. HIDE DEF s, o, P
      <4>. QED BY <1>3, <1>4, <3>6, NearLinear
    <3>. QED BY <3>5, <3>7
  <2>. QED BY <2>1, <2>2
<1>7. v - s * iv - o = v - (s * iv + o) /\ s * iv + o \in Int
  <2>. HIDE DEF v, s, o
  <2>. QED BY <1>3, <1>5
<1>8. (v - (s * iv + o)) % P = 0
  <2>. DEFINE b == s * iv + o
  <2>1. b \in Int /\ Congruent(v, b, P)
    BY <1>6, <1>7
  <2>. HIDE DEF v, b, P
  <2>2. (v - b) % P = 0
    BY <1>4, <1>5, <2>1, CongruentModulo
  <2>. QED BY <2>2 DEF b
<1>. QED BY <1>7, <1>8

\* In a clean iteration of a loop the pass has touched, what it found is right.
LEMMA RunningSound ==
  ASSUME Inv, exact, Running, CleanSoFar
  PROVE  \/ Fresh
         \/ /\ SameOperands(loop, body, iv, data) /\ InRanges(bounds, iv, data)
            /\ \A n \in DOMAIN loop.body :
                 Operand(alias[n], Iteration(loop, iv, data), loop.arg) = Iteration(loop, iv, data)[n]
<1>1. Types /\ (Fresh \/ CountsUp) /\ SoundOn(Starts(loop)) /\ Trips
  BY DEF Inv
<1>2. CASE CountsUp
  <2>1. iv \in Starts(loop)
    BY <1>1, <1>2, RunningStart
  <2>2. data \in Int /\ IsClean(loop, iv, data)
    BY <1>1 DEF Types, RunTypes, CleanSoFar
  <2>. QED BY <1>1, <2>1, <2>2 DEF SoundOn, SameOn, AliasOn, WithinOn
<1>. QED BY <1>1, <1>2

\* The rewritten body yields what the given one does.
LEMMA InvFolds ==
  ASSUME Inv
  PROVE  FoldsKeepValue
<1>. SUFFICES ASSUME exact, Running, CleanSoFar, NEW n \in Ops
              PROVE  Operand(alias[n], Now, loop.arg) = Given[n]
  BY DEF FoldsKeepValue
<1>1. Shape /\ WellFormedLoop(loop) /\ SameShape(loop, body) /\ n \in DOMAIN loop.body /\ RunTypes
  BY ShapeFacts DEF Inv, Types
<1>2. iv \in Int /\ data \in Int
  BY <1>1, EndsType DEF RunTypes
<1>3. Given = Iteration(loop, iv, data)
  BY DEF Given, Iteration
<1>4. CASE Fresh
  <2>1. Now = Given
    BY <1>4 DEF Now, Given, Fresh
  <2>2. alias[n] = Val(n)
    BY <1>1, <1>4 DEF Fresh
  <2>3. alias[n].k = "val" /\ alias[n].v = n
    BY <2>2 DEF Val
  <2>4. Operand(alias[n], Now, loop.arg) = Now[n]
    BY <2>3, OperandRules
  <2>. QED BY ONLY <2>1, <2>4
<1>5. CASE /\ SameOperands(loop, body, iv, data)
           /\ Operand(alias[n], Iteration(loop, iv, data), loop.arg) = Iteration(loop, iv, data)[n]
  <2>1. Values(loop, body, iv, data) = Iteration(loop, iv, data)
    BY <1>1, <1>2, <1>5, RewrittenValues
  <2>. QED BY <1>3, <1>5, <2>1 DEF Now
<1>. QED BY <1>1, <1>4, <1>5, RunningSound

\* Values lie within the bounds the pass writes on them.
LEMMA InvBounds ==
  ASSUME Inv
  PROVE  BoundsTruthful
<1>. SUFFICES ASSUME exact, Running, CleanSoFar, NEW x \in DOMAIN bounds
              PROVE  Given[x] >= bounds[x].min /\ Given[x] <= bounds[x].max
  BY DEF BoundsTruthful
<1>1. ~Fresh
  BY DEF Fresh
<1>2. InRanges(bounds, iv, data)
  BY <1>1, RunningSound
<1>3. Given = Iteration(loop, iv, data)
  BY DEF Given, Iteration
<1>. QED BY <1>2, <1>3 DEF InRanges, Within

\* A quotient is the number of times the divisor fits.
LEMMA QuotientUnique ==
  ASSUME NEW a \in Nat, NEW m \in Nat \ {0}, NEW q \in Int, q * m <= a, a < q * m + m
  PROVE  Quotient(a, m) = q /\ a \div m = q /\ a % m = a - q * m
<1>1. Quotient(a, m) = a \div m
  <2>1. Quotient(a, m) = Towards(a, m)
    BY QuotientTowards
  <2>. QED BY <2>1 DEF Towards
<1>. DEFINE k == a \div m
            r == a % m
            p == q - k
<1>2. k \in Int /\ r \in 0 .. m - 1 /\ a = m * k + r
  BY DivMod
<1>3. p \in Int /\ p * m = q * m - m * k
  <2>. HIDE DEF k
  <2>. QED BY <1>2
<1>4. q * m \in Int /\ m * k \in Int
  <2>. HIDE DEF k
  <2>. QED BY <1>2
<1>. HIDE DEF p, k, r
<1>5. /\ p >= 1 => p * m >= m
      /\ p <= -1 => p * m <= -m
  BY <1>3, TimesFar
<1>6. p = 0
  <2>1. ~(p >= 1)
    BY <1>2, <1>3, <1>4, <1>5
  <2>2. ~(p <= -1)
    BY <1>2, <1>3, <1>4, <1>5
  <2>. QED BY <1>3, <2>1, <2>2
<1>7. k = q
  BY <1>2, <1>6 DEF p
<1>8. r = a - q * m
  BY <1>2, <1>4, <1>7
<1>. QED BY <1>1, <1>7, <1>8 DEF k, r

\* Steps of u that lead from s to t or beyond, the last of them from before t,
\* are as many as getConstantNumIters says.
LEMMA CountIs ==
  ASSUME NEW s \in Int, NEW t \in Int, s < t, NEW u \in Nat \ {0}, NEW n \in Nat,
         s + n * u >= t, s + (n - 1) * u < t
  PROVE  /\ n = ConstantNumIters(s, t, u)
         /\ (n = NumIters(s, t, u)) <=> ((t - s) % u = 0)
<1>. DEFINE d == t - s
            e == n * u
<1>1. d \in Nat /\ d > 0 /\ e \in Int /\ e >= d /\ e - u < d
  <2>1. (n - 1) * u = n * u - u
    OBVIOUS
  <2>2. e \in Int
    OBVIOUS
  <2>. HIDE DEF e
  <2>3. (n - 1) * u = e - u
    BY <2>1 DEF e
  <2>4. s + e >= t /\ s + (e - u) < t
    BY <2>3 DEF e
  <2>. QED BY <2>2, <2>4
<1>2. n = ConstantNumIters(s, t, u)
  <2>. DEFINE a == d + u - 1
  <2>1. a \in Nat /\ n * u <= a /\ a < n * u + u
    <3>. HIDE DEF e, d
    <3>. QED BY <1>1 DEF e
  <2>2. Quotient(a, u) = n
    <3>. HIDE DEF a
    <3>. QED BY <2>1, QuotientUnique
  <2>3. a = t - s + u - 1
    OBVIOUS
  <2>4. ConstantNumIters(s, t, u) = Quotient(t - s + u - 1, u)
    BY DEF ConstantNumIters
  <2>. QED BY <2>2, <2>3, <2>4
<1>3. NumIters(s, t, u) = Quotient(d, u)
  BY DEF NumIters
<1>4. CASE e = d
  <2>1. n * u <= d /\ d < n * u + u
    <3>. HIDE DEF d, e
    <3>1. e <= d /\ d < e + u
      BY <1>1, <1>4
    <3>2. n * u <= d /\ d < n * u + u
      BY ONLY <3>1 DEF e
    <3>. QED BY <3>2
  <2>2. Quotient(d, u) = n /\ d % u = d - n * u
    <3>1. d \in Nat /\ u \in Nat \ {0} /\ n \in Int
      BY <1>1
    <3>. HIDE DEF d
    <3>. QED BY ONLY <2>1, <3>1, QuotientUnique
  <2>3. d - n * u = 0
    <3>. HIDE DEF d
    <3>. QED BY <1>1, <1>4 DEF e
  <2>. QED BY <1>2, <1>3, <2>2, <2>3
<1>5. CASE e # d
  <2>. DEFINE q == n - 1
  <2>0. q * u = e - u
    OBVIOUS
  <2>1. q \in Int /\ q * u <= d /\ d < q * u + u /\ q # n
    <3>1. q \in Int /\ q # n
      OBVIOUS
    <3>. HIDE DEF d, q, e
    <3>. QED BY <1>1, <1>5, <2>0, <3>1
  <2>2. Quotient(d, u) = q /\ d % u = d - q * u
    <3>. HIDE DEF d, q
    <3>. QED BY <1>1, <2>1, QuotientUnique
  <2>3. d - q * u # 0
    <3>. HIDE DEF d, q, e
    <3>. QED BY <1>1, <2>0
  <2>. QED BY <1>2, <1>3, <2>1, <2>2, <2>3
<1>. QED BY <1>4, <1>5

\* A loop that starts at its limit or beyond has no iterations; the count made
\* when it runs is right if it starts less than a step beyond.
LEMMA CountNone ==
  ASSUME NEW s \in Int, NEW t \in Int, t <= s, NEW u \in Int, u > 0 \/ s > t
  PROVE  /\ ConstantNumIters(s, t, u) = 0
         /\ u > 0 => LET d == t - s
                     IN  (0 = NumIters(s, t, u)) <=> (IF d >= 0 THEN d % u = 0 ELSE -d < u)
<1>1. CASE t < s
  <2>1. ConstantNumIters(s, t, u) = 0
    BY <1>1 DEF ConstantNumIters
  <2>2. ASSUME u > 0
        PROVE  LET d == t - s IN (0 = NumIters(s, t, u)) <=> (IF d >= 0 THEN d % u = 0 ELSE -d < u)
    <3>. DEFINE d == t - s
                a == -d
                k == a \div u
    <3>1. a \in Nat /\ a > 0 /\ u \in Nat \ {0} /\ d \in Int /\ ~(d >= 0)
      BY <1>1, <2>2
    <3>2. NumIters(s, t, u) = Quotient(d, u)
      BY DEF NumIters
    <3>3. Quotient(d, u) = -k
      <4>1. Quotient(d, u) = Towards(d, u)
        BY <3>1, QuotientTowards
      <4>. QED BY <3>1, <4>1 DEF Towards
    <3>4. k \in Int /\ (a % u) \in 0 .. u - 1 /\ a = u * k + (a % u)
      <4>. HIDE DEF a
      <4>. QED BY <3>1, DivMod
    <3>. HIDE DEF k
    <3>5. k = 0 <=> a < u
      <4>1. ASSUME a < u PROVE k = 0
        <5>1. Quotient(a, u) = 0 /\ a \div u = 0
          <6>1. 0 * u = 0
            BY <3>1
          <6>. HIDE DEF a
          <6>. QED BY <3>1, <4>1, <6>1, QuotientUnique
        <5>. QED BY <5>1 DEF k
      <4>2. ASSUME k = 0 PROVE a < u
        <5>1. u * k = 0
          BY <3>1, <4>2
        <5>. DEFINE r == a % u
        <5>2. r \in 0 .. u - 1 /\ a = r
          BY <3>4, <5>1
        <5>. HIDE DEF r, a
        <5>. QED BY <3>1, <5>2
      <4>. QED BY <4>1, <4>2
    <3>6. (0 = -k) <=> (k = 0)
      BY <3>4
    <3>. QED BY <3>1, <3>2, <3>3, <3>5, <3>6
  <2>. QED BY <2>1, <2>2
<1>2. CASE t = s /\ u > 0
  <2>. DEFINE a == u - 1
  <2>1. a \in Nat /\ u \in Nat \ {0} /\ 0 * u = 0 /\ a < u
    BY <1>2
  <2>2. Quotient(a, u) = 0
    <3>. HIDE DEF a
    <3>. QED BY <2>1, QuotientUnique
  <2>3. Quotient(0, u) = 0 /\ 0 % u = 0
    <3>. DEFINE z == 0
    <3>1. z \in Nat /\ 0 * u <= z /\ z < 0 * u + u
      BY <2>1
    <3>. HIDE DEF z
    <3>2. Quotient(z, u) = 0 /\ z % u = z - 0 * u
      BY <2>1, <3>1, QuotientUnique
    <3>. QED BY <2>1, <3>2 DEF z
  <2>4. t - s = 0 /\ t - s + u - 1 = a
    BY <1>2
  <2>5. ConstantNumIters(s, t, u) = Quotient(t - s + u - 1, u)
    BY <1>2 DEF ConstantNumIters
  <2>6. ConstantNumIters(s, t, u) = 0
    BY <2>2, <2>4, <2>5
  <2>7. NumIters(s, t, u) = 0
    BY <2>3, <2>4 DEF NumIters
  <2>. QED BY <2>3, <2>4, <2>6, <2>7
<1>. QED BY <1>1, <1>2

\* The step of a loop whose next induction variable is undisturbed is that of
\* its induction variable.
LEMMA AnchoredStep ==
  ASSUME Types, Undisturbed, Anchored(loop), HasStep
  PROVE  LinearInc(loop, Step)
<1>1. Entries /\ loop.inc \in DOMAIN loop.body
  BY ShapeFacts DEF Types
<1>2. PICK F \in SUBSET (0 .. Len(loop.body)) : Steady(loop, F) /\ loop.inc \in F
  BY DEF Anchored
<1>3. StandsAsGiven(F) /\ LinearIn(F, Int)
  BY <1>2 DEF Undisturbed
<1>4. Next_iv = Val(loop.inc)
  BY <1>1, <1>2, <1>3 DEF StandsAsGiven, Next_iv
<1>5. Next_iv.v = loop.inc
  BY <1>4 DEF Val
<1>6. loop.inc \in DOMAIN affine \ guessed /\ affine[loop.inc].scale = 1
  BY <1>1, <1>5, StepType
<1>7. LinearEntry(loop.inc, Int)
  BY <1>2, <1>3, <1>6 DEF LinearIn
<1>8. Step = affine[loop.inc].offset
  BY <1>5 DEF Step
<1>. QED BY <1>6, <1>7, <1>8 DEF LinearEntry, LinearInc

\* A loop that has ended without overflow has run as often as the count of the
\* pass says.
LEMMA InvTrips ==
  ASSUME Inv
  PROVE  CountsTrips
<1>. SUFFICES ASSUME Done, clean, HasStep, Step > 0 \/ loop.start > loop.limit
              PROVE  /\ iters = ConstantNumIters(loop.start, loop.limit, Step)
                     /\ Step > 0 => LET d == loop.limit - loop.start
                                    IN  (iters = NumIters(loop.start, loop.limit, Step))
                                          <=> (IF d >= 0 THEN d % Step = 0 ELSE -d < Step)
  BY DEF CountsTrips
<1>1. Types /\ (Fresh \/ CountsUp) /\ Undisturbed /\ Trips /\ RunTypes /\ Entries /\ Shape
  BY DEF Inv, Types
<1>2. /\ iv \in Int /\ iters \in Nat /\ loop.start \in Int /\ loop.limit \in Int /\ iv >= loop.limit
      /\ Step \in Int /\ Step \in Signed(Width)
  BY <1>1, ShapeFacts, EndsType, MaxItersAssumption, StepType DEF RunTypes, Done
<1>3. CASE loop.limit <= loop.start
  <2>1. iters = 0
    BY <1>1, <1>2, <1>3 DEF Trips
  <2>. DEFINE s == loop.start
              t == loop.limit
              u == Step
  <2>2. s \in Int /\ t \in Int /\ t <= s /\ u \in Int /\ (u > 0 \/ s > t)
    BY <1>2, <1>3
  <2>. HIDE DEF s, t, u
  <2>3. /\ ConstantNumIters(s, t, u) = 0
        /\ u > 0 => LET d == t - s
                    IN  (0 = NumIters(s, t, u)) <=> (IF d >= 0 THEN d % u = 0 ELSE -d < u)
    BY <2>2, CountNone
  <2>. QED BY <2>1, <2>3 DEF s, t, u
<1>4. CASE loop.start < loop.limit
  <2>1. Step > 0
    BY <1>2, <1>4
  <2>2. iters > 0
    <3>1. iters # 0
      BY <1>1, <1>2, <1>4 DEF Trips
    <3>. QED BY <1>2, <3>1
  <2>3. LinearInc(loop, Step)
    <3>1. CASE Fresh
      BY <1>1, <3>1, FreshStep
    <3>2. CASE CountsUp
      BY <1>1, <3>2, AnchoredStep DEF CountsUp
    <3>. QED BY <1>1, <3>1, <3>2
  <2>4. OnTrack(Step)
    <3>1. ~Stuck
      BY <1>2 DEF Stuck
    <3>. QED BY <1>1, <1>2, <2>1, <2>3, <3>1 DEF Trips
  <2>. DEFINE s == loop.start
              t == loop.limit
              u == Step
              n == iters
  <2>5. /\ s \in Int /\ t \in Int /\ s < t /\ u \in Nat \ {0} /\ n \in Nat
        /\ s + n * u >= t /\ s + (n - 1) * u < t
    <3>1. iv = s + n * u /\ s + (n - 1) * u < t
      BY <2>2, <2>4 DEF OnTrack
    <3>. HIDE DEF s, t, u, n
    <3>. QED BY <1>2, <1>4, <2>1, <3>1 DEF s, t, u, n
  <2>. HIDE DEF s, t, u, n
  <2>6. /\ n = ConstantNumIters(s, t, u)
        /\ (n = NumIters(s, t, u)) <=> ((t - s) % u = 0)
    BY <2>5, CountIs
  <2>7. /\ n = ConstantNumIters(s, t, u)
        /\ u > 0 => LET d == t - s
                    IN  (n = NumIters(s, t, u)) <=> (IF d >= 0 THEN d % u = 0 ELSE -d < u)
    BY <2>5, <2>6
  <2>. QED BY <2>7 DEF s, t, u, n
<1>. QED BY <1>2, <1>3, <1>4

-----------------------------------------------------------------------------
(* What the runs check, of every loop                                      *)

\* The rewritten body yields in every iteration what the given one does, unless
\* something overflowed or a rewrite of a wrong kind was made:
\* RemoveNoOpsFromWhileLoop is right about every rem, compare, abs and clamp it
\* removes.
THEOREM FoldsKeepValueHolds == Spec => []FoldsKeepValue
<1>1. Init => Inv
  BY InitInv
<1>2. Inv /\ [Next]_vars => Inv'
  BY InvStep
<1>3. Inv => FoldsKeepValue
  BY InvFolds
<1>. QED BY <1>1, <1>2, <1>3, PTL DEF Spec

\* The values of an operation lie within the bounds that propagateBounds wrote
\* on it, in every iteration, unless something overflowed.
THEOREM BoundsTruthfulHolds == Spec => []BoundsTruthful
<1>1. Init => Inv
  BY InitInv
<1>2. Inv /\ [Next]_vars => Inv'
  BY InvStep
<1>3. Inv => BoundsTruthful
  BY InvBounds
<1>. QED BY <1>1, <1>2, <1>3, PTL DEF Spec

\* A value with an entry of the affine analysis is scale times the induction
\* variable plus offset, up to multiples of the narrowest width of the loop, in
\* iterations that overflow too as long as nothing was replaced: propagateInfo
\* and updateAffineIndexInfo are right about what they pass on.
THEOREM AffineTruthfulHolds == Spec => []AffineTruthful
<1>1. Init => Inv
  BY InitInv
<1>2. Inv /\ [Next]_vars => Inv'
  BY InvStep
<1>3. Inv => AffineTruthful
  BY InvAffine
<1>. QED BY <1>1, <1>2, <1>3, PTL DEF Spec

\* A loop that ends without overflow has run as often as getConstantNumIters
\* says, rewritten or not; getNumIters says so just when the distance is made
\* of whole steps.
THEOREM CountsTripsHolds == Spec => []CountsTrips
<1>1. Init => Inv
  BY InitInv
<1>2. Inv /\ [Next]_vars => Inv'
  BY InvStep
<1>3. Inv => CountsTrips
  BY InvTrips
<1>. QED BY <1>1, <1>2, <1>3, PTL DEF Spec

=============================================================================

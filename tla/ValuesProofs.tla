---------------------------- MODULE ValuesProofs ----------------------------
(***************************************************************************)
(* Proofs about the loops of the evaluator: Power, Slices and Ranges, for   *)
(* machine integers of every width and all operands, and Binding, for       *)
(* parameter lists and calls of every length.                               *)
(***************************************************************************)
EXTENDS Power, Slices, Ranges, Binding, FiniteSetTheorems, WellFoundedInduction, TLAPS

\* A sum or a product that is a machine integer is what the machine computes.
LEMMA WrapKeeps ==
  ASSUME NEW n \in Ints
  PROVE  Wrap(n) = n
<1> DEFINE m == n - MinInt
           w == 2 * (MaxInt + 1)
<1>1. m \in 0 .. w - 1 /\ w \in Nat /\ w > 0
  BY MaxIntAssumption DEF Ints, MinInt
<1>2. m % w = m
  <2> HIDE DEF m, w
  <2>1. m \in Nat /\ m < w
    BY <1>1
  <2> QED
    BY <2>1, <1>1
<1>3. Wrap(n) = m + MinInt
  BY <1>2 DEF Wrap
<1> QED
  BY <1>3, MaxIntAssumption DEF Ints, MinInt

\* A sum that is too large comes out negative.
LEMMA WrapBelow ==
  ASSUME NEW n \in Int, n > MaxInt, n <= MaxInt + MaxInt
  PROVE  Wrap(n) \in Int /\ Wrap(n) < 0
<1> DEFINE m == n - MinInt
           w == 2 * (MaxInt + 1)
<1>1. m \in Nat /\ w \in Nat /\ w > 0 /\ w <= m /\ m < w + w
  BY MaxIntAssumption DEF MinInt
<1>2. m % w = m - w
  <2> HIDE DEF m, w
  <2>1. m - w \in Nat /\ m - w < w /\ m = (m - w) + w
    BY <1>1
  <2> QED
    BY <2>1, <1>1
<1>3. Wrap(n) = (m - w) + MinInt
  BY <1>2 DEF Wrap
<1> QED
  BY <1>3, MaxIntAssumption DEF MinInt

-----------------------------------------------------------------------------
(* Power: the test for overflow is exact, and nothing wraps around.        *)

\* The sign of a product.
LEMMA Signs ==
  ASSUME NEW x \in Int, NEW y \in Int, x > 0, y > 0
  PROVE  x * y \in Int /\ x * y > 0
<1>1. x * y >= 1 * y
  OBVIOUS
<1> QED
  BY <1>1

\* What a comparison with a quotient says of the product.
LEMMA QuotientBounds ==
  ASSUME NEW m \in Nat, NEW x \in Nat, NEW y \in Nat, y > 0
  PROVE  m \div y \in Nat /\ (x <= m \div y <=> x * y <= m)
<1> DEFINE q == m \div y
           r == m % y
<1>1. q \in Nat /\ r \in 0 .. y - 1 /\ m = y * q + r
  OBVIOUS
<1> HIDE DEF q, r
<1>2. ASSUME x <= q PROVE x * y <= m
  <2>1. x * y <= q * y
    BY <1>1, <1>2
  <2>2. q * y = y * q
    BY <1>1
  <2>3. x * y \in Nat /\ q * y \in Nat
    BY <1>1
  <2> QED
    BY <2>1, <2>2, <2>3, <1>1
<1>3. ASSUME x > q PROVE x * y > m
  <2>1. x >= q + 1
    BY <1>1, <1>3
  <2>2. x * y >= (q + 1) * y
    BY <1>1, <2>1
  <2>3. (q + 1) * y = y * q + y
    BY <1>1
  <2>4. x * y \in Nat /\ y * q \in Nat
    BY <1>1
  <2> QED
    BY <2>2, <2>3, <2>4, <1>1
<1>4. x * y \in Nat
  OBVIOUS
<1> QED
  BY <1>1, <1>2, <1>3, <1>4 DEF q

\* The test is exact (mulOverflows), for machine integers of every width: it says
\* overflow just when the product is no machine integer.
THEOREM OverflowExact ==
  ASSUME NEW a \in Ints, NEW b \in Ints
  PROVE  mulOverflows(a, b) <=> a * b \notin Ints
<1> USE MaxIntAssumption
<1>0. /\ a \in Int /\ b \in Int /\ MaxInt \in Nat /\ MaxInt + 1 \in Nat
      /\ \A n \in Int : n \in Ints <=> -(MaxInt + 1) <= n /\ n <= MaxInt
  BY DEF Ints, MinInt
<1>1. CASE a = 0 \/ b = 0
  <2>1. a * b = 0 /\ 0 \in Ints
    BY <1>0, <1>1
  <2>2. ~mulOverflows(a, b)
    BY <1>0, <1>1 DEF mulOverflows
  <2> QED
    BY <2>1, <2>2
<1>2. CASE a > 0 /\ b > 0
  <2>1. Quo(MaxInt, b) = MaxInt \div b
    BY <1>0, <1>2 DEF Quo, AbsVal
  <2>2. MaxInt \div b \in Nat /\ (a <= MaxInt \div b <=> a * b <= MaxInt)
    BY <1>0, <1>2, QuotientBounds
  <2>3. a * b \in Int /\ a * b > 0
    BY <1>0, <1>2, Signs
  <2>4. mulOverflows(a, b) <=> a > MaxInt \div b
    BY <1>0, <1>2, <2>1 DEF mulOverflows
  <2> QED
    BY <2>2, <2>3, <2>4, <1>0
<1>3. CASE a > 0 /\ b < 0
  <2>1. Quo(MinInt, a) = -((MaxInt + 1) \div a)
    BY <1>0, <1>3 DEF Quo, AbsVal, MinInt
  <2>2. /\ -b \in Nat /\ (MaxInt + 1) \div a \in Nat
        /\ -b <= (MaxInt + 1) \div a <=> (-b) * a <= MaxInt + 1
    BY <1>0, <1>3, QuotientBounds
  <2>3. a * b \in Int /\ a * b < 0 /\ (-b) * a = -(a * b)
    <3>1. (-b) * a > 0
      BY <1>0, <1>3, Signs
    <3>2. (-b) * a = -(a * b) /\ a * b \in Int
      BY <1>0
    <3> QED
      BY <3>1, <3>2
  <2>4. mulOverflows(a, b) <=> b < -((MaxInt + 1) \div a)
    BY <1>0, <1>3, <2>1 DEF mulOverflows
  <2> QED
    BY <2>2, <2>3, <2>4, <1>0
<1>4. CASE a < 0 /\ b > 0
  <2>1. Quo(MinInt, b) = -((MaxInt + 1) \div b)
    BY <1>0, <1>4 DEF Quo, AbsVal, MinInt
  <2>2. /\ -a \in Nat /\ (MaxInt + 1) \div b \in Nat
        /\ -a <= (MaxInt + 1) \div b <=> (-a) * b <= MaxInt + 1
    BY <1>0, <1>4, QuotientBounds
  <2>3. a * b \in Int /\ a * b < 0 /\ (-a) * b = -(a * b)
    <3>1. (-a) * b > 0
      BY <1>0, <1>4, Signs
    <3>2. (-a) * b = -(a * b) /\ a * b \in Int
      BY <1>0
    <3> QED
      BY <3>1, <3>2
  <2>4. mulOverflows(a, b) <=> a < -((MaxInt + 1) \div b)
    BY <1>0, <1>4, <2>1 DEF mulOverflows
  <2> QED
    BY <2>2, <2>3, <2>4, <1>0
<1>5. CASE a < 0 /\ b < 0
  <2>1. Quo(MaxInt, a) = -(MaxInt \div (-a))
    BY <1>0, <1>5 DEF Quo, AbsVal
  <2>2. /\ -b \in Nat /\ -a \in Nat /\ MaxInt \div (-a) \in Nat
        /\ -b <= MaxInt \div (-a) <=> (-b) * (-a) <= MaxInt
    BY <1>0, <1>5, QuotientBounds
  <2>3. a * b \in Int /\ a * b > 0 /\ (-b) * (-a) = a * b
    <3>1. (-b) * (-a) > 0
      BY <1>0, <1>5, Signs
    <3>2. (-b) * (-a) = a * b /\ a * b \in Int
      BY <1>0
    <3> QED
      BY <3>1, <3>2
  <2>4. mulOverflows(a, b) <=> b < -(MaxInt \div (-a))
    BY <1>0, <1>5, <2>1 DEF mulOverflows
  <2> QED
    BY <2>2, <2>3, <2>4, <1>0
<1> QED
  BY <1>0, <1>1, <1>2, <1>3, <1>4, <1>5

\* The operands are machine integers, and nothing has wrapped around.
PowerInv == NoWrap /\ base \in Ints /\ result \in Ints

\* A product that the test lets pass.
LEMMA Product ==
  ASSUME NEW a \in Ints, NEW b \in Ints, ~mulOverflows(a, b)
  PROVE  Wrap(a * b) = a * b /\ a * b \in Ints
  BY OverflowExact, WrapKeeps

\* A step multiplies without wrapping around.
LEMMA NoWrapStep ==
  ASSUME PowerInv, [PowerNext]_powerVars
  PROVE  PowerInv'
<1>1. CASE Multiply
  <2>1. CASE exp % 2 = 0 \/ mulOverflows(result, base)
    BY <1>1, <2>1 DEF Multiply, PowerInv, NoWrap
  <2>2. CASE ~(exp % 2 = 0) /\ ~mulOverflows(result, base)
    <3>1. Wrap(result * base) = result * base /\ result * base \in Ints
      BY <2>2, Product DEF PowerInv
    <3>2. /\ base' = base /\ trueBase' = trueBase
          /\ result' = Wrap(result * base) /\ trueResult' = trueResult * trueBase
      BY <1>1, <2>2 DEF Multiply
    <3> QED
      BY <3>1, <3>2 DEF PowerInv, NoWrap
  <2> QED
    BY <2>1, <2>2
<1>2. CASE Square
  <2>1. CASE LastBit \/ mulOverflows(base, base)
    BY <1>2, <2>1 DEF Square, PowerInv, NoWrap
  <2>2. CASE ~LastBit /\ ~mulOverflows(base, base)
    <3>1. Wrap(base * base) = base * base /\ base * base \in Ints
      BY <2>2, Product DEF PowerInv
    <3>2. /\ result' = result /\ trueResult' = trueResult
          /\ base' = Wrap(base * base) /\ trueBase' = trueBase * trueBase
      BY <1>2, <2>2 DEF Square
    <3> QED
      BY <3>1, <3>2 DEF PowerInv, NoWrap
  <2> QED
    BY <2>1, <2>2
<1>3. CASE UNCHANGED powerVars
  BY <1>3 DEF powerVars, PowerInv, NoWrap
<1> QED
  BY <1>1, <1>2, <1>3 DEF PowerNext

\* No multiplication of intPow wraps around, for machine integers of every width
\* and all operands.
THEOREM NoWrapHolds == PowerSpec => []NoWrap
<1>1. PowerInit => PowerInv
  BY MaxIntAssumption DEF PowerInit, PowerInv, NoWrap, Ints, MinInt
<1>2. PowerInv /\ [PowerNext]_powerVars => PowerInv'
  BY NoWrapStep
<1>3. PowerInv => NoWrap
  BY DEF PowerInv
<1> QED
  BY <1>1, <1>2, <1>3, PTL DEF PowerSpec

-----------------------------------------------------------------------------
(* Power: what the loop returns is the power.  A power is the last entry of *)
(* a table of powers, so that it needs no recursive definition.             *)

\* Induction over a set of numbers.
LEMMA Induction ==
  ASSUME NEW S, 0 \in S, \A n \in Nat : n \in S => n + 1 \in S
  PROVE  \A n \in Nat : n \in S
<1> SUFFICES ASSUME NEW n \in Nat, n \notin S PROVE FALSE
  OBVIOUS
<1> DEFINE Out == {k \in Nat : k \notin S}
<1>1. Out \subseteq Nat /\ Out /= {}
  OBVIOUS
<1>2. \E x \in Out : \A y \in Out : ~ (<<y, x>> \in OpToRel(<, Nat))
  BY <1>1, NatLessThanWellFounded, WFMin
<1>3. PICK x \in Out : \A y \in Out : ~ (y < x)
  BY <1>1, <1>2 DEF OpToRel
<1>4. x /= 0 /\ x \in Nat
  OBVIOUS
<1>5. x - 1 \in Nat /\ x - 1 < x /\ (x - 1) + 1 = x
  BY <1>4
<1>6. x - 1 \in S
  BY <1>3, <1>5
<1> QED
  BY <1>5, <1>6

\* The powers of a base up to the one with exponent n.
Powers(b, n) == {f \in [0 .. n -> Int] : f[0] = 1 /\ \A k \in 1 .. n : f[k] = f[k - 1] * b}

\* A base has powers.
LEMMA PowersExist ==
  ASSUME NEW b \in Int, NEW n \in Nat
  PROVE  Powers(b, n) /= {}
<1> DEFINE S == {m \in Nat : Powers(b, m) /= {}}
<1>1. 0 \in S
  <2>1. [k \in 0 .. 0 |-> 1] \in Powers(b, 0)
    BY DEF Powers
  <2> QED
    BY <2>1
<1>2. ASSUME NEW m \in Nat, m \in S PROVE m + 1 \in S
  <2>1. PICK f \in Powers(b, m) : TRUE
    BY <1>2
  <2> DEFINE g == [k \in 0 .. m + 1 |-> IF k <= m THEN f[k] ELSE f[m] * b]
  <2>2. /\ f \in [0 .. m -> Int] /\ f[0] = 1 /\ \A k \in 1 .. m : f[k] = f[k - 1] * b
        /\ f[m] \in Int
    BY DEF Powers
  <2>3. f[m] * b \in Int
    BY <2>2
  <2>4. g \in [0 .. m + 1 -> Int] /\ g[0] = 1
    BY <2>2, <2>3
  <2>5. ASSUME NEW k \in 1 .. m + 1 PROVE g[k] = g[k - 1] * b
    <3>1. CASE k <= m
      BY <2>2, <3>1
    <3>2. CASE k = m + 1
      <4>1. g[k] = f[m] * b /\ k - 1 = m /\ g[m] = f[m]
        BY <3>2
      <4> QED
        BY <4>1
    <3> QED
      BY <3>1, <3>2
  <2> HIDE DEF g
  <2>6. g \in Powers(b, m + 1)
    BY <2>4, <2>5 DEF Powers
  <2> QED
    BY <2>6
<1> HIDE DEF S
<1>3. n \in S
  BY <1>1, <1>2, Induction
<1> QED
  BY <1>3 DEF S

\* Every other power of a base is a power of its square.
LEMMA PowersOfSquare ==
  ASSUME NEW b \in Int, NEW n \in Nat, NEW f \in Powers(b, 2 * n)
  PROVE  \E g \in Powers(b * b, n) : g[n] = f[2 * n]
<1> DEFINE g == [k \in 0 .. n |-> f[2 * k]]
<1>1. /\ f \in [0 .. 2 * n -> Int] /\ f[0] = 1
      /\ \A k \in 1 .. 2 * n : f[k] = f[k - 1] * b
  BY DEF Powers
<1>2. \A k \in 0 .. n : 2 * k \in 0 .. 2 * n
  OBVIOUS
<1>3. g \in [0 .. n -> Int] /\ g[0] = 1 /\ g[n] = f[2 * n]
  BY <1>1, <1>2
<1>4. ASSUME NEW k \in 1 .. n PROVE g[k] = g[k - 1] * (b * b)
  <2>1. 2 * k \in 1 .. 2 * n /\ 2 * k - 1 \in 1 .. 2 * n /\ 2 * k - 2 \in 0 .. 2 * n
    OBVIOUS
  <2>2. f[2 * k] = f[2 * k - 1] * b
    BY <1>1, <2>1
  <2>3. f[2 * k - 1] = f[2 * k - 2] * b
    <3>1. (2 * k - 1) - 1 = 2 * k - 2
      OBVIOUS
    <3> QED
      BY <1>1, <2>1, <3>1
  <2>4. f[2 * k - 2] \in Int
    BY <1>1, <2>1
  <2>5. \A v \in Int : (v * b) * b = v * (b * b)
    OBVIOUS
  <2>6. g[k] = f[2 * k] /\ g[k - 1] = f[2 * k - 2]
    <3>1. k - 1 \in 0 .. n /\ k \in 0 .. n /\ 2 * (k - 1) = 2 * k - 2
      OBVIOUS
    <3> QED
      BY <3>1
  <2> QED
    BY <2>2, <2>3, <2>4, <2>5, <2>6
<1> HIDE DEF g
<1>5. g \in Powers(b * b, n)
  BY <1>3, <1>4 DEF Powers
<1> QED
  BY <1>3, <1>5

\* The last power is the one before it times the base.
LEMMA PowersLast ==
  ASSUME NEW b \in Int, NEW n \in Nat, n > 0, NEW f \in Powers(b, n)
  PROVE  \E g \in Powers(b, n - 1) : g[n - 1] \in Int /\ f[n] = g[n - 1] * b
<1> DEFINE g == [k \in 0 .. n - 1 |-> f[k]]
<1>1. f \in [0 .. n -> Int] /\ f[0] = 1 /\ \A k \in 1 .. n : f[k] = f[k - 1] * b
  BY DEF Powers
<1>2. g \in [0 .. n - 1 -> Int] /\ g[0] = 1 /\ g[n - 1] = f[n - 1]
  BY <1>1
<1>3. \A k \in 1 .. n - 1 : g[k] = g[k - 1] * b
  BY <1>1
<1> HIDE DEF g
<1>4. g \in Powers(b, n - 1) /\ g[n - 1] \in Int
  BY <1>2, <1>3 DEF Powers
<1>5. f[n] = f[n - 1] * b
  BY <1>1
<1> QED
  BY <1>2, <1>4, <1>5

\* The powers of a positive base are positive, and all but the first at least the base.
LEMMA PowersPositive ==
  ASSUME NEW b \in Int, b >= 1, NEW n \in Nat, NEW f \in Powers(b, n)
  PROVE  f[n] \in Int /\ f[n] >= 1 /\ (n > 0 => f[n] >= b)
<1>1. f \in [0 .. n -> Int] /\ f[0] = 1 /\ \A k \in 1 .. n : f[k] = f[k - 1] * b
  BY DEF Powers
<1> DEFINE S == {k \in Nat : k <= n => f[k] >= 1 /\ (k > 0 => f[k] >= b)}
<1>2. 0 \in S
  BY <1>1
<1>3. ASSUME NEW k \in Nat, k \in S PROVE k + 1 \in S
  <2> SUFFICES ASSUME k + 1 <= n PROVE f[k + 1] >= 1 /\ f[k + 1] >= b
    OBVIOUS
  <2>1. f[k] \in Int /\ f[k] >= 1
    BY <1>1, <1>3
  <2>2. f[k + 1] = f[k] * b
    <3>1. k + 1 \in 1 .. n /\ (k + 1) - 1 = k
      OBVIOUS
    <3> QED
      BY <1>1, <3>1
  <2>3. f[k] * b >= 1 * b
    BY <2>1
  <2> QED
    BY <2>1, <2>2, <2>3
<1> HIDE DEF S
<1>4. n \in S
  BY <1>2, <1>3, Induction
<1> QED
  BY <1>1, <1>4 DEF S

\* Beyond the machine integers, on either side.
Outside(v) == v >= MaxInt + 1 \/ v <= -(MaxInt + 2)

LEMMA OutsideIs ==
  /\ MaxInt \in Nat /\ MaxInt > 0
  /\ \A v \in Int : Outside(v) <=> v \notin Ints
BY MaxIntAssumption DEF Outside, Ints, MinInt

\* A product by a base of size two or more is further out.
LEMMA Further ==
  ASSUME NEW v \in Int, NEW b \in Int, Outside(v), b \notin -1 .. 1
  PROVE  v * b \in Int /\ Outside(v * b)
<1>0. MaxInt \in Nat /\ MaxInt > 0 /\ (b >= 2 \/ b <= -2)
  BY OutsideIs
<1>1. CASE v >= MaxInt + 1 /\ b >= 2
  <2>1. v * b >= v * 2
    BY <1>0, <1>1
  <2> QED
    BY <1>0, <1>1, <2>1 DEF Outside
<1>2. CASE v >= MaxInt + 1 /\ b <= -2
  <2>1. v * b <= v * (-2)
    BY <1>0, <1>2
  <2> QED
    BY <1>0, <1>2, <2>1 DEF Outside
<1>3. CASE v <= -(MaxInt + 2) /\ b >= 2
  <2>1. v * b <= v * 2
    BY <1>0, <1>3
  <2> QED
    BY <1>0, <1>3, <2>1 DEF Outside
<1>4. CASE v <= -(MaxInt + 2) /\ b <= -2
  <2>1. v * b >= v * (-2)
    BY <1>0, <1>4
  <2> QED
    BY <1>0, <1>4, <2>1 DEF Outside
<1> QED
  BY <1>0, <1>1, <1>2, <1>3, <1>4 DEF Outside

\* Once a power is no machine integer, no later one is.
LEMMA PowersLeave ==
  ASSUME NEW b \in Int, NEW n \in Nat, NEW f \in Powers(b, n), f[n] \in Ints
  PROVE  \A k \in 0 .. n : f[k] \in Ints
<1>1. f \in [0 .. n -> Int] /\ f[0] = 1 /\ \A k \in 1 .. n : f[k] = f[k - 1] * b
  BY DEF Powers
<1>2. ASSUME NEW k \in Nat, k + 1 <= n PROVE f[k] \in Int /\ f[k + 1] = f[k] * b
  <2>1. k + 1 \in 1 .. n /\ (k + 1) - 1 = k /\ k \in 0 .. n
    BY <1>2
  <2> QED
    BY <1>1, <2>1
<1>3. CASE b \in -1 .. 1
  <2> DEFINE S == {k \in Nat : k <= n => f[k] \in -1 .. 1}
  <2>1. 0 \in S
    BY <1>1
  <2>2. ASSUME NEW k \in Nat, k \in S PROVE k + 1 \in S
    <3> SUFFICES ASSUME k + 1 <= n PROVE f[k + 1] \in -1 .. 1
      OBVIOUS
    <3>1. f[k] \in -1 .. 1 /\ f[k + 1] = f[k] * b
      BY <1>2, <2>2
    <3>2. \A v \in -1 .. 1 : v * b \in -1 .. 1
      <4>1. b = -1 \/ b = 0 \/ b = 1
        BY <1>3
      <4> QED
        BY <4>1
    <3> QED
      BY <3>1, <3>2
  <2> HIDE DEF S
  <2>3. \A k \in Nat : k \in S
    BY <2>1, <2>2, Induction
  <2>4. \A k \in 0 .. n : f[k] \in -1 .. 1
    BY <2>3 DEF S
  <2>5. -1 .. 1 \subseteq Ints
    BY MaxIntAssumption DEF Ints, MinInt
  <2> QED
    BY <2>4, <2>5
<1>4. CASE b \notin -1 .. 1
  <2> SUFFICES ASSUME NEW m \in 0 .. n, f[m] \notin Ints PROVE FALSE
    OBVIOUS
  <2> DEFINE S == {k \in Nat : m + k <= n => Outside(f[m + k])}
  <2>1. 0 \in S
    <3>1. m + 0 = m /\ f[m] \in Int
      BY <1>1
    <3> QED
      BY <3>1, OutsideIs
  <2>2. ASSUME NEW k \in Nat, k \in S PROVE k + 1 \in S
    <3> SUFFICES ASSUME m + (k + 1) <= n PROVE Outside(f[m + (k + 1)])
      OBVIOUS
    <3>1. m + k \in Nat /\ (m + k) + 1 = m + (k + 1) /\ m + k <= n
      OBVIOUS
    <3>2. Outside(f[m + k])
      BY <2>2, <3>1
    <3>3. f[m + k] \in Int /\ f[m + (k + 1)] = f[m + k] * b
      BY <1>2, <3>1
    <3> QED
      BY <1>4, <3>2, <3>3, Further
  <2> HIDE DEF S
  <2>3. n - m \in S
    BY <2>1, <2>2, Induction
  <2>4. Outside(f[n])
    <3>1. m + (n - m) = n
      OBVIOUS
    <3> QED
      BY <2>3, <3>1 DEF S
  <2> QED
    BY <1>1, <2>4, OutsideIs
<1> QED
  BY <1>3, <1>4

-----------------------------------------------------------------------------
\* The function that PowerOf is computed by, and a step of it.
After(v, b) == IF v # TooBig /\ v * b \in Ints THEN v * b ELSE TooBig
Capped(b, n) ==
  CHOOSE p : p = [k \in 0 .. n |->
        IF k = 0 THEN 1
        ELSE IF p[k - 1] # TooBig /\ p[k - 1] * b \in Ints THEN p[k - 1] * b ELSE TooBig]

\* There is such a function.
LEMMA CappedIs ==
  ASSUME NEW b \in Int, NEW n \in Nat
  PROVE  /\ PowerOf(b, n) = Capped(b, n)[n] /\ Capped(b, n)[0] = 1
         /\ \A k \in 1 .. n : Capped(b, n)[k] = After(Capped(b, n)[k - 1], b)
<1> DEFINE Step(p) == [k \in 0 .. n |-> IF k = 0 THEN 1 ELSE After(p[k - 1], b)]
           S == {m \in Nat : \E p : p[0] = 1 /\ \A k \in 1 .. m : p[k] = After(p[k - 1], b)}
<1>1. 0 \in S
  <2> DEFINE p == [k \in 0 .. 0 |-> 1]
  <2>1. p[0] = 1 /\ \A k \in 1 .. 0 : p[k] = After(p[k - 1], b)
    OBVIOUS
  <2> HIDE DEF p
  <2> QED
    BY <2>1
<1>2. ASSUME NEW m \in Nat, m \in S PROVE m + 1 \in S
  <2>1. PICK p : p[0] = 1 /\ \A k \in 1 .. m : p[k] = After(p[k - 1], b)
    BY <1>2
  <2> DEFINE q == [k \in 0 .. m + 1 |-> IF k <= m THEN p[k] ELSE After(p[m], b)]
  <2>2. q[0] = 1
    BY <2>1
  <2>3. ASSUME NEW k \in 1 .. m + 1 PROVE q[k] = After(q[k - 1], b)
    <3>1. CASE k <= m
      <4>1. q[k] = p[k] /\ q[k - 1] = p[k - 1] /\ k \in 1 .. m
        BY <3>1
      <4> QED
        BY <2>1, <4>1
    <3>2. CASE k = m + 1
      <4>1. q[k] = After(p[m], b) /\ k - 1 = m /\ q[m] = p[m]
        BY <3>2
      <4> QED
        BY <4>1
    <3> QED
      BY <3>1, <3>2
  <2> HIDE DEF q
  <2> QED
    BY <2>2, <2>3
<1> HIDE DEF S
<1>3. n \in S
  BY <1>1, <1>2, Induction
<1>4. PICK p : p[0] = 1 /\ \A k \in 1 .. n : p[k] = After(p[k - 1], b)
  BY <1>3 DEF S
<1> DEFINE q == [k \in 0 .. n |-> p[k]]
<1>5. q = Step(q)
  <2>1. ASSUME NEW k \in 0 .. n PROVE q[k] = Step(q)[k]
    <3>1. CASE k = 0
      BY <1>4, <3>1
    <3>2. CASE k /= 0
      <4>1. k \in 1 .. n /\ k - 1 \in 0 .. n
        BY <3>2
      <4>2. q[k] = p[k] /\ q[k - 1] = p[k - 1]
        BY <4>1
      <4>3. Step(q)[k] = After(q[k - 1], b)
        BY <3>2
      <4> QED
        BY <1>4, <4>1, <4>2, <4>3
    <3> QED
      BY <3>1, <3>2
  <2> QED
    BY <2>1
<1>6. Capped(b, n) = CHOOSE r : r = Step(r)
  BY DEF Capped, After
<1>7. Capped(b, n) = Step(Capped(b, n))
  <2> HIDE DEF q, Step
  <2>1. \E r : r = Step(r)
    BY <1>5
  <2> QED
    BY <1>6, <2>1
<1> DEFINE c == Capped(b, n)
<1>8. c[0] = 1
  <2>1. Step(c)[0] = 1
    OBVIOUS
  <2> QED
    BY <1>7, <2>1
<1>9. ASSUME NEW k \in 1 .. n PROVE c[k] = After(c[k - 1], b)
  <2>1. Step(c)[k] = After(c[k - 1], b)
    OBVIOUS
  <2> QED
    BY <1>7, <2>1
<1>10. PowerOf(b, n) = c[n]
  BY DEF PowerOf, Capped
<1> QED
  BY <1>8, <1>9, <1>10

\* The reference is the true power, or says that it is no machine integer.
LEMMA PowerOfIs ==
  ASSUME NEW b \in Int, NEW n \in Nat, NEW f \in Powers(b, n)
  PROVE  PowerOf(b, n) = IF f[n] \in Ints THEN f[n] ELSE TooBig
<1> DEFINE c == Capped(b, n)
<1>1. f \in [0 .. n -> Int] /\ f[0] = 1 /\ \A k \in 1 .. n : f[k] = f[k - 1] * b
  BY DEF Powers
<1>2. /\ PowerOf(b, n) = c[n] /\ c[0] = 1
      /\ \A k \in 1 .. n : c[k] = After(c[k - 1], b)
  BY CappedIs
<1>3. 1 \in Ints /\ TooBig \notin Ints
  BY MaxIntAssumption DEF Ints, MinInt, TooBig
<1> HIDE DEF c
<1> DEFINE S == {k \in Nat : k <= n =>
                   /\ c[k] = TooBig \/ (c[k] = f[k] /\ f[k] \in Ints)
                   /\ (\A j \in 0 .. k : f[j] \in Ints) => c[k] = f[k]}
<1>4. 0 \in S
  BY <1>1, <1>2, <1>3
<1>5. ASSUME NEW k \in Nat, k \in S PROVE k + 1 \in S
  <2> SUFFICES ASSUME k + 1 <= n
               PROVE  /\ c[k + 1] = TooBig \/ (c[k + 1] = f[k + 1] /\ f[k + 1] \in Ints)
                      /\ (\A j \in 0 .. k + 1 : f[j] \in Ints) => c[k + 1] = f[k + 1]
    OBVIOUS
  <2>1. k + 1 \in 1 .. n /\ (k + 1) - 1 = k /\ k <= n
    OBVIOUS
  <2>2. c[k + 1] = After(c[k], b) /\ f[k + 1] = f[k] * b
    BY <1>1, <1>2, <2>1
  <2>3. /\ c[k] = TooBig \/ (c[k] = f[k] /\ f[k] \in Ints)
        /\ (\A j \in 0 .. k : f[j] \in Ints) => c[k] = f[k]
    BY <1>5, <2>1
  <2>4. c[k + 1] = TooBig \/ (c[k + 1] = f[k + 1] /\ f[k + 1] \in Ints)
    BY <2>2, <2>3 DEF After
  <2>5. ASSUME \A j \in 0 .. k + 1 : f[j] \in Ints PROVE c[k + 1] = f[k + 1]
    <3>1. (\A j \in 0 .. k : f[j] \in Ints) /\ f[k] \in Ints /\ f[k + 1] \in Ints
      BY <2>5
    <3>2. c[k] = f[k] /\ c[k] # TooBig
      BY <1>3, <2>3, <3>1
    <3> QED
      BY <2>2, <3>1, <3>2 DEF After
  <2> QED
    BY <2>4, <2>5
<1> HIDE DEF S
<1>6. n \in S
  BY <1>4, <1>5, Induction
<1>7. /\ c[n] = TooBig \/ (c[n] = f[n] /\ f[n] \in Ints)
      /\ (\A j \in 0 .. n : f[j] \in Ints) => c[n] = f[n]
  BY <1>6 DEF S
<1>8. CASE f[n] \in Ints
  <2>1. \A j \in 0 .. n : f[j] \in Ints
    BY <1>8, PowersLeave
  <2> QED
    BY <1>2, <1>7, <1>8, <2>1
<1>9. CASE f[n] \notin Ints
  BY <1>2, <1>7, <1>9
<1> QED
  BY <1>8, <1>9

-----------------------------------------------------------------------------
(* The loop computes the power.                                            *)

\* A result of nought or minus one leaves nothing but small bases: a square that
\* overflows then belongs to a power that does.
Small == result \in {0, -1} => base \in -1 .. 1

\* What is left to do: the result times a power of the base is the power that was
\* asked for.
Remaining(n) ==
  \A F \in Powers(arg[1], arg[2]) :
    \E f \in Powers(base, n) : result * f[n] = F[arg[2]]

ExactInv ==
  /\ PowerInv /\ Small
  /\ exp \in Nat /\ arg[1] \in Ints /\ arg[2] \in Nat
  /\ powering = "multiply" => Remaining(exp)
  /\ powering = "square" => Remaining(2 * (exp \div 2))
  /\ powering = "done" => \A F \in Powers(arg[1], arg[2]) : result = F[arg[2]]
  /\ powering = "raised" => \A F \in Powers(arg[1], arg[2]) : F[arg[2]] \notin Ints

LEMMA IntsAreInt == \A n \in Ints : n \in Int
BY MaxIntAssumption DEF Ints, MinInt

\* A half is a number, and no exponent is halved without its last bit.
LEMMA Halves ==
  ASSUME NEW n \in Nat
  PROVE  /\ n \div 2 \in Nat
         /\ n % 2 = 0 => 2 * (n \div 2) = n
         /\ n % 2 /= 0 => n > 0 /\ 2 * (n \div 2) = n - 1
<1>1. n \div 2 \in Nat /\ n % 2 \in 0 .. 1 /\ n = 2 * (n \div 2) + (n % 2)
  OBVIOUS
<1> QED
  BY <1>1

\* Multiplying by a number of at least one takes nothing back inside.
LEMMA Stays ==
  ASSUME NEW v \in Int, NEW m \in Int, m >= 1, Outside(v)
  PROVE  v * m \in Int /\ Outside(v * m)
<1>0. MaxInt \in Nat
  BY OutsideIs
<1>1. CASE v >= MaxInt + 1
  <2>1. v * m >= v * 1
    BY <1>0, <1>1
  <2> QED
    BY <1>0, <1>1, <2>1 DEF Outside
<1>2. CASE v <= -(MaxInt + 2)
  <2>1. v * m <= v * 1
    BY <1>0, <1>2
  <2> QED
    BY <1>0, <1>2, <2>1 DEF Outside
<1> QED
  BY <1>1, <1>2 DEF Outside

\* A square of a number that is not nought is positive.
LEMMA SquarePositive ==
  ASSUME NEW b \in Int, b /= 0
  PROVE  b * b \in Int /\ b * b >= 1
<1>1. CASE b > 0
  BY <1>1, Signs
<1>2. CASE b < 0
  <2>1. (-b) * (-b) \in Int /\ (-b) * (-b) > 0
    BY <1>2, Signs
  <2>2. (-b) * (-b) = b * b
    OBVIOUS
  <2> QED
    BY <2>1, <2>2
<1> QED
  BY <1>1, <1>2

LEMMA MultiplyExact ==
  ASSUME ExactInv, Multiply
  PROVE  /\ Small'
         /\ powering' = "square" => Remaining(2 * (exp \div 2))'
         /\ powering' = "raised" => \A F \in Powers(arg[1], arg[2]) : F[arg[2]] \notin Ints
<1>0. /\ base \in Int /\ result \in Int /\ exp \in Nat /\ powering = "multiply"
      /\ base' = base /\ exp' = exp /\ arg' = arg /\ Small /\ Remaining(exp)
      /\ base \in Ints /\ result \in Ints
  BY IntsAreInt DEF ExactInv, PowerInv, Multiply
<1>1. CASE exp % 2 = 0
  <2>1. result' = result /\ powering' = "square"
    BY <1>1 DEF Multiply
  <2>2. 2 * (exp \div 2) = exp
    BY <1>0, <1>1, Halves
  <2>3. Remaining(exp)'
    BY <1>0, <2>1 DEF Remaining
  <2> QED
    BY <1>0, <2>1, <2>2, <2>3 DEF Small
<1>2. CASE exp % 2 /= 0
  <2> DEFINE h == exp \div 2
  <2>1. h \in Nat /\ exp > 0 /\ 2 * h = exp - 1
    BY <1>0, <1>2, Halves
  <2> HIDE DEF h
  <2>2. ASSUME NEW F \in Powers(arg[1], arg[2])
        PROVE  \E g \in Powers(base, 2 * h) : g[2 * h] \in Int /\ (result * base) * g[2 * h] = F[arg[2]]
    <3>1. PICK f \in Powers(base, exp) : result * f[exp] = F[arg[2]]
      BY <1>0 DEF Remaining
    <3>2. PICK g \in Powers(base, exp - 1) : g[exp - 1] \in Int /\ f[exp] = g[exp - 1] * base
      BY <1>0, <2>1, PowersLast
    <3>3. \A v \in Int : result * (v * base) = (result * base) * v
      BY <1>0
    <3>4. (result * base) * g[exp - 1] = F[arg[2]]
      BY <3>1, <3>2, <3>3
    <3> QED
      BY <2>1, <3>2, <3>4
  <2>3. CASE mulOverflows(result, base)
    <3>1. result' = result /\ powering' = "raised"
      BY <1>2, <2>3 DEF Multiply
    <3>2. result * base \notin Ints /\ result * base \in Int
      BY <1>0, <2>3, OverflowExact
    <3>3. base /= 0
      <4>1. 0 \in Ints
        BY MaxIntAssumption DEF Ints, MinInt
      <4> QED
        BY <1>0, <3>2, <4>1
    <3>4. ASSUME NEW F \in Powers(arg[1], arg[2]) PROVE F[arg[2]] \notin Ints
      <4>1. PICK g \in Powers(base, 2 * h) :
              g[2 * h] \in Int /\ (result * base) * g[2 * h] = F[arg[2]]
        BY <2>2
      <4>2. PICK e \in Powers(base * base, h) : e[h] = g[2 * h]
        BY <1>0, <2>1, PowersOfSquare
      <4>3. e[h] >= 1
        BY <1>0, <2>1, <3>3, SquarePositive, PowersPositive
      <4>4. Outside(result * base)
        BY <3>2, OutsideIs
      <4>5. Outside((result * base) * g[2 * h]) /\ (result * base) * g[2 * h] \in Int
        BY <3>2, <4>1, <4>2, <4>3, <4>4, Stays
      <4> QED
        BY <4>1, <4>5, OutsideIs
    <3> QED
      BY <1>0, <3>1, <3>4 DEF Small
  <2>4. CASE ~mulOverflows(result, base)
    <3>1. result' = result * base /\ powering' = "square"
      <4>1. Wrap(result * base) = result * base
        BY <1>0, <2>4, Product
      <4> QED
        BY <1>2, <2>4, <4>1 DEF Multiply
    <3>2. Small'
      <4> SUFFICES ASSUME result * base \in {0, -1}, base \notin -1 .. 1 PROVE FALSE
        BY <1>0, <3>1 DEF Small
      <4>1. result \notin {0, -1}
        BY <1>0 DEF Small
      <4>2. base >= 2 \/ base <= -2
        BY <1>0
      <4>3. result >= 1 \/ result <= -2
        BY <1>0, <4>1
      <4>4. CASE result >= 1 /\ base >= 2
        <5>1. result * base >= 1 * base
          BY <1>0, <4>4
        <5> QED
          BY <1>0, <4>4, <5>1
      <4>5. CASE result >= 1 /\ base <= -2
        <5>1. result * base <= 1 * base
          BY <1>0, <4>5
        <5> QED
          BY <1>0, <4>5, <5>1
      <4>6. CASE result <= -2 /\ base >= 2
        <5>1. result * base <= (-2) * base
          BY <1>0, <4>6
        <5> QED
          BY <1>0, <4>6, <5>1
      <4>7. CASE result <= -2 /\ base <= -2
        <5>1. result * base >= (-2) * base
          BY <1>0, <4>7
        <5> QED
          BY <1>0, <4>7, <5>1
      <4> QED
        BY <4>2, <4>3, <4>4, <4>5, <4>6, <4>7
    <3>3. Remaining(2 * (exp \div 2))'
      BY <1>0, <2>2, <3>1 DEF Remaining, h
    <3> QED
      BY <3>1, <3>2, <3>3
  <2> QED
    BY <2>3, <2>4
<1> QED
  BY <1>1, <1>2

LEMMA SquareExact ==
  ASSUME ExactInv, Square
  PROVE  /\ Small' /\ exp' \in Nat
         /\ powering' = "multiply" => Remaining(exp)'
         /\ powering' = "done" => \A F \in Powers(arg[1], arg[2]) : result = F[arg[2]]
         /\ powering' = "raised" => \A F \in Powers(arg[1], arg[2]) : F[arg[2]] \notin Ints
<1> DEFINE h == exp \div 2
<1>0. /\ base \in Int /\ result \in Int /\ exp \in Nat /\ powering = "square"
      /\ result' = result /\ exp' = h /\ arg' = arg /\ Small /\ Remaining(2 * h)
      /\ base \in Ints /\ result \in Ints /\ h \in Nat
  BY IntsAreInt, Halves DEF ExactInv, PowerInv, Square
<1>1. CASE LastBit
  <2>1. powering' = "done" /\ base' = base /\ h = 0
    BY <1>1 DEF Square, LastBit
  <2>2. ASSUME NEW F \in Powers(arg[1], arg[2]) PROVE result = F[arg[2]]
    <3>1. Remaining(0)
      BY <1>0, <2>1
    <3>2. PICK f \in Powers(base, 0) : result * f[0] = F[arg[2]]
      BY <3>1 DEF Remaining
    <3>3. f[0] = 1
      BY DEF Powers
    <3> QED
      BY <1>0, <3>2, <3>3
  <2> QED
    BY <1>0, <2>1, <2>2 DEF Small
<1>2. CASE ~LastBit
  <2>0. h > 0
    BY <1>0, <1>2 DEF LastBit
  <2> HIDE DEF h
  <2>1. ASSUME NEW F \in Powers(arg[1], arg[2])
        PROVE  \E g \in Powers(base * base, h) : result * g[h] = F[arg[2]]
    <3>1. PICK f \in Powers(base, 2 * h) : result * f[2 * h] = F[arg[2]]
      BY <1>0 DEF Remaining
    <3>2. PICK g \in Powers(base * base, h) : g[h] = f[2 * h]
      BY <1>0, PowersOfSquare
    <3> QED
      BY <3>1, <3>2
  <2>2. CASE mulOverflows(base, base)
    <3>1. powering' = "raised" /\ base' = base
      BY <1>2, <2>2 DEF Square
    <3>2. base * base \notin Ints /\ base * base \in Int
      BY <1>0, <2>2, OverflowExact
    <3>3. base \notin -1 .. 1
      <4>1. 0 \in Ints /\ 1 \in Ints
        BY MaxIntAssumption DEF Ints, MinInt
      <4>2. base \in -1 .. 1 => base = -1 \/ base = 0 \/ base = 1
        BY <1>0
      <4>3. (-1) * (-1) = 1 /\ 0 * 0 = 0 /\ 1 * 1 = 1
        OBVIOUS
      <4> QED
        BY <3>2, <4>1, <4>2, <4>3
    <3>4. result >= 1 \/ result <= -2
      BY <1>0, <3>3 DEF Small
    <3>5. base * base >= MaxInt + 1
      <4>1. base * base >= 1
        BY <1>0, <3>3, SquarePositive
      <4> QED
        BY <3>2, <4>1, OutsideIs DEF Outside
    <3>6. ASSUME NEW F \in Powers(arg[1], arg[2]) PROVE F[arg[2]] \notin Ints
      <4>1. PICK g \in Powers(base * base, h) : result * g[h] = F[arg[2]]
        BY <2>1
      <4>2. g[h] \in Int /\ g[h] >= base * base
        BY <1>0, <2>0, <3>2, <3>5, OutsideIs, PowersPositive
      <4>3. g[h] >= MaxInt + 1
        BY <3>2, <3>5, <4>2, OutsideIs
      <4>4. result * g[h] \in Int /\ Outside(result * g[h])
        <5>1. CASE result >= 1
          <6>1. result * g[h] >= 1 * g[h]
            BY <1>0, <4>2, <4>3, <5>1, OutsideIs
          <6> QED
            BY <1>0, <4>2, <4>3, <6>1, OutsideIs DEF Outside
        <5>2. CASE result <= -2
          <6>1. result * g[h] <= (-2) * g[h]
            BY <1>0, <4>2, <4>3, <5>2, OutsideIs
          <6> QED
            BY <1>0, <4>2, <4>3, <6>1, OutsideIs DEF Outside
        <5> QED
          BY <3>4, <5>1, <5>2
      <4> QED
        BY <4>1, <4>4, OutsideIs
    <3> QED
      BY <1>0, <3>1, <3>6 DEF Small
  <2>3. CASE ~mulOverflows(base, base)
    <3>1. powering' = "multiply" /\ base' = base * base
      <4>1. Wrap(base * base) = base * base
        BY <1>0, <2>3, Product
      <4> QED
        BY <1>2, <2>3, <4>1 DEF Square
    <3>2. Small'
      <4> SUFFICES ASSUME base \in -1 .. 1 PROVE base * base \in -1 .. 1
        BY <1>0, <3>1 DEF Small
      <4>1. base = -1 \/ base = 0 \/ base = 1
        BY <1>0
      <4> QED
        BY <4>1
    <3>3. Remaining(exp)'
      BY <1>0, <2>1, <3>1 DEF Remaining
    <3> QED
      BY <1>0, <3>1, <3>2, <3>3
  <2> QED
    BY <2>2, <2>3
<1> QED
  BY <1>1, <1>2

\* What intPow returns is the power, and it raises only for a power that no machine
\* integer is, for machine integers of every width and all operands.
THEOREM ExactHolds == PowerSpec => []Exact
<1>1. PowerInit => ExactInv
  <2> SUFFICES ASSUME PowerInit PROVE ExactInv
    OBVIOUS
  <2>1. /\ base \in Ints /\ base \in Int /\ exp \in Nat /\ result = 1
        /\ arg[1] = base /\ arg[2] = exp
        /\ powering = IF exp > 0 THEN "multiply" ELSE "done"
    BY MaxIntAssumption, IntsAreInt DEF PowerInit
  <2>2. PowerInv /\ Small
    BY <2>1, MaxIntAssumption DEF PowerInit, PowerInv, NoWrap, Ints, MinInt, Small
  <2>3. ASSUME NEW F \in Powers(base, exp) PROVE F[exp] \in Int /\ F[0] = 1
    BY <2>1 DEF Powers
  <2>4. Remaining(exp)
    <3>1. ASSUME NEW F \in Powers(base, exp) PROVE result * F[exp] = F[exp]
      BY <2>1, <2>3
    <3> QED
      BY <2>1, <3>1 DEF Remaining
  <2>5. exp = 0 => \A F \in Powers(base, exp) : result = F[exp]
    BY <2>1, <2>3
  <2>6. exp > 0 \/ exp = 0
    BY <2>1
  <2> QED
    BY <2>1, <2>2, <2>4, <2>5, <2>6 DEF ExactInv
<1>2. ExactInv /\ [PowerNext]_powerVars => ExactInv'
  <2> SUFFICES ASSUME ExactInv, [PowerNext]_powerVars PROVE ExactInv'
    OBVIOUS
  <2>0. PowerInv'
    BY NoWrapStep DEF ExactInv
  <2>1. CASE Multiply
    <3>1. exp' = exp /\ arg' = arg /\ powering' \in {"square", "raised"}
      BY <2>1 DEF Multiply
    <3> QED
      BY <2>0, <2>1, <3>1, MultiplyExact DEF ExactInv
  <2>2. CASE Square
    <3>1. arg' = arg /\ result' = result /\ powering' \in {"multiply", "done", "raised"}
      BY <2>2 DEF Square
    <3> QED
      BY <2>0, <2>2, <3>1, SquareExact DEF ExactInv
  <2>3. CASE UNCHANGED powerVars
    BY <2>0, <2>3 DEF powerVars, ExactInv, Small, Remaining
  <2> QED
    BY <2>1, <2>2, <2>3 DEF PowerNext
<1>3. ExactInv => Exact
  <2> SUFFICES ASSUME ExactInv PROVE Exact
    OBVIOUS
  <2>1. arg[1] \in Int /\ arg[2] \in Nat /\ result \in Ints
    BY IntsAreInt DEF ExactInv, PowerInv
  <2>2. PICK F \in Powers(arg[1], arg[2]) : TRUE
    BY <2>1, PowersExist
  <2>3. PowerOf(arg[1], arg[2]) = IF F[arg[2]] \in Ints THEN F[arg[2]] ELSE TooBig
    BY <2>1, PowerOfIs
  <2> QED
    BY <2>1, <2>2, <2>3 DEF ExactInv, Exact
<1> QED
  BY <1>1, <1>2, <1>3, PTL DEF PowerSpec

-----------------------------------------------------------------------------
(* Ranges: a loop over a range runs for its elements.                      *)

Width == MaxInt - MinInt
Spans == [start : RangeBounds, end : RangeBounds, step : Strides]

LEMMA IntsFact ==
  /\ MaxInt \in Int /\ MinInt \in Int /\ Width \in Nat
  /\ \A n : n \in Ints <=> n \in Int /\ MinInt <= n /\ n <= MaxInt
BY MaxIntAssumption DEF Ints, MinInt, Width

LEMMA SpanFields ==
  ASSUME NEW r \in Spans
  PROVE  r.start \in Ints /\ r.end \in Ints /\ r.step \in Ints
<1>1. r.start \in RangeBounds /\ r.end \in RangeBounds /\ r.step \in Strides
  BY DEF Spans
<1> QED
  BY <1>1, RangesAssumption

\* An element and the next one.
LEMMA Successor ==
  ASSUME NEW a \in Int, NEW s \in Int, NEW n \in Nat
  PROVE  a + (n + 1) * s = (a + n * s) + s
<1>1. (n + 1) * s = n * s + s /\ n * s \in Int
  OBVIOUS
<1> QED
  BY <1>1

\* A later element lies a step or more further in the direction of the step.
LEMMA Direction ==
  ASSUME NEW a \in Int, NEW s \in Int, NEW m \in Nat, NEW n \in Nat, m < n
  PROVE  /\ a + m * s \in Int /\ a + n * s \in Int
         /\ s > 0 => a + m * s + s <= a + n * s
         /\ s < 0 => a + m * s + s >= a + n * s
<1> DEFINE d == n - m - 1
<1>1. d \in Nat /\ n = m + 1 + d
  OBVIOUS
<1>2. m * s \in Int /\ d * s \in Int /\ n * s \in Int
  BY <1>1
<1>3. n * s = m * s + s + d * s
  <2> HIDE DEF d
  <2> QED
    BY <1>1
<1>4. s > 0 => d * s >= 0
  <2> HIDE DEF d
  <2> QED
    BY <1>1
<1>5. s < 0 => d * s <= 0
  <2> HIDE DEF d
  <2> QED
    BY <1>1
<1> HIDE DEF d
<1> QED
  BY <1>2, <1>3, <1>4, <1>5

\* So an element that is a machine integer is among the first Width ones.
LEMMA Near ==
  ASSUME NEW a \in Ints, NEW s \in Int, NEW m \in Nat, s /= 0, a + m * s \in Ints
  PROVE  m \in 0 .. Width
<1>1. m * s \in Int
  OBVIOUS
<1>2. s > 0 => m * s >= m
  OBVIOUS
<1>3. s < 0 => m * s <= -m
  OBVIOUS
<1>4. m * s <= Width /\ m * s >= -Width
  BY <1>1, IntsFact DEF Width
<1> HIDE DEF Width
<1> QED
  BY <1>1, <1>2, <1>3, <1>4, IntsFact

(***************************************************************************)
(* The loop is at element n and has run for those before it; or the sum     *)
(* past the last element has wrapped around, and it has run for them all.   *)
(***************************************************************************)
Straight(n) ==
  /\ at = Nth(range, n) /\ at \in Ints
  /\ seen = {Nth(range, m) : m \in 0 .. n - 1}
  /\ \A m \in 0 .. n - 1 : Nth(range, m) \in Ints /\ Before(range, Nth(range, m))
Round == Members(range) \subseteq seen /\ ~Fits(range)

RangeInv ==
  /\ range \in Spans
  /\ ranging \in {"loop", "done"} => Round \/ \E n \in Nat : Straight(n)
  /\ ranging = "done" => Round \/ ~InRange(at)
  /\ ranging = "left" /\ Fits(range) => seen \subseteq Members(range)
  /\ ranging = "raised" => seen = {}
  /\ ranging \in {"loop", "done", "left", "raised"}

\* What comes before an element in range is an element of the range.
LEMMA Elements ==
  ASSUME NEW r \in Spans, NEW m \in Nat, Nth(r, m) \in Ints, Before(r, Nth(r, m))
  PROVE  Nth(r, m) \in Members(r)
<1>1. r.start \in Ints /\ r.step \in Int /\ r.step /= 0
  BY SpanFields, IntsFact DEF Before
<1>2. m \in 0 .. Width
  BY <1>1, Near DEF Nth
<1> QED
  BY <1>2 DEF Members, Width

\* Whatever lies beyond an element that is not in range is not in range either.
LEMMA Beyond ==
  ASSUME NEW r \in Spans, NEW n \in Nat, NEW k \in Members(r), Nth(r, n) \in Int
  PROVE  \/ \E m \in 0 .. n - 1 : k = Nth(r, m)
         \/ k = Nth(r, n)
         \/ r.step > 0 /\ Nth(r, n) + r.step <= k
         \/ r.step < 0 /\ Nth(r, n) + r.step >= k
<1>1. PICK j \in 0 .. Width : k = Nth(r, j) /\ Before(r, k)
  BY DEF Members, Width
<1>2. j \in Nat /\ r.start \in Int /\ r.step \in Int /\ r.step /= 0
  BY <1>1, SpanFields, IntsFact DEF Before
<1>3. CASE j > n
  <2>1. /\ r.step > 0 => r.start + n * r.step + r.step <= r.start + j * r.step
        /\ r.step < 0 => r.start + n * r.step + r.step >= r.start + j * r.step
    BY <1>2, <1>3, Direction
  <2> QED
    BY <1>1, <1>2, <2>1 DEF Nth
<1>4. CASE j <= n
  BY <1>1, <1>2, <1>4
<1> QED
  BY <1>2, <1>3, <1>4

\* The two halves of the property, before the loop has wrapped around.
LEMMA StraightRuns ==
  ASSUME range \in Spans, NEW n \in Nat, Straight(n)
  PROVE  /\ seen \subseteq Members(range)
         /\ \A k \in seen : IF range.step > 0 THEN k < at ELSE k > at
         /\ ~InRange(at) => Members(range) \subseteq seen
<1>1. range.start \in Int /\ range.step \in Int /\ range.end \in Int /\ at \in Int
  BY SpanFields, IntsFact DEF Straight
<1>2. ASSUME NEW k \in seen
      PROVE  k \in Members(range) /\ IF range.step > 0 THEN k < at ELSE k > at
  <2>1. PICK m \in 0 .. n - 1 : k = Nth(range, m)
    BY DEF Straight
  <2>2. m \in Nat /\ m < n /\ k \in Ints /\ Before(range, k)
    BY <2>1 DEF Straight
  <2>3. /\ range.step > 0 => range.start + m * range.step + range.step <= range.start + n * range.step
        /\ range.step < 0 => range.start + m * range.step + range.step >= range.start + n * range.step
    BY <1>1, <2>2, Direction
  <2>4. /\ range.step > 0 => k + range.step <= at
        /\ range.step < 0 => k + range.step >= at
    BY <2>1, <2>3 DEF Nth, Straight
  <2>5. k \in Int /\ range.step /= 0
    BY <1>1, <2>2, IntsFact DEF Before
  <2> QED
    BY <1>1, <2>1, <2>2, <2>4, <2>5, Elements
<1>3. ASSUME ~InRange(at), NEW k \in Members(range) PROVE k \in seen
  <2>1. k \in Int /\ Before(range, k)
    BY IntsFact DEF Members
  <2>2. \/ \E m \in 0 .. n - 1 : k = Nth(range, m)
        \/ k = at
        \/ range.step > 0 /\ at + range.step <= k
        \/ range.step < 0 /\ at + range.step >= k
    BY <1>1, Beyond DEF Straight
  <2>3. \E m \in 0 .. n - 1 : k = Nth(range, m)
    BY <1>1, <1>3, <2>1, <2>2 DEF InRange, Before
  <2> QED
    BY <2>3 DEF Straight
<1> QED
  BY <1>2, <1>3

\* A turn that goes on.
LEMMA Advance ==
  ASSUME range \in Spans, NEW n \in Nat, Straight(n), InRange(at),
         at' = Wrap(at + range.step), seen' = seen \cup {at}, range' = range
  PROVE  Straight(n + 1)' \/ Round'
<1>1. range.start \in Int /\ range.step \in Int /\ range.end \in Int /\ at \in Int
  BY SpanFields, IntsFact DEF Straight
<1>2. Before(range, at) /\ at \in Ints /\ at = Nth(range, n)
  BY <1>1 DEF InRange, Before, Straight
<1>3. seen' = {Nth(range, m) : m \in 0 .. (n + 1) - 1}
  BY <1>2 DEF Straight
<1>4. CASE at + range.step \in Ints
  <2>1. at' = at + range.step
    BY <1>4, WrapKeeps
  <2>2. range.start + (n + 1) * range.step = (range.start + n * range.step) + range.step
    BY <1>1, Successor
  <2>3. at' = Nth(range, n + 1)
    BY <1>2, <2>1, <2>2 DEF Nth
  <2>4. \A m \in 0 .. (n + 1) - 1 : Nth(range, m) \in Ints /\ Before(range, Nth(range, m))
    BY <1>2 DEF Straight
  <2>5. Straight(n + 1)'
    BY <1>3, <1>4, <2>1, <2>3, <2>4 DEF Straight
  <2> QED
    BY <2>5
<1>5. CASE at + range.step \notin Ints
  <2>1. ~Fits(range)
    BY <1>2, <1>5, Elements DEF Fits
  <2>2. ASSUME NEW k \in Members(range) PROVE k \in seen'
    <3>1. k \in Ints
      BY DEF Members
    <3>2. \/ \E m \in 0 .. n - 1 : k = Nth(range, m)
          \/ k = at
          \/ range.step > 0 /\ at + range.step <= k
          \/ range.step < 0 /\ at + range.step >= k
      BY <1>1, <1>2, Beyond
    <3>3. ~(range.step > 0 /\ at + range.step <= k) /\ ~(range.step < 0 /\ at + range.step >= k)
      BY <1>1, <1>2, <1>5, <3>1, IntsFact
    <3> QED
      BY <3>2, <3>3 DEF Straight
  <2>3. Round'
    BY <2>1, <2>2 DEF Round
  <2> QED
    BY <2>3
<1> QED
  BY <1>4, <1>5

LEMMA RangeInitial == RangeInit => RangeInv
<1> SUFFICES ASSUME RangeInit PROVE RangeInv
  OBVIOUS
<1>1. range \in Spans /\ at = range.start /\ seen = {}
  BY DEF RangeInit, Spans
<1>2. Straight(0)
  <2>1. range.start \in Ints /\ range.start \in Int /\ range.step \in Int
    BY <1>1, SpanFields, IntsFact
  <2>2. Nth(range, 0) = at
    BY <1>1, <2>1 DEF Nth
  <2> QED
    BY <1>1, <2>1, <2>2 DEF Straight
<1> QED
  BY <1>1, <1>2 DEF RangeInit, RangeInv

LEMMA RangeInductive == RangeInv /\ [RangeNext]_rangeVars => RangeInv'
<1> SUFFICES ASSUME RangeInv, [RangeNext]_rangeVars PROVE RangeInv'
  OBVIOUS
<1>1. CASE Turn
  <2>1. range' = range /\ seen' = seen \cup {at} /\ InRange(at) /\ range \in Spans
    BY <1>1 DEF Turn, RangeInv
  <2>2. CASE at' = Wrap(at + range.step) /\ ranging' = ranging
    <3>1. CASE Round
      <4>1. Round'
        BY <2>1, <3>1 DEF Round
      <4> QED
        BY <1>1, <2>1, <2>2, <4>1 DEF RangeInv, Turn
    <3>2. CASE \E n \in Nat : Straight(n)
      <4>1. PICK n \in Nat : Straight(n)
        BY <3>2
      <4>2. Straight(n + 1)' \/ Round'
        BY <2>1, <2>2, <4>1, Advance
      <4>3. Round' \/ (\E k \in Nat : Straight(k))'
        BY <4>2
      <4> QED
        BY <1>1, <2>1, <2>2, <4>3 DEF RangeInv, Turn
    <3> QED
      BY <1>1, <3>1, <3>2 DEF RangeInv, Turn
  <2>3. CASE ranging' = "left" /\ at' = at
    <3>1. ASSUME Fits(range) PROVE seen' \subseteq Members(range)
      <4>1. PICK n \in Nat : Straight(n)
        BY <1>1, <3>1 DEF RangeInv, Turn, Round
      <4>2. at \in Members(range)
        <5>1. range.step \in Int
          BY <2>1, SpanFields, IntsFact
        <5> QED
          BY <2>1, <4>1, <5>1, Elements DEF Straight, InRange, Before
      <4> QED
        BY <2>1, <4>1, <4>2, StraightRuns
    <3> QED
      BY <2>1, <2>3, <3>1 DEF RangeInv
  <2> QED
    BY <1>1, <2>2, <2>3 DEF Turn
<1>2. CASE RangeOver
  BY <1>2 DEF RangeOver, RangeInv, Round, Straight, InRange
<1>3. CASE UNCHANGED rangeVars
  BY <1>3 DEF rangeVars, RangeInv, Round, Straight, InRange
<1> QED
  BY <1>1, <1>2, <1>3 DEF RangeNext

\* A loop over a range, for machine integers of every width, all bounds and all
\* steps: when it is over it has run for every element, and for no other and in
\* order unless the sum past the last element wraps around.
THEOREM RangeIsPythonsHolds == RangeSpec => []RangeIsPythons
<1>1. RangeInv => RangeIsPythons
  <2> SUFFICES ASSUME RangeInv PROVE RangeIsPythons
    OBVIOUS
  <2>1. ASSUME ranging = "done" PROVE Members(range) \subseteq seen
    BY <2>1, StraightRuns DEF RangeInv, Round
  <2>2. ASSUME Fits(range)
        PROVE  /\ seen \subseteq Members(range)
               /\ ranging = "loop" => \A k \in seen : IF range.step > 0 THEN k < at ELSE k > at
    <3>1. CASE ranging \in {"loop", "done"}
      <4>1. PICK n \in Nat : Straight(n)
        BY <2>2, <3>1 DEF RangeInv, Round
      <4> QED
        BY <4>1, StraightRuns DEF RangeInv
    <3>2. CASE ranging \in {"left", "raised"}
      BY <2>2, <3>2 DEF RangeInv
    <3> QED
      BY <3>1, <3>2 DEF RangeInv
  <2> QED
    BY <2>1, <2>2 DEF RangeIsPythons
<1> QED
  BY <1>1, RangeInitial, RangeInductive, PTL DEF RangeSpec

-----------------------------------------------------------------------------
(* Slices: where the loop is.                                              *)

\* Where a bound ends up: a place of the sequence, or the one before the first
\* or after the last, on the side the loop runs to.
LEMMA Clamped ==
  ASSUME NEW b \in Int, NEW n \in Nat, NEW step \in Int, step /= 0
  PROVE  /\ clampSliceIdx(b, n, step) \in Int
         /\ step > 0 => clampSliceIdx(b, n, step) \in 0 .. n
         /\ step < 0 => clampSliceIdx(b, n, step) \in -1 .. n - 1
<1>1. CASE b < 0 /\ b + n < 0
  BY <1>1 DEF clampSliceIdx
<1>2. CASE b < 0 /\ b + n >= 0
  BY <1>2 DEF clampSliceIdx
<1>3. CASE b >= n /\ b >= 0
  BY <1>3 DEF clampSliceIdx
<1>4. CASE b >= 0 /\ b < n
  BY <1>4 DEF clampSliceIdx
<1> QED
  BY <1>1, <1>2, <1>3, <1>4

\* The fields of a request.
LEMMA RequestFields ==
  ASSUME NEW r \in Requests
  PROVE  /\ r.n \in Nat /\ r.n <= MaxInt /\ r.step \in Int /\ r.step \in Ints
         /\ r.low \in Int \cup {Omitted} /\ r.high \in Int \cup {Omitted}
<1>1. /\ r.n \in 0 .. MaxLen /\ r.step \in Steps
      /\ r.low \in Bounds \cup {Omitted} /\ r.high \in Bounds \cup {Omitted}
  BY DEF Requests
<1>2. r.n \in Nat /\ r.n <= MaxInt
  BY <1>1, SlicesAssumption, MaxIntAssumption
<1>3. Steps \subseteq Ints /\ Steps \subseteq Int /\ Bounds \subseteq Int
  BY SlicesAssumption DEF Ints
<1> QED
  BY <1>1, <1>2, <1>3

\* Where the loop begins, and where it stops.
LEMMA Ends ==
  ASSUME NEW r \in Requests, r.step /= 0
  PROVE  /\ r.step > 0 => Low(r) \in 0 .. r.n /\ High(r) \in 0 .. r.n
         /\ r.step < 0 => Low(r) \in -1 .. r.n - 1 /\ High(r) \in -1 .. r.n - 1
<1> DEFINE n == r.n
           step == r.step
<1>1. n \in Nat /\ step \in Int /\ step /= 0
  BY RequestFields
<1>2. /\ step > 0 => Low(r) \in 0 .. n
      /\ step < 0 => Low(r) \in -1 .. n - 1
  <2>1. CASE r.low = Omitted
    BY <1>1, <2>1 DEF Low
  <2>2. CASE r.low /= Omitted
    <3>1. r.low \in Int
      BY <2>2, RequestFields
    <3>2. Low(r) = clampSliceIdx(r.low, n, step)
      BY <2>2 DEF Low
    <3> HIDE DEF n, step
    <3> QED
      BY <3>1, <3>2, <1>1, Clamped
  <2> QED
    BY <2>1, <2>2
<1>3. /\ step > 0 => High(r) \in 0 .. n
      /\ step < 0 => High(r) \in -1 .. n - 1
  <2>1. CASE r.high = Omitted
    BY <1>1, <2>1 DEF High
  <2>2. CASE r.high /= Omitted
    <3>1. r.high \in Int
      BY <2>2, RequestFields
    <3>2. High(r) = clampSliceIdx(r.high, n, step)
      BY <2>2 DEF High
    <3> HIDE DEF n, step
    <3> QED
      BY <3>1, <3>2, <1>1, Clamped
  <2> QED
    BY <2>1, <2>2
<1> QED
  BY <1>2, <1>3

\* The position has wrapped around, which it does upwards only.
Wrapped == req.step > 0 /\ i < 0

\* While the loop runs it has not gone beyond the end it came from, unless its
\* position has wrapped around.
SliceInv ==
  /\ req \in Requests /\ i \in Int
  /\ slicing # "raised" => /\ req.step /= 0
                           /\ req.step < 0 => i <= req.n - 1

LEMMA SliceInitial == SliceInit => SliceInv /\ (req.step /= 0 => ~Wrapped)
<1> SUFFICES ASSUME SliceInit PROVE SliceInv /\ (req.step /= 0 => ~Wrapped)
  OBVIOUS
<1>1. req \in Requests /\ i = Low(req)
  BY DEF SliceInit
<1>2. CASE req.step = 0
  <2>1. Low(req) \in Int
    <3>1. CASE req.low = Omitted
      BY <1>1, <1>2, <3>1, RequestFields DEF Low
    <3>2. CASE req.low /= Omitted
      BY <1>1, <1>2, <3>2, RequestFields DEF Low, clampSliceIdx
    <3> QED
      BY <3>1, <3>2
  <2> QED
    BY <1>1, <1>2, <2>1 DEF SliceInit, SliceInv
<1>3. CASE req.step /= 0
  <2>1. req.n \in Nat /\ req.step \in Int
    BY <1>1, RequestFields
  <2> QED
    BY <1>1, <1>3, <2>1, Ends DEF SliceInv, Wrapped
<1> QED
  BY <1>2, <1>3

\* The sum of a position and the step wraps around below zero, or not at all.
LEMMA Onward ==
  ASSUME NEW r \in Requests, r.step /= 0, NEW p \in 0 .. r.n - 1
  PROVE  /\ Wrap(p + r.step) \in Int
         /\ p + r.step \in Ints => Wrap(p + r.step) = p + r.step
         /\ p + r.step \notin Ints => r.step > 0 /\ Wrap(p + r.step) < 0
<1>1. /\ r.n \in Nat /\ r.n <= MaxInt /\ r.step \in Int /\ MaxInt \in Nat
      /\ MinInt = -MaxInt - 1 /\ MinInt <= r.step /\ r.step <= MaxInt
      /\ p \in Int /\ 0 <= p /\ p <= MaxInt
  BY RequestFields, MaxIntAssumption DEF Ints, MinInt
<1>2. CASE p + r.step \in Ints
  <2>1. p + r.step \in Int
    BY <1>1
  <2> QED
    BY <1>2, <2>1, WrapKeeps
<1>3. CASE p + r.step \notin Ints
  <2> DEFINE k == p + r.step
  <2>1. k \in Int /\ MinInt <= k /\ k <= MaxInt + MaxInt
    BY <1>1
  <2>2. k > MaxInt
    BY <1>1, <1>3, <2>1 DEF Ints
  <2>3. r.step > 0
    BY <1>1, <2>2
  <2> HIDE DEF k
  <2>4. Wrap(k) \in Int /\ Wrap(k) < 0
    BY <2>1, <2>2, WrapBelow
  <2> QED
    BY <1>3, <2>3, <2>4 DEF k
<1> QED
  BY <1>2, <1>3

LEMMA SliceInductive == SliceInv /\ [SliceNext]_sliceVars => SliceInv'
<1> SUFFICES ASSUME SliceInv, [SliceNext]_sliceVars PROVE SliceInv'
  OBVIOUS
<1>1. req.n \in Nat /\ req.step \in Int
  BY RequestFields DEF SliceInv
<1>2. CASE Take
  <2>1. /\ req \in Requests /\ req.step /= 0 /\ i \in 0 .. req.n - 1
        /\ req' = req /\ slicing' = slicing /\ i' = Wrap(i + req.step)
    BY <1>2 DEF Take, SliceInv
  <2>2. /\ i' \in Int
        /\ req.step < 0 => i' = i + req.step
    BY <1>1, <2>1, Onward
  <2> QED
    BY <1>1, <2>1, <2>2 DEF SliceInv
<1>3. CASE Leave \/ Panic
  BY <1>3 DEF Leave, Panic, SliceInv
<1>4. CASE UNCHANGED sliceVars
  BY <1>4 DEF sliceVars, SliceInv
<1> QED
  BY <1>2, <1>3, <1>4 DEF SliceNext

\* The position of a turn exists, if it has not wrapped around.
LEMMA TurnInBounds ==
  ASSUME SliceInv, slicing # "raised", Within(i), ~Wrapped
  PROVE  i \in 0 .. req.n - 1
<1>1. /\ req.n \in Nat /\ req.step \in Int /\ req.step /= 0 /\ i \in Int
      /\ req.step > 0 => i >= 0
      /\ req.step < 0 => i <= req.n - 1
  BY RequestFields DEF SliceInv, Wrapped
<1>2. CASE req.step > 0
  <2>1. High(req) \in 0 .. req.n /\ i < High(req)
    BY <1>1, <1>2, Ends DEF SliceInv, Within
  <2> QED
    BY <1>1, <1>2, <2>1
<1>3. CASE req.step < 0
  <2>1. High(req) \in -1 .. req.n - 1 /\ i > High(req)
    BY <1>1, <1>3, Ends DEF SliceInv, Within
  <2> QED
    BY <1>1, <1>3, <2>1
<1> QED
  BY <1>1, <1>2, <1>3

-----------------------------------------------------------------------------
(* Slices: the positions that are read are those Python selects.           *)

LEMMA Division ==
  ASSUME NEW m \in Nat, NEW y \in Nat, y > 0
  PROVE  m \div y \in Nat /\ m % y \in 0 .. y - 1 /\ m = y * (m \div y) + (m % y)
  OBVIOUS

\* Multiples, and what a remainder of zero says.
LEMMA Multiples ==
  ASSUME NEW s \in Nat, s > 0
  PROVE  /\ \A m \in Nat : m * s \in Nat /\ (m * s) % s = 0
         /\ \A d \in Nat : d % s = 0 => \E m \in Nat : d = m * s
<1>1. ASSUME NEW m \in Nat PROVE m * s \in Nat /\ (m * s) % s = 0
  <2> DEFINE p == m * s
             q == p \div s
             r == p % s
  <2>1. p \in Nat
    OBVIOUS
  <2>2. q \in Nat /\ r \in 0 .. s - 1 /\ p = s * q + r
    <3> HIDE DEF p
    <3> QED
      BY <2>1
  <2> HIDE DEF q, r
  <2>3. m * s = q * s + r
    <3>1. s * q = q * s
      BY <2>2
    <3> QED
      BY <2>2, <3>1
  <2>4. r = (m - q) * s
    <3>1. (m - q) * s = m * s - q * s
      BY <2>2
    <3>2. m * s \in Int /\ q * s \in Int
      BY <2>2
    <3> HIDE DEF p
    <3> QED
      BY <2>2, <2>3, <3>1, <3>2
  <2>5. CASE m - q >= 1
    <3>1. (m - q) * s >= 1 * s
      BY <2>2, <2>5
    <3> QED
      BY <2>2, <2>4, <3>1
  <2>6. CASE m - q <= -1
    <3>1. (m - q) * s <= (-1) * s
      BY <2>2, <2>6
    <3> QED
      BY <2>2, <2>4, <3>1
  <2>7. CASE m = q
    <3>1. m - q = 0 /\ 0 * s = 0
      BY <2>2, <2>7
    <3>2. r = 0
      BY <2>4, <3>1
    <3> QED
      BY <2>1, <3>2 DEF r
  <2> QED
    BY <2>2, <2>5, <2>6, <2>7
<1>2. ASSUME NEW d \in Nat, d % s = 0 PROVE \E m \in Nat : d = m * s
  <2> DEFINE q == d \div s
             r == d % s
  <2>1. q \in Nat /\ r = 0 /\ d = s * q + r
    BY <1>2, Division
  <2> HIDE DEF q, r
  <2>2. s * q = q * s /\ q * s \in Nat
    BY <2>1
  <2>3. d = q * s
    BY <2>1, <2>2
  <2> QED
    BY <2>1, <2>3
<1> QED
  BY <1>1, <1>2

\* Where a slice stops, said of the positions there are.
LEMMA Stops ==
  ASSUME NEW r \in Requests, r.step /= 0, NEW p \in 0 .. r.n - 1
  PROVE  /\ r.step > 0 => (p < High(r) <=> (r.high # Omitted => p < Counted(r.high, r.n)))
         /\ r.step < 0 => (p > High(r) <=> (r.high # Omitted => p > Counted(r.high, r.n)))
<1> DEFINE n == r.n
           step == r.step
           b == r.high
<1>1. n \in Nat /\ step \in Int /\ step /= 0 /\ p \in Int /\ 0 <= p /\ p < n
  BY RequestFields
<1>2. CASE b = Omitted
  BY <1>1, <1>2 DEF High
<1>3. CASE b /= Omitted
  <2>1. b \in Int /\ High(r) = clampSliceIdx(b, n, step)
    BY <1>3, RequestFields DEF High
  <2> HIDE DEF n, step, b
  <2>2. /\ step > 0 => (p < clampSliceIdx(b, n, step) <=> p < Counted(b, n))
        /\ step < 0 => (p > clampSliceIdx(b, n, step) <=> p > Counted(b, n))
    <3>1. CASE b < 0
      BY <1>1, <2>1, <3>1 DEF clampSliceIdx, Counted
    <3>2. CASE b >= n /\ b >= 0
      BY <1>1, <2>1, <3>2 DEF clampSliceIdx, Counted
    <3>3. CASE b >= 0 /\ b < n
      BY <1>1, <2>1, <3>3 DEF clampSliceIdx, Counted
    <3> QED
      BY <1>1, <2>1, <3>1, <3>2, <3>3
  <2> QED
    BY <1>3, <2>1, <2>2 DEF n, step, b
<1> QED
  BY <1>2, <1>3

\* Where a slice begins: where Python's does, unless there is nothing to select.
LEMMA Begins ==
  ASSUME NEW r \in Requests, r.step /= 0
  PROVE  \/ Low(r) = Start(r)
         \/ r.step > 0 /\ Low(r) = r.n /\ Start(r) >= r.n
         \/ r.step < 0 /\ Low(r) = -1 /\ Start(r) < 0
<1> DEFINE n == r.n
           step == r.step
           b == r.low
<1>1. n \in Nat /\ step \in Int /\ step /= 0
  BY RequestFields
<1>2. CASE b = Omitted
  BY <1>1, <1>2 DEF Low, Start
<1>3. CASE b /= Omitted
  <2>1. b \in Int /\ Low(r) = clampSliceIdx(b, n, step)
    BY <1>3, RequestFields DEF Low
  <2>2. Start(r) = IF step > 0 THEN (IF Counted(b, n) < 0 THEN 0 ELSE Counted(b, n))
                   ELSE (IF Counted(b, n) >= n THEN n - 1 ELSE Counted(b, n))
    BY <1>3 DEF Start
  <2> HIDE DEF n, step, b
  <2>3. \/ clampSliceIdx(b, n, step) = Start(r)
        \/ step > 0 /\ clampSliceIdx(b, n, step) = n /\ Start(r) >= n
        \/ step < 0 /\ clampSliceIdx(b, n, step) = -1 /\ Start(r) < 0
    <3>1. CASE b < 0
      BY <1>1, <2>1, <2>2, <3>1 DEF clampSliceIdx, Counted
    <3>2. CASE b >= n /\ b >= 0
      BY <1>1, <2>1, <2>2, <3>2 DEF clampSliceIdx, Counted
    <3>3. CASE b >= 0 /\ b < n
      BY <1>1, <2>1, <2>2, <3>3 DEF clampSliceIdx, Counted
    <3> QED
      BY <1>1, <2>1, <3>1, <3>2, <3>3
  <2> QED
    BY <2>1, <2>3 DEF n, step
<1> QED
  BY <1>2, <1>3

\* The loop has read the positions from its first on, in steps, and is at the
\* next one, which is beyond the last when the loop is over; or the sum past the
\* last position it has read has wrapped around.
Reading ==
  /\ SliceInv /\ out \in Seq(Int)
  /\ slicing \in {"loop", "done", "raised", "panicked"}
  /\ slicing # "raised" =>
       /\ ~Wrapped => i = Low(req) + Len(out) * req.step
       /\ \A k \in 1 .. Len(out) :
            /\ out[k] = Low(req) + (k - 1) * req.step
            /\ out[k] \in 0 .. req.n - 1 /\ Within(out[k])
            /\ ~Wrapped => out[k] + req.step \in Ints
       /\ Wrapped => \E k \in 1 .. Len(out) : out[k] + req.step \notin Ints
  /\ slicing = "done" => ~Within(i)
  /\ slicing = "panicked" => Within(i) /\ i \notin 0 .. req.n - 1

LEMMA ReadingInitial == SliceInit => Reading
<1> SUFFICES ASSUME SliceInit PROVE Reading
  OBVIOUS
<1>1. SliceInv /\ (req.step /= 0 => ~Wrapped)
  BY SliceInitial
<1>2. out = <<>> /\ i = Low(req) /\ req.step \in Int /\ i \in Int
  BY <1>1, RequestFields DEF SliceInit, SliceInv
<1>3. Len(out) = 0 /\ 0 * req.step = 0 /\ out \in Seq(Int)
  BY <1>2
<1>4. i = Low(req) + Len(out) * req.step
  BY <1>2, <1>3
<1> QED
  BY <1>1, <1>3, <1>4 DEF SliceInit, Reading

LEMMA ReadingInductive == Reading /\ [SliceNext]_sliceVars => Reading'
<1> SUFFICES ASSUME Reading, [SliceNext]_sliceVars PROVE Reading'
  OBVIOUS
<1>1. SliceInv'
  BY SliceInductive DEF Reading
<1>2. CASE Take
  <2>1. /\ req' = req /\ slicing' = slicing /\ slicing = "loop" /\ i \in Int
        /\ out \in Seq(Int) /\ out' = Append(out, i) /\ i' = Wrap(i + req.step)
        /\ req \in Requests /\ req.step \in Int /\ req.step /= 0 /\ Within(i)
        /\ i \in 0 .. req.n - 1 /\ req.n \in Nat
    BY <1>2, RequestFields DEF Take, Reading, SliceInv
  <2>2. Low(req) \in Int
    BY <2>1, RequestFields, Ends
  <2>3. ~Wrapped
    BY <2>1 DEF Wrapped
  <2>4. i = Low(req) + Len(out) * req.step
    BY <2>1, <2>3 DEF Reading
  <2>5. /\ out' \in Seq(Int) /\ Len(out') = Len(out) + 1 /\ out'[Len(out) + 1] = i
        /\ \A k \in 1 .. Len(out) : out'[k] = out[k]
    BY <2>1
  <2>6. PICK l \in Nat : l = Len(out)
    BY <2>1
  <2>7. \A k : Within(k)' <=> Within(k)
    BY <2>1 DEF Within
  <2>8. /\ i + req.step \in Ints => i' = i + req.step /\ ~Wrapped'
        /\ i + req.step \notin Ints => Wrapped'
    <3>1. /\ i + req.step \in Ints => i' = i + req.step
          /\ i + req.step \notin Ints => req.step > 0 /\ i' < 0
      BY <2>1, Onward
    <3>2. i + req.step \in Ints /\ req.step > 0 => i + req.step >= 0
      BY <2>1
    <3> QED
      BY <2>1, <3>1, <3>2 DEF Wrapped
  <2>9. ~Wrapped' => i' = Low(req') + Len(out') * req'.step
    <3>1. Low(req) + (l + 1) * req.step = (Low(req) + l * req.step) + req.step
      BY <2>1, <2>2, Successor
    <3>2. Low(req') = Low(req) /\ req'.step = req.step /\ Len(out') = l + 1
      BY <2>1, <2>5, <2>6
    <3>3. ~Wrapped' => i' = (Low(req) + l * req.step) + req.step
      BY <2>4, <2>6, <2>8
    <3> QED
      BY <3>1, <3>2, <3>3
  <2>10. ASSUME NEW k \in 1 .. Len(out')
         PROVE  /\ out'[k] = Low(req') + (k - 1) * req'.step
                /\ out'[k] \in 0 .. req'.n - 1 /\ Within(out[k])'
                /\ ~Wrapped' => out'[k] + req'.step \in Ints
    <3>1. CASE k = l + 1
      <4>1. k - 1 = l /\ out'[k] = i
        BY <2>5, <2>6, <3>1
      <4> QED
        BY <2>1, <2>4, <2>6, <2>7, <2>8, <4>1
    <3>2. CASE k \in 1 .. l
      <4>1. out'[k] = out[k]
        BY <2>5, <2>6, <3>2
      <4>2. /\ out[k] = Low(req) + (k - 1) * req.step
            /\ out[k] \in 0 .. req.n - 1 /\ Within(out[k])
            /\ out[k] + req.step \in Ints
        BY <2>1, <2>3, <2>6, <3>2 DEF Reading
      <4> QED
        BY <2>1, <2>7, <4>1, <4>2
    <3> QED
      BY <2>5, <2>6, <3>1, <3>2
  <2>11. Wrapped' => \E k \in 1 .. Len(out') : out'[k] + req'.step \notin Ints
    <3>1. l + 1 \in 1 .. Len(out') /\ out'[l + 1] = i
      BY <2>5, <2>6
    <3> QED
      BY <2>1, <2>8, <3>1
  <2>12. slicing' = "loop"
    BY <2>1
  <2> QED
    BY <1>1, <2>5, <2>9, <2>10, <2>11, <2>12 DEF Reading
<1>3. CASE Leave
  BY <1>1, <1>3 DEF Leave, Reading, Within, Wrapped
<1>4. CASE Panic
  BY <1>1, <1>4 DEF Panic, Reading, Within, Wrapped
<1>5. CASE UNCHANGED sliceVars
  BY <1>1, <1>5 DEF sliceVars, Reading, Within, Wrapped
<1> QED
  BY <1>2, <1>3, <1>4, <1>5 DEF SliceNext

\* A loop that is over has not wrapped around.
LEMMA DoneStraight ==
  ASSUME Reading, slicing = "done"
  PROVE  ~Wrapped /\ i = Low(req) + Len(out) * req.step
<1>1. req \in Requests /\ req.step /= 0 /\ req.step \in Int /\ req.n \in Nat /\ i \in Int
  BY RequestFields DEF Reading, SliceInv
<1>2. ~Wrapped
  BY <1>1, Ends DEF Reading, Within, Wrapped
<1> QED
  BY <1>2 DEF Reading

\* What the loop reads is selected, ...
LEMMA ReadSelected ==
  ASSUME Reading, slicing # "raised", NEW k \in 1 .. Len(out)
  PROVE  out[k] \in Selected(req) /\ Low(req) = Start(req)
<1> DEFINE n == req.n
           s == req.step
           a == Low(req)
<1>1. /\ req \in Requests /\ n \in Nat /\ s \in Int /\ s /= 0
      /\ out \in Seq(Int) /\ Len(out) \in Nat
  BY RequestFields DEF Reading, SliceInv
<1>2. /\ s > 0 => a \in 0 .. n /\ High(req) \in 0 .. n
      /\ s < 0 => a \in -1 .. n - 1 /\ High(req) \in -1 .. n - 1
  BY <1>1, Ends
<1>3. \A j \in 1 .. Len(out) : /\ out[j] = a + (j - 1) * s
                               /\ out[j] \in 0 .. n - 1 /\ Within(out[j])
  BY DEF Reading
<1>4. a = Start(req)
  <2> SUFFICES ASSUME a /= Start(req) PROVE FALSE
    OBVIOUS
  <2>1. \/ s > 0 /\ a = n
        \/ s < 0 /\ a = -1
    BY <1>1, Begins
  <2>2. ~Within(a)
    BY <1>1, <1>2, <2>1 DEF Within
  <2>3. 1 \in 1 .. Len(out) /\ (1 - 1) * s = 0 /\ a \in Int
    BY <1>1, <1>2
  <2>4. out[1] = a + (1 - 1) * s /\ Within(out[1])
    BY <1>3, <2>3
  <2> HIDE DEF a, s
  <2> QED
    BY <2>2, <2>3, <2>4
<1>5. a \in Int
  BY <1>1, <1>2
<1>6. PICK m \in Nat : m = k - 1
  BY <1>1
<1>7. out[k] = a + m * s /\ out[k] \in 0 .. n - 1 /\ Within(out[k])
  BY <1>3, <1>6
<1>8. m * s \in Int /\ out[k] \in Int
  BY <1>1, <1>7
<1>9. CASE s > 0
  <2>0. s \in Nat
    BY <1>1, <1>9
  <2>1. m * s \in Nat /\ (m * s) % s = 0
    <3> HIDE DEF s
    <3> QED
      BY <1>9, <2>0, Multiples
  <2>2. out[k] - a = m * s /\ out[k] >= a
    BY <1>5, <1>7, <1>8, <2>1
  <2>3. req.high # Omitted => out[k] < Counted(req.high, n)
    BY <1>1, <1>7, <1>9, Stops DEF Within
  <2> QED
    BY <1>4, <1>7, <1>9, <2>1, <2>2, <2>3 DEF Selected
<1>10. CASE s < 0
  <2>1. -s \in Nat /\ -s > 0 /\ m * (-s) = -(m * s)
    BY <1>1, <1>10
  <2>2. m * (-s) \in Nat /\ (m * (-s)) % (-s) = 0
    BY <2>1, Multiples
  <2>3. a - out[k] = m * (-s) /\ out[k] <= a
    BY <1>5, <1>7, <1>8, <2>1, <2>2
  <2>4. req.high # Omitted => out[k] > Counted(req.high, n)
    BY <1>1, <1>7, <1>10, Stops DEF Within
  <2>5. ~(s > 0)
    BY <1>1, <1>10
  <2> QED
    BY <1>4, <1>7, <2>2, <2>3, <2>4, <2>5 DEF Selected
<1> QED
  BY <1>1, <1>9, <1>10

\* ... and when it is over it has read all that is, ...
LEMMA ReadsSelected ==
  ASSUME Reading, slicing = "done"
  PROVE  {out[k] : k \in DOMAIN out} = Selected(req)
<1> DEFINE n == req.n
           s == req.step
           a == Low(req)
<1>1. /\ req \in Requests /\ n \in Nat /\ s \in Int /\ s /= 0
      /\ out \in Seq(Int) /\ i = a + Len(out) * s /\ ~Within(i) /\ DOMAIN out = 1 .. Len(out)
      /\ Len(out) \in Nat
  BY RequestFields, DoneStraight DEF Reading, SliceInv
<1>2. /\ s > 0 => a \in 0 .. n /\ High(req) \in 0 .. n
      /\ s < 0 => a \in -1 .. n - 1 /\ High(req) \in -1 .. n - 1
  BY <1>1, Ends
<1>3. \A k \in 1 .. Len(out) : /\ out[k] = a + (k - 1) * s
                               /\ out[k] \in 0 .. n - 1 /\ Within(out[k])
  BY DEF Reading
<1>4. CASE a /= Start(req)
  <2>1. \/ s > 0 /\ a = n /\ Start(req) >= n
        \/ s < 0 /\ a = -1 /\ Start(req) < 0
    BY <1>1, <1>4, Begins
  <2>2. Start(req) \in Int
    BY <1>1, RequestFields DEF Start, Counted
  <2>3. Selected(req) = {}
    BY <1>1, <2>1, <2>2 DEF Selected
  <2>4. Len(out) = 0
    <3>1. SUFFICES ASSUME 1 \in 1 .. Len(out) PROVE FALSE
      BY <1>1
    <3> QED
      BY <1>4, <3>1, ReadSelected
  <2> QED
    BY <1>1, <2>3, <2>4
<1>5. CASE a = Start(req)
  <2>1. a \in Int /\ High(req) \in Int
    BY <1>1, <1>2
  <2>2. ASSUME NEW k \in 1 .. Len(out) PROVE out[k] \in Selected(req)
    BY <2>2, ReadSelected
  <2>3. ASSUME NEW p \in Selected(req) PROVE \E k \in 1 .. Len(out) : p = out[k]
    <3>1. p \in 0 .. n - 1 /\ p \in Int
      BY <1>1 DEF Selected
    <3>2. Within(p) /\ \E m \in Nat : p = a + m * s
      <4>1. CASE s > 0
        <5>1. p >= a /\ (p - a) % s = 0 /\ p < High(req)
          BY <1>1, <1>5, <3>1, <4>1, Stops DEF Selected
        <5>2. PICK m \in Nat : p - a = m * s
          <6>1. s \in Nat /\ p - a \in Nat
            BY <1>1, <2>1, <3>1, <4>1, <5>1
          <6> HIDE DEF s, a
          <6> QED
            BY <4>1, <5>1, <6>1, Multiples
        <5>3. p = a + m * s
          BY <1>1, <2>1, <3>1, <5>2
        <5> QED
          BY <4>1, <5>1, <5>3 DEF Within
      <4>2. CASE s < 0
        <5>0. ~(s > 0) /\ -s \in Nat /\ -s > 0
          BY <1>1, <4>2
        <5>1. p <= a /\ (a - p) % (-s) = 0 /\ p > High(req)
          BY <1>1, <1>5, <3>1, <4>2, <5>0, Stops DEF Selected
        <5>2. PICK m \in Nat : a - p = m * (-s)
          <6>1. a - p \in Nat
            BY <2>1, <3>1, <5>1
          <6> HIDE DEF s, a
          <6> QED
            BY <5>0, <5>1, <6>1, Multiples
        <5>3. m * (-s) = -(m * s) /\ m * s \in Int
          BY <1>1, <5>2
        <5>4. p = a + m * s
          BY <2>1, <3>1, <5>2, <5>3
        <5> QED
          BY <5>0, <5>1, <5>4 DEF Within
      <4> QED
        BY <1>1, <4>1, <4>2
    <3>3. PICK m \in Nat : p = a + m * s
      BY <3>2
    <3>4. CASE m < Len(out)
      <4>1. m + 1 \in 1 .. Len(out) /\ (m + 1) - 1 = m
        BY <1>1, <3>4
      <4> QED
        BY <1>3, <3>3, <4>1
    <3>5. CASE m >= Len(out)
      <4>1. /\ s > 0 => i <= p
            /\ s < 0 => i >= p
        <5>1. CASE m = Len(out)
          BY <1>1, <3>1, <3>3, <5>1
        <5>2. CASE m > Len(out)
          <6>1. PICK l \in Nat : l = Len(out)
            BY <1>1
          <6>2. /\ s > 0 => a + l * s + s <= a + m * s
                /\ s < 0 => a + l * s + s >= a + m * s
                /\ a + l * s \in Int
            BY <1>1, <2>1, <5>2, <6>1, Direction
          <6>3. i = a + l * s
            BY <1>1, <6>1
          <6> HIDE DEF s, a
          <6> QED
            BY <1>1, <3>1, <3>3, <6>2, <6>3
        <5>3. m = Len(out) \/ m > Len(out)
          <6>1. \A l \in Nat : m >= l => m = l \/ m > l
            OBVIOUS
          <6> QED
            BY <1>1, <3>5, <6>1
        <5> QED
          BY <5>1, <5>2, <5>3
      <4>2. i \in Int
        BY DEF Reading, SliceInv
      <4> QED
        BY <1>1, <2>1, <3>1, <3>2, <4>1, <4>2 DEF Within
    <3> QED
      BY <1>1, <3>4, <3>5
  <2> QED
    BY <1>1, <2>2, <2>3
<1> QED
  BY <1>4, <1>5

\* ... and in order.
LEMMA ReadsInOrder ==
  ASSUME Reading, slicing = "done", NEW k \in 1 .. Len(out) - 1
  PROVE  out[k + 1] = out[k] + req.step
<1>1. out \in Seq(Int) /\ Len(out) \in Nat /\ req.step \in Int /\ req.step /= 0 /\ req \in Requests
  BY RequestFields DEF Reading, SliceInv
<1>2. PICK m \in Nat : m = k - 1 /\ k \in 1 .. Len(out) /\ k + 1 \in 1 .. Len(out)
  BY <1>1
<1>3. k = m + 1 /\ (k + 1) - 1 = m + 1
  BY <1>1, <1>2
<1>4. out[k] = Low(req) + m * req.step /\ out[k + 1] = Low(req) + (m + 1) * req.step
  BY <1>2, <1>3 DEF Reading
<1>5. Low(req) \in Int
  BY <1>1, RequestFields, Ends
<1>6. Low(req) + (m + 1) * req.step = (Low(req) + m * req.step) + req.step
  BY <1>1, <1>5, Successor
<1> QED
  BY <1>4, <1>6

\* A slice of one position is the element there, or empty where there is none.
LEMMA ReadsOne ==
  ASSUME Reading, slicing = "done", req.step = 1, req.low # Omitted, req.low # -1,
         req.high = req.low + 1
  PROVE  out = evalIndex(req.low, req.n)
<1> DEFINE n == req.n
           b == req.low
<1>1. /\ req \in Requests /\ n \in Nat /\ out \in Seq(Int) /\ Len(out) \in Nat
      /\ b \in Int /\ b /= -1 /\ req.high \in Int /\ req.high # Omitted /\ req.high = b + 1
  BY RequestFields, OmittedAssumption DEF Reading, SliceInv
<1>2. /\ Low(req) = clampSliceIdx(b, n, 1) /\ High(req) = clampSliceIdx(b + 1, n, 1)
  BY <1>1 DEF Low, High
<1>3. /\ i = Low(req) + Len(out) * 1 /\ ~(i < High(req))
      /\ \A k \in 1 .. Len(out) : out[k] = Low(req) + (k - 1) * 1 /\ out[k] < High(req)
  BY DoneStraight DEF Reading, Within
<1> DEFINE p == IF b < 0 THEN b + n ELSE b
<1>4. CASE p < 0 \/ p >= n
  <2>1. Low(req) = High(req) /\ Low(req) \in Int
    <3> HIDE DEF n, b
    <3> QED
      BY <1>1, <1>2, <1>4 DEF clampSliceIdx
  <2>2. Len(out) = 0
    <3> SUFFICES ASSUME Len(out) /= 0 PROVE FALSE
      OBVIOUS
    <3>1. 1 \in 1 .. Len(out) /\ (1 - 1) * 1 = 0
      BY <1>1
    <3>2. out[1] = Low(req) /\ out[1] < High(req)
      BY <1>3, <2>1, <3>1
    <3> QED
      BY <2>1, <3>2
  <2>3. out = <<>>
    BY <1>1, <2>2
  <2> QED
    BY <1>4, <2>3 DEF evalIndex
<1>5. CASE ~(p < 0 \/ p >= n)
  <2>1. Low(req) = p /\ High(req) = p + 1 /\ p \in Int
    <3> HIDE DEF n, b
    <3> QED
      BY <1>1, <1>2, <1>5 DEF clampSliceIdx
  <2> HIDE DEF p
  <2>2. Len(out) /= 0
    <3> SUFFICES ASSUME Len(out) = 0 PROVE FALSE
      OBVIOUS
    <3>1. i = p
      BY <1>3, <2>1
    <3> QED
      BY <1>3, <2>1, <3>1
  <2>3. 1 \in 1 .. Len(out) /\ out[1] = p
    <3>1. 1 \in 1 .. Len(out)
      BY <1>1, <2>2
    <3>2. out[1] = p + (1 - 1) * 1
      BY <1>3, <2>1, <3>1
    <3> QED
      BY <2>1, <3>1, <3>2
  <2>4. ~(2 \in 1 .. Len(out))
    <3> SUFFICES ASSUME 2 \in 1 .. Len(out) PROVE FALSE
      OBVIOUS
    <3>1. out[2] = p + (2 - 1) * 1 /\ out[2] < p + 1
      BY <1>3, <2>1
    <3> QED
      BY <2>1, <3>1
  <2>5. Len(out) = 1
    <3>1. \A l \in Nat : l /= 0 /\ ~(2 \in 1 .. l) => l = 1
      OBVIOUS
    <3> QED
      BY <1>1, <2>2, <2>4, <3>1
  <2>6. out = <<p>>
    BY <1>1, <2>3, <2>5
  <2> QED
    BY <1>5, <2>6 DEF evalIndex, p
<1> QED
  BY <1>4, <1>5

\* A slice is Python's (evalSlice), whatever the length of the sequence, the bounds
\* and the step: it has the positions Python selects, in order and each once, and a
\* slice of one position agrees with the subscript.
THEOREM SliceIsPythonsHolds == SliceSpec => []SliceIsPythons
<1>1. Reading => SliceIsPythons
  BY ReadsSelected, ReadsInOrder, ReadsOne DEF SliceIsPythons
<1> QED
  BY <1>1, ReadingInitial, ReadingInductive, PTL DEF SliceSpec

\* A slice panics exactly when the sum past the last position it selects is no int64
\* (evalSlice), whatever the length of the sequence, the bounds and the step.
THEOREM PanicsOnOverflowHolds == SliceSpec => []PanicsOnOverflow
<1>1. ASSUME Reading, slicing = "panicked" PROVE Overflows(req)
  <2>1. Wrapped
    BY <1>1, TurnInBounds DEF Reading
  <2>2. PICK k \in 1 .. Len(out) : out[k] + req.step \notin Ints
    BY <1>1, <2>1 DEF Reading
  <2>3. out[k] \in Selected(req)
    BY <1>1, ReadSelected
  <2> QED
    BY <2>2, <2>3 DEF Overflows
<1>2. ASSUME Reading, slicing = "done" PROVE ~Overflows(req)
  <2>1. {out[k] : k \in DOMAIN out} = Selected(req) /\ DOMAIN out = 1 .. Len(out)
    BY <1>2, ReadsSelected DEF Reading
  <2>2. \A k \in 1 .. Len(out) : out[k] + req.step \in Ints
    BY <1>2, DoneStraight DEF Reading
  <2> QED
    BY <2>1, <2>2 DEF Overflows
<1>3. Reading => PanicsOnOverflow
  BY <1>1, <1>2 DEF PanicsOnOverflow
<1> QED
  BY <1>3, ReadingInitial, ReadingInductive, PTL DEF SliceSpec

-----------------------------------------------------------------------------
(* Binding: a call binds as Python would.                                  *)

Bound == [args : SUBSET Nat, kw : SUBSET Names, default : BOOLEAN]
Entry == [name : Names, to : Bound]

\* The parameters are a list the language means.
Signed ==
  /\ params \in Seq(Param)
  /\ \A a, b \in 1 .. Len(params) : a /= b => params[a].name /= params[b].name
  /\ \A a, b \in 1 .. Len(params) :
       params[a].kind = "rest" /\ params[b].kind = "rest" => a = b
  /\ \A a \in 1 .. Len(params) : params[a].kind = "keywords" => a = Len(params)

\* No parameter up to a collects the rest of the arguments.
NoRest(a) == \A b \in 1 .. a : params[b].kind /= "rest"
NoKeywords(a) == \A b \in 1 .. a : params[b].kind /= "keywords"

Least(m, n) == IF m <= n THEN m ELSE n

\* What parameter a has been bound to.
Given(a) ==
  LET to == env[a].to IN
  /\ env[a].name = params[a].name
  /\ to.default <=> Plain(a) /\ ~(NoRest(a) /\ a <= posn) /\ params[a].name \notin kws
  /\ Plain(a) /\ NoRest(a) /\ a <= posn =>
       to.args = {a} /\ to.kw = {} /\ params[a].name \notin kws
  /\ Plain(a) /\ ~(NoRest(a) /\ a <= posn) =>
       /\ to.args = {}
       /\ params[a].name \in kws => to.kw = {params[a].name}
       /\ params[a].name \notin kws => to.kw = {} /\ params[a].kind = "default"
  /\ params[a].kind = "rest" => to.args = a .. posn /\ to.kw = {}
  /\ params[a].kind = "keywords" =>
       /\ to.args = {}
       /\ to.kw = {w \in kws : \A b \in 1 .. a - 1 : Plain(b) => params[b].name /= w}

\* How many positional arguments have been taken, and which keywords.
Taken ==
  /\ ~NoRest(par - 1) => pos = posn
  /\ NoRest(par - 1) /\ NoKeywords(par - 1) => pos = Least(par - 1, posn)
  /\ NoRest(par - 1) /\ ~NoKeywords(par - 1) => pos = Least(par - 2, posn)
  /\ NoKeywords(par - 1) =>
       used = {w \in kws : \E b \in 1 .. par - 1 : Plain(b) /\ params[b].name = w}

\* Why the loop has ended.
Ended ==
  /\ binding \in {"bind", "bound", "raised", "failed"}
  /\ binding = "bound" => par = Len(params) + 1 /\ pos = posn
  /\ binding = "raised" => /\ pos < posn
                           /\ par <= Len(params) => Plain(par) /\ Par.name \in kws
  /\ binding = "failed" => /\ par <= Len(params) /\ pos = posn
                           /\ Par.kind = "plain" /\ Par.name \notin kws

\* What every step preserves.
BindInv ==
  /\ Signed /\ posn \in Nat /\ kws \in SUBSET Names
  /\ par \in 1 .. Len(params) + 1 /\ pos \in 0 .. posn
  /\ env \in Seq(Entry) /\ Len(env) = par - 1
  /\ \A a \in 1 .. par - 1 : Given(a)
  /\ Taken /\ Ended

-----------------------------------------------------------------------------
(* The loop.                                                               *)

LEMMA ParamFields ==
  ASSUME Signed, NEW a \in 1 .. Len(params)
  PROVE  /\ params[a].name \in Names
         /\ params[a].kind \in {"plain", "default", "rest", "keywords"}
<1>1. params[a] \in Param
  BY DEF Signed
<1> QED
  BY <1>1 DEF Param

LEMMA BindInitial == BindInit => BindInv
<1> SUFFICES ASSUME BindInit PROVE BindInv
  OBVIOUS
<1>1. PICK n \in Nat : params \in [1 .. n -> Param]
  BY BindingAssumption DEF BindInit, Signatures
<1>2. params \in Seq(Param) /\ Len(params) = n /\ DOMAIN params = 1 .. Len(params)
  BY <1>1
<1>3. Signed
  BY <1>2 DEF BindInit, Signatures, Signed
<1>4. posn \in Nat /\ kws \in SUBSET Names
  BY BindingAssumption DEF BindInit
<1>5. par \in 1 .. Len(params) + 1 /\ pos \in 0 .. posn /\ par - 1 = 0
  BY <1>1, <1>2, <1>4 DEF BindInit
<1>6. env \in Seq(Entry) /\ Len(env) = par - 1
  BY <1>5 DEF BindInit
<1>7. NoRest(0) /\ NoKeywords(0) /\ Least(0, posn) = 0
  BY <1>4 DEF NoRest, NoKeywords, Least
<1>8. Taken
  BY <1>5, <1>7 DEF Taken, BindInit
<1>9. Ended
  BY DEF Ended, BindInit
<1> QED
  BY <1>3, <1>4, <1>5, <1>6, <1>8, <1>9 DEF BindInv

\* The parameter the loop is at, and those before it.
LEMMA Here ==
  ASSUME BindInv, AtParam
  PROVE  /\ par \in 1 .. Len(params) /\ Len(params) \in Nat /\ par \in Nat /\ posn \in Nat /\ pos \in Nat
         /\ Par.name \in Names /\ Par.kind \in {"plain", "default", "rest", "keywords"}
         /\ NoKeywords(par - 1)
         /\ NoRest(par) <=> NoRest(par - 1) /\ Par.kind /= "rest"
         /\ NoKeywords(par) <=> Par.kind /= "keywords"
         /\ Par.kind = "rest" => NoRest(par - 1)
         /\ NoRest(par - 1) => pos = Least(par - 1, posn)
         /\ ~NoRest(par - 1) => pos = posn
         /\ used = {w \in kws : \E b \in 1 .. par - 1 : Plain(b) /\ params[b].name = w}
<1>1. /\ Len(params) \in Nat /\ par \in 1 .. Len(params) /\ posn \in Nat /\ pos \in Nat /\ par \in Nat
  BY DEF BindInv, Signed, AtParam
<1>2. Signed
  BY DEF BindInv
<1>3. Par.name \in Names /\ Par.kind \in {"plain", "default", "rest", "keywords"}
  BY <1>1, <1>2, ParamFields DEF Par
<1>4. \A b \in 1 .. par - 1 : b \in 1 .. Len(params) /\ b /= par /\ b /= Len(params)
  BY <1>1
<1>5. NoKeywords(par - 1)
  BY <1>2, <1>4 DEF NoKeywords, Signed
<1>6. \A b \in 1 .. par : b \in 1 .. par - 1 \/ b = par
  BY <1>1
<1>7. \A b \in 1 .. par - 1 : b \in 1 .. par
  BY <1>1
<1>8. NoRest(par) <=> NoRest(par - 1) /\ Par.kind /= "rest"
  BY <1>1, <1>6, <1>7 DEF NoRest, Par
<1>9. NoKeywords(par) <=> Par.kind /= "keywords"
  BY <1>1, <1>5, <1>6, <1>7 DEF NoKeywords, Par
<1>10. Par.kind = "rest" => NoRest(par - 1)
  BY <1>1, <1>2, <1>4 DEF NoRest, Signed, Par
<1>11. Taken
  BY DEF BindInv
<1> QED
  BY <1>1, <1>3, <1>5, <1>8, <1>9, <1>10, <1>11 DEF Taken

\* A parameter is bound; what those before it are bound to stays.
LEMMA BindGrows ==
  ASSUME BindInv, AtParam, NEW what \in Bound, Bind(what), UNCHANGED Call
  PROVE  /\ par' = par + 1 /\ par' - 1 = par /\ par' \in 1 .. Len(params') + 1
         /\ env' \in Seq(Entry) /\ Len(env') = par' - 1
         /\ env'[par].to = what /\ env'[par].name = Par.name
         /\ \A a \in 1 .. par - 1 : Given(a)'
         /\ \A a : Plain(a)' <=> Plain(a)
         /\ Signed' /\ (posn' \in Nat) /\ (kws' \in SUBSET Names)
<1> USE DEF Call
<1>1. par \in 1 .. Len(params) /\ par' = par + 1 /\ par \in Nat /\ Len(params) \in Nat
  BY Here DEF Bind
<1>2. env \in Seq(Entry) /\ Len(env) = par - 1
  BY DEF BindInv
<1> DEFINE e == [name |-> Par.name, to |-> what]
<1>3. e \in Entry /\ e.to = what /\ e.name = Par.name
  BY Here DEF Entry
<1> HIDE DEF e
<1>4. env' = Append(env, e)
  BY DEF Bind, e
<1>5. env' \in Seq(Entry) /\ Len(env') = par /\ env'[par] = e
  BY <1>1, <1>2, <1>3, <1>4
<1>6. \A a \in 1 .. par - 1 : env'[a] = env[a]
  BY <1>1, <1>2, <1>3, <1>4
<1>7. ASSUME NEW a \in 1 .. par - 1 PROVE Given(a)'
  <2>1. Given(a) /\ env'[a] = env[a]
    BY <1>6 DEF BindInv
  <2> QED
    BY <2>1 DEF Given, Plain, NoRest
<1>8. \A a : Plain(a)' <=> Plain(a)
  BY DEF Plain
<1>9. Signed' /\ (posn' \in Nat) /\ (kws' \in SUBSET Names)
  BY DEF BindInv, Signed
<1> QED
  BY <1>1, <1>3, <1>5, <1>7, <1>8, <1>9

\* So it is enough to look at that parameter and at what has been taken.
LEMMA BindKeeps ==
  ASSUME BindInv, AtParam, NEW what \in Bound, Bind(what), UNCHANGED <<Call, binding>>,
         pos' \in 0 .. posn,
         NEW n \in Nat, n = par, Given(n)',
         Taken'
  PROVE  BindInv'
<1>1. /\ par' = par + 1 /\ par' - 1 = par /\ par' \in 1 .. Len(params') + 1
      /\ env' \in Seq(Entry) /\ Len(env') = par' - 1
      /\ \A a \in 1 .. par - 1 : Given(a)'
      /\ Signed' /\ (posn' \in Nat) /\ (kws' \in SUBSET Names)
  BY BindGrows
<1>2. \A a \in 1 .. par' - 1 : Given(a)'
  <2>1. \A a \in 1 .. par' - 1 : a \in 1 .. par - 1 \/ a = par
    BY <1>1, Here
  <2>2. ASSUME NEW a \in 1 .. par' - 1 PROVE Given(a)'
    <3>1. CASE a \in 1 .. par - 1
      BY <1>1, <3>1
    <3>2. CASE a = n
      BY <3>2
    <3> QED
      BY <2>1, <3>1, <3>2
  <2> QED
    BY <2>2
<1>3. pos' \in 0 .. posn'
  BY DEF Call
<1>4. Ended'
  BY DEF Ended, AtParam
<1> QED
  BY <1>1, <1>2, <1>3, <1>4 DEF BindInv

\* The names the keywords have been used for grow with the parameter.
LEMMA UsedGrows ==
  ASSUME BindInv, AtParam
  PROVE  {w \in kws : \E b \in 1 .. par : Plain(b) /\ params[b].name = w}
           = used \cup (IF Plain(par) /\ Par.name \in kws THEN {Par.name} ELSE {})
<1>1. used = {w \in kws : \E b \in 1 .. par - 1 : Plain(b) /\ params[b].name = w}
  BY Here
<1>2. \A b \in 1 .. par : b \in 1 .. par - 1 \/ b = par
  BY Here
<1>3. (\A b \in 1 .. par - 1 : b \in 1 .. par) /\ par \in 1 .. par
  BY Here
<1> QED
  BY <1>1, <1>2, <1>3 DEF Par

\* In the next state the loop is one parameter further.
LEMMA TakenNext ==
  ASSUME BindInv, AtParam, NEW what \in Bound, Bind(what), UNCHANGED Call
  PROVE  Taken' <=>
           /\ ~NoRest(par) => pos' = posn
           /\ NoRest(par) /\ NoKeywords(par) => pos' = Least(par, posn)
           /\ NoRest(par) /\ ~NoKeywords(par) => pos' = Least(par - 1, posn)
           /\ NoKeywords(par) =>
                used' = used \cup (IF Plain(par) /\ Par.name \in kws THEN {Par.name} ELSE {})
<1> USE DEF Call
<1>1. par' - 1 = par /\ par' - 2 = par - 1 /\ params' = params /\ posn' = posn /\ kws' = kws
  BY Here, BindGrows
<1>2. (NoRest(par - 1)' <=> NoRest(par)) /\ (NoKeywords(par - 1)' <=> NoKeywords(par))
  BY <1>1 DEF NoRest, NoKeywords
<1>3. {w \in kws' : \E b \in 1 .. par' - 1 : Plain(b)' /\ params'[b].name = w}
        = used \cup (IF Plain(par) /\ Par.name \in kws THEN {Par.name} ELSE {})
  <2>1. \A b : Plain(b)' <=> Plain(b)
    BY <1>1 DEF Plain
  <2>2. {w \in kws' : \E b \in 1 .. par' - 1 : Plain(b)' /\ params'[b].name = w}
          = {w \in kws : \E b \in 1 .. par : Plain(b) /\ params[b].name = w}
    BY <1>1, <2>1
  <2> QED
    BY <2>2, UsedGrows
<1>4. Least(par - 1, posn)' = Least(par, posn) /\ Least(par - 2, posn)' = Least(par - 1, posn)
  BY <1>1 DEF Least
<1> QED
  BY <1>1, <1>2, <1>3, <1>4 DEF Taken

LEMMA BindRestKeeps == BindInv /\ BindRest => BindInv'
<1> SUFFICES ASSUME BindInv, BindRest PROVE BindInv'
  OBVIOUS
<1> USE DEF Call
<1> DEFINE what == [args |-> Rest, kw |-> {}, default |-> FALSE]
<1>1. AtParam /\ Bind(what) /\ UNCHANGED <<Call, binding, used>> /\ pos' = posn /\ Par.kind = "rest"
  BY DEF BindRest
<1>2. pos \in Nat /\ posn \in Nat /\ par \in Nat /\ par >= 1 /\ pos = Least(par - 1, posn)
  BY <1>1, Here
<1>3. Rest = par .. posn
  <2>1. CASE par - 1 <= posn
    BY <1>2, <2>1 DEF Rest, Least
  <2>2. CASE ~(par - 1 <= posn)
    <3>1. pos = posn /\ par > posn
      BY <1>2, <2>2 DEF Least
    <3>2. (pos + 1) .. posn = {} /\ par .. posn = {}
      BY <1>2, <3>1
    <3> QED
      BY <3>2 DEF Rest
  <2> QED
    BY <2>1, <2>2
<1>4. what \in Bound /\ what.args = par .. posn /\ what.kw = {} /\ what.default = FALSE
  <2>1. par .. posn \in SUBSET Nat
    BY <1>2
  <2> QED
    BY <1>3, <2>1 DEF Bound
<1> HIDE DEF what
<1>5. PICK n \in Nat : n = par
  BY <1>2
<1>6. params[n].kind = "rest" /\ ~Plain(n) /\ ~NoRest(par) /\ ~Plain(par)
  BY <1>1, <1>5, Here DEF Par, Plain
<1>7. /\ env'[n].to = what /\ env'[n].name = params'[n].name
      /\ params' = params /\ posn' = posn /\ (Plain(n)' <=> Plain(n))
  BY <1>1, <1>4, <1>5, BindGrows DEF Par
<1>8. Given(n)'
  BY <1>4, <1>5, <1>6, <1>7 DEF Given
<1>9. Taken'
  BY <1>1, <1>4, <1>6, TakenNext
<1> QED
  BY <1>1, <1>2, <1>4, <1>5, <1>8, <1>9, BindKeeps

LEMMA BindKeywordsKeeps == BindInv /\ BindKeywords => BindInv'
<1> SUFFICES ASSUME BindInv, BindKeywords PROVE BindInv'
  OBVIOUS
<1> USE DEF Call
<1> DEFINE what == [args |-> {}, kw |-> kws \ used, default |-> FALSE]
<1>1. AtParam /\ Bind(what) /\ UNCHANGED <<Call, binding, pos>> /\ Par.kind = "keywords"
  BY DEF BindKeywords
<1>2. par \in Nat /\ par >= 1
  BY <1>1, Here
<1>3. kws \ used = {w \in kws : \A b \in 1 .. par - 1 : Plain(b) => params[b].name /= w}
  BY <1>1, Here
<1>4. what \in Bound /\ what.args = {} /\ what.kw = kws \ used /\ what.default = FALSE
  BY DEF Bound, BindInv
<1> HIDE DEF what
<1>5. PICK n \in Nat : n = par
  BY <1>2
<1>6. params[n].kind = "keywords" /\ ~Plain(n) /\ ~NoKeywords(par)
  BY <1>1, <1>5, Here DEF Par, Plain
<1>7. /\ env'[n].to = what /\ env'[n].name = params'[n].name
      /\ params' = params /\ posn' = posn /\ kws' = kws
      /\ \A b : Plain(b)' <=> Plain(b)
  BY <1>1, <1>4, <1>5, BindGrows DEF Par
<1>8. Given(n)'
  BY <1>3, <1>4, <1>5, <1>6, <1>7 DEF Given
<1>9. Taken'
  BY <1>1, <1>4, <1>6, Here, TakenNext
<1> QED
  BY <1>1, <1>4, <1>5, <1>8, <1>9, BindKeeps DEF BindInv

\* A parameter for one argument.
LEMMA PlainHere ==
  ASSUME BindInv, AtParam, Par.kind \in {"plain", "default"}
  PROVE  /\ Plain(par) /\ params[par] = Par /\ par >= 1
         /\ NoKeywords(par) /\ (NoRest(par) <=> NoRest(par - 1))
         /\ pos < posn => NoRest(par) /\ pos = par - 1
         /\ pos >= posn => pos = posn /\ ~(NoRest(par) /\ par <= posn)
                          /\ (NoRest(par) => Least(par, posn) = posn)
<1>1. /\ par \in Nat /\ par >= 1 /\ posn \in Nat /\ pos \in Nat /\ pos <= posn
      /\ NoRest(par - 1) => pos = Least(par - 1, posn)
      /\ ~NoRest(par - 1) => pos = posn
  BY Here DEF BindInv
<1>2. Plain(par) /\ params[par] = Par /\ NoKeywords(par) /\ (NoRest(par) <=> NoRest(par - 1))
  BY Here DEF Par, Plain
<1>3. ASSUME pos < posn PROVE NoRest(par) /\ pos = par - 1
  BY <1>1, <1>2, <1>3 DEF Least
<1>4. ASSUME pos >= posn
      PROVE  /\ pos = posn /\ ~(NoRest(par) /\ par <= posn)
             /\ NoRest(par) => Least(par, posn) = posn
  BY <1>1, <1>2, <1>4 DEF Least
<1> QED
  BY <1>1, <1>2, <1>3, <1>4

LEMMA BindKeywordKeeps == BindInv /\ BindKeyword => BindInv'
<1> SUFFICES ASSUME BindInv, BindKeyword PROVE BindInv'
  OBVIOUS
<1> USE DEF Call
<1> DEFINE what == [args |-> {}, kw |-> {Par.name}, default |-> FALSE]
<1>1. /\ AtParam /\ Bind(what) /\ UNCHANGED <<Call, binding, pos>>
      /\ Par.kind \in {"plain", "default"} /\ Par.name \in kws /\ ~(pos < posn)
      /\ used' = used \cup {Par.name}
  BY DEF BindKeyword, FilledTwice
<1>2. pos >= posn /\ par \in Nat
  BY <1>1, Here
<1>3. what \in Bound /\ what.args = {} /\ what.kw = {Par.name} /\ what.default = FALSE
  BY <1>1, Here DEF Bound
<1> HIDE DEF what
<1>4. PICK n \in Nat : n = par
  BY <1>2
<1>5. Plain(n) /\ params[n] = Par /\ ~(NoRest(n) /\ n <= posn)
  BY <1>1, <1>2, <1>4, PlainHere
<1>6. /\ env'[n].to = what /\ env'[n].name = params'[n].name
      /\ params' = params /\ posn' = posn /\ kws' = kws
  BY <1>1, <1>3, <1>4, BindGrows DEF Par
<1>7. Given(n)'
  BY <1>1, <1>3, <1>5, <1>6 DEF Given, Plain, NoRest
<1>8. Taken'
  BY <1>1, <1>2, <1>3, PlainHere, TakenNext
<1> QED
  BY <1>1, <1>3, <1>4, <1>7, <1>8, BindKeeps DEF BindInv

LEMMA BindPositionalKeeps == BindInv /\ BindPositional => BindInv'
<1> SUFFICES ASSUME BindInv, BindPositional PROVE BindInv'
  OBVIOUS
<1> USE DEF Call
<1> DEFINE what == [args |-> {pos + 1}, kw |-> {}, default |-> FALSE]
<1>1. /\ AtParam /\ Bind(what) /\ UNCHANGED <<Call, binding, used>>
      /\ Par.kind \in {"plain", "default"} /\ Par.name \notin kws /\ pos < posn
      /\ pos' = pos + 1
  BY DEF BindPositional
<1>2. par \in Nat /\ pos \in Nat /\ posn \in Nat
  BY <1>1, Here
<1>3. what \in Bound /\ what.args = {pos + 1} /\ what.kw = {} /\ what.default = FALSE
  BY <1>2 DEF Bound
<1> HIDE DEF what
<1>4. PICK n \in Nat : n = par
  BY <1>2
<1>5. /\ Plain(n) /\ params[n] = Par /\ NoRest(n) /\ pos + 1 = n /\ n <= posn
      /\ Least(par, posn) = pos + 1 /\ NoRest(par) /\ NoKeywords(par)
  BY <1>1, <1>2, <1>4, PlainHere DEF Least
<1>6. /\ env'[n].to = what /\ env'[n].name = params'[n].name
      /\ params' = params /\ posn' = posn /\ kws' = kws
  BY <1>1, <1>3, <1>4, BindGrows DEF Par
<1>7. Given(n)'
  BY <1>1, <1>3, <1>5, <1>6 DEF Given, Plain, NoRest
<1>8. Taken'
  BY <1>1, <1>3, <1>5, TakenNext
<1>9. pos' \in 0 .. posn
  BY <1>1, <1>2
<1> QED
  BY <1>1, <1>3, <1>4, <1>7, <1>8, <1>9, BindKeeps

LEMMA BindDefaultKeeps == BindInv /\ BindDefault => BindInv'
<1> SUFFICES ASSUME BindInv, BindDefault PROVE BindInv'
  OBVIOUS
<1> USE DEF Call
<1> DEFINE what == [args |-> {}, kw |-> {}, default |-> TRUE]
<1>1. /\ AtParam /\ Bind(what) /\ UNCHANGED <<Call, binding, pos, used>>
      /\ Par.kind = "default" /\ Par.name \notin kws /\ pos >= posn
  BY DEF BindDefault, Unfilled
<1>2. par \in Nat
  BY <1>1, Here
<1>3. what \in Bound /\ what.args = {} /\ what.kw = {} /\ what.default = TRUE
  BY DEF Bound
<1> HIDE DEF what
<1>4. PICK n \in Nat : n = par
  BY <1>2
<1>5. Plain(n) /\ params[n] = Par /\ ~(NoRest(n) /\ n <= posn)
  BY <1>1, <1>4, PlainHere
<1>6. /\ env'[n].to = what /\ env'[n].name = params'[n].name
      /\ params' = params /\ posn' = posn /\ kws' = kws
  BY <1>1, <1>3, <1>4, BindGrows DEF Par
<1>7. Given(n)'
  BY <1>1, <1>3, <1>5, <1>6 DEF Given, Plain, NoRest
<1>8. Taken'
  BY <1>1, <1>3, PlainHere, TakenNext
<1> QED
  BY <1>1, <1>3, <1>4, <1>7, <1>8, BindKeeps DEF BindInv

\* The loop ends.
LEMMA EndKeeps ==
  ASSUME BindInv, UNCHANGED <<Call, par, pos, used, env>>, Ended'
  PROVE  BindInv'
  BY DEF BindInv, Call, Signed, Given, Plain, NoRest, NoKeywords, Taken

LEMMA BindInductive == BindInv /\ [BindNext]_bindVars => BindInv'
<1> SUFFICES ASSUME BindInv, [BindNext]_bindVars PROVE BindInv'
  OBVIOUS
<1> USE DEF Call
<1>1. CASE Duplicate
  <2>1. Ended'
    BY <1>1, PlainHere DEF Duplicate, FilledTwice, Ended, Plain, Par
  <2> QED
    BY <1>1, <2>1, EndKeeps DEF Duplicate
<1>2. CASE Missing
  <2>1. AtParam /\ Par.kind = "plain" /\ Par.name \notin kws /\ pos >= posn
    BY <1>2 DEF Missing, Unfilled
  <2>2. pos = posn
    BY <2>1, PlainHere
  <2>3. Ended'
    BY <1>2, <2>1, <2>2 DEF Missing, Ended, AtParam, Par
  <2> QED
    BY <1>2, <2>3, EndKeeps DEF Missing
<1>3. CASE Finish
  <2>1. par = Len(params) + 1 /\ Len(params) \in Nat /\ pos \in 0 .. posn /\ posn \in Nat
    BY <1>3 DEF Finish, BindInv, Signed
  <2>2. Ended'
    BY <1>3, <2>1 DEF Finish, Ended
  <2> QED
    BY <1>3, <2>2, EndKeeps DEF Finish
<1>4. CASE UNCHANGED bindVars
  <2>1. Ended'
    BY <1>4 DEF bindVars, BindInv, Ended, Plain, Par
  <2> QED
    BY <1>4, <2>1, EndKeeps DEF bindVars
<1> QED
  BY <1>1, <1>2, <1>3, <1>4, BindRestKeeps, BindKeywordsKeeps, BindKeywordKeeps,
     BindPositionalKeeps, BindDefaultKeeps DEF BindNext

-----------------------------------------------------------------------------
(* What Python would bind.                                                 *)

LEMMA CardinalityTo ==
  ASSUME NEW n \in Nat
  PROVE  IsFiniteSet(1 .. n) /\ Cardinality(1 .. n) = n
<1>1. IsFiniteSet(1 .. n) /\ Cardinality(1 .. n) = IF 1 > n THEN 0 ELSE n - 1 + 1
  BY FS_Interval
<1> QED
  BY <1>1

\* The parameter that collects keywords is the last one.
LEMMA KeywordsLast ==
  ASSUME Signed, NEW b \in 1 .. Len(params)
  PROVE  /\ \A a \in 1 .. b - 1 : a \in 1 .. Len(params) /\ params[a].kind /= "keywords"
         /\ NoKeywords(b - 1)
<1>1. Len(params) \in Nat
  BY DEF Signed
<1>2. ASSUME NEW a \in 1 .. b - 1
      PROVE  a \in 1 .. Len(params) /\ params[a].kind /= "keywords"
  <2>1. a \in 1 .. Len(params) /\ a /= Len(params)
    BY <1>1
  <2> QED
    BY <2>1 DEF Signed
<1> QED
  BY <1>2 DEF NoKeywords

\* A seat is counted from the left, and filled if there is an argument for it.
LEMMA SeatsCounted ==
  ASSUME Signed, posn \in Nat, NEW a \in 1 .. Len(params)
  PROVE  /\ a \in Seats <=> Plain(a) /\ NoRest(a)
         /\ a \in Seats => Rank(a) = a
         /\ a \in Filled <=> Plain(a) /\ NoRest(a) /\ a <= posn
<1>1. DOMAIN params = 1 .. Len(params) /\ Len(params) \in Nat /\ a \in Nat
  BY DEF Signed
<1>2. a \in Seats <=> Plain(a) /\ NoRest(a)
  BY <1>1 DEF Seats, NoRest
<1>3. ASSUME a \in Seats PROVE Rank(a) = a
  <2>1. ASSUME NEW b \in 1 .. a PROVE b \in Seats
    <3>1. b \in DOMAIN params /\ \A c \in 1 .. b : c \in 1 .. a
      BY <1>1
    <3>2. params[b].kind /= "rest" /\ \A c \in 1 .. b : params[c].kind /= "rest"
      BY <1>2, <1>3, <3>1 DEF NoRest
    <3>3. params[b].kind /= "keywords"
      <4>1. CASE b = a
        BY <1>2, <1>3, <4>1 DEF Plain
      <4>2. CASE b /= a
        <5>1. b \in 1 .. a - 1
          BY <1>1, <4>2
        <5> QED
          BY <5>1, KeywordsLast
      <4> QED
        BY <4>1, <4>2
    <3>4. params[b].kind \in {"plain", "default", "rest", "keywords"}
      BY <1>1, <3>1, ParamFields
    <3> QED
      BY <3>1, <3>2, <3>3, <3>4 DEF Seats, Plain
  <2>2. {b \in Seats : b <= a} = 1 .. a
    <3>1. \A b \in Seats : b \in Int /\ b >= 1
      BY <1>1 DEF Seats
    <3> QED
      BY <1>1, <2>1, <3>1
  <2>3. Cardinality(1 .. a) = a
    BY <1>1, CardinalityTo
  <2> QED
    BY <2>2, <2>3 DEF Rank
<1>4. a \in Filled <=> a \in Seats /\ Rank(a) <= posn
  BY DEF Filled
<1> QED
  BY <1>2, <1>3, <1>4

\* Where nothing collects the rest, every parameter but the one for keywords is a
\* seat.
LEMMA AllSeats ==
  ASSUME BindInv, par = Len(params) + 1, NoRest(par - 1)
  PROVE  /\ Cardinality(Seats) \in Nat /\ pos = Least(Cardinality(Seats), posn)
         /\ \A a \in 1 .. Len(params) : a \in Seats <=> a <= Cardinality(Seats)
<1>1. /\ Signed /\ posn \in Nat /\ DOMAIN params = 1 .. Len(params) /\ Len(params) \in Nat
      /\ par - 1 = Len(params)
  BY DEF BindInv, Signed
<1>2. \A a \in 1 .. Len(params) : NoRest(a)
  BY <1>1 DEF NoRest
<1>3. \A a \in 1 .. Len(params) : a \in Seats <=> params[a].kind /= "keywords"
  <2> SUFFICES ASSUME NEW a \in 1 .. Len(params)
               PROVE  a \in Seats <=> params[a].kind /= "keywords"
    OBVIOUS
  <2>1. params[a].kind \in {"plain", "default", "rest", "keywords"}
    BY <1>1, ParamFields
  <2>2. params[a].kind /= "rest"
    BY <1>1 DEF NoRest
  <2>3. a \in Seats <=> Plain(a) /\ NoRest(a)
    BY <1>1, SeatsCounted
  <2> QED
    BY <1>2, <2>1, <2>2, <2>3 DEF Plain
<1>4. Seats \subseteq 1 .. Len(params)
  BY <1>1 DEF Seats
<1>5. Taken
  BY DEF BindInv
<1>6. CASE NoKeywords(par - 1)
  <2>1. Seats = 1 .. Len(params)
    BY <1>1, <1>3, <1>4, <1>6 DEF NoKeywords
  <2>2. Cardinality(Seats) = Len(params)
    BY <1>1, <2>1, CardinalityTo
  <2> QED
    BY <1>1, <1>5, <1>6, <2>1, <2>2 DEF Taken
<1>7. CASE ~NoKeywords(par - 1)
  <2>1. PICK k \in 1 .. Len(params) : params[k].kind = "keywords"
    BY <1>1, <1>7 DEF NoKeywords
  <2>2. k = Len(params) /\ \A a \in 1 .. Len(params) : params[a].kind = "keywords" => a = k
    BY <1>1, <2>1 DEF Signed
  <2>3. Seats = 1 .. Len(params) - 1
    <3>1. \A a \in 1 .. Len(params) : a \in 1 .. Len(params) - 1 <=> a /= k
      <4>1. \A l \in Nat : \A a \in 1 .. l : a \in 1 .. l - 1 <=> a /= l
        OBVIOUS
      <4> QED
        BY <1>1, <2>2, <4>1
    <3>2. \A a : a \in 1 .. Len(params) - 1 => a \in 1 .. Len(params)
      BY <1>1
    <3>3. \A a \in 1 .. Len(params) : a \in Seats <=> a /= k
      BY <1>3, <2>1, <2>2
    <3> QED
      BY <1>4, <3>1, <3>2, <3>3
  <2>4. Cardinality(Seats) = Len(params) - 1 /\ Len(params) - 1 \in Nat
    <3>1. Len(params) - 1 \in Nat
      BY <1>1, <2>1
    <3> QED
      BY <2>3, <3>1, CardinalityTo
  <2>5. par - 2 = Len(params) - 1
    BY <1>1
  <2> QED
    BY <1>1, <1>5, <1>7, <2>3, <2>4, <2>5 DEF Taken
<1> QED
  BY <1>6, <1>7

\* The parameter that collects the rest comes right after the seats.
LEMMA RestAfterSeats ==
  ASSUME Signed, posn \in Nat, NEW r \in 1 .. Len(params), params[r].kind = "rest"
  PROVE  Cardinality(Seats) = r - 1
<1>1. DOMAIN params = 1 .. Len(params) /\ Len(params) \in Nat /\ r \in Nat /\ r - 1 \in Nat
  BY DEF Signed
<1>2. ASSUME NEW a \in 1 .. r - 1 PROVE a \in Seats
  <2>1. a \in 1 .. Len(params) /\ params[a].kind /= "keywords"
    BY <1>1, KeywordsLast
  <2>2. \A b \in 1 .. a : b \in 1 .. Len(params) /\ b /= r
    BY <1>1
  <2>3. \A b \in 1 .. a : params[b].kind /= "rest"
    BY <2>2 DEF Signed
  <2>4. a \in 1 .. a
    BY <1>1
  <2>5. params[a].kind \in {"plain", "default", "rest", "keywords"}
    BY <2>1, ParamFields
  <2> QED
    BY <1>1, <2>1, <2>3, <2>4, <2>5 DEF Seats, Plain
<1>3. ASSUME NEW a \in Seats PROVE a \in 1 .. r - 1
  <2>1. a \in 1 .. Len(params) /\ \A b \in 1 .. a : params[b].kind /= "rest"
    BY <1>1 DEF Seats
  <2>2. r \notin 1 .. a
    BY <2>1
  <2> QED
    BY <1>1, <2>1, <2>2
<1>4. Seats = 1 .. r - 1
  BY <1>2, <1>3
<1> QED
  BY <1>1, <1>4, CardinalityTo

\* No name of a parameter is stray.
LEMMA PlainKnown ==
  ASSUME NEW a \in DOMAIN params, Plain(a)
  PROVE  params[a].name \in kws \ Stray <=> params[a].name \in kws
  BY DEF Stray, Known

\* A call that succeeds is one Python would bind without stray keywords, ...
LEMMA BoundBinds == BindInv /\ binding = "bound" => Binds(kws \ Stray)
<1> SUFFICES ASSUME BindInv, binding = "bound" PROVE Binds(kws \ Stray)
  OBVIOUS
<1>1. /\ Signed /\ posn \in Nat /\ DOMAIN params = 1 .. Len(params) /\ Len(params) \in Nat
      /\ par = Len(params) + 1 /\ par - 1 = Len(params) /\ pos = posn
  BY DEF BindInv, Signed, Ended
<1>2. Cardinality(Seats) >= posn \/ \E a \in DOMAIN params : params[a].kind = "rest"
  <2>1. CASE NoRest(par - 1)
    BY <1>1, <2>1, AllSeats DEF Least
  <2>2. CASE ~NoRest(par - 1)
    BY <1>1, <2>2 DEF NoRest
  <2> QED
    BY <2>1, <2>2
<1>3. ASSUME NEW a \in DOMAIN params, Plain(a)
      PROVE  IF a \in Filled THEN params[a].name \notin kws \ Stray
             ELSE params[a].kind = "default" \/ params[a].name \in kws \ Stray
  <2>1. Given(a) /\ (a \in Filled <=> Plain(a) /\ NoRest(a) /\ a <= posn)
    BY <1>1, SeatsCounted DEF BindInv
  <2> QED
    BY <1>3, <2>1, PlainKnown DEF Given
<1>4. \A w \in kws \ Stray : Known(w)
  BY DEF Stray
<1> QED
  BY <1>2, <1>3, <1>4 DEF Binds

\* ... every parameter of it gets what Python gives it, ...
LEMMA BoundGets ==
  ASSUME BindInv, binding = "bound"
  PROVE  env = [a \in DOMAIN params |-> [name |-> params[a].name, to |-> Gets(a)]]
<1>1. /\ Signed /\ posn \in Nat /\ DOMAIN params = 1 .. Len(params) /\ Len(params) \in Nat
      /\ par = Len(params) + 1 /\ par - 1 = Len(params)
      /\ env \in Seq(Entry) /\ DOMAIN env = 1 .. Len(params)
  BY DEF BindInv, Signed, Ended
<1>2. ASSUME NEW a \in 1 .. Len(params)
      PROVE  env[a] = [name |-> params[a].name, to |-> Gets(a)]
  <2>1. Given(a) /\ params[a].kind \in {"plain", "default", "rest", "keywords"}
    BY <1>1, ParamFields DEF BindInv
  <2>2. /\ a \in Seats <=> Plain(a) /\ NoRest(a)
        /\ a \in Seats => Rank(a) = a
        /\ a \in Filled <=> Plain(a) /\ NoRest(a) /\ a <= posn
    BY <1>1, SeatsCounted
  <2>3. env[a] \in Entry /\ env[a].to \in Bound
    <3>1. env[a] \in Entry
      BY <1>1
    <3> QED
      BY <3>1 DEF Entry
  <2>4. env[a].name = params[a].name
    BY <2>1 DEF Given
  <2>5. env[a].to.args = Gets(a).args
    <3>1. CASE params[a].kind = "rest"
      <4>1. Cardinality(Seats) + 1 = a
        BY <1>1, <3>1, RestAfterSeats
      <4> QED
        BY <2>1, <3>1, <4>1 DEF Given, Gets
    <3>2. CASE params[a].kind = "keywords"
      BY <2>1, <2>2, <3>2 DEF Given, Gets, Plain
    <3>3. CASE Plain(a)
      BY <2>1, <2>2, <3>3 DEF Given, Gets, Plain
    <3> QED
      BY <2>1, <3>1, <3>2, <3>3 DEF Plain
  <2>6. env[a].to.kw = Gets(a).kw
    <3>1. CASE params[a].kind = "keywords"
      <4>1. a = Len(params)
        BY <1>1, <3>1 DEF Signed
      <4>2. \A b \in DOMAIN params : b \in 1 .. a - 1 \/ b = a
        BY <1>1, <4>1
      <4>3. \A b \in 1 .. a - 1 : b \in DOMAIN params
        BY <1>1
      <4>4. ~Plain(a)
        BY <3>1 DEF Plain
      <4> QED
        BY <2>1, <3>1, <4>2, <4>3, <4>4 DEF Given, Gets
    <3>2. CASE params[a].kind = "rest"
      BY <2>1, <3>2 DEF Given, Gets, Plain
    <3>3. CASE Plain(a)
      <4>1. params[a].kind /= "keywords"
        BY <3>3 DEF Plain
      <4>2. Gets(a).kw = {params[a].name} \cap kws
        BY <3>3, <4>1 DEF Gets
      <4>3. CASE params[a].name \in kws
        BY <2>1, <3>3, <4>2, <4>3 DEF Given
      <4>4. CASE params[a].name \notin kws
        BY <2>1, <3>3, <4>2, <4>4 DEF Given
      <4> QED
        BY <4>3, <4>4
    <3> QED
      BY <2>1, <3>1, <3>2, <3>3 DEF Plain
  <2>7. env[a].to.default = Gets(a).default
    <3>1. env[a].to.default \in BOOLEAN
      BY <2>3 DEF Bound
    <3>2. Gets(a).default = (Plain(a) /\ a \notin Filled /\ params[a].name \notin kws)
      BY DEF Gets
    <3>3. env[a].to.default <=> Plain(a) /\ ~(NoRest(a) /\ a <= posn) /\ params[a].name \notin kws
      BY <2>1 DEF Given
    <3> QED
      BY <2>2, <3>1, <3>2, <3>3
  <2>8. env[a].to = Gets(a)
    <3>1. env[a].to = [args |-> env[a].to.args, kw |-> env[a].to.kw,
                       default |-> env[a].to.default]
      BY <2>3 DEF Bound
    <3>2. Gets(a) = [args |-> Gets(a).args, kw |-> Gets(a).kw, default |-> Gets(a).default]
      BY DEF Gets
    <3> QED
      BY <2>5, <2>6, <2>7, <3>1, <3>2
  <2>9. env[a] = [name |-> env[a].name, to |-> env[a].to]
    BY <2>3 DEF Entry
  <2> QED
    BY <2>4, <2>8, <2>9
<1>3. env = [a \in DOMAIN env |-> env[a]]
  BY <1>1
<1> QED
  BY <1>1, <1>2, <1>3

\* ... a call that does not succeed is one Python would not bind either.
LEMMA UnboundNot == BindInv /\ binding \in {"raised", "failed"} => ~Binds(kws \ Stray)
<1> SUFFICES ASSUME BindInv, binding \in {"raised", "failed"}, Binds(kws \ Stray) PROVE FALSE
  OBVIOUS
<1>1. /\ Signed /\ posn \in Nat /\ DOMAIN params = 1 .. Len(params) /\ Len(params) \in Nat
      /\ par \in 1 .. Len(params) + 1 /\ pos \in 0 .. posn /\ pos \in Nat /\ par \in Nat
      /\ Taken /\ Ended
  BY DEF BindInv, Signed
<1>2. \A b \in 1 .. par : b \in 1 .. par - 1 \/ b = par
  BY <1>1
<1>3. CASE binding = "raised" /\ par = Len(params) + 1
  <2>1. pos < posn
    BY <1>1, <1>3 DEF Ended
  <2>2. NoRest(par - 1)
    BY <1>1, <2>1 DEF Taken
  <2>3. pos = Least(Cardinality(Seats), posn) /\ Cardinality(Seats) \in Nat
    BY <1>3, <2>2, AllSeats
  <2>4. ~(Cardinality(Seats) >= posn)
    BY <1>1, <2>1, <2>3 DEF Least
  <2>5. par - 1 = Len(params)
    BY <1>1, <1>3
  <2> QED
    BY <1>1, <2>2, <2>4, <2>5 DEF Binds, NoRest
<1>4. CASE binding = "raised" /\ par <= Len(params)
  <2>1. pos < posn /\ Plain(par) /\ params[par].name \in kws /\ par \in 1 .. Len(params)
    BY <1>1, <1>4 DEF Ended, Par
  <2>2. NoRest(par - 1)
    BY <1>1, <2>1 DEF Taken
  <2>3. NoRest(par)
    BY <1>2, <2>1, <2>2 DEF NoRest, Plain
  <2>4. NoKeywords(par - 1)
    BY <1>1, <2>1, KeywordsLast
  <2>5. pos = Least(par - 1, posn)
    BY <1>1, <2>2, <2>4 DEF Taken
  <2>6. par <= posn
    BY <1>1, <2>1, <2>5 DEF Least
  <2>7. par \in Filled
    BY <1>1, <2>1, <2>3, <2>6, SeatsCounted
  <2> QED
    BY <1>1, <2>1, <2>7, PlainKnown DEF Binds
<1>5. CASE binding = "failed"
  <2>1. /\ par \in 1 .. Len(params) /\ pos = posn
        /\ params[par].kind = "plain" /\ params[par].name \notin kws
    BY <1>1, <1>5 DEF Ended, Par
  <2>2. par \in Filled
    BY <1>1, <2>1, PlainKnown DEF Binds, Plain
  <2>3. NoRest(par) /\ par <= posn
    BY <1>1, <2>1, <2>2, SeatsCounted
  <2>4. NoRest(par - 1)
    BY <1>1, <2>3 DEF NoRest
  <2>5. NoKeywords(par - 1)
    BY <1>1, <2>1, KeywordsLast
  <2>6. pos = Least(par - 1, posn)
    BY <1>1, <2>4, <2>5 DEF Taken
  <2> QED
    BY <1>1, <2>1, <2>3, <2>6 DEF Least
<1>6. par = Len(params) + 1 \/ par <= Len(params)
  BY <1>1
<1> QED
  BY <1>3, <1>4, <1>5, <1>6

\* bindParams succeeds on just the calls that Python would bind without their stray
\* keywords, for every list of parameters the language means and every number of
\* arguments, and gives every parameter what Python gives it.
THEOREM BindsAsPythonHolds == BindSpec => []BindsAsPython
<1>1. BindInv => BindsAsPython
  <2> SUFFICES ASSUME BindInv, Answered
               PROVE  /\ (binding = "bound") = Binds(kws \ Stray)
                      /\ binding = "bound" =>
                           env = [a \in DOMAIN params |-> [name |-> params[a].name, to |-> Gets(a)]]
    BY DEF BindsAsPython
  <2>1. CASE binding = "bound"
    BY <2>1, BoundBinds, BoundGets DEF Binds
  <2>2. CASE binding \in {"raised", "failed"}
    <3>1. ~Binds(kws \ Stray) /\ binding /= "bound"
      BY <2>2, UnboundNot
    <3>2. Binds(kws \ Stray) \in BOOLEAN
      BY DEF Binds
    <3> QED
      BY <3>1, <3>2
  <2> QED
    BY <2>1, <2>2 DEF Answered
<1> QED
  BY <1>1, BindInitial, BindInductive, PTL DEF BindSpec
=============================================================================

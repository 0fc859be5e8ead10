------------------------------- MODULE Power --------------------------------
(***************************************************************************)
(* Integer power (intPow of internal/eval/eval_expr.go): squaring, with a   *)
(* test for overflow before every multiplication of machine integers.       *)
(* trueBase and trueResult are history: what base and result would be       *)
(* without a bound.                                                         *)
(***************************************************************************)
EXTENDS MachineInts

VARIABLES base, exp, result, powering,
          arg,                   \* history: the operands
          trueBase, trueResult   \* history

powerVars == <<base, exp, result, powering, arg, trueBase, trueResult>>

\* Go's integer division truncates towards zero.
AbsVal(a) == IF a < 0 THEN -a ELSE a
Quo(a, b) == IF (a < 0) = (b < 0) THEN AbsVal(a) \div AbsVal(b)
             ELSE -(AbsVal(a) \div AbsVal(b))

\* Mutant: two negative factors are not looked at.
mulOverflowsUnsigned(a, b) ==
  \/ a > 0 /\ b > 0 /\ a > Quo(MaxInt, b)
  \/ a > 0 /\ b < 0 /\ b < Quo(MinInt, a)
  \/ a < 0 /\ b > 0 /\ a < Quo(MinInt, b)

\* The test before a multiplication: by a division, which cannot overflow.
mulOverflows(a, b) ==
  \/ a > 0 /\ b > 0 /\ a > Quo(MaxInt, b)
  \/ a > 0 /\ b < 0 /\ b < Quo(MinInt, a)
  \/ a < 0 /\ b > 0 /\ a < Quo(MinInt, b)
  \/ a < 0 /\ b < 0 /\ b < Quo(MaxInt, a)

PowerInit ==
  /\ base \in Ints /\ exp \in 0 .. MaxInt /\ result = 1
  /\ powering = IF exp > 0 THEN "multiply" ELSE "done"
  /\ arg = <<base, exp>> /\ trueBase = base /\ trueResult = 1

\* An odd exponent: the result takes the base, unless that overflows.
Multiply ==
  /\ powering = "multiply"
  /\ IF exp % 2 = 0
     THEN powering' = "square" /\ UNCHANGED <<result, trueResult>>
     ELSE IF mulOverflows(result, base)
     THEN powering' = "raised" /\ UNCHANGED <<result, trueResult>>
     ELSE /\ powering' = "square"
          /\ result' = Wrap(result * base)
          /\ trueResult' = trueResult * trueBase
  /\ UNCHANGED <<base, exp, arg, trueBase>>

\* Mutant: the base is squared once more than it is needed.
LastBitLate == exp = 0
\* No bit of the exponent is left after this one.
LastBit == exp \div 2 = 0

\* The exponent is halved; the base is squared if any of it is left.
Square ==
  /\ powering = "square"
  /\ exp' = exp \div 2
  /\ IF LastBit
     THEN powering' = "done" /\ UNCHANGED <<base, trueBase>>
     ELSE IF mulOverflows(base, base)
     THEN powering' = "raised" /\ UNCHANGED <<base, trueBase>>
     ELSE /\ powering' = "multiply"
          /\ base' = Wrap(base * base)
          /\ trueBase' = trueBase * trueBase
  /\ UNCHANGED <<result, arg, trueResult>>

PowerNext == Multiply \/ Square
PowerSpec == PowerInit /\ [][PowerNext]_powerVars

-----------------------------------------------------------------------------
\* The comment on intPow, "instead of silently returning a truncated result":
\* whatever the operands, no multiplication of the loop wraps around.
NoWrap == base = trueBase /\ result = trueResult

\* The power of a base, as long as it is a machine integer; TooBig after that.
TooBig == MaxInt + 1
PowerOf(b, n) ==
  LET p[k \in 0 .. n] ==
        IF k = 0 THEN 1
        ELSE IF p[k - 1] # TooBig /\ p[k - 1] * b \in Ints THEN p[k - 1] * b ELSE TooBig
  IN  p[n]

\* The power it returns is the power, and it raises only for a power that no
\* machine integer is: never because of a square the result does not need.
Exact ==
  /\ powering = "done" => result = PowerOf(arg[1], arg[2])
  /\ powering = "raised" => PowerOf(arg[1], arg[2]) = TooBig
=============================================================================

---------------------------- MODULE MachineInts ----------------------------
(***************************************************************************)
(* Go's signed integers, MinInt .. MaxInt, which wrap around.               *)
(***************************************************************************)
EXTENDS Integers

CONSTANT MaxInt

ASSUME MaxIntAssumption == MaxInt \in Nat \ {0}

MinInt == -MaxInt - 1
Ints == MinInt .. MaxInt

\* A sum or a product as the machine computes it.
Wrap(n) == ((n - MinInt) % (2 * (MaxInt + 1))) + MinInt
=============================================================================

------------------------------- MODULE Ranges -------------------------------
(***************************************************************************)
(* Loops over a range of machine integers: the statement with bounds        *)
(* (evalForRange), the loop over a range value (evalRangeForIn) and the     *)
(* list of its elements (Range.values).  Bounds and steps are integers.     *)
(***************************************************************************)
EXTENDS MachineInts

CONSTANTS RangeBounds, Strides   \* the bounds and the steps

ASSUME RangesAssumption == RangeBounds \subseteq Ints /\ Strides \subseteq Ints

VARIABLES range, at, ranging,
          seen                   \* history: what the body has been run for

rangeVars == <<range, at, ranging, seen>>

\* A step of zero raises in the statement; a range value has no elements then.
RangeInit ==
  /\ range \in [start : RangeBounds, end : RangeBounds, step : Strides]
  /\ at = range.start /\ seen = {}
  /\ ranging \in {"loop"} \cup (IF range.step = 0 THEN {"raised"} ELSE {})

\* Mutant: the end belongs to the range.
ClosedWithin(k) ==
  \/ range.step > 0 /\ k <= range.end
  \/ range.step < 0 /\ k >= range.end
InRange(k) ==
  \/ range.step > 0 /\ k < range.end
  \/ range.step < 0 /\ k > range.end

\* The body runs; it ends normally or with a continue, or it leaves the loop.
Turn ==
  /\ ranging = "loop" /\ InRange(at)
  /\ seen' = seen \cup {at}
  /\ \/ at' = Wrap(at + range.step) /\ UNCHANGED ranging
     \/ ranging' = "left" /\ UNCHANGED at
  /\ UNCHANGED range

RangeOver ==
  /\ ranging = "loop" /\ ~InRange(at)
  /\ ranging' = "done" /\ UNCHANGED <<range, at, seen>>

RangeNext == Turn \/ RangeOver
RangeSpec == RangeInit /\ [][RangeNext]_rangeVars

-----------------------------------------------------------------------------
\* The elements of a range, as Python has them.
Nth(r, n) == r.start + n * r.step
Before(r, k) == IF r.step > 0 THEN k < r.end ELSE r.step < 0 /\ k > r.end
Members(r) == {k \in Ints : Before(r, k) /\ \E n \in 0 .. MaxInt - MinInt : k = Nth(r, n)}

\* Whether every sum the loop computes is a machine integer, the last included.
Fits(r) == \A k \in Members(r) : k + r.step \in Ints

\* A loop that is over has run its body for every element of the range; it has
\* run it for nothing else, and in order, unless the sum past the last element
\* wraps around.
RangeIsPythons ==
  /\ ranging = "done" => Members(range) \subseteq seen
  /\ Fits(range) =>
       /\ seen \subseteq Members(range)
       /\ ranging = "loop" => \A k \in seen : IF range.step > 0 THEN k < at ELSE k > at
=============================================================================

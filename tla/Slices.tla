------------------------------- MODULE Slices -------------------------------
(***************************************************************************)
(* Subscripts (evalIndex, evalSlice, sliceBounds and clampSliceIdx of       *)
(* internal/eval/eval_members.go).  A sequence is its length: what it holds *)
(* at a position is the position.  A list and a text are treated alike.     *)
(***************************************************************************)
EXTENDS MachineInts, Sequences

CONSTANTS MaxLen,   \* bound: the length of a sequence
          Bounds,   \* the bounds of a slice
          Steps,    \* its steps
          Omitted   \* a bound that is not written

ASSUME SlicesAssumption ==
  MaxLen \in 0 .. MaxInt /\ Bounds \subseteq Ints /\ Steps \subseteq Ints
ASSUME OmittedAssumption == Omitted \notin Int

VARIABLES req,    \* the slice: its sequence's length, its bounds, its step
          i, out, \* the loop of evalSlice
          slicing

sliceVars == <<req, i, out, slicing>>

Requests == [n : 0 .. MaxLen, low : Bounds \cup {Omitted}, high : Bounds \cup {Omitted},
             step : Steps]

\* Mutant: a bound below the range is the first position in both directions.
clampSliceIdxUp(b, n, step) ==
  CASE b < 0 -> IF b + n < 0 THEN 0 ELSE b + n
    [] b >= n -> IF step < 0 THEN n - 1 ELSE n
    [] OTHER -> b

\* Mutant: a bound above the range is the length in both directions.
clampSliceIdxEnd(b, n, step) ==
  CASE b < 0 -> IF b + n < 0 THEN (IF step < 0 THEN -1 ELSE 0) ELSE b + n
    [] b >= n -> n
    [] OTHER -> b

clampSliceIdx(b, n, step) ==
  CASE b < 0 -> IF b + n < 0 THEN (IF step < 0 THEN -1 ELSE 0) ELSE b + n
    [] b >= n -> IF step < 0 THEN n - 1 ELSE n
    [] OTHER -> b

\* sliceBounds: where the loop begins, and where it stops.
Low(r) == IF r.low # Omitted THEN clampSliceIdx(r.low, r.n, r.step)
          ELSE IF r.step > 0 THEN 0 ELSE r.n - 1
High(r) == IF r.high # Omitted THEN clampSliceIdx(r.high, r.n, r.step)
           ELSE IF r.step > 0 THEN r.n ELSE -1

\* The operands are evaluated; a step of zero raises.
SliceInit ==
  /\ req \in Requests
  /\ i = Low(req) /\ out = <<>>
  /\ slicing = IF req.step = 0 THEN "raised" ELSE "loop"

Within(k) == IF req.step > 0 THEN k < High(req) ELSE k > High(req)

\* One turn of the loop; the position of the next one wraps around.
Take ==
  /\ slicing = "loop" /\ Within(i) /\ i \in 0 .. req.n - 1
  /\ out' = Append(out, i) /\ i' = Wrap(i + req.step)
  /\ UNCHANGED <<req, slicing>>
Leave ==
  /\ slicing = "loop" /\ ~Within(i)
  /\ slicing' = "done" /\ UNCHANGED <<req, i, out>>

\* vals[i] does not exist: a panic of Go, which no handler of the program
\* catches.
Panic ==
  /\ slicing = "loop" /\ Within(i) /\ i \notin 0 .. req.n - 1
  /\ slicing' = "panicked" /\ UNCHANGED <<req, i, out>>

SliceNext == Take \/ Leave \/ Panic
SliceSpec == SliceInit /\ [][SliceNext]_sliceVars

\* evalIndex: the element, or none where it raises.
evalIndex(k, n) ==
  LET p == IF k < 0 THEN k + n ELSE k
  IN  IF p < 0 \/ p >= n THEN <<>> ELSE <<p>>

-----------------------------------------------------------------------------
\* What Python selects, said of positions: with negative bounds counted from the
\* end, those from the first position on - or the nearest one there is - that
\* lie before the last bound, in steps, in the direction of the step.
Counted(b, n) == IF b < 0 THEN b + n ELSE b
Start(r) ==
  IF r.step > 0
  THEN IF r.low = Omitted \/ Counted(r.low, r.n) < 0 THEN 0 ELSE Counted(r.low, r.n)
  ELSE IF r.low = Omitted \/ Counted(r.low, r.n) >= r.n THEN r.n - 1 ELSE Counted(r.low, r.n)
Selected(r) ==
  {p \in 0 .. r.n - 1 :
     IF r.step > 0
     THEN /\ p >= Start(r) /\ (p - Start(r)) % r.step = 0
          /\ r.high # Omitted => p < Counted(r.high, r.n)
     ELSE /\ p <= Start(r) /\ (Start(r) - p) % (-r.step) = 0
          /\ r.high # Omitted => p > Counted(r.high, r.n)}

\* The sum past the last position is no int64.
Overflows(r) == \E p \in Selected(r) : p + r.step \notin Ints

\* The comment on evalSlice promises Python's clamping, with which a slice never
\* reads a position there is not.  It does exactly when that sum overflows, where
\* Python would end the slice, and then Go panics: no bounds, however far out
\* and in whichever direction, lead the loop outside of the sequence, and a loop
\* whose position wraps around never comes to an end otherwise.
PanicsOnOverflow ==
  /\ slicing = "panicked" => Overflows(req)
  /\ slicing = "done" => ~Overflows(req)

\* The comment on evalSlice: the slice is Python's, in order.  A slice from k up
\* to k + 1 is then the element that evalIndex finds at k, and empty where that
\* raises (but for k = -1, where k + 1 counts from the other end).
SliceIsPythons ==
  slicing = "done" =>
    /\ {out[k] : k \in DOMAIN out} = Selected(req)
    /\ \A k \in 1 .. Len(out) - 1 : out[k + 1] = out[k] + req.step
    /\ req.step = 1 /\ req.low # Omitted /\ req.low # -1 /\ req.high = req.low + 1
         => out = evalIndex(req.low, req.n)
=============================================================================

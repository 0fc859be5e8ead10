------------------------------ MODULE MCValues ------------------------------
(***************************************************************************)
(* Four loops of the evaluator, one at a time: a power, a slice, a range,   *)
(* and the binding of the parameters of a call.  job names the one that     *)
(* runs; the others are idle, at one initial state each.                    *)
(***************************************************************************)
EXTENDS Power, Slices, Ranges, Binding

CONSTANTS x, y, z

VARIABLE job

MCBounds == -5 .. 4
MCSteps == -4 .. 3
MCSliceSteps == {-16, -15} \cup MCSteps \cup 12 .. 15
MCRangeBounds == -16 .. 15

PowerIdle == base = 0 /\ exp = 0 /\ PowerInit
SliceIdle == req = [n |-> 0, low |-> 0, high |-> 0, step |-> 1] /\ SliceInit
RangeIdle == range = [start |-> 0, end |-> 0, step |-> 1] /\ RangeInit
BindIdle == params = <<>> /\ posn = 0 /\ kws = {} /\ BindInit

Init ==
  \/ job = "power" /\ PowerInit /\ SliceIdle /\ RangeIdle /\ BindIdle
  \/ job = "slice" /\ PowerIdle /\ SliceInit /\ RangeIdle /\ BindIdle
  \/ job = "range" /\ PowerIdle /\ SliceIdle /\ RangeInit /\ BindIdle
  \/ job = "bind" /\ PowerIdle /\ SliceIdle /\ RangeIdle /\ BindInit

Next ==
  \/ job = "power" /\ PowerNext /\ UNCHANGED <<job, sliceVars, rangeVars, bindVars>>
  \/ job = "slice" /\ SliceNext /\ UNCHANGED <<job, powerVars, rangeVars, bindVars>>
  \/ job = "range" /\ RangeNext /\ UNCHANGED <<job, powerVars, sliceVars, bindVars>>
  \/ job = "bind" /\ BindNext /\ UNCHANGED <<job, powerVars, sliceVars, rangeVars>>

Spec == Init /\ [][Next]_<<job, powerVars, sliceVars, rangeVars, bindVars>>
=============================================================================

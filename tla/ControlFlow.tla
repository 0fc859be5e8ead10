---------------------------- MODULE ControlFlow ----------------------------
(***************************************************************************)
(* How one evaluator runs nested statements (internal/eval: eval.go,       *)
(* eval_control.go, eval_exceptions.go, callFunction of eval_expr.go).     *)
(*                                                                         *)
(* The evaluator is recursive and passes return, break, continue, raise    *)
(* and runtime errors up as Go errors.  Here the recursion is an explicit  *)
(* stack of the constructs being evaluated, innermost last, and sig is the *)
(* error on its way up.  What a program does next in the innermost         *)
(* construct is its choice; where a signal goes is the evaluator's.        *)
(***************************************************************************)
EXTENDS Naturals, Sequences, FiniteSets

CONSTANTS
  MaxCallDepth,  \* maxCallDepth
  MaxStack,      \* bound: the nesting of constructs (a cleanup may add one call)
  MaxDefers      \* bound: the deferred calls registered in one list

ASSUME BoundsAssumption ==
  MaxCallDepth \in Nat /\ MaxStack \in Nat /\ MaxDefers \in Nat

VARIABLES
  stack,       \* the constructs being evaluated
  sig,         \* the signal on its way up, or NoSignal
  deferStack,  \* Eval.deferStack: the length of each list
  scratch,     \* the bottom list is the one a top-level defer made
  owed         \* history: the positions of the try constructs whose finally has not begun

vars == <<stack, sig, deferStack, scratch, owed>>

(***************************************************************************)
(* Constructs.  "func" is a call whose body runs, "defers" one whose       *)
(* deferred calls run; "try", "handler", "finally" are the parts of one    *)
(* try statement, "with" and "closing" of one with statement; "block" is a *)
(* branch of an if.                                                        *)
(***************************************************************************)
Kinds == {"block", "loop", "func", "defers", "try", "handler", "finally", "with", "closing"}

\* Constructs in which the statements of a program are evaluated.
Bodies == {"block", "loop", "func", "try", "handler", "finally", "with"}

\* A try may have no handlers, only typed ones, or a bare one at the end.
Handlers == {"none", "typed", "bare"}

Signals == {"none", "return", "break", "continue", "raise", "error"}

\* A signal, and the position of the call whose body it comes from (0: the
\* top level).
NoSignal == [kind |-> "none", home |-> 0]

Construct(kind) ==
  [kind |-> kind,
   catches |-> "none",  \* the handlers of a try
   finally |-> FALSE,   \* a try that has a finally
   left |-> 0,          \* deferred calls, or closing calls, still to make
   own |-> 0,           \* history: the defer statements its body has run
   kept |-> NoSignal]   \* the outcome that waits for a cleanup to end

-----------------------------------------------------------------------------
(* Helpers.                                                                *)

Depth == Len(stack)
Top == stack[Depth]
TopKind == IF stack = <<>> THEN "top" ELSE Top.kind
Pop == SubSeq(stack, 1, Depth - 1)
Push(c) == stack' = Append(stack, c)
ReplaceTop(c) == stack' = [stack EXCEPT ![Depth] = c]

\* The calls whose body runs, by position, and the innermost one (or 0).
Running == {p \in 1 .. Depth : stack[p].kind = "func"}
Home == IF Running = {} THEN 0 ELSE CHOOSE p \in Running : \A q \in Running : q <= p

\* Statements are being evaluated in the innermost construct.
Evaluating == sig = NoSignal /\ TopKind \in Bodies \cup {"top"}
Room == Depth < MaxStack

Init ==
  /\ stack = <<>>
  /\ sig = NoSignal
  /\ deferStack = <<>>
  /\ scratch = FALSE
  /\ owed = {}

-----------------------------------------------------------------------------
(* Statements.                                                             *)

Enter(kind) ==
  /\ Evaluating /\ Room
  /\ Push(Construct(kind))
  /\ UNCHANGED <<sig, deferStack, scratch, owed>>

\* A branch of an if; an iteration of a loop; the body of a with.
EnterBlock == Enter("block")
EnterLoop == Enter("loop")
EnterWith == Enter("with")

EnterTry(catches, finally) ==
  /\ Evaluating /\ Room
  /\ Push([Construct("try") EXCEPT !.catches = catches, !.finally = finally])
  /\ owed' = IF finally THEN owed \cup {Depth + 1} ELSE owed
  /\ UNCHANGED <<sig, deferStack, scratch>>

\* callFunction: too deep a call raises; otherwise it opens a defer list.
Call ==
  IF Len(deferStack) >= MaxCallDepth
    THEN /\ sig' = [kind |-> "raise", home |-> Home]
         /\ UNCHANGED <<stack, deferStack>>
    ELSE /\ deferStack' = Append(deferStack, 0)
         /\ Push(Construct("func"))
         /\ UNCHANGED sig

CallFunction ==
  /\ Evaluating /\ Room
  /\ Call
  /\ UNCHANGED <<scratch, owed>>

\* addDefers: onto the innermost list, or at the top level a scratch one.
Defer ==
  /\ Evaluating /\ Room
  /\ IF deferStack = <<>>
       THEN /\ deferStack' = <<1>>
            /\ scratch' = TRUE
       ELSE /\ deferStack[Len(deferStack)] < MaxDefers
            /\ deferStack' = [deferStack EXCEPT ![Len(deferStack)] = @ + 1]
            /\ UNCHANGED scratch
  /\ stack' = [p \in 1 .. Depth |->
                 IF p = Home THEN [stack[p] EXCEPT !.own = @ + 1] ELSE stack[p]]
  /\ UNCHANGED <<sig, owed>>

\* A return, break, continue or raise statement, or an expression that
\* raises ("raise") or fails with a RuntimeError ("error").  A bare return,
\* break or continue at the top level is an error.
Signal(kind) ==
  /\ Evaluating
  /\ sig' = [kind |-> IF stack = <<>> /\ kind \in {"return", "break", "continue"}
                        THEN "error" ELSE kind,
             home |-> Home]
  /\ UNCHANGED <<stack, deferStack, scratch, owed>>

-----------------------------------------------------------------------------
(* The end of the innermost construct, with sig (which may be NoSignal).   *)

\* A construct that lets everything through.
EndBlock ==
  /\ TopKind = "block"
  /\ stack' = Pop
  /\ UNCHANGED <<sig, deferStack, scratch, owed>>

\* A loop stops at break, goes on at continue and at the end of its body,
\* and passes the rest up.
EndLoop ==
  /\ TopKind = "loop"
  /\ sig.kind /= "continue"
  /\ stack' = Pop
  /\ sig' = IF sig.kind = "break" THEN NoSignal ELSE sig
  /\ UNCHANGED <<deferStack, scratch, owed>>

ContinueLoop ==
  /\ TopKind = "loop"
  /\ sig.kind = "continue"
  /\ sig' = NoSignal
  /\ UNCHANGED <<stack, deferStack, scratch, owed>>

\* Mutant: the defer list of a call that raises is not popped.
EndBodyRaiseUnpopped ==
  /\ TopKind = "func"
  /\ ReplaceTop([Top EXCEPT !.kind = "defers", !.kept = sig,
                            !.left = deferStack[Len(deferStack)]])
  /\ deferStack' = IF sig.kind = "raise" THEN deferStack
                   ELSE SubSeq(deferStack, 1, Len(deferStack) - 1)
  /\ sig' = NoSignal
  /\ UNCHANGED <<scratch, owed>>

\* The body of a call is over: its defer list comes off the stack and runs.
EndBody ==
  /\ TopKind = "func"
  /\ ReplaceTop([Top EXCEPT !.kind = "defers", !.kept = sig,
                            !.left = deferStack[Len(deferStack)]])
  /\ deferStack' = SubSeq(deferStack, 1, Len(deferStack) - 1)
  /\ sig' = NoSignal
  /\ UNCHANGED <<scratch, owed>>

\* The loop of runDefers goes on.  Mutant: one too far.
DefersLeftOffByOne == Top.left >= 0
DefersLeft == Top.left > 0

\* runDefers makes the next deferred call, last registered first ...
RunDefer ==
  /\ TopKind = "defers" /\ sig = NoSignal
  /\ DefersLeft
  /\ LET rest == [Top EXCEPT !.left = @ - 1]
     IN  IF Len(deferStack) >= MaxCallDepth
           THEN /\ ReplaceTop(rest)
                /\ sig' = [kind |-> "raise", home |-> 0]
                /\ UNCHANGED deferStack
           ELSE /\ stack' = Append([stack EXCEPT ![Depth] = rest], Construct("func"))
                /\ deferStack' = Append(deferStack, 0)
                /\ UNCHANGED sig
  /\ UNCHANGED <<scratch, owed>>

\* ... ignores what it ends with, except that a raise ends the call at once.
DeferEnded ==
  /\ TopKind = "defers" /\ sig /= NoSignal
  /\ IF sig.kind = "raise"
       THEN stack' = Pop /\ UNCHANGED sig
       ELSE sig' = NoSignal /\ UNCHANGED stack
  /\ UNCHANGED <<deferStack, scratch, owed>>

\* Mutant: a return that waited for deferred calls goes on to the caller.
ReturnToCallerLeaks(fits) ==
  /\ TopKind = "defers" /\ sig = NoSignal
  /\ Top.left = 0
  /\ stack' = Pop
  /\ sig' = Top.kept
  /\ UNCHANGED <<deferStack, scratch, owed>>

\* The call returns.  A return value that does not fit the annotation
\* raises; whatever else its body ended with goes on to the caller.
ReturnToCaller(fits) ==
  /\ TopKind = "defers" /\ sig = NoSignal
  /\ Top.left = 0
  /\ stack' = Pop
  /\ sig' = IF Top.kept.kind /= "return" THEN Top.kept
            ELSE IF fits THEN NoSignal
            ELSE [kind |-> "raise", home |-> Home]
  /\ UNCHANGED <<deferStack, scratch, owed>>

\* Mutant: a finally runs after a normal end and a raise only.
LeaveTrySome(s) ==
  IF Top.finally /\ s.kind \in {"none", "raise"}
    THEN /\ ReplaceTop([Top EXCEPT !.kind = "finally", !.kept = s])
         /\ sig' = NoSignal
         /\ owed' = owed \ {Depth}
    ELSE /\ stack' = Pop
         /\ sig' = s
         /\ UNCHANGED owed

\* Leaving a try or its handler: through the finally, if there is one.
LeaveTry(s) ==
  IF Top.finally
    THEN /\ ReplaceTop([Top EXCEPT !.kind = "finally", !.kept = s])
         /\ sig' = NoSignal
         /\ owed' = owed \ {Depth}
    ELSE /\ stack' = Pop
         /\ sig' = s
         /\ UNCHANGED owed

\* The body or the handler ends in a way no handler is tried for, or none
\* matches.  Only a raise is tried; a RuntimeError is not.
EndTry ==
  /\ TopKind \in {"try", "handler"}
  /\ ~(TopKind = "try" /\ sig.kind = "raise" /\ Top.catches = "bare")
  /\ LeaveTry(sig)
  /\ UNCHANGED <<deferStack, scratch>>

\* A handler matches the raise ...
Catch ==
  /\ TopKind = "try" /\ Top.catches /= "none"
  /\ sig.kind = "raise"
  /\ ReplaceTop([Top EXCEPT !.kind = "handler"])
  /\ sig' = NoSignal
  /\ UNCHANGED <<deferStack, scratch, owed>>

\* ... or its exception expression fails, and that takes its place.
MatchFails(kind) ==
  /\ TopKind = "try" /\ Top.catches /= "none"
  /\ sig.kind = "raise"
  /\ LeaveTry([kind |-> kind, home |-> Home])
  /\ UNCHANGED <<deferStack, scratch>>

\* A finally that ends by itself lets the kept outcome go on; a signal of
\* its own takes its place.
EndFinally ==
  /\ TopKind = "finally"
  /\ stack' = Pop
  /\ sig' = IF sig = NoSignal THEN Top.kept ELSE sig
  /\ UNCHANGED <<deferStack, scratch, owed>>

\* The body of a with is over: its context is closed, if it can be.
EndWith(closeable) ==
  /\ TopKind = "with"
  /\ IF closeable
       THEN /\ ReplaceTop([Top EXCEPT !.kind = "closing", !.kept = sig, !.left = 1])
            /\ sig' = NoSignal
       ELSE stack' = Pop /\ UNCHANGED sig
  /\ UNCHANGED <<deferStack, scratch, owed>>

CallClose ==
  /\ TopKind = "closing" /\ sig = NoSignal
  /\ Top.left = 1
  /\ IF Len(deferStack) >= MaxCallDepth
       THEN ReplaceTop([Top EXCEPT !.left = 0]) /\ UNCHANGED deferStack
       ELSE /\ stack' = Append([stack EXCEPT ![Depth].left = 0], Construct("func"))
            /\ deferStack' = Append(deferStack, 0)
  /\ UNCHANGED <<sig, scratch, owed>>

\* Whatever closing ends with is dropped; the outcome of the body goes on.
EndClosing ==
  /\ TopKind = "closing" /\ Top.left = 0
  /\ stack' = Pop
  /\ sig' = Top.kept
  /\ UNCHANGED <<deferStack, scratch, owed>>

\* The top level: the rest of the input is dropped, and a raise or an error
\* reported.  The REPL reads its next input with the same evaluator.
EndInput ==
  /\ stack = <<>> /\ sig /= NoSignal
  /\ sig' = NoSignal
  /\ UNCHANGED <<stack, deferStack, scratch, owed>>

-----------------------------------------------------------------------------
Statement ==
  \/ EnterBlock \/ EnterLoop \/ EnterWith
  \/ \E catches \in Handlers, finally \in BOOLEAN : EnterTry(catches, finally)
  \/ CallFunction
  \/ Defer
  \/ \E kind \in Signals \ {"none"} : Signal(kind)

Unwind ==
  \/ EndBlock \/ EndLoop \/ ContinueLoop
  \/ EndBody \/ RunDefer \/ DeferEnded
  \/ \E fits \in BOOLEAN : ReturnToCaller(fits)
  \/ EndTry \/ Catch \/ EndFinally
  \/ \E kind \in {"raise", "error"} : MatchFails(kind)
  \/ \E closeable \in BOOLEAN : EndWith(closeable)
  \/ CallClose \/ EndClosing
  \/ EndInput

Next == Statement \/ Unwind

Spec == Init /\ [][Next]_vars
-----------------------------------------------------------------------------
(* Properties.                                                             *)

Constructs ==
  [kind : Kinds, catches : Handlers, finally : BOOLEAN, left : Nat, own : Nat,
   kept : [kind : Signals, home : Nat]]

\* The shape of the state.
TypeOK ==
  /\ stack \in Seq(Constructs) /\ Depth <= MaxStack + 1
  /\ sig \in [kind : Signals, home : Nat]
  /\ deferStack \in Seq(Nat)
  /\ scratch \in BOOLEAN
  /\ owed \subseteq 1 .. Depth

\* The defer lists and the calls match: above the scratch list there is one
\* list per call whose body runs, in the same order, and it holds what that
\* body deferred and nothing else.  Deferred calls, closing calls and calls
\* that end in any signal keep it so (pushDefers, popDefers, addDefers).
DeferLists ==
  LET base == IF scratch THEN 1 ELSE 0
      rank(p) == base + Cardinality({q \in Running : q <= p})
  IN  /\ Len(deferStack) = base + Cardinality(Running)
      /\ \A p \in Running : deferStack[rank(p)] = stack[p].own

\* A finally always runs: no try statement that has one is left, in whatever
\* way, before it has begun (the Go defer of evalTryStmt).
FinallyOwed ==
  /\ \A p \in owed : p <= Depth /\ stack[p].kind \in {"try", "handler"}
  /\ \A p \in 1 .. Depth :
       stack[p].kind \in {"try", "handler"} /\ stack[p].finally => p \in owed

\* A return on its way up is still inside the call whose body it comes from:
\* it ends that call and no other, also when it had to wait for a finally or
\* a with to clean up.
ReturnStaysHome == sig.kind = "return" => sig.home = Home
=============================================================================

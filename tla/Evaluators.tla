---------------------------- MODULE Evaluators -----------------------------
(***************************************************************************)
(* Who runs on which evaluator (cloneEval, installBuiltins, callFunction), *)
(* and what super means there (Frame, lookupMethod, superMarker).          *)
(*                                                                         *)
(* Every goroutine of a go statement and every generator gets an evaluator *)
(* of its own, with a defer stack and a frame stack of its own, and a call *)
(* runs on the evaluator of its caller.  The built-in functions, however,  *)
(* are closures over the evaluator that installed them, the main one: a    *)
(* function that a built-in calls (map, filter, and every exception a      *)
(* built-in raises, whose constructor is a call) runs on the main          *)
(* evaluator, in whatever goroutine the built-in was called.               *)
(*                                                                         *)
(* Pushes and pops are single steps here; in Go they are unsynchronised    *)
(* writes to a slice, so what goes wrong here is the least that can.       *)
(*                                                                         *)
(* The classes are one line of descent, 1 the root and k - 1 the parent of *)
(* class k; they are seen through one method, which some of them define.   *)
(***************************************************************************)
EXTENDS Naturals, Sequences, SequencesExt

CONSTANTS
  Main,              \* the thread, and the evaluator, of the top level
  Clones,            \* the other threads, and their evaluators
  Depth,             \* the number of classes
  Defining,          \* the classes that define the method
  MaxCalls,          \* bound: the nesting of calls in a thread
  MaxDefers,         \* bound: the deferred calls of a list
  BuiltinsInClones   \* clones call built-ins that call or raise

Threads == {Main} \cup Clones
Classes == 1 .. Depth

ASSUME MainAssumption == Main \notin Clones
ASSUME BuiltinsAssumption == BuiltinsInClones \in BOOLEAN
ASSUME ClassesAssumption == Depth \in Nat /\ Defining \subseteq Classes
ASSUME BoundsAssumption == MaxCalls \in Nat /\ MaxDefers \in Nat \ {0}

VARIABLES
  started,     \* the threads that run
  deferStack,  \* Eval.deferStack, per evaluator
  frames,      \* Eval.frames, per evaluator: the classes of the frames
  calls        \* the active calls of each thread, innermost last

vars == <<started, deferStack, frames, calls>>

\* A defer list: how many calls it holds, and (history) who pushed it.
Lists == [by : Threads, n : 0 .. MaxDefers]

\* The calls that push a frame for the time of the call.
Framed == {"method", "super"}

\* An active call: the evaluator it runs on, and (history) how many calls
\* its body has deferred, how it was made, the class that defines the method
\* and the length of the frame stack while the body runs.
Calls == [on : Threads, own : 0 .. MaxDefers, via : Framed \cup {"function", "generator"},
          class : 0 .. Depth, height : Nat]

Init ==
  /\ started = {Main}
  /\ deferStack = [ev \in Threads |-> <<>>]
  /\ frames = [ev \in Threads |-> <<>>]
  /\ calls = [t \in Threads |-> <<>>]

\* Mutant: a new thread goes on with the main evaluator.
shareEval(t) == Main

\* The evaluator that newGoroutineEval or newGeneratorEval makes for t.
cloneEval(t) == t

\* The evaluator that evaluates the statements t is in.
Current(t) == IF calls[t] = <<>> THEN cloneEval(t) ELSE Last(calls[t]).on

\* The class, k or above it, whose method an object of class k has, if any.
Offers(k) == {j \in Defining : j <= k}
lookupMethod(k) == CHOOSE j \in Offers(k) : \A i \in Offers(k) : i <= j

-----------------------------------------------------------------------------
\* pushDefers, then the body, which will return to the top of the frames.
Enter(t, ev, via, class) ==
  /\ Len(calls[t]) < MaxCalls
  /\ deferStack' = [deferStack EXCEPT ![ev] = Append(@, [by |-> t, n |-> 0])]
  /\ calls' = [calls EXCEPT ![t] = Append(@,
       [on |-> ev, own |-> 0, via |-> via, class |-> class, height |-> Len(frames'[ev])])]

\* A go statement.
Start(t, c) ==
  /\ t \in started /\ c \notin started
  /\ started' = started \cup {c}
  /\ UNCHANGED <<deferStack, frames, calls>>

\* The first pull of a generator, of a function or of a method: its body
\* runs on its own evaluator, without a frame.
run(t, c) ==
  /\ t \in started /\ c \notin started
  /\ started' = started \cup {c}
  /\ UNCHANGED frames
  /\ Enter(c, cloneEval(c), "generator", 0)

\* A call on evaluator ev, of a function, or of a method taken from an object
\* or a class as a value.
callFunction(t, ev) ==
  /\ t \in started
  /\ UNCHANGED <<started, frames>>
  /\ Enter(t, ev, "function", 0)

\* Mutant: the frame has the class of the object.
FrameOfObject(k) == k

\* The class of the frame of a method found from class k: the defining one.
FrameClass(k) == lookupMethod(k)

\* A call, on evaluator ev, of the method as an object of class k has it, or
\* an instantiation of k, whose constructor is found in the same way.
callMethod(t, ev, via, k) ==
  /\ t \in started /\ UNCHANGED started
  /\ Offers(k) /= {}
  /\ frames' = [frames EXCEPT ![ev] = Append(@, FrameClass(k))]
  /\ Enter(t, ev, via, lookupMethod(k))

\* What a program calls runs on the evaluator it is on ...
Call(t) == callFunction(t, Current(t))

evalMethodCall(t, k) == callMethod(t, Current(t), "method", k)

\* ... what a built-in calls, or raises, on the main one.
CallFromBuiltin(t) ==
  /\ t \in Clones => BuiltinsInClones
  /\ \/ callFunction(t, Main)
     \/ \E k \in Classes : callMethod(t, Main, "method", k)

\* super of an object of class k: relative to the innermost frame, or to the
\* class of the object when there is no frame (only as an attribute: the bare
\* word is refused then).
superMarker(ev, k) == (IF frames[ev] = <<>> THEN k ELSE Last(frames[ev])) - 1

\* A method call on super.  The bare word passes on the arguments it is given:
\* when the first is no object, there is no self and the call gets no frame.
CallSuper(t, k) ==
  LET ev == Current(t)
      parent == superMarker(ev, k)
  IN  /\ parent > 0
      /\ \/ callMethod(t, ev, "super", parent)
         \/ frames[ev] /= <<>> /\ Offers(parent) /= {} /\ callFunction(t, ev)

\* addDefers: onto the last list of the evaluator, which may be a new one.
Defer(t) ==
  LET ev == Current(t)
      lists == deferStack[ev]
  IN  /\ t \in started
      /\ IF lists = <<>>
           THEN deferStack' = [deferStack EXCEPT ![ev] = <<[by |-> t, n |-> 1]>>]
           ELSE /\ Last(lists).n < MaxDefers
                /\ deferStack' = [deferStack EXCEPT ![ev][Len(lists)].n = @ + 1]
      /\ IF calls[t] = <<>>
           THEN UNCHANGED calls
           ELSE /\ Last(calls[t]).own < MaxDefers
                /\ calls' = [calls EXCEPT ![t][Len(calls[t])].own = @ + 1]
      /\ UNCHANGED <<started, frames>>

\* The defer stack without its last list.
popDefers(lists) == IF lists = <<>> THEN lists ELSE Front(lists)

\* The body is over, in whatever way: popDefers takes the last list of the
\* evaluator, and popFrame the last frame if the call pushed one.
Return(t) ==
  LET ev == Current(t) IN
  /\ calls[t] /= <<>>
  /\ deferStack' = [deferStack EXCEPT ![ev] = popDefers(@)]
  /\ frames' = IF Last(calls[t]).via \in Framed
                 THEN [frames EXCEPT ![ev] = Front(@)] ELSE frames
  /\ calls' = [calls EXCEPT ![t] = Front(@)]
  /\ UNCHANGED started

Next ==
  \E t \in Threads :
    \/ \E c \in Clones : Start(t, c) \/ run(t, c)
    \/ \E k \in Classes : evalMethodCall(t, k) \/ CallSuper(t, k)
    \/ Call(t) \/ CallFromBuiltin(t)
    \/ Defer(t)
    \/ Return(t)

Spec == Init /\ [][Next]_vars

-----------------------------------------------------------------------------
(* Properties.                                                             *)

\* The shape of the state.
TypeOK ==
  /\ started \subseteq Threads
  /\ deferStack \in [Threads -> Seq(Lists)]
  /\ frames \in [Threads -> Seq(Classes)]
  /\ calls \in [Threads -> Seq(Calls)]

\* The comment on newGoroutineEval: a goroutine never races with its caller
\* on defer stacks.  The last list of the evaluator on which a call runs is
\* the one this call pushed: popDefers then runs what this body deferred,
\* and nothing that another thread is still going to need.
TopIsOwn ==
  \A t \in Threads : calls[t] /= <<>> =>
    LET lists == deferStack[Current(t)]
    IN  lists /= <<>> /\ Last(lists) = [by |-> t, n |-> Last(calls[t]).own]

\* The comment on Frame: a method's super goes up from where the method was
\* defined, not from the class of the object, whatever other methods were
\* called and have returned before.  So a method that is called on super
\* directly from a method is one defined further up, and super ends.
SuperAscends ==
  \A t \in Threads : \A i \in 2 .. Len(calls[t]) :
    calls[t][i].via = "super" /\ calls[t][i - 1].via \in Framed
      => calls[t][i].class < calls[t][i - 1].class
=============================================================================

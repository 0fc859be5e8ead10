---------------------------- MODULE Generators -----------------------------
(***************************************************************************)
(* Kolang generators (internal/eval/eval_generators.go, and the loop over  *)
(* a generator in eval_control.go).                                        *)
(*                                                                         *)
(* A generator runs its body on a goroutine of its own and meets whoever   *)
(* pulls it twice per value: on ch, which carries the value, and on        *)
(* resume, which lets the body go on.  close() shuts done, and a body that *)
(* is at, or gets to, a yield then returns.                                *)
(*                                                                         *)
(* The generators form a chain: generator 1 is looped over by Consumers,   *)
(* and the body of generator i may delegate (yield from) to generator      *)
(* i + 1, whose consumer is then the goroutine of i.  What a body or a     *)
(* loop does between these steps is a choice of its program.               *)
(***************************************************************************)
EXTENDS Naturals, Sequences, FiniteSets

CONSTANTS
  Consumers,    \* goroutines that loop over generator 1
  Depth,        \* the length of the chain
  MaxYields,    \* bound: the values the bodies yield in all
  MaxLoops,     \* bound: the loops a consumer begins
  MayReiterate  \* a program may loop again over a generator it has left early

Gens == 1 .. Depth
Threads == Consumers \cup Gens

ASSUME DepthAssumption == Depth \in Nat \ {0}
ASSUME ConsumersAssumption == Consumers \cap Gens = {}
ASSUME BoundsAssumption == MaxYields \in Nat /\ MaxLoops \in Nat
ASSUME ReiterateAssumption == MayReiterate \in BOOLEAN

VARIABLES
  started,     \* Generator.started
  finished,    \* Generator.finished
  err,         \* Generator.err is set
  chClosed,    \* run has ended and closed Generator.ch
  done,        \* Generator.done has been closed
  pc,          \* the step each goroutine is about to take
  item,        \* the value the goroutine of a generator is yielding
  delegating,  \* the body of the generator is inside a yield from
  made,        \* how many values each body has yielded itself
  loops,       \* how many loops each consumer has begun
  runs,        \* history: how often run was started, per generator
  trace,       \* history: the values in the order the bodies computed them
  received,    \* history: the values the consumers received, in order
  handled,     \* history: a body has caught the error of a yield from
  told         \* history: how each consumer's last loop ended

gvars   == <<started, finished, err, chClosed, done>>
bodies  == <<item, delegating, made>>
history == <<runs, trace, received, handled, told>>
vars    == <<gvars, pc, bodies, loops, history>>

\* A value is named by the generator whose body computed it and its number.
Items == Gens \X Nat
NoItem == <<0, 0>>

ConsumerPCs == {"idle", "recv", "ack", "loop"}
RunnerPCs == {"new", "body", "offer", "await", "recv", "ack", "exit", "fail",
              "drop", "raised", "finish", "ended"}

-----------------------------------------------------------------------------
(* Helpers.                                                                *)

\* The generator that thread t pulls.
Target(t) == IF t \in Gens THEN t + 1 ELSE 1

Goto(t, to) == pc' = [pc EXCEPT ![t] = to]

\* Generator.close, under genMu: idempotent.  Mutant: does nothing.
keepOpen(i) == UNCHANGED done
close(i) == done' = [done EXCEPT ![i] = TRUE]

\* Mutant: a yield from forgets the error of the generator it delegates to.
EndOfInnerIgnored(t, i) ==
  /\ IF t \in Gens
       THEN Goto(t, "exit") /\ UNCHANGED told
       ELSE /\ Goto(t, "idle")
            /\ told' = [told EXCEPT ![t] = IF err[i] THEN "error" ELSE "exhausted"]

\* next found generator i at its end.  A consumer's loop ends with the error
\* of i, if it has one, and so does a yield from.
EndOf(t, i) ==
  IF t \in Gens
    THEN /\ Goto(t, IF err[i] THEN "fail" ELSE "exit")
         /\ UNCHANGED told
    ELSE /\ Goto(t, "idle")
         /\ told' = [told EXCEPT ![t] = IF err[i] THEN "error" ELSE "exhausted"]

Init ==
  /\ started = [i \in Gens |-> FALSE]
  /\ finished = [i \in Gens |-> FALSE]
  /\ err = [i \in Gens |-> FALSE]
  /\ chClosed = [i \in Gens |-> FALSE]
  /\ done = [i \in Gens |-> FALSE]
  /\ pc = [t \in Threads |-> IF t \in Gens THEN "new" ELSE "idle"]
  /\ item = [i \in Gens |-> NoItem]
  /\ delegating = [i \in Gens |-> FALSE]
  /\ made = [i \in Gens |-> 0]
  /\ loops = [c \in Consumers |-> 0]
  /\ runs = [i \in Gens |-> 0]
  /\ trace = <<>>
  /\ received = <<>>
  /\ handled = [i \in Gens |-> FALSE]
  /\ told = [c \in Consumers |-> "none"]

-----------------------------------------------------------------------------
(* next: pull generator i = Target(t).                                     *)

\* Nobody has started generator i.  Mutant: does not look.
EveryPull(i) == TRUE
FirstPull(i) == ~started[i]

\* The critical section that begins next: at the end already, or start the
\* goroutine if nobody has, and wait on ch.
NextBegin(t) ==
  LET i == Target(t) IN
  IF finished[i]
    THEN EndOf(t, i) /\ UNCHANGED <<gvars, runs>>
    ELSE /\ started' = [started EXCEPT ![i] = TRUE]
         /\ runs' = [runs EXCEPT ![i] = IF FirstPull(i) THEN @ + 1 ELSE @]
         /\ pc' = [pc EXCEPT ![t] = "recv", ![i] = IF FirstPull(i) THEN "body" ELSE @]
         /\ UNCHANGED <<finished, err, chClosed, done, told>>

\* Mutant: a yield from passes on the value it had before.
HandoverStale(t, i) ==
  /\ i = Target(t)
  /\ pc[t] = "recv" /\ pc[i] = "offer"
  /\ pc' = [pc EXCEPT ![t] = "ack", ![i] = "await"]
  /\ received' = IF t \in Gens THEN received ELSE Append(received, item[i])
  /\ UNCHANGED <<gvars, bodies, loops, runs, trace, handled, told>>

\* The consumer and the yield of i meet on ch.
Handover(t, i) ==
  /\ i = Target(t)
  /\ pc[t] = "recv"
  /\ pc[i] = "offer"
  /\ pc' = [pc EXCEPT ![t] = "ack", ![i] = "await"]
  /\ IF t \in Gens
       THEN item' = [item EXCEPT ![t] = item[i]] /\ UNCHANGED received
       ELSE received' = Append(received, item[i]) /\ UNCHANGED item
  /\ UNCHANGED <<gvars, delegating, made, loops, runs, trace, handled, told>>

\* They meet again on resume: next returns the value, to the body of a loop
\* or to a yield from, which yields it in turn, and the body of i goes on,
\* with the next value of its own yield from if it is in one.
Resume(t, i) ==
  /\ i = Target(t)
  /\ pc[t] = "ack"
  /\ pc[i] = "await"
  /\ pc' = [pc EXCEPT ![t] = IF t \in Gens THEN "offer" ELSE "loop", ![i] = "body"]
  /\ UNCHANGED <<gvars, bodies, loops, history>>

\* ch is closed: the generator has ended.
NextEnd(t) ==
  LET i == Target(t) IN
  /\ pc[t] = "recv"
  /\ i \in Gens
  /\ chClosed[i]
  /\ finished' = [finished EXCEPT ![i] = TRUE]
  /\ EndOf(t, i)
  /\ UNCHANGED <<started, err, chClosed, done, bodies, loops>>
  /\ UNCHANGED <<runs, trace, received, handled>>

-----------------------------------------------------------------------------
(* The body of generator i.                                                *)

\* Mutant: ch is buffered, a yield does not wait to be pulled.
YieldAhead(i) ==
  /\ pc[i] \in {"body", "offer"} /\ ~delegating[i]
  /\ Len(trace) < MaxYields
  /\ made' = [made EXCEPT ![i] = @ + 1]
  /\ item' = [item EXCEPT ![i] = <<i, made[i] + 1>>]
  /\ trace' = Append(trace, <<i, made[i] + 1>>)
  /\ Goto(i, "offer")
  /\ UNCHANGED <<gvars, delegating, loops, runs, received, handled, told>>

\* A yield computes its value and offers it (yieldValue, first select).
Yield(i) ==
  /\ pc[i] = "body" /\ ~delegating[i]
  /\ Len(trace) < MaxYields
  /\ made' = [made EXCEPT ![i] = @ + 1]
  /\ item' = [item EXCEPT ![i] = <<i, made[i] + 1>>]
  /\ trace' = Append(trace, <<i, made[i] + 1>>)
  /\ Goto(i, "offer")
  /\ UNCHANGED <<gvars, delegating, loops, runs, received, handled, told>>

\* A yield from: its operand is a new generator.
YieldFrom(i) ==
  /\ pc[i] = "body" /\ ~delegating[i]
  /\ i + 1 \in Gens
  /\ ~started[i + 1]
  /\ delegating' = [delegating EXCEPT ![i] = TRUE]
  /\ NextBegin(i)
  /\ UNCHANGED <<item, made, loops, trace, received, handled>>

\* The loop of a yield from pulls again.
YieldFromNext(i) ==
  /\ pc[i] = "body" /\ delegating[i]
  /\ NextBegin(i)
  /\ UNCHANGED <<bodies, loops, trace, received, handled>>

\* Mutant: only the second select of yieldValue looks at done.
AbandonAwaitOnly(i) ==
  /\ pc[i] = "await"
  /\ done[i]
  /\ Goto(i, IF delegating[i] THEN "drop" ELSE "body")
  /\ UNCHANGED <<gvars, bodies, loops, history>>

\* case <-done of either select of yieldValue: the yield comes back with a
\* return signal (through the yield from it is in, if any).  The signal is in
\* the body: mostly it ends it, but on its way out a cleanup may yield again,
\* or replace it and go on.
Abandon(i) ==
  /\ pc[i] \in {"offer", "await"}
  /\ done[i]
  /\ Goto(i, IF delegating[i] THEN "drop" ELSE "body")
  /\ UNCHANGED <<gvars, bodies, loops, history>>

\* However a yield from is left, it closes its generator.  The body gets the
\* end of the inner generator ("exit"), its error ("fail") or the return
\* signal of an abandoned yield ("drop").
YieldFromExit(i) ==
  /\ pc[i] \in {"exit", "fail", "drop"}
  /\ close(i + 1)
  /\ delegating' = [delegating EXCEPT ![i] = FALSE]
  /\ Goto(i, IF pc[i] = "fail" THEN "raised" ELSE "body")
  /\ UNCHANGED <<started, finished, err, chClosed, item, made, loops, history>>

\* A try around the yield from catches the error, or runs a cleanup that may
\* yield before it passes the error on: the body goes on.
Catch(i) ==
  /\ pc[i] = "raised"
  /\ Goto(i, "body")
  /\ handled' = [handled EXCEPT ![i] = TRUE]
  /\ UNCHANGED <<gvars, bodies, loops, runs, trace, received, told>>

\* The body returns (or falls off its end) ...
Return(i) ==
  /\ pc[i] = "body" /\ ~delegating[i]
  /\ Goto(i, "finish")
  /\ UNCHANGED <<gvars, bodies, loops, history>>

\* ... or ends with an error: that of a yield from or one of its own, as
\* binding the parameters and deferred calls may raise too.
Raise(i) ==
  /\ pc[i] \in {"body", "raised"} /\ ~delegating[i]
  /\ Goto(i, "finish")
  /\ err' = [err EXCEPT ![i] = TRUE]
  /\ UNCHANGED <<started, finished, chClosed, done, bodies, loops, history>>

\* Mutant: ch is left open, as after a panic without the deferred close.
RunEndOpen(i) ==
  /\ pc[i] = "finish"
  /\ Goto(i, "ended")
  /\ UNCHANGED <<gvars, bodies, loops, history>>

\* run ends: ch is closed.
RunEnd(i) ==
  /\ pc[i] = "finish"
  /\ chClosed' = [chClosed EXCEPT ![i] = TRUE]
  /\ Goto(i, "ended")
  /\ UNCHANGED <<started, finished, err, done, bodies, loops, history>>

-----------------------------------------------------------------------------
(* A loop over generator 1 (evalGeneratorForIn).                           *)

\* A loop begins; so does any other use that pulls every value.
LoopBegin(c) ==
  /\ pc[c] = "idle"
  /\ loops[c] < MaxLoops
  /\ MayReiterate \/ ~done[1]
  /\ loops' = [loops EXCEPT ![c] = @ + 1]
  /\ NextBegin(c)
  /\ UNCHANGED <<bodies, trace, received, handled>>

\* The body of the loop ends or continues: pull again.
LoopNext(c) ==
  /\ pc[c] = "loop"
  /\ NextBegin(c)
  /\ UNCHANGED <<bodies, loops, trace, received, handled>>

\* The body breaks, returns or raises: the generator is closed.
LoopLeave(c) ==
  /\ pc[c] = "loop"
  /\ close(1)
  /\ Goto(c, "idle")
  /\ UNCHANGED <<started, finished, err, chClosed, bodies, loops, history>>

-----------------------------------------------------------------------------
(* What the goroutine of generator i does, alone or with its consumer.     *)
Runner(i) ==
  \/ \E t \in Threads : Handover(t, i) \/ Resume(t, i)
  \/ NextEnd(i)
  \/ Yield(i) \/ YieldFrom(i) \/ YieldFromNext(i)
  \/ Abandon(i) \/ YieldFromExit(i) \/ Catch(i)
  \/ Return(i) \/ Raise(i) \/ RunEnd(i)

Consumer(c) == LoopBegin(c) \/ LoopNext(c) \/ LoopLeave(c) \/ NextEnd(c)

Next ==
  \/ \E c \in Consumers : Consumer(c)
  \/ \E i \in Gens : Runner(i)

Spec == Init /\ [][Next]_vars

\* A runnable goroutine runs; a body gets to its next yield or to its end
\* (MaxYields bounds it).  Nothing makes a program begin or leave a loop.
FairSpec ==
  /\ Spec
  /\ \A i \in Gens : WF_vars(Runner(i))
  /\ \A c \in Consumers : WF_vars(NextEnd(c))

-----------------------------------------------------------------------------
(* Properties.                                                             *)

\* The shape of the state.
TypeOK ==
  /\ started \in [Gens -> BOOLEAN]
  /\ finished \in [Gens -> BOOLEAN]
  /\ err \in [Gens -> BOOLEAN]
  /\ chClosed \in [Gens -> BOOLEAN]
  /\ done \in [Gens -> BOOLEAN]
  /\ pc \in [Threads -> ConsumerPCs \cup RunnerPCs]
  /\ \A i \in Gens : pc[i] \in RunnerPCs
  /\ \A c \in Consumers : pc[c] \in ConsumerPCs
  /\ item \in [Gens -> Items \cup {NoItem}]
  /\ delegating \in [Gens -> BOOLEAN]
  /\ made \in [Gens -> Nat]
  /\ loops \in [Consumers -> 0 .. MaxLoops]
  /\ runs \in [Gens -> Nat]
  /\ trace \in Seq(Items)
  /\ received \in Seq(Items)
  /\ handled \in [Gens -> BOOLEAN]
  /\ told \in [Consumers -> {"none", "exhausted", "error"}]

\* The goroutine of a generator is started once, however many consumers
\* call next together (the flags are read and set in one critical section).
SingleRun == \A i \in Gens : runs[i] <= 1

\* The bodies computed value x before value y.
Before(x, y) ==
  \E a, b \in DOMAIN trace : a < b /\ trace[a] = x /\ trace[b] = y

\* The consumers receive the values in the order the bodies computed them,
\* through every yield from of the chain, and none twice; and none is lost
\* until generator 1 is closed.  (A body may go on yielding after that, to
\* whoever still pulls, and a value it was about to hand over is dropped.)
InOrder ==
  /\ \A m, n \in DOMAIN received : m < n => Before(received[m], received[n])
  /\ ~done[1] => /\ Len(received) <= Len(trace)
                 /\ received = SubSeq(trace, 1, Len(received))

\* Generators are lazy: whatever the chain, the bodies have computed at most
\* one value per generator that was not received yet (while nobody has left
\* the loop over generator 1: what is yielded after that may be dropped).
Lazy == ~done[1] => Len(trace) <= Len(received) + Depth

\* An error is not lost on its way out.  When a generator has ended with an
\* error, the one that delegates to it does not end well: its body has
\* caught the error or ends with one, unless it was closed before it asked
\* for the value that failed.  A consumer's loop ends with it.
ErrorSurfaces ==
  /\ \A i \in Gens :
       i + 1 \in Gens /\ err[i + 1] /\ chClosed[i]
         => err[i] \/ handled[i] \/ (done[i] /\ ~finished[i + 1])
  /\ \A c \in Consumers : told[c] = "exhausted" => ~err[1]

\* A yield from never leaves its generator running: once a generator has
\* ended, each generator it delegated to has been closed.
InnerReleased ==
  \A i \in Gens : i + 1 \in Gens /\ chClosed[i] /\ started[i + 1] => done[i + 1]

\* No step of a body happens after its run has ended, and a generator that
\* ended is never started again.
EndIsFinal ==
  [][\A i \in Gens : chClosed[i] => pc'[i] = pc[i] /\ made'[i] = made[i] /\ chClosed'[i]]_vars

\* The goroutine of generator i can take a step, alone or with the one that
\* pulls it.
Runnable(i) ==
  \/ pc[i] \in {"body", "exit", "fail", "drop", "raised", "finish"}
  \/ pc[i] \in {"offer", "await"} /\ done[i]
  \/ pc[i] = "offer" /\ \E t \in Threads : Target(t) = i /\ pc[t] = "recv"
  \/ pc[i] = "await" /\ \E t \in Threads : Target(t) = i /\ pc[t] = "ack"
  \/ pc[i] = "recv" /\ i + 1 \in Gens /\ chClosed[i + 1]

\* The goroutines of a chain never wait for each other in vain.  While a
\* consumer is in next of a generator that has not ended (or, once it has its
\* value, has not been closed), or after generator 1 was closed until the
\* whole chain is unwound, some goroutine of the chain can go on.
NobodyStuck ==
  \/ \E c \in Consumers : pc[c] = "recv" /\ ~chClosed[1]
  \/ \E c \in Consumers : pc[c] = "ack" /\ ~done[1]
  \/ done[1] /\ \E i \in Gens : pc[i] \notin {"new", "ended"}
  => \E i \in Gens : Runnable(i)

\* next comes back, with a value, with the end or with an error, unless the
\* generator is closed meanwhile: who shares a generator is not starved.
NextReturns ==
  \A c \in Consumers :
    pc[c] \in {"recv", "ack"} ~> pc[c] \in {"idle", "loop"} \/ done[1]

\* The comment on next: it comes back with a value or the end.  It does not
\* always: a consumer may take the value of a yield that is then abandoned,
\* and wait on resume for ever.
NextAlwaysReturns ==
  \A c \in Consumers : pc[c] \in {"recv", "ack"} ~> pc[c] \in {"idle", "loop"}

\* Closing a generator ends its goroutine and, through the yields from it is
\* in, those of the whole chain, whatever their cleanups still yield: none
\* leaks.  (A body that yields for ever on its way out does not end.)  The
\* comment on the type Generator says the opposite of a loop that is left,
\* "the paused goroutine is left blocked until the program exits"; the one on
\* yieldValue says this, and it is what the code does.
CloseUnwinds ==
  done[1] ~> \A i \in Gens : pc[i] \in {"new", "ended"}
=============================================================================

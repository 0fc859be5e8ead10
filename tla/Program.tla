------------------------------ MODULE Program ------------------------------
(***************************************************************************)
(* How a program ends (EvalProgram, evalGoStmt, the life of a generator's  *)
(* goroutine).  The interpreter exits when the top level is over and the   *)
(* WaitGroup e.wg, which every evaluator shares, is down to zero.          *)
(*                                                                         *)
(* Goroutines of go statements are counted in the WaitGroup; the goroutine that runs *)
(* the body of a generator is not.  It runs while somebody pulls it, runs  *)
(* on to its next yield after it handed a value over, and unwinds (finally *)
(* blocks, deferred calls) after it was closed, all beside its consumer.   *)
(* Any thread may pull a generator and any thread may close it, at any     *)
(* time: during the next of another thread, and before a later one.        *)
(***************************************************************************)
EXTENDS Integers, FiniteSets

CONSTANTS
  Main,            \* the thread that runs the top level
  Goroutines,      \* the go statements a program may execute
  Generators,      \* the generators a program may make
  GeneratorsSpawn  \* bodies of generators may contain go statements

Threads == {Main} \cup Goroutines \cup Generators

ASSUME ThreadsAssumption ==
  /\ Main \notin Goroutines \cup Generators
  /\ Goroutines \cap Generators = {}
ASSUME FiniteAssumption == IsFiniteSet(Goroutines)
ASSUME SpawnAssumption == GeneratorsSpawn \in BOOLEAN

VARIABLES
  life,     \* the state of each thread
  wg,       \* the counter of the WaitGroup
  pullers,  \* the threads that wait in next of each generator for a value
  takers,   \* the threads that have one, and wait there for the yield to go on
  closing   \* the generators that have been closed

vars == <<life, wg, pullers, takers, closing>>

\* "none": not made yet.  "running": evaluating.  "pulling": inside next.
\* "parked": a generator at a yield nobody pulls.  "awaiting": one that has
\* handed its value over and waits to be resumed.  "waiting": Main in
\* wg.Wait.  "returned": Main after it.  "ended": the goroutine is
\* over, or (Main) the process.
Lives == {"none", "running", "pulling", "parked", "awaiting",
          "waiting", "returned", "ended"}

Exited == life[Main] = "ended"

\* t evaluates statements now; everything stops when the process exits.
Runs(t) == ~Exited /\ life[t] = "running"

Init ==
  /\ life = [t \in Threads |-> IF t = Main THEN "running" ELSE "none"]
  /\ wg = 0
  /\ pullers = [n \in Generators |-> {}]
  /\ takers = [n \in Generators |-> {}]
  /\ closing = {}

-----------------------------------------------------------------------------
(* Goroutines.                                                             *)

\* Mutant: no wg.Add.
goWithoutAdd(t, g) ==
  /\ Runs(t)
  /\ t \in Generators => GeneratorsSpawn
  /\ life[g] = "none"
  /\ life' = [life EXCEPT ![g] = "running"]
  /\ UNCHANGED <<wg, pullers, takers, closing>>

\* The go statement: wg.Add(1), in the spawning thread, and then go.
evalGoStmt(t, g) ==
  /\ Runs(t)
  /\ t \in Generators => GeneratorsSpawn
  /\ life[g] = "none"
  /\ wg' = wg + 1
  /\ life' = [life EXCEPT ![g] = "running"]
  /\ UNCHANGED <<pullers, takers, closing>>

\* Mutants: wg.Done before the end, and no wg.Done.
GoDoneEarly(g) ==
  /\ Runs(g)
  /\ wg > 0
  /\ wg' = wg - 1
  /\ UNCHANGED <<life, pullers, takers, closing>>

GoEndUndone(g) ==
  /\ Runs(g)
  /\ life' = [life EXCEPT ![g] = "ended"]
  /\ UNCHANGED <<wg, pullers, takers, closing>>

\* The expression is evaluated, or raised, or panicked: wg.Done().
GoEnd(g) ==
  /\ Runs(g)
  /\ wg' = wg - 1
  /\ life' = [life EXCEPT ![g] = "ended"]
  /\ UNCHANGED <<pullers, takers, closing>>

-----------------------------------------------------------------------------
(* Generators, pulled and closed by any number of consumers.               *)

\* t calls next of n, which starts its goroutine or lets it offer a value.
\* What n does meanwhile - it may be inside a next of its own, or closed - is
\* no concern of t, which waits; t may be n itself.  (The next of a generator
\* that has ended returns at once.)
Pull(t, n) ==
  /\ Runs(t)
  /\ life[n] \in {"none", "running", "pulling", "parked", "awaiting"}
  /\ pullers' = [pullers EXCEPT ![n] = @ \cup {t}]
  /\ life' = [life EXCEPT ![n] = IF @ \in {"none", "parked"} THEN "running" ELSE @,
                          ![t] = "pulling"]
  /\ UNCHANGED <<wg, takers, closing>>

\* A yield meets the next of t, closed or not: t has its value.
Take(n, t) ==
  /\ Runs(n)
  /\ t \in pullers[n]
  /\ pullers' = [pullers EXCEPT ![n] = @ \ {t}]
  /\ takers' = [takers EXCEPT ![n] = @ \cup {t}]
  /\ life' = [life EXCEPT ![n] = "awaiting"]
  /\ UNCHANGED <<wg, closing>>

\* t resumes the yield, not always the one that served it: its next returns, and n
\* runs on beside it.
Resume(n, t) ==
  /\ ~Exited
  /\ life[n] = "awaiting"
  /\ t \in takers[n]
  /\ takers' = [takers EXCEPT ![n] = @ \ {t}]
  /\ life' = [life EXCEPT ![n] = "running", ![t] = "running"]
  /\ UNCHANGED <<wg, pullers, closing>>

\* The yield of a closed generator returns through done instead; whoever is
\* to resume it keeps waiting.
Abandon(n) ==
  /\ ~Exited
  /\ life[n] = "awaiting"
  /\ n \in closing
  /\ life' = [life EXCEPT ![n] = "running"]
  /\ UNCHANGED <<wg, pullers, takers, closing>>

\* n gets to a yield and nobody pulls it.
Park(n) ==
  /\ Runs(n)
  /\ pullers[n] = {}
  /\ n \notin closing
  /\ life' = [life EXCEPT ![n] = "parked"]
  /\ UNCHANGED <<wg, pullers, takers, closing>>

\* t leaves its loop over n: n unwinds from the yield it is parked at, or
\* from any later one.
CloseGenerator(t, n) ==
  /\ Runs(t)
  /\ t /= n
  /\ life[n] /= "none"
  /\ closing' = closing \cup {n}
  /\ life' = [life EXCEPT ![n] = IF @ = "parked" THEN "running" ELSE @]
  /\ UNCHANGED <<wg, pullers, takers>>

\* Mutant: the end is not reported to who is pulling.
GeneratorEndUntold(n) ==
  /\ Runs(n)
  /\ life' = [life EXCEPT ![n] = "ended"]
  /\ pullers' = [pullers EXCEPT ![n] = {}]
  /\ UNCHANGED <<wg, takers, closing>>

\* The body of n is over, its cleanups included; next reports the end to all
\* that wait for a value of n, and to nobody that waits to resume it.
GeneratorEnd(n) ==
  /\ Runs(n)
  /\ life' = [t \in Threads |->
                IF t = n THEN "ended"
                ELSE IF t \in pullers[n] THEN "running"
                ELSE life[t]]
  /\ pullers' = [pullers EXCEPT ![n] = {}]
  /\ UNCHANGED <<wg, takers, closing>>

-----------------------------------------------------------------------------
(* EvalProgram.                                                            *)

\* The top level is over, normally or not: wg.Wait() ...
Wait ==
  /\ Runs(Main)
  /\ life' = [life EXCEPT ![Main] = "waiting"]
  /\ UNCHANGED <<wg, pullers, takers, closing>>

\* Mutant: no join.
NoWait ==
  /\ life[Main] = "waiting"
  /\ life' = [life EXCEPT ![Main] = "returned"]
  /\ UNCHANGED <<wg, pullers, takers, closing>>

\* ... which returns when the counter is zero ...
WaitReturns ==
  /\ life[Main] = "waiting"
  /\ wg = 0
  /\ life' = [life EXCEPT ![Main] = "returned"]
  /\ UNCHANGED <<wg, pullers, takers, closing>>

\* ... then an uncaught raise is reported, and the process exits.
Exit ==
  /\ life[Main] = "returned"
  /\ life' = [life EXCEPT ![Main] = "ended"]
  /\ UNCHANGED <<wg, pullers, takers, closing>>

-----------------------------------------------------------------------------
Next ==
  \/ \E t \in Threads, g \in Goroutines : evalGoStmt(t, g)
  \/ \E g \in Goroutines : GoEnd(g)
  \/ \E t \in Threads, n \in Generators :
       Pull(t, n) \/ Take(n, t) \/ Resume(n, t) \/ CloseGenerator(t, n)
  \/ \E n \in Generators : Abandon(n) \/ Park(n) \/ GeneratorEnd(n)
  \/ Wait \/ WaitReturns \/ Exit

Spec == Init /\ [][Next]_vars

\* t gets what it waits for: a value, its way out of next, or the end.
Served(t) ==
  \E n \in Generators :
    Take(n, t) \/ Resume(n, t) \/ (t \in pullers[n] /\ GeneratorEnd(n))

\* Every body comes to an end in the end; a generator that is pulled gets to
\* its next yield or its end, and Go serves those that wait in turn.
FairSpec ==
  /\ Spec
  /\ \A g \in Goroutines : SF_vars(GoEnd(g))
  /\ \A t \in Threads : SF_vars(Served(t))
  /\ WF_vars(WaitReturns \/ Exit)

-----------------------------------------------------------------------------
(* Properties.                                                             *)

\* The shape of the state; exactly the threads that wait in the next of some
\* generator are pulling.
TypeOK ==
  /\ life \in [Threads -> Lives]
  /\ wg \in Int
  /\ pullers \in [Generators -> SUBSET Threads]
  /\ takers \in [Generators -> SUBSET Threads]
  /\ closing \subseteq Generators
  /\ \A t \in Threads :
       life[t] = "pulling" <=> \E n \in Generators : t \in pullers[n] \cup takers[n]

\* The goroutines of go statements that are not over.
Alive == {g \in Goroutines : life[g] \notin {"none", "ended"}}

\* The WaitGroup counts exactly the goroutines that are not over, whoever
\* spawned them, so it never drops below zero (a panic in Go).
Counted == wg = Cardinality(Alive)

\* The program exits only after every goroutine of a go statement is over, those that
\* goroutines spawned included (the comment on Eval.wg).
Joined == Exited => Alive = {}

\* wg.Add while the top level waits happens only with a positive counter, as
\* sync.WaitGroup demands: a goroutine's own count covers those it spawns.
AddCovered ==
  [][wg' > wg /\ life[Main] \in {"waiting", "returned"} => wg > 0]_vars

\* t has a value of a closed generator, and the yield it is to resume has been
\* left through done.
Stranded(t) ==
  \E n \in closing : t \in takers[n] /\ life[n] /= "awaiting"

\* A goroutine or the top level waits in next, directly or through the
\* generators it pulls, for generators in a circle or for a stranded one.
Hung ==
  \E S \in SUBSET Threads :
    /\ S \cap ({Main} \cup Goroutines) /= {}
    /\ \A t \in S : Stranded(t) \/ \E n \in S \cap Generators : t \in pullers[n]

\* Until the process exits somebody evaluates, a yield is being resumed, or
\* the top level can go on, unless a thread hangs in next in one of two ways:
\* its generators pull each other in a circle, or one of them was closed
\* between a value and its resumption.  However goroutines and generators
\* share generators nothing else hangs, and wg.Wait never waits for nobody.
SomebodyRuns ==
  \/ Exited \/ life[Main] = "returned" \/ (life[Main] = "waiting" /\ wg = 0)
  \/ \E t \in Threads : life[t] = "running"
  \/ \E n \in Generators : life[n] = "awaiting" /\ takers[n] /= {}
  \/ Hung

\* A program whose bodies all end exits, unless a thread hangs for ever in
\* one of those two ways.
Exits == life[Main] = "waiting" ~> (Exited \/ []Hung)
=============================================================================

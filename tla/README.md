# A verification of the Kolang interpreter

Kolang is a programming language with Persian keywords; the repository holds its
lexer, its parser and a tree-walking evaluator written in Go. The evaluator runs
goroutines, channels and generators on real goroutines, and passes `return`,
`break`, exceptions and deferred calls through nested constructs; the parser reads
Persian word order, with verbs and negations at the end, and blocks by indentation.
Those are the parts where the code is hard to test, and what this project is about.

TLA+ modules model the code, TLC checks them on small instances, and TLAPS proves
theorems about them for every instance. All names below that look like Go are
names in `src/internal/eval/` unless another path is given.

## 1. The system

| Component | State | Operations | Hard because |
|---|---|---|---|
| Channels (`eval_concurrency.go`) | `Channel.ch`, `closed`, `done` | create, send, receive, loop, close | each operation is two or more atomic steps, among any number of goroutines |
| Generators (`eval_generators.go`, `evalGeneratorForIn`) | `started`, `finished`, `err`, `done`, the channels `ch` and `resume` | `next`, `yield`, `yield from`, `close`, `run` | two rendezvous per value, chains of generators, a consumer that leaves |
| Control flow (`eval_control.go`, `eval_exceptions.go`, `callFunction`) | Go's stack, `deferStack` | if, loops, calls, try, with, defer; return, break, continue, raise, errors | cleanups run while a signal is pending and may produce another |
| Program (`EvalProgram`, `evalGoStmt`, `cmd/kolang/main.go`) | the `WaitGroup` | go, join, exit | goroutines spawn goroutines; generators run beside everything |
| Evaluators (`cloneEval`, `builtins.go`) | one `deferStack` and one `frames` each | clone, call, call back from a built-in | built-ins keep the main evaluator |
| Environments (`Env`, `eval_assign.go`, `eval_types.go`) | scope chain, global and nonlocal sets, annotations | get, set, assign, declare, check | scopes are shared by goroutines and locked one by one |
| Classes (`eval_oop.go`, `eval_members.go`) | classes, instances, `frames` | define, instantiate, call a method, super | super follows the frame stack, not the text |
| Calls (`bindParams`) | the position in the arguments, the keywords used | bind positional, keyword, default, variadic | combinations |
| Expressions (`eval_expr.go`, `eval_members.go`, `eval_helpers.go`) | loop counters | operators, powers, slices | ends of int64, mixed int64 and float64, negative bounds and steps |
| Comprehensions, pipes (`eval_comp.go`), decorators | scopes | nested clauses | scopes shared with lazy generator expressions |
| Modules (`modules.go`) | a cache | import | load then store, without a lock over both |
| Lexer (`internal/lexer`) | position, indentation stack | lines to tokens | blank lines, comments, several blocks that end at once |
| Parser (`internal/parser`) | position, `pendingDecorators`, `compDepth`, `parenDepth`, `condDepth` | tokens to AST | a word means different things by context; blocks, arms and decorators must find their statement |
| REPL (`cmd/kolang/main.go`) | pending lines, the global scope | read, submit | decides from the text whether input is complete |
| Linter, wasm, AST, tokens | none | | data and wrappers |

How they interact: the parser hands an AST to one main `Eval`, which walks it.
A `go` statement makes a clone of the `Eval` and a goroutine; calling a generator
function makes a `Generator` with a clone of its own, whose goroutine starts at the
first `next`. Goroutines share scopes (`Env`), values, the output writer and the
`WaitGroup`; they communicate through `Channel`s. Built-in functions live in the
global scope and are closures over the main `Eval`. Control flow inside one
evaluator is a Go error returned upwards.

What makes each part correct is listed with the modules below. The hazards of the
code, those not covered yet included, are in `PROJECT.json`.

## 2. Modules

### ClosableQueue, Channel, MCChannel, ChannelProofs

`ClosableQueue` is what a channel promises, each operation in one step: a bounded
FIFO queue that can be shut once. Senders are *admitted* before it is shut; an
admitted sender puts its item (also after the shutting) or gives up once it is
shut; a receiver takes the oldest item, or is told the end when the queue is shut
and empty.

`Channel` is the code. `pc[g]` is the step goroutine `g` is about to take:

| Code | Actions |
|---|---|
| `evalChannelLit` | `Init` (a negative size becomes 0) |
| `sendChannel`: load `closed`, then a select on `ch` and `done` | `SendBegin`, then `SendBuffered`, `Rendezvous` or `SendReleased` |
| `recvChannel`: a select on `ch` and `done`, then a select with a default | `RecvBegin`, then `RecvValue`, `Rendezvous` or `RecvDone`, then `DrainValue` or `DrainEmpty` |
| `evalChannelForIn` | `RangeBegin`, the steps of a receive, `BodyNext`, `BodyLeave` |
| `closeChannel`: CAS on `closed`, then `close(done)` | `CloseBegin`, `CloseDone` |

`Rendezvous` and the room in the buffer stand for Go's own channels. A send and a
receive on an unbuffered channel meet only before `done` is closed: one of the two
is parked in its select by then, closing `done` wakes it, and a select that finds
`done` closed never parks. (A sender that selects while a receiver is parked and
`done` is open is the case that is modelled.)

Properties: `Conservation`, `NoDoubleClose`, `DrainedBeforeTold`,
`LateSendRaises`, `ImplementsQueue`; under fairness `CloseReleases` and `RangeEnds`.

### Generators, MCGenerators, GeneratorsProofs

A chain of generators: consumers loop over the first, and the body of generator *i*
may delegate to generator *i + 1*. `pc` has an entry for each consumer and each
generator's goroutine. `next` is `NextBegin` (the critical section under `genMu`),
`Handover` (the rendezvous on `ch`), `Resume` (the one on `resume`) or `NextEnd` (`ch`
was closed). A yield is `Yield`, then `Handover` and `Resume` or `Abandon` (`done`).
`yield from` is `YieldFrom`, `YieldFromNext` and `YieldFromExit`, which closes the
inner generator. `Return`, `Raise` and `RunEnd` end `run`. A loop is `LoopBegin`,
`LoopNext`, `LoopLeave`. Bodies and loops are programs, so what they do next is a
choice. The end of `next` reads `err` after it set `finished`; `err` is written by
`run` before it closes `ch`, so the read is folded into the step.

What a `yield` or a `yield from` returns, it returns into the body. The error of an inner
generator may pass through or be caught there (`Catch`, kept in the history variable
`handled`), and the return signal of an abandoned yield may end the body, or be held up or
replaced by a `finally`, so that the body yields again although its generator is closed.
Both are choices of the body.

Properties: `SingleRun`, `InOrder`, `Lazy`, `ErrorSurfaces`, `InnerReleased`, `NobodyStuck`
and, proved only, `EndIsFinal`; under fairness `NextReturns` and `CloseUnwinds`.
`ErrorSurfaces`: an error is not lost, it is caught or passed on. `InOrder` has two halves: that values
keep their order and come once holds always, that none is lost only until generator 1 is
closed. `CloseUnwinds` is about bodies that yield finitely often (`MaxYields`): one that yields
for ever in its cleanup does not end.
`NobodyStuck` is the safety behind the last two: as long as a consumer waits for a chain,
or the chain is not unwound after a close, some goroutine of it is `Runnable`, that is, can
take a step, alone or with the one that pulls it. `NextAlwaysReturns` is what a comment
says and the code does not do (section 4).

### ControlFlow, ControlFlowProofs

The evaluator recurses on Go's stack; the module makes the stack of constructs
explicit (`stack`), with the pending Go error in `sig`. What a program does next in
the innermost construct is its choice; every rule about where a signal goes is the
code's: `EndLoop` and `ContinueLoop` (the three kinds of loops of
`eval_control.go` and the loops over ranges, lists, generators and channels treat
signals alike), `EndBody`, `RunDefer`, `DeferEnded` and `ReturnToCaller`
(`callFunction`, `popDefers`, `runDefers`), `EndTry`, `Catch`, `MatchFails` and
`EndFinally` (`evalTryStmt`, `matchesException`), `EndWith`, `CallClose` and
`EndClosing` (`evalWithStmt`), `EndInput` (the top level). Values and exception
classes are abstract: whether a handler matches, a context can be closed or a
return value fits its annotation is a choice. Go panics are left out.

`home` in a signal, `own` in a construct and `owed` are history variables for the
properties `DeferLists`, `FinallyOwed` and `ReturnStaysHome`.

### Program, MCProgram, ProgramProofs

Who is alive when the program exits. `evalGoStmt` adds to the WaitGroup and spawns in one step
(nothing can tell the two apart: the spawning thread is itself alive), `GoEnd` is the deferred
`wg.Done`. A generator is pulled (`Pull`), hands over a value (`Take`), is resumed by whoever
has it (`Resume`), or by nobody when it was closed (`Abandon`), and runs on beside its consumer
until its next yield (`Park`) or its end (`GeneratorEnd`); any thread may close it at any time
(`CloseGenerator`). `Wait`, `WaitReturns` and `Exit` are the end of `EvalProgram` and of the
process.

`Generators` has one chain; here any thread pulls any generator at any time, closed or not:
`pullers[n]` is the set of those that wait in the `next` of *n* for a value and `takers[n]` of
those that have one and wait to resume the yield; *n* may be inside a `next` of its own, or be
pulled by its own body. `SomebodyRuns`: somebody can go on until the process exits, unless a
thread hangs in `next` (`Hung`). There are two ways to: generators that pull each other in a
circle, and a generator that was closed between a value and its resumption, whose taker is
`Stranded`. The code does hang in both. (The comment on `genMu` calls several consumers of a
generator undefined; what they may rely on is what these two modules say.)

### Evaluators, EvaluatorsProofs

Which evaluator's stacks a call works on. `deferStack` and `frames` are the fields of
each `Eval`; `calls[t]` is the active calls of thread `t`. `Start` is a go statement,
`run` the first pull of a generator; both get a clone (`cloneEval`). A call works on
the evaluator of its caller (`Current`), except one made by a built-in, which works on
the main evaluator's (`CallFromBuiltin`). Pushes and pops are single steps; in Go they
are unsynchronised, so the module shows the least that goes wrong.

Classes are one line of descent, seen through one method. `evalMethodCall` and a
constructor push a frame with the class that `lookupMethod` found the method in; `Call`
and a generator's body push none. `CallSuper` starts at the parent of the innermost
frame's class (`superMarker`), or of the object's class where there is no frame; the bare
word with a first argument that is no object calls the method without a frame.

`TopIsOwn`: a call finds its own defer list when it returns. `SuperAscends`: a method
called on super by a framed call is defined further up, so super ends. It says nothing
of calls without a frame, for which it is false; see section 4.

### Scopes, MCScopes, ScopesProofs

The scope tree, seen through one name (operations on different names touch
different map entries). `store`, `types`, `globals`, `nonlocs` are the fields of
every `Env`; `walk[t]` is the operation of a thread with the scope it looks at next,
since `Get`, `GetType` and `Assign` lock one scope at a time. `Parent` is the `parent` field;
`Enclosing[s]` is the scopes from `s` outward, as the smallest set that has `s` and with each
scope the one around it, so that it needs no recursion.

| Code | Actions |
|---|---|
| `Env.Get` | `Read` or `CompoundAssign` begins it, `Found`, `GetOutward` |
| `Env.GetType`, `checkType` | `PlainAssign` begins it, `TypeFound`, `TypeOutward` |
| `Env.Assign` | `AssignGlobal`, `AssignNonlocal` or `AssignPlain` begins it, `Rebind`, `AssignOutward`, `Define` |
| `Env.Set` | `Set`: parameters, loop variables, definitions |
| the cases of `evalStmt` | `DeclareGlobal`, `DeclareNonlocal`, `PlainAssign`, `AnnotatedAssign`, `CompoundAssign`, `UncheckedAssign` (multiple assignment, input) |

Statements of a scope are run by one goroutine (`Runner`), because every call makes
a scope of its own; expressions may be evaluated in any scope, as `go f(x)` does with
`x`. `visible`, `alone` and `last` are history variables. `NoSkip`: nothing that was
there when a lookup began is passed over. `ReadBack`: a scope reads what was assigned
in it.

What `ReadBack` has to leave out: a name declared global. It is assigned at the root
and read like any other name, so with a binding of the same name in between,
`global x; x = 1; print x` prints the binding in between.

### Layout, Text, Blocks, MCBlocks, LayoutProofs

`Layout` is the lexer as far as lines go: a line is its indentation and its kind, a kind the
words that the statement parser tells apart. `Indented` is `emitIndents` with its tolerance of
a dedent to a level no line had (`StillOpen` is where its loop of pops stops), `LexLine` is
what `run` does with a line, `Lex` closes the blocks at the end.

`Blocks` is the statement parser over those tokens, one operator for each function of
`parser.go`: `Block`, `Loop` (`parseWhile`, `parseFor`, `parseWith`), `If` and `Arms`, `Try`
and `Handlers`, `Def`, `Class`, `Interface`, `Decorator`. Instead of an AST it collects facts:
which statement is in the block of which line, which arm belongs to which statement, which
decorator to which definition. `Text` writes a text line by line; `Blocks` takes the same steps, but
does not carry on a text that can no longer become a program.

The reference is the structure a reader sees: the block of a line is that of the nearest line
above with less indentation, and an arm belongs to the nearest if or try above it in its block.
`FollowsIndentation`: the parser accepts exactly the texts in which every header has a block
and every arm a statement, and gives them that structure. `LayoutNests`, a property of `Text`,
holds for inconsistent indentation too. `DecoratorsAttach`: each decorator goes to the next
definition, once.

### Repl

The loop of `cmd/kolang/main.go` over the parser of `Blocks`: `ReadLine`, `ReadBlank`, `ReadEnd`.
`BlockWaits` is what the comment on `runRepl` says, and the code does not do.

### Expressions, Notation, MCNotation

`Expressions` is the expression parser over a sequence of tokens, again one operator for each
function; the three depth counters are passed down as flags. `Notation` says how a tree
is written, with parentheses only where precedence asks for them, and grows trees node by
node. `ReadsBack`, `ConditionsReadBack` and `StatementsReadBack`: what is written is read back
as itself, and what the grammar has no place for - a condition that is no comparison, a
statement with the wrong number of targets or, in an assignment, of values - is refused. A compound
assignment is written with one value: the parser drops the others (section 4).

Names and literals are one token, an operator stands for those of its level, and the trees
are those of `internal/ast` without lines. `Writable` leaves out what cannot be written
(section 4).

### MachineInts, Power, Slices, Ranges, Binding, MCValues, ValuesProofs

Four loops of the evaluator, each a small machine with the code's variables. `MachineInts` are
int64, of any width.

- `Power` is `intPow`: `Multiply` and `Square`, each after `mulOverflows`, on machine integers.
  `NoWrap`: the overflow test comes before every wrap. `Exact`: the result is the power, and it
  raises only for a power that does not fit.
- `Slices` is `evalSlice` with `sliceBounds` and `clampSliceIdx`, and `evalIndex`. The step is
  added to the position as int64 (`Wrap`). `PanicsOnOverflow`: the loop leaves the sequence,
  and Go panics, exactly when the sum past the last selected position overflows.
  `SliceIsPythons`: a slice that ends has the positions that Python's rules select, said as a
  set. 
- `Ranges` is the loop that `evalForRange`, `evalRangeForIn` and `Range.values` have in
  common: `Turn` runs the body and adds the step, and may wrap around. `RangeIsPythons`: a loop
  that is over has run for every element of the range, and for nothing else and in order
  unless the sum past the last element is no machine integer.
- `Binding` is `bindParams`, a step per parameter. `BindsAsPython`: a call succeeds exactly
  when Python would bind it (`Binds`) without its `Stray` keywords, those that name no
  parameter, and then each parameter has exactly what Python gives it (`Gets`). Python refuses
  a call with a stray keyword; this code drops it. Parameter lists have distinct names, one
  collecting parameter of each kind, the one for keywords last; the parser does not check that.

## 3. Runs

| Run | Shows | Bounds |
|---|---|---|
| `channel` | a channel is safe, implements the closable queue, and a close releases everybody | 3 goroutines, 2 values, no buffer (size -1) or 2 places, 3 accepted or pending sends |
| `generators` | a chain is safe and never waits in vain, pulls return, closes unwind | 2 consumers, 3 generators, 4 yields in all, 1 loop each, one of them perhaps over a generator that was left |
| `generators_reiterate` | counterexample: a second loop blocks forever | 1 consumer, 1 generator |
| `control_flow` | defer lists, finally, return | call depth 2, 3 nested constructs, 2 deferred calls per list |
| `program` | the join, somebody can go on, and termination | 2 go statements, 2 generators without go statements |
| `evaluators` | isolation of defer and frame stacks, super | 1 clone, 3 classes of which 2 define the method, 3 nested calls, 1 deferred call |
| `evaluators_shared` | counterexample: built-ins called in a goroutine | the same |
| `scopes` | lookups and assignments under interleaving | 3 nested scopes, 2 threads, 2 values, declarations in the inner scope and the root, annotation in the one between |
| `blocks` | the lexer's layout and the statement parser follow the indentation | 5 lines, 3 indentations, 5 families of statements |
| `expressions` | what is written is read back | trees of 2 nodes of any kind, of 3 nodes in 3 families, of 4 unary operators, powers and sums |
| `values` | powers, slices, ranges, binding | integers of 5 bits, sequences of up to 3, bounds of slices -5 to 4, of ranges any, steps -4 to 3, of slices also -16, -15 and 12 to 15, 3 parameters, 3 positional arguments, 3 names |
| `repl_block` | counterexample: a block is run after one line | 3 lines |

Why the bounds are enough: three goroutines are a sender, a receiver and a closer
at once, and two of each against another; capacity 2 with three sends has a buffer
that is empty, partly filled and full; three generators have one that is
both pulled and pulling; two go statements are one inside the other or both beside the top
level, and with the top level and two generators three threads can share a generator, close it and
hang in a circle; a stack of three constructs, to which a cleanup adds one,
puts every construct inside every other, with a cleanup on top; three scopes have one
that is neither the first nor the last of a walk; three classes have one that inherits, one
that overrides and one that is overridden; five lines hold two nested headers with their
bodies and an arm, a decorator or a comment between them; what two nodes of a tree do to each
other shows in a tree with these two, and a third one is there for operators on both sides
of a prefix or suffix; bounds and steps reach past both ends of a sequence. Five bits have
the asymmetry of int64, whose smallest number has no opposite. Liveness is checked without
symmetry, and no run uses it. The type invariants of `ControlFlow`, `Scopes`, `Generators`, `Program`
and `Evaluators` are proved for all instances and left out of the runs.

`CHECK_DEADLOCK FALSE` stands where programs really stop: channels with nobody
left to send, generators nobody pulls, a process that has exited, a text that is
complete or refused, a loop that is over.

Fairness: `FairSpec` asks that a goroutine which can take the next step of an operation it has
*begun* takes it in the end (Go schedules every runnable goroutine). In a select with two ready
cases nothing says which one is taken. No program is obliged to begin anything. In `Generators`
a body gets to its next yield or its end, and `MaxYields` stands for bodies that yield finitely
often. In `Program` a goroutine comes to an end (`GoEnd`), and whoever pulls a generator gets
its value, its way out or the end (`Served`); both are strong: a thread that is inside a pull,
as often as it likes, cannot end meanwhile, and a generator that several threads pull serves
one at a time, those that wait on a Go channel in their turn. `Scopes`, `ControlFlow`,
`Evaluators` and the modules of the parser and of values have safety properties only; their
loops are bounded by the length of what they work on.

## 4. What the counterexamples say

Each is a behaviour of the code that a comment says it does not have;
`PROJECT.json` quotes the lines.

1. `NextAlwaysReturns`: after `break`, a second loop over the same
   generator may take the value of the abandoned yield and then wait on `resume`
   forever, because the yield has left through `done`. `NextReturns` says when it
   does return.
2. `TopIsOwn` with `BuiltinsInClones`: `map` and `filter` called in a goroutine work on
   the defer stack of the main evaluator.
3. `BlockWaits`: in the interactive loop a header and one line are a program already,
   so the block is run before a second line, or an else, can be typed.

Other behaviours a reader may not expect, which the modules show or which had to be left
out of a property, with no run of their own:

Running programs

- A send that overlaps a close may succeed after the receivers were told that the
  channel is drained; its value stays in the buffer.
- Recursion through deferred calls is not counted by `maxCallDepth`: the list of a call
  is popped before its deferred calls run.
- A go statement in a generator's body may run after the program's join; a
  process may exit before a closed generator ran its `finally`.
- Generators that pull each other in a circle, or a generator whose body loops over itself,
  wait forever, and the program hangs where no error is reported. So does a thread that has a value of a
  generator which another thread, or an earlier loop, has closed.
- Leaving a loop closes the generator, and its goroutine leaves the yield it is at and ends (`CloseUnwinds`).
  The comment on the type `Generator` (`eval.go`, lines 65 to 67) still says that the goroutine is left blocked until the
  program exits; the comments on `yieldValue` and `close` say what the code does.
- A `finally` around a yield that was abandoned may break, raise or yield: the body then goes on, and
  whoever still pulls the closed generator may or may not get its values.
- `break` outside a loop leaves the function and ends a loop of the caller; a deferred
  call that raises drops those that are left; a bare handler does not catch a
  `RuntimeError`.
- Multiple and compound assignments bind an annotated name unchecked; a name bound by
  `Set` in an inner scope is checked against the annotation of an outer one.
- The body of a generator has no frames: `super` there is relative to the class of the
  object, so an inherited generator method that calls super reaches itself again. A method
  called as a value runs without a frame, and its super is relative to its caller's.

Values

- Sums, differences and products wrap around, where a power raises. A range loop
  whose last sum does not fit goes round instead of ending.
- A slice whose step takes the position past the largest integer panics: in `a[1::s]` with `1 + s` no
  int64 the next position is negative, still below the bound, and is read. Python returns one element, and the
  comment on `evalSlice` promises Python's rules. `PanicsOnOverflow` says when it happens.
- A keyword argument that names no parameter is dropped, where Python raises. A `**` parameter
  that is not the last one also takes the keywords of those after it.
- Sets and dictionaries are keyed by the text of a value.

The parser

- In a slice that starts with a colon the number after it is the low bound: `a[:3]` is
  `a[3:]`.
- Keyword arguments of a method call, of a decorator and of `super()` are parsed and
  dropped; an append or a removal uses the first of its expressions, a compound
  assignment its first value; `[a, b for ...]` drops `a`.
- A missing `]`, `)` or `}` after an index, a slice, a comprehension, a tuple, a dictionary or
  a set is accepted.
- The final negation and a ternary bind to the operand before them, not to the whole
  expression; a ternary cannot be written in the clauses of a comprehension, nor a
  final negation inside a condition. An attribute whose owner starts with a parenthesis is
  read as a method call. An arithmetic negation passes for a condition.
- A line that reads a name right after a try statement is taken for one more
  handler. A try needs no handler. A decorator at the end of a block belongs to the
  definition after the block.

## 5. Proofs

`ChannelProofs` proves, for any set of goroutines and values, any sizes and any
bound on sends, that `Spec` implies `[]TypeOK`, `[]Conservation`, `[]NoDoubleClose`,
`[]DrainedBeforeTold`, `[]LateSendRaises`, and that `Spec` implements `ClosableQueue`.
Assumptions: sizes are integers, `None` is not a value.

The argument is one inductive invariant, `IInv`: those properties together with
`CloseOrder` (`done` is closed only after the flag, and a goroutine is in `closeDone`
only when the flag is set; a receiver drains, and somebody was told, only when `done`
is closed; a close has returned only when the flag is set; the number of values
accepted by then is not above the number accepted now).
`DrainedBeforeTold` is not inductive alone: that a buffer found empty in the second
select means everything sent before the close was received needs `Conservation`
(`accepted = delivered \o buffer`), and that the count was taken before needs
`CloseOrder`. `LateSendRaises` needs that a close that has returned leaves the flag
set. The refinement maps the flag `closed`, not the signal `done`, to the queue's
`shut`: the compare-and-swap is where the queue shuts.

`CloseReleases` is proved too, for any set of goroutines, with one hypothesis beside `FairSpec`:
`[]CloseWakes`, that a goroutine which waits at a closed channel can take a step of its
operation. It is true of every state, and is a hypothesis only because the provers do
not look into ENABLED: `WokenContinues` proves that the step whose result `Woken` writes down,
variable by variable, is such a step, and TLC has evaluated `CloseWakes` itself in the states of the
run. The rest of the argument is `WaitStep`: others' steps leave a waiting goroutine where it
is or free it, and each step of its own brings it from a first select to the second or out.
`ClosedFeedsNoMore` is the safety behind `RangeEnds`: after a close the values received,
buffered or still offered in a select never become more (`Feed`), so a loop over a closed channel has
only so many left to see.

`ProgramProofs` proves `TypeOK` and `Counted` of `Program` for any finite set of goroutines and
any set of generators, `SomebodyRuns` for them, and `Joined` and `AddCovered` under
`~GeneratorsSpawn` (with it `Joined` is false). `Counted` needs to know what a step does to the
set of goroutines that are not over. A value that is resumed sets its taker to running; that
this does not bring somebody back who was over is `Pullers`: a thread inside `next` is inside
that of one generator, in one place, and a generator that is pulled runs, awaits or is inside
`next` itself. `Takers` says that a yield which awaits has somebody who will resume it, and
that a generator owes a resumption to somebody else only after a close. `Roles` says that only
generators park and only the top level waits. `SomebodyRuns` follows from these and `Counted`:
a top level that waits with a positive count has a goroutine that is alive, so if nobody can go
on somebody is inside `next`; it is stranded, or the generator it pulls is inside `next` as
well, and so on: the threads inside `next` are the set that `Hung` asks for (`NobodyRunsHung`;
it may hold a chain without end, if there are infinitely many). The join is `JoinOver`: when
the top level is past `wg.Wait`, nobody is alive. A count of zero means that nobody is, and
from then on nobody is made: who executes a go statement is the top level, which is past it, or
is itself counted.

`GeneratorsProofs` proves `TypeOK`, `SingleRun`, `ErrorSurfaces`, `InnerReleased`,
`EndIsFinal`, `InOrder` and `Lazy` of `Generators`, for a chain of any length, any consumers
and any bounds. The invariant has four parts beside the type: `ItemsReady` (a body that offers
has a value), `Flags` (the flags say where the goroutine is), `Delegation` (where a body may be
inside a `yield from`; a generator that was started is delegated to or was closed) and `Errors`
(a generator that runs is delegated to, or who delegated to it was closed; an error is on its
way through the body that delegates, or has been taken over or caught, or was never asked for
because of a close). `ErrorSurfaces` is not inductive: while the inner generator has raised and
the outer one still offers its last value, nothing says yet that the outer one will look.
`Found` says that a `yield from` takes the end of its generator for what it was.

`Lazy`, and that no value is lost while generator 1 is open, need to know where each value is
on its way (`FlowInv`). `Order` says that there are counts `q[0..Depth]`: `q[i]` values have
been passed on by generator `i + 1`, so `q[0]` is the number received and `q[Depth]` the number
computed; neighbours differ by at most one (`Gradual`); a generator that holds a value holds
number `q[i]` (`Held`), one that holds none passed on all it got (`Empty`), and one that is not
inside a `yield from` has nothing under way below it (`Settled`). The last is what makes a
plain yield safe: its new value is the next one for everybody below. It needs `Still` (below a
settled generator nothing runs) and `Closing` (a `yield from` closes its generator when it is
left, not before). After a close bodies may drop values and go on, and there are no such
counts. That what is received keeps the order of computation is then `SubOrder`: what the
generators that are `Linked` to the consumers hold was computed after all that was received,
the further down the later; a generator that was cut off is never linked again.

`NobodyStuck` needs `Meeting`: of those that pull a generator, at most one has its value and
waits for it to go on, and the generator then waits for that one, or its yield was abandoned by
a close. Its proof follows the chain: a generator is `Pressed` if somebody is inside its `next`
or if it has to unwind. One that is pressed can go on, or the one below it can, or is pressed
in its turn (`PressOn`). The last one that is pressed (`FirstAndLast`) has no such heir, so it
or its neighbour can go on (`PressedRuns`).

`ControlFlowProofs` proves `TypeOK`, `DeferLists`, `FinallyOwed` and `ReturnStaysHome` of
`ControlFlow` for any depth and bounds. `StackInv` is about the stack: `ListsMatch` says
`DeferLists` for any set of calls and any base, so that the scratch list is one case of it;
`Owing` that exactly the tries whose finally has not begun are owed; `KeptHome` that a return
which waits for a cleanup comes from the innermost call around that cleanup; `Overhang` that
what is beyond the bound of the stack is a call of a cleanup, which defers nothing.
`ReturnStaysHome` is not inductive without `KeptHome`: what a `finally` or a closing context
puts back is a return that was set aside several steps before. The lemmas say what pushing,
replacing and popping one construct do to the set of running calls and their ranks.

`ScopesProofs` proves `TypeOK`, `NoSkip` and `ReadBack` of `Scopes` for any tree, finite or
not, any threads, values and types. The tree is assumed to be one: every scope but the root has
a parent, and the root encloses every scope. The code makes it so: `NewEnv` is the only place
that sets `parent`, and sets it to a scope that exists. `Acyclic` and `Antisymmetric` follow
without induction, from `Enclosing` being the smallest closed set. `OpInv` says of a walk that
what was visible when it began is still there and still ahead, and of an assignment during
which nothing else was bound that it finds what it would find if it began now. `LastInv` says
that the value assigned last is in the nearest scope that has the name; how a step outward and
a new binding change the nearest scope is `NearestOutward` and `NearestHere`.

`EvaluatorsProofs` proves `TopIsOwn` and `SuperAscends` of `Evaluators` under
`~BuiltinsInClones` (with it `TopIsOwn` is false: run `evaluators_shared`), for any set of
threads, any depth of classes and any bounds. The invariant is, for each thread and its evaluator,
`Match`: its calls run on it (`OnOwn`); the last defer lists are theirs, one each
(`ListsMatch`; the main evaluator may have one more below, made by a defer at the top
level); and the frame stack is as high as the innermost call left it, with the frame of
every framed call at its place (`FramesMatch`). `SuperAscends` is not inductive without the
last one: that the innermost frame belongs to the call that uses super is what popping on
every way out is for. `LookupFinds` shows by well-foundedness that the search for a
method finds one at or above the class it starts from. One lemma for entering a call, one
for leaving, one for deferring are about a single thread; `OneThread` lifts them.

Two results hold without that condition, when threads do work on the main evaluator at once:
`TypeCorrect`, and `FrameLeft`, that `popFrame`, which does not look, never meets an empty
stack. Its invariant counts (`FramesCounted`): each evaluator has as many frames as there are
calls, of whatever threads, that will pop one. So what is left to go wrong is which frame is
popped, and the race itself.

`ValuesProofs` is about the four loops on values, for integers of any width, sequences, parameter
lists and calls of any length.

- `OverflowExact`: `mulOverflows` is true exactly when the product does not fit, whatever the
  signs, the smallest integer included; from it `NoWrap`. `Exact`: the invariant is that the
  result times a power of the base is the power that was asked for (`Remaining`). That a raise means
  the power does not fit has two reasons: when the result overflows, what is left
  to multiply by is a power of a square, so at least one; when a square overflows, the
  result is not nought or minus one (`Small`), and the square is
  still needed, because the last bit is tested first. Powers are entries of tables (`Powers`), and
  `PowerOfIs` shows that the recursive reference `PowerOf` is what such a table says.
- `PanicsOnOverflow` and `SliceIsPythons`: from where `clampSliceIdx` puts a bound for each
  direction; `Reading` says that the loop has read the positions from the first on, in steps,
  or is `Wrapped`: its position is below zero because the sum past one it has read has
  overflowed. Only an upward loop can wrap, and then below the sequence (`Onward`). That it has
  read every multiple of the step between the bounds is `Division` and `Multiples`.
- `RangeIsPythons`: the loop is at some element and has run for exactly those before it
  (`Straight`), or the sum past the last element has wrapped around and the loop has run for all of
  them by then (`Round`). That nothing beyond an element out of range is in range again
  (`Beyond`), nor beyond a sum that does not fit, is what multiples of a step give.
- `BindsAsPython`: the invariant says for every parameter passed what it was given (`Given`), that the
  position is the number of seats passed or of arguments (`Taken`) and why the loop
  ended (`Ended`). `SeatsCounted` and `AllSeats` connect the positions of the loop with the
  cardinalities that the property counts with; `BoundGets` puts them together parameter by parameter.

The proofs assume of the constants only what they are, and of a sequence that its length is a
machine integer.

`LayoutProofs` proves `LexNests`: for a text of any number of lines, with any indentations and
kinds of lines, with or without a last newline, INDENT and DEDENT nest and are balanced; and
`LayoutNests` from it, as an invariant of `TextSpec`. The argument over the lines (`Between`)
is that the depth of the tokens so far is the number of levels above the first.
`WordsFollowIndentation` says which levels: `Levels` reads them off the lines, as the
indentations that no line since is left of, with no stack, and every word stands as deep as its
line has levels around it. The lexer's stack is those levels, ever deeper (`Stacked`); where
`StillOpen` stops is the level the line returns to. That needs `Aligned`: every line is at one
of the levels there are or deeper than all. Without it the tolerance of `emitIndents` makes a
new level in the place of another. It is what `FollowsIndentation` asks of a text before it
speaks of the parser (TLC finds every `Consistent` text of four lines `Aligned`), and the
lexer's half of that property.

Recursion and induction: the library's induction theorems are of no use to the provers
here, so `Induction` is proved for sets, from the library's `WFMin` and the well-foundedness of `<`.
With it `CappedIs` and `LexedIs` show that the recursive functions inside `PowerOf` and `Lex`
exist and satisfy their equations.

Model-checked only: liveness but for `CloseReleases` (`RangeEnds`, `NextReturns`,
`CloseUnwinds`, `Exits`), which takes ENABLED and an induction over temporal formulas, along a
chain or down a count, and what the parser returns (`FollowsIndentation` and `DecoratorsAttach`
of `Blocks`; `ReadsBack`, `ConditionsReadBack` and `StatementsReadBack` of `Notation`), whose
operators are mutually recursive and may not appear in a module with theorems. All other
properties of the passing runs are theorems. Of the liveness properties the safety behind them
is proved: that whoever waits is waited for by somebody who can go on (`NobodyStuck`,
`SomebodyRuns`), and the bound on what is still to come (`ClosedFeedsNoMore`).

## 6. Not modelled, and the plan

Left out for good: formatting, strings, Persian digits, the characters of tokens, the AST
and token tables, the linter, the wasm wrapper, mathematics, file input and output. Binary
operators on numbers are single operations of Go; decorators are calls.

Parts of modelled components that are left out: in the parser, the grammar of parameter
lists, loop headers, imports and type annotations; in the evaluator, class definitions
and interface checks, targets of assignments that are attributes or elements, and the scopes of
comprehensions; in the interactive loop, evaluation in the shared scope, which never joins
goroutines.

Next modules, most important first:

1. `GeneratorBodies` - `ControlFlow` as the body of `Generators`: which `finally` lets a closed
   generator go on.
2. `Classes` - half-made classes after a failure, fields that shadow methods.
3. `Comprehensions` - nested clauses with their scopes, lazily or not.
4. `Modules` - the cache that is loaded and then stored.
5. `Pipeline` - channels composed with the program's join: what hangs.

Next theorems: those of the modules above; of the present ones, only the parser and the rest of
liveness are left.

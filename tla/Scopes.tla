------------------------------- MODULE Scopes -------------------------------
(***************************************************************************)
(* The lexical scopes of a Kolang program (Env in internal/eval/eval.go,   *)
(* and the assignment statements of evalStmt), seen through one name: the  *)
(* bindings of different names do not touch each other.                    *)
(*                                                                         *)
(* Scopes form a tree.  Each has its own lock, so every operation looks at *)
(* one scope at a time, from the scope it is made in outward, while other  *)
(* goroutines go on.  The statements of one scope are run by one goroutine *)
(* (a call makes a scope of its own), but any goroutine may evaluate an    *)
(* expression in it: a go statement does, in the scope it stands in.       *)
(* walk[t] is the operation thread t is in, and at the scope it looks at   *)
(* next.                                                                   *)
(***************************************************************************)
EXTENDS Naturals

CONSTANTS
  Threads,    \* the goroutines that share the scopes
  Scopes,     \* the scopes of the program
  Root,       \* the scope of the module
  Parent,     \* the enclosing scope of every other scope
  Runner,     \* the thread that runs the statements of each scope
  Declaring,  \* bound: the scopes in which global and nonlocal are declared
  Annotating, \* bound: the scopes in which the name is annotated
  Values,     \* what the name is bound to
  Types,      \* annotations, each the set of the values that conform to it
  None        \* no binding, no annotation, no scope

\* The scopes from s outward, s among them: those that every set has which has
\* s and, with a scope, the one around it.  They lead to the root.
Closed(S) == \A x \in S \ {Root} : Parent[x] \in S
Enclosing ==
  [s \in Scopes |-> {x \in Scopes : \A S \in SUBSET Scopes : s \in S /\ Closed(S) => x \in S}]

ASSUME TreeAssumption ==
  /\ Root \in Scopes
  /\ Parent \in [Scopes \ {Root} -> Scopes]
  /\ Runner \in [Scopes -> Threads]
  /\ \A s \in Scopes : Root \in Enclosing[s]
ASSUME NoneAssumption == None \notin Values \cup Scopes \cup Types
ASSUME TypesAssumption == Types \subseteq SUBSET Values

VARIABLES
  store,     \* Env.store: the binding of the name in each scope
  types,     \* Env.types: the annotation of the name in each scope
  globals,   \* the scopes that declare the name global
  nonlocs,   \* the scopes that declare it nonlocal
  walk,      \* the operation each thread is in
  last       \* history: the last completed assignment, if nothing was bound meanwhile or
             \* since and nothing annotated since

vars == <<store, types, globals, nonlocs, walk, last>>

Bound == {s \in Scopes : store[s] /= None}
Typed == {s \in Scopes : types[s] /= None}

-----------------------------------------------------------------------------
(* The tree.                                                               *)

\* The first scope of set S from s outward, or None: the one that is enclosed by
\* all the others that enclose s.
Nearest(S, s) ==
  LET found == S \cap Enclosing[s]
  IN  IF found = {} THEN None ELSE CHOOSE x \in found : found \subseteq Enclosing[x]

\* Scope x is s or encloses it, and is not outside of y.
Inside(s, x, y) == x \in Enclosing[s] /\ y \in Enclosing[x]

-----------------------------------------------------------------------------
(* Operations in progress.                                                 *)

\* pc: "typing" (GetType looks for an annotation), "getting" (Get looks for
\* a binding), "assign" (Assign is about to begin), "walking" (Assign looks
\* for a binding), "define" (Assign found none).
Idle ==
  [pc |-> "idle", kind |-> "none", origin |-> Root, at |-> Root, val |-> None,
   visible |-> None, alone |-> FALSE]

\* An operation made in scope s, at its first step.  visible (history) is
\* where it would find what it looks for if nobody else did anything.
Op(pc, kind, s, v, visible) ==
  [pc |-> pc, kind |-> kind, origin |-> s, at |-> s, val |-> v,
   visible |-> visible, alone |-> pc = "assign"]

\* Thread t is idle and begins operation op.
Begins(t, op) ==
  /\ walk[t].pc = "idle"
  /\ walk' = [walk EXCEPT ![t] = op]

\* Thread t looks one scope further out.
Outward(t) == walk' = [walk EXCEPT ![t].at = Parent[@]]

\* An operation goes on with Assign, in its own scope.
Assigns(op) == Op("assign", "assign", op.origin, op.val, None)

\* Scope s gets value v: nobody else's operation was alone.
Binds(t, s, v, after) ==
  /\ store' = [store EXCEPT ![s] = v]
  /\ walk' = [u \in Threads |->
                IF u = t THEN after ELSE [walk[u] EXCEPT !.alone = FALSE]]

Init ==
  /\ store = [s \in Scopes |-> None]
  /\ types = [s \in Scopes |-> None]
  /\ globals = {}
  /\ nonlocs = {}
  /\ walk = [t \in Threads |-> Idle]
  /\ last = None

-----------------------------------------------------------------------------
(* Statements and expressions that begin.                                  *)

\* A parameter, a loop variable, a definition, an alias: Env.Set.
Set(t, s, v) ==
  /\ walk[t].pc = "idle"
  /\ Binds(t, s, v, Idle)
  /\ last' = None
  /\ UNCHANGED <<types, globals, nonlocs>>

DeclareGlobal(t, s) ==
  /\ walk[t].pc = "idle"
  /\ s \in Declaring
  /\ globals' = globals \cup {s}
  /\ UNCHANGED <<store, types, nonlocs, walk, last>>

DeclareNonlocal(t, s) ==
  /\ walk[t].pc = "idle"
  /\ s \in Declaring
  /\ nonlocs' = nonlocs \cup {s}
  /\ UNCHANGED <<store, types, globals, walk, last>>

\* x = v: the annotation in force is looked for first.
PlainAssign(t, s, v) ==
  /\ Begins(t, Op("typing", "assign", s, v, Nearest(Typed, s)))
  /\ UNCHANGED <<store, types, globals, nonlocs, last>>

\* x : T = v, for a v that conforms (another raises): SetType, then Assign.
AnnotatedAssign(t, s, v, T) ==
  /\ s \in Annotating
  /\ v \in T
  /\ Begins(t, Op("assign", "assign", s, v, None))
  /\ types' = [types EXCEPT ![s] = T]
  /\ last' = None
  /\ UNCHANGED <<store, globals, nonlocs>>

\* x += e: the old value is read first, and nothing is checked.
CompoundAssign(t, s) ==
  /\ Begins(t, Op("getting", "compound", s, None, Nearest(Bound, s)))
  /\ UNCHANGED <<store, types, globals, nonlocs, last>>

\* Multiple assignment and input: no check.
UncheckedAssign(t, s, v) ==
  /\ Begins(t, Op("assign", "assign", s, v, None))
  /\ UNCHANGED <<store, types, globals, nonlocs, last>>

\* The name is evaluated.
Read(t, s) ==
  /\ Begins(t, Op("getting", "read", s, None, Nearest(Bound, s)))
  /\ UNCHANGED <<store, types, globals, nonlocs, last>>

-----------------------------------------------------------------------------
(* GetType and Get, one scope at a time.                                   *)

\* An annotation: the value conforms, or the statement raises.
TypeFound(t) ==
  LET op == walk[t] IN
  /\ op.pc = "typing" /\ op.at \in Typed
  /\ walk' = [walk EXCEPT ![t] = IF op.val \in types[op.at] THEN Assigns(op) ELSE Idle]
  /\ UNCHANGED <<store, types, globals, nonlocs, last>>

TypeOutward(t) ==
  LET op == walk[t] IN
  /\ op.pc = "typing" /\ op.at \notin Typed
  /\ IF op.at = Root
       THEN walk' = [walk EXCEPT ![t] = Assigns(op)]
       ELSE Outward(t)
  /\ UNCHANGED <<store, types, globals, nonlocs, last>>

\* A binding: a read has its value; a compound assignment computes some
\* other one.
Found(t) ==
  LET op == walk[t] IN
  /\ op.pc = "getting" /\ op.at \in Bound
  /\ IF op.kind = "read"
       THEN walk' = [walk EXCEPT ![t] = Idle]
       ELSE \E v \in Values : walk' = [walk EXCEPT ![t] = Assigns([op EXCEPT !.val = v])]
  /\ UNCHANGED <<store, types, globals, nonlocs, last>>

\* No binding anywhere is an error.  Mutant: a compound assignment goes on.
GetOutwardUnchecked(t) ==
  LET op == walk[t] IN
  /\ op.pc = "getting" /\ op.at \notin Bound
  /\ IF op.at = Root
       THEN walk' = [walk EXCEPT ![t] = IF op.kind = "read" THEN Idle ELSE Assigns(op)]
       ELSE Outward(t)
  /\ UNCHANGED <<store, types, globals, nonlocs, last>>

GetOutward(t) ==
  LET op == walk[t] IN
  /\ op.pc = "getting" /\ op.at \notin Bound
  /\ IF op.at = Root
       THEN walk' = [walk EXCEPT ![t] = Idle]
       ELSE Outward(t)
  /\ UNCHANGED <<store, types, globals, nonlocs, last>>

-----------------------------------------------------------------------------
(* Assign.                                                                 *)

\* The assignment of t ends by binding scope s.
Completes(t, s) ==
  LET op == walk[t] IN
  /\ Binds(t, s, op.val, Idle)
  /\ last' = IF op.alone THEN [scope |-> op.origin, val |-> op.val, kind |-> op.kind]
             ELSE None
  /\ UNCHANGED <<types, globals, nonlocs>>

\* The name is declared global here: bound at the root.
AssignGlobal(t) ==
  /\ walk[t].pc = "assign" /\ walk[t].origin \in globals
  /\ Completes(t, Root)

\* Declared nonlocal: the walk begins at the enclosing scope; the root has
\* none, and the assignment does nothing.
AssignNonlocal(t) ==
  LET op == walk[t] IN
  /\ op.pc = "assign" /\ op.origin \in nonlocs \ globals
  /\ IF op.origin = Root
       THEN walk' = [walk EXCEPT ![t] = Idle]
       ELSE walk' = [walk EXCEPT ![t] =
                       [op EXCEPT !.pc = "walking", !.kind = "nonlocal", !.at = Parent[op.origin],
                                  !.visible = Nearest(Bound, Parent[op.origin])]]
  /\ UNCHANGED <<store, types, globals, nonlocs, last>>

\* Where the walk of a plain assignment begins.  Mutant: outside.
OutsideOf(s) == IF s = Root THEN s ELSE Parent[s]
FirstScope(s) == s

\* Neither: it begins here.
AssignPlain(t) ==
  LET op == walk[t] IN
  /\ op.pc = "assign" /\ op.origin \notin nonlocs \cup globals
  /\ walk' = [walk EXCEPT ![t] =
                [op EXCEPT !.pc = "walking", !.at = FirstScope(op.origin),
                           !.visible = Nearest(Bound, op.origin)]]
  /\ UNCHANGED <<store, types, globals, nonlocs, last>>

\* A binding is found, and changed under the lock of its scope.
Rebind(t) ==
  /\ walk[t].pc = "walking" /\ walk[t].at \in Bound
  /\ Completes(t, walk[t].at)

AssignOutward(t) ==
  LET op == walk[t] IN
  /\ op.pc = "walking" /\ op.at \notin Bound
  /\ IF op.at = Root
       THEN walk' = [walk EXCEPT ![t].pc = "define"]
       ELSE Outward(t)
  /\ UNCHANGED <<store, types, globals, nonlocs, last>>

\* Nothing is found: the name is defined where the assignment was made, or
\* for a nonlocal in the scope around it.
DefineAt(op) == IF op.kind = "nonlocal" THEN Parent[op.origin] ELSE op.origin

Define(t) ==
  /\ walk[t].pc = "define"
  /\ Completes(t, DefineAt(walk[t]))

-----------------------------------------------------------------------------
Statement(t, s) ==
  \/ DeclareGlobal(t, s) \/ DeclareNonlocal(t, s) \/ CompoundAssign(t, s)
  \/ \E v \in Values : Set(t, s, v) \/ PlainAssign(t, s, v) \/ UncheckedAssign(t, s, v)
  \/ \E v \in Values, T \in Types : AnnotatedAssign(t, s, v, T)

Continue(t) ==
  \/ TypeFound(t) \/ TypeOutward(t) \/ Found(t) \/ GetOutward(t)
  \/ AssignGlobal(t) \/ AssignNonlocal(t) \/ AssignPlain(t)
  \/ Rebind(t) \/ AssignOutward(t) \/ Define(t)

Next ==
  \/ \E t \in Threads : Continue(t)
  \/ \E s \in Scopes : Statement(Runner[s], s)
  \/ \E t \in Threads, s \in Scopes : Read(t, s)

Spec == Init /\ [][Next]_vars

-----------------------------------------------------------------------------
(* Properties.                                                             *)

\* The shape of the state: walks stay in the chain of their scope, and what
\* is about to be bound is a value.
TypeOK ==
  /\ store \in [Scopes -> Values \cup {None}]
  /\ types \in [Scopes -> Types \cup {None}]
  /\ globals \subseteq Declaring
  /\ nonlocs \subseteq Declaring
  /\ walk \in [Threads ->
       [pc : {"idle", "typing", "getting", "assign", "walking", "define"},
        kind : {"none", "read", "compound", "assign", "nonlocal"},
        origin : Scopes, at : Scopes, val : Values \cup {None},
        visible : Scopes \cup {None}, alone : BOOLEAN]]
  /\ \A t \in Threads :
       /\ Inside(walk[t].origin, walk[t].at, Root)
       /\ walk[t].pc \in {"assign", "walking", "define"} => walk[t].val \in Values

\* No operation passes over what was there when it began, whatever other
\* goroutines bind in the scopes it has looked at or will: a read finds the
\* name, an assignment to a visible name makes no second binding and changes
\* none further out, and an annotation is not missed.
NoSkip ==
  \A t \in Threads :
    LET op == walk[t] IN
    op.visible /= None =>
      op.pc /= "define" /\ Inside(op.origin, op.at, op.visible)

\* A scope reads what was assigned in it: once an assignment is over, and
\* nothing else was bound meanwhile or since, the name has the assigned
\* value where the assignment was made, and everywhere inside up to the next
\* binding (Assign and Get walk the same way).  A name that is declared
\* global or nonlocal is assigned in one place and read in another.
ReadBack ==
  last /= None /\ last.kind = "assign" /\ last.scope \notin globals =>
    \A s \in Scopes :
      Nearest(Bound, s) = Nearest(Bound, last.scope) => store[Nearest(Bound, s)] = last.val
=============================================================================

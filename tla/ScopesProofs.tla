---------------------------- MODULE ScopesProofs ----------------------------
(***************************************************************************)
(* Proofs about Scopes: in any tree of scopes, with any goroutines, no      *)
(* operation passes over a binding that was there when it began, and a      *)
(* scope reads what was assigned in it.                                     *)
(***************************************************************************)
EXTENDS Scopes, TLAPS

-----------------------------------------------------------------------------
(* The tree.                                                               *)

LEMMA EnclosingIs ==
  ASSUME NEW s \in Scopes
  PROVE  /\ s \in Enclosing[s] /\ Enclosing[s] \subseteq Scopes
         /\ Closed(Enclosing[s])
         /\ \A S \in SUBSET Scopes : s \in S /\ Closed(S) => Enclosing[s] \subseteq S
         /\ Root \in Enclosing[s]
<1>1. \A x : x \in Enclosing[s] <=>
        x \in Scopes /\ \A S \in SUBSET Scopes : s \in S /\ Closed(S) => x \in S
  BY DEF Enclosing
<1>2. ASSUME NEW x \in Enclosing[s], x /= Root PROVE Parent[x] \in Enclosing[s]
  <2>1. x \in Scopes /\ Parent[x] \in Scopes
    BY <1>1, <1>2, TreeAssumption
  <2>2. ASSUME NEW S \in SUBSET Scopes, s \in S, Closed(S) PROVE Parent[x] \in S
    <3>1. x \in S
      BY <1>1, <2>2
    <3> QED
      BY <1>2, <2>2, <3>1 DEF Closed
  <2> QED
    BY <1>1, <2>1, <2>2
<1>3. Closed(Enclosing[s])
  BY <1>2 DEF Closed
<1> QED
  BY <1>1, <1>3, TreeAssumption

\* What encloses an enclosing scope encloses.
LEMMA EnclosingUp ==
  ASSUME NEW s \in Scopes, NEW x \in Enclosing[s]
  PROVE  x \in Scopes /\ Enclosing[x] \subseteq Enclosing[s]
<1>1. x \in Scopes /\ Enclosing[s] \in SUBSET Scopes /\ Closed(Enclosing[s])
  BY EnclosingIs
<1> QED
  BY <1>1, EnclosingIs

LEMMA EnclosingRoot == Enclosing[Root] = {Root}
<1>1. Root \in Scopes /\ {Root} \in SUBSET Scopes /\ Closed({Root})
  BY TreeAssumption DEF Closed
<1>2. Enclosing[Root] \subseteq {Root} /\ Root \in Enclosing[Root]
  BY <1>1, EnclosingIs
<1> QED
  BY <1>2

LEMMA EnclosingStep ==
  ASSUME NEW s \in Scopes, s /= Root
  PROVE  /\ Parent[s] \in Scopes
         /\ Enclosing[s] = {s} \cup Enclosing[Parent[s]]
<1>1. Parent[s] \in Scopes
  BY TreeAssumption
<1>2. s \in Enclosing[s] /\ Parent[s] \in Enclosing[s]
  BY EnclosingIs DEF Closed
<1>3. {s} \cup Enclosing[Parent[s]] \subseteq Enclosing[s]
  BY <1>2, EnclosingUp
<1>4. Enclosing[s] \subseteq {s} \cup Enclosing[Parent[s]]
  <2> DEFINE S == {s} \cup Enclosing[Parent[s]]
  <2>1. S \in SUBSET Scopes /\ s \in S /\ Parent[s] \in Enclosing[Parent[s]]
    BY <1>1, EnclosingIs
  <2>2. Closed(S)
    BY <1>1, <2>1, EnclosingIs DEF Closed
  <2> HIDE DEF S
  <2>3. Enclosing[s] \subseteq S
    BY <2>1, <2>2, EnclosingIs
  <2> QED
    BY <2>3 DEF S
<1> QED
  BY <1>1, <1>3, <1>4

\* No scope encloses the one around it.
LEMMA Acyclic ==
  ASSUME NEW s \in Scopes, s /= Root
  PROVE  s \notin Enclosing[Parent[s]]
<1> SUFFICES ASSUME s \in Enclosing[Parent[s]] PROVE FALSE
  OBVIOUS
<1> DEFINE C == {x \in Enclosing[s] : s \in Enclosing[x]}
<1>1. C \in SUBSET Scopes /\ s \in C
  BY EnclosingIs
<1>2. ASSUME NEW x \in C, x /= Root PROVE Parent[x] \in C
  <2>1. x \in Scopes /\ x \in Enclosing[s] /\ s \in Enclosing[x]
    BY <1>1
  <2>2. Parent[x] \in Enclosing[s]
    BY <1>2, <2>1, EnclosingIs DEF Closed
  <2>3. s \in {x} \cup Enclosing[Parent[x]]
    BY <1>2, <2>1, EnclosingStep
  <2>4. s \in Enclosing[Parent[x]]
    BY <2>3
  <2> QED
    BY <2>2, <2>4
<1>3. Closed(C)
  BY <1>2 DEF Closed
<1> HIDE DEF C
<1>4. Enclosing[s] \subseteq C /\ Root \in Enclosing[s]
  BY <1>1, <1>3, EnclosingIs
<1>5. s \in Enclosing[Root]
  BY <1>4 DEF C
<1> QED
  BY <1>5, EnclosingRoot

\* Two scopes that enclose each other are one.
LEMMA Antisymmetric ==
  ASSUME NEW s \in Scopes, NEW x \in Enclosing[s], s \in Enclosing[x]
  PROVE  x = s
<1>1. CASE s = Root
  BY <1>1, EnclosingRoot
<1>2. CASE s /= Root
  <2>1. x \in {s} \cup Enclosing[Parent[s]] /\ Parent[s] \in Scopes
    BY <1>2, EnclosingStep
  <2>2. x \in Enclosing[Parent[s]] => s \in Enclosing[Parent[s]]
    BY <2>1, EnclosingUp
  <2> QED
    BY <1>2, <2>1, <2>2, Acyclic
<1> QED
  BY <1>1, <1>2

-----------------------------------------------------------------------------
(* The nearest scope of a set.                                             *)

Closest(F) == IF F = {} THEN None ELSE CHOOSE x \in F : F \subseteq Enclosing[x]

\* The search ends at the scope itself ...
LEMMA NearestHere ==
  ASSUME NEW s \in Scopes, NEW S, s \in S
  PROVE  Nearest(S, s) = s
<1> DEFINE found == S \cap Enclosing[s]
<1>1. s \in found /\ found \subseteq Enclosing[s]
  BY EnclosingIs
<1>2. \A x \in found : found \subseteq Enclosing[x] => x = s
  BY <1>1, Antisymmetric
<1>3. (CHOOSE x \in found : found \subseteq Enclosing[x]) = s
  BY <1>1, <1>2
<1> QED
  BY <1>1, <1>3 DEF Nearest

\* ... or goes on in the one around it, and ends at the root.
LEMMA NearestOutward ==
  ASSUME NEW s \in Scopes, NEW S, s \notin S
  PROVE  /\ s /= Root => Nearest(S, s) = Nearest(S, Parent[s])
         /\ s = Root => Nearest(S, s) = None
<1>1. ASSUME s /= Root PROVE S \cap Enclosing[s] = S \cap Enclosing[Parent[s]]
  BY <1>1, EnclosingStep
<1>2. ASSUME s = Root PROVE S \cap Enclosing[s] = {}
  BY <1>2, EnclosingRoot
<1>3. \A x : Nearest(S, x) = Closest(S \cap Enclosing[x])
  BY DEF Nearest, Closest
<1>4. Closest({}) = None
  BY DEF Closest
<1> QED
  BY <1>1, <1>2, <1>3, <1>4

\* What it finds is a scope of the set that encloses the one it begins in.
LEMMA NearestFound ==
  ASSUME NEW s \in Scopes, NEW S, Nearest(S, s) /= None
  PROVE  Nearest(S, s) \in S \cap Enclosing[s]
<1> DEFINE Good(x) == S \cap Enclosing[x] = {}
                        \/ \E y \in S \cap Enclosing[x] : S \cap Enclosing[x] \subseteq Enclosing[y]
           Bad == {x \in Scopes : ~Good(x)}
<1>1. \A x \in Scopes : x \in S => Good(x)
  BY EnclosingIs
<1>2. ASSUME NEW x \in Bad, x /= Root PROVE Parent[x] \in Bad
  <2>1. x \in Scopes /\ ~Good(x) /\ x \notin S
    BY <1>1
  <2>2. Parent[x] \in Scopes /\ S \cap Enclosing[x] = S \cap Enclosing[Parent[x]]
    BY <1>2, <2>1, EnclosingStep
  <2> QED
    BY <2>1, <2>2
<1>3. Good(Root)
  BY EnclosingRoot
<1>4. s \notin Bad
  <2>1. Closed(Bad) /\ Bad \in SUBSET Scopes
    BY <1>2 DEF Closed
  <2> HIDE DEF Bad
  <2>2. s \in Bad => Root \in Bad
    BY <2>1, EnclosingIs
  <2> QED
    BY <1>3, <2>2 DEF Bad
<1>5. S \cap Enclosing[s] /= {}
  BY DEF Nearest
<1>6. \E y \in S \cap Enclosing[s] : S \cap Enclosing[s] \subseteq Enclosing[y]
  BY <1>4, <1>5
<1> QED
  BY <1>5, <1>6 DEF Nearest

-----------------------------------------------------------------------------
(* The invariant.                                                          *)

Ops ==
  [pc : {"idle", "typing", "getting", "assign", "walking", "define"},
   kind : {"none", "read", "compound", "assign", "nonlocal"},
   origin : Scopes, at : Scopes, val : Values \cup {None},
   visible : Scopes \cup {None}, alone : BOOLEAN]

\* An operation in progress, with bindings in the scopes B and annotations in Y.
\* What it would find is still there and still ahead; and an assignment that is
\* alone finds what it would find if it began now.
OpInv(op, B, Y) ==
  /\ op \in Ops /\ op.at \in Enclosing[op.origin]
  /\ op.pc \in {"typing", "assign", "walking", "define"} => op.val \in Values
  /\ op.kind = "nonlocal" => op.origin /= Root
  /\ op.visible /= None =>
       /\ op.pc \in {"typing", "getting", "walking"}
       /\ op.visible \in (IF op.pc = "typing" THEN Y ELSE B)
       /\ op.visible \in Enclosing[op.at]
  /\ op.alone /\ op.kind = "assign" =>
       /\ op.pc = "walking" => Nearest(B, op.at) = Nearest(B, op.origin)
       /\ op.pc = "define" => Nearest(B, op.origin) = None

\* What was assigned last is found where it was assigned.
BoundIn(st) == {s \in Scopes : st[s] /= None}
LastInv(l, st, g) ==
  l /= None /\ l.kind = "assign" /\ l.scope \notin g =>
    /\ l.scope \in Scopes /\ Nearest(BoundIn(st), l.scope) \in Scopes
    /\ st[Nearest(BoundIn(st), l.scope)] = l.val

\* What every step preserves.
IInv ==
  /\ store \in [Scopes -> Values \cup {None}]
  /\ types \in [Scopes -> Types \cup {None}]
  /\ globals \subseteq Declaring /\ nonlocs \subseteq Declaring
  /\ walk \in [Threads -> Ops]
  /\ \A t \in Threads : OpInv(walk[t], BoundIn(store), Typed)
  /\ LastInv(last, store, globals)

-----------------------------------------------------------------------------
(* What steps do to operations.                                            *)

LEMMA OpRecord ==
  ASSUME NEW pc \in {"idle", "typing", "getting", "assign", "walking", "define"},
         NEW kind \in {"none", "read", "compound", "assign", "nonlocal"},
         NEW o \in Scopes, NEW a \in Scopes, NEW v \in Values \cup {None},
         NEW x \in Scopes \cup {None}, NEW b \in BOOLEAN
  PROVE  [pc |-> pc, kind |-> kind, origin |-> o, at |-> a, val |-> v, visible |-> x,
          alone |-> b] \in Ops
BY DEF Ops

\* An operation begins.
LEMMA OpBegins ==
  ASSUME NEW B \in SUBSET Scopes, NEW Y \in SUBSET Scopes, NEW s \in Scopes
  PROVE  /\ OpInv(Idle, B, Y)
         /\ \A v \in Values :
              /\ OpInv(Op("assign", "assign", s, v, None), B, Y)
              /\ OpInv(Op("typing", "assign", s, v, Nearest(Y, s)), B, Y)
         /\ \A kind \in {"read", "compound"} :
              OpInv(Op("getting", kind, s, None, Nearest(B, s)), B, Y)
<1>1. /\ Root \in Scopes /\ Root \in Enclosing[Root] /\ s \in Enclosing[s]
      /\ Nearest(B, s) \in Scopes \cup {None} /\ Nearest(Y, s) \in Scopes \cup {None}
      /\ Nearest(B, s) /= None => Nearest(B, s) \in B /\ Nearest(B, s) \in Enclosing[s]
      /\ Nearest(Y, s) /= None => Nearest(Y, s) \in Y /\ Nearest(Y, s) \in Enclosing[s]
  BY TreeAssumption, EnclosingIs, NearestFound
<1>2. OpInv(Idle, B, Y)
  BY <1>1 DEF OpInv, Idle, Ops
<1>3. ASSUME NEW v \in Values PROVE OpInv(Op("assign", "assign", s, v, None), B, Y)
  <2> DEFINE op == Op("assign", "assign", s, v, None)
  <2>1. op = [pc |-> "assign", kind |-> "assign", origin |-> s, at |-> s, val |-> v,
              visible |-> None, alone |-> TRUE]
    BY DEF Op
  <2>2. op \in Ops
    <3>1. /\ "assign" \in {"idle", "typing", "getting", "assign", "walking", "define"}
          /\ "assign" \in {"none", "read", "compound", "assign", "nonlocal"}
          /\ v \in Values \cup {None} /\ None \in Scopes \cup {None}
      BY <1>1
    <3> HIDE DEF op
    <3> QED
      BY <2>1, <3>1, OpRecord, Zenon
  <2>3. /\ op.pc = "assign" /\ op.kind = "assign" /\ op.origin = s /\ op.at = s
        /\ op.val = v /\ op.visible = None /\ (op.alone <=> TRUE)
    BY <2>1
  <2> HIDE DEF op
  <2>4. OpInv(op, B, Y)
    BY <1>1, <2>2, <2>3 DEF OpInv
  <2> QED
    BY <2>4 DEF op
<1>4. ASSUME NEW v \in Values PROVE OpInv(Op("typing", "assign", s, v, Nearest(Y, s)), B, Y)
  <2> DEFINE op == Op("typing", "assign", s, v, Nearest(Y, s))
  <2>1. op = [pc |-> "typing", kind |-> "assign", origin |-> s, at |-> s, val |-> v,
              visible |-> Nearest(Y, s), alone |-> FALSE]
    BY DEF Op
  <2>2. op \in Ops
    <3>1. /\ "typing" \in {"idle", "typing", "getting", "assign", "walking", "define"}
          /\ "assign" \in {"none", "read", "compound", "assign", "nonlocal"}
          /\ v \in Values \cup {None} /\ Nearest(Y, s) \in Scopes \cup {None}
      BY <1>1
    <3> HIDE DEF op
    <3> QED
      BY <2>1, <3>1, OpRecord, Zenon
  <2>3. /\ op.pc = "typing" /\ op.kind = "assign" /\ op.origin = s /\ op.at = s
        /\ op.val = v /\ op.visible = Nearest(Y, s) /\ (op.alone <=> FALSE)
    BY <2>1
  <2> HIDE DEF op
  <2>4. OpInv(op, B, Y)
    BY <1>1, <2>2, <2>3 DEF OpInv
  <2> QED
    BY <2>4 DEF op
<1>5. ASSUME NEW kind \in {"read", "compound"}
      PROVE  OpInv(Op("getting", kind, s, None, Nearest(B, s)), B, Y)
  <2> DEFINE op == Op("getting", kind, s, None, Nearest(B, s))
  <2>1. op = [pc |-> "getting", kind |-> kind, origin |-> s, at |-> s, val |-> None,
              visible |-> Nearest(B, s), alone |-> FALSE]
    BY DEF Op
  <2>2. op \in Ops
    <3>1. /\ "getting" \in {"idle", "typing", "getting", "assign", "walking", "define"}
          /\ kind \in {"none", "read", "compound", "assign", "nonlocal"}
          /\ None \in Values \cup {None} /\ Nearest(B, s) \in Scopes \cup {None}
      BY <1>1
    <3> HIDE DEF op
    <3> QED
      BY <2>1, <3>1, OpRecord, Zenon
  <2>3. /\ op.pc = "getting" /\ op.kind = kind /\ op.origin = s /\ op.at = s
        /\ op.val = None /\ op.visible = Nearest(B, s) /\ (op.alone <=> FALSE)
    BY <2>1
  <2> HIDE DEF op
  <2>4. OpInv(op, B, Y)
    BY <1>1, <2>2, <2>3 DEF OpInv
  <2> QED
    BY <2>4 DEF op
<1> QED
  BY <1>2, <1>3, <1>4, <1>5

\* It looks one scope further out, when there is nothing to find in this one.
LEMMA OpOutward ==
  ASSUME NEW B \in SUBSET Scopes, NEW Y \in SUBSET Scopes, NEW op, OpInv(op, B, Y),
         op.pc \in {"typing", "getting", "walking"}, op.at /= Root,
         op.at \notin (IF op.pc = "typing" THEN Y ELSE B)
  PROVE  OpInv([op EXCEPT !.at = Parent[@]], B, Y)
<1> DEFINE out == [op EXCEPT !.at = Parent[@]]
<1>1. /\ op \in Ops /\ op.at \in Scopes /\ op.origin \in Scopes
      /\ op.at \in Enclosing[op.origin]
  BY DEF OpInv, Ops
<1>2. /\ Parent[op.at] \in Scopes /\ Enclosing[op.at] = {op.at} \cup Enclosing[Parent[op.at]]
      /\ Parent[op.at] \in Enclosing[op.origin]
  BY <1>1, EnclosingStep, EnclosingIs DEF Closed
<1>3. /\ out \in Ops /\ out.at = Parent[op.at] /\ out.pc = op.pc /\ out.kind = op.kind
      /\ out.origin = op.origin /\ out.val = op.val /\ out.visible = op.visible
      /\ out.alone = op.alone
  BY <1>1, <1>2 DEF Ops
<1>4. op.pc = "walking" => Nearest(B, op.at) = Nearest(B, Parent[op.at])
  BY <1>1, NearestOutward
<1> HIDE DEF out
<1>5. OpInv(out, B, Y)
  BY <1>1, <1>2, <1>3, <1>4 DEF OpInv
<1> QED
  BY <1>5 DEF out

\* Others bind and annotate.
LEMMA OpLater ==
  ASSUME NEW B, NEW Y, NEW op, OpInv(op, B, Y), NEW C, NEW Z, B \subseteq C, Y \subseteq Z
  PROVE  OpInv([op EXCEPT !.alone = FALSE], C, Z) /\ (C = B => OpInv(op, C, Z))
<1> DEFINE x == [op EXCEPT !.alone = FALSE]
<1>1. /\ x \in Ops /\ x.at = op.at /\ x.pc = op.pc /\ x.kind = op.kind
      /\ x.origin = op.origin /\ x.val = op.val /\ x.visible = op.visible
      /\ x.alone = FALSE
  BY DEF OpInv, Ops
<1>2. op.visible \in (IF op.pc = "typing" THEN Y ELSE B)
        => op.visible \in (IF op.pc = "typing" THEN Z ELSE C)
  OBVIOUS
<1> HIDE DEF x
<1>3. OpInv(x, C, Z)
  BY <1>1, <1>2 DEF OpInv
<1>4. C = B => OpInv(op, C, Z)
  BY <1>2 DEF OpInv
<1> QED
  BY <1>3, <1>4 DEF x

\* A scope gets a value, and the thread that gave it is idle.
LEMMA BindKeeps ==
  ASSUME NEW st \in [Scopes -> Values \cup {None}], NEW w \in [Threads -> Ops],
         NEW Y \in SUBSET Scopes, \A u \in Threads : OpInv(w[u], BoundIn(st), Y),
         NEW s \in Scopes, NEW v \in Values, NEW t \in Threads
  PROVE  LET r == [st EXCEPT ![s] = v]
             x == [u \in Threads |-> IF u = t THEN Idle ELSE [w[u] EXCEPT !.alone = FALSE]]
         IN  /\ r \in [Scopes -> Values \cup {None}]
             /\ BoundIn(r) = BoundIn(st) \cup {s}
             /\ x \in [Threads -> Ops]
             /\ \A u \in Threads : OpInv(x[u], BoundIn(r), Y)
<1> DEFINE r == [st EXCEPT ![s] = v]
           x == [u \in Threads |-> IF u = t THEN Idle ELSE [w[u] EXCEPT !.alone = FALSE]]
<1>1. r \in [Scopes -> Values \cup {None}]
  OBVIOUS
<1>2. v /= None
  BY NoneAssumption
<1>3. BoundIn(r) = BoundIn(st) \cup {s}
  BY <1>2 DEF BoundIn
<1>4. BoundIn(r) \in SUBSET Scopes
  BY DEF BoundIn
<1> HIDE DEF r
<1>5. ASSUME NEW u \in Threads PROVE OpInv(x[u], BoundIn(r), Y)
  <2>1. CASE u = t
    BY <1>4, <2>1, OpBegins
  <2>2. CASE u /= t
    <3>1. OpInv([w[u] EXCEPT !.alone = FALSE], BoundIn(r), Y)
      BY <1>3, OpLater
    <3> QED
      BY <2>2, <3>1
  <2> QED
    BY <2>1, <2>2
<1>6. x \in [Threads -> Ops]
  BY <1>5 DEF OpInv
<1> QED
  BY <1>1, <1>3, <1>5, <1>6 DEF r

\* One operation goes on.
LEMMA WalkKeeps ==
  ASSUME NEW w \in [Threads -> Ops], NEW B, NEW Y, \A u \in Threads : OpInv(w[u], B, Y),
         NEW t \in Threads, NEW x, OpInv(x, B, Y)
  PROVE  /\ [w EXCEPT ![t] = x] \in [Threads -> Ops]
         /\ \A u \in Threads : OpInv([w EXCEPT ![t] = x][u], B, Y)
<1>1. x \in Ops
  BY DEF OpInv
<1> QED
  BY <1>1

-----------------------------------------------------------------------------
(* Steps.                                                                  *)

LEMMA Sets ==
  /\ Bound = BoundIn(store)
  /\ BoundIn(store) \in SUBSET Scopes /\ Typed \in SUBSET Scopes
BY DEF Bound, BoundIn, Typed

LEMMA Initial == Init => IInv
<1> SUFFICES ASSUME Init PROVE IInv
  OBVIOUS
<1>1. OpInv(Idle, BoundIn(store), Typed)
  BY OpBegins, TreeAssumption, Sets
<1>2. Idle \in Ops
  BY <1>1 DEF OpInv
<1>3. \A t \in Threads : OpInv(walk[t], BoundIn(store), Typed)
  BY <1>1 DEF Init
<1>4. LastInv(last, store, globals)
  BY DEF Init, LastInv
<1> QED
  BY <1>2, <1>3, <1>4 DEF Init, IInv

\* A step that changes no more than one operation and the declarations.
LEMMA Quiet ==
  ASSUME IInv, store' = store, types' = types, last' = last,
         globals \subseteq globals', globals' \subseteq Declaring, nonlocs' \subseteq Declaring,
         walk' = walk \/ \E t \in Threads : \E x : OpInv(x, BoundIn(store), Typed)
                                               /\ walk' = [walk EXCEPT ![t] = x]
  PROVE  IInv'
<1>1. BoundIn(store') = BoundIn(store) /\ Typed' = Typed
  BY DEF Typed
<1>2. walk' \in [Threads -> Ops] /\ \A u \in Threads : OpInv(walk'[u], BoundIn(store), Typed)
  <2>1. /\ walk \in [Threads -> Ops]
        /\ \A u \in Threads : OpInv(walk[u], BoundIn(store), Typed)
    BY DEF IInv
  <2>2. ASSUME NEW t \in Threads, NEW x, OpInv(x, BoundIn(store), Typed),
               walk' = [walk EXCEPT ![t] = x]
        PROVE  /\ walk' \in [Threads -> Ops]
               /\ \A u \in Threads : OpInv(walk'[u], BoundIn(store), Typed)
    BY <2>1, <2>2, WalkKeeps
  <2> QED
    BY <2>1, <2>2
<1>3. LastInv(last', store', globals')
  BY DEF LastInv, IInv
<1> QED
  BY <1>1, <1>2, <1>3 DEF IInv

\* A step that binds the name in a scope.
LEMMA Loud ==
  ASSUME IInv, NEW t \in Threads, NEW s \in Scopes, NEW v \in Values,
         store' = [store EXCEPT ![s] = v],
         walk' = [u \in Threads |-> IF u = t THEN Idle ELSE [walk[u] EXCEPT !.alone = FALSE]],
         types' = types, globals' = globals, nonlocs' = nonlocs,
         LastInv(last', store', globals)
  PROVE  IInv'
<1>1. Typed' = Typed /\ Typed \in SUBSET Scopes
  BY DEF Typed
<1>2. /\ store \in [Scopes -> Values \cup {None}] /\ walk \in [Threads -> Ops]
      /\ \A u \in Threads : OpInv(walk[u], BoundIn(store), Typed)
  BY DEF IInv
<1>3. /\ store' \in [Scopes -> Values \cup {None}] /\ walk' \in [Threads -> Ops]
      /\ \A u \in Threads : OpInv(walk'[u], BoundIn(store'), Typed)
  <2> DEFINE r == [store EXCEPT ![s] = v]
             x == [u \in Threads |-> IF u = t THEN Idle ELSE [walk[u] EXCEPT !.alone = FALSE]]
  <2>1. /\ r \in [Scopes -> Values \cup {None}]
        /\ BoundIn(r) = BoundIn(store) \cup {s}
        /\ x \in [Threads -> Ops]
        /\ \A u \in Threads : OpInv(x[u], BoundIn(r), Typed)
    BY <1>1, <1>2, BindKeeps
  <2>2. store' = r /\ walk' = x
    OBVIOUS
  <2> HIDE DEF r, x
  <2> QED
    BY <2>1, <2>2
<1> QED
  BY <1>1, <1>3 DEF IInv

\* Statements and expressions that begin.
LEMMA StatementKeeps ==
  ASSUME IInv, NEW t \in Threads, NEW s \in Scopes, Statement(t, s) \/ Read(t, s)
  PROVE  IInv'
<1>1. /\ store \in [Scopes -> Values \cup {None}] /\ types \in [Scopes -> Types \cup {None}]
      /\ globals \subseteq Declaring /\ nonlocs \subseteq Declaring
      /\ walk \in [Threads -> Ops] /\ Bound = BoundIn(store)
      /\ \A u \in Threads : OpInv(walk[u], BoundIn(store), Typed)
  BY Sets DEF IInv
<1>2. /\ \A v \in Values :
           /\ OpInv(Op("assign", "assign", s, v, None), BoundIn(store), Typed)
           /\ OpInv(Op("typing", "assign", s, v, Nearest(Typed, s)), BoundIn(store), Typed)
      /\ \A kind \in {"read", "compound"} :
           OpInv(Op("getting", kind, s, None, Nearest(BoundIn(store), s)), BoundIn(store), Typed)
  BY Sets, OpBegins
<1>3. ASSUME NEW v \in Values, Set(t, s, v) PROVE IInv'
  <2>1. LastInv(last', store', globals)
    BY <1>3 DEF Set, LastInv
  <2> QED
    BY <1>3, <2>1, Loud DEF Set, Binds
<1>4. CASE DeclareGlobal(t, s)
  <2>1. /\ globals' = globals \cup {s} /\ s \in Declaring /\ nonlocs' = nonlocs
        /\ store' = store /\ types' = types /\ walk' = walk /\ last' = last
    BY <1>4 DEF DeclareGlobal
  <2>2. globals \subseteq globals' /\ globals' \subseteq Declaring /\ nonlocs' \subseteq Declaring
    BY <1>1, <2>1
  <2> QED
    BY <2>1, <2>2, Quiet
<1>5. CASE DeclareNonlocal(t, s)
  <2>1. /\ nonlocs' = nonlocs \cup {s} /\ s \in Declaring /\ globals' = globals
        /\ store' = store /\ types' = types /\ walk' = walk /\ last' = last
    BY <1>5 DEF DeclareNonlocal
  <2>2. globals \subseteq globals' /\ globals' \subseteq Declaring /\ nonlocs' \subseteq Declaring
    BY <1>1, <2>1
  <2> QED
    BY <2>1, <2>2, Quiet
<1>6. ASSUME NEW v \in Values, PlainAssign(t, s, v) PROVE IInv'
  <2>1. /\ walk' = [walk EXCEPT ![t] = Op("typing", "assign", s, v, Nearest(Typed, s))]
        /\ store' = store /\ types' = types /\ globals' = globals /\ nonlocs' = nonlocs
        /\ last' = last
    BY <1>6 DEF PlainAssign, Begins
  <2> QED
    BY <1>1, <1>2, <2>1, Quiet
<1>7. CASE CompoundAssign(t, s)
  <2>1. /\ walk' = [walk EXCEPT ![t] =
                      Op("getting", "compound", s, None, Nearest(BoundIn(store), s))]
        /\ store' = store /\ types' = types /\ globals' = globals /\ nonlocs' = nonlocs
        /\ last' = last
    BY <1>1, <1>7 DEF CompoundAssign, Begins
  <2> QED
    BY <1>1, <1>2, <2>1, Quiet
<1>8. ASSUME NEW v \in Values, UncheckedAssign(t, s, v) PROVE IInv'
  <2>1. /\ walk' = [walk EXCEPT ![t] = Op("assign", "assign", s, v, None)]
        /\ store' = store /\ types' = types /\ globals' = globals /\ nonlocs' = nonlocs
        /\ last' = last
    BY <1>8 DEF UncheckedAssign, Begins
  <2> QED
    BY <1>1, <1>2, <2>1, Quiet
<1>9. CASE Read(t, s)
  <2>1. /\ walk' = [walk EXCEPT ![t] =
                      Op("getting", "read", s, None, Nearest(BoundIn(store), s))]
        /\ store' = store /\ types' = types /\ globals' = globals /\ nonlocs' = nonlocs
        /\ last' = last
    BY <1>1, <1>9 DEF Read, Begins
  <2> QED
    BY <1>1, <1>2, <2>1, Quiet
<1>10. ASSUME NEW v \in Values, NEW T \in Types, AnnotatedAssign(t, s, v, T) PROVE IInv'
  <2>1. /\ walk' = [walk EXCEPT ![t] = Op("assign", "assign", s, v, None)]
        /\ types' = [types EXCEPT ![s] = T] /\ last' = None
        /\ store' = store /\ globals' = globals /\ nonlocs' = nonlocs
    BY <1>10 DEF AnnotatedAssign, Begins
  <2>2. types' \in [Scopes -> Types \cup {None}]
    BY <1>1, <2>1
  <2>3. Typed \subseteq Typed' /\ Typed' \in SUBSET Scopes
    BY <1>1, <2>1, NoneAssumption DEF Typed
  <2>4. \A u \in Threads : OpInv(walk[u], BoundIn(store), Typed')
    BY <1>1, <2>3, OpLater
  <2>5. OpInv(Op("assign", "assign", s, v, None), BoundIn(store), Typed')
    BY <1>2, <2>3, OpLater
  <2>6. walk' \in [Threads -> Ops] /\ \A u \in Threads : OpInv(walk'[u], BoundIn(store), Typed')
    BY <1>1, <2>1, <2>4, <2>5, WalkKeeps
  <2>7. LastInv(last', store', globals')
    BY <2>1 DEF LastInv
  <2> QED
    BY <1>1, <2>1, <2>2, <2>6, <2>7 DEF IInv
<1> QED
  BY <1>3, <1>4, <1>5, <1>6, <1>7, <1>8, <1>9, <1>10 DEF Statement

\* GetType and Get, one scope at a time.
LEMMA LookupKeeps ==
  ASSUME IInv, NEW t \in Threads,
         TypeFound(t) \/ TypeOutward(t) \/ Found(t) \/ GetOutward(t)
  PROVE  IInv'
<1> DEFINE op == walk[t]
           Fits(x) == OpInv(x, BoundIn(store), Typed)
<1>1. /\ globals \subseteq Declaring /\ nonlocs \subseteq Declaring /\ Bound = BoundIn(store)
      /\ Fits(op) /\ op \in Ops /\ op.origin \in Scopes
      /\ op.pc \in {"typing", "assign", "walking", "define"} => op.val \in Values
  <2>1. Fits(op)
    BY DEF IInv
  <2>2. op \in Ops /\ (op.pc \in {"typing", "assign", "walking", "define"} => op.val \in Values)
    BY <2>1 DEF OpInv
  <2> HIDE DEF op, Fits
  <2> QED
    BY <2>1, <2>2, Sets DEF IInv, Ops
<1>2. /\ Fits(Idle)
      /\ \A v \in Values : Fits(Op("assign", "assign", op.origin, v, None))
  <2> HIDE DEF op
  <2> QED
    BY <1>1, Sets, OpBegins
<1>3. ASSUME NEW x, Fits(x), walk' = [walk EXCEPT ![t] = x],
             UNCHANGED <<store, types, globals, nonlocs, last>>
      PROVE  IInv'
  BY <1>1, <1>3, Quiet
<1>4. op.pc = "typing" => Fits(Assigns(op))
  BY <1>1, <1>2 DEF Assigns
<1>5. ASSUME op.pc \in {"typing", "getting", "walking"}, op.at /= Root,
             op.at \notin (IF op.pc = "typing" THEN Typed ELSE Bound)
      PROVE  Fits([op EXCEPT !.at = Parent[@]])
  <2> HIDE DEF op
  <2> QED
    BY <1>1, <1>5, Sets, OpOutward
<1>6. CASE TypeFound(t)
  BY <1>2, <1>3, <1>4, <1>6 DEF TypeFound
<1>7. CASE TypeOutward(t)
  BY <1>3, <1>4, <1>5, <1>7 DEF TypeOutward, Outward
<1>8. CASE Found(t)
  <2>1. CASE op.kind = "read"
    BY <1>2, <1>3, <1>8, <2>1 DEF Found
  <2>2. CASE op.kind /= "read"
    <3>1. PICK v \in Values : walk' = [walk EXCEPT ![t] = Assigns([op EXCEPT !.val = v])]
      BY <1>8, <2>2 DEF Found
    <3>2. Assigns([op EXCEPT !.val = v]) = Op("assign", "assign", op.origin, v, None)
      BY <1>1 DEF Assigns, Ops
    <3> QED
      BY <1>2, <1>3, <1>8, <3>1, <3>2 DEF Found
  <2> QED
    BY <2>1, <2>2
<1>9. CASE GetOutward(t)
  BY <1>2, <1>3, <1>5, <1>9 DEF GetOutward, Outward
<1> QED
  BY <1>6, <1>7, <1>8, <1>9

\* An assignment binds scope s.
LEMMA CompletesKeeps ==
  ASSUME IInv, NEW t \in Threads, NEW s \in Scopes, walk[t].val \in Values,
         store' = [store EXCEPT ![s] = walk[t].val],
         walk' = [u \in Threads |-> IF u = t THEN Idle ELSE [walk[u] EXCEPT !.alone = FALSE]],
         types' = types, globals' = globals, nonlocs' = nonlocs,
         last' = IF walk[t].alone
                 THEN [scope |-> walk[t].origin, val |-> walk[t].val, kind |-> walk[t].kind]
                 ELSE None,
         walk[t].alone /\ walk[t].kind = "assign" /\ walk[t].origin \notin globals =>
           Nearest(BoundIn(store) \cup {s}, walk[t].origin) = s
  PROVE  IInv'
<1> DEFINE op == walk[t]
<1>1. store \in [Scopes -> Values \cup {None}] /\ op \in Ops
  BY DEF IInv
<1>2. op.origin \in Scopes
  BY <1>1 DEF Ops
<1>3. BoundIn(store') = BoundIn(store) \cup {s} /\ store'[s] = op.val
  BY <1>1, NoneAssumption DEF BoundIn
<1> HIDE DEF op
<1>4. LastInv(last', store', globals)
  <2>1. CASE op.alone /\ op.kind = "assign" /\ op.origin \notin globals
    <3>1. Nearest(BoundIn(store'), op.origin) = s
      BY <1>3, <2>1 DEF op
    <3>2. last' = [scope |-> op.origin, val |-> op.val, kind |-> op.kind]
      BY <2>1 DEF op
    <3> QED
      BY <1>2, <1>3, <3>1, <3>2 DEF LastInv
  <2>2. CASE ~(op.alone /\ op.kind = "assign" /\ op.origin \notin globals)
    BY <2>2 DEF LastInv, op
  <2> QED
    BY <2>1, <2>2
<1> QED
  BY <1>4, Loud

\* Assign.
LEMMA AssignKeeps ==
  ASSUME IInv, NEW t \in Threads,
         \/ AssignGlobal(t) \/ AssignNonlocal(t) \/ AssignPlain(t)
         \/ Rebind(t) \/ AssignOutward(t) \/ Define(t)
  PROVE  IInv'
<1> DEFINE op == walk[t]
           B == BoundIn(store)
           Fits(x) == OpInv(x, B, Typed)
<1>1. /\ globals \subseteq Declaring /\ nonlocs \subseteq Declaring /\ Bound = B
      /\ Fits(op) /\ op \in Ops /\ op.origin \in Scopes /\ op.at \in Scopes
      /\ op.pc \in {"typing", "assign", "walking", "define"} => op.val \in Values
  <2>1. Fits(op)
    BY DEF IInv
  <2>2. op \in Ops /\ (op.pc \in {"typing", "assign", "walking", "define"} => op.val \in Values)
    BY <2>1 DEF OpInv
  <2> HIDE DEF op, Fits
  <2> QED
    BY <2>1, <2>2, Sets DEF IInv, Ops
<1>2. Fits(Idle)
  BY <1>1, Sets, OpBegins
<1>3. ASSUME NEW x, Fits(x), walk' = [walk EXCEPT ![t] = x],
             UNCHANGED <<store, types, globals, nonlocs, last>>
      PROVE  IInv'
  BY <1>1, <1>3, Quiet
<1>4. ASSUME NEW s \in Scopes, op.pc \in {"assign", "walking", "define"}, Completes(t, s),
             op.alone /\ op.kind = "assign" /\ op.origin \notin globals =>
               Nearest(B \cup {s}, op.origin) = s
      PROVE  IInv'
  <2>1. op.val \in Values
    BY <1>1, <1>4
  <2> QED
    BY <1>4, <2>1, CompletesKeeps DEF Completes, Binds
<1>5. CASE AssignGlobal(t)
  BY <1>4, <1>5, TreeAssumption DEF AssignGlobal
<1>6. CASE AssignNonlocal(t)
  <2> DEFINE up == Parent[op.origin]
             x == [op EXCEPT !.pc = "walking", !.kind = "nonlocal", !.at = up,
                             !.visible = Nearest(Bound, up)]
  <2>1. CASE op.origin = Root
    BY <1>2, <1>3, <1>6, <2>1 DEF AssignNonlocal
  <2>2. CASE op.origin /= Root
    <3>1. /\ walk' = [walk EXCEPT ![t] = x] /\ op.pc = "assign"
          /\ UNCHANGED <<store, types, globals, nonlocs, last>>
      BY <1>6, <2>2 DEF AssignNonlocal
    <3>2. up \in Scopes /\ up \in Enclosing[op.origin] /\ up \in Enclosing[up]
      BY <1>1, <2>2, TreeAssumption, EnclosingIs DEF Closed
    <3>3. Nearest(Bound, up) /= None => Nearest(Bound, up) \in B \cap Enclosing[up]
      BY <1>1, <3>2, NearestFound
    <3>4. Nearest(Bound, up) \in Scopes \cup {None}
      BY <3>2, <3>3, EnclosingIs
    <3> HIDE DEF up
    <3>5. /\ x \in Ops /\ x.pc = "walking" /\ x.kind = "nonlocal" /\ x.at = up
          /\ x.visible = Nearest(Bound, up) /\ x.origin = op.origin /\ x.val = op.val
      BY <1>1, <3>2, <3>4 DEF Ops
    <3> HIDE DEF op, B, x
    <3>6. Fits(x)
      BY <1>1, <2>2, <3>1, <3>2, <3>3, <3>5 DEF OpInv
    <3> QED
      BY <1>3, <3>1, <3>6
  <2> QED
    BY <2>1, <2>2
<1>7. CASE AssignPlain(t)
  <2> DEFINE o == op.origin
             x == [op EXCEPT !.pc = "walking", !.at = o, !.visible = Nearest(Bound, o)]
  <2>1. /\ walk' = [walk EXCEPT ![t] = x] /\ op.pc = "assign"
        /\ UNCHANGED <<store, types, globals, nonlocs, last>>
    BY <1>7 DEF AssignPlain, FirstScope
  <2>2. o \in Scopes /\ o \in Enclosing[o]
    BY <1>1, EnclosingIs
  <2>3. Nearest(Bound, o) /= None => Nearest(Bound, o) \in B \cap Enclosing[o]
    BY <1>1, <2>2, NearestFound
  <2>4. Nearest(Bound, o) \in Scopes \cup {None}
    BY <2>2, <2>3, EnclosingIs
  <2>5. op.kind = "nonlocal" => o /= Root
    BY <1>1 DEF OpInv
  <2>6. /\ x \in Ops /\ x.pc = "walking" /\ x.kind = op.kind /\ x.at = o
        /\ x.visible = Nearest(Bound, o) /\ x.origin = o /\ x.val = op.val
    BY <1>1, <2>2, <2>4 DEF Ops
  <2> HIDE DEF op, B, x, o
  <2>7. Fits(x)
    BY <1>1, <2>1, <2>2, <2>3, <2>5, <2>6 DEF OpInv
  <2> QED
    BY <1>3, <2>1, <2>7
<1>8. CASE Rebind(t)
  <2>1. op.pc = "walking" /\ op.at \in B /\ Completes(t, op.at)
    BY <1>1, <1>8 DEF Rebind
  <2>2. op.alone /\ op.kind = "assign" => Nearest(B, op.at) = Nearest(B, op.origin)
    BY <1>1, <2>1 DEF OpInv
  <2>3. Nearest(B, op.at) = op.at /\ B \cup {op.at} = B
    BY <1>1, <2>1, NearestHere
  <2> HIDE DEF op, B
  <2> QED
    BY <1>1, <1>4, <2>1, <2>2, <2>3
<1>9. CASE AssignOutward(t)
  <2>1. op.pc = "walking" /\ op.at \notin B /\ UNCHANGED <<store, types, globals, nonlocs, last>>
    BY <1>1, <1>9 DEF AssignOutward
  <2>2. CASE op.at = Root
    <3> DEFINE x == [op EXCEPT !.pc = "define"]
    <3>1. walk' = [walk EXCEPT ![t] = x]
      BY <1>9, <2>2 DEF AssignOutward
    <3>2. /\ x \in Ops /\ x.pc = "define" /\ x.kind = op.kind /\ x.at = op.at
          /\ x.visible = op.visible /\ x.origin = op.origin /\ x.val = op.val
          /\ x.alone = op.alone
      BY <1>1 DEF Ops
    <3> HIDE DEF op, B, x
    <3>3. op.visible = None
      BY <1>1, <2>1, <2>2, EnclosingRoot DEF OpInv
    <3>4. Nearest(B, op.at) = None
      BY <1>1, <2>1, <2>2, NearestOutward
    <3>5. Fits(x)
      BY <1>1, <2>1, <3>2, <3>3, <3>4 DEF OpInv
    <3> QED
      BY <1>3, <2>1, <3>1, <3>5
  <2>3. CASE op.at /= Root
    <3>1. walk' = [walk EXCEPT ![t] = [op EXCEPT !.at = Parent[@]]]
      BY <1>9, <2>3 DEF AssignOutward, Outward
    <3>2. Fits([op EXCEPT !.at = Parent[@]])
      <4> HIDE DEF op
      <4> QED
        BY <1>1, <2>1, <2>3, Sets, OpOutward
    <3> QED
      BY <1>3, <2>1, <3>1, <3>2
  <2> QED
    BY <2>2, <2>3
<1>10. CASE Define(t)
  <2>1. op.pc = "define" /\ Completes(t, DefineAt(op))
    BY <1>10 DEF Define
  <2>2. DefineAt(op) \in Scopes
    BY <1>1, TreeAssumption DEF DefineAt, OpInv
  <2>3. op.kind = "assign" => DefineAt(op) = op.origin
    BY DEF DefineAt
  <2>4. Nearest(B \cup {op.origin}, op.origin) = op.origin
    BY <1>1, NearestHere
  <2> HIDE DEF op, B
  <2> QED
    BY <1>4, <2>1, <2>2, <2>3, <2>4
<1> QED
  BY <1>5, <1>6, <1>7, <1>8, <1>9, <1>10

LEMMA Inductive == IInv /\ [Next]_vars => IInv'
<1> SUFFICES ASSUME IInv, [Next]_vars PROVE IInv'
  OBVIOUS
<1>1. ASSUME NEW t \in Threads, Continue(t) PROVE IInv'
  BY <1>1, LookupKeeps, AssignKeeps DEF Continue
<1>2. ASSUME NEW s \in Scopes, Statement(Runner[s], s) PROVE IInv'
  BY <1>2, StatementKeeps, TreeAssumption
<1>3. ASSUME NEW t \in Threads, NEW s \in Scopes, Read(t, s) PROVE IInv'
  BY <1>3, StatementKeeps
<1>4. CASE UNCHANGED vars
  BY <1>4, Quiet DEF vars, IInv
<1> QED
  BY <1>1, <1>2, <1>3, <1>4 DEF Next

-----------------------------------------------------------------------------
(* What follows.                                                           *)

\* Walks stay in the chain of their scope, and what is about to be bound is a value.
THEOREM TypeCorrect == Spec => []TypeOK
<1>1. IInv => TypeOK
  <2> SUFFICES ASSUME IInv PROVE TypeOK
    OBVIOUS
  <2>1. ASSUME NEW t \in Threads
        PROVE  /\ Inside(walk[t].origin, walk[t].at, Root)
               /\ walk[t].pc \in {"assign", "walking", "define"} => walk[t].val \in Values
    <3>1. OpInv(walk[t], BoundIn(store), Typed)
      BY DEF IInv
    <3>2. walk[t].at \in Scopes
      BY <3>1 DEF OpInv, Ops
    <3> QED
      BY <3>1, <3>2, EnclosingIs DEF OpInv, Inside
  <2> QED
    BY <2>1 DEF IInv, TypeOK, Ops
<1> QED
  BY <1>1, Initial, Inductive, PTL DEF Spec

\* No operation passes over what was there when it began, whatever other goroutines
\* bind, in any tree of scopes (Env.Get, GetType and Assign, one lock at a time).
THEOREM NoSkipHolds == Spec => []NoSkip
<1>1. IInv => NoSkip
  <2> SUFFICES ASSUME IInv, NEW t \in Threads, walk[t].visible /= None
               PROVE  /\ walk[t].pc /= "define"
                      /\ Inside(walk[t].origin, walk[t].at, walk[t].visible)
    BY DEF NoSkip
  <2>1. OpInv(walk[t], BoundIn(store), Typed)
    BY DEF IInv
  <2> QED
    BY <2>1 DEF OpInv, Inside
<1> QED
  BY <1>1, Initial, Inductive, PTL DEF Spec

\* A scope reads what was assigned in it, and so does every scope that finds the
\* same binding (Assign and Get walk the same way), in any tree of scopes.
THEOREM ReadBackHolds == Spec => []ReadBack
<1>1. IInv => ReadBack
  BY DEF IInv, LastInv, ReadBack, Bound, BoundIn
<1> QED
  BY <1>1, Initial, Inductive, PTL DEF Spec
=============================================================================

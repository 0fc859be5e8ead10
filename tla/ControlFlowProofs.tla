------------------------- MODULE ControlFlowProofs -------------------------
(***************************************************************************)
(* Proofs about ControlFlow: however deep constructs nest and however many *)
(* calls are deferred, the defer lists belong to the calls, a finally runs, *)
(* and a return ends the call that it comes from.                           *)
(***************************************************************************)
EXTENDS ControlFlow, FiniteSetTheorems, SequenceTheorems, WellFoundedInduction, TLAPS

\* The calls of a stack whose body runs, and the innermost of some of them.
CallsOf(s) == {p \in 1 .. Len(s) : s[p].kind = "func"}
Innermost(R) == IF R = {} THEN 0 ELSE CHOOSE p \in R : \A q \in R : q <= p

Base(scr) == IF scr THEN 1 ELSE 0
Rank(R, p) == Cardinality({q \in R : q <= p})

\* The defer lists d above the first b are those of the calls R, in order.
ListsMatch(R, s, d, b) ==
  /\ Len(d) = b + Cardinality(R)
  /\ \A p \in R : d[b + Rank(R, p)] = s[p].own

\* The try constructs that owe their finally are those that have one.
Owing(s, o) ==
  /\ \A p \in o : s[p].kind \in {"try", "handler"} /\ s[p].finally
  /\ \A p \in 1 .. Len(s) : s[p].kind \in {"try", "handler"} /\ s[p].finally => p \in o

\* A return that waits for a cleanup comes from the call around the cleanup.
KeepsHome(s, c, p) ==
  c.kind \in {"finally", "closing"} /\ c.kept.kind = "return"
    => c.kept.home = Innermost({q \in CallsOf(s) : q < p})
KeptHome(s) == \A p \in 1 .. Len(s) : KeepsHome(s, s[p], p)

\* Only the last call of a cleanup goes over the bound, and it defers nothing.
Overhangs(c) == c.kind \in {"func", "defers"} /\ c.own = 0 /\ c.left = 0
Overhang(s) == \A p \in 1 .. Len(s) : p > MaxStack => Overhangs(s[p])

StackInv(s, d, scr, o) ==
  /\ s \in Seq(Constructs) /\ Len(s) <= MaxStack + 1
  /\ d \in Seq(Nat) /\ scr \in BOOLEAN /\ o \subseteq 1 .. Len(s)
  /\ ListsMatch(CallsOf(s), s, d, Base(scr))
  /\ Owing(s, o) /\ KeptHome(s) /\ Overhang(s)

SignalInv(s, g) ==
  /\ g \in [kind : Signals, home : Nat]
  /\ g.kind = "return" => g.home = Innermost(CallsOf(s))

\* What every step preserves.
IInv == StackInv(stack, deferStack, scratch, owed) /\ SignalInv(stack, sig)

-----------------------------------------------------------------------------
(* The innermost of some calls, and their ranks.                           *)

\* There is an innermost call among some.
LEMMA InnermostIs ==
  ASSUME NEW R, NEW m \in Nat, m \in R, \A q \in R : q \in Nat /\ q <= m
  PROVE  Innermost(R) = m
<1>1. \A p \in R : (\A q \in R : q <= p) => p = m
  <2>1. ASSUME NEW p \in R, \A q \in R : q <= p PROVE p = m
    <3>1. m <= p /\ p <= m /\ p \in Nat
      BY <2>1
    <3> QED
      BY <3>1
  <2> QED
    BY <2>1
<1> QED
  BY <1>1 DEF Innermost

LEMMA InnermostIn ==
  ASSUME NEW n \in Nat, NEW R, R \subseteq 1 .. n
  PROVE  /\ Innermost(R) \in Nat
         /\ R /= {} => Innermost(R) \in R /\ \A q \in R : q <= Innermost(R)
<1>1. CASE R = {}
  BY <1>1 DEF Innermost
<1>2. CASE R /= {}
  <2> DEFINE Above == {n - q : q \in R}
  <2>0. \A q \in R : q \in Nat /\ n - q \in Nat
    OBVIOUS
  <2>1. Above \subseteq Nat /\ Above /= {}
    BY <1>2, <2>0
  <2>2. \E x \in Above : \A y \in Above : ~ (<<y, x>> \in OpToRel(<, Nat))
    BY <2>1, NatLessThanWellFounded, WFMin
  <2>3. PICK x \in Above : \A y \in Above : ~ (y < x)
    BY <2>1, <2>2 DEF OpToRel
  <2>4. PICK m \in R : x = n - m
    OBVIOUS
  <2>5. ASSUME NEW q \in R PROVE q <= m
    <3>1. n - q \in Above
      OBVIOUS
    <3>2. ~ (n - q < n - m)
      BY <3>1, <2>3, <2>4
    <3> QED
      BY <2>0, <3>2
  <2>6. Innermost(R) = m
    BY <2>0, <2>5, InnermostIs
  <2> QED
    BY <2>5, <2>6
<1> QED
  BY <1>1, <1>2

\* Some of the first n positions: how many, and their ranks.
LEMMA RankFacts ==
  ASSUME NEW n \in Nat, NEW R, R \subseteq 1 .. n
  PROVE  /\ IsFiniteSet(R) /\ Cardinality(R) \in Nat
         /\ \A p \in R : Rank(R, p) \in 1 .. Cardinality(R)
<1>1. IsFiniteSet(R)
  <2>1. IsFiniteSet(1 .. n)
    BY FS_Interval
  <2> QED
    BY <2>1, FS_Subset
<1>2. ASSUME NEW p \in R PROVE Rank(R, p) \in 1 .. Cardinality(R)
  <2> DEFINE U == {q \in R : q <= p}
  <2>1. U \subseteq R /\ p \in U
    OBVIOUS
  <2>2. IsFiniteSet(U) /\ Cardinality(U) \in Nat /\ Cardinality(U) <= Cardinality(R)
    BY <1>1, <2>1, FS_Subset, FS_CardinalityType
  <2>3. Cardinality(U) /= 0
    BY <2>1, <2>2, FS_EmptySet
  <2>4. Cardinality(R) \in Nat
    BY <1>1, FS_CardinalityType
  <2> QED
    BY <2>2, <2>3, <2>4 DEF Rank
<1> QED
  BY <1>1, <1>2, FS_CardinalityType

\* A call further in leaves the ranks of the others, and has the last one.
LEMMA RankAdded ==
  ASSUME NEW n \in Nat, NEW R, R \subseteq 1 .. n
  PROVE  LET T == R \cup {n + 1}
         IN  /\ Cardinality(T) = Cardinality(R) + 1
             /\ \A p \in R : Rank(T, p) = Rank(R, p)
             /\ Rank(T, n + 1) = Cardinality(T)
<1> DEFINE T == R \cup {n + 1}
<1>1. Cardinality(T) = Cardinality(R) + 1
  <2>1. n + 1 \notin R
    OBVIOUS
  <2> QED
    BY <2>1, RankFacts, FS_AddElement
<1>2. ASSUME NEW p \in R PROVE Rank(T, p) = Rank(R, p)
  <2>1. {q \in T : q <= p} = {q \in R : q <= p}
    OBVIOUS
  <2> QED
    BY <2>1 DEF Rank
<1>3. {q \in T : q <= n + 1} = T
  <2>1. \A q \in T : q <= n + 1
    OBVIOUS
  <2> QED
    BY <2>1
<1> QED
  BY <1>1, <1>2, <1>3 DEF Rank

\* Without the innermost call the others keep their ranks, and it had the last.
LEMMA RankRemoved ==
  ASSUME NEW n \in Nat \ {0}, NEW R, R \subseteq 1 .. n, n \in R
  PROVE  LET T == R \ {n}
         IN  /\ Cardinality(T) = Cardinality(R) - 1
             /\ \A p \in T : Rank(T, p) = Rank(R, p) /\ Rank(R, p) < Cardinality(R)
             /\ Rank(R, n) = Cardinality(R)
<1> DEFINE T == R \ {n}
<1>1. T \subseteq 1 .. n - 1 /\ n - 1 \in Nat /\ (n - 1) + 1 = n /\ R = T \cup {(n - 1) + 1}
  OBVIOUS
<1>2. /\ Cardinality(R) = Cardinality(T) + 1
      /\ \A p \in T : Rank(R, p) = Rank(T, p)
      /\ Rank(R, n) = Cardinality(R)
  <2> HIDE DEF T
  <2>1. LET U == T \cup {(n - 1) + 1}
        IN  /\ Cardinality(U) = Cardinality(T) + 1
            /\ \A p \in T : Rank(U, p) = Rank(T, p)
            /\ Rank(U, (n - 1) + 1) = Cardinality(U)
    BY <1>1, RankAdded
  <2> QED
    BY <1>1, <2>1
<1>3. Cardinality(T) \in Nat /\ \A p \in T : Rank(T, p) \in 1 .. Cardinality(T)
  BY <1>1, RankFacts
<1> QED
  BY <1>2, <1>3

-----------------------------------------------------------------------------
(* A construct is entered, another takes its place, it is left.            *)

LEMMA CallsFact ==
  ASSUME NEW s \in Seq(Constructs)
  PROVE  /\ Len(s) \in Nat /\ CallsOf(s) \subseteq 1 .. Len(s)
         /\ \A p \in 1 .. Len(s) : s[p] \in Constructs
  BY DEF CallsOf

\* Two stacks alike below a position have the same calls below it.
LEMMA SameBelow ==
  ASSUME NEW s \in Seq(Constructs), NEW t \in Seq(Constructs), NEW n \in Nat,
         n <= Len(s), n <= Len(t), \A p \in 1 .. n : t[p].kind = s[p].kind
  PROVE  \A p \in 1 .. n + 1 : {q \in CallsOf(t) : q < p} = {q \in CallsOf(s) : q < p}
<1>1. Len(s) \in Nat /\ Len(t) \in Nat
  OBVIOUS
<1>2. ASSUME NEW p \in 1 .. n + 1, NEW q
      PROVE  q \in CallsOf(t) /\ q < p <=> q \in CallsOf(s) /\ q < p
  <2>1. q \in 1 .. Len(t) /\ q < p => q \in 1 .. n
    BY <1>1
  <2>2. q \in 1 .. Len(s) /\ q < p => q \in 1 .. n
    BY <1>1
  <2>3. q \in 1 .. n => q \in 1 .. Len(s) /\ q \in 1 .. Len(t)
    BY <1>1
  <2> QED
    BY <2>1, <2>2, <2>3 DEF CallsOf
<1> QED
  BY <1>2

LEMMA Pushed ==
  ASSUME NEW s \in Seq(Constructs), NEW c \in Constructs
  PROVE  LET t == Append(s, c)
         IN  /\ t \in Seq(Constructs) /\ Len(t) = Len(s) + 1
             /\ \A p \in 1 .. Len(s) : t[p] = s[p]
             /\ t[Len(s) + 1] = c
             /\ CallsOf(t) = IF c.kind = "func" THEN CallsOf(s) \cup {Len(s) + 1}
                             ELSE CallsOf(s)
             /\ \A p \in 1 .. Len(s) + 1 :
                  {q \in CallsOf(t) : q < p} = {q \in CallsOf(s) : q < p}
<1> DEFINE t == Append(s, c)
<1>1. /\ t \in Seq(Constructs) /\ Len(t) = Len(s) + 1 /\ Len(s) \in Nat
      /\ \A p \in 1 .. Len(s) : t[p] = s[p]
      /\ t[Len(s) + 1] = c
  OBVIOUS
<1> HIDE DEF t
<1>2. \A p : p \in 1 .. Len(t) <=> p \in 1 .. Len(s) \/ p = Len(s) + 1
  BY <1>1
<1>3. CallsOf(t) = IF c.kind = "func" THEN CallsOf(s) \cup {Len(s) + 1} ELSE CallsOf(s)
  BY <1>1, <1>2 DEF CallsOf
<1>4. \A p \in 1 .. Len(s) + 1 : {q \in CallsOf(t) : q < p} = {q \in CallsOf(s) : q < p}
  BY <1>1, SameBelow
<1> QED
  BY <1>1, <1>3, <1>4 DEF t

LEMMA Replaced ==
  ASSUME NEW s \in Seq(Constructs), NEW c \in Constructs, s /= <<>>
  PROVE  LET t == [s EXCEPT ![Len(s)] = c]
         IN  /\ t \in Seq(Constructs) /\ Len(t) = Len(s)
             /\ \A p \in 1 .. Len(s) - 1 : t[p] = s[p]
             /\ t[Len(s)] = c
             /\ CallsOf(t) = IF c.kind = "func" THEN CallsOf(s) \cup {Len(s)}
                             ELSE CallsOf(s) \ {Len(s)}
             /\ \A p \in 1 .. Len(s) :
                  {q \in CallsOf(t) : q < p} = {q \in CallsOf(s) : q < p}
<1> DEFINE t == [s EXCEPT ![Len(s)] = c]
<1>1. /\ t \in Seq(Constructs) /\ Len(t) = Len(s) /\ Len(s) \in Nat /\ Len(s) >= 1
      /\ \A p \in 1 .. Len(s) - 1 : t[p] = s[p]
      /\ t[Len(s)] = c
  OBVIOUS
<1> HIDE DEF t
<1>2. \A p : p \in 1 .. Len(t) <=> p \in 1 .. Len(s) - 1 \/ p = Len(s)
  BY <1>1
<1>3. CallsOf(t) = IF c.kind = "func" THEN CallsOf(s) \cup {Len(s)} ELSE CallsOf(s) \ {Len(s)}
  <2>1. \A p \in 1 .. Len(s) - 1 : p \in 1 .. Len(s) /\ p /= Len(s)
    BY <1>1
  <2> QED
    BY <1>1, <1>2, <2>1 DEF CallsOf
<1>4. \A p \in 1 .. Len(s) : {q \in CallsOf(t) : q < p} = {q \in CallsOf(s) : q < p}
  <2>0. Len(s) - 1 \in Nat /\ (Len(s) - 1) + 1 = Len(s)
    BY <1>1
  <2>1. PICK n \in Nat : n = Len(s) - 1 /\ n + 1 = Len(s)
    BY <2>0
  <2>2. n <= Len(s) /\ n <= Len(t) /\ \A p \in 1 .. n : t[p].kind = s[p].kind
    BY <1>1, <2>1
  <2>3. \A p \in 1 .. n + 1 : {q \in CallsOf(t) : q < p} = {q \in CallsOf(s) : q < p}
    BY <1>1, <2>1, <2>2, SameBelow
  <2> QED
    BY <2>1, <2>3
<1> QED
  BY <1>1, <1>3, <1>4 DEF t

LEMMA Popped ==
  ASSUME NEW S, NEW s \in Seq(S), s /= <<>>
  PROVE  LET t == SubSeq(s, 1, Len(s) - 1)
         IN  /\ t \in Seq(S) /\ Len(t) = Len(s) - 1 /\ Len(s) >= 1
             /\ \A p \in 1 .. Len(s) - 1 : t[p] = s[p]
<1> DEFINE t == SubSeq(s, 1, Len(s) - 1)
<1>1. Len(s) \in Nat /\ Len(s) >= 1 /\ \A p \in 1 .. Len(s) : s[p] \in S
  OBVIOUS
<1>2. 1 \in Int /\ Len(s) - 1 \in Int /\ \A p \in 1 .. Len(s) - 1 : s[p] \in S
  BY <1>1
<1>3. /\ t \in Seq(S)
      /\ Len(t) = IF 1 <= Len(s) - 1 THEN (Len(s) - 1) - 1 + 1 ELSE 0
      /\ \A p \in 1 .. (Len(s) - 1) - 1 + 1 : t[p] = s[1 + p - 1]
  BY <1>2, SubSeqProperties
<1>4. (Len(s) - 1) - 1 + 1 = Len(s) - 1 /\ \A p \in 1 .. Len(s) - 1 : 1 + p - 1 = p
  BY <1>1
<1>5. (IF 1 <= Len(s) - 1 THEN (Len(s) - 1) - 1 + 1 ELSE 0) = Len(s) - 1
  <2>1. \A n \in Nat : n >= 1 => (IF 1 <= n - 1 THEN (n - 1) - 1 + 1 ELSE 0) = n - 1
    OBVIOUS
  <2> QED
    BY <2>1, <1>1
<1> HIDE DEF t
<1>6. Len(t) = Len(s) - 1 /\ \A p \in 1 .. Len(s) - 1 : t[p] = s[p]
  BY <1>3, <1>4, <1>5
<1> QED
  BY <1>1, <1>3, <1>6 DEF t

LEMMA PoppedCalls ==
  ASSUME NEW s \in Seq(Constructs), s /= <<>>
  PROVE  LET t == SubSeq(s, 1, Len(s) - 1)
         IN  /\ CallsOf(t) = CallsOf(s) \ {Len(s)}
             /\ CallsOf(t) = {q \in CallsOf(s) : q < Len(s)}
             /\ \A p \in 1 .. Len(s) :
                  {q \in CallsOf(t) : q < p} = {q \in CallsOf(s) : q < p}
<1> DEFINE t == SubSeq(s, 1, Len(s) - 1)
<1>1. /\ t \in Seq(Constructs) /\ Len(t) = Len(s) - 1 /\ Len(s) >= 1 /\ Len(s) \in Nat
      /\ \A p \in 1 .. Len(s) - 1 : t[p] = s[p]
  BY Popped
<1> HIDE DEF t
<1>2. \A p : p \in 1 .. Len(t) <=> p \in 1 .. Len(s) /\ p /= Len(s)
  BY <1>1
<1>3. CallsOf(t) = CallsOf(s) \ {Len(s)}
  BY <1>1, <1>2 DEF CallsOf
<1>4. \A p \in 1 .. Len(s) : {q \in CallsOf(t) : q < p} = {q \in CallsOf(s) : q < p}
  <2>0. Len(s) - 1 \in Nat /\ (Len(s) - 1) + 1 = Len(s)
    BY <1>1
  <2>1. PICK n \in Nat : n = Len(s) - 1 /\ n + 1 = Len(s)
    BY <2>0
  <2>2. n <= Len(s) /\ n <= Len(t) /\ \A p \in 1 .. n : t[p].kind = s[p].kind
    BY <1>1, <2>1
  <2>3. \A p \in 1 .. n + 1 : {q \in CallsOf(t) : q < p} = {q \in CallsOf(s) : q < p}
    BY <1>1, <2>1, <2>2, SameBelow
  <2> QED
    BY <2>1, <2>3
<1>5. \A p \in CallsOf(s) : p < Len(s) <=> p /= Len(s)
  BY <1>1, CallsFact
<1> QED
  BY <1>3, <1>4, <1>5 DEF t

-----------------------------------------------------------------------------
(* What these do to the invariant.                                         *)

Owes(c) == c.kind \in {"try", "handler"} /\ c.finally
Cleanups == {"finally", "closing"}

\* A construct other than a call is entered.
LEMMA EnterKeeps ==
  ASSUME NEW s, NEW d, NEW scr, NEW o, StackInv(s, d, scr, o), Len(s) < MaxStack,
         NEW c \in Constructs, c.kind /= "func", c.kind \notin Cleanups,
         NEW u, u = IF Owes(c) THEN o \cup {Len(s) + 1} ELSE o
  PROVE  StackInv(Append(s, c), d, scr, u) /\ CallsOf(Append(s, c)) = CallsOf(s)
<1> DEFINE t == Append(s, c)
<1>1. /\ s \in Seq(Constructs) /\ Len(s) \in Nat /\ o \subseteq 1 .. Len(s)
      /\ d \in Seq(Nat) /\ scr \in BOOLEAN
  BY CallsFact DEF StackInv
<1>2. /\ t \in Seq(Constructs) /\ Len(t) = Len(s) + 1
      /\ \A p \in 1 .. Len(s) : t[p] = s[p]
      /\ t[Len(s) + 1] = c
      /\ CallsOf(t) = CallsOf(s)
      /\ \A p \in 1 .. Len(s) + 1 : {q \in CallsOf(t) : q < p} = {q \in CallsOf(s) : q < p}
  BY <1>1, Pushed
<1> HIDE DEF t
<1>3. Len(t) <= MaxStack
  BY <1>1, <1>2, BoundsAssumption
<1>4. \A p \in 1 .. Len(t) : p \in 1 .. Len(s) \/ p = Len(s) + 1
  BY <1>1, <1>2
<1>5. ListsMatch(CallsOf(t), t, d, Base(scr))
  BY <1>1, <1>2, CallsFact DEF StackInv, ListsMatch
<1>6. u \subseteq 1 .. Len(t)
  <2>1. \A p \in o : p \in 1 .. Len(t)
    BY <1>1, <1>2
  <2>2. Len(s) + 1 \in 1 .. Len(t)
    BY <1>1, <1>2
  <2> QED
    BY <2>1, <2>2
<1>7. Owing(t, u)
  <2>1. \A p \in 1 .. Len(s) : p /= Len(s) + 1
    BY <1>1
  <2>2. \A p \in o : p \in 1 .. Len(s) /\ p \in u
    BY <1>1
  <2>3. \A p \in u : p \in o \/ (p = Len(s) + 1 /\ Owes(c))
    OBVIOUS
  <2> QED
    BY <1>2, <1>4, <2>1, <2>2, <2>3 DEF StackInv, Owing, Owes
<1>8. KeptHome(t)
  <2>1. ASSUME NEW p \in 1 .. Len(t) PROVE KeepsHome(t, t[p], p)
    <3>1. CASE p = Len(s) + 1
      BY <1>2, <3>1 DEF KeepsHome, Cleanups
    <3>2. CASE p \in 1 .. Len(s)
      BY <1>1, <1>2, <3>2 DEF KeepsHome, StackInv, KeptHome
    <3> QED
      BY <1>4, <3>1, <3>2
  <2> QED
    BY <2>1 DEF KeptHome
<1>9. Overhang(t)
  BY <1>1, <1>2, <1>3, BoundsAssumption DEF Overhang
<1>10. Len(t) <= MaxStack + 1
  BY <1>2, <1>3, <1>1, BoundsAssumption
<1> QED
  BY <1>1, <1>2, <1>5, <1>6, <1>7, <1>8, <1>9, <1>10 DEF StackInv, t

\* A call is entered: it opens a list.
LEMMA CallKeeps ==
  ASSUME NEW s, NEW d, NEW scr, NEW o, StackInv(s, d, scr, o), Len(s) <= MaxStack
  PROVE  /\ StackInv(Append(s, Construct("func")), Append(d, 0), scr, o)
         /\ CallsOf(Append(s, Construct("func"))) = CallsOf(s) \cup {Len(s) + 1}
<1> DEFINE c == Construct("func")
           t == Append(s, c)
           e == Append(d, 0)
           R == CallsOf(s)
           T == R \cup {Len(s) + 1}
<1>1. /\ s \in Seq(Constructs) /\ Len(s) \in Nat /\ o \subseteq 1 .. Len(s)
      /\ d \in Seq(Nat) /\ scr \in BOOLEAN
  BY CallsFact DEF StackInv
<1>2. c \in Constructs /\ c.kind = "func" /\ c.own = 0 /\ c.left = 0 /\ c.kind \in {"func", "defers"}
  BY DEF Construct, Constructs, Kinds, Handlers, Signals, NoSignal
<1> HIDE DEF c
<1>3. /\ t \in Seq(Constructs) /\ Len(t) = Len(s) + 1
      /\ \A p \in 1 .. Len(s) : t[p] = s[p]
      /\ t[Len(s) + 1] = c
      /\ CallsOf(t) = T
      /\ \A p \in 1 .. Len(s) + 1 : {q \in CallsOf(t) : q < p} = {q \in CallsOf(s) : q < p}
  BY <1>1, <1>2, Pushed
<1>4. /\ e \in Seq(Nat) /\ Len(e) = Len(d) + 1
      /\ \A k \in 1 .. Len(d) : e[k] = d[k]
      /\ e[Len(d) + 1] = 0
  BY <1>1
<1> HIDE DEF t, e
<1>5. \A p \in 1 .. Len(t) : p \in 1 .. Len(s) \/ p = Len(s) + 1
  BY <1>1, <1>3
<1>6. ListsMatch(CallsOf(t), t, e, Base(scr))
  <2>1. R \subseteq 1 .. Len(s) /\ Len(d) = Base(scr) + Cardinality(R)
    BY <1>1, CallsFact DEF StackInv, ListsMatch
  <2>2. /\ Cardinality(T) = Cardinality(R) + 1
        /\ \A p \in R : Rank(T, p) = Rank(R, p)
        /\ Rank(T, Len(s) + 1) = Cardinality(T)
    BY <1>1, <2>1, RankAdded
  <2>3. Cardinality(R) \in Nat /\ Base(scr) \in Nat
    BY <1>1, <2>1, RankFacts DEF Base
  <2>4. Len(e) = Base(scr) + Cardinality(T)
    BY <1>4, <2>1, <2>2, <2>3
  <2>5. ASSUME NEW p \in R PROVE e[Base(scr) + Rank(T, p)] = t[p].own
    <3>1. Rank(R, p) \in 1 .. Cardinality(R)
      BY <1>1, <2>1, RankFacts
    <3>2. Base(scr) + Rank(R, p) \in 1 .. Len(d)
      BY <2>1, <2>3, <3>1
    <3>3. d[Base(scr) + Rank(R, p)] = s[p].own
      BY DEF StackInv, ListsMatch
    <3> QED
      BY <1>3, <1>4, <2>1, <2>2, <3>2, <3>3
  <2>6. e[Base(scr) + Rank(T, Len(s) + 1)] = t[Len(s) + 1].own
    <3>1. Base(scr) + Rank(T, Len(s) + 1) = Len(d) + 1
      BY <2>1, <2>2, <2>3
    <3> QED
      BY <1>2, <1>3, <1>4, <3>1
  <2> QED
    BY <1>3, <2>4, <2>5, <2>6 DEF ListsMatch
<1>7. o \subseteq 1 .. Len(t)
  BY <1>1, <1>3
<1>8. Owing(t, o)
  BY <1>1, <1>2, <1>3, <1>5 DEF StackInv, Owing
<1>9. KeptHome(t)
  <2>1. ASSUME NEW p \in 1 .. Len(t) PROVE KeepsHome(t, t[p], p)
    <3>1. CASE p = Len(s) + 1
      BY <1>2, <1>3, <3>1 DEF KeepsHome
    <3>2. CASE p \in 1 .. Len(s)
      BY <1>1, <1>3, <3>2 DEF KeepsHome, StackInv, KeptHome
    <3> QED
      BY <1>5, <3>1, <3>2
  <2> QED
    BY <2>1 DEF KeptHome
<1>10. Overhang(t)
  <2>1. ASSUME NEW p \in 1 .. Len(t), p > MaxStack PROVE Overhangs(t[p])
    <3>1. CASE p = Len(s) + 1
      BY <1>2, <1>3, <3>1 DEF Overhangs
    <3>2. CASE p \in 1 .. Len(s)
      BY <1>3, <2>1, <3>2 DEF StackInv, Overhang
    <3> QED
      BY <1>5, <3>1, <3>2
  <2> QED
    BY <2>1 DEF Overhang
<1>11. Len(t) <= MaxStack + 1
  BY <1>1, <1>3, BoundsAssumption
<1> QED
  BY <1>1, <1>3, <1>4, <1>6, <1>7, <1>8, <1>9, <1>10, <1>11 DEF StackInv, t, e, c

\* A construct other than a call is left, and it owes nothing.
LEMMA PopKeeps ==
  ASSUME NEW s, NEW d, NEW scr, NEW o, StackInv(s, d, scr, o), s /= <<>>,
         s[Len(s)].kind /= "func", ~Owes(s[Len(s)])
  PROVE  /\ StackInv(SubSeq(s, 1, Len(s) - 1), d, scr, o)
         /\ CallsOf(SubSeq(s, 1, Len(s) - 1)) = CallsOf(s)
         /\ CallsOf(s) = {q \in CallsOf(s) : q < Len(s)}
<1> DEFINE t == SubSeq(s, 1, Len(s) - 1)
<1>1. /\ s \in Seq(Constructs) /\ Len(s) \in Nat /\ o \subseteq 1 .. Len(s)
      /\ d \in Seq(Nat) /\ scr \in BOOLEAN /\ Len(s) <= MaxStack + 1
  BY CallsFact DEF StackInv
<1>2. /\ t \in Seq(Constructs) /\ Len(t) = Len(s) - 1 /\ Len(s) >= 1
      /\ \A p \in 1 .. Len(s) - 1 : t[p] = s[p]
  BY <1>1, Popped
<1>3. /\ CallsOf(t) = CallsOf(s) \ {Len(s)}
      /\ CallsOf(t) = {q \in CallsOf(s) : q < Len(s)}
      /\ \A p \in 1 .. Len(s) : {q \in CallsOf(t) : q < p} = {q \in CallsOf(s) : q < p}
  BY <1>1, PoppedCalls
<1> HIDE DEF t
<1>4. CallsOf(t) = CallsOf(s)
  BY <1>3 DEF CallsOf
<1>5. /\ \A p \in 1 .. Len(t) : p \in 1 .. Len(s) /\ p \in 1 .. Len(s) - 1
      /\ \A p \in 1 .. Len(s) : p \in 1 .. Len(t) \/ p = Len(s)
  BY <1>1, <1>2
<1>6. \A p \in CallsOf(s) : p \in 1 .. Len(s) - 1
  BY <1>1, <1>2, <1>4, <1>5 DEF CallsOf
<1>7. ListsMatch(CallsOf(t), t, d, Base(scr))
  BY <1>2, <1>4, <1>6 DEF StackInv, ListsMatch
<1>8. o \subseteq 1 .. Len(t)
  <2>1. Len(s) \notin o
    BY DEF StackInv, Owing, Owes
  <2> QED
    BY <1>1, <1>5, <2>1
<1>9. Owing(t, o)
  BY <1>2, <1>5, <1>8 DEF StackInv, Owing
<1>10. KeptHome(t)
  BY <1>2, <1>3, <1>5 DEF StackInv, KeptHome, KeepsHome
<1>11. Overhang(t)
  BY <1>2, <1>5 DEF StackInv, Overhang
<1>12. Len(t) <= MaxStack + 1
  BY <1>1, <1>2, BoundsAssumption
<1> QED
  BY <1>1, <1>2, <1>3, <1>4, <1>7, <1>8, <1>9, <1>10, <1>11, <1>12 DEF StackInv, t

\* A construct other than a call takes the place of another.
LEMMA ReplaceKeeps ==
  ASSUME NEW s, NEW d, NEW scr, NEW o, StackInv(s, d, scr, o), s /= <<>>,
         s[Len(s)].kind /= "func",
         NEW c \in Constructs, c.kind /= "func", KeepsHome(s, c, Len(s)),
         Len(s) > MaxStack => Overhangs(c),
         NEW u, u = IF Owes(c) THEN o \cup {Len(s)} ELSE o \ {Len(s)}
  PROVE  /\ StackInv([s EXCEPT ![Len(s)] = c], d, scr, u)
         /\ CallsOf([s EXCEPT ![Len(s)] = c]) = CallsOf(s)
<1> DEFINE t == [s EXCEPT ![Len(s)] = c]
<1>1. /\ s \in Seq(Constructs) /\ Len(s) \in Nat /\ o \subseteq 1 .. Len(s)
      /\ d \in Seq(Nat) /\ scr \in BOOLEAN /\ Len(s) <= MaxStack + 1 /\ Len(s) >= 1
  BY CallsFact DEF StackInv
<1>2. /\ t \in Seq(Constructs) /\ Len(t) = Len(s)
      /\ \A p \in 1 .. Len(s) - 1 : t[p] = s[p]
      /\ t[Len(s)] = c
      /\ CallsOf(t) = CallsOf(s) \ {Len(s)}
      /\ \A p \in 1 .. Len(s) : {q \in CallsOf(t) : q < p} = {q \in CallsOf(s) : q < p}
  BY <1>1, Replaced
<1> HIDE DEF t
<1>3. CallsOf(t) = CallsOf(s)
  BY <1>2 DEF CallsOf
<1>4. \A p \in 1 .. Len(s) : p \in 1 .. Len(s) - 1 \/ p = Len(s)
  BY <1>1
<1>5. \A p \in 1 .. Len(s) - 1 : p \in 1 .. Len(s) /\ p /= Len(s)
  BY <1>1
<1>6. ListsMatch(CallsOf(t), t, d, Base(scr))
  <2>1. \A p \in CallsOf(s) : p \in 1 .. Len(s) - 1
    BY <1>2, <1>3, <1>4 DEF CallsOf
  <2> QED
    BY <1>2, <1>3, <2>1 DEF StackInv, ListsMatch
<1>7. u \subseteq 1 .. Len(t)
  <2>1. \A p \in o : p \in 1 .. Len(t)
    BY <1>1, <1>2
  <2>2. Len(s) \in 1 .. Len(t)
    BY <1>1, <1>2
  <2> QED
    BY <2>1, <2>2
<1>8. Owing(t, u)
  <2>1. ASSUME NEW p \in u PROVE t[p].kind \in {"try", "handler"} /\ t[p].finally
    <3>1. CASE p = Len(s)
      BY <1>2, <3>1 DEF Owes
    <3>2. CASE p /= Len(s)
      <4>1. p \in o
        BY <3>2
      <4>2. t[p] = s[p]
        BY <1>1, <1>2, <1>4, <3>2, <4>1
      <4> QED
        BY <4>1, <4>2 DEF StackInv, Owing
    <3> QED
      BY <3>1, <3>2
  <2>2. ASSUME NEW p \in 1 .. Len(t), t[p].kind \in {"try", "handler"}, t[p].finally
        PROVE  p \in u
    <3>1. CASE p = Len(s)
      BY <1>2, <2>2, <3>1 DEF Owes
    <3>2. CASE p /= Len(s)
      <4>1. t[p] = s[p] /\ p \in 1 .. Len(s)
        BY <1>2, <1>4, <3>2
      <4>2. p \in o
        BY <2>2, <4>1 DEF StackInv, Owing
      <4> QED
        BY <3>2, <4>2
    <3> QED
      BY <3>1, <3>2
  <2> QED
    BY <2>1, <2>2 DEF Owing
<1>9. KeptHome(t)
  <2>1. ASSUME NEW p \in 1 .. Len(t) PROVE KeepsHome(t, t[p], p)
    <3>1. {q \in CallsOf(t) : q < p} = {q \in CallsOf(s) : q < p}
      BY <1>2
    <3>2. CASE p = Len(s)
      BY <1>2, <3>1, <3>2 DEF KeepsHome
    <3>3. CASE p \in 1 .. Len(s) - 1
      BY <1>2, <1>5, <3>1, <3>3 DEF KeepsHome, StackInv, KeptHome
    <3> QED
      BY <1>2, <1>4, <3>2, <3>3
  <2> QED
    BY <2>1 DEF KeptHome
<1>10. Overhang(t)
  <2>1. ASSUME NEW p \in 1 .. Len(t), p > MaxStack PROVE Overhangs(t[p])
    <3>1. CASE p = Len(s)
      BY <1>2, <2>1, <3>1
    <3>2. CASE p \in 1 .. Len(s) - 1
      BY <1>2, <1>5, <2>1, <3>2 DEF StackInv, Overhang
    <3> QED
      BY <1>2, <1>4, <3>1, <3>2
  <2> QED
    BY <2>1 DEF Overhang
<1> QED
  BY <1>1, <1>2, <1>3, <1>6, <1>7, <1>8, <1>9, <1>10 DEF StackInv, t

\* The last list is that of the innermost call.
LEMMA LastList ==
  ASSUME NEW s, NEW d, NEW scr, NEW o, StackInv(s, d, scr, o), CallsOf(s) /= {}
  PROVE  /\ d /= <<>> /\ Len(d) \in Nat /\ Len(d) >= 1
         /\ d[Len(d)] = s[Innermost(CallsOf(s))].own
         /\ \A p \in CallsOf(s) : p /= Innermost(CallsOf(s)) =>
              Base(scr) + Rank(CallsOf(s), p) \in 1 .. Len(d) - 1
<1> DEFINE R == CallsOf(s)
           m == Innermost(R)
<1>1. s \in Seq(Constructs) /\ Len(s) \in Nat /\ R \subseteq 1 .. Len(s) /\ d \in Seq(Nat)
  BY CallsFact DEF StackInv
<1>2. m \in R /\ m \in Nat /\ \A q \in R : q <= m
  BY <1>1, InnermostIn
<1>3. /\ Cardinality(R) \in Nat /\ \A p \in R : Rank(R, p) \in 1 .. Cardinality(R)
      /\ Base(scr) \in Nat /\ Len(d) = Base(scr) + Cardinality(R)
  BY <1>1, RankFacts DEF Base, StackInv, ListsMatch
<1>4. m \in Nat \ {0} /\ R \subseteq 1 .. m
  BY <1>1, <1>2
<1>5. /\ \A p \in R \ {m} : Rank(R, p) < Cardinality(R)
      /\ Rank(R, m) = Cardinality(R)
  <2> HIDE DEF R, m
  <2> QED
    BY <1>2, <1>4, RankRemoved
<1>6. \A p \in R : d[Base(scr) + Rank(R, p)] = s[p].own
  BY DEF StackInv, ListsMatch
<1> HIDE DEF R, m
<1>7. d[Len(d)] = s[m].own
  BY <1>2, <1>3, <1>5, <1>6
<1>8. Len(d) >= 1 /\ Len(d) \in Nat
  BY <1>2, <1>3
<1>9. \A p \in R : p /= m => Base(scr) + Rank(R, p) \in 1 .. Len(d) - 1
  BY <1>3, <1>5
<1> QED
  BY <1>1, <1>7, <1>8, <1>9 DEF R, m

\* The body of a call is over: its list goes with it.
LEMMA BodyKeeps ==
  ASSUME NEW s, NEW d, NEW scr, NEW o, StackInv(s, d, scr, o), s /= <<>>,
         s[Len(s)].kind = "func", NEW c \in Constructs, c.kind = "defers",
         c.own = s[Len(s)].own, c.left = d[Len(d)]
  PROVE  /\ StackInv([s EXCEPT ![Len(s)] = c], SubSeq(d, 1, Len(d) - 1), scr, o)
         /\ d /= <<>>
<1> DEFINE t == [s EXCEPT ![Len(s)] = c]
           e == SubSeq(d, 1, Len(d) - 1)
           R == CallsOf(s)
           T == R \ {Len(s)}
<1>1. /\ s \in Seq(Constructs) /\ Len(s) \in Nat /\ o \subseteq 1 .. Len(s)
      /\ d \in Seq(Nat) /\ scr \in BOOLEAN /\ Len(s) <= MaxStack + 1 /\ Len(s) >= 1
      /\ R \subseteq 1 .. Len(s) /\ s[Len(s)] \in Constructs
  BY CallsFact DEF StackInv
<1>2. Len(s) \in R /\ Innermost(R) = Len(s)
  <2>1. Len(s) \in R
    BY <1>1 DEF CallsOf
  <2> QED
    BY <1>1, <2>1, InnermostIs
<1>3. /\ d /= <<>> /\ Len(d) \in Nat /\ Len(d) >= 1 /\ d[Len(d)] = s[Len(s)].own
      /\ \A p \in T : Base(scr) + Rank(R, p) \in 1 .. Len(d) - 1
  BY <1>1, <1>2, LastList
<1>4. /\ e \in Seq(Nat) /\ Len(e) = Len(d) - 1
      /\ \A k \in 1 .. Len(d) - 1 : e[k] = d[k]
  BY <1>1, <1>3, Popped
<1>5. c.kind /= "func" /\ c.left = c.own
  BY <1>3
<1>6. /\ t \in Seq(Constructs) /\ Len(t) = Len(s)
      /\ \A p \in 1 .. Len(s) - 1 : t[p] = s[p]
      /\ t[Len(s)] = c
      /\ CallsOf(t) = T
      /\ \A p \in 1 .. Len(s) : {q \in CallsOf(t) : q < p} = {q \in CallsOf(s) : q < p}
  BY <1>1, <1>5, Replaced
<1> HIDE DEF t, e
<1>7. /\ \A p \in 1 .. Len(s) : p \in 1 .. Len(s) - 1 \/ p = Len(s)
      /\ \A p \in 1 .. Len(s) - 1 : p \in 1 .. Len(s) /\ p /= Len(s)
  BY <1>1
<1>8. ListsMatch(CallsOf(t), t, e, Base(scr))
  <2>1. /\ Cardinality(T) = Cardinality(R) - 1
        /\ \A p \in T : Rank(T, p) = Rank(R, p)
    <3>1. Len(s) \in Nat \ {0}
      BY <1>1
    <3> HIDE DEF R
    <3> QED
      BY <1>1, <1>2, <3>1, RankRemoved
  <2>2. Cardinality(R) \in Nat /\ Base(scr) \in Nat /\ Len(d) = Base(scr) + Cardinality(R)
    BY <1>1, RankFacts DEF Base, StackInv, ListsMatch
  <2>3. Len(e) = Base(scr) + Cardinality(T)
    BY <1>4, <2>1, <2>2
  <2>4. ASSUME NEW p \in T PROVE e[Base(scr) + Rank(T, p)] = t[p].own
    <3>1. d[Base(scr) + Rank(R, p)] = s[p].own
      BY DEF StackInv, ListsMatch
    <3>2. t[p] = s[p]
      BY <1>1, <1>6, <1>7
    <3> QED
      BY <1>3, <1>4, <2>1, <3>1, <3>2
  <2> QED
    BY <1>6, <2>3, <2>4 DEF ListsMatch
<1>9. Owing(t, o)
  BY <1>1, <1>5, <1>6, <1>7 DEF StackInv, Owing
<1>10. KeptHome(t)
  <2>1. ASSUME NEW p \in 1 .. Len(t) PROVE KeepsHome(t, t[p], p)
    <3>1. CASE p = Len(s)
      BY <1>5, <1>6, <3>1 DEF KeepsHome
    <3>2. CASE p \in 1 .. Len(s) - 1
      BY <1>6, <1>7, <3>2 DEF KeepsHome, StackInv, KeptHome
    <3> QED
      BY <1>6, <1>7, <3>1, <3>2
  <2> QED
    BY <2>1 DEF KeptHome
<1>11. Overhang(t)
  <2>1. ASSUME NEW p \in 1 .. Len(t), p > MaxStack PROVE Overhangs(t[p])
    <3>1. CASE p = Len(s)
      <4>1. p \in 1 .. Len(s)
        BY <1>6
      <4>2. s[p].own = 0
        BY <2>1, <4>1 DEF StackInv, Overhang, Overhangs
      <4> QED
        BY <1>5, <1>6, <3>1, <4>2 DEF Overhangs
    <3>2. CASE p \in 1 .. Len(s) - 1
      BY <1>6, <1>7, <2>1, <3>2 DEF StackInv, Overhang
    <3> QED
      BY <1>6, <1>7, <3>1, <3>2
  <2> QED
    BY <2>1 DEF Overhang
<1> QED
  BY <1>1, <1>3, <1>4, <1>6, <1>8, <1>9, <1>10, <1>11 DEF StackInv, t, e

\* A call is deferred, onto the list of the innermost call or the scratch list.
OneMore(s) ==
  [p \in 1 .. Len(s) |->
     IF p = Innermost(CallsOf(s)) THEN [s[p] EXCEPT !.own = @ + 1] ELSE s[p]]
Longer(d) == IF d = <<>> THEN <<1>> ELSE [d EXCEPT ![Len(d)] = @ + 1]
Scratched(d, scr) == IF d = <<>> THEN TRUE ELSE scr

LEMMA DeferKeeps ==
  ASSUME NEW s, NEW d, NEW scr, NEW o, StackInv(s, d, scr, o), Len(s) < MaxStack
  PROVE  /\ StackInv(OneMore(s), Longer(d), Scratched(d, scr), o)
         /\ CallsOf(OneMore(s)) = CallsOf(s)
<1> DEFINE R == CallsOf(s)
           m == Innermost(R)
           t == OneMore(s)
           e == Longer(d)
           x == Scratched(d, scr)
<1>1. /\ s \in Seq(Constructs) /\ Len(s) \in Nat /\ o \subseteq 1 .. Len(s)
      /\ d \in Seq(Nat) /\ Len(d) \in Nat /\ scr \in BOOLEAN /\ Len(s) <= MaxStack
      /\ R \subseteq 1 .. Len(s) /\ \A p \in 1 .. Len(s) : s[p] \in Constructs
  BY CallsFact, BoundsAssumption DEF StackInv
<1>2. ASSUME NEW p \in 1 .. Len(s)
      PROVE  /\ t[p] \in Constructs /\ t[p].kind = s[p].kind
             /\ t[p].finally = s[p].finally /\ t[p].kept = s[p].kept
             /\ t[p].own = IF p = m THEN s[p].own + 1 ELSE s[p].own
  <2>1. s[p].own \in Nat
    BY <1>1 DEF Constructs
  <2>2. CASE p = m
    <3>1. t[p] = [s[p] EXCEPT !.own = s[p].own + 1] /\ s[p].own + 1 \in Nat
      BY <2>1, <2>2 DEF OneMore
    <3> QED
      BY <1>1, <2>2, <3>1 DEF Constructs
  <2>3. CASE p /= m
    BY <1>1, <2>3 DEF OneMore
  <2> QED
    BY <2>2, <2>3
<1>3. t \in Seq(Constructs) /\ Len(t) = Len(s)
  BY <1>1, <1>2 DEF OneMore
<1>4. CallsOf(t) = R
  BY <1>2, <1>3 DEF CallsOf
<1>5. e \in Seq(Nat) /\ Len(e) \in Nat /\ x \in BOOLEAN
  <2>1. CASE d = <<>>
    BY <2>1 DEF Longer, Scratched
  <2>2. CASE d /= <<>>
    <3>1. Len(d) \in 1 .. Len(d) /\ d[Len(d)] \in Nat
      BY <1>1, <2>2
    <3>2. d[Len(d)] + 1 \in Nat
      BY <3>1
    <3> QED
      BY <1>1, <2>2, <3>2 DEF Longer, Scratched
  <2> QED
    BY <2>1, <2>2
<1>6. ListsMatch(R, t, e, Base(x))
  <2>1. /\ Cardinality(R) \in Nat /\ Base(scr) \in Nat /\ Len(d) = Base(scr) + Cardinality(R)
        /\ \A p \in R : d[Base(scr) + Rank(R, p)] = s[p].own
    BY <1>1, RankFacts DEF Base, StackInv, ListsMatch
  <2>2. CASE d = <<>>
    <3>1. Cardinality(R) = 0
      BY <2>1, <2>2
    <3>2. R = {}
      BY <1>1, <3>1, RankFacts, FS_EmptySet
    <3> QED
      BY <2>2, <3>1, <3>2 DEF ListsMatch, Base, Longer, Scratched
  <2>3. CASE d /= <<>>
    <3>1. /\ Len(e) = Len(d) /\ x = scr
          /\ \A k \in 1 .. Len(d) - 1 : e[k] = d[k]
          /\ e[Len(d)] = d[Len(d)] + 1
      BY <1>1, <2>3 DEF Longer, Scratched
    <3>2. ASSUME NEW p \in R PROVE e[Base(scr) + Rank(R, p)] = t[p].own
      <4>1. /\ d[Len(d)] = s[m].own
            /\ p /= m => Base(scr) + Rank(R, p) \in 1 .. Len(d) - 1
        BY LastList
      <4>2. CASE p = m
        <5>1. m \in Nat \ {0} /\ R \subseteq 1 .. m
          BY <1>1, <4>2, InnermostIn
        <5>2. Rank(R, m) = Cardinality(R)
          <6> HIDE DEF R, m
          <6> QED
            BY <4>2, <5>1, RankRemoved
        <5> QED
          BY <1>1, <1>2, <2>1, <3>1, <4>1, <4>2, <5>2
      <4>3. CASE p /= m
        BY <1>1, <1>2, <2>1, <3>1, <4>1, <4>3
      <4> QED
        BY <4>2, <4>3
    <3> QED
      BY <2>1, <3>1, <3>2 DEF ListsMatch
  <2> QED
    BY <2>2, <2>3
<1>7. Owing(t, o)
  BY <1>1, <1>2, <1>3 DEF StackInv, Owing
<1>8. KeptHome(t)
  BY <1>2, <1>3, <1>4 DEF StackInv, KeptHome, KeepsHome
<1>9. Overhang(t)
  BY <1>1, <1>3, BoundsAssumption DEF Overhang
<1>10. Len(t) <= MaxStack + 1
  BY <1>1, <1>3, BoundsAssumption
<1> QED
  BY <1>1, <1>3, <1>4, <1>5, <1>6, <1>7, <1>8, <1>9, <1>10 DEF StackInv

-----------------------------------------------------------------------------
(* Steps.                                                                  *)

\* The innermost construct.
LEMMA TopFact ==
  ASSUME NEW s, NEW d, NEW scr, NEW o, StackInv(s, d, scr, o), s /= <<>>
  PROVE  /\ Len(s) \in 1 .. Len(s) /\ Len(s) \in Nat /\ s[Len(s)] \in Constructs
         /\ KeepsHome(s, s[Len(s)], Len(s))
         /\ Len(s) > MaxStack => Overhangs(s[Len(s)])
         /\ o = IF Owes(s[Len(s)]) THEN o \cup {Len(s)} ELSE o \ {Len(s)}
         /\ s[Len(s)].kind /= "func" => CallsOf(s) = {q \in CallsOf(s) : q < Len(s)}
<1>1. Len(s) \in 1 .. Len(s) /\ Len(s) \in Nat /\ \A p \in 1 .. Len(s) : s[p] \in Constructs
  BY CallsFact DEF StackInv
<1>2. Len(s) \in o <=> Owes(s[Len(s)])
  BY <1>1 DEF StackInv, Owing, Owes
<1>3. ASSUME s[Len(s)].kind /= "func" PROVE \A q \in CallsOf(s) : q < Len(s)
  BY <1>1, <1>3 DEF CallsOf
<1> QED
  BY <1>1, <1>2, <1>3 DEF StackInv, KeptHome, Overhang

\* A try or its handler is left: through the finally, if there is one.
LEMMA LeaveKeeps ==
  ASSUME NEW s, NEW d, NEW scr, NEW o, StackInv(s, d, scr, o), s /= <<>>,
         s[Len(s)].kind \in {"try", "handler"}, NEW g, SignalInv(s, g),
         NEW t, NEW u, NEW h,
         IF s[Len(s)].finally
           THEN /\ t = [s EXCEPT ![Len(s)] = [s[Len(s)] EXCEPT !.kind = "finally", !.kept = g]]
                /\ h = NoSignal /\ u = o \ {Len(s)}
           ELSE t = SubSeq(s, 1, Len(s) - 1) /\ h = g /\ u = o
  PROVE  StackInv(t, d, scr, u) /\ SignalInv(t, h)
<1>1. /\ s[Len(s)] \in Constructs /\ s[Len(s)].kind /= "func" /\ ~(Len(s) > MaxStack)
      /\ CallsOf(s) = {q \in CallsOf(s) : q < Len(s)}
  BY TopFact DEF Overhangs
<1>2. CASE s[Len(s)].finally
  <2> DEFINE c == [s[Len(s)] EXCEPT !.kind = "finally", !.kept = g]
  <2>1. c \in Constructs /\ c.kind = "finally" /\ c.kept = g
    BY <1>1 DEF Constructs, Kinds, SignalInv
  <2>2. c.kind /= "func" /\ ~Owes(c) /\ KeepsHome(s, c, Len(s))
    BY <1>1, <2>1 DEF KeepsHome, SignalInv, Owes
  <2> HIDE DEF c
  <2>3. u = IF Owes(c) THEN o \cup {Len(s)} ELSE o \ {Len(s)}
    BY <1>2, <2>2
  <2>4. t = [s EXCEPT ![Len(s)] = c] /\ h = NoSignal
    BY <1>2 DEF c
  <2>5. StackInv(t, d, scr, u)
    BY <1>1, <2>1, <2>2, <2>3, <2>4, ReplaceKeeps
  <2> QED
    BY <2>4, <2>5 DEF SignalInv, NoSignal, Signals
<1>3. CASE ~s[Len(s)].finally
  <2>1. ~Owes(s[Len(s)])
    BY <1>3 DEF Owes
  <2>2. /\ StackInv(SubSeq(s, 1, Len(s) - 1), d, scr, o)
        /\ CallsOf(SubSeq(s, 1, Len(s) - 1)) = CallsOf(s)
    BY <1>1, <2>1, PopKeeps
  <2> QED
    BY <1>3, <2>2 DEF SignalInv
<1> QED
  BY <1>2, <1>3

LEMMA NoSignalFits ==
  ASSUME NEW s
  PROVE  SignalInv(s, NoSignal)
BY DEF SignalInv, NoSignal, Signals

LEMMA HomeFact ==
  /\ Home = Innermost(CallsOf(stack))
  /\ stack \in Seq(Constructs) => Home \in Nat
<1>1. Home = Innermost(CallsOf(stack))
  BY DEF Home, Running, Depth, Innermost, CallsOf
<1> QED
  BY <1>1, CallsFact, InnermostIn

LEMMA Initial == Init => IInv
<1> SUFFICES ASSUME Init PROVE IInv
  OBVIOUS
<1>1. stack = <<>> /\ deferStack = <<>> /\ scratch = FALSE /\ owed = {} /\ sig = NoSignal
  BY DEF Init
<1>2. /\ stack \in Seq(Constructs) /\ Len(stack) = 0 /\ 1 .. Len(stack) = {}
      /\ deferStack \in Seq(Nat) /\ Len(deferStack) = 0
  BY <1>1
<1>3. CallsOf(stack) = {}
  BY <1>2 DEF CallsOf
<1>4. Cardinality(CallsOf(stack)) = 0
  BY <1>3, FS_EmptySet
<1>5. ListsMatch(CallsOf(stack), stack, deferStack, Base(scratch))
  BY <1>1, <1>2, <1>3, <1>4 DEF ListsMatch, Base
<1>6. Owing(stack, owed) /\ KeptHome(stack) /\ Overhang(stack)
  BY <1>1, <1>2 DEF Owing, KeptHome, Overhang
<1>7. Len(stack) <= MaxStack + 1
  BY <1>2, BoundsAssumption
<1>8. owed \subseteq 1 .. Len(stack) /\ scratch \in BOOLEAN
  BY <1>1
<1>9. StackInv(stack, deferStack, scratch, owed)
  BY <1>2, <1>5, <1>6, <1>7, <1>8 DEF StackInv
<1> QED
  BY <1>1, <1>9, NoSignalFits DEF IInv

\* Statements.
LEMMA StatementKeeps == IInv /\ Statement => IInv'
<1> SUFFICES ASSUME IInv, Statement PROVE IInv'
  OBVIOUS
<1>1. /\ StackInv(stack, deferStack, scratch, owed) /\ SignalInv(stack, sig)
      /\ stack \in Seq(Constructs) /\ Home \in Nat
  BY HomeFact DEF IInv, StackInv
<1>2. \A k \in Kinds :
        /\ Construct(k) \in Constructs /\ Construct(k).kind = k
        /\ ~Owes(Construct(k))
  BY DEF Construct, Constructs, Handlers, Signals, NoSignal, Owes
<1>3. ASSUME NEW kind \in {"block", "loop", "with"}, Enter(kind) PROVE IInv'
  <2>1. /\ Construct(kind) \in Constructs /\ Construct(kind).kind = kind
        /\ ~Owes(Construct(kind))
    BY <1>2, <1>3 DEF Kinds
  <2>2. /\ stack' = Append(stack, Construct(kind)) /\ sig' = sig
        /\ deferStack' = deferStack /\ scratch' = scratch /\ owed' = owed
        /\ Len(stack) < MaxStack
    BY <1>3 DEF Enter, Push, Room, Depth
  <2>3. Construct(kind).kind /= "func" /\ Construct(kind).kind \notin Cleanups
    BY <1>3, <2>1 DEF Cleanups
  <2>4. owed = IF Owes(Construct(kind)) THEN owed \cup {Len(stack) + 1} ELSE owed
    BY <2>1
  <2>5. StackInv(stack', deferStack', scratch', owed') /\ CallsOf(stack') = CallsOf(stack)
    BY <1>1, <2>1, <2>2, <2>3, <2>4, EnterKeeps
  <2> QED
    BY <1>1, <2>2, <2>5 DEF IInv, SignalInv
<1>4. ASSUME NEW catches \in Handlers, NEW finally \in BOOLEAN, EnterTry(catches, finally)
      PROVE  IInv'
  <2> DEFINE c == [Construct("try") EXCEPT !.catches = catches, !.finally = finally]
  <2>1. c \in Constructs /\ c.kind = "try" /\ c.finally = finally
    BY DEF Construct, Constructs, Kinds, Signals, NoSignal
  <2>2. /\ stack' = Append(stack, c) /\ sig' = sig
        /\ deferStack' = deferStack /\ scratch' = scratch
        /\ owed' = IF finally THEN owed \cup {Len(stack) + 1} ELSE owed
        /\ Len(stack) < MaxStack
    BY <1>4 DEF EnterTry, Push, Room, Depth
  <2> HIDE DEF c
  <2>3. c.kind /= "func" /\ c.kind \notin Cleanups /\ (Owes(c) <=> finally)
    BY <2>1 DEF Cleanups, Owes
  <2>4. owed' = IF Owes(c) THEN owed \cup {Len(stack) + 1} ELSE owed
    BY <2>2, <2>3
  <2>5. StackInv(stack', deferStack', scratch', owed') /\ CallsOf(stack') = CallsOf(stack)
    BY <1>1, <2>1, <2>2, <2>3, <2>4, EnterKeeps
  <2> QED
    BY <1>1, <2>2, <2>5 DEF IInv, SignalInv
<1>5. CASE CallFunction
  <2>1. Evaluating /\ Len(stack) < MaxStack /\ scratch' = scratch /\ owed' = owed /\ Call
    BY <1>5 DEF CallFunction, Room, Depth
  <2>2. CASE Len(deferStack) >= MaxCallDepth
    <3>1. /\ stack' = stack /\ deferStack' = deferStack
          /\ sig' = [kind |-> "raise", home |-> Home]
      BY <2>1, <2>2 DEF Call
    <3> QED
      BY <1>1, <2>1, <3>1 DEF IInv, SignalInv, Signals
  <2>3. CASE ~(Len(deferStack) >= MaxCallDepth)
    <3>1. /\ stack' = Append(stack, Construct("func")) /\ deferStack' = Append(deferStack, 0)
          /\ sig' = sig
      BY <2>1, <2>3 DEF Call, Push
    <3>2. StackInv(stack', deferStack', scratch', owed')
      BY <1>1, <2>1, <3>1, CallKeeps, BoundsAssumption, CallsFact
    <3> QED
      BY <2>1, <3>1, <3>2, NoSignalFits DEF IInv, Evaluating
  <2> QED
    BY <2>2, <2>3
<1>6. CASE Defer
  <2>1. /\ Len(stack) < MaxStack /\ sig' = sig /\ owed' = owed
        /\ deferStack' = Longer(deferStack) /\ scratch' = Scratched(deferStack, scratch)
    BY <1>6 DEF Defer, Room, Depth, Longer, Scratched
  <2>2. stack' = OneMore(stack)
    BY <1>6, HomeFact DEF Defer, Depth, OneMore
  <2>3. StackInv(stack', deferStack', scratch', owed) /\ CallsOf(stack') = CallsOf(stack)
    BY <1>1, <2>1, <2>2, DeferKeeps
  <2> QED
    BY <1>1, <2>1, <2>3 DEF IInv, SignalInv
<1>7. ASSUME NEW kind \in Signals \ {"none"}, Signal(kind) PROVE IInv'
  <2>1. /\ stack' = stack /\ deferStack' = deferStack /\ scratch' = scratch /\ owed' = owed
        /\ sig' \in [kind : Signals, home : Nat] /\ sig'.home = Home
    BY <1>1, <1>7 DEF Signal, Signals
  <2> QED
    BY <1>1, <2>1, HomeFact DEF IInv, SignalInv
<1> QED
  BY <1>3, <1>4, <1>5, <1>6, <1>7
  DEF Statement, EnterBlock, EnterLoop, EnterWith

\* The invariant of what is left when a construct other than a call ends, with
\* the signal that was on its way up or with the outcome that was kept.
LEMMA EndKeeps ==
  ASSUME NEW s, NEW d, NEW scr, NEW o, StackInv(s, d, scr, o), s /= <<>>,
         s[Len(s)].kind \notin {"func", "try", "handler"}
  PROVE  LET t == SubSeq(s, 1, Len(s) - 1)
         IN  /\ StackInv(t, d, scr, o)
             /\ \A g : SignalInv(s, g) => SignalInv(t, g)
             /\ s[Len(s)].kind \in Cleanups => SignalInv(t, s[Len(s)].kept)
<1> DEFINE t == SubSeq(s, 1, Len(s) - 1)
<1>1. ~Owes(s[Len(s)]) /\ s[Len(s)].kind /= "func"
  BY DEF Owes
<1>2. /\ StackInv(t, d, scr, o) /\ CallsOf(t) = CallsOf(s)
      /\ CallsOf(s) = {q \in CallsOf(s) : q < Len(s)}
  BY <1>1, PopKeeps
<1>3. s[Len(s)] \in Constructs /\ KeepsHome(s, s[Len(s)], Len(s))
  BY TopFact
<1>4. s[Len(s)].kept \in [kind : Signals, home : Nat]
  BY <1>3 DEF Constructs
<1> QED
  BY <1>2, <1>3, <1>4 DEF SignalInv, KeepsHome, Cleanups

\* A cleanup or the calls deferred make one more call, or cannot.
LEMMA CleanupKeeps ==
  ASSUME NEW s, NEW d, NEW scr, NEW o, StackInv(s, d, scr, o), s /= <<>>,
         s[Len(s)].kind \in {"defers", "closing"}, NEW n \in Nat, s[Len(s)].left = n + 1
  PROVE  LET t == [s EXCEPT ![Len(s)] = [s[Len(s)] EXCEPT !.left = n]]
         IN  /\ StackInv(t, d, scr, o)
             /\ StackInv(Append(t, Construct("func")), Append(d, 0), scr, o)
             /\ CallsOf(t) = CallsOf(s)
<1> DEFINE c == [s[Len(s)] EXCEPT !.left = n]
           t == [s EXCEPT ![Len(s)] = c]
<1>1. /\ s[Len(s)] \in Constructs /\ KeepsHome(s, s[Len(s)], Len(s))
      /\ ~(Len(s) > MaxStack)
      /\ o = IF Owes(s[Len(s)]) THEN o \cup {Len(s)} ELSE o \ {Len(s)}
      /\ s \in Seq(Constructs) /\ Len(s) \in Nat
  <2> HIDE DEF c, t
  <2>1. n + 1 /= 0 /\ s \in Seq(Constructs)
    BY DEF StackInv
  <2> QED
    BY <2>1, TopFact DEF Overhangs
<1>2. c \in Constructs /\ c.kind = s[Len(s)].kind /\ c.kept = s[Len(s)].kept
  BY <1>1 DEF Constructs
<1> HIDE DEF c
<1>3. KeepsHome(s, c, Len(s)) /\ s[Len(s)].kind /= "func" /\ c.kind /= "func"
  BY <1>1, <1>2 DEF KeepsHome
<1>4. o = IF Owes(c) THEN o \cup {Len(s)} ELSE o \ {Len(s)}
  BY <1>1, <1>2 DEF Owes
<1>5. StackInv(t, d, scr, o) /\ CallsOf(t) = CallsOf(s)
  BY <1>1, <1>2, <1>3, <1>4, ReplaceKeeps
<1>6. Len(t) <= MaxStack
  BY <1>1, BoundsAssumption
<1>7. StackInv(Append(t, Construct("func")), Append(d, 0), scr, o)
  <2> HIDE DEF t
  <2> QED
    BY <1>5, <1>6, CallKeeps
<1> QED
  BY <1>5, <1>7 DEF c

\* The ends of constructs.
LEMMA UnwindKeeps == IInv /\ Unwind => IInv'
<1> SUFFICES ASSUME IInv, Unwind PROVE IInv'
  OBVIOUS
<1>1. /\ StackInv(stack, deferStack, scratch, owed) /\ SignalInv(stack, sig)
      /\ stack \in Seq(Constructs) /\ Home \in Nat /\ Home = Innermost(CallsOf(stack))
      /\ sig \in [kind : Signals, home : Nat]
  BY HomeFact DEF IInv, StackInv, SignalInv
<1>2. /\ Depth = Len(stack) /\ Top = stack[Len(stack)]
      /\ Pop = SubSeq(stack, 1, Len(stack) - 1)
      /\ TopKind /= "top" => stack /= <<>> /\ TopKind = stack[Len(stack)].kind
  BY DEF Depth, Top, Pop, TopKind
<1>3. ASSUME TopKind \in Kinds \ {"func", "try", "handler"}, stack' = Pop,
             deferStack' = deferStack, scratch' = scratch, owed' = owed,
             SignalInv(stack, sig') \/ (TopKind \in Cleanups /\ sig' = Top.kept)
      PROVE  IInv'
  <2>1. stack /= <<>> /\ TopKind = stack[Len(stack)].kind
    BY <1>2, <1>3 DEF Kinds
  <2>2. /\ StackInv(Pop, deferStack, scratch, owed)
        /\ \A g : SignalInv(stack, g) => SignalInv(Pop, g)
        /\ TopKind \in Cleanups => SignalInv(Pop, Top.kept)
    BY <1>1, <1>2, <1>3, <2>1, EndKeeps
  <2> QED
    BY <1>3, <2>2 DEF IInv
<1>4. CASE EndBlock
  BY <1>1, <1>3, <1>4 DEF EndBlock, Kinds
<1>5. CASE EndLoop
  BY <1>1, <1>3, <1>5, NoSignalFits DEF EndLoop, Kinds
<1>6. CASE ContinueLoop
  BY <1>1, <1>6, NoSignalFits DEF ContinueLoop, IInv
<1>7. CASE EndBody
  <2> DEFINE c == [Top EXCEPT !.kind = "defers", !.kept = sig,
                              !.left = deferStack[Len(deferStack)]]
  <2>1. /\ stack /= <<>> /\ stack[Len(stack)].kind = "func" /\ sig' = NoSignal
        /\ scratch' = scratch /\ owed' = owed
        /\ deferStack' = SubSeq(deferStack, 1, Len(deferStack) - 1)
        /\ stack' = [stack EXCEPT ![Len(stack)] = c]
    BY <1>2, <1>7 DEF EndBody, ReplaceTop
  <2>2. Top \in Constructs /\ Len(stack) \in 1 .. Len(stack)
    BY <1>1, <1>2, <2>1, TopFact
  <2>3. CallsOf(stack) /= {}
    BY <2>1, <2>2 DEF CallsOf
  <2>4. deferStack[Len(deferStack)] \in Nat
    <3>1. deferStack \in Seq(Nat) /\ deferStack /= <<>>
      BY <1>1, <2>3, LastList DEF StackInv
    <3>2. Len(deferStack) \in 1 .. Len(deferStack)
      BY <3>1
    <3> QED
      BY <3>1, <3>2
  <2>5. /\ c \in Constructs /\ c.kind = "defers" /\ c.own = stack[Len(stack)].own
        /\ c.left = deferStack[Len(deferStack)]
    BY <1>1, <1>2, <2>2, <2>4 DEF Constructs, Kinds
  <2> HIDE DEF c
  <2>6. StackInv(stack', deferStack', scratch', owed')
    BY <1>1, <2>1, <2>5, BodyKeeps
  <2> QED
    BY <2>1, <2>6, NoSignalFits DEF IInv
<1>8. CASE RunDefer
  <2> DEFINE rest == [Top EXCEPT !.left = @ - 1]
             n == Top.left - 1
             t == [stack EXCEPT ![Len(stack)] = [Top EXCEPT !.left = n]]
  <2>1. /\ stack /= <<>> /\ Top.kind = "defers" /\ Top.left > 0 /\ sig = NoSignal
        /\ scratch' = scratch /\ owed' = owed
    BY <1>2, <1>8 DEF RunDefer, DefersLeft
  <2>2. Top \in Constructs
    BY <1>1, <1>2, <2>1, TopFact
  <2>3. n \in Nat /\ Top.left = n + 1
    BY <2>1, <2>2 DEF Constructs
  <2>4. rest = [Top EXCEPT !.left = n]
    OBVIOUS
  <2>5. /\ StackInv(t, deferStack, scratch, owed)
        /\ StackInv(Append(t, Construct("func")), Append(deferStack, 0), scratch, owed)
    <3> HIDE DEF n
    <3> QED
      BY <1>1, <1>2, <2>1, <2>3, CleanupKeeps
  <2>6. CASE Len(deferStack) >= MaxCallDepth
    <3>1. /\ stack' = t /\ deferStack' = deferStack
          /\ sig' = [kind |-> "raise", home |-> 0]
      BY <1>2, <1>8, <2>4, <2>6 DEF RunDefer, ReplaceTop
    <3>2. SignalInv(stack', sig')
      BY <3>1 DEF SignalInv, Signals
    <3> HIDE DEF t
    <3> QED
      BY <2>1, <2>5, <3>1, <3>2 DEF IInv
  <2>7. CASE ~(Len(deferStack) >= MaxCallDepth)
    <3>1. /\ stack' = Append(t, Construct("func")) /\ deferStack' = Append(deferStack, 0)
          /\ sig' = NoSignal
      BY <1>2, <1>8, <2>1, <2>4, <2>7 DEF RunDefer
    <3> HIDE DEF t
    <3> QED
      BY <2>1, <2>5, <3>1, NoSignalFits DEF IInv
  <2> QED
    BY <2>6, <2>7
<1>9. CASE DeferEnded
  <2>1. CASE sig.kind = "raise"
    BY <1>1, <1>3, <1>9, <2>1 DEF DeferEnded, Kinds
  <2>2. CASE sig.kind /= "raise"
    BY <1>1, <1>9, <2>2, NoSignalFits DEF DeferEnded, IInv
  <2> QED
    BY <2>1, <2>2
<1>10. ASSUME NEW fits \in BOOLEAN, ReturnToCaller(fits) PROVE IInv'
  <2>1. /\ TopKind = "defers" /\ stack' = Pop
        /\ deferStack' = deferStack /\ scratch' = scratch /\ owed' = owed
    BY <1>10 DEF ReturnToCaller
  <2>2. Top \in Constructs
    BY <1>1, <1>2, <2>1, TopFact
  <2>3. SignalInv(stack, sig')
    <3>1. CASE Top.kept.kind /= "return"
      <4>1. sig' = Top.kept
        BY <1>10, <3>1 DEF ReturnToCaller
      <4>2. Top.kept \in [kind : Signals, home : Nat]
        BY <2>2 DEF Constructs
      <4> QED
        BY <3>1, <4>1, <4>2 DEF SignalInv
    <3>2. CASE Top.kept.kind = "return"
      <4>1. sig' = NoSignal \/ sig' = [kind |-> "raise", home |-> Home]
        BY <1>10, <3>2 DEF ReturnToCaller
      <4>2. SignalInv(stack, [kind |-> "raise", home |-> Home])
        BY <1>1 DEF SignalInv, Signals
      <4> QED
        BY <4>1, <4>2, NoSignalFits
    <3> QED
      BY <3>1, <3>2
  <2> QED
    BY <1>3, <2>1, <2>3 DEF Kinds
<1>11. ASSUME TopKind \in {"try", "handler"}, NEW g, SignalInv(stack, g),
              IF Top.finally
                THEN /\ stack' = [stack EXCEPT ![Len(stack)] =
                                    [Top EXCEPT !.kind = "finally", !.kept = g]]
                     /\ sig' = NoSignal /\ owed' = owed \ {Len(stack)}
                ELSE stack' = Pop /\ sig' = g /\ owed' = owed,
              deferStack' = deferStack, scratch' = scratch
       PROVE  IInv'
  <2>1. stack /= <<>> /\ stack[Len(stack)].kind \in {"try", "handler"}
    BY <1>2, <1>11
  <2>2. StackInv(stack', deferStack, scratch, owed') /\ SignalInv(stack', sig')
    BY <1>1, <1>2, <1>11, <2>1, LeaveKeeps
  <2> QED
    BY <1>11, <2>2 DEF IInv
<1>12. CASE EndTry
  BY <1>1, <1>2, <1>11, <1>12 DEF EndTry, LeaveTry, ReplaceTop
<1>13. CASE Catch
  <2> DEFINE c == [Top EXCEPT !.kind = "handler"]
  <2>1. /\ stack /= <<>> /\ Top.kind = "try" /\ sig' = NoSignal
        /\ deferStack' = deferStack /\ scratch' = scratch /\ owed' = owed
        /\ stack' = [stack EXCEPT ![Len(stack)] = c]
    BY <1>2, <1>13 DEF Catch, ReplaceTop
  <2>2. /\ Top \in Constructs /\ ~(Len(stack) > MaxStack)
        /\ owed = IF Owes(Top) THEN owed \cup {Len(stack)} ELSE owed \ {Len(stack)}
    <3> HIDE DEF c
    <3> QED
      BY <1>1, <1>2, <2>1, TopFact DEF Overhangs
  <2>3. c \in Constructs /\ c.kind = "handler" /\ c.finally = Top.finally
    BY <2>2 DEF Constructs, Kinds
  <2> HIDE DEF c
  <2>4. c.kind /= "func" /\ KeepsHome(stack, c, Len(stack)) /\ (Owes(c) <=> Owes(Top))
    BY <2>1, <2>3 DEF KeepsHome, Owes
  <2>5. owed = IF Owes(c) THEN owed \cup {Len(stack)} ELSE owed \ {Len(stack)}
    BY <2>2, <2>4
  <2>6. StackInv(stack', deferStack, scratch, owed)
    BY <1>1, <1>2, <2>1, <2>2, <2>3, <2>4, <2>5, ReplaceKeeps
  <2> QED
    BY <2>1, <2>6, NoSignalFits DEF IInv
<1>14. CASE EndFinally
  <2>1. SignalInv(stack, sig') \/ (TopKind \in Cleanups /\ sig' = Top.kept)
    BY <1>1, <1>14 DEF EndFinally, Cleanups
  <2> QED
    BY <1>3, <1>14, <2>1 DEF EndFinally, Kinds
<1>15. ASSUME NEW kind \in {"raise", "error"}, MatchFails(kind) PROVE IInv'
  <2> DEFINE g == [kind |-> kind, home |-> Home]
  <2>1. SignalInv(stack, g)
    BY <1>1 DEF SignalInv, Signals
  <2>2. TopKind \in {"try", "handler"} /\ deferStack' = deferStack /\ scratch' = scratch
    BY <1>15 DEF MatchFails
  <2>3. LeaveTry(g)
    BY <1>15 DEF MatchFails
  <2> HIDE DEF g
  <2> QED
    BY <1>2, <1>11, <2>1, <2>2, <2>3 DEF LeaveTry, ReplaceTop
<1>16. ASSUME NEW closeable \in BOOLEAN, EndWith(closeable) PROVE IInv'
  <2>1. /\ stack /= <<>> /\ Top.kind = "with"
        /\ deferStack' = deferStack /\ scratch' = scratch /\ owed' = owed
    BY <1>2, <1>16 DEF EndWith
  <2>2. CASE closeable
    <3> DEFINE c == [Top EXCEPT !.kind = "closing", !.kept = sig, !.left = 1]
    <3>1. stack' = [stack EXCEPT ![Len(stack)] = c] /\ sig' = NoSignal
      BY <1>2, <1>16, <2>2 DEF EndWith, ReplaceTop
    <3> HIDE DEF c
    <3>2. /\ Top \in Constructs /\ ~(Len(stack) > MaxStack)
          /\ owed = IF Owes(Top) THEN owed \cup {Len(stack)} ELSE owed \ {Len(stack)}
          /\ CallsOf(stack) = {q \in CallsOf(stack) : q < Len(stack)}
      BY <1>1, <1>2, <2>1, TopFact DEF Overhangs
    <3>3. c \in Constructs /\ c.kind = "closing" /\ c.kept = sig
      BY <1>1, <3>2 DEF Constructs, Kinds, c
    <3>4. c.kind /= "func" /\ KeepsHome(stack, c, Len(stack)) /\ ~Owes(c) /\ ~Owes(Top)
      BY <1>1, <2>1, <3>2, <3>3 DEF KeepsHome, Owes, SignalInv
    <3>5. owed = IF Owes(c) THEN owed \cup {Len(stack)} ELSE owed \ {Len(stack)}
      BY <3>2, <3>4
    <3>6. StackInv(stack', deferStack, scratch, owed)
      BY <1>1, <1>2, <2>1, <3>1, <3>2, <3>3, <3>4, <3>5, ReplaceKeeps
    <3> QED
      BY <2>1, <3>1, <3>6, NoSignalFits DEF IInv
  <2>3. CASE ~closeable
    BY <1>1, <1>2, <1>3, <1>16, <2>1, <2>3 DEF EndWith, Kinds
  <2> QED
    BY <2>2, <2>3
<1>17. CASE CallClose
  <2> DEFINE t == [stack EXCEPT ![Len(stack)] = [Top EXCEPT !.left = 0]]
  <2>1. /\ stack /= <<>> /\ Top.kind = "closing" /\ Top.left = 0 + 1 /\ sig' = NoSignal
        /\ scratch' = scratch /\ owed' = owed
    BY <1>2, <1>17 DEF CallClose
  <2>2. /\ StackInv(t, deferStack, scratch, owed)
        /\ StackInv(Append(t, Construct("func")), Append(deferStack, 0), scratch, owed)
    BY <1>1, <1>2, <2>1, CleanupKeeps
  <2>3. CASE Len(deferStack) >= MaxCallDepth
    <3>1. stack' = t /\ deferStack' = deferStack
      BY <1>2, <1>17, <2>3 DEF CallClose, ReplaceTop
    <3> HIDE DEF t
    <3> QED
      BY <2>1, <2>2, <3>1, NoSignalFits DEF IInv
  <2>4. CASE ~(Len(deferStack) >= MaxCallDepth)
    <3>1. stack' = Append(t, Construct("func")) /\ deferStack' = Append(deferStack, 0)
      BY <1>2, <1>17, <2>4 DEF CallClose
    <3> HIDE DEF t
    <3> QED
      BY <2>1, <2>2, <3>1, NoSignalFits DEF IInv
  <2> QED
    BY <2>3, <2>4
<1>18. CASE EndClosing
  <2>1. TopKind \in Cleanups /\ sig' = Top.kept
    BY <1>18 DEF EndClosing, Cleanups
  <2> QED
    BY <1>3, <1>18, <2>1 DEF EndClosing, Kinds
<1>19. CASE EndInput
  BY <1>1, <1>19, NoSignalFits DEF EndInput, IInv
<1> QED
  BY <1>4, <1>5, <1>6, <1>7, <1>8, <1>9, <1>10, <1>12, <1>13, <1>14, <1>15, <1>16,
     <1>17, <1>18, <1>19 DEF Unwind

LEMMA Inductive == IInv /\ [Next]_vars => IInv'
<1>1. IInv /\ UNCHANGED vars => IInv'
  BY DEF IInv, vars
<1> QED
  BY <1>1, StatementKeeps, UnwindKeeps DEF Next

-----------------------------------------------------------------------------
(* What follows.                                                           *)

\* The state has its shape, whatever the bounds.
THEOREM TypeCorrect == Spec => []TypeOK
<1>1. IInv => TypeOK
  BY DEF IInv, StackInv, SignalInv, TypeOK, Depth
<1> QED
  BY <1>1, Initial, Inductive, PTL DEF Spec

\* The defer lists and the calls match (pushDefers, popDefers, addDefers): each
\* call has one list, in the order of the calls, with what its body deferred.
THEOREM DeferListsHolds == Spec => []DeferLists
<1>1. IInv => DeferLists
  <2> SUFFICES ASSUME IInv PROVE DeferLists
    OBVIOUS
  <2>1. Running = CallsOf(stack)
    BY DEF Running, CallsOf, Depth
  <2>2. ListsMatch(Running, stack, deferStack, IF scratch THEN 1 ELSE 0)
    BY <2>1 DEF IInv, StackInv, Base
  <2> QED
    BY <2>2 DEF DeferLists, ListsMatch, Rank
<1> QED
  BY <1>1, Initial, Inductive, PTL DEF Spec

\* No try statement that has a finally is left before it has begun, in whatever
\* way and however constructs nest (the Go defer of evalTryStmt).
THEOREM FinallyOwedHolds == Spec => []FinallyOwed
<1>1. IInv => FinallyOwed
  <2> SUFFICES ASSUME IInv PROVE FinallyOwed
    OBVIOUS
  <2>1. Owing(stack, owed) /\ owed \subseteq 1 .. Len(stack) /\ Len(stack) \in Nat
    BY CallsFact DEF IInv, StackInv
  <2> QED
    BY <2>1 DEF FinallyOwed, Owing, Depth
<1> QED
  BY <1>1, Initial, Inductive, PTL DEF Spec

\* A return ends the call whose body it comes from and no other, also when it
\* waits for a finally or a with to clean up.
THEOREM ReturnStaysHomeHolds == Spec => []ReturnStaysHome
<1>1. IInv => ReturnStaysHome
  BY HomeFact DEF IInv, SignalInv, ReturnStaysHome
<1> QED
  BY <1>1, Initial, Inductive, PTL DEF Spec
=============================================================================

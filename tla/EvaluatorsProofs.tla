------------------------- MODULE EvaluatorsProofs --------------------------
(***************************************************************************)
(* Proofs about Evaluators: as long as no built-in calls back from a clone, *)
(* every thread has its evaluator to itself, however many there are.        *)
(***************************************************************************)
EXTENDS Evaluators, FiniteSetTheorems, SequenceTheorems, WellFoundedInduction, TLAPS

\* The height of the frame stack when only the first i calls were active.
Height(c, i) == IF i = 0 THEN 0 ELSE c[i].height

\* Calls c, defer lists d and frames f, of one thread and its evaluator: the
\* calls run on it; the last lists are theirs, one each; every call that is
\* framed has its frame where the stack ended when it was made.
OnOwn(t, c) == \A i \in 1 .. Len(c) : c[i].on = t

ListsMatch(t, c, d) ==
  /\ Len(c) <= Len(d)
  /\ \A i \in 1 .. Len(c) : d[Len(d) - Len(c) + i] = [by |-> t, n |-> c[i].own]

FramesMatch(c, f) ==
  /\ Len(f) = Height(c, Len(c))
  /\ \A i \in 1 .. Len(c) :
       /\ c[i].height = Height(c, i - 1) + (IF c[i].via \in Framed THEN 1 ELSE 0)
       /\ c[i].via \in Framed => f[c[i].height] = c[i].class
  /\ \A i, j \in 1 .. Len(c) : i <= j => c[i].height <= c[j].height

Ascends(c) ==
  \A i \in 2 .. Len(c) :
    c[i].via = "super" /\ c[i - 1].via \in Framed => c[i].class < c[i - 1].class

Match(t, c, d, f) == OnOwn(t, c) /\ ListsMatch(t, c, d) /\ FramesMatch(c, f) /\ Ascends(c)

\* What every step preserves.
IInv ==
  /\ TypeOK
  /\ \A t \in Threads : Match(t, calls[t], deferStack[t], frames[t])

-----------------------------------------------------------------------------
(* Lookup.                                                                 *)

\* The class that lookupMethod finds defines the method, and is the class it
\* starts from or one above it: the search along Parent cannot go down.
LEMMA LookupFinds ==
  ASSUME NEW k \in Classes, Offers(k) /= {}
  PROVE  lookupMethod(k) \in Offers(k)
<1> DEFINE Below == {Depth - j : j \in Offers(k)}
<1>1. Offers(k) \subseteq 1 .. Depth
  BY ClassesAssumption DEF Offers, Classes
<1>2. Below \subseteq Nat /\ Below /= {}
  BY <1>1, ClassesAssumption
<1>3. \E x \in Below : \A y \in Below : ~ (<<y, x>> \in OpToRel(<, Nat))
  BY <1>2, NatLessThanWellFounded, WFMin
<1>4. PICK x \in Below : \A y \in Below : ~ (y < x)
  BY <1>2, <1>3 DEF OpToRel
<1>5. PICK j \in Offers(k) : x = Depth - j
  OBVIOUS
<1>6. \A i \in Offers(k) : i <= j
  <2>1. ASSUME NEW i \in Offers(k) PROVE i <= j
    <3>1. Depth - i \in Below
      OBVIOUS
    <3>2. ~ (Depth - i < Depth - j)
      BY <3>1, <1>4, <1>5
    <3> QED
      BY <3>2, <1>1, ClassesAssumption
  <2> QED
    BY <2>1
<1> QED
  BY <1>6 DEF lookupMethod

-----------------------------------------------------------------------------
(* The three things that happen to a thread and its evaluator.             *)

LEMMA FrontOf ==
  ASSUME NEW S, NEW s \in Seq(S), s /= <<>>
  PROVE  /\ Front(s) \in Seq(S) /\ Len(Front(s)) = Len(s) - 1
         /\ \A i \in 1 .. Len(s) - 1 : Front(s)[i] = s[i]
<1>1. Len(s) \in Nat /\ Len(s) >= 1 /\ \A i \in 1 .. Len(s) : s[i] \in S
  OBVIOUS
<1>2. \A i \in 1 .. Len(s) - 1 : s[i] \in S
  BY <1>1
<1>3. 1 \in Int /\ Len(s) - 1 \in Int
  BY <1>1
<1>4. /\ SubSeq(s, 1, Len(s) - 1) \in Seq(S)
      /\ Len(SubSeq(s, 1, Len(s) - 1)) = IF 1 <= Len(s) - 1 THEN (Len(s) - 1) - 1 + 1 ELSE 0
      /\ \A i \in 1 .. (Len(s) - 1) - 1 + 1 : SubSeq(s, 1, Len(s) - 1)[i] = s[1 + i - 1]
  BY <1>2, <1>3, SubSeqProperties
<1>5. (Len(s) - 1) - 1 + 1 = Len(s) - 1 /\ \A i \in 1 .. Len(s) - 1 : 1 + i - 1 = i
  BY <1>1
<1>6. Len(SubSeq(s, 1, Len(s) - 1)) = Len(s) - 1
  <2>1. \A n \in Nat : n >= 1 => (IF 1 <= n - 1 THEN (n - 1) - 1 + 1 ELSE 0) = n - 1
    OBVIOUS
  <2> QED
    BY <2>1, <1>1, <1>4
<1> QED
  BY <1>4, <1>5, <1>6 DEF Front

\* One more deferred call in the last list, and in the innermost call.
LEMMA BumpList ==
  ASSUME NEW d \in Seq(Lists), d /= <<>>, Last(d).n < MaxDefers
  PROVE  /\ [d EXCEPT ![Len(d)].n = @ + 1] \in Seq(Lists)
         /\ Len([d EXCEPT ![Len(d)].n = @ + 1]) = Len(d)
<1>1. Len(d) \in 1 .. Len(d)
  OBVIOUS
<1>2. d[Len(d)] \in Lists /\ d[Len(d)].n < MaxDefers
  BY <1>1 DEF Last
<1>3. [d[Len(d)] EXCEPT !.n = @ + 1] \in Lists
  BY <1>2, BoundsAssumption DEF Lists
<1> QED
  BY <1>1, <1>3

LEMMA BumpCall ==
  ASSUME NEW c \in Seq(Calls), c /= <<>>, Last(c).own < MaxDefers
  PROVE  [c EXCEPT ![Len(c)].own = @ + 1] \in Seq(Calls)
<1>1. Len(c) \in 1 .. Len(c)
  OBVIOUS
<1>2. c[Len(c)] \in Calls /\ c[Len(c)].own < MaxDefers
  BY <1>1 DEF Last
<1>3. \A r \in Calls : r.own < MaxDefers => [r EXCEPT !.own = @ + 1] \in Calls
  <2>1. \A n \in 0 .. MaxDefers : n < MaxDefers => n + 1 \in 0 .. MaxDefers
    BY BoundsAssumption
  <2> QED
    BY <2>1 DEF Calls
<1> QED
  BY <1>1, <1>2, <1>3

LEMMA HeightNat ==
  ASSUME NEW c \in Seq(Calls), NEW i \in Nat, i <= Len(c)
  PROVE  Height(c, i) \in Nat
<1>1. CASE i = 0
  BY <1>1 DEF Height
<1>2. CASE i /= 0
  <2>1. i \in 1 .. Len(c)
    BY <1>2
  <2>2. c[i] \in Calls
    BY <2>1
  <2> QED
    BY <1>2, <2>2 DEF Height, Calls
<1> QED
  BY <1>1, <1>2

\* A call is entered, with or without a frame.
LEMMA EnterMatches ==
  ASSUME NEW t \in Threads, NEW c \in Seq(Calls), NEW d \in Seq(Lists), NEW f \in Seq(Classes),
         Match(t, c, d, f),
         NEW via \in Framed \cup {"function", "generator"}, NEW class \in 0 .. Depth,
         via \in Framed => class \in Classes,
         via = "super" /\ f /= <<>> => class < Last(f),
         NEW g, g = IF via \in Framed THEN Append(f, class) ELSE f
  PROVE  Match(t, Append(c, [on |-> t, own |-> 0, via |-> via, class |-> class, height |-> Len(g)]),
               Append(d, [by |-> t, n |-> 0]), g)
<1> DEFINE r == [on |-> t, own |-> 0, via |-> via, class |-> class, height |-> Len(g)]
           cc == Append(c, r)
           dd == Append(d, [by |-> t, n |-> 0])
<1> USE BoundsAssumption, ClassesAssumption
<1>0. g \in Seq(Classes) /\ Len(g) = Len(f) + (IF via \in Framed THEN 1 ELSE 0)
  OBVIOUS
<1>1. /\ Len(cc) = Len(c) + 1 /\ cc[Len(c) + 1] = r
      /\ \A i \in 1 .. Len(c) : cc[i] = c[i]
  BY <1>0
<1>2. /\ Len(dd) = Len(d) + 1 /\ dd[Len(d) + 1] = [by |-> t, n |-> 0]
      /\ \A i \in 1 .. Len(d) : dd[i] = d[i]
  OBVIOUS
<1>3. /\ Len(c) \in Nat /\ Len(d) \in Nat /\ Len(f) \in Nat
      /\ \A i \in 1 .. Len(c) : c[i].height \in Nat
  <2>1. \A i \in 1 .. Len(c) : c[i] \in Calls
    OBVIOUS
  <2>2. \A x \in Calls : x.height \in Nat
    BY DEF Calls
  <2>3. Len(c) \in Nat /\ Len(d) \in Nat /\ Len(f) \in Nat
    OBVIOUS
  <2> QED
    BY <2>1, <2>2, <2>3
<1>a. \A i : i \in 1 .. Len(cc) <=> i \in 1 .. Len(c) \/ i = Len(c) + 1
  BY <1>1, <1>3
<1> HIDE DEF cc, dd
<1>4. OnOwn(t, cc)
  BY <1>1 DEF Match, OnOwn
<1>5. ListsMatch(t, cc, dd)
  <2>1. Len(c) <= Len(d)
    BY DEF Match, ListsMatch
  <2>2. ASSUME NEW i \in 1 .. Len(cc)
        PROVE  dd[Len(dd) - Len(cc) + i] = [by |-> t, n |-> cc[i].own]
    <3>1. Len(dd) - Len(cc) + i = Len(d) - Len(c) + i
      BY <1>1, <1>2, <1>3
    <3>2. CASE i = Len(c) + 1
      <4>1. Len(d) - Len(c) + i = Len(d) + 1
        BY <3>2, <1>3
      <4> QED
        BY <3>1, <3>2, <4>1, <1>1, <1>2
    <3>3. CASE i \in 1 .. Len(c)
      <4>1. Len(d) - Len(c) + i \in 1 .. Len(d)
        BY <3>3, <2>1, <1>3
      <4>2. dd[Len(d) - Len(c) + i] = d[Len(d) - Len(c) + i]
        BY <4>1, <1>2
      <4>3. d[Len(d) - Len(c) + i] = [by |-> t, n |-> c[i].own]
        BY <3>3 DEF Match, ListsMatch
      <4>4. cc[i] = c[i]
        BY <3>3, <1>1
      <4> QED
        BY <3>1, <4>2, <4>3, <4>4
    <3> QED
      BY <3>2, <3>3, <1>a
  <2> QED
    BY <2>1, <2>2, <1>1, <1>2, <1>3 DEF ListsMatch
<1>6. FramesMatch(cc, g)
  <2>1. \A i \in 0 .. Len(c) : Height(cc, i) = Height(c, i)
    BY <1>1 DEF Height
  <2>2. Len(f) = Height(c, Len(c))
    BY DEF Match, FramesMatch
  <2>3. Len(g) = Height(cc, Len(cc))
    BY <1>1 DEF Height
  <2>4. ASSUME NEW i \in 1 .. Len(cc)
        PROVE  /\ cc[i].height = Height(cc, i - 1) + (IF cc[i].via \in Framed THEN 1 ELSE 0)
               /\ cc[i].via \in Framed => g[cc[i].height] = cc[i].class
    <3>1. CASE i = Len(c) + 1
      BY <3>1, <1>0, <1>1, <2>1, <2>2
    <3>2. CASE i \in 1 .. Len(c)
      <4>1. c[i].via \in Framed => c[i].height \in 1 .. Len(f)
        <5>1. c[i].height <= Len(f)
          BY <3>2, <1>3, <2>2 DEF Match, FramesMatch, Height
        <5>2. Height(c, i - 1) \in Nat
          BY <3>2, <1>3 DEF Height
        <5> QED
          BY <3>2, <1>3, <5>1, <5>2 DEF Match, FramesMatch
      <4>2. \A j \in 1 .. Len(f) : g[j] = f[j]
        OBVIOUS
      <4>3. cc[i] = c[i] /\ Height(cc, i - 1) = Height(c, i - 1)
        <5>1. i - 1 \in 0 .. Len(c)
          BY <3>2, <1>3
        <5> QED
          BY <3>2, <5>1, <1>1, <2>1
      <4> QED
        BY <3>2, <4>1, <4>2, <4>3 DEF Match, FramesMatch
    <3> QED
      BY <3>1, <3>2, <1>a
  <2>5. ASSUME NEW i \in 1 .. Len(cc), NEW j \in 1 .. Len(cc), i <= j
        PROVE  cc[i].height <= cc[j].height
    <3>1. CASE j \in 1 .. Len(c)
      <4>1. i \in 1 .. Len(c)
        BY <2>5, <3>1, <1>a, <1>3
      <4>2. c[i].height <= c[j].height
        BY <2>5, <3>1, <4>1 DEF Match, FramesMatch
      <4> QED
        BY <3>1, <4>1, <4>2, <1>1
    <3>2. CASE j = Len(c) + 1 /\ i \in 1 .. Len(c)
      <4>1. c[i].height <= Len(f)
        <5>1. Len(c) \in 1 .. Len(c) /\ i <= Len(c)
          BY <3>2, <1>3
        <5>2. Len(f) = c[Len(c)].height
          BY <5>1, <2>2 DEF Height
        <5>3. c[i].height <= c[Len(c)].height
          BY <3>2, <5>1 DEF Match, FramesMatch
        <5> QED
          BY <5>2, <5>3
      <4> QED
        BY <3>2, <4>1, <1>0, <1>1, <1>3
    <3>3. CASE i = Len(c) + 1
      BY <2>5, <3>3, <1>0, <1>1, <1>3
    <3> QED
      BY <3>1, <3>2, <3>3, <1>1, <1>3
  <2> QED
    BY <2>3, <2>4, <2>5 DEF FramesMatch
<1>7. Ascends(cc)
  <2>1. ASSUME NEW i \in 2 .. Len(cc), cc[i].via = "super", cc[i - 1].via \in Framed
        PROVE  cc[i].class < cc[i - 1].class
    <3>1. CASE i \in 1 .. Len(c)
      <4>1. i \in 2 .. Len(c) /\ i - 1 \in 1 .. Len(c)
        BY <3>1, <1>3
      <4>2. c[i].via = "super" /\ c[i - 1].via \in Framed
        BY <2>1, <4>1, <3>1, <1>1
      <4>3. c[i].class < c[i - 1].class
        BY <4>1, <4>2 DEF Match, Ascends
      <4> QED
        BY <4>1, <4>3, <3>1, <1>1
    <3>2. CASE i = Len(c) + 1
      <4>1. Len(c) \in 1 .. Len(c) /\ c[Len(c)].via \in Framed /\ via = "super"
        BY <2>1, <3>2, <1>1, <1>3
      <4>2. Len(f) = c[Len(c)].height /\ f[Len(f)] = c[Len(c)].class
        BY <4>1 DEF Match, FramesMatch, Height
      <4>3. Height(c, Len(c) - 1) \in Nat
        <5>1. Len(c) - 1 \in Nat /\ Len(c) - 1 <= Len(c)
          BY <4>1, <1>3
        <5> QED
          BY <5>1, HeightNat
      <4>4. f /= <<>>
        BY <4>1, <4>2, <4>3 DEF Match, FramesMatch
      <4> QED
        BY <4>1, <4>2, <4>4, <3>2, <1>1 DEF Last
    <3>3. i \in 1 .. Len(cc)
      BY <1>1, <1>3
    <3> QED
      BY <3>1, <3>2, <3>3, <1>a
  <2> QED
    BY <2>1 DEF Ascends
<1> QED
  BY <1>4, <1>5, <1>6, <1>7 DEF Match, cc, dd

\* A call is over: its list goes, and its frame if it has one.
LEMMA ReturnMatches ==
  ASSUME NEW t \in Threads, NEW c \in Seq(Calls), NEW d \in Seq(Lists), NEW f \in Seq(Classes),
         c /= <<>>, Match(t, c, d, f)
  PROVE  /\ d /= <<>>
         /\ Last(c).via \in Framed => f /= <<>>
         /\ Match(t, Front(c), Front(d), IF Last(c).via \in Framed THEN Front(f) ELSE f)
<1> DEFINE n == Len(c)
           g == IF Last(c).via \in Framed THEN Front(f) ELSE f
<1>1. /\ n \in Nat /\ n >= 1 /\ Len(d) \in Nat /\ Len(f) \in Nat
      /\ \A i \in 1 .. n : c[i].height \in Nat
  <2>1. \A i \in 1 .. n : c[i] \in Calls
    OBVIOUS
  <2> QED
    BY <2>1 DEF Calls
<1>2. n <= Len(d)
  BY DEF Match, ListsMatch
<1>3. /\ Front(c) \in Seq(Calls) /\ Len(Front(c)) = n - 1
      /\ \A i \in 1 .. n - 1 : Front(c)[i] = c[i]
  BY FrontOf
<1>4. /\ Front(d) \in Seq(Lists) /\ Len(Front(d)) = Len(d) - 1
      /\ \A i \in 1 .. Len(d) - 1 : Front(d)[i] = d[i]
  <2>1. d /= <<>>
    BY <1>1, <1>2
  <2> QED
    BY <2>1, FrontOf
<1>5. /\ Last(c) = c[n] /\ Len(f) = c[n].height
      /\ c[n].height = Height(c, n - 1) + (IF c[n].via \in Framed THEN 1 ELSE 0)
      /\ Height(c, n - 1) \in Nat
  <2>1. n \in 1 .. n
    BY <1>1
  <2>2. Len(f) = Height(c, n) /\ Height(c, n) = c[n].height
    BY <2>1 DEF Match, FramesMatch, Height
  <2>3. c[n].height = Height(c, n - 1) + (IF c[n].via \in Framed THEN 1 ELSE 0)
    BY <2>1 DEF Match, FramesMatch
  <2>4. Height(c, n - 1) \in Nat
    BY <1>1, HeightNat
  <2> QED
    BY <2>2, <2>3, <2>4 DEF Last
<1>6. /\ Last(c).via \in Framed => f /= <<>>
      /\ Len(g) = Height(c, n - 1)
      /\ \A j \in 1 .. Height(c, n - 1) : g[j] = f[j]
  <2>1. CASE Last(c).via \in Framed
    <3>1. Len(f) = Height(c, n - 1) + 1
      BY <2>1, <1>5
    <3>2. f /= <<>>
      BY <3>1, <1>1, <1>5
    <3>3. Len(Front(f)) = Len(f) - 1 /\ \A j \in 1 .. Len(f) - 1 : Front(f)[j] = f[j]
      BY <3>2, FrontOf
    <3> QED
      BY <2>1, <3>1, <3>2, <3>3, <1>5
  <2>2. CASE Last(c).via \notin Framed
    BY <2>2, <1>5
  <2> QED
    BY <2>1, <2>2
<1> HIDE DEF n, g
<1>7. OnOwn(t, Front(c))
  BY <1>1, <1>3 DEF Match, OnOwn, n
<1>8. ListsMatch(t, Front(c), Front(d))
  <2>1. ASSUME NEW i \in 1 .. n - 1
        PROVE  Front(d)[(Len(d) - 1) - (n - 1) + i] = [by |-> t, n |-> Front(c)[i].own]
    <3>1. /\ (Len(d) - 1) - (n - 1) + i = Len(d) - n + i
          /\ Len(d) - n + i \in 1 .. Len(d) - 1
      BY <1>1, <1>2
    <3>2. d[Len(d) - n + i] = [by |-> t, n |-> c[i].own]
      BY <1>1 DEF Match, ListsMatch, n
    <3> QED
      BY <3>1, <3>2, <1>3, <1>4
  <2> QED
    BY <2>1, <1>1, <1>2, <1>3, <1>4 DEF ListsMatch
<1>9. FramesMatch(Front(c), g)
  <2>1. \A i \in 0 .. n - 1 : Height(Front(c), i) = Height(c, i)
    BY <1>1, <1>3 DEF Height
  <2>2. \A i \in 1 .. n - 1 : c[i].height <= Height(c, n - 1)
    BY <1>1 DEF Match, FramesMatch, Height, n
  <2>3. ASSUME NEW i \in 1 .. n - 1
        PROVE  /\ c[i].height = Height(c, i - 1) + (IF c[i].via \in Framed THEN 1 ELSE 0)
               /\ c[i].via \in Framed => g[c[i].height] = c[i].class
    <3>1. /\ c[i].height = Height(c, i - 1) + (IF c[i].via \in Framed THEN 1 ELSE 0)
          /\ c[i].via \in Framed => f[c[i].height] = c[i].class
      BY <1>1 DEF Match, FramesMatch, n
    <3>2. Height(c, i - 1) \in Nat
      BY <1>1 DEF Height
    <3>3. c[i].via \in Framed => c[i].height \in 1 .. Height(c, n - 1)
      BY <3>1, <3>2, <2>2, <1>1, <1>5
    <3> QED
      BY <3>1, <3>3, <1>6
  <2>4. ASSUME NEW i \in 1 .. n - 1, NEW j \in 1 .. n - 1, i <= j
        PROVE  c[i].height <= c[j].height
    <3>1. i \in 1 .. n /\ j \in 1 .. n
      BY <1>1
    <3> QED
      BY <2>4, <3>1 DEF Match, FramesMatch, n
  <2>5. Len(g) = Height(Front(c), Len(Front(c)))
    <3>1. n - 1 \in 0 .. n - 1
      BY <1>1
    <3> QED
      BY <3>1, <2>1, <1>3, <1>6
  <2>6. ASSUME NEW i \in 1 .. n - 1
        PROVE  Front(c)[i] = c[i] /\ Height(Front(c), i - 1) = Height(c, i - 1)
    <3>1. i - 1 \in 0 .. n - 1
      BY <1>1
    <3> QED
      BY <3>1, <2>1, <1>3
  <2> QED
    BY <2>3, <2>4, <2>5, <2>6, <1>3 DEF FramesMatch
<1>10. Ascends(Front(c))
  BY <1>1, <1>3 DEF Match, Ascends, n
<1>11. d /= <<>>
  BY <1>1, <1>2
<1> QED
  BY <1>6, <1>7, <1>8, <1>9, <1>10, <1>11 DEF Match, g

\* A call is deferred by the innermost active call.
LEMMA DeferMatches ==
  ASSUME NEW t \in Threads, NEW c \in Seq(Calls), NEW d \in Seq(Lists), NEW f \in Seq(Classes),
         c /= <<>>, Match(t, c, d, f)
  PROVE  /\ d /= <<>>
         /\ Match(t, [c EXCEPT ![Len(c)].own = @ + 1], [d EXCEPT ![Len(d)].n = @ + 1], f)
<1> DEFINE cc == [c EXCEPT ![Len(c)].own = @ + 1]
           dd == [d EXCEPT ![Len(d)].n = @ + 1]
<1>1. /\ Len(c) \in Nat /\ Len(c) >= 1 /\ Len(d) \in Nat
      /\ \A i \in 1 .. Len(c) : c[i] \in Calls
  OBVIOUS
<1>2. Len(c) <= Len(d)
  BY DEF Match, ListsMatch
<1>3. /\ Len(cc) = Len(c)
      /\ \A i \in 1 .. Len(c) :
           cc[i].on = c[i].on /\ cc[i].via = c[i].via /\ cc[i].class = c[i].class
             /\ cc[i].height = c[i].height
             /\ cc[i].own = IF i = Len(c) THEN c[i].own + 1 ELSE c[i].own
  BY <1>1 DEF Calls
<1>4. d[Len(d)] = [by |-> t, n |-> c[Len(c)].own]
  <2>1. Len(d) - Len(c) + Len(c) = Len(d)
    BY <1>1
  <2> QED
    BY <2>1, <1>1 DEF Match, ListsMatch
<1>5. /\ Len(dd) = Len(d)
      /\ \A i \in 1 .. Len(d) :
           dd[i] = IF i = Len(d) THEN [by |-> t, n |-> c[Len(c)].own + 1] ELSE d[i]
  BY <1>1, <1>2, <1>4
<1> HIDE DEF cc, dd
<1>6. OnOwn(t, cc)
  BY <1>3 DEF Match, OnOwn
<1>7. ListsMatch(t, cc, dd)
  <2>1. ASSUME NEW i \in 1 .. Len(c)
        PROVE  dd[Len(d) - Len(c) + i] = [by |-> t, n |-> cc[i].own]
    <3>1. Len(d) - Len(c) + i \in 1 .. Len(d) /\ (Len(d) - Len(c) + i = Len(d) <=> i = Len(c))
      BY <1>1, <1>2
    <3>2. d[Len(d) - Len(c) + i] = [by |-> t, n |-> c[i].own]
      BY DEF Match, ListsMatch
    <3>3. dd[Len(d) - Len(c) + i] =
            IF i = Len(c) THEN [by |-> t, n |-> c[Len(c)].own + 1] ELSE d[Len(d) - Len(c) + i]
      <4> DEFINE k == Len(d) - Len(c) + i
      <4> HIDE DEF k
      <4>1. k \in 1 .. Len(d) /\ (k = Len(d) <=> i = Len(c))
        BY <3>1 DEF k
      <4>2. dd[k] = IF i = Len(c) THEN [by |-> t, n |-> c[Len(c)].own + 1] ELSE d[k]
        BY <4>1, <1>5
      <4> QED
        BY <4>2 DEF k
    <3>4. cc[i].own = IF i = Len(c) THEN c[i].own + 1 ELSE c[i].own
      BY <1>3
    <3> QED
      BY <3>2, <3>3, <3>4
  <2> QED
    BY <2>1, <1>2, <1>3, <1>5 DEF ListsMatch
<1>8. FramesMatch(cc, f)
  <2>1. \A i \in 0 .. Len(c) : Height(cc, i) = Height(c, i)
    BY <1>1, <1>3 DEF Height
  <2>2. \A i \in 1 .. Len(c) : i - 1 \in 0 .. Len(c)
    BY <1>1
  <2>3. Len(c) \in 0 .. Len(c)
    BY <1>1
  <2> QED
    BY <2>1, <2>2, <2>3, <1>3 DEF Match, FramesMatch
<1>9. Ascends(cc)
  <2>1. \A i \in 2 .. Len(c) : i \in 1 .. Len(c) /\ i - 1 \in 1 .. Len(c)
    BY <1>1
  <2> QED
    BY <2>1, <1>3 DEF Match, Ascends
<1>10. d /= <<>>
  BY <1>1, <1>2
<1> QED
  BY <1>6, <1>7, <1>8, <1>9, <1>10 DEF Match, cc, dd

-----------------------------------------------------------------------------
(* The steps.                                                              *)

\* A step of thread t on its evaluator leaves the others' alone.
LEMMA OneThread ==
  ASSUME IInv, NEW t \in Threads, NEW c \in Seq(Calls), NEW d \in Seq(Lists), NEW f \in Seq(Classes),
         Match(t, c, d, f),
         started' \subseteq Threads,
         calls' = [calls EXCEPT ![t] = c],
         deferStack' = [deferStack EXCEPT ![t] = d],
         frames' = [frames EXCEPT ![t] = f]
  PROVE  IInv'
<1>1. TypeOK'
  BY DEF IInv, TypeOK
<1>2. ASSUME NEW u \in Threads PROVE Match(u, calls'[u], deferStack'[u], frames'[u])
  BY DEF IInv, TypeOK
<1> QED
  BY <1>1, <1>2 DEF IInv, Match, OnOwn, ListsMatch, FramesMatch, Ascends, Height

\* Who runs on which evaluator.
LEMMA CurrentIsOwn ==
  ASSUME IInv, NEW t \in Threads
  PROVE  Current(t) = t
<1>1. CASE calls[t] = <<>>
  BY <1>1 DEF Current, cloneEval
<1>2. CASE calls[t] /= <<>>
  <2>1. calls[t] \in Seq(Calls)
    BY DEF IInv, TypeOK
  <2>2. Len(calls[t]) \in 1 .. Len(calls[t])
    BY <2>1, <1>2
  <2> QED
    BY <1>2, <2>2 DEF Current, IInv, Match, OnOwn, Last
<1> QED
  BY <1>1, <1>2

\* A call of thread t.
LEMMA EnterKeeps ==
  ASSUME IInv, NEW t \in Threads, started' \subseteq Threads,
         NEW via \in Framed \cup {"function", "generator"}, NEW class \in 0 .. Depth,
         via \in Framed => class \in Classes,
         via = "super" /\ frames[t] /= <<>> => class < Last(frames[t]),
         frames' = IF via \in Framed THEN [frames EXCEPT ![t] = Append(@, class)] ELSE frames,
         Enter(t, t, via, class)
  PROVE  IInv'
<1> DEFINE g == IF via \in Framed THEN Append(frames[t], class) ELSE frames[t]
           r == [on |-> t, own |-> 0, via |-> via, class |-> class, height |-> Len(g)]
           c == Append(calls[t], r)
           d == Append(deferStack[t], [by |-> t, n |-> 0])
<1>1. /\ calls \in [Threads -> Seq(Calls)] /\ deferStack \in [Threads -> Seq(Lists)]
      /\ frames \in [Threads -> Seq(Classes)]
      /\ Match(t, calls[t], deferStack[t], frames[t])
  BY DEF IInv, TypeOK
<1>2. g \in Seq(Classes)
  BY <1>1
<1>3. frames' = [frames EXCEPT ![t] = g] /\ frames'[t] = g
  <2>1. CASE via \in Framed
    BY <2>1, <1>1
  <2>2. CASE via \notin Framed
    BY <2>2, <1>1
  <2> QED
    BY <2>1, <2>2
<1>4. d \in Seq(Lists)
  <2>1. [by |-> t, n |-> 0] \in Lists
    BY BoundsAssumption DEF Lists
  <2> QED
    BY <2>1, <1>1
<1>5. c \in Seq(Calls)
  <2>1. r \in Calls
    BY <1>2, BoundsAssumption DEF Calls
  <2> QED
    BY <1>1, <2>1
<1>6. Match(t, c, d, g)
  BY <1>1, EnterMatches
<1>7. calls' = [calls EXCEPT ![t] = c] /\ deferStack' = [deferStack EXCEPT ![t] = d]
  BY <1>1, <1>3 DEF Enter
<1> HIDE DEF g, r, c, d
<1> QED
  BY <1>2, <1>3, <1>4, <1>5, <1>6, <1>7, OneThread

LEMMA Initial == Init => IInv
<1> SUFFICES ASSUME Init PROVE IInv
  OBVIOUS
<1>1. TypeOK
  BY DEF Init, TypeOK, Threads
<1>2. ASSUME NEW t \in Threads PROVE Match(t, calls[t], deferStack[t], frames[t])
  BY DEF Init, Match, OnOwn, ListsMatch, FramesMatch, Ascends, Height
<1> QED
  BY <1>1, <1>2 DEF IInv

\* A call of a method found from class k.
LEMMA MethodKeeps ==
  ASSUME IInv, NEW t \in Threads, NEW k \in Classes, NEW via \in Framed,
         via = "super" /\ frames[t] /= <<>> => k < Last(frames[t]),
         callMethod(t, t, via, k)
  PROVE  IInv'
<1>1. lookupMethod(k) \in Defining /\ lookupMethod(k) <= k
  <2>1. lookupMethod(k) \in Offers(k)
    BY LookupFinds DEF callMethod
  <2> QED
    BY <2>1 DEF Offers
<1>2. lookupMethod(k) \in Classes /\ lookupMethod(k) \in 0 .. Depth
  <2>1. lookupMethod(k) \in Classes
    BY <1>1, ClassesAssumption
  <2>2. \A j \in Classes : j \in 0 .. Depth
    BY ClassesAssumption DEF Classes
  <2> QED
    BY <2>1, <2>2
<1>3. via = "super" /\ frames[t] /= <<>> => lookupMethod(k) < Last(frames[t])
  <2>1. ASSUME via = "super", frames[t] /= <<>> PROVE lookupMethod(k) < Last(frames[t])
    <3>1. frames[t] \in Seq(Classes)
      BY DEF IInv, TypeOK
    <3>2. Last(frames[t]) \in Classes
      BY <2>1, <3>1 DEF Last
    <3> QED
      BY <2>1, <3>2, <1>1, <1>2, ClassesAssumption DEF Classes
  <2> QED
    BY <2>1
<1>4. started' \subseteq Threads
  BY DEF callMethod, IInv, TypeOK
<1>5. /\ frames' = [frames EXCEPT ![t] = Append(@, lookupMethod(k))]
      /\ Enter(t, t, via, lookupMethod(k))
  BY DEF callMethod, FrameClass
<1> QED
  BY <1>2, <1>3, <1>4, <1>5, EnterKeeps

LEMMA FunctionKeeps ==
  ASSUME IInv, NEW t \in Threads, callFunction(t, t)
  PROVE  IInv'
<1>1. /\ started' \subseteq Threads /\ frames' = frames
      /\ Enter(t, t, "function", 0)
  BY DEF callFunction, IInv, TypeOK
<1>2. 0 \in 0 .. Depth /\ "function" \notin Framed
  BY ClassesAssumption DEF Framed
<1> QED
  BY <1>1, <1>2, EnterKeeps

LEMMA SuperKeeps ==
  ASSUME IInv, NEW t \in Threads, NEW k \in Classes, CallSuper(t, k)
  PROVE  IInv'
<1> DEFINE parent == superMarker(t, k)
<1>1. parent > 0 /\ (callMethod(t, t, "super", parent) \/ callFunction(t, t))
  BY CurrentIsOwn DEF CallSuper
<1> SUFFICES ASSUME callMethod(t, t, "super", parent) PROVE IInv'
  BY <1>1, FunctionKeeps
<1>2. frames[t] \in Seq(Classes)
  BY DEF IInv, TypeOK
<1>3. CASE frames[t] = <<>>
  <2>1. parent = k - 1
    BY <1>3 DEF superMarker
  <2>2. parent \in Classes
    BY <1>1, <2>1, ClassesAssumption DEF Classes
  <2> QED
    BY <1>1, <1>3, <2>2, MethodKeeps DEF Framed
<1>4. CASE frames[t] /= <<>>
  <2>1. parent = Last(frames[t]) - 1
    BY <1>4 DEF superMarker
  <2>2. Last(frames[t]) \in Classes
    BY <1>2, <1>4 DEF Last
  <2>3. parent \in Classes /\ parent < Last(frames[t])
    BY <1>1, <2>1, <2>2, ClassesAssumption DEF Classes
  <2> QED
    BY <1>1, <2>3, MethodKeeps DEF Framed
<1> QED
  BY <1>3, <1>4

LEMMA RunKeeps ==
  ASSUME IInv, NEW t \in Threads, NEW c \in Clones, run(t, c)
  PROVE  IInv'
<1>1. c \in Threads /\ started' \subseteq Threads /\ frames' = frames
      /\ Enter(c, c, "generator", 0)
  BY DEF run, cloneEval, Threads, IInv, TypeOK
<1>2. 0 \in 0 .. Depth /\ "generator" \notin Framed
  BY ClassesAssumption DEF Framed
<1> QED
  BY <1>1, <1>2, EnterKeeps

LEMMA ReturnKeeps ==
  ASSUME IInv, NEW t \in Threads, Return(t)
  PROVE  IInv'
<1> DEFINE g == IF Last(calls[t]).via \in Framed THEN Front(frames[t]) ELSE frames[t]
<1>1. /\ calls[t] \in Seq(Calls) /\ deferStack[t] \in Seq(Lists) /\ frames[t] \in Seq(Classes)
      /\ frames \in [Threads -> Seq(Classes)]
      /\ Match(t, calls[t], deferStack[t], frames[t])
  BY DEF IInv, TypeOK
<1>2. Current(t) = t /\ calls[t] /= <<>>
  BY CurrentIsOwn DEF Return
<1>3. /\ deferStack[t] /= <<>>
      /\ Last(calls[t]).via \in Framed => frames[t] /= <<>>
      /\ Match(t, Front(calls[t]), Front(deferStack[t]), g)
  BY <1>1, <1>2, ReturnMatches
<1>4. /\ Front(calls[t]) \in Seq(Calls) /\ Front(deferStack[t]) \in Seq(Lists)
      /\ g \in Seq(Classes)
  BY <1>1, <1>2, <1>3, FrontOf
<1>5. frames' = [frames EXCEPT ![t] = g]
  BY <1>1, <1>2 DEF Return
<1>6. /\ calls' = [calls EXCEPT ![t] = Front(calls[t])]
      /\ deferStack' = [deferStack EXCEPT ![t] = Front(deferStack[t])]
      /\ started' \subseteq Threads
  BY <1>2, <1>3 DEF Return, popDefers, IInv, TypeOK
<1> HIDE DEF g
<1> QED
  BY <1>3, <1>4, <1>5, <1>6, OneThread

LEMMA DeferKeeps ==
  ASSUME IInv, NEW t \in Threads, Defer(t)
  PROVE  IInv'
<1>1. /\ calls \in [Threads -> Seq(Calls)] /\ deferStack \in [Threads -> Seq(Lists)]
      /\ frames \in [Threads -> Seq(Classes)] /\ Current(t) = t
      /\ Match(t, calls[t], deferStack[t], frames[t])
      /\ started' \subseteq Threads /\ frames' = frames
  BY CurrentIsOwn DEF IInv, TypeOK, Defer
<1>2. frames' = [frames EXCEPT ![t] = frames[t]]
  BY <1>1
<1>3. CASE calls[t] = <<>>
  <2>1. calls' = [calls EXCEPT ![t] = <<>>]
    BY <1>1, <1>3 DEF Defer
  <2>a. <<>> \in Seq(Calls) /\ frames[t] \in Seq(Classes)
    BY <1>1
  <2>2. CASE deferStack[t] = <<>>
    <3>1. deferStack' = [deferStack EXCEPT ![t] = <<[by |-> t, n |-> 1]>>]
      BY <1>1, <2>2 DEF Defer
    <3>2. <<[by |-> t, n |-> 1]>> \in Seq(Lists)
      BY BoundsAssumption DEF Lists
    <3>3. Match(t, <<>>, <<[by |-> t, n |-> 1]>>, frames[t])
      BY <1>1, <1>3 DEF Match, OnOwn, ListsMatch, FramesMatch, Ascends, Height
    <3> QED
      BY <1>1, <1>2, <2>1, <2>a, <3>1, <3>2, <3>3, OneThread
  <2>3. CASE deferStack[t] /= <<>>
    <3> DEFINE d == [deferStack[t] EXCEPT ![Len(deferStack[t])].n = @ + 1]
    <3>1. deferStack' = [deferStack EXCEPT ![t] = d] /\ Last(deferStack[t]).n < MaxDefers
      BY <1>1, <2>3 DEF Defer
    <3>2. d \in Seq(Lists) /\ Len(d) = Len(deferStack[t])
      BY <1>1, <2>3, <3>1, BumpList
    <3>3. Match(t, <<>>, d, frames[t])
      BY <1>1, <1>3, <3>2 DEF Match, OnOwn, ListsMatch, FramesMatch, Ascends, Height
    <3> HIDE DEF d
    <3> QED
      BY <1>1, <1>2, <2>1, <2>a, <3>1, <3>2, <3>3, OneThread
  <2> QED
    BY <2>2, <2>3
<1>4. CASE calls[t] /= <<>>
  <2> DEFINE c == [calls[t] EXCEPT ![Len(calls[t])].own = @ + 1]
             d == [deferStack[t] EXCEPT ![Len(deferStack[t])].n = @ + 1]
  <2>1. deferStack[t] /= <<>> /\ Match(t, c, d, frames[t])
    BY <1>1, <1>4, DeferMatches
  <2>2. /\ calls' = [calls EXCEPT ![t] = c] /\ Last(calls[t]).own < MaxDefers
        /\ deferStack' = [deferStack EXCEPT ![t] = d] /\ Last(deferStack[t]).n < MaxDefers
    BY <1>1, <1>4, <2>1 DEF Defer
  <2>3. d \in Seq(Lists)
    BY <1>1, <2>1, <2>2, BumpList
  <2>4. c \in Seq(Calls)
    BY <1>1, <1>4, <2>2, BumpCall
  <2> HIDE DEF c, d
  <2> QED
    BY <1>1, <1>2, <2>1, <2>2, <2>3, <2>4, OneThread
<1> QED
  BY <1>3, <1>4

\* Every step of the evaluators, as long as clones call no such built-in.
LEMMA Inductive ==
  ASSUME ~BuiltinsInClones, IInv, [Next]_vars
  PROVE  IInv'
<1>1. CASE UNCHANGED vars
  BY <1>1 DEF IInv, TypeOK, vars, Match, OnOwn, ListsMatch, FramesMatch, Ascends, Height
<1>2. ASSUME NEW t \in Threads, NEW c \in Clones, Start(t, c) PROVE IInv'
  BY <1>2 DEF Start, IInv, TypeOK, Threads, Match, OnOwn, ListsMatch, FramesMatch, Ascends, Height
<1>3. ASSUME NEW t \in Threads, NEW c \in Clones, run(t, c) PROVE IInv'
  BY <1>3, RunKeeps
<1>4. ASSUME NEW t \in Threads, NEW k \in Classes, evalMethodCall(t, k) PROVE IInv'
  BY <1>4, CurrentIsOwn, MethodKeeps DEF evalMethodCall, Framed
<1>5. ASSUME NEW t \in Threads, NEW k \in Classes, CallSuper(t, k) PROVE IInv'
  BY <1>5, SuperKeeps
<1>6. ASSUME NEW t \in Threads, Call(t) PROVE IInv'
  BY <1>6, CurrentIsOwn, FunctionKeeps DEF Call
<1>7. ASSUME NEW t \in Threads, CallFromBuiltin(t) PROVE IInv'
  <2>1. t = Main
    BY <1>7 DEF CallFromBuiltin, Threads
  <2>2. CASE callFunction(t, Main)
    BY <2>1, <2>2, FunctionKeeps
  <2>3. ASSUME NEW k \in Classes, callMethod(t, Main, "method", k) PROVE IInv'
    BY <2>1, <2>3, MethodKeeps DEF Framed
  <2> QED
    BY <1>7, <2>2, <2>3 DEF CallFromBuiltin
<1>8. ASSUME NEW t \in Threads, Defer(t) PROVE IInv'
  BY <1>8, DeferKeeps
<1>9. ASSUME NEW t \in Threads, Return(t) PROVE IInv'
  BY <1>9, ReturnKeeps
<1> QED
  BY <1>1, <1>2, <1>3, <1>4, <1>5, <1>6, <1>7, <1>8, <1>9 DEF Next

-----------------------------------------------------------------------------
(* Types, whoever runs on whose evaluator.                                 *)

\* The evaluator a thread is on is the main one or that of a clone.
LEMMA CurrentIsOne == ASSUME TypeOK, NEW t \in Threads PROVE Current(t) \in Threads
<1>1. CASE calls[t] = <<>>
  BY <1>1 DEF Current, cloneEval
<1>2. CASE calls[t] /= <<>>
  <2>1. calls[t] \in Seq(Calls) /\ Len(calls[t]) \in 1 .. Len(calls[t])
    BY <1>2 DEF TypeOK
  <2>2. Last(calls[t]) \in Calls
    BY <2>1 DEF Last
  <2> QED
    BY <1>2, <2>2 DEF Current, Calls
<1> QED
  BY <1>1, <1>2

\* A call on any evaluator.
LEMMA EnterTypes ==
  ASSUME TypeOK, NEW t \in Threads, NEW ev \in Threads, started' \subseteq Threads,
         NEW via \in Framed \cup {"function", "generator"}, NEW class \in 0 .. Depth,
         frames' \in [Threads -> Seq(Classes)], Enter(t, ev, via, class)
  PROVE  TypeOK'
<1> DEFINE r == [on |-> ev, own |-> 0, via |-> via, class |-> class, height |-> Len(frames'[ev])]
           l == [by |-> t, n |-> 0]
<1>1. r \in Calls
  <2>1. frames'[ev] \in Seq(Classes)
    OBVIOUS
  <2>2. Len(frames'[ev]) \in Nat
    BY <2>1
  <2> QED
    BY <2>2, BoundsAssumption DEF Calls
<1>2. l \in Lists
  BY BoundsAssumption DEF Lists
<1>3. /\ calls' = [calls EXCEPT ![t] = Append(@, r)]
      /\ deferStack' = [deferStack EXCEPT ![ev] = Append(@, l)]
  BY DEF Enter
<1> HIDE DEF r, l
<1>4. calls' \in [Threads -> Seq(Calls)] /\ deferStack' \in [Threads -> Seq(Lists)]
  BY <1>1, <1>2, <1>3 DEF TypeOK
<1> QED
  BY <1>4 DEF TypeOK

LEMMA FunctionTypes ==
  ASSUME TypeOK, NEW t \in Threads, NEW ev \in Threads, callFunction(t, ev)
  PROVE  TypeOK'
<1>1. started' \subseteq Threads /\ frames' \in [Threads -> Seq(Classes)] /\ 0 \in 0 .. Depth
  BY ClassesAssumption DEF TypeOK, callFunction
<1> QED
  BY <1>1, EnterTypes DEF callFunction

LEMMA MethodTypes ==
  ASSUME TypeOK, NEW t \in Threads, NEW ev \in Threads, NEW k \in Classes, NEW via \in Framed,
         callMethod(t, ev, via, k)
  PROVE  TypeOK'
<1>1. lookupMethod(k) \in Classes
  <2>1. lookupMethod(k) \in Offers(k)
    BY LookupFinds DEF callMethod
  <2> QED
    BY <2>1, ClassesAssumption DEF Offers
<1>2. lookupMethod(k) \in 0 .. Depth
  <2>1. \A j \in Classes : j \in 0 .. Depth
    BY ClassesAssumption DEF Classes
  <2> QED
    BY <1>1, <2>1
<1>3. started' \subseteq Threads /\ frames' \in [Threads -> Seq(Classes)]
  BY <1>1 DEF TypeOK, callMethod, FrameClass
<1> QED
  BY <1>2, <1>3, EnterTypes DEF callMethod

\* super of an object that has a parent stays within the classes.
LEMMA SuperInClasses ==
  ASSUME TypeOK, NEW ev \in Threads, NEW k \in Classes, superMarker(ev, k) > 0
  PROVE  superMarker(ev, k) \in Classes
<1>1. frames[ev] \in Seq(Classes)
  BY DEF TypeOK
<1>2. frames[ev] /= <<>> => Last(frames[ev]) \in Classes
  BY <1>1 DEF Last
<1>3. \A j \in Classes : j - 1 > 0 => j - 1 \in Classes
  BY ClassesAssumption DEF Classes
<1> QED
  BY <1>2, <1>3 DEF superMarker

LEMMA SuperTypes ==
  ASSUME TypeOK, NEW t \in Threads, NEW k \in Classes, CallSuper(t, k)
  PROVE  TypeOK'
<1>1. Current(t) \in Threads /\ superMarker(Current(t), k) \in Classes
  BY CurrentIsOne, SuperInClasses DEF CallSuper
<1>2. CASE callMethod(t, Current(t), "super", superMarker(Current(t), k))
  BY <1>1, <1>2, MethodTypes DEF Framed
<1>3. CASE callFunction(t, Current(t))
  BY <1>1, <1>3, FunctionTypes
<1> QED
  BY <1>2, <1>3 DEF CallSuper

LEMMA DeferTypes ==
  ASSUME TypeOK, NEW t \in Threads, Defer(t)
  PROVE  TypeOK'
<1> DEFINE ev == Current(t)
           lists == deferStack[ev]
           c == calls[t]
<1>1. ev \in Threads /\ lists \in Seq(Lists) /\ c \in Seq(Calls)
  BY CurrentIsOne DEF TypeOK
<1>2. deferStack' \in [Threads -> Seq(Lists)]
  <2>1. CASE lists = <<>>
    <3>1. <<[by |-> t, n |-> 1]>> \in Seq(Lists)
      BY BoundsAssumption DEF Lists
    <3>2. deferStack' = [deferStack EXCEPT ![ev] = <<[by |-> t, n |-> 1]>>]
      BY <2>1 DEF Defer
    <3> QED
      BY <3>1, <3>2 DEF TypeOK
  <2>2. CASE lists /= <<>>
    <3>1. Last(lists).n < MaxDefers
          /\ deferStack' = [deferStack EXCEPT ![ev] = [lists EXCEPT ![Len(lists)].n = @ + 1]]
      BY <2>2 DEF Defer
    <3>2. [lists EXCEPT ![Len(lists)].n = @ + 1] \in Seq(Lists)
      BY <1>1, <2>2, <3>1, BumpList
    <3> QED
      BY <3>1, <3>2 DEF TypeOK
  <2> QED
    BY <2>1, <2>2
<1>3. calls' \in [Threads -> Seq(Calls)]
  <2>1. CASE c = <<>>
    BY <2>1 DEF Defer, TypeOK
  <2>2. CASE c /= <<>>
    <3>1. Last(c).own < MaxDefers
          /\ calls' = [calls EXCEPT ![t] = [c EXCEPT ![Len(c)].own = @ + 1]]
      BY <2>2 DEF Defer
    <3>2. [c EXCEPT ![Len(c)].own = @ + 1] \in Seq(Calls)
      BY <1>1, <2>2, <3>1, BumpCall
    <3> QED
      BY <3>1, <3>2 DEF TypeOK
  <2> QED
    BY <2>1, <2>2
<1> QED
  BY <1>2, <1>3 DEF Defer, TypeOK

LEMMA ReturnTypes ==
  ASSUME TypeOK, NEW t \in Threads, Return(t)
  PROVE  TypeOK'
<1> DEFINE ev == Current(t)
<1>1. ev \in Threads /\ deferStack[ev] \in Seq(Lists) /\ frames[ev] \in Seq(Classes)
      /\ calls[t] \in Seq(Calls) /\ calls[t] /= <<>>
  BY CurrentIsOne DEF TypeOK, Return
<1>2. \A S : Front(<<>>) \in Seq(S)
  BY DEF Front
<1>3. /\ popDefers(deferStack[ev]) \in Seq(Lists) /\ Front(frames[ev]) \in Seq(Classes)
      /\ Front(calls[t]) \in Seq(Calls)
  BY <1>1, <1>2, FrontOf DEF popDefers
<1>4. /\ deferStack' = [deferStack EXCEPT ![ev] = popDefers(deferStack[ev])]
      /\ frames' = frames \/ frames' = [frames EXCEPT ![ev] = Front(frames[ev])]
      /\ calls' = [calls EXCEPT ![t] = Front(calls[t])]
      /\ started' = started
  BY DEF Return
<1> HIDE DEF ev
<1> QED
  BY <1>1, <1>3, <1>4 DEF TypeOK

\* The state keeps its shape, the bounds of the lists and of the calls included,
\* whether or not a built-in runs a function on the main evaluator for a clone
\* (Enter, Defer, Return and the lookups they rest on).
THEOREM TypeCorrect == Spec => []TypeOK
<1>1. Init => TypeOK
  BY DEF Init, TypeOK, Threads
<1>2. ASSUME TypeOK, [Next]_vars PROVE TypeOK'
  <2>1. CASE UNCHANGED vars
    BY <1>2, <2>1 DEF TypeOK, vars
  <2>2. ASSUME NEW t \in Threads, NEW c \in Clones, Start(t, c) PROVE TypeOK'
    BY <1>2, <2>2 DEF Start, TypeOK, Threads
  <2>3. ASSUME NEW t \in Threads, NEW c \in Clones, run(t, c) PROVE TypeOK'
    <3>1. /\ c \in Threads /\ started' \subseteq Threads /\ 0 \in 0 .. Depth
          /\ frames' \in [Threads -> Seq(Classes)] /\ Enter(c, c, "generator", 0)
      BY <1>2, <2>3, ClassesAssumption DEF run, cloneEval, TypeOK, Threads
    <3> QED
      BY <1>2, <3>1, EnterTypes
  <2>4. ASSUME NEW t \in Threads, NEW k \in Classes, evalMethodCall(t, k) PROVE TypeOK'
    BY <1>2, <2>4, CurrentIsOne, MethodTypes DEF evalMethodCall, Framed
  <2>5. ASSUME NEW t \in Threads, NEW k \in Classes, CallSuper(t, k) PROVE TypeOK'
    BY <1>2, <2>5, SuperTypes
  <2>6. ASSUME NEW t \in Threads, Call(t) PROVE TypeOK'
    BY <1>2, <2>6, CurrentIsOne, FunctionTypes DEF Call
  <2>7. ASSUME NEW t \in Threads, CallFromBuiltin(t) PROVE TypeOK'
    <3>1. Main \in Threads
      BY DEF Threads
    <3>2. ASSUME NEW k \in Classes, callMethod(t, Main, "method", k) PROVE TypeOK'
      BY <1>2, <3>1, <3>2, MethodTypes DEF Framed
    <3> QED
      BY <1>2, <2>7, <3>1, <3>2, FunctionTypes DEF CallFromBuiltin
  <2>8. ASSUME NEW t \in Threads, Defer(t) PROVE TypeOK'
    BY <1>2, <2>8, DeferTypes
  <2>9. ASSUME NEW t \in Threads, Return(t) PROVE TypeOK'
    BY <1>2, <2>9, ReturnTypes
  <2> QED
    BY <1>2, <2>1, <2>2, <2>3, <2>4, <2>5, <2>6, <2>7, <2>8, <2>9 DEF Next
<1> QED
  BY <1>1, <1>2, PTL DEF Spec

-----------------------------------------------------------------------------
(* Every frame is popped by some call, whoever runs on whose evaluator.     *)

\* The calls, of any thread, that will pop a frame of evaluator ev when they return.
Framing(c, ev) == {i \in 1 .. Len(c) : c[i].on = ev /\ c[i].via \in Framed}
Popping(ev) == {p \in Threads \X Nat : p[2] \in Framing(calls[p[1]], ev)}

\* Evaluator ev has one frame for each of them.
FramesCounted ==
  \A ev \in Threads : IsFiniteSet(Popping(ev)) /\ Cardinality(Popping(ev)) = Len(frames[ev])

\* A thread whose calls are c now; no other thread's change.
LEMMA FramingAppend ==
  ASSUME NEW c \in Seq(Calls), NEW r \in Calls, NEW ev
  PROVE  Framing(Append(c, r), ev) =
           Framing(c, ev) \cup (IF r.on = ev /\ r.via \in Framed THEN {Len(c) + 1} ELSE {})
<1> DEFINE cc == Append(c, r)
<1>1. /\ Len(c) \in Nat /\ Len(cc) = Len(c) + 1 /\ cc[Len(c) + 1] = r
      /\ \A i \in 1 .. Len(c) : cc[i] = c[i]
  OBVIOUS
<1> HIDE DEF cc
<1>2. 1 .. Len(cc) = (1 .. Len(c)) \cup {Len(c) + 1}
  BY <1>1
<1>3. Framing(cc, ev) =
        Framing(c, ev) \cup (IF r.on = ev /\ r.via \in Framed THEN {Len(c) + 1} ELSE {})
  BY <1>1, <1>2 DEF Framing
<1> QED
  BY <1>3 DEF cc

LEMMA FramingFront ==
  ASSUME NEW c \in Seq(Calls), c /= <<>>, NEW ev
  PROVE  Framing(Front(c), ev) = Framing(c, ev) \ {Len(c)}
<1>1. /\ Front(c) \in Seq(Calls) /\ Len(Front(c)) = Len(c) - 1 /\ Len(c) \in Nat
      /\ \A i \in 1 .. Len(c) - 1 : Front(c)[i] = c[i]
  BY FrontOf
<1>2. 1 .. Len(c) - 1 = (1 .. Len(c)) \ {Len(c)}
  BY <1>1
<1> QED
  BY <1>1, <1>2 DEF Framing

\* A call is entered on evaluator ev.
LEMMA EnterCounts ==
  ASSUME TypeOK, TypeOK', FramesCounted, NEW t \in Threads, NEW ev \in Threads,
         NEW via \in Framed \cup {"function", "generator"}, NEW class \in 0 .. Depth,
         frames' = IF via \in Framed THEN [frames EXCEPT ![ev] = Append(@, class)] ELSE frames,
         Enter(t, ev, via, class)
  PROVE  FramesCounted'
<1> DEFINE r == [on |-> ev, own |-> 0, via |-> via, class |-> class, height |-> Len(frames'[ev])]
           p == <<t, Len(calls[t]) + 1>>
<1>1. r \in Calls /\ r.on = ev /\ r.via = via
  <2>1. frames'[ev] \in Seq(Classes)
    BY DEF TypeOK
  <2>2. Len(frames'[ev]) \in Nat
    BY <2>1
  <2> QED
    BY <2>2, BoundsAssumption DEF Calls
<1>2. calls' = [calls EXCEPT ![t] = Append(@, r)]
  BY DEF Enter
<1> HIDE DEF r
<1>3. calls \in [Threads -> Seq(Calls)] /\ frames \in [Threads -> Seq(Classes)]
      /\ Len(calls[t]) \in Nat /\ p \in Threads \X Nat
  <2>1. calls \in [Threads -> Seq(Calls)] /\ frames \in [Threads -> Seq(Classes)]
    BY DEF TypeOK
  <2>2. calls[t] \in Seq(Calls)
    BY <2>1
  <2>3. Len(calls[t]) \in Nat
    BY <2>2
  <2> QED
    BY <2>1, <2>3
<1>4. ASSUME NEW e \in Threads
      PROVE  Popping(e)' = Popping(e) \cup (IF e = ev /\ via \in Framed THEN {p} ELSE {})
  <2>1. Framing(calls'[t], e) =
          Framing(calls[t], e) \cup (IF e = ev /\ via \in Framed THEN {Len(calls[t]) + 1} ELSE {})
    <3>1. calls'[t] = Append(calls[t], r) /\ calls[t] \in Seq(Calls)
      BY <1>2, <1>3
    <3> QED
      BY <1>1, <3>1, FramingAppend
  <2>2. \A u \in Threads : u /= t => calls'[u] = calls[u]
    BY <1>2, <1>3
  <2>3. ASSUME NEW q \in Threads \X Nat
        PROVE  q \in Popping(e)' <=> q \in Popping(e) \/ (e = ev /\ via \in Framed /\ q = p)
    <3>1. CASE q[1] = t
      <4>1. q = p <=> q[2] = Len(calls[t]) + 1
        BY <3>1
      <4> QED
        BY <2>1, <3>1, <4>1 DEF Popping
    <3>2. CASE q[1] /= t
      BY <2>2, <3>2 DEF Popping
    <3> QED
      BY <3>1, <3>2
  <2>4. Popping(e)' \subseteq Threads \X Nat /\ Popping(e) \subseteq Threads \X Nat
    BY DEF Popping
  <2> HIDE DEF p
  <2> QED
    BY <1>3, <2>3, <2>4
<1>5. ASSUME NEW e \in Threads
      PROVE  IsFiniteSet(Popping(e))' /\ Cardinality(Popping(e))' = Len(frames'[e])
  <2>1. IsFiniteSet(Popping(e)) /\ Cardinality(Popping(e)) = Len(frames[e])
    BY DEF FramesCounted
  <2>2. CASE e = ev /\ via \in Framed
    <3>1. Popping(e)' = Popping(e) \cup {p}
      BY <1>4, <2>2
    <3>2. p \notin Popping(e)
      BY <1>3 DEF Popping, Framing
    <3>3. frames'[e] = Append(frames[e], class)
      BY <1>3, <2>2
    <3>4. Len(frames'[e]) = Len(frames[e]) + 1
      BY <1>3, <3>3
    <3> DEFINE S == Popping(e)
    <3> HIDE DEF S
    <3>5. IsFiniteSet(S \cup {p}) /\ Cardinality(S \cup {p}) = Cardinality(S) + 1
      BY <2>1, <3>2, FS_AddElement DEF S
    <3> QED
      BY <2>1, <3>1, <3>4, <3>5 DEF S
  <2>3. CASE ~ (e = ev /\ via \in Framed)
    <3>1. Popping(e)' = Popping(e) /\ frames'[e] = frames[e]
      BY <1>3, <1>4, <2>3
    <3> QED
      BY <2>1, <3>1
  <2> QED
    BY <2>2, <2>3
<1> QED
  BY <1>5 DEF FramesCounted

\* The innermost call of thread t returns.
LEMMA ReturnCounts ==
  ASSUME TypeOK, FramesCounted, NEW t \in Threads, Return(t)
  PROVE  FramesCounted'
<1> DEFINE ev == Current(t)
           c == calls[t]
           framed == Last(c).via \in Framed
           p == <<t, Len(c)>>
<1>1. /\ ev \in Threads /\ frames \in [Threads -> Seq(Classes)] /\ calls \in [Threads -> Seq(Calls)]
      /\ c \in Seq(Calls) /\ c /= <<>> /\ Len(c) \in 1 .. Len(c) /\ p \in Threads \X Nat
      /\ Last(c) = c[Len(c)] /\ ev = c[Len(c)].on
  BY CurrentIsOne DEF TypeOK, Return, Last, Current
<1>2. /\ calls' = [calls EXCEPT ![t] = Front(c)]
      /\ frames' = IF framed THEN [frames EXCEPT ![ev] = Front(@)] ELSE frames
  BY DEF Return
<1>3. ASSUME NEW e \in Threads PROVE Popping(e)' = Popping(e) \ {p}
  <2>1. Framing(calls'[t], e) = Framing(c, e) \ {Len(c)}
    BY <1>1, <1>2, FramingFront
  <2>2. \A u \in Threads : u /= t => calls'[u] = calls[u]
    BY <1>1, <1>2
  <2>3. ASSUME NEW q \in Threads \X Nat
        PROVE  q \in Popping(e)' <=> q \in Popping(e) /\ q /= p
    <3>1. CASE q[1] = t
      <4>1. q = p <=> q[2] = Len(c)
        BY <3>1
      <4> QED
        BY <2>1, <3>1, <4>1 DEF Popping
    <3>2. CASE q[1] /= t
      BY <2>2, <3>2 DEF Popping
    <3> QED
      BY <3>1, <3>2
  <2>4. Popping(e)' \subseteq Threads \X Nat /\ Popping(e) \subseteq Threads \X Nat
    BY DEF Popping
  <2> HIDE DEF p
  <2> QED
    BY <1>1, <2>3, <2>4
<1>4. ASSUME NEW e \in Threads PROVE p \in Popping(e) <=> e = ev /\ framed
  BY <1>1 DEF Popping, Framing
<1> HIDE DEF p, ev, c
<1>5. ASSUME NEW e \in Threads
      PROVE  IsFiniteSet(Popping(e))' /\ Cardinality(Popping(e))' = Len(frames'[e])
  <2>1. IsFiniteSet(Popping(e)) /\ Cardinality(Popping(e)) = Len(frames[e])
        /\ frames[e] \in Seq(Classes) /\ Len(frames[e]) \in Nat
    BY <1>1 DEF FramesCounted
  <2>2. IsFiniteSet(Popping(e) \ {p})
        /\ Cardinality(Popping(e) \ {p}) =
             IF p \in Popping(e) THEN Cardinality(Popping(e)) - 1 ELSE Cardinality(Popping(e))
    BY <2>1, FS_RemoveElement
  <2>3. CASE e = ev /\ framed
    <3>1. p \in Popping(e) /\ frames'[e] = Front(frames[e])
      BY <1>1, <1>2, <1>4, <2>3
    <3>2. frames[e] /= <<>>
      <4>1. Cardinality(Popping(e)) /= 0
        BY <2>1, <3>1, FS_EmptySet
      <4> QED
        BY <2>1, <4>1
    <3>3. Len(frames'[e]) = Len(frames[e]) - 1
      BY <2>1, <3>1, <3>2, FrontOf
    <3> QED
      BY <1>3, <2>1, <2>2, <3>1, <3>3
  <2>4. CASE ~ (e = ev /\ framed)
    <3>1. p \notin Popping(e) /\ frames'[e] = frames[e]
      BY <1>1, <1>2, <1>4, <2>4
    <3> QED
      BY <1>3, <2>1, <2>2, <3>1
  <2> QED
    BY <2>3, <2>4
<1> QED
  BY <1>5 DEF FramesCounted

\* A deferred call changes no call's evaluator, nor whether it has a frame.
LEMMA DeferCounts ==
  ASSUME TypeOK, FramesCounted, NEW t \in Threads, Defer(t)
  PROVE  FramesCounted'
<1>1. calls \in [Threads -> Seq(Calls)] /\ frames' = frames
  BY DEF TypeOK, Defer
<1>2. ASSUME NEW u \in Threads, NEW ev \in Threads PROVE Framing(calls'[u], ev) = Framing(calls[u], ev)
  <2> DEFINE c == calls[u]
  <2>1. CASE calls'[u] = c
    BY <2>1
  <2>2. CASE calls'[u] /= c
    <3>1. u = t /\ c /= <<>> /\ calls'[u] = [c EXCEPT ![Len(c)].own = @ + 1]
      BY <1>1, <2>2 DEF Defer
    <3>2. c \in Seq(Calls)
      BY <1>1
    <3> HIDE DEF c
    <3>3. /\ Len(calls'[u]) = Len(c)
          /\ \A i \in 1 .. Len(c) : calls'[u][i].on = c[i].on /\ calls'[u][i].via = c[i].via
      BY <3>1, <3>2 DEF Calls
    <3>4. Framing(calls'[u], ev) = Framing(c, ev)
      BY <3>3 DEF Framing
    <3> QED
      BY <3>4 DEF c
  <2> QED
    BY <2>1, <2>2
<1>3. \A ev \in Threads : Popping(ev)' = Popping(ev)
  BY <1>2 DEF Popping
<1> QED
  BY <1>1, <1>3 DEF FramesCounted

\* A call of the method of class k.
LEMMA MethodCounts ==
  ASSUME TypeOK, TypeOK', FramesCounted, NEW t \in Threads, NEW ev \in Threads,
         NEW k \in Classes, NEW via \in Framed, callMethod(t, ev, via, k)
  PROVE  FramesCounted'
<1>1. lookupMethod(k) \in 0 .. Depth
  <2>1. lookupMethod(k) \in Offers(k)
    BY LookupFinds DEF callMethod
  <2>2. \A j \in Classes : j \in 0 .. Depth
    BY ClassesAssumption DEF Classes
  <2> QED
    BY <2>1, <2>2, ClassesAssumption DEF Offers
<1>2. frames' = [frames EXCEPT ![ev] = Append(@, lookupMethod(k))]
      /\ Enter(t, ev, via, lookupMethod(k))
  BY DEF callMethod, FrameClass
<1> QED
  BY <1>1, <1>2, EnterCounts

\* A call without a frame.
LEMMA FunctionCounts ==
  ASSUME TypeOK, TypeOK', FramesCounted, NEW t \in Threads, NEW ev \in Threads,
         NEW via \in {"function", "generator"}, frames' = frames, Enter(t, ev, via, 0)
  PROVE  FramesCounted'
<1>1. 0 \in 0 .. Depth /\ via \notin Framed
  BY ClassesAssumption DEF Framed
<1> QED
  BY <1>1, EnterCounts

LEMMA StepCounts ==
  ASSUME TypeOK, TypeOK', FramesCounted, [Next]_vars
  PROVE  FramesCounted'
<1>0. CASE UNCHANGED <<calls, frames>>
  BY <1>0 DEF FramesCounted, Popping
<1>1. CASE UNCHANGED vars
  BY <1>0, <1>1 DEF vars
<1>2. ASSUME NEW t \in Threads, NEW c \in Clones, Start(t, c) PROVE FramesCounted'
  BY <1>0, <1>2 DEF Start
<1>3. ASSUME NEW t \in Threads, NEW c \in Clones, run(t, c) PROVE FramesCounted'
  BY <1>3, FunctionCounts DEF run, cloneEval, Threads
<1>4. ASSUME NEW t \in Threads, NEW k \in Classes, evalMethodCall(t, k) PROVE FramesCounted'
  BY <1>4, CurrentIsOne, MethodCounts DEF evalMethodCall, Framed
<1>5. ASSUME NEW t \in Threads, NEW k \in Classes, CallSuper(t, k) PROVE FramesCounted'
  <2>1. Current(t) \in Threads /\ superMarker(Current(t), k) \in Classes
    BY <1>5, CurrentIsOne, SuperInClasses DEF CallSuper
  <2>2. CASE callMethod(t, Current(t), "super", superMarker(Current(t), k))
    BY <2>1, <2>2, MethodCounts DEF Framed
  <2>3. CASE callFunction(t, Current(t))
    BY <2>1, <2>3, FunctionCounts DEF callFunction
  <2> QED
    BY <1>5, <2>2, <2>3 DEF CallSuper
<1>6. ASSUME NEW t \in Threads, Call(t) PROVE FramesCounted'
  BY <1>6, CurrentIsOne, FunctionCounts DEF Call, callFunction
<1>7. ASSUME NEW t \in Threads, CallFromBuiltin(t) PROVE FramesCounted'
  <2>1. Main \in Threads
    BY DEF Threads
  <2>2. CASE callFunction(t, Main)
    BY <2>1, <2>2, FunctionCounts DEF callFunction
  <2>3. ASSUME NEW k \in Classes, callMethod(t, Main, "method", k) PROVE FramesCounted'
    BY <2>1, <2>3, MethodCounts DEF Framed
  <2> QED
    BY <1>7, <2>2, <2>3 DEF CallFromBuiltin
<1>8. ASSUME NEW t \in Threads, Defer(t) PROVE FramesCounted'
  BY <1>8, DeferCounts
<1>9. ASSUME NEW t \in Threads, Return(t) PROVE FramesCounted'
  BY <1>9, ReturnCounts
<1> QED
  BY <1>1, <1>2, <1>3, <1>4, <1>5, <1>6, <1>7, <1>8, <1>9 DEF Next

\* A call that pushed a frame never finds the stack of its evaluator empty when it
\* returns.  popFrame does not look: it would panic, outside every handler.
FrameLeft ==
  \A t \in Threads :
    calls[t] /= <<>> /\ Last(calls[t]).via \in Framed => frames[Current(t)] /= <<>>

\* Also when clones run functions on the main evaluator and so pop each other's
\* frames, there are as many frames as calls that will pop one: what goes wrong
\* there (callFunction through a built-in) is which frame is popped, never that
\* popFrame meets an empty stack.
THEOREM FrameLeftHolds == Spec => []FrameLeft
<1>1. Init => FramesCounted
  <2> SUFFICES ASSUME Init, NEW ev \in Threads
               PROVE  IsFiniteSet(Popping(ev)) /\ Cardinality(Popping(ev)) = Len(frames[ev])
    BY DEF FramesCounted
  <2>1. Popping(ev) = {} /\ frames[ev] = <<>>
    BY DEF Popping, Framing, Init
  <2> QED
    BY <2>1, FS_EmptySet
<1>2. Spec => [](TypeOK /\ FramesCounted)
  <2>1. TypeOK /\ TypeOK' /\ FramesCounted /\ [Next]_vars => FramesCounted'
    BY StepCounts
  <2> QED
    BY <1>1, <2>1, TypeCorrect, PTL DEF Spec
<1>3. TypeOK /\ FramesCounted => FrameLeft
  <2> SUFFICES ASSUME TypeOK, FramesCounted, NEW t \in Threads,
                      calls[t] /= <<>>, Last(calls[t]).via \in Framed
               PROVE  frames[Current(t)] /= <<>>
    BY DEF FrameLeft
  <2> DEFINE c == calls[t]
             ev == Current(t)
  <2>1. /\ ev \in Threads /\ c \in Seq(Calls) /\ Len(c) \in 1 .. Len(c)
        /\ Last(c) = c[Len(c)] /\ ev = c[Len(c)].on
    BY CurrentIsOne DEF TypeOK, Last, Current
  <2>2. <<t, Len(c)>> \in Popping(ev)
    BY <2>1 DEF Popping, Framing
  <2>3. IsFiniteSet(Popping(ev)) /\ Cardinality(Popping(ev)) = Len(frames[ev])
    BY <2>1 DEF FramesCounted
  <2>4. Cardinality(Popping(ev)) /= 0
    BY <2>2, <2>3, FS_EmptySet
  <2> QED
    BY <2>3, <2>4
<1> QED
  BY <1>2, <1>3, PTL

-----------------------------------------------------------------------------
(* Theorems.                                                               *)

\* For every number of clones, every line of descent and every bound: a thread's
\* calls, defer lists and frames match, as long as the built-ins that clones
\* call neither call back nor raise.
THEOREM Invariance == ~BuiltinsInClones => (Spec => []IInv)
<1> SUFFICES ASSUME ~BuiltinsInClones PROVE Spec => []IInv
  OBVIOUS
<1>1. IInv /\ [Next]_vars => IInv'
  BY Inductive
<1> QED
  BY <1>1, Initial, PTL DEF Spec

\* The last list of an evaluator is the one its innermost call pushed
\* (pushDefers, popDefers), for any number of goroutines and generators.
THEOREM TopIsOwnHolds == ~BuiltinsInClones => (Spec => []TopIsOwn)
<1>1. ASSUME IInv, NEW t \in Threads, calls[t] /= <<>>
      PROVE  /\ deferStack[Current(t)] /= <<>>
             /\ Last(deferStack[Current(t)]) = [by |-> t, n |-> Last(calls[t]).own]
  <2> DEFINE c == calls[t]
             d == deferStack[t]
  <2>1. c \in Seq(Calls) /\ d \in Seq(Lists) /\ ListsMatch(t, c, d) /\ Current(t) = t
    BY <1>1, CurrentIsOwn DEF IInv, TypeOK, Match
  <2>2. Len(c) \in Nat /\ Len(c) >= 1 /\ Len(d) \in Nat /\ Len(c) <= Len(d)
    BY <1>1, <2>1 DEF ListsMatch
  <2> HIDE DEF c, d
  <2>3. Len(d) - Len(c) + Len(c) = Len(d) /\ Len(c) \in 1 .. Len(c)
    BY <2>2
  <2>4. d[Len(d)] = [by |-> t, n |-> c[Len(c)].own]
    BY <2>1, <2>3 DEF ListsMatch
  <2>5. d /= <<>>
    BY <2>1, <2>2
  <2> QED
    BY <2>1, <2>4, <2>5 DEF Last, c, d
<1>2. IInv => TopIsOwn
  BY <1>1 DEF TopIsOwn
<1> QED
  BY <1>2, Invariance, PTL

\* A method called on super from a method is defined strictly further up, for any
\* line of descent and whatever classes of it define the method (lookupMethod,
\* superMarker, and the frames that evalMethodCall pushes).
THEOREM SuperAscendsHolds == ~BuiltinsInClones => (Spec => []SuperAscends)
<1>1. IInv => SuperAscends
  BY DEF IInv, Match, Ascends, SuperAscends
<1> QED
  BY <1>1, Invariance, PTL
=============================================================================

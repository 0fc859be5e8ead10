---------------------------- MODULE LayoutProofs ----------------------------
(***************************************************************************)
(* Proofs about Layout and Text: the blocks of any text nest, however many  *)
(* lines it has and however they are indented.                              *)
(***************************************************************************)
EXTENDS Text, FiniteSetTheorems, WellFoundedInduction, TLAPS

Lines == [indent : Nat, kind : Kinds \cup Silent]

\* The tokens that stand for words, and all tokens.
Word == {"NAME", "WORD", "PASS", "INPUT", "DECOR", "IF", "ELSE", "COLON", "LOOP", "DEF",
         "CTOR", "CLASS", "INTERF", "TRY", "FINALLY", "NEWLINE", "EOF"}
Toks == [t : Word \cup {"INDENT", "DEDENT"}, line : Int]

-----------------------------------------------------------------------------
(* Numbers.                                                                *)

\* A set of numbers that is not empty has a smallest.
LEMMA Smallest ==
  ASSUME NEW S, S \subseteq Nat, S /= {}
  PROVE  \E x \in S : \A y \in S : x <= y
<1>1. \E x \in S : \A y \in S : ~ (<<y, x>> \in OpToRel(<, Nat))
  BY NatLessThanWellFounded, WFMin
<1>2. PICK x \in S : \A y \in S : ~ (y < x)
  BY <1>1 DEF OpToRel
<1>3. \A y \in S : x <= y
  BY <1>2
<1> QED
  BY <1>3

\* Induction over a set of numbers.
LEMMA Induction ==
  ASSUME NEW S, 0 \in S, \A n \in Nat : n \in S => n + 1 \in S
  PROVE  \A n \in Nat : n \in S
<1> SUFFICES ASSUME NEW n \in Nat, n \notin S PROVE FALSE
  OBVIOUS
<1> DEFINE Out == {k \in Nat : k \notin S}
<1>1. PICK x \in Out : \A y \in Out : x <= y
  <2>1. Out \subseteq Nat /\ Out /= {}
    OBVIOUS
  <2> HIDE DEF Out
  <2> QED
    BY <2>1, Smallest
<1>2. x \in Nat /\ x /= 0
  OBVIOUS
<1>3. x - 1 \in Nat /\ ~ (x <= x - 1) /\ (x - 1) + 1 = x
  BY <1>2
<1>4. x - 1 \in S
  BY <1>1, <1>3
<1> QED
  BY <1>3, <1>4

-----------------------------------------------------------------------------
(* Depth.                                                                  *)

\* What a token adds to the depth.
Shift(tok) == IF tok.t = "INDENT" THEN 1 ELSE IF tok.t = "DEDENT" THEN -1 ELSE 0

LEMMA CountIs ==
  ASSUME NEW s, NEW w, NEW n \in Nat
  PROVE  /\ Count(s, w, n) \in Nat /\ Count(s, w, 0) = 0
         /\ Count(s, w, n + 1) = Count(s, w, n) + (IF s[n + 1].t = w THEN 1 ELSE 0)
<1> DEFINE At(m) == {k \in 1 .. m : s[k].t = w}
<1>1. \A m \in Nat : IsFiniteSet(At(m)) /\ Cardinality(At(m)) \in Nat
  <2>1. ASSUME NEW m \in Nat PROVE IsFiniteSet(At(m))
    <3>1. IsFiniteSet(1 .. m) /\ At(m) \in SUBSET (1 .. m)
      BY FS_Interval
    <3> HIDE DEF At
    <3> QED
      BY <3>1, FS_Subset
  <2> HIDE DEF At
  <2> QED
    BY <2>1, FS_CardinalityType
<1>2. Cardinality(At(0)) = 0
  <2>1. At(0) = {}
    OBVIOUS
  <2> QED
    BY <2>1, FS_EmptySet
<1>3. CASE s[n + 1].t = w
  <2>1. At(n + 1) = At(n) \cup {n + 1} /\ n + 1 \notin At(n)
    BY <1>3
  <2> HIDE DEF At
  <2>2. Cardinality(At(n + 1)) = Cardinality(At(n)) + 1
    BY <1>1, <2>1, FS_AddElement
  <2> QED
    BY <1>1, <1>2, <1>3, <2>2 DEF Count, At
<1>4. CASE s[n + 1].t /= w
  <2>1. At(n + 1) = At(n)
    BY <1>4
  <2> QED
    BY <1>1, <1>2, <1>4, <2>1 DEF Count
<1> QED
  BY <1>3, <1>4

LEMMA DepthIs ==
  ASSUME NEW s, NEW n \in Nat
  PROVE  /\ Depth(s, n) \in Int /\ Depth(s, 0) = 0
         /\ Depth(s, n + 1) = Depth(s, n) + Shift(s[n + 1])
<1>1. /\ Count(s, "INDENT", n) \in Nat /\ Count(s, "DEDENT", n) \in Nat
      /\ Count(s, "INDENT", 0) = 0 /\ Count(s, "DEDENT", 0) = 0
  BY CountIs
<1>2. Count(s, "INDENT", n + 1) = Count(s, "INDENT", n) + (IF s[n + 1].t = "INDENT" THEN 1 ELSE 0)
  BY CountIs
<1>3. Count(s, "DEDENT", n + 1) = Count(s, "DEDENT", n) + (IF s[n + 1].t = "DEDENT" THEN 1 ELSE 0)
  BY CountIs
<1> QED
  BY <1>1, <1>2, <1>3 DEF Depth, Shift

\* What comes after does not change the depth of what was before.
LEMMA DepthBefore ==
  ASSUME NEW s \in Seq(Toks), NEW u \in Seq(Toks), NEW n \in 0 .. Len(s)
  PROVE  Depth(s \o u, n) = Depth(s, n)
<1>1. \A k \in 1 .. n : (s \o u)[k] = s[k]
  OBVIOUS
<1>2. \A w : {k \in 1 .. n : (s \o u)[k].t = w} = {k \in 1 .. n : s[k].t = w}
  BY <1>1
<1> QED
  BY <1>2 DEF Depth, Count

\* Tokens that all add the same to the depth.
LEMMA DepthAfter ==
  ASSUME NEW s \in Seq(Toks), NEW u \in Seq(Toks), NEW d \in -1 .. 1,
         \A j \in 1 .. Len(u) : Shift(u[j]) = d
  PROVE  \A j \in 0 .. Len(u) : Depth(s \o u, Len(s) + j) = Depth(s, Len(s)) + d * j
<1> DEFINE S == {j \in Nat : j <= Len(u) =>
                   Depth(s \o u, Len(s) + j) = Depth(s, Len(s)) + d * j}
<1>0. Len(s) \in Nat /\ Len(u) \in Nat /\ Depth(s, Len(s)) \in Int
  BY DepthIs
<1>1. 0 \in S
  <2>1. Depth(s \o u, Len(s)) = Depth(s, Len(s))
    BY <1>0, DepthBefore
  <2>2. Len(s) + 0 = Len(s) /\ d * 0 = 0
    BY <1>0
  <2> QED
    BY <1>0, <2>1, <2>2
<1>2. ASSUME NEW j \in Nat, j \in S PROVE j + 1 \in S
  <2> SUFFICES ASSUME j + 1 <= Len(u)
               PROVE  Depth(s \o u, Len(s) + (j + 1)) = Depth(s, Len(s)) + d * (j + 1)
    OBVIOUS
  <2>1. Depth(s \o u, Len(s) + j) = Depth(s, Len(s)) + d * j
    BY <1>0, <1>2
  <2>2. (Len(s) + j) + 1 = Len(s) + (j + 1) /\ Len(s) + j \in Nat
    BY <1>0
  <2>3. (s \o u)[Len(s) + (j + 1)] = u[j + 1] /\ j + 1 \in 1 .. Len(u)
    BY <1>0
  <2>4. Depth(s \o u, Len(s) + (j + 1)) = Depth(s \o u, Len(s) + j) + d
    BY <2>2, <2>3, DepthIs
  <2>5. d * (j + 1) = d * j + d /\ d * j \in Int /\ d \in Int
    OBVIOUS
  <2> QED
    BY <1>0, <2>1, <2>4, <2>5
<1> HIDE DEF S
<1>3. \A j \in Nat : j \in S
  BY <1>1, <1>2, Induction
<1> QED
  BY <1>0, <1>3 DEF S

-----------------------------------------------------------------------------
(* Tokens whose blocks nest, with d of them open at the end.               *)

Nested(toks, d) ==
  /\ toks \in Seq(Toks)
  /\ \A n \in 0 .. Len(toks) : Depth(toks, n) >= 0
  /\ Depth(toks, Len(toks)) = d

Uniform(u, d) == u \in Seq(Toks) /\ \A j \in 1 .. Len(u) : Shift(u[j]) = d

\* What is appended leaves them nested if it does not close more than is open.
LEMMA NestedThen ==
  ASSUME NEW s, NEW d \in Nat, Nested(s, d), NEW u, NEW e \in -1 .. 1, Uniform(u, e),
         d + e * Len(u) >= 0
  PROVE  Nested(s \o u, d + e * Len(u))
<1>1. /\ s \in Seq(Toks) /\ u \in Seq(Toks) /\ Len(s) \in Nat /\ Len(u) \in Nat
      /\ s \o u \in Seq(Toks) /\ Len(s \o u) = Len(s) + Len(u)
      /\ Depth(s, Len(s)) = d
  BY DEF Nested, Uniform
<1>2. \A j \in 0 .. Len(u) : Depth(s \o u, Len(s) + j) = d + e * j
  BY <1>1, DepthAfter DEF Uniform
<1>3. ASSUME NEW n \in 0 .. Len(s \o u) PROVE Depth(s \o u, n) >= 0
  <2>1. CASE n <= Len(s)
    <3>1. n \in 0 .. Len(s)
      BY <1>1, <2>1
    <3>2. Depth(s \o u, n) = Depth(s, n) /\ Depth(s, n) >= 0
      BY <1>1, <3>1, DepthBefore DEF Nested
    <3> QED
      BY <3>2
  <2>2. CASE n > Len(s)
    <3> DEFINE j == n - Len(s)
    <3>1. j \in Nat
      BY <1>1, <2>2
    <3>2. j \in 0 .. Len(u) /\ Len(s) + j = n
      BY <1>1, <3>1
    <3> HIDE DEF j
    <3>3. d + e * j >= 0
      <4>1. \A l \in Nat : j <= l /\ d + e * l >= 0 => d + e * j >= 0
        <5>1. CASE e = -1
          BY <3>1, <5>1
        <5>2. CASE e = 0
          BY <3>1, <5>2
        <5>3. CASE e = 1
          BY <3>1, <5>3
        <5> QED
          BY <5>1, <5>2, <5>3
      <4> QED
        BY <1>1, <3>2, <4>1
    <3> QED
      BY <1>2, <3>2, <3>3
  <2> QED
    BY <1>1, <2>1, <2>2
<1>4. Depth(s \o u, Len(s \o u)) = d + e * Len(u)
  BY <1>1, <1>2
<1> QED
  BY <1>1, <1>3, <1>4 DEF Nested

LEMMA TokIs ==
  ASSUME NEW i \in Int
  PROVE  /\ \A w \in Word : Tok(w, i) \in Toks /\ Shift(Tok(w, i)) = 0
         /\ Tok("INDENT", i) \in Toks /\ Shift(Tok("INDENT", i)) = 1
         /\ Tok("DEDENT", i) \in Toks /\ Shift(Tok("DEDENT", i)) = -1
<1>1. ASSUME NEW w \in Word PROVE Tok(w, i) \in Toks /\ Shift(Tok(w, i)) = 0
  <2>1. w /= "INDENT" /\ w /= "DEDENT"
    BY DEF Word
  <2> QED
    BY <2>1 DEF Tok, Toks, Shift
<1>2. /\ Tok("INDENT", i) \in Toks /\ Shift(Tok("INDENT", i)) = 1
      /\ Tok("DEDENT", i) \in Toks /\ Shift(Tok("DEDENT", i)) = -1
  BY DEF Tok, Toks, Shift
<1> QED
  BY <1>1, <1>2

\* Tokens that are no layout.
LEMMA NestedPlain ==
  ASSUME NEW s, NEW d \in Nat, Nested(s, d), NEW u, Uniform(u, 0)
  PROVE  Nested(s \o u, d)
<1>1. Len(u) \in Nat
  BY DEF Uniform
<1>2. d + 0 * Len(u) = d
  BY <1>1
<1> QED
  BY <1>2, NestedThen

\* The start of a block, and the ends of several.
LEMMA NestedIndent ==
  ASSUME NEW s, NEW d \in Nat, Nested(s, d), NEW i \in Int
  PROVE  Nested(Append(s, Tok("INDENT", i)), d + 1)
<1> DEFINE u == <<Tok("INDENT", i)>>
<1>0. Tok("INDENT", i) \in Toks /\ Shift(Tok("INDENT", i)) = 1
  BY TokIs
<1>1. Uniform(u, 1) /\ Len(u) = 1
  BY <1>0 DEF Uniform
<1>2. s \o u = Append(s, Tok("INDENT", i))
  BY <1>0 DEF Nested
<1> HIDE DEF u
<1>3. d + 1 * Len(u) = d + 1 /\ d + 1 >= 0 /\ 1 \in -1 .. 1
  BY <1>1
<1>4. Nested(s \o u, d + 1 * Len(u))
  BY <1>1, <1>3, NestedThen
<1> QED
  BY <1>2, <1>3, <1>4

LEMMA NestedDedents ==
  ASSUME NEW s, NEW d \in Nat, Nested(s, d), NEW i \in Int, NEW m \in 0 .. d
  PROVE  Nested(s \o Copies("DEDENT", i, m), d - m)
<1> DEFINE u == Copies("DEDENT", i, m)
<1>0. Tok("DEDENT", i) \in Toks /\ Shift(Tok("DEDENT", i)) = -1
  BY TokIs
<1>1. Uniform(u, -1) /\ Len(u) = m
  BY <1>0 DEF Uniform, Copies
<1> HIDE DEF u
<1>2. d + (-1) * Len(u) = d - m
  BY <1>1
<1> QED
  BY <1>1, <1>2, NestedThen DEF u

-----------------------------------------------------------------------------
(* Lines.                                                                  *)

LEMMA Short ==
  ASSUME NEW S
  PROVE  /\ \A x \in S : <<x>> \in Seq(S)
         /\ \A x, y \in S : <<x, y>> \in Seq(S)
         /\ \A x, y, z \in S : <<x, y, z>> \in Seq(S)
OBVIOUS

\* No word of a line is layout.
LEMMA WordsArePlain ==
  ASSUME NEW k \in Kinds, NEW i \in Int
  PROVE  Uniform([j \in DOMAIN Words[k] |-> Tok(Words[k][j], i)], 0)
<1>2. Words[k] \in Seq(Word)
  <2>1. k \in {"simple", "word", "pass", "input", "decor", "if", "elif", "else", "loop",
                "def", "sig", "ctor", "class", "interface", "try", "except", "bare",
                "finally"}
    BY DEF Kinds, Words
  <2>2. CASE k \in {"simple", "word", "pass", "decor", "sig"}
    <3>1. /\ Words["simple"] = <<"NAME">>
          /\ Words["word"] = <<"WORD">>
          /\ Words["pass"] = <<"PASS">>
          /\ Words["decor"] = <<"DECOR">>
          /\ Words["sig"] = <<"DEF">>
      BY DEF Words
    <3>2. /\ <<"NAME">> \in Seq(Word)
          /\ <<"WORD">> \in Seq(Word)
          /\ <<"PASS">> \in Seq(Word)
          /\ <<"DECOR">> \in Seq(Word)
          /\ <<"DEF">> \in Seq(Word)
      BY Short DEF Word
    <3> QED
      BY <2>2, <3>1, <3>2
  <2>3. CASE k \in {"input", "if", "else", "loop", "def", "ctor", "class", "interface", "try", "bare", "finally"}
    <3>1. /\ Words["input"] = <<"NAME", "INPUT">>
          /\ Words["if"] = <<"IF", "COLON">>
          /\ Words["else"] = <<"ELSE", "COLON">>
          /\ Words["loop"] = <<"LOOP", "COLON">>
          /\ Words["def"] = <<"DEF", "COLON">>
          /\ Words["ctor"] = <<"CTOR", "COLON">>
          /\ Words["class"] = <<"CLASS", "COLON">>
          /\ Words["interface"] = <<"INTERF", "COLON">>
          /\ Words["try"] = <<"TRY", "COLON">>
          /\ Words["bare"] = <<"INPUT", "COLON">>
          /\ Words["finally"] = <<"FINALLY", "COLON">>
      BY DEF Words
    <3>2. /\ <<"NAME", "INPUT">> \in Seq(Word)
          /\ <<"IF", "COLON">> \in Seq(Word)
          /\ <<"ELSE", "COLON">> \in Seq(Word)
          /\ <<"LOOP", "COLON">> \in Seq(Word)
          /\ <<"DEF", "COLON">> \in Seq(Word)
          /\ <<"CTOR", "COLON">> \in Seq(Word)
          /\ <<"CLASS", "COLON">> \in Seq(Word)
          /\ <<"INTERF", "COLON">> \in Seq(Word)
          /\ <<"TRY", "COLON">> \in Seq(Word)
          /\ <<"INPUT", "COLON">> \in Seq(Word)
          /\ <<"FINALLY", "COLON">> \in Seq(Word)
      BY Short DEF Word
    <3> QED
      BY <2>3, <3>1, <3>2
  <2>4. CASE k \in {"elif", "except"}
    <3>1. /\ Words["elif"] = <<"ELSE", "IF", "COLON">>
          /\ Words["except"] = <<"NAME", "INPUT", "COLON">>
      BY DEF Words
    <3>2. /\ <<"ELSE", "IF", "COLON">> \in Seq(Word)
          /\ <<"NAME", "INPUT", "COLON">> \in Seq(Word)
      BY Short DEF Word
    <3> QED
      BY <2>4, <3>1, <3>2
  <2> QED
    BY <2>1, <2>2, <2>3, <2>4
<1> DEFINE w == Words[k]
<1> HIDE DEF w
<1>3. Uniform([j \in DOMAIN w |-> Tok(w[j], i)], 0)
  <2>1. ASSUME NEW x \in Word PROVE Tok(x, i) \in Toks /\ Shift(Tok(x, i)) = 0
    BY TokIs
  <2>2. w \in Seq(Word) /\ DOMAIN w = 1 .. Len(w) /\ \A j \in 1 .. Len(w) : w[j] \in Word
    BY <1>2 DEF w
  <2> DEFINE u == [j \in DOMAIN w |-> Tok(w[j], i)]
  <2>3. u \in Seq(Toks) /\ Len(u) = Len(w)
    BY <2>1, <2>2
  <2>4. \A j \in 1 .. Len(w) : u[j] = Tok(w[j], i)
    BY <2>2
  <2>5. \A j \in 1 .. Len(w) : Shift(u[j]) = 0
    BY <2>1, <2>2, <2>4
  <2> QED
    BY <2>3, <2>5 DEF Uniform
<1> QED
  BY <1>3 DEF w

\* The lexer between two lines: the levels that are open are the blocks that are.
Lexer == [indents : Seq(Int), toks : Seq(Toks)]
Between(lx) ==
  /\ lx \in Lexer /\ lx.indents /= <<>>
  /\ Nested(lx.toks, Len(lx.indents) - 1)

\* The first level is never closed, nor one that is not deeper; all deeper ones are.
LEMMA StillOpenIs ==
  ASSUME NEW s \in Seq(Int), s /= <<>>, NEW indent \in Int
  PROVE  /\ StillOpen(s, indent) \in 1 .. Len(s)
         /\ StillOpen(s, indent) = 1 \/ s[StillOpen(s, indent)] <= indent
         /\ \A m \in 1 .. Len(s) : m > StillOpen(s, indent) => s[m] > indent
<1> DEFINE Open(n) == n = 1 \/ s[n] <= indent
           Above == {Len(s) - n : n \in {m \in 1 .. Len(s) : Open(m)}}
<1>0. Len(s) \in Nat /\ Len(s) >= 1 /\ DOMAIN s = 1 .. Len(s)
  OBVIOUS
<1>1. Above \subseteq Nat /\ Len(s) - 1 \in Above
  BY <1>0
<1>2. PICK x \in Above : \A y \in Above : x <= y
  <2> HIDE DEF Above
  <2> QED
    BY <1>1, Smallest
<1>3. PICK n \in 1 .. Len(s) : Open(n) /\ x = Len(s) - n
  OBVIOUS
<1>4. ASSUME NEW m \in 1 .. Len(s), m > n PROVE s[m] > indent
  <2>1. s[m] \in Int /\ m /= 1
    BY <1>4
  <2> SUFFICES ASSUME s[m] <= indent PROVE FALSE
    BY <2>1
  <2>2. Len(s) - m \in Above
    OBVIOUS
  <2>3. Len(s) - n <= Len(s) - m
    BY <1>2, <1>3, <2>2
  <2> QED
    BY <1>0, <1>4, <2>3
<1>5. \E k \in DOMAIN s : Open(k) /\ \A m \in DOMAIN s : m > k => s[m] > indent
  BY <1>0, <1>3, <1>4
<1>6. /\ StillOpen(s, indent) \in DOMAIN s
      /\ Open(StillOpen(s, indent))
      /\ \A m \in DOMAIN s : m > StillOpen(s, indent) => s[m] > indent
  BY <1>5 DEF StillOpen
<1> QED
  BY <1>0, <1>6

\* The levels that are kept, and the one that takes the place of the last.
Cut(s, n, indent) == Append(SubSeq(s, 1, n - 1), indent)

IsCut(q, s, n, indent) ==
  /\ q \in Seq(Int) /\ q /= <<>> /\ Len(q) = n /\ q[n] = indent
  /\ \A b \in 1 .. n - 1 : q[b] = s[b]

LEMMA CutIs ==
  ASSUME NEW s \in Seq(Int), NEW n \in 1 .. Len(s), NEW indent \in Int
  PROVE  IsCut(Cut(s, n, indent), s, n, indent)
<1> DEFINE front == SubSeq(s, 1, n - 1)
<1>1. n - 1 \in Nat /\ n - 1 <= Len(s) /\ Len(s) \in Nat /\ (n - 1) + 1 = n
  OBVIOUS
<1>2. front \in Seq(Int) /\ Len(front) = n - 1
  BY <1>1
<1>3. \A b \in 1 .. n - 1 : front[b] = s[b]
  BY <1>1
<1> HIDE DEF front
<1>4. Append(front, indent) \in Seq(Int) /\ Append(front, indent) /= <<>>
      /\ Len(Append(front, indent)) = Len(front) + 1
      /\ Append(front, indent)[Len(front) + 1] = indent
      /\ \A b \in 1 .. Len(front) : Append(front, indent)[b] = front[b]
  BY <1>2
<1> QED
  BY <1>1, <1>2, <1>3, <1>4 DEF front, Cut, IsCut

LEMMA BetweenIs ==
  ASSUME NEW s \in Seq(Int), s /= <<>>, NEW u, Nested(u, Len(s) - 1)
  PROVE  Between([indents |-> s, toks |-> u])
<1>1. u \in Seq(Toks)
  BY DEF Nested
<1> QED
  BY <1>1 DEF Between, Lexer

LEMMA IndentedKeeps ==
  ASSUME NEW lx, Between(lx), NEW i \in Int, NEW indent \in Int
  PROVE  Between(Indented(lx, i, indent))
<1> DEFINE s == lx.indents
           n == StillOpen(s, indent)
           q == Indented(lx, i, indent)
<1>1. /\ s \in Seq(Int) /\ s /= <<>> /\ lx.toks \in Seq(Toks)
      /\ Nested(lx.toks, Len(s) - 1) /\ Len(s) \in Nat /\ Len(s) >= 1
      /\ lx = [indents |-> s, toks |-> lx.toks]
  BY DEF Between, Lexer
<1>2. CASE indent > Last(s)
  <2>1. q = [indents |-> Append(s, indent), toks |-> Append(lx.toks, Tok("INDENT", i))]
    BY <1>1, <1>2 DEF Indented
  <2>2. Nested(Append(lx.toks, Tok("INDENT", i)), Len(s))
    <3>1. Len(s) - 1 \in Nat /\ (Len(s) - 1) + 1 = Len(s)
      BY <1>1
    <3> QED
      BY <1>1, <3>1, NestedIndent
  <2>3. Append(s, indent) \in Seq(Int) /\ Append(s, indent) /= <<>>
        /\ Len(Append(s, indent)) - 1 = Len(s)
    BY <1>1
  <2> HIDE DEF q, s
  <2> QED
    BY <2>1, <2>2, <2>3, BetweenIs DEF q
<1>3. CASE ~(indent > Last(s))
  <2>0. n \in 1 .. Len(s)
    BY <1>1, StillOpenIs
  <2>1. q = [indents |-> Cut(s, n, indent), toks |-> lx.toks \o Copies("DEDENT", i, Len(s) - n)]
    BY <1>1, <1>3 DEF Indented, Cut
  <2> HIDE DEF n
  <2>2. Nested(lx.toks \o Copies("DEDENT", i, Len(s) - n), n - 1)
    <3>1. Len(s) - 1 \in Nat /\ Len(s) - n \in 0 .. Len(s) - 1
          /\ (Len(s) - 1) - (Len(s) - n) = n - 1
      BY <1>1, <2>0
    <3> QED
      BY <1>1, <3>1, NestedDedents
  <2>3. /\ Cut(s, n, indent) \in Seq(Int) /\ Cut(s, n, indent) /= <<>>
        /\ Len(Cut(s, n, indent)) - 1 = n - 1
    <3> HIDE DEF s
    <3>1. IsCut(Cut(s, n, indent), s, n, indent)
      BY <1>1, <2>0, CutIs
    <3> QED
      BY <2>0, <3>1 DEF IsCut
  <2> HIDE DEF q, s
  <2> QED
    BY <2>1, <2>2, <2>3, BetweenIs DEF q
<1> QED
  BY <1>2, <1>3

LEMMA LexLineKeeps ==
  ASSUME NEW text \in Seq(Lines), NEW ended \in BOOLEAN,
         NEW lx, Between(lx), NEW i \in 1 .. Len(text)
  PROVE  Between(LexLine(lx, text, i, ended))
<1>1. CASE text[i].kind \in Silent
  BY <1>1 DEF LexLine
<1>2. CASE text[i].kind \notin Silent
  <2> DEFINE in == Indented(lx, i, text[i].indent)
             k == text[i].kind
             w == [j \in DOMAIN Words[k] |-> Tok(Words[k][j], i)]
             e == IF i = Len(text) /\ ~ended THEN <<>> ELSE <<Tok("NEWLINE", i)>>
             d == Len(in.indents) - 1
  <2>1. text[i] \in Lines /\ i \in Int
    OBVIOUS
  <2>2. k \in Kinds /\ text[i].indent \in Int
    BY <1>2, <2>1 DEF Lines
  <2>3. Between(in)
    BY <2>1, <2>2, IndentedKeeps
  <2>4. LexLine(lx, text, i, ended) = [in EXCEPT !.toks = @ \o w \o e]
    BY <1>2 DEF LexLine
  <2>5. Uniform(w, 0)
    BY <2>1, <2>2, WordsArePlain
  <2>6. Uniform(e, 0)
    <3>1. Uniform(<<>>, 0)
      BY DEF Uniform
    <3>2. Uniform(<<Tok("NEWLINE", i)>>, 0)
      <4>1. Tok("NEWLINE", i) \in Toks /\ Shift(Tok("NEWLINE", i)) = 0
        BY <2>1, TokIs DEF Word
      <4> QED
        BY <4>1 DEF Uniform
    <3> QED
      BY <3>1, <3>2
  <2> HIDE DEF in, w, e
  <2>7. in \in Lexer /\ in.indents /= <<>> /\ d \in Nat /\ Nested(in.toks, d)
    BY <2>3 DEF Between, Lexer
  <2> HIDE DEF d
  <2>8. Nested(in.toks \o w, d)
    BY <2>5, <2>7, NestedPlain
  <2>9. Nested(in.toks \o w \o e, d)
    BY <2>6, <2>7, <2>8, NestedPlain
  <2>10. /\ [in EXCEPT !.toks = @ \o w \o e].indents = in.indents
         /\ [in EXCEPT !.toks = @ \o w \o e].toks = in.toks \o w \o e
         /\ [in EXCEPT !.toks = @ \o w \o e] \in Lexer
    BY <2>7, <2>9 DEF Lexer, Nested
  <2> QED
    BY <2>4, <2>7, <2>9, <2>10 DEF Between, d
<1> QED
  BY <1>1, <1>2

-----------------------------------------------------------------------------
(* Texts.                                                                  *)

\* The function that Lex is computed by.
Start == [indents |-> <<0>>, toks |-> <<>>]
Lexed(text, ended) ==
  CHOOSE lx : lx = [i \in 0 .. Len(text) |->
                      IF i = 0 THEN Start ELSE LexLine(lx[i - 1], text, i, ended)]

LEMMA LexedIs ==
  ASSUME NEW text \in Seq(Lines), NEW ended
  PROVE  /\ Lexed(text, ended)[0] = Start
         /\ \A i \in 1 .. Len(text) :
              Lexed(text, ended)[i] = LexLine(Lexed(text, ended)[i - 1], text, i, ended)
<1> DEFINE n == Len(text)
           Step(p) == [i \in 0 .. n |-> IF i = 0 THEN Start ELSE LexLine(p[i - 1], text, i, ended)]
           S == {m \in Nat : \E p : p[0] = Start /\
                               \A i \in 1 .. m : p[i] = LexLine(p[i - 1], text, i, ended)}
<1>0. n \in Nat
  OBVIOUS
<1>1. 0 \in S
  <2> DEFINE p == [i \in 0 .. 0 |-> Start]
  <2>1. p[0] = Start /\ \A i \in 1 .. 0 : p[i] = LexLine(p[i - 1], text, i, ended)
    OBVIOUS
  <2> HIDE DEF p
  <2> QED
    BY <2>1
<1>2. ASSUME NEW m \in Nat, m \in S PROVE m + 1 \in S
  <2>1. PICK p : p[0] = Start /\ \A i \in 1 .. m : p[i] = LexLine(p[i - 1], text, i, ended)
    BY <1>2
  <2> DEFINE q == [i \in 0 .. m + 1 |->
                     IF i <= m THEN p[i] ELSE LexLine(p[m], text, i, ended)]
  <2>2. q[0] = Start
    BY <2>1
  <2>3. ASSUME NEW i \in 1 .. m + 1 PROVE q[i] = LexLine(q[i - 1], text, i, ended)
    <3>1. CASE i <= m
      <4>1. q[i] = p[i] /\ q[i - 1] = p[i - 1] /\ i \in 1 .. m
        BY <3>1
      <4> QED
        BY <2>1, <4>1
    <3>2. CASE i = m + 1
      <4>1. q[i] = LexLine(p[m], text, i, ended) /\ i - 1 = m /\ q[m] = p[m]
        BY <3>2
      <4> QED
        BY <4>1
    <3> QED
      BY <3>1, <3>2
  <2> HIDE DEF q
  <2> QED
    BY <2>2, <2>3
<1> HIDE DEF S, n
<1>3. n \in S
  BY <1>0, <1>1, <1>2, Induction
<1>4. PICK p : p[0] = Start /\ \A i \in 1 .. n : p[i] = LexLine(p[i - 1], text, i, ended)
  BY <1>3 DEF S
<1> DEFINE q == [i \in 0 .. n |-> p[i]]
<1>5. q = Step(q)
  <2>1. ASSUME NEW i \in 0 .. n PROVE q[i] = Step(q)[i]
    <3>1. CASE i = 0
      BY <1>0, <1>4, <3>1
    <3>2. CASE i /= 0
      <4>1. i \in 1 .. n /\ i - 1 \in 0 .. n
        BY <1>0, <3>2
      <4>2. q[i] = p[i] /\ q[i - 1] = p[i - 1]
        BY <4>1
      <4>3. Step(q)[i] = LexLine(q[i - 1], text, i, ended)
        BY <3>2
      <4> QED
        BY <1>4, <4>1, <4>2, <4>3
    <3> QED
      BY <3>1, <3>2
  <2> QED
    BY <2>1
<1>6. Lexed(text, ended) = CHOOSE r : r = Step(r)
  BY DEF Lexed, n
<1>7. Lexed(text, ended) = Step(Lexed(text, ended))
  <2> HIDE DEF q, Step
  <2>1. \E r : r = Step(r)
    BY <1>5
  <2> QED
    BY <1>6, <2>1
<1> DEFINE c == Lexed(text, ended)
<1>8. c[0] = Start
  <2>1. Step(c)[0] = Start
    BY <1>0
  <2> QED
    BY <1>7, <2>1
<1>9. ASSUME NEW i \in 1 .. n PROVE c[i] = LexLine(c[i - 1], text, i, ended)
  <2>1. Step(c)[i] = LexLine(c[i - 1], text, i, ended)
    BY <1>0
  <2> QED
    BY <1>7, <2>1
<1> QED
  BY <1>8, <1>9 DEF n

\* After any number of lines the lexer has as many blocks open as levels.
LEMMA LexedBetween ==
  ASSUME NEW text \in Seq(Lines), NEW ended \in BOOLEAN
  PROVE  Between(Lexed(text, ended)[Len(text)])
<1> DEFINE c == Lexed(text, ended)
           S == {i \in Nat : i <= Len(text) => Between(c[i])}
<1>1. c[0] = Start /\ \A i \in 1 .. Len(text) : c[i] = LexLine(c[i - 1], text, i, ended)
  BY LexedIs
<1> HIDE DEF c
<1>2. 0 \in S
  <2>1. Nested(<<>>, 0)
    <3>1. Depth(<<>>, 0) = 0
      BY DepthIs
    <3> QED
      BY <3>1 DEF Nested
  <2>2. Start.indents = <<0>> /\ Start.toks = <<>> /\ Start \in Lexer /\ Len(<<0>>) - 1 = 0
    BY DEF Start, Lexer
  <2>3. Between(Start)
    <3>1. Nested(Start.toks, Len(Start.indents) - 1) /\ Start.indents /= <<>>
      BY <2>1, <2>2
    <3> QED
      BY <2>2, <3>1 DEF Between
  <2> QED
    BY <1>1, <2>3
<1>3. ASSUME NEW i \in Nat, i \in S PROVE i + 1 \in S
  <2> SUFFICES ASSUME i + 1 <= Len(text) PROVE Between(c[i + 1])
    OBVIOUS
  <2>1. i + 1 \in 1 .. Len(text) /\ (i + 1) - 1 = i /\ i <= Len(text)
    OBVIOUS
  <2>2. Between(c[i]) /\ c[i + 1] = LexLine(c[i], text, i + 1, ended)
    BY <1>1, <1>3, <2>1
  <2> QED
    BY <2>1, <2>2, LexLineKeeps
<1> HIDE DEF S
<1>4. \A i \in Nat : i \in S
  BY <1>2, <1>3, Induction
<1> QED
  BY <1>4 DEF S, c

\* Whatever the lines of a text and their indentation, one that returns to a level no
\* line had included, emitIndents and the end of run keep INDENT and DEDENT nested, and
\* all blocks are closed at the end: no block can swallow the rest of a program.
THEOREM LexNests ==
  ASSUME NEW text \in Seq(Lines), NEW ended \in BOOLEAN
  PROVE  BlocksNest(Lex(text, ended))
<1> DEFINE all == Lexed(text, ended)[Len(text)]
           n == Len(text) + 1
           m == Len(all.indents) - 1
           u == all.toks \o Copies("DEDENT", n, m)
           e == <<Tok("EOF", n)>>
<1>1. Lex(text, ended) = u \o e
  BY DEF Lex, Lexed, Start
<1>2. Between(all)
  BY LexedBetween
<1>3. n \in Int
  OBVIOUS
<1> HIDE DEF all, n
<1>4. Nested(all.toks, m) /\ m \in Nat
  BY <1>2 DEF Between, Lexer
<1>5. Nested(u, 0)
  <2>1. m \in 0 .. m /\ m - m = 0
    BY <1>4
  <2> QED
    BY <1>3, <1>4, <2>1, NestedDedents
<1>6. Uniform(e, 0)
  <2>1. Tok("EOF", n) \in Toks /\ Shift(Tok("EOF", n)) = 0
    BY <1>3, TokIs DEF Word
  <2> QED
    BY <2>1 DEF Uniform
<1> HIDE DEF u, e
<1>7. Nested(u \o e, 0)
  BY <1>5, <1>6, NestedPlain
<1> QED
  BY <1>1, <1>7 DEF Nested, BlocksNest

-----------------------------------------------------------------------------
(* The levels of a text, from its lines alone.                             *)

\* A line that is not skipped.
Code(text, n) == text[n].kind \notin Silent

\* The levels at line n: those of the lines up to it that no line since is left of.
Holding(text, n) ==
  {m \in 1 .. n : Code(text, m) /\
     \A l \in m .. n : Code(text, l) => text[l].indent >= text[m].indent}
Levels(text, n) == {0} \cup {text[m].indent : m \in Holding(text, n)}

\* Every line is at one of the levels there are, or is deeper than all of them.
Aligned(text) ==
  \A n \in 1 .. Len(text) : Code(text, n) =>
    \/ text[n].indent \in Levels(text, n - 1)
    \/ \A v \in Levels(text, n - 1) : text[n].indent > v

LEMMA LevelsFirst == ASSUME NEW text PROVE Levels(text, 0) = {0}
<1>1. Holding(text, 0) = {}
  BY DEF Holding
<1> QED
  BY <1>1 DEF Levels

\* A skipped line leaves the levels alone.
LEMMA LevelsSilent ==
  ASSUME NEW text \in Seq(Lines), NEW n \in 1 .. Len(text), ~ Code(text, n)
  PROVE  Levels(text, n) = Levels(text, n - 1)
<1>1. Holding(text, n) = Holding(text, n - 1)
  <2>1. ASSUME NEW m PROVE m \in Holding(text, n) <=> m \in Holding(text, n - 1)
    <3>1. CASE m \in 1 .. n - 1
      <4>1. m \in 1 .. n /\ m .. n = (m .. n - 1) \cup {n}
        BY <3>1
      <4> QED
        BY <3>1, <4>1 DEF Holding
    <3>2. CASE m = n
      BY <3>2 DEF Holding
    <3>3. CASE m \notin 1 .. n
      <4>1. m \notin 1 .. n - 1
        BY <3>3
      <4> QED
        BY <3>3, <4>1 DEF Holding
    <3>4. m \in 1 .. n => m = n \/ m \in 1 .. n - 1
      OBVIOUS
    <3> QED
      BY <3>1, <3>2, <3>3, <3>4
  <2> QED
    BY <2>1
<1> QED
  BY <1>1 DEF Levels

\* Any other line ends the levels it is left of, and is a level itself.
LEMMA LevelsNext ==
  ASSUME NEW text \in Seq(Lines), NEW n \in 1 .. Len(text), Code(text, n)
  PROVE  Levels(text, n) =
           {v \in Levels(text, n - 1) : v <= text[n].indent} \cup {text[n].indent}
<1> DEFINE w == text[n].indent
<1>0. ASSUME NEW m \in 1 .. n PROVE text[m] \in Lines /\ text[m].indent \in Nat
  <2>1. text[m] \in Lines
    OBVIOUS
  <2> QED
    BY <2>1 DEF Lines
<1>1. w \in Nat
  BY <1>0
<1>2. ASSUME NEW m \in 1 .. n - 1
      PROVE  m \in Holding(text, n) <=> m \in Holding(text, n - 1) /\ text[m].indent <= w
  <2>1. m \in 1 .. n /\ m .. n = (m .. n - 1) \cup {n}
    OBVIOUS
  <2>2. text[m].indent \in Nat
    BY <1>0, <2>1
  <2>3. (\A l \in m .. n : Code(text, l) => text[l].indent >= text[m].indent)
          <=> /\ \A l \in m .. n - 1 : Code(text, l) => text[l].indent >= text[m].indent
              /\ w >= text[m].indent
    BY <2>1
  <2> QED
    BY <1>1, <2>1, <2>2, <2>3 DEF Holding
<1>3. n \in Holding(text, n)
  <2>1. n \in 1 .. n /\ \A l \in n .. n : l = n
    OBVIOUS
  <2> QED
    BY <1>1, <2>1 DEF Holding
<1>4. ASSUME NEW v \in Levels(text, n)
      PROVE  v = w \/ (v \in Levels(text, n - 1) /\ v <= w)
  <2>1. CASE v = 0
    BY <1>1, <2>1 DEF Levels
  <2>2. ASSUME NEW m \in Holding(text, n), v = text[m].indent
        PROVE  v = w \/ (v \in Levels(text, n - 1) /\ v <= w)
    <3>1. m \in 1 .. n
      BY DEF Holding
    <3>2. m = n \/ m \in 1 .. n - 1
      BY <3>1
    <3> QED
      BY <1>2, <2>2, <3>2 DEF Levels
  <2> QED
    BY <2>1, <2>2 DEF Levels
<1>5. ASSUME NEW v \in Levels(text, n - 1), v <= w PROVE v \in Levels(text, n)
  <2>1. ASSUME NEW m \in Holding(text, n - 1), v = text[m].indent PROVE v \in Levels(text, n)
    <3>1. m \in 1 .. n - 1
      BY DEF Holding
    <3>2. m \in Holding(text, n)
      BY <1>2, <1>5, <2>1, <3>1
    <3> QED
      BY <2>1, <3>2 DEF Levels
  <2> QED
    BY <2>1 DEF Levels
<1>6. w \in Levels(text, n)
  BY <1>3 DEF Levels
<1> HIDE DEF w
<1>7. \A v : v \in Levels(text, n) <=> v \in {x \in Levels(text, n - 1) : x <= w} \cup {w}
  BY <1>4, <1>5, <1>6
<1> QED
  BY <1>7 DEF w

\* A stack of levels: from the first to the last ever deeper.
Stacked(s, set) ==
  /\ s \in Seq(Int) /\ s /= <<>>
  /\ \A a, b \in 1 .. Len(s) : a < b => s[a] < s[b]
  /\ {s[a] : a \in 1 .. Len(s)} = set

LEMMA StackedCounts ==
  ASSUME NEW s, NEW set, Stacked(s, set)
  PROVE  Cardinality(set) = Len(s)
<1> DEFINE n == Len(s)
           f == [a \in 1 .. n |-> s[a]]
<1>1. n \in Nat
  BY DEF Stacked
<1>2. f \in Bijection(1 .. n, set)
  <2>1. f \in [1 .. n -> set]
    BY DEF Stacked
  <2>2. ASSUME NEW a \in 1 .. n, NEW b \in 1 .. n, f[a] = f[b] PROVE a = b
    <3>1. s[a] = s[b] /\ s[a] \in Int /\ s[b] \in Int
      BY <2>2 DEF Stacked
    <3>2. ~ (a < b) /\ ~ (b < a)
      BY <3>1 DEF Stacked
    <3> QED
      BY <3>2
  <2>3. \A v \in set : \E a \in 1 .. n : f[a] = v
    BY DEF Stacked
  <2> HIDE DEF f, n
  <2> QED
    BY <2>1, <2>2, <2>3 DEF Bijection, Injection, Surjection, IsInjective
<1>3. ExistsBijection(1 .. n, set)
  BY <1>2 DEF ExistsBijection
<1> HIDE DEF f, n
<1>4. Cardinality(set) = n
  BY <1>1, <1>3, FS_CountingElements
<1> QED
  BY <1>4 DEF n

\* The lexer's levels stay those of the text when it comes to a line that is aligned.
LEMMA StackedNext ==
  ASSUME NEW lx \in Lexer, NEW set, Stacked(lx.indents, set),
         NEW i \in Int, NEW indent \in Int,
         indent \in set \/ \A v \in set : indent > v
  PROVE  Stacked(Indented(lx, i, indent).indents, {v \in set : v <= indent} \cup {indent})
<1> DEFINE s == lx.indents
           n == StillOpen(s, indent)
           q == Indented(lx, i, indent).indents
           keep == {v \in set : v <= indent} \cup {indent}
<1>0. /\ s \in Seq(Int) /\ s /= <<>> /\ Len(s) \in Nat /\ Len(s) >= 1
      /\ lx = [indents |-> s, toks |-> lx.toks]
      /\ Last(s) = s[Len(s)] /\ Last(s) \in set /\ Last(s) \in Int
  BY DEF Stacked, Lexer, Last
<1>1. \A a \in 1 .. Len(s) : s[a] \in Int /\ s[a] \in set
  BY <1>0 DEF Stacked
<1>2. CASE indent > Last(s)
  <2>1. q = Append(s, indent)
    BY <1>0, <1>2 DEF Indented
  <2>2. ASSUME NEW a \in 1 .. Len(s) PROVE s[a] < indent
    <3>1. CASE a = Len(s)
      BY <1>0, <1>2, <3>1
    <3>2. CASE a /= Len(s)
      <4>1. a < Len(s) /\ Len(s) \in 1 .. Len(s)
        BY <1>0, <3>2
      <4>2. s[a] < s[Len(s)]
        BY <4>1 DEF Stacked
      <4> QED
        BY <1>0, <1>1, <1>2, <4>2
    <3> QED
      BY <3>1, <3>2
  <2>3. keep = set \cup {indent}
    <3>1. ASSUME NEW v \in set PROVE v <= indent
      <4>1. PICK a \in 1 .. Len(s) : v = s[a]
        BY DEF Stacked
      <4> QED
        BY <1>1, <2>2, <4>1
    <3> QED
      BY <3>1
  <2>4. q \in Seq(Int) /\ q /= <<>> /\ Len(q) = Len(s) + 1 /\ q[Len(s) + 1] = indent
        /\ \A a \in 1 .. Len(s) : q[a] = s[a]
    BY <1>0, <2>1
  <2> HIDE DEF q, keep
  <2>5. ASSUME NEW a \in 1 .. Len(q), NEW b \in 1 .. Len(q), a < b PROVE q[a] < q[b]
    <3>1. a \in 1 .. Len(s)
      BY <1>0, <2>4, <2>5
    <3>2. CASE b = Len(s) + 1
      BY <2>2, <2>4, <3>1, <3>2
    <3>3. CASE b /= Len(s) + 1
      <4>1. b \in 1 .. Len(s)
        BY <1>0, <2>4, <3>3
      <4>2. s[a] < s[b]
        BY <2>5, <3>1, <4>1 DEF Stacked
      <4> QED
        BY <2>4, <3>1, <4>1, <4>2
    <3> QED
      BY <3>2, <3>3
  <2>6. {q[a] : a \in 1 .. Len(q)} = keep
    <3>1. 1 .. Len(q) = (1 .. Len(s)) \cup {Len(s) + 1}
      BY <1>0, <2>4
    <3>2. {q[a] : a \in 1 .. Len(q)} = {q[a] : a \in 1 .. Len(s)} \cup {indent}
      BY <2>4, <3>1
    <3>3. {q[a] : a \in 1 .. Len(s)} = {s[a] : a \in 1 .. Len(s)}
      BY <2>4
    <3> QED
      BY <2>3, <3>2, <3>3 DEF Stacked
  <2>7. Stacked(q, keep)
    BY <2>4, <2>5, <2>6 DEF Stacked
  <2> QED
    BY <2>7 DEF q, keep
<1>3. CASE ~ (indent > Last(s))
  <2>1. indent \in set
    BY <1>0, <1>3
  <2>2. PICK a \in 1 .. Len(s) : s[a] = indent
    BY <2>1 DEF Stacked
  <2>3. /\ n \in 1 .. Len(s) /\ (n = 1 \/ s[n] <= indent)
        /\ \A m \in 1 .. Len(s) : m > n => s[m] > indent
    BY <1>0, StillOpenIs
  <2>4. q = Cut(s, n, indent)
    BY <1>0, <1>3 DEF Indented, Cut
  <2> HIDE DEF n
  <2>5. s[n] = indent
    <3>1. a <= n
      BY <2>2, <2>3
    <3>2. CASE a = n
      BY <2>2, <3>2
    <3>3. CASE a < n
      <4>1. s[a] < s[n]
        BY <2>3, <3>3 DEF Stacked
      <4>2. n /= 1
        BY <3>3
      <4>3. indent < s[n] /\ s[n] <= indent /\ s[n] \in Int
        BY <1>1, <2>2, <2>3, <4>1, <4>2
      <4> QED
        BY <4>3
    <3> QED
      BY <2>3, <3>1, <3>2, <3>3
  <2>6. /\ q \in Seq(Int) /\ q /= <<>> /\ Len(q) = n
        /\ q[n] = indent /\ \A b \in 1 .. n - 1 : q[b] = s[b]
    <3> HIDE DEF s, q
    <3>1. IsCut(Cut(s, n, indent), s, n, indent)
      BY <1>0, <2>3, CutIs
    <3> QED
      BY <2>4, <3>1 DEF IsCut
  <2>7. ASSUME NEW b \in 1 .. n PROVE q[b] = s[b]
    <3>1. CASE b = n
      BY <2>5, <2>6, <3>1
    <3>2. CASE b /= n
      <4>1. b \in 1 .. n - 1
        BY <2>3, <3>2
      <4> QED
        BY <2>6, <4>1
    <3> QED
      BY <3>1, <3>2
  <2> HIDE DEF q, keep
  <2>8. \A b, c \in 1 .. Len(q) : b < c => q[b] < q[c]
    <3>1. 1 .. n \subseteq 1 .. Len(s)
      BY <1>0, <2>3
    <3> QED
      BY <2>6, <2>7, <3>1 DEF Stacked
  <2>9. ASSUME NEW v PROVE v \in {q[b] : b \in 1 .. Len(q)} <=> v \in keep
    <3>1. ASSUME NEW b \in 1 .. n, v = q[b] PROVE v \in keep
      <4>1. v = s[b] /\ b \in 1 .. Len(s)
        BY <1>0, <2>3, <2>7, <3>1
      <4>2. v <= indent
        <5>1. CASE b = n
          BY <1>1, <2>5, <4>1, <5>1
        <5>2. CASE b < n
          <6>1. s[b] < s[n]
            BY <2>3, <4>1, <5>2 DEF Stacked
          <6> QED
            BY <1>1, <2>5, <4>1, <6>1
        <5> QED
          BY <2>3, <5>1, <5>2
      <4> QED
        BY <1>1, <4>1, <4>2 DEF keep
    <3>2. ASSUME v \in keep PROVE \E b \in 1 .. n : v = q[b]
      <4>1. v \in set /\ v <= indent
        BY <2>1, <3>2 DEF keep
      <4>2. PICK b \in 1 .. Len(s) : v = s[b]
        BY <4>1 DEF Stacked
      <4>3. b \in 1 .. n
        BY <1>1, <2>3, <4>1, <4>2
      <4> QED
        BY <2>7, <4>2, <4>3
    <3> QED
      BY <2>6, <3>1, <3>2
  <2>10. {q[b] : b \in 1 .. Len(q)} = keep
    BY <2>9
  <2>11. Stacked(q, keep)
    BY <2>6, <2>8, <2>10 DEF Stacked
  <2> QED
    BY <2>11 DEF q, keep
<1> QED
  BY <1>2, <1>3

\* Every word stands as deep as there are levels at its line, the first not counted.
Edge == {"INDENT", "DEDENT", "EOF"}
Placed(toks, text) ==
  \A p \in 1 .. Len(toks) : toks[p].t \notin Edge =>
    Depth(toks, p) = Cardinality(Levels(text, toks[p].line)) - 1

\* The layout that is appended.
LEMMA EdgesAre ==
  /\ \A i \in Int, t \in Edge : /\ <<Tok(t, i)>> \in Seq(Toks)
                              /\ \A j \in 1 .. Len(<<Tok(t, i)>>) : <<Tok(t, i)>>[j].t \in Edge
  /\ \A i \in Int, n \in Nat : /\ Copies("DEDENT", i, n) \in Seq(Toks)
                             /\ \A j \in 1 .. Len(Copies("DEDENT", i, n)) :
                                  Copies("DEDENT", i, n)[j].t \in Edge
<1>1. ASSUME NEW x \in Toks, x.t \in Edge
      PROVE  <<x>> \in Seq(Toks) /\ \A j \in 1 .. Len(<<x>>) : <<x>>[j].t \in Edge
  BY <1>1
<1>2. \A i \in Int, t \in Edge : Tok(t, i) \in Toks /\ Tok(t, i).t = t
  BY DEF Tok, Toks, Edge, Word
<1>3. ASSUME NEW i \in Int, NEW n \in Nat
      PROVE  /\ Copies("DEDENT", i, n) \in Seq(Toks)
             /\ \A j \in 1 .. Len(Copies("DEDENT", i, n)) : Copies("DEDENT", i, n)[j].t \in Edge
  <2> DEFINE x == Tok("DEDENT", i)
             c == [j \in 1 .. n |-> x]
  <2>1. x \in Toks /\ x.t \in Edge
    BY <1>2 DEF Edge
  <2>2. Copies("DEDENT", i, n) = c
    BY DEF Copies
  <2> HIDE DEF x
  <2>3. c \in Seq(Toks) /\ Len(c) = n /\ \A j \in 1 .. n : c[j] = x
    BY <2>1
  <2> QED
    BY <2>1, <2>2, <2>3
<1>4. ASSUME NEW i \in Int, NEW t \in Edge
      PROVE  /\ <<Tok(t, i)>> \in Seq(Toks)
             /\ \A j \in 1 .. Len(<<Tok(t, i)>>) : <<Tok(t, i)>>[j].t \in Edge
  BY <1>1, <1>2
<1> QED
  BY <1>3, <1>4

\* Layout that is appended moves no word.
LEMMA EdgesPlace ==
  ASSUME NEW s \in Seq(Toks), NEW text, Placed(s, text),
         NEW u \in Seq(Toks), \A j \in 1 .. Len(u) : u[j].t \in Edge
  PROVE  Placed(s \o u, text)
<1>0. Len(s) \in Nat /\ Len(u) \in Nat /\ Len(s \o u) = Len(s) + Len(u)
  OBVIOUS
<1>1. ASSUME NEW p \in 1 .. Len(s \o u), (s \o u)[p].t \notin Edge
      PROVE  Depth(s \o u, p) = Cardinality(Levels(text, (s \o u)[p].line)) - 1
  <2>1. CASE p <= Len(s)
    <3>1. p \in 1 .. Len(s) /\ p \in 0 .. Len(s)
      BY <1>0, <2>1
    <3>2. (s \o u)[p] = s[p]
      BY <3>1
    <3>3. Depth(s \o u, p) = Depth(s, p)
      BY <3>1, DepthBefore
    <3> QED
      BY <1>1, <3>1, <3>2, <3>3 DEF Placed
  <2>2. CASE p > Len(s)
    <3>1. p - Len(s) \in 1 .. Len(u)
      BY <1>0, <2>2
    <3>2. (s \o u)[p] = u[p - Len(s)]
      BY <1>0, <2>2
    <3> QED
      BY <1>1, <3>1, <3>2
  <2> QED
    BY <1>0, <2>1, <2>2
<1> QED
  BY <1>1 DEF Placed

\* The words of a line stand as deep as its levels if so many blocks are open.
LEMMA WordsPlace ==
  ASSUME NEW s \in Seq(Toks), NEW text, Placed(s, text),
         NEW u, Uniform(u, 0), NEW i \in Int, \A j \in 1 .. Len(u) : u[j].line = i,
         Depth(s, Len(s)) = Cardinality(Levels(text, i)) - 1
  PROVE  Placed(s \o u, text)
<1>0. /\ u \in Seq(Toks) /\ Len(s) \in Nat /\ Len(u) \in Nat /\ Len(s \o u) = Len(s) + Len(u)
      /\ \A j \in 1 .. Len(u) : Shift(u[j]) = 0
  BY DEF Uniform
<1>depth. Depth(s, Len(s)) \in Int
  BY <1>0, DepthIs
<1>1. \A j \in 0 .. Len(u) : Depth(s \o u, Len(s) + j) = Depth(s, Len(s)) + 0 * j
  BY <1>0, DepthAfter
<1>2. ASSUME NEW p \in 1 .. Len(s \o u), (s \o u)[p].t \notin Edge
      PROVE  Depth(s \o u, p) = Cardinality(Levels(text, (s \o u)[p].line)) - 1
  <2>1. CASE p <= Len(s)
    <3>1. p \in 1 .. Len(s) /\ p \in 0 .. Len(s)
      BY <1>0, <2>1
    <3>2. (s \o u)[p] = s[p]
      BY <1>0, <3>1
    <3>3. Depth(s \o u, p) = Depth(s, p)
      BY <1>0, <3>1, DepthBefore
    <3> QED
      BY <1>2, <3>1, <3>2, <3>3 DEF Placed
  <2>2. CASE p > Len(s)
    <3> DEFINE j == p - Len(s)
    <3>1. j \in 1 .. Len(u) /\ Len(s) + j = p /\ 0 * j = 0
      BY <1>0, <2>2
    <3>2. (s \o u)[p] = u[j]
      BY <1>0, <2>2
    <3> HIDE DEF j
    <3>3. Depth(s \o u, p) = Depth(s, Len(s))
      BY <1>0, <1>depth, <1>1, <3>1
    <3> QED
      BY <3>1, <3>2, <3>3
  <2> QED
    BY <1>0, <2>1, <2>2
<1> QED
  BY <1>2 DEF Placed

\* The lexer after i lines: its levels are those of the text, and every word is placed.
Follows(lx, text, i) ==
  Between(lx) /\ Stacked(lx.indents, Levels(text, i)) /\ Placed(lx.toks, text)

\* The layout before the words of a line.
LEMMA IndentedPlaces ==
  ASSUME NEW lx, Between(lx), NEW text, Placed(lx.toks, text), NEW i \in Int, NEW indent \in Int
  PROVE  Placed(Indented(lx, i, indent).toks, text)
<1> DEFINE s == lx.indents
           n == StillOpen(s, indent)
           dedents == Copies("DEDENT", i, Len(s) - n)
<1>1. /\ s \in Seq(Int) /\ s /= <<>> /\ lx.toks \in Seq(Toks) /\ Len(s) \in Nat
      /\ lx = [indents |-> s, toks |-> lx.toks]
  BY DEF Between, Lexer
<1>2. CASE indent > Last(s)
  <2>1. Indented(lx, i, indent).toks = Append(lx.toks, Tok("INDENT", i))
    BY <1>1, <1>2 DEF Indented
  <2>2. /\ <<Tok("INDENT", i)>> \in Seq(Toks)
        /\ \A j \in 1 .. Len(<<Tok("INDENT", i)>>) : <<Tok("INDENT", i)>>[j].t \in Edge
    BY EdgesAre DEF Edge
  <2>3. Append(lx.toks, Tok("INDENT", i)) = lx.toks \o <<Tok("INDENT", i)>>
    BY <1>1, TokIs
  <2> QED
    BY <1>1, <2>1, <2>2, <2>3, EdgesPlace
<1>3. CASE ~ (indent > Last(s))
  <2>1. Indented(lx, i, indent).toks = lx.toks \o dedents
    BY <1>1, <1>3 DEF Indented
  <2>2. n \in 1 .. Len(s)
    BY <1>1, StillOpenIs
  <2> HIDE DEF n
  <2>3. Len(s) - n \in Nat
    BY <1>1, <2>2
  <2>4. dedents \in Seq(Toks) /\ \A j \in 1 .. Len(dedents) : dedents[j].t \in Edge
    BY <2>3, EdgesAre
  <2> HIDE DEF dedents
  <2> QED
    BY <1>1, <2>1, <2>4, EdgesPlace
<1> QED
  BY <1>2, <1>3

LEMMA LexLineFollows ==
  ASSUME NEW text \in Seq(Lines), Aligned(text), NEW ended \in BOOLEAN,
         NEW i \in 1 .. Len(text), NEW lx, Follows(lx, text, i - 1)
  PROVE  Follows(LexLine(lx, text, i, ended), text, i)
<1>0. Between(lx) /\ lx \in Lexer /\ Stacked(lx.indents, Levels(text, i - 1))
      /\ Placed(lx.toks, text)
  BY DEF Follows, Between
<1>1. CASE ~ Code(text, i)
  <2>1. LexLine(lx, text, i, ended) = lx
    BY <1>1 DEF LexLine, Code
  <2>2. Levels(text, i) = Levels(text, i - 1)
    BY <1>1, LevelsSilent
  <2> QED
    BY <1>0, <2>1, <2>2 DEF Follows
<1>2. CASE Code(text, i)
  <2> DEFINE k == text[i].kind
             indent == text[i].indent
             in == Indented(lx, i, indent)
             w == [j \in DOMAIN Words[k] |-> Tok(Words[k][j], i)]
             e == IF i = Len(text) /\ ~ended THEN <<>> ELSE <<Tok("NEWLINE", i)>>
  <2>1. text[i] \in Lines /\ i \in Int
    OBVIOUS
  <2>2. k \in Kinds /\ indent \in Int /\ k \notin Silent
    BY <1>2, <2>1 DEF Lines, Code
  <2>3. LexLine(lx, text, i, ended) = [in EXCEPT !.toks = @ \o w \o e]
    BY <2>2 DEF LexLine
  <2>4. Uniform(w, 0) /\ \A j \in 1 .. Len(w) : w[j].line = i
    <3>1. Uniform(w, 0)
      BY <2>1, <2>2, WordsArePlain
    <3>2. \A j \in DOMAIN w : w[j].line = i
      BY DEF Tok
    <3> HIDE DEF w
    <3>3. DOMAIN w = 1 .. Len(w)
      BY <3>1 DEF Uniform
    <3> QED
      BY <3>1, <3>2, <3>3
  <2>5. Uniform(e, 0) /\ \A j \in 1 .. Len(e) : e[j].line = i
    <3>1. Uniform(<<>>, 0) /\ Len(<<>>) = 0
      BY DEF Uniform
    <3>2. Uniform(<<Tok("NEWLINE", i)>>, 0) /\ \A j \in 1 .. Len(<<Tok("NEWLINE", i)>>) :
                                                 <<Tok("NEWLINE", i)>>[j].line = i
      <4>1. Tok("NEWLINE", i) \in Toks /\ Shift(Tok("NEWLINE", i)) = 0
            /\ Tok("NEWLINE", i).line = i
        BY <2>1, TokIs DEF Word, Tok
      <4> QED
        BY <4>1 DEF Uniform
    <3> QED
      BY <3>1, <3>2
  <2>6. Between(in) /\ Between(LexLine(lx, text, i, ended))
    BY <1>0, <2>1, <2>2, IndentedKeeps, LexLineKeeps
  <2>7. Stacked(in.indents, Levels(text, i))
    <3>1. indent \in Levels(text, i - 1) \/ \A v \in Levels(text, i - 1) : indent > v
      BY <1>2 DEF Aligned
    <3>2. Stacked(in.indents, {v \in Levels(text, i - 1) : v <= indent} \cup {indent})
      BY <1>0, <2>1, <2>2, <3>1, StackedNext
    <3> QED
      BY <1>2, <3>2, LevelsNext
  <2>8. Placed(in.toks, text)
    BY <1>0, <2>1, <2>2, IndentedPlaces
  <2> HIDE DEF in, w, e
  <2>9. /\ in \in Lexer /\ in.toks \in Seq(Toks) /\ Len(in.indents) \in Nat
        /\ Depth(in.toks, Len(in.toks)) = Len(in.indents) - 1
        /\ in.indents /= <<>> /\ Len(in.indents) - 1 \in Nat
    BY <2>6 DEF Between, Lexer, Nested
  <2>10. Depth(in.toks, Len(in.toks)) = Cardinality(Levels(text, i)) - 1
    BY <2>7, <2>9, StackedCounts
  <2>11. Placed(in.toks \o w, text)
    BY <2>1, <2>4, <2>8, <2>9, <2>10, WordsPlace
  <2>12. /\ in.toks \o w \in Seq(Toks)
         /\ Depth(in.toks \o w, Len(in.toks \o w)) = Len(in.indents) - 1
    <3>1. Nested(in.toks, Len(in.indents) - 1)
      BY <2>6 DEF Between
    <3>2. Nested(in.toks \o w, Len(in.indents) - 1)
      BY <2>4, <2>9, <3>1, NestedPlain
    <3> QED
      BY <3>2 DEF Nested
  <2>13. Placed(in.toks \o w \o e, text)
    <3> DEFINE t == in.toks \o w
    <3>1. t \in Seq(Toks) /\ Placed(t, text) /\ Depth(t, Len(t)) = Cardinality(Levels(text, i)) - 1
      BY <2>9, <2>10, <2>11, <2>12
    <3> HIDE DEF t
    <3>2. Placed(t \o e, text)
      BY <2>1, <2>5, <3>1, WordsPlace
    <3> QED
      BY <3>2 DEF t
  <2>14. /\ [in EXCEPT !.toks = @ \o w \o e].indents = in.indents
         /\ [in EXCEPT !.toks = @ \o w \o e].toks = in.toks \o w \o e
    BY <2>9 DEF Lexer
  <2> QED
    BY <2>3, <2>6, <2>7, <2>13, <2>14 DEF Follows
<1> QED
  BY <1>1, <1>2

\* After any number of lines.
LEMMA LexedFollows ==
  ASSUME NEW text \in Seq(Lines), Aligned(text), NEW ended \in BOOLEAN
  PROVE  Follows(Lexed(text, ended)[Len(text)], text, Len(text))
<1> DEFINE c == Lexed(text, ended)
           S == {i \in Nat : i <= Len(text) => Follows(c[i], text, i)}
<1>1. c[0] = Start /\ \A i \in 1 .. Len(text) : c[i] = LexLine(c[i - 1], text, i, ended)
  BY LexedIs
<1> HIDE DEF c
<1>2. 0 \in S
  <2>1. Depth(<<>>, 0) = 0
    BY DepthIs
  <2>2. Start.indents = <<0>> /\ Start.toks = <<>> /\ Start \in Lexer /\ Len(<<0>>) - 1 = 0
    BY DEF Start, Lexer
  <2>3. Between(Start)
    <3>1. Nested(Start.toks, Len(Start.indents) - 1) /\ Start.indents /= <<>>
      BY <2>1, <2>2 DEF Nested
    <3> QED
      BY <2>2, <3>1 DEF Between
  <2>4. Stacked(<<0>>, {0})
    BY DEF Stacked
  <2>5. Placed(<<>>, text)
    BY DEF Placed
  <2>6. Follows(Start, text, 0)
    BY <2>2, <2>3, <2>4, <2>5, LevelsFirst DEF Follows
  <2> QED
    BY <1>1, <2>6
<1>3. ASSUME NEW i \in Nat, i \in S PROVE i + 1 \in S
  <2> SUFFICES ASSUME i + 1 <= Len(text) PROVE Follows(c[i + 1], text, i + 1)
    OBVIOUS
  <2>1. i + 1 \in 1 .. Len(text) /\ (i + 1) - 1 = i /\ i <= Len(text)
    OBVIOUS
  <2>2. Follows(c[i], text, i) /\ c[i + 1] = LexLine(c[i], text, i + 1, ended)
    BY <1>1, <1>3, <2>1
  <2> QED
    BY <2>1, <2>2, LexLineFollows
<1> HIDE DEF S
<1>4. \A i \in Nat : i \in S
  BY <1>2, <1>3, Induction
<1> QED
  BY <1>4 DEF S, c

\* In a text in which every line is at a level there is or deeper than all, every word
\* the parser sees stands inside as many blocks as its line has levels around it: what
\* emitIndents keeps from line to line is the indentation of the text as one would
\* read it off the page, over blank lines, comments and several blocks closing at once.
THEOREM WordsFollowIndentation ==
  ASSUME NEW text \in Seq(Lines), Aligned(text), NEW ended \in BOOLEAN
  PROVE  Placed(Lex(text, ended), text)
<1> DEFINE all == Lexed(text, ended)[Len(text)]
           n == Len(text) + 1
           m == Len(all.indents) - 1
           u == Copies("DEDENT", n, m)
           e == <<Tok("EOF", n)>>
<1>1. Lex(text, ended) = all.toks \o u \o e
  BY DEF Lex, Lexed, Start
<1>2. Follows(all, text, Len(text))
  BY LexedFollows
<1>3. n \in Int
  OBVIOUS
<1> HIDE DEF all, n
<1>4. all.toks \in Seq(Toks) /\ m \in Nat /\ Placed(all.toks, text)
  BY <1>2 DEF Follows, Between, Lexer
<1> HIDE DEF m
<1>5. u \in Seq(Toks) /\ \A j \in 1 .. Len(u) : u[j].t \in Edge
  BY <1>3, <1>4, EdgesAre
<1>6. e \in Seq(Toks) /\ \A j \in 1 .. Len(e) : e[j].t \in Edge
  BY <1>3, EdgesAre DEF Edge
<1> HIDE DEF u, e
<1>7. Placed(all.toks \o u, text) /\ all.toks \o u \in Seq(Toks)
  BY <1>4, <1>5, EdgesPlace
<1>8. Placed(all.toks \o u \o e, text)
  <2> DEFINE t == all.toks \o u
  <2> HIDE DEF t
  <2>1. t \in Seq(Toks) /\ Placed(t, text)
    BY <1>7 DEF t
  <2>2. Placed(t \o e, text)
    BY <1>6, <2>1, EdgesPlace
  <2> QED
    BY <2>2 DEF t
<1> QED
  BY <1>1, <1>8

-----------------------------------------------------------------------------
(* The texts that are written.                                             *)

\* What is written is a text of lines.
LEMMA WrittenAreLines == TextSpec => [](family \in Families /\ lines \in Seq(Lines))
<1> DEFINE Inv == family \in Families /\ lines \in Seq(Lines)
<1>1. Init => Inv
  BY DEF Init
<1>2. ASSUME Inv, [Writing]_vars PROVE Inv'
  <2>1. ASSUME NEW i \in Indents, NEW k \in family, Write(i, k) PROVE Inv'
    <3>1. [indent |-> i, kind |-> k] \in Lines
      BY <1>2, FamiliesAssumption, IndentsAssumption DEF Lines
    <3> QED
      BY <1>2, <2>1, <3>1 DEF Write
  <2>2. CASE UNCHANGED vars
    BY <1>2, <2>2 DEF vars
  <2> QED
    BY <1>2, <2>1, <2>2 DEF Writing
<1> QED
  BY <1>1, <1>2, PTL DEF TextSpec

\* However a text is written, line by line, with the kinds of any family and any
\* indentations, after every line emitIndents and the end of run have kept INDENT and
\* DEDENT nested and balanced, whether the last line has its newline or not.
THEOREM LayoutNestsHolds == TextSpec => []LayoutNests
<1>1. family \in Families /\ lines \in Seq(Lines) => LayoutNests
  BY LexNests DEF LayoutNests
<1> QED
  BY <1>1, WrittenAreLines, PTL
=============================================================================

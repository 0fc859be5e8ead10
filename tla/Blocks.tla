------------------------------- MODULE Blocks -------------------------------
(***************************************************************************)
(* The statement half of internal/parser: recursive descent over the       *)
(* tokens of Layout.  A parse is the value of Program; what it builds is    *)
(* recorded as a set of facts about the lines of the source:                *)
(*    <<i, "in", h>>     statement i was put in the block line h opens,     *)
(*    <<i, "arm", s>>    line i (else, handler, finally) was attached to    *)
(*                       the statement of line s,                           *)
(*    <<i, "wraps", d>>  the decorator of line i was given to definition d. *)
(* The behaviour is that of Text, kept to texts that can become programs.   *)
(***************************************************************************)
EXTENDS Text

(***************************************************************************)
(* The parser.  p = [toks, pos, pend, facts, ok]: the Parser struct, what   *)
(* has been built, and whether no error has been returned so far.           *)
(***************************************************************************)
New(toks) == [toks |-> toks, pos |-> 1, pend |-> {}, facts |-> {}, ok |-> TRUE]
PeekAt(p, n) == IF p.pos + n <= Len(p.toks) THEN p.toks[p.pos + n].t ELSE "EOF"
Peek(p) == PeekAt(p, 0)
Here(p) == IF p.pos <= Len(p.toks) THEN p.toks[p.pos].line ELSE 0
Skip(p) == [p EXCEPT !.pos = @ + 1]
Refuse(p) == [p EXCEPT !.ok = FALSE]
Match(p, t) == IF Peek(p) = t THEN Skip(p) ELSE p
Expect(p, t) == IF Peek(p) = t THEN Skip(p) ELSE Refuse(p)
Note(p, i, what, j) == [p EXCEPT !.facts = @ \cup {<<i, what, j>>}]

\* nextIsDefOrDecor: the next token that is not layout.
NextIsDefOrDecor(p) ==
  \E n \in 0..(Len(p.toks) - p.pos) :
     /\ PeekAt(p, n) \in {"DEF", "DECOR"}
     /\ \A m \in 0..(n - 1) : PeekAt(p, m) \in {"NEWLINE", "INDENT", "DEDENT"}

\* parseDecorator: held until a definition takes it.
Decorator(p) ==
  LET q == [Skip(p) EXCEPT !.pend = @ \cup {Here(p)}]
  IN  IF NextIsDefOrDecor(Skip(p)) THEN q ELSE Refuse(q)

\* parseExprStatement: what the words of a line leave of it.  An expression
\* cannot start with any keyword of this module but the constructor's name,
\* and after its verb the statement is complete.
ExprStatement(p) ==
  CASE Peek(p) = "NAME" /\ PeekAt(p, 1) = "INPUT" -> Skip(Skip(p))
    [] Peek(p) \in {"NAME", "CTOR"} /\ PeekAt(p, 1) \in {"NEWLINE", "DEDENT", "EOF"} -> Skip(p)
    [] OTHER -> Refuse(p)

RECURSIVE Statements(_, _, _), Statement(_, _, _), Arms(_, _), Handlers(_, _)

\* Mutant: a block consumes the ends of all the blocks that end with it.
BlockGreedy(p, h, place) ==
  LET q == Expect(Expect(Expect(p, "COLON"), "NEWLINE"), "INDENT")
      r == Statements(q, h, place)
      others == {n \in 0..(Len(p.toks) - r.pos) : PeekAt(r, n) # "DEDENT"}
      n == CHOOSE k \in others : \A m \in others : k <= m
  IN  IF q.ok THEN [r EXCEPT !.pos = @ + n] ELSE q

\* parseBlock: a header's colon, the statements in place, and the end of the
\* block.
Block(p, h, place) ==
  LET q == Expect(Expect(Expect(p, "COLON"), "NEWLINE"), "INDENT")
  IN  IF q.ok THEN Expect(Statements(q, h, place), "DEDENT") ELSE q

\* The loop of a block; parseProgram's skips a stray DEDENT and ends at EOF.
Statements(p, h, place) ==
  CASE ~p.ok \/ Peek(p) = "EOF" -> p
    [] p.ok /\ Peek(p) = "NEWLINE" -> Statements(Skip(p), h, place)
    [] p.ok /\ Peek(p) = "DEDENT" ->
         IF place = "program" THEN Statements(Skip(p), h, place) ELSE p
    [] OTHER -> Statements(Match(Statement(p, h, place), "NEWLINE"), h, place)

\* Mutant: the decorators are taken after the body, whose definitions get them.
DefLate(p, i) ==
  LET q == Block(Skip(p), i, "stmt")
  IN  [q EXCEPT !.pend = {}, !.facts = @ \cup {<<d, "wraps", i>> : d \in q.pend}]

\* parseDef: the definition takes the decorators held before its body is read.
Def(p, i) ==
  LET q == [Skip(p) EXCEPT !.pend = {},
                           !.facts = @ \cup {<<d, "wraps", i>> : d \in p.pend}]
  IN  Block(q, i, "stmt")

\* parseWhile, parseFor and parseWith: a header and a block.
Loop(p, i) == Block(Skip(p), i, "stmt")

\* The arms of parseIf: any number of else-ifs, then at most one else.
Arms(p, s) ==
  IF ~p.ok \/ Peek(p) # "ELSE" THEN p
  ELSE LET q == Note(Skip(p), Here(p), "arm", s)
       IN  IF Peek(q) = "IF" THEN Arms(Block(Skip(q), Here(p), "stmt"), s)
           ELSE Block(q, Here(p), "stmt")
If(p, i) == Arms(Block(Skip(p), i, "stmt"), i)

\* The handlers of parseTry, as long as a line looks like one, then at most one
\* finally.
Handlers(p, s) ==
  LET i == Here(p)
      q == Note(p, i, "arm", s)
  IN  CASE ~p.ok -> p
        [] p.ok /\ Peek(p) = "INPUT" /\ PeekAt(p, 1) = "COLON" ->
             Handlers(Block(Skip(q), i, "stmt"), s)
        [] p.ok /\ Peek(p) = "NAME" /\ PeekAt(p, 1) = "INPUT" ->
             Handlers(Block(Skip(Skip(q)), i, "stmt"), s)
        [] p.ok /\ Peek(p) = "FINALLY" -> Block(Skip(q), i, "stmt")
        [] OTHER -> p
Try(p, i) == Handlers(Block(Skip(p), i, "stmt"), i)

\* parseClassDef and parseClassBlock; parseInterfaceDef.
Class(p, i) == Block(Skip(p), i, "class")
Interface(p, i) == Block(Skip(p), i, "interface")

\* parseClassStatement: a constructor is a definition without decorators.
ClassStatement(p, q, i) ==
  CASE Peek(p) = "PASS" -> Skip(p)
    [] Peek(p) = "DECOR" -> Decorator(p)
    [] Peek(p) = "DEF" -> Def(q, i)
    [] Peek(p) = "CTOR" -> Block(Skip(q), i, "stmt")
    [] OTHER -> ExprStatement(q)

\* A signature in the loop of parseInterfaceDef.
Signature(q) == IF Peek(q) = "DEF" THEN Skip(q) ELSE Refuse(q)

\* parseStatement.
PlainStatement(p, q, i) ==
  CASE Peek(p) = "PASS" -> Skip(p)
    [] Peek(p) = "DECOR" -> Decorator(p)
    [] Peek(p) = "DEF" -> Def(q, i)
    [] Peek(p) = "IF" -> If(q, i)
    [] Peek(p) = "TRY" -> Try(q, i)
    [] Peek(p) = "LOOP" -> Loop(q, i)
    [] Peek(p) = "CLASS" -> Class(q, i)
    [] Peek(p) = "INTERF" -> Interface(q, i)
    [] Peek(p) = "WORD" -> Skip(q)
    [] OTHER -> ExprStatement(q)

\* The statement that starts at the next token, in a block of the given place.
Statement(p, h, place) ==
  LET i == Here(p)
      q == Note(p, i, "in", h)
  IN  CASE place = "class" -> ClassStatement(p, q, i)
        [] place = "interface" -> Signature(q)
        [] OTHER -> PlainStatement(p, q, i)

\* ParseProgram on a text whose last line may lack its newline.
Program(ls, ended) == Statements(New(Lex(ls, ended)), 0, "program")
Accepted(ls) == Program(ls, TRUE).ok

(***************************************************************************)
(* The structure a reader sees: that of the indentation.                   *)
(***************************************************************************)
\* The layout the reader sees: code only, by the lines' own numbers.
Ind(ls, i) == ls[i].indent
Kind(ls, i) == IF i = 0 THEN "program" ELSE ls[i].kind
Before(ls, i) == {j \in 1..(i - 1) : ls[j].kind \notin Silent}
Last0(S) == IF S = {} THEN 0 ELSE CHOOSE j \in S : \A k \in S : k <= j
Prev(ls, i) == Last0(Before(ls, i))

\* The line whose block holds line i, and the line before i in that block.
Parent(ls, i) == Last0({j \in Before(ls, i) : Ind(ls, j) < Ind(ls, i)})
Sibling(ls, i) == Last0({j \in Before(ls, i) : Parent(ls, j) = Parent(ls, i)})

\* Every line is as deep as the code line before it, deeper, or as deep as a
\* line whose block it returns to.
RECURSIVE Open(_, _)
Open(ls, i) == IF i = 0 THEN {0} ELSE {i} \cup Open(ls, Parent(ls, i))
Consistent(ls) ==
  \A i \in DOMAIN ls : ls[i].kind \notin Silent =>
    LET p == Prev(ls, i) IN
    IF p = 0 THEN Ind(ls, i) = 0
    ELSE Ind(ls, i) > Ind(ls, p)
           \/ \E j \in Open(ls, p) \ {0} : Ind(ls, j) = Ind(ls, i)

Openers == {k \in Kinds : Last(Words[k]) = "COLON"}
Chains == [elif |-> {"if", "elif"}, else |-> {"if", "elif"},
           except |-> {"try", "except", "bare"}, bare |-> {"try", "except", "bare"},
           finally |-> {"try", "except", "bare"}]
Links == DOMAIN Chains
AllowedIn(k) == CASE k = "class" -> {"simple", "input", "pass", "decor", "def", "ctor"}
                  [] k = "interface" -> {"sig"}
                  [] OTHER -> Kinds \ {"ctor", "sig"}

\* A program one may write: a block under every header and nowhere else, each
\* line allowed where it is, every arm after what it continues, every decorator
\* before a definition.  (A line reading a name right after a try statement is
\* taken for one more handler, and refused.)
WellFormedLine(ls, i) ==
  LET k == Kind(ls, i)
      n == {j \in DOMAIN ls : j > i /\ ls[j].kind \notin Silent}
      next == IF n = {} THEN 0 ELSE CHOOSE j \in n : \A m \in n : j <= m
      s == Kind(ls, Sibling(ls, i))
  IN  /\ (k \in Openers) <=> (next # 0 /\ Ind(ls, next) > Ind(ls, i))
      /\ k \in AllowedIn(Kind(ls, Parent(ls, i)))
      /\ k \in Links => (Sibling(ls, i) # 0 /\ s \in Chains[k])
      /\ k = "input" => s \notin {"try", "except", "bare"}
      /\ k = "decor" => (next # 0 /\ Kind(ls, next) \in {"decor", "def"})
WellFormed(ls) == \A i \in DOMAIN ls : ls[i].kind \notin Silent => WellFormedLine(ls, i)

\* The statement an arm belongs to: the nearest if or try before it in its block.
Owner(ls, i) == Last0({j \in Before(ls, i) : /\ Parent(ls, j) = Parent(ls, i)
                                             /\ Kind(ls, j) \notin Links})
Structure(ls) ==
  LET code == {i \in DOMAIN ls : ls[i].kind \notin Silent} IN
  {<<i, "in", Parent(ls, i)>> : i \in {j \in code : Kind(ls, j) \notin Links \cup {"pass", "decor"}}}
    \cup {<<i, "arm", Owner(ls, i)>> : i \in {j \in code : Kind(ls, j) \in Links}}

(***************************************************************************)
(* Writing a program.  What cannot become a program is not carried on: a   *)
(* text is written on while it is one, or lacks only the end of its last    *)
(* header or decorator.                                                     *)
(***************************************************************************)
Ending(ls, i) ==
  LET deeper == [indent |-> Ind(ls, i) + 1, kind |-> "pass"]
      def == [indent |-> Ind(ls, i), kind |-> "def"]
  IN  CASE Kind(ls, i) = "interface" -> <<[deeper EXCEPT !.kind = "sig"]>>
        [] Kind(ls, i) \in Openers \ {"interface"} -> <<deeper>>
        [] Kind(ls, i) = "decor" -> <<def, deeper>>
        [] OTHER -> <<>>
Promising(ls) == Accepted(ls \o Ending(ls, Prev(ls, Len(ls) + 1)))

Next == Promising(lines) /\ Writing
Spec == Init /\ [][Next]_vars

(***************************************************************************)
(* Properties.                                                             *)
(***************************************************************************)
\* On a consistent layout the parser accepts exactly the well-formed programs -
\* blank lines, comments, the missing last newline and several blocks closing at
\* once change nothing - and reads them by the indentation: every statement goes
\* into the block it stands in, and every else, handler and finally to the
\* statement it is aligned with (the layout decides the dangling else).
FollowsIndentation ==
  Consistent(lines) => \A ended \in BOOLEAN :
    LET p == Program(lines, ended) IN
    /\ p.ok <=> WellFormed(lines)
    /\ p.ok => {f \in p.facts : f[2] # "wraps"} = Structure(lines)

\* A decorator is taken by the very next definition, over blank lines and the
\* ends of blocks, exactly once: pendingDecorators never leaks into a later
\* definition or into one in the body of its own.
DecoratorsAttach ==
  LET p == Program(lines, TRUE)
      defs(d) == {j \in d..Len(lines) : lines[j].kind = "def"}
  IN  p.ok => /\ p.pend = {}
              /\ {f \in p.facts : f[2] = "wraps"} =
                   {<<d, "wraps", CHOOSE j \in defs(d) : \A m \in defs(d) : j <= m>> :
                      d \in {e \in DOMAIN lines : lines[e].kind = "decor"}}
=============================================================================

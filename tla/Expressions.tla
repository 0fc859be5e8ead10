---------------------------- MODULE Expressions ----------------------------
(***************************************************************************)
(* The expression half of internal/parser: precedence climbing over a      *)
(* sequence of tokens.  A token is a string; "x" stands for every name and  *)
(* literal, "," for the separator (the word for "and"), "~" for the ezafe   *)
(* that joins a member to its owner, "is" and "isnot" for the copulas that  *)
(* end a condition.  A tree of internal/ast is a tuple whose first element  *)
(* names the node and whose others are its children.                        *)
(*                                                                          *)
(* Parse operators take c = [ts, cond, comp, paren], the tokens and whether *)
(* condDepth, compDepth and parenDepth are positive, and a position; they   *)
(* return [ok, e, at]: no error, the tree, the position after it.           *)
(***************************************************************************)
EXTENDS Integers, Sequences, SequencesExt

None == <<"none">>
Ok(e, i) == [ok |-> TRUE, e |-> e, at |-> i]
Err(i) == [ok |-> FALSE, e |-> None, at |-> i]

Tk(c, i) == IF i \in DOMAIN c.ts THEN c.ts[i] ELSE "end"
Then(r, F(_)) == IF r.ok THEN F(r) ELSE r
Wrap(n, r) == Then(r, LAMBDA v : Ok(<<n, v.e>>, v.at))
Expect(c, r, t) == Then(r, LAMBDA v : IF Tk(c, v.at) = t THEN Ok(v.e, v.at + 1) ELSE Err(v.at))
\* A closing token whose absence the code does not look at.
Lenient(c, r, t) == IF r.ok /\ Tk(c, r.at) = t THEN Ok(r.e, r.at + 1) ELSE r

\* binops: a token of each operator of a level, from the loosest level to the
\* tightest.  Only power associates to the right.
Levels == <<{"|>"}, {"or"}, {"and"}, {"==", "<", "in"}, {"+", "-"}, {"mul", "div"}, {"*"}>>
BinOps == UNION Range(Levels)
PrecOf(op) == CHOOSE n \in DOMAIN Levels : op \in Levels[n]
precLowest == 0
precCMP == 4
precPOW == 7
\* Mutant: power associates like the others.
NextPrecLeft(op) == PrecOf(op) + 1
NextPrec(op) == IF op = "*" THEN PrecOf(op) ELSE PrecOf(op) + 1

RECURSIVE Binary(_, _, _), Merge(_, _, _), Postfix(_, _), Receiver(_, _),
          Owners(_, _), Subscripts(_, _), Elements(_, _, _, _), ArgList(_, _, _, _),
          Clauses(_, _, _), Pairs(_, _, _), ListElements(_, _, _)

Expression(c, i) == Binary(c, i, precLowest)

\* parseArgs: positional arguments, then keyword arguments, whatever their
\* order in the text.  The tree is the sequence of both.
Args(c, i) ==
  IF Tk(c, i) # "(" THEN Err(i)
  ELSE IF Tk(c, i + 1) = ")" THEN Ok([pos |-> <<>>, kw |-> <<>>], i + 2)
  ELSE ArgList([c EXCEPT !.paren = TRUE], i + 1, <<>>, <<>>)
ArgList(c, i, pos, kw) ==
  LET named == Tk(c, i) = "x" /\ Tk(c, i + 1) = "="
      v == Expression(c, IF named THEN i + 2 ELSE i)
      pos2 == IF named THEN pos ELSE Append(pos, v.e)
      kw2 == IF named THEN Append(kw, <<"kw", v.e>>) ELSE kw
  IN  IF v.ok /\ Tk(c, v.at) = "," THEN ArgList(c, v.at + 1, pos2, kw2)
      ELSE Expect(c, Then(v, LAMBDA r : Ok([pos |-> pos2, kw |-> kw2], r.at)), ")")

\* Expressions joined by separators, as in sets and tuples and at the start of a
\* statement; before each, the loop of a tuple looks for its end.
Elements(c, i, es, end) ==
  IF Tk(c, i) = end THEN Ok(es, i)
  ELSE Then(Expression(c, i), LAMBDA r :
         IF Tk(c, r.at) = "," THEN Elements(c, r.at + 1, Append(es, r.e), end)
         ELSE Ok(Append(es, r.e), r.at))

\* parseCompClauses: for x in e, each with an optional filter that ends in its
\* copula; an if in here is never a ternary.
Clauses(c, i, cls) ==
  LET in == [c EXCEPT !.comp = TRUE]
      it == IF Tk(c, i + 1) = "x" /\ Tk(c, i + 2) = "in" THEN Expression(in, i + 3) ELSE Err(i)
      filter == Expect(c, Expression(in, it.at + 1), "is")
  IN  IF Tk(c, i) # "for" THEN Ok(cls, i)
      ELSE IF ~it.ok THEN it
      ELSE IF Tk(c, it.at) # "if" THEN Clauses(c, it.at, Append(cls, <<"clause", it.e>>))
      ELSE Then(filter, LAMBDA f : Clauses(c, f.at, Append(cls, <<"clause", it.e, f.e>>)))
Comprehension(c, i, head, close) ==
  Lenient(c, Then(Clauses(c, i, <<>>), LAMBDA r : Ok(head \o r.e, r.at)), close)

\* parseParen: a grouping leaves no node.
Paren(c, i) ==
  LET in == [c EXCEPT !.paren = TRUE]
      first == Expression(in, i + 1)
  IN  IF Tk(c, i + 1) = ")" THEN Ok(<<"tuple">>, i + 2)
      ELSE Then(first, LAMBDA f :
        CASE Tk(c, f.at) = "for" -> Comprehension(in, f.at, <<"gen", f.e>>, ")")
          [] Tk(c, f.at) = "," ->
               Lenient(c, Elements(in, f.at + 1, <<"tuple", f.e>>, ")"), ")")
          [] OTHER -> Expect(c, f, ")"))

\* parseListLit: whatever comes before the element of a comprehension is lost.
ListElements(c, i, es) ==
  Then(Expression(c, i), LAMBDA r :
    CASE Tk(c, r.at) = "for" -> Comprehension(c, r.at, <<"listcomp", r.e>>, "]")
      [] Tk(c, r.at) = "," -> ListElements(c, r.at + 1, Append(es, r.e))
      [] OTHER -> Expect(c, Ok(Append(es, r.e), r.at), "]"))
ListLit(c, i) ==
  IF Tk(c, i + 1) = "]" THEN Ok(<<"list">>, i + 2) ELSE ListElements(c, i + 1, <<"list">>)

\* parseDictSetLit: a colon after the first expression tells a dict from a set.
Pairs(c, i, kvs) ==
  LET k == Lenient(c, Expression(c, i), ":")
      v == Expression(c, k.at)
  IN  IF ~k.ok THEN k
      ELSE Then(v, LAMBDA r : IF Tk(c, r.at) = "," THEN Pairs(c, r.at + 1, kvs \o <<k.e, r.e>>)
                              ELSE Ok(kvs \o <<k.e, r.e>>, r.at))
DictSetLit(c, i) ==
  LET first == Expression(c, i + 1)
      val == Expression(c, first.at + 1)
  IN  IF Tk(c, i + 1) = "}" THEN Ok(<<"dict">>, i + 2)
      ELSE IF ~first.ok THEN first
      ELSE IF Tk(c, first.at) = ":"
      THEN Then(val, LAMBDA v :
             CASE Tk(c, v.at) = "for" -> Comprehension(c, v.at, <<"dictcomp", first.e, v.e>>, "}")
               [] Tk(c, v.at) = "," ->
                    Lenient(c, Pairs(c, v.at + 1, <<"dict", first.e, v.e>>), "}")
               [] OTHER -> Lenient(c, Ok(<<"dict", first.e, v.e>>, v.at), "}"))
      ELSE CASE Tk(c, first.at) = "for" -> Comprehension(c, first.at, <<"setcomp", first.e>>, "}")
             [] Tk(c, first.at) = "," ->
                  Lenient(c, Elements(c, first.at + 1, <<"set", first.e>>, "none"), "}")
             [] OTHER -> Lenient(c, Ok(<<"set", first.e>>, first.at), "}")

\* parseAtom, with parseChannelLit (a type, a size, both or neither).
Atom(c, i) ==
  CASE Tk(c, i) \in {"x", "super"} -> Ok(<<Tk(c, i)>>, i + 1)
    [] Tk(c, i) = "chan" -> Then(Args(c, i + 1), LAMBDA r :
         Ok(<<"chan">> \o (IF Len(r.e.pos) <= 2 THEN r.e.pos ELSE <<>>), r.at))
    [] Tk(c, i) = "(" -> Paren(c, i)
    [] Tk(c, i) = "[" -> ListLit(c, i)
    [] Tk(c, i) = "{" -> DictSetLit(c, i)
    [] OTHER -> Err(i)

\* A subscript of r, whose bracket is the next token: an index, or a slice in
\* which a bound written right after a first colon is the low one.
SliceComponent(c, i) ==
  IF Tk(c, i) \in {"]", ":"} THEN Ok(None, i) ELSE Expression(c, i)
StepOf(c, i) == IF Tk(c, i) = ":" THEN SliceComponent(c, i + 1) ELSE Ok(None, i)
Subscript(c, r) ==
  LET open == Tk(c, r.at + 1) = ":"
      low == IF open THEN SliceComponent(c, r.at + 2) ELSE Expression(c, r.at + 1)
      colon == Tk(c, low.at) = ":"
      high == IF open \/ ~colon THEN Ok(None, low.at) ELSE SliceComponent(c, low.at + 1)
      step == StepOf(c, high.at)
  IN  IF ~low.ok THEN low
      ELSE IF ~open /\ ~colon THEN Lenient(c, Ok(<<"index", r.e, low.e>>, low.at), "]")
      ELSE Lenient(c, Ok(<<"slice", r.e, low.e, high.e, step.e>>, step.at), "]")

\* An ezafe after e: the owner, or, if arguments come first, a method call.
\* Keyword arguments are parsed, and dropped.
Member(c, r) ==
  IF Tk(c, r.at + 1) = "("
  THEN Then(Args(c, r.at + 1), LAMBDA a :
         Then(Receiver(c, a.at), LAMBDA o : Ok(<<"method", r.e, o.e>> \o a.e.pos, o.at)))
  ELSE Then(Receiver(c, r.at + 1), LAMBDA o : Ok(<<"attr", r.e, o.e>>, o.at))

\* parseReceiver: an owner takes its subscripts and its own owners, but no call,
\* which belongs to the member - except the one that makes super() of super.
Subscripts(c, r) == IF r.ok /\ Tk(c, r.at) = "[" THEN Subscripts(c, Subscript(c, r)) ELSE r
Owners(c, r) == IF r.ok /\ Tk(c, r.at) = "~" THEN Owners(c, Member(c, r)) ELSE r
SuperCall(c, a) ==
  IF a.ok /\ a.e = <<"super">> /\ Tk(c, a.at) = "("
  THEN Then(Args(c, a.at), LAMBDA r : Ok(<<"call", a.e>> \o r.e.pos, r.at))
  ELSE a
Receiver(c, i) == Owners(c, Subscripts(c, SuperCall(c, Atom(c, i))))

\* parsePostfix: a verb-final yield, inside parentheses only, ends the chain.
Postfix(c, r) ==
  LET t == Tk(c, r.at)
      call == Then(Args(c, r.at), LAMBDA a : Ok(<<"call", r.e>> \o a.e.pos \o a.e.kw, a.at))
  IN  CASE ~r.ok -> r
        [] r.ok /\ t \in {"yield", "yieldfrom"} ->
             IF c.paren THEN Ok(<<t, r.e>>, r.at + 1) ELSE r
        [] r.ok /\ t = "~" -> Postfix(c, Member(c, r))
        [] r.ok /\ t = "(" -> Postfix(c, call)
        [] r.ok /\ t = "[" -> Postfix(c, Subscript(c, r))
        [] OTHER -> r
Primary(c, i) == Postfix(c, Atom(c, i))

\* parsePrefix.
Prefix(c, i) ==
  CASE Tk(c, i) \in {"yield", "yieldfrom"} /\ c.paren -> Wrap(Tk(c, i), Expression(c, i + 1))
    [] Tk(c, i) = "-" -> Wrap("neg", Binary(c, i + 1, precPOW))
    [] Tk(c, i) = "isnot" -> Wrap("not", Binary(c, i + 1, precCMP))
    [] Tk(c, i) = ">>" -> Wrap("recv", Primary(c, i + 1))
    [] OTHER -> Primary(c, i)

\* The copula after a condition: "isnot" negates it.
Copula(c, r) ==
  CASE ~r.ok -> r
    [] r.ok /\ Tk(c, r.at) = "is" -> Ok(r.e, r.at + 1)
    [] r.ok /\ Tk(c, r.at) = "isnot" -> Ok(<<"not", r.e>>, r.at + 1)
    [] OTHER -> Err(r.at)

\* parseBinary: merge operators at least as tight as min; then, outside of a
\* condition, one suffix negation; then, outside of a comprehension, a ternary.
Merge(c, l, min) ==
  LET op == Tk(c, l.at)
      r == Binary(c, l.at + 1, NextPrec(op))
  IN  IF ~l.ok \/ op \notin BinOps \/ PrecOf(op) < min THEN l
      ELSE Then(r, LAMBDA v : Merge(c, Ok(<<op, l.e, v.e>>, v.at), min))
\* Mutant: also in a condition, whose copula it takes.
NegatedAlways(c, r) ==
  IF r.ok /\ Tk(c, r.at) = "isnot" THEN Ok(<<"not", r.e>>, r.at + 1) ELSE r
Negated(c, r) ==
  IF r.ok /\ ~c.cond /\ Tk(c, r.at) = "isnot" THEN Ok(<<"not", r.e>>, r.at + 1) ELSE r
Ternary(c, r) ==
  LET cond == Expect(c, Copula(c, Expression([c EXCEPT !.cond = TRUE], r.at + 1)), "else")
  IN  IF ~r.ok \/ c.comp \/ Tk(c, r.at) # "if" THEN r
      ELSE Then(cond, LAMBDA q :
             Then(Expression(c, q.at), LAMBDA f : Ok(<<"ternary", r.e, q.e, f.e>>, f.at)))
Binary(c, i, min) == Ternary(c, Negated(c, Merge(c, Prefix(c, i), min)))

\* parseCondition and checkCondition: the condition of an if or a while ends in
\* its copula and is a comparison or a negation (or a literal, which "x" hides).
Explicit(e) == e[1] \in {"==", "<", "in", "not", "neg"}
Context(ts, cond) == [ts |-> ts, cond |-> cond, comp |-> FALSE, paren |-> FALSE]
checkCondition(r) == IF r.ok /\ ~Explicit(r.e) THEN Err(r.at) ELSE r
Condition(ts) ==
  LET c == Context(ts, TRUE) IN checkCondition(Copula(c, Expression(c, 1)))

(***************************************************************************)
(* parseExprStatement: expressions first, then the word that says what is   *)
(* to be done with them.                                                    *)
(***************************************************************************)
Single == {"close", "defer", "raise", "input", "yield", "yieldfrom"}
Plural == {"return", "print"}

\* Mutant: any number of values fills any number of targets.
AssignmentLoose(c, targets, op, vs) ==
  CASE ~vs.ok -> vs
    [] vs.ok /\ op = "+=" -> Ok(<<"+=", targets[1], vs.e[1]>>, vs.at)
    [] OTHER -> Ok(<<"=", <<"targets">> \o targets, <<"values">> \o vs.e>>, vs.at)

\* parseAssignment, after its operator: one value may fill several targets; a
\* compound assignment looks at its first value only.
Assignment(c, targets, op, vs) ==
  LET n == Len(targets)
      m == Len(vs.e)
  IN  CASE ~vs.ok -> vs
        [] vs.ok /\ op = "+=" -> IF n = 1 THEN Ok(<<"+=", targets[1], vs.e[1]>>, vs.at) ELSE Err(vs.at)
        [] OTHER -> IF m = 1 \/ n = m
                    THEN Ok(<<"=", <<"targets">> \o targets, <<"values">> \o vs.e>>, vs.at)
                    ELSE Err(vs.at)

\* An addition to, or a removal from, a list: of the first expression.
Moved(c, es, i, verb) ==
  LET obj == Expect(c, Expression(c, i), verb)
  IN  Then(obj, LAMBDA o : Ok(<<verb, o.e, es[1]>>, o.at))

\* What follows the expressions of l.
Verb(c, l) ==
  LET es == l.e
      t == Tk(c, l.at)
      one == Len(es) = 1
      val == Expression(c, l.at + 1)
      name == one /\ es[1] = <<"x">>
  IN  CASE ~l.ok -> l
        [] l.ok /\ t = "<<" -> IF one THEN Then(val, LAMBDA v : Ok(<<"<<", es[1], v.e>>, v.at)) ELSE Err(l.at)
        [] l.ok /\ t \in Single -> IF one THEN Ok(<<t, es[1]>>, l.at + 1) ELSE Err(l.at)
        [] l.ok /\ t \in Plural -> Ok(<<t>> \o es, l.at + 1)
        [] l.ok /\ t = "import" -> IF name THEN Ok(<<t, es[1]>>, l.at + 1) ELSE Err(l.at)
        [] l.ok /\ t = ":" /\ name ->
             IF Tk(c, l.at + 2) = "=" THEN Then(Expression(c, l.at + 3), LAMBDA v : Ok(<<":", es[1], v.e>>, v.at))
             ELSE Err(l.at)
        [] l.ok /\ t \in {"=", "+="} -> Assignment(c, es, t, Elements(c, l.at + 1, <<>>, "none"))
        [] l.ok /\ t = "to" -> Moved(c, es, l.at + 1, "append")
        [] l.ok /\ t = "from" -> Moved(c, es, l.at + 1, "remove")
        [] l.ok /\ t \in {"newline", "end"} -> IF one THEN Ok(<<"expr", es[1]>>, l.at) ELSE Err(l.at)
        [] OTHER -> Err(l.at)
ExprStatement(ts) ==
  LET c == Context(ts, FALSE) IN Verb(c, Elements(c, 1, <<>>, "none"))
=============================================================================

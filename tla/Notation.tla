------------------------------ MODULE Notation ------------------------------
(***************************************************************************)
(* How a tree is written, and that the parser of Expressions reads it back. *)
(* Parentheses are put only where the levels of the operators call for      *)
(* them, so a reading that differs from the written tree shows.             *)
(* The behaviour grows a tree, of the nodes of one family: a leaf becomes a *)
(* node with new leaves.                                                    *)
(***************************************************************************)
EXTENDS Expressions

CONSTANT Families   \* records of the nodes a tree has, and how many at most

VARIABLES family, tree

X == <<"x">>
Templates ==
  {<<op, X, X>> : op \in {"|>", "or", "and", "==", "+", "mul", "*"}}
    \cup {<<"neg", X>>, <<"not", X>>, <<"recv", X>>, <<"ternary", X, X, X>>,
          <<"index", X, X>>, <<"slice", X, X, X, None>>, <<"slice", X, None, None, X>>,
          <<"call", X, X>>, <<"call", X, X, <<"kw", X>>>>, <<"attr", X, X>>,
          <<"method", X, X, X>>, <<"super">>, <<"call", <<"super">>>>,
          <<"yield", X>>, <<"tuple", X>>, <<"tuple", X, X>>, <<"list", X, X>>, <<"set", X>>,
          <<"dict", X, X>>, <<"chan", X>>, <<"gen", X, <<"clause", X>>>>,
          <<"listcomp", X, <<"clause", X, X>>>>, <<"dictcomp", X, X, <<"clause", X>>>>,
          <<"setcomp", X, <<"clause", X>>, <<"clause", X>>>>}

Kids(t) == SubSeq(t, 2, Len(t))
Inner == {"|>", "or", "and", "==", "+", "mul", "*"} \cup {t[1] : t \in Templates}
RECURSIVE Nodes(_), Grown(_), Text(_, _)
Nodes(t) == FoldLeft(+, IF t[1] \in Inner THEN 1 ELSE 0,
                     [k \in DOMAIN Kids(t) |-> Nodes(Kids(t)[k])])
Grown(t) == IF t = X THEN {n \in Templates : n[1] \in family.nodes}
            ELSE UNION {{[t EXCEPT ![k] = g] : g \in Grown(t[k])} : k \in 2..Len(t)}

(***************************************************************************)
(* Text(t, s): the tokens of t, where s says how a negation is written:     *)
(* "prefix", or "suffix" wherever that is possible.                         *)
(***************************************************************************)
Parens(ts) == <<"(">> \o ts \o <<")">>
If(b, ts) == IF b THEN Parens(ts) ELSE ts
Joined(tss) == IF tss = <<>> THEN <<>>
               ELSE FoldLeft(LAMBDA a, b : a \o <<",">> \o b, tss[1], SubSeq(tss, 2, Len(tss)))
Texts(ts, s) == Joined([k \in DOMAIN ts |-> Text(ts[k], s)])

Closed == {"x", "super", "tuple", "list", "set", "dict", "chan", "gen", "listcomp",
           "setcomp", "dictcomp", "yield"}
IsPrimary(t) == t[1] \in Closed \cup {"index", "slice", "call", "attr", "method"}

\* A negation at the end binds to a primary expression, and nothing binds to it.
SuffixNot(t, s) == t[1] = "not" /\ s = "suffix"

\* Whether an operand stands without parentheses on a side of op.
Fits(t, op, side, s) ==
  CASE t[1] \in BinOps -> \/ PrecOf(t[1]) > PrecOf(op)
                          \/ (PrecOf(t[1]) = PrecOf(op) /\ side = (IF op = "*" THEN "right" ELSE "left"))
    [] t[1] = "neg" -> ~(op = "*" /\ side = "left")
    [] t[1] = "not" -> ~SuffixNot(t, s) /\ PrecOf(op) < precCMP
    [] OTHER -> t[1] # "ternary"
Operand(t, op, side, s) == If(~Fits(t, op, side, s), Text(t, s))
Base(t, s) == If(~IsPrimary(t), Text(t, s))

\* An owner takes its subscripts and owners and no call but super's own.
RECURSIVE Subscripted(_), IsOwner(_)
Subscripted(t) ==
  \/ t[1] \in Closed \/ t = <<"call", <<"super">>>>
  \/ (t[1] \in {"index", "slice"} /\ Subscripted(t[2]))
IsOwner(t) == Subscripted(t) \/ (t[1] \in {"attr", "method"} /\ Subscripted(t[2]))
Owner(t, s) == If(~IsOwner(t), Text(t, s))
Called(t, s) == LET ts == Base(t, s)
                IN  If(t[1] \in {"attr", "method"} /\ Last(ts) = "super", ts)
Grouped(t, s) == If(t[1] \in {"attr", "method"}, Base(t, s))

\* A condition: a negation of it may be left to the copula.
CondText(t, s) ==
  IF SuffixNot(t, s) THEN Text(t[2], "prefix") \o <<"isnot">> ELSE Text(t, "prefix") \o <<"is">>
ClauseText(cl, s) ==
  <<"for", "x", "in">> \o Text(cl[2], s)
    \o (IF Len(cl) = 3 THEN <<"if">> \o Text(cl[3], s) \o <<"is">> ELSE <<>>)
ClauseTexts(cls, s) == FlattenSeq([k \in DOMAIN cls |-> ClauseText(cls[k], s)])
Bound(t, s) == IF t = None THEN <<>> ELSE Text(t, s)
Args1(ts, s) == Parens(Texts(ts, s))

Text(t, s) ==
  LET n == t[1]
      rest == SubSeq(t, 3, Len(t))
  IN
  CASE n \in {"x", "super"} -> <<n>>
    [] n = "kw" -> <<"x", "=">> \o Text(t[2], s)
    [] n \in BinOps -> Operand(t[2], n, "left", s) \o <<n>> \o Operand(t[3], n, "right", s)
    [] n = "neg" -> <<"-">> \o If(t[2][1] \in {"not", "ternary"} \/ t[2][1] \in BinOps \ {"*"}, Text(t[2], s))
    [] SuffixNot(t, s) -> If(~IsPrimary(t[2]) /\ t[2][1] # "recv", Text(t[2], s)) \o <<"isnot">>
    [] n = "not" /\ s = "prefix" ->
         <<"isnot">> \o If(t[2][1] = "ternary" \/ t[2][1] \in {"|>", "or", "and"}, Text(t[2], s))
    [] n = "recv" -> <<">>">> \o Base(t[2], s)
    [] n = "ternary" ->
         If(~IsPrimary(t[2]) /\ t[2][1] # "recv", Text(t[2], s))
           \o <<"if">> \o CondText(t[3], s) \o <<"else">> \o Text(t[4], s)
    [] n = "index" -> Grouped(t[2], s) \o <<"[">> \o Text(t[3], s) \o <<"]">>
    [] n = "slice" ->
         Grouped(t[2], s) \o <<"[">> \o Bound(t[3], s) \o <<":">> \o Bound(t[4], s)
           \o (IF t[5] = None THEN <<>> ELSE <<":">> \o Text(t[5], s)) \o <<"]">>
    [] n = "call" -> Called(t[2], s) \o Args1(rest, s)
    [] n = "attr" -> Grouped(t[2], s) \o <<"~">> \o Owner(t[3], s)
    [] n = "method" -> Grouped(t[2], s) \o <<"~">> \o Args1(SubSeq(t, 4, Len(t)), s) \o Owner(t[3], s)
    [] n = "yield" -> Parens(IF s = "suffix" /\ IsPrimary(t[2]) THEN Text(t[2], s) \o <<"yield">>
                             ELSE <<"yield">> \o Text(t[2], s))
    [] n = "tuple" -> Parens(Texts(Kids(t), s) \o (IF Len(t) = 2 THEN <<",">> ELSE <<>>))
    [] n = "list" -> <<"[">> \o Texts(Kids(t), s) \o <<"]">>
    [] n = "set" -> <<"{">> \o Texts(Kids(t), s) \o <<"}">>
    [] n = "dict" -> <<"{">> \o Text(t[2], s) \o <<":">> \o Text(t[3], s) \o <<"}">>
    [] n = "chan" -> <<"chan">> \o Args1(Kids(t), s)
    [] n = "gen" -> Parens(Text(t[2], s) \o ClauseTexts(rest, s))
    [] n = "listcomp" -> <<"[">> \o Text(t[2], s) \o ClauseTexts(rest, s) \o <<"]">>
    [] n = "setcomp" -> <<"{">> \o Text(t[2], s) \o ClauseTexts(rest, s) \o <<"}">>
    [] n = "dictcomp" -> <<"{">> \o Text(t[2], s) \o <<":">> \o Text(t[3], s)
                           \o ClauseTexts(SubSeq(t, 4, Len(t)), s) \o <<"}">>

\* What cannot be written at all: a ternary inside the clauses of a
\* comprehension, even in parentheses; and an attribute of an owner that starts
\* with a parenthesis, which would be read as the arguments of a method.
RECURSIVE Writable(_, _)
Writable(t, comp) ==
  /\ comp => t[1] # "ternary"
  /\ t[1] = "attr" => Head(Owner(t[3], "prefix")) # "("
  /\ \A k \in 2..Len(t) : Writable(t[k], comp \/ t[1] = "clause")

Init == family \in Families /\ tree = X
Grow == tree' \in {t \in Grown(tree) : Nodes(t) <= family.max} /\ UNCHANGED family
Next == Grow
vars == <<family, tree>>
Spec == Init /\ [][Next]_vars

-----------------------------------------------------------------------------
Whole(r, ts, e) == r = Ok(e, Len(ts) + 1)

\* Every tree that can be written is read back as itself, with negations before
\* or after what they negate: precedence and associativity, greedy prefix
\* operators, owners that leave calls to their members, ternaries inside
\* conditions and comprehensions, and the depth counters that switch readings.
ReadsBack ==
  \A s \in {"prefix", "suffix"} :
    LET ts == Text(tree, s) IN
    Writable(tree, FALSE) => Whole(Expression(Context(ts, FALSE), 1), ts, tree)

\* So is the condition of an if or while; it is refused exactly when it is
\* neither a comparison nor a negation - logical, left to the copula or not, or
\* arithmetic.
ConditionsReadBack ==
  \A s \in {"prefix", "suffix"} :
    LET ts == CondText(tree, s) IN
    Writable(tree, FALSE) =>
      IF tree[1] \in {"==", "not", "neg"} THEN Whole(Condition(ts), ts, tree) ELSE ~Condition(ts).ok

\* A statement: expressions es, a verb, and the values or the object vs.  What
\* the parser drops in silence is not written: the values of a compound assignment
\* after the first, and the expressions after the first that are added to a list
\* or removed from it.
Sentences ==
  {[es |-> es, verb |-> v, vs |-> <<>>] : es \in {<<tree>>, <<X, tree>>},
     v \in Single \cup Plural \cup {"import", "newline"}}
  \cup {[es |-> es, verb |-> v, vs |-> vs] : es \in {<<tree>>, <<X, tree>>},
     v \in {"="}, vs \in {<<X>>, <<tree, X>>}}
  \cup {[es |-> es, verb |-> "+=", vs |-> <<tree>>] : es \in {<<tree>>, <<X, tree>>}}
  \cup {[es |-> <<tree>>, verb |-> v, vs |-> <<tree>>] : v \in {"<<", "to", "from"}}
Closing == [to |-> <<"append">>, from |-> <<"remove">>]
SentenceText(z) ==
  Texts(z.es, "prefix") \o <<z.verb>> \o Texts(z.vs, "prefix")
    \o (IF z.verb \in DOMAIN Closing THEN Closing[z.verb] ELSE <<>>)
Meaning(z) ==
  CASE z.verb \in Plural \cup Single \cup {"import"} -> <<z.verb>> \o z.es
    [] z.verb = "newline" -> <<"expr", z.es[1]>>
    [] z.verb = "=" -> <<"=", <<"targets">> \o z.es, <<"values">> \o z.vs>>
    [] z.verb \in {"+=", "<<"} -> <<z.verb, z.es[1], z.vs[1]>>
    [] OTHER -> <<Closing[z.verb][1], z.vs[1], z.es[1]>>
Grammatical(z) ==
  CASE z.verb \in Single \cup {"newline", "+="} -> Len(z.es) = 1
    [] z.verb = "import" -> z.es = <<X>>
    [] z.verb = "=" -> Len(z.vs) \in {1, Len(z.es)}
    [] OTHER -> TRUE
Keeps(r, z) == IF Grammatical(z) THEN r.ok /\ r.e = Meaning(z) ELSE ~r.ok

\* A statement keeps every expression written in it, in its place, and one with
\* a wrong number of expressions, or of values for "=", is refused.  (Not so the
\* values of "+=" and the expressions of an addition or a removal: see Sentences.)
StatementsReadBack ==
  Writable(tree, FALSE) => \A z \in Sentences : Keeps(ExprStatement(SentenceText(z)), z)
=============================================================================

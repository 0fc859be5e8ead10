------------------------------- MODULE Layout -------------------------------
(***************************************************************************)
(* The layout half of internal/lexer: how the physical lines of a program  *)
(* become a flat sequence of tokens in which INDENT and DEDENT stand for    *)
(* the indentation.  A line is a record [indent, kind]; the kind fixes the  *)
(* words lexIdentifier finds on it, one token for each that the statement   *)
(* parser tells apart (a whole condition or expression is part of the       *)
(* token it follows).  Every token carries the number of its line.          *)
(***************************************************************************)
EXTENDS Integers, Sequences, SequencesExt

Words ==
  [simple |-> <<"NAME">>, word |-> <<"WORD">>, pass |-> <<"PASS">>,
   input |-> <<"NAME", "INPUT">>, decor |-> <<"DECOR">>,
   if |-> <<"IF", "COLON">>, elif |-> <<"ELSE", "IF", "COLON">>,
   else |-> <<"ELSE", "COLON">>, loop |-> <<"LOOP", "COLON">>,
   def |-> <<"DEF", "COLON">>, sig |-> <<"DEF">>, ctor |-> <<"CTOR", "COLON">>,
   class |-> <<"CLASS", "COLON">>, interface |-> <<"INTERF", "COLON">>,
   try |-> <<"TRY", "COLON">>, except |-> <<"NAME", "INPUT", "COLON">>,
   bare |-> <<"INPUT", "COLON">>, finally |-> <<"FINALLY", "COLON">>]

\* Lines handleLineStart consumes without a token, whatever their indentation.
Silent == {"blank", "comment"}
Kinds == DOMAIN Words

Tok(t, i) == [t |-> t, line |-> i]
Copies(t, i, n) == [j \in 1..n |-> Tok(t, i)]

\* How many blocks a line leaves open: the first level, and all up to the last
\* that is not deeper.
StillOpen(indents, indent) ==
  CHOOSE n \in DOMAIN indents :
    /\ n = 1 \/ indents[n] <= indent
    /\ \A m \in DOMAIN indents : m > n => indents[m] > indent

\* Mutant: one token, however many blocks a line closes.
IndentedOnce(lx, i, indent) ==
  LET n == StillOpen(lx.indents, indent) IN
  IF indent > Last(lx.indents)
  THEN [lx EXCEPT !.indents = Append(@, indent), !.toks = Append(@, Tok("INDENT", i))]
  ELSE [lx EXCEPT !.indents = Append(SubSeq(@, 1, n - 1), indent),
                  !.toks = IF n < Len(lx.indents) THEN Append(@, Tok("DEDENT", i)) ELSE @]

\* emitIndents: a deeper line opens one block; a shallower one closes every
\* block deeper than it, and where it meets none of them the innermost open
\* level is moved to its indentation.  The first level is never closed.
Indented(lx, i, indent) ==
  LET n == StillOpen(lx.indents, indent) IN
  IF indent > Last(lx.indents)
  THEN [lx EXCEPT !.indents = Append(@, indent), !.toks = Append(@, Tok("INDENT", i))]
  ELSE [lx EXCEPT !.indents = Append(SubSeq(@, 1, n - 1), indent),
                  !.toks = @ \o Copies("DEDENT", i, Len(lx.indents) - n)]

\* run, one physical line: the layout tokens, the words, and the newline that
\* ends every line but an unterminated last one.
LexLine(lx, lines, i, ended) ==
  IF lines[i].kind \in Silent THEN lx
  ELSE LET in == Indented(lx, i, lines[i].indent)
           ws == Words[lines[i].kind]
       IN  [in EXCEPT !.toks = @ \o [j \in DOMAIN ws |-> Tok(ws[j], i)]
                                 \o (IF i = Len(lines) /\ ~ended THEN <<>>
                                     ELSE <<Tok("NEWLINE", i)>>)]

\* Lex: line after line, then the ends of the blocks still open.
Lex(lines, ended) ==
  LET lx[i \in 0 .. Len(lines)] ==
        IF i = 0 THEN [indents |-> <<0>>, toks |-> <<>>]
        ELSE LexLine(lx[i - 1], lines, i, ended)
      all == lx[Len(lines)]
      n == Len(lines) + 1
  IN  all.toks \o Copies("DEDENT", n, Len(all.indents) - 1) \o <<Tok("EOF", n)>>

\* The lexer's promise to the parser: blocks nest, none is closed that was not
\* opened, and all are closed at the end.
Count(toks, word, n) == Cardinality({k \in 1 .. n : toks[k].t = word})
Depth(toks, n) == Count(toks, "INDENT", n) - Count(toks, "DEDENT", n)
BlocksNest(toks) == (\A n \in DOMAIN toks : Depth(toks, n) >= 0) /\ Depth(toks, Len(toks)) = 0
=============================================================================

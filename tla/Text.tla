-------------------------------- MODULE Text --------------------------------
(***************************************************************************)
(* Somebody writes a text, line by line, with the kinds of lines of one     *)
(* family; the lexer of Layout reads it after every line.                   *)
(***************************************************************************)
EXTENDS Layout

CONSTANTS Families,   \* the sets of line kinds a text is written with
          Indents,    \* the indentations lines may have
          MaxLines    \* bound: lines of a text

ASSUME FamiliesAssumption == Families \subseteq SUBSET (Kinds \cup Silent)
ASSUME IndentsAssumption == Indents \subseteq Nat

VARIABLES family, lines

vars == <<family, lines>>

Init == family \in Families /\ lines = <<>>

Write(i, k) ==
  /\ Len(lines) < MaxLines
  /\ lines' = Append(lines, [indent |-> i, kind |-> k])
  /\ UNCHANGED family

Writing == \E i \in Indents, k \in family : Write(i, k)

\* Any text, whether a program or not.
TextSpec == Init /\ [][Writing]_vars

\* Whatever the indentation - also one that returns to a level no line had -
\* emitIndents and the end of run keep INDENT and DEDENT nested and balanced, so
\* no block can swallow the rest of a program.
LayoutNests == BlocksNest(Lex(lines, TRUE)) /\ BlocksNest(Lex(lines, FALSE))
=============================================================================

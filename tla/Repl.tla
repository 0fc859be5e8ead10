-------------------------------- MODULE Repl --------------------------------
(***************************************************************************)
(* The interactive loop of cmd/kolang: lines are collected in acc until     *)
(* the loop decides that they are an input, which it then evaluates.  The   *)
(* parser is that of Blocks.  taken remembers the last input that was       *)
(* consumed, what made it be consumed, and whether it was run.              *)
(***************************************************************************)
EXTENDS Naturals, Sequences, SequencesExt

CONSTANTS InputKinds,   \* the kinds of the lines that are typed
          InputIndents,
          MaxInput      \* bound: lines of one input

VARIABLES acc, taken, over

B == INSTANCE Blocks WITH Families <- {InputKinds}, Indents <- InputIndents,
                          MaxLines <- MaxInput, family <- InputKinds, lines <- acc

Typed == [indent : InputIndents, kind : InputKinds]

Init == acc = <<>> /\ taken = [input |-> <<>>, at |-> "start", ran |-> FALSE] /\ over = FALSE

\* needsMoreInput: the last line opens a block (brackets are inside the words).
needsMoreInput(ls) == Last(ls).kind \in B!Openers

\* runReplBuffer: the input, joined without a last newline, is parsed and run;
\* one that is refused waits for more lines unless it was forced or is complete.
Consumed(ls, force) == B!Program(ls, FALSE).ok \/ force \/ ~needsMoreInput(ls)
Take(ls, at) ==
  /\ acc' = <<>>
  /\ taken' = [input |-> ls, at |-> at, ran |-> B!Program(ls, FALSE).ok]

\* runRepl: a line of code, ...
ReadLine(l) ==
  /\ ~over /\ Len(acc) < MaxInput
  /\ IF Consumed(Append(acc, l), FALSE)
     THEN Take(Append(acc, l), "line")
     ELSE acc' = Append(acc, l) /\ UNCHANGED taken
  /\ UNCHANGED over

\* ... a blank line, ...
ReadBlank ==
  /\ ~over /\ acc # <<>>
  /\ Take(acc, "blank")
  /\ UNCHANGED over

\* ... the end of the input.
ReadEnd ==
  /\ ~over /\ over' = TRUE
  /\ IF acc = <<>> THEN UNCHANGED <<acc, taken>> ELSE Take(acc, "end")

Next == (\E l \in Typed : ReadLine(l)) \/ ReadBlank \/ ReadEnd
vars == <<acc, taken, over>>
Spec == Init /\ [][Next]_vars

\* What the comment on runRepl says: an input that opens a block is continued
\* until a blank line (or the end) submits it.
BlockWaits ==
  taken.input # <<>> /\ taken.ran /\ Head(taken.input).kind \in B!Openers
    => taken.at \in {"blank", "end"}
=============================================================================

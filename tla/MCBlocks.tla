------------------------------ MODULE MCBlocks ------------------------------
(***************************************************************************)
(* Programs of a few lines, written with one family of statements at a     *)
(* time: conditionals, exceptions, classes, and a mixture.                  *)
(***************************************************************************)
EXTENDS Blocks
MCFamilies == {{"if", "elif", "else", "simple"},
               {"try", "except", "bare", "finally", "input"},
               {"class", "def", "ctor", "decor", "pass", "input"},
               {"interface", "sig", "def", "decor", "simple"},
               {"loop", "if", "else", "word", "blank", "comment"}}
=============================================================================

----------------------------- MODULE MCNotation -----------------------------
(***************************************************************************)
(* Trees of any two nodes, and larger ones of nodes that compete for the   *)
(* same tokens: operators, negations and ternaries; members, calls and      *)
(* subscripts; ternaries, negations and comprehensions; unary operators and *)
(* powers.                                                                  *)
(***************************************************************************)
EXTENDS Notation
MCFamilies ==
  {[nodes |-> Inner, max |-> 2],
   [nodes |-> {"|>", "and", "==", "+", "*", "neg", "not", "recv", "ternary"}, max |-> 3],
   [nodes |-> {"attr", "method", "index", "call", "super", "recv"}, max |-> 3],
   [nodes |-> {"ternary", "not", "==", "listcomp", "gen", "yield"}, max |-> 3],
   [nodes |-> {"*", "neg", "not", "+"}, max |-> 4]}
=============================================================================

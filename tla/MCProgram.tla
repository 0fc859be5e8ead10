----------------------------- MODULE MCProgram -----------------------------
(* Instances of Program for TLC.                                           *)
EXTENDS Program

CONSTANTS main, g1, g2, n1, n2
=============================================================================

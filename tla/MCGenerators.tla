--------------------------- MODULE MCGenerators ----------------------------
(* Instances of Generators for TLC.                                        *)
EXTENDS Generators

CONSTANTS c1, c2
=============================================================================

----------------------------- MODULE MCScopes ------------------------------
(* Instances of Scopes for TLC.                                            *)
EXTENDS Scopes, TLC

CONSTANTS root, outer, inner, int, text, t1, t2

\* A function inside a function of the module.
MCParent == (outer :> root) @@ (inner :> outer)

\* The inner function is called in a go statement.
MCRunner == [s \in Scopes |-> IF s = inner THEN t2 ELSE t1]

\* Everything in one thread.
MCRunnerAlone == [s \in Scopes |-> t1]

MCTypes == {{int}}
=============================================================================

----------------------------- MODULE MCChannel -----------------------------
(* Instances of Channel for TLC.                                           *)
EXTENDS Channel

CONSTANTS g1, g2, g3, v1, v2

MCGoroutines == {g1, g2, g3}
MCValues == {v1, v2}

\* -1 is what a program may write and evalChannelLit takes as 0.
MCSizes == {-1, 2}
MCSizesLive == {0, 1}
=============================================================================

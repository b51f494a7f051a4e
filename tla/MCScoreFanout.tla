----------------------------- MODULE MCScoreFanout ----------------------------
(***************************************************************************)
(* Instances of ScoreFanout for TLC.                                       *)
(***************************************************************************)
EXTENDS ScoreFanout

CONSTANTS h1, k1, k2, r1
===============================================================================

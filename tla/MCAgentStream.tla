----------------------------- MODULE MCAgentStream ----------------------------
(***************************************************************************)
(* Instances of AgentStream for TLC.                                       *)
(***************************************************************************)
EXTENDS AgentStream

\* The tools the deterministic mode uses; the others differ from them in name only.
TwoTools    == {"forecast_supplier", "optimize_route"}
OneOrNone   == {"forecast_supplier", Unknown}
AllOutcomes == {"ok", "failed", "untold"}
===============================================================================

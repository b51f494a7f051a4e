--------------------------- MODULE MCCachedProxy ---------------------------
(***************************************************************************)
(* Instances of CachedProxy for TLC.                                       *)
(***************************************************************************)
EXTENDS CachedProxy, TLC

CONSTANTS route, supplier

Endpoints   == route :> "optimize" @@ supplier :> "forecast"
AllVerdicts == "optimize" :> {"good", "not found", "no routes", "raises"}
            @@ "forecast" :> {"good", "not found", "nan"}
\* Suppliers with months of history.
Healthy     == "optimize" :> {"good"} @@ "forecast" :> {"good"}
===============================================================================

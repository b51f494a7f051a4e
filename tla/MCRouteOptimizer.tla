-------------------------- MODULE MCRouteOptimizer --------------------------
(***************************************************************************)
(* Instances of RouteOptimizer for TLC: two hops by way of hub b, with two *)
(* parallel routes each, two by way of hub d, and a direct route: three    *)
(* paths once parallel routes are collapsed, so that K = 2 leaves one out. *)
(* The tables of the code are rounded to small integers that keep the      *)
(* order of the modes.                                                     *)
(***************************************************************************)
EXTENDS RouteOptimizer

CONSTANTS a, b, c, d, ab1, ab2, bc1, bc2, ac, ad, dc

Hops      == ab1 :> <<a, b>> @@ ab2 :> <<a, b>> @@ bc1 :> <<b, c>> @@ bc2 :> <<b, c>> @@ ac :> <<a, c>>
          @@ ad :> <<a, d>> @@ dc :> <<d, c>>
HopFrom   == [r \in Routes |-> Hops[r][1]]
HopTo     == [r \in Routes |-> Hops[r][2]]
Length    == [r \in Routes |-> IF r = ac THEN 2 ELSE 1]
ModeTable == "sea"  :> [co2 |-> 1,  cost |-> 5,   time |-> 40]
          @@ "rail" :> [co2 |-> 2,  cost |-> 8,   time |-> 12]
          @@ "road" :> [co2 |-> 6,  cost |-> 18,  time |-> 18]
          @@ "air"  :> [co2 |-> 60, cost |-> 120, time |-> 1]
\* Parallel routes are of different modes; which of the two has which does not matter.
SomeFleets == {f \in [Routes -> DOMAIN ModeTable] :
                 /\ ModeTable[f[ab1]].co2 < ModeTable[f[ab2]].co2
                 /\ ModeTable[f[bc1]].co2 < ModeTable[f[bc2]].co2
                 /\ f[ad] = "rail" /\ f[dc] = "rail" /\ f[ac] # "air"}
NoGnn     == {[r \in Routes |-> 1]}
Storm     == NoGnn \cup {[r \in Routes |-> IF r = ab1 THEN 3 ELSE 1]}
SomeRoutes == {Routes, Routes \ {ad}, Routes \ {bc1, bc2}, {ab1, ac}, {ab1, bc2}, {ab1, dc}, {}}
Call(x, y, k) == [origin |-> x, destination |-> y, topK |-> k,
                  weights |-> [co2 |-> 5, cost |-> 3, time |-> 2]]
SomeCalls == {Call(a, c, 1), Call(a, c, 2), Call(a, c, 3), Call(c, a, 1), Call(b, b, 1)}
============================================================================

--------------------------- MODULE MCStreamConsumer ---------------------------
(***************************************************************************)
(* Instances of StreamConsumer for TLC.                                    *)
(***************************************************************************)
EXTENDS StreamConsumer, TLC

CONSTANTS s1, s2, r1, position1, fuel1, fuel2

\* One ship on one route: one partition per topic.
SoloPartitions  == {position1, fuel1}
SoloRouteOf     == s1 :> r1
SoloTopicOf     == position1 :> "position" @@ fuel1 :> "fuel"
SoloPartitionOf == "position" :> (s1 :> position1) @@ "fuel" :> (s1 :> fuel1)

\* Two ships on one route whose keys hash to different partitions of shipment.fuel.
PairPartitions  == {position1, fuel1, fuel2}
PairRouteOf     == s1 :> r1 @@ s2 :> r1
PairTopicOf     == position1 :> "position" @@ fuel1 :> "fuel" @@ fuel2 :> "fuel"
PairPartitionOf == "position" :> (s1 :> position1 @@ s2 :> position1)
                     @@ "fuel" :> (s1 :> fuel1 @@ s2 :> fuel2)

\* Instances are interchangeable in the safety properties, and so are the ships of a pair,
\* each with its partition.
CONSTANTS b1, b2
Swapped      == s1 :> s2 @@ s2 :> s1 @@ fuel1 :> fuel2 @@ fuel2 :> fuel1
PairSymmetry == Permutations({b1, b2}) \cup {Swapped}
===============================================================================

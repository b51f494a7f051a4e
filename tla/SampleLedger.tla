----------------------------- MODULE SampleLedger -----------------------------
(***************************************************************************)
(* What the stream consumer promises about the samples of one route, with  *)
(* no windows, clocks, partitions, processes or tables: samples are        *)
(* gathered into batches; a batch is stored whole, or lost whole; what is  *)
(* stored stays; and no sample is gathered twice.                          *)
(***************************************************************************)
EXTENDS FiniteSets

CONSTANT Ids            \* the deliveries of fuel messages

VARIABLES
  batches,              \* the batches gathered and not yet stored
  stored                \* the samples stored

Init == batches = {} /\ stored = {}

Gathered == stored \cup UNION batches

\* A new sample starts a batch of its own or joins one.
Gather(id) ==
  /\ id \notin Gathered
  /\ \E b \in batches \cup {{}} : batches' = (batches \ {b}) \cup {b \cup {id}}
  /\ UNCHANGED stored

\* A batch becomes permanent.
Store(b) ==
  /\ batches' = batches \ {b}
  /\ stored' = stored \cup b

\* Batches are given up.
Lose(B) ==
  /\ batches' = batches \ B
  /\ UNCHANGED stored

Next ==
  \/ \E id \in Ids : Gather(id)
  \/ \E b \in batches : Store(b)
  \/ \E B \in SUBSET batches : Lose(B)

Spec == Init /\ [][Next]_<<batches, stored>>
===============================================================================

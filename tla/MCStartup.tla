------------------------------- MODULE MCStartup -------------------------------
(* Instances of Startup for TLC: not everything that can be started is, so that three or *)
(* four processes are under way at once and not six.                                      *)
EXTENDS Startup

CONSTANTS m1, m2, s1, s2

VARIABLE company     \* the processes there are

Companies == {{m1, m2, s1}, {m1, s1, s2}, {m1, s1, Backend, Simulator}}

Present ==
  /\ \A m \in Runners \ company : runner[m].at = "idle"
  /\ \A s \in Seeders \ company : seeder[s] # "looking"
  /\ Backend \notin company => consumer.at = "off"

MCInit == Init /\ company \in Companies
MCNext == Next /\ UNCHANGED company /\ Present'
MCSpec == MCInit /\ [][MCNext]_<<vars, company>> /\ Fairness

OneMoreForTheSimulator == [c \in Clients |-> IF c = Simulator THEN 2 ELSE 1]
================================================================================

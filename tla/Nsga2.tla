------------------------------- MODULE Nsga2 -------------------------------
(***************************************************************************)
(* services/ml-optimize/app/nsga2.py: Deb's fast non-dominated sort.       *)
(*                                                                         *)
(* The sort is a state machine: Compare is one turn of the outer loop, in  *)
(* which a candidate is compared with all those not yet compared, Peel one *)
(* turn of the while loop, Finish its end.  The code compares the          *)
(* candidates in the order of their indices; here the order is free, so    *)
(* that a population is a set.  Objective values are integers: the code's  *)
(* floats are only compared here.  The crowding distance of the same file  *)
(* is in RouteOptimizer, which calls it.                                   *)
(***************************************************************************)
EXTENDS Integers, Sequences, FiniteSets

VARIABLES
  objs,         \* the population: candidate |-> its values, all minimised
  todo,         \* the candidates the outer loop has not reached
  dominatedBy,  \* candidate |-> how many candidates dominate it, of those counted
  dominatedSet, \* candidate |-> the candidates it was found to dominate
  fronts,       \* the fronts, best first; the last one is being peeled
  sorted        \* has the sort returned

sortVars == <<objs, todo, dominatedBy, dominatedSet, fronts, sorted>>

Candidates == DOMAIN objs

\* The columns of the matrix.
Criteria == {"co2", "cost", "time"}

----------------------------------------------------------------------------
(* Dominance and the sort. *)

Dominates(a, b) ==
  /\ \A m \in Criteria : a[m] <= b[m]
  /\ \E m \in Criteria : a[m] < b[m]

\* The matrix of a population p, before the sort looks at it.
SortOf(p) ==
  /\ objs' = p
  /\ todo' = DOMAIN p
  /\ dominatedBy' = [c \in DOMAIN p |-> 0]
  /\ dominatedSet' = [c \in DOMAIN p |-> {}]
  /\ fronts' = <<{}>>
  /\ sorted' = FALSE

\* Faulty variant of Compare: the inner loop starts at the first candidate, not behind this one.
CompareAll(i) ==
  LET others  == Candidates \ {i}
      beaten  == {j \in others : Dominates(objs[i], objs[j])}
      beating == {j \in others : Dominates(objs[j], objs[i])}
      count   == [c \in Candidates |-> IF c \in beaten THEN dominatedBy[c] + 1
                                       ELSE IF c = i THEN dominatedBy[c] + Cardinality(beating)
                                       ELSE dominatedBy[c]]
  IN  /\ i \in todo
      /\ todo' = todo \ {i}
      /\ dominatedBy' = count
      /\ dominatedSet' = [dominatedSet EXCEPT ![i] = beaten]
      /\ fronts' = IF count[i] = 0 THEN <<fronts[1] \cup {i}>> ELSE fronts
      /\ UNCHANGED <<objs, sorted>>

\* One candidate against the rest; whoever is still undominated then joins the first front.
Compare(i) ==
  LET rest    == todo \ {i}
      beaten  == {j \in rest : Dominates(objs[i], objs[j])}
      beating == {j \in rest : Dominates(objs[j], objs[i])}
      count   == [c \in Candidates |-> IF c \in beaten THEN dominatedBy[c] + 1
                                       ELSE IF c = i THEN dominatedBy[c] + Cardinality(beating)
                                       ELSE dominatedBy[c]]
  IN  /\ i \in todo
      /\ todo' = rest
      /\ dominatedBy' = count
      /\ dominatedSet' = [c \in Candidates |->
                            dominatedSet[c] \cup (IF c = i THEN beaten ELSE {})
                                            \cup (IF c \in beating THEN {i} ELSE {})]
      /\ fronts' = IF count[i] = 0 THEN <<fronts[1] \cup {i}>> ELSE fronts
      /\ UNCHANGED <<objs, sorted>>

\* Faulty variant of Peel: a candidate counts down once a front, however many of it dominate it.
PeelOnce ==
  LET last == fronts[Len(fronts)]
      met  == UNION {dominatedSet[i] : i \in last}
      left == [c \in Candidates |-> IF c \in met THEN dominatedBy[c] - 1 ELSE dominatedBy[c]]
  IN  /\ todo = {} /\ ~sorted
      /\ last # {}
      /\ dominatedBy' = left
      /\ fronts' = Append(fronts, {c \in met : left[c] = 0})
      /\ UNCHANGED <<objs, todo, dominatedSet, sorted>>

\* Taking the last front away: whoever has no dominator left makes the next one.
Peel ==
  LET last == fronts[Len(fronts)]
      left == [c \in Candidates |->
                 dominatedBy[c] - Cardinality({i \in last : c \in dominatedSet[i]})]
  IN  /\ todo = {} /\ ~sorted
      /\ last # {}
      /\ dominatedBy' = left
      /\ fronts' = Append(fronts, {c \in UNION {dominatedSet[i] : i \in last} : left[c] = 0})
      /\ UNCHANGED <<objs, todo, dominatedSet, sorted>>

\* The empty front that ends the loop is dropped.
Finish ==
  /\ todo = {} /\ ~sorted
  /\ fronts[Len(fronts)] = {}
  /\ fronts' = SubSeq(fronts, 1, Len(fronts) - 1)
  /\ sorted' = TRUE
  /\ UNCHANGED <<objs, todo, dominatedBy, dominatedSet>>

SortStep == (\E i \in Candidates : Compare(i)) \/ Peel \/ Finish

----------------------------------------------------------------------------
(* Properties of the sort. *)

SortTypeOK ==
  /\ todo \subseteq Candidates
  /\ dominatedBy \in [Candidates -> 0..Cardinality(Candidates)]
  /\ dominatedSet \in [Candidates -> SUBSET Candidates]
  /\ fronts \in Seq(SUBSET Candidates)
  /\ sorted \in BOOLEAN

(* nsga2.py:20, "front 0 dominates 1, etc.": the fronts of a sorted        *)
(* population are its layers.  They share no candidate and leave none out, *)
(* nobody is dominated from its own front or a later one, and everybody    *)
(* behind the first front is dominated from the front just before.         *)
FrontsAreLayers ==
  sorted =>
    /\ UNION {fronts[f] : f \in DOMAIN fronts} = Candidates
    /\ \A f, g \in DOMAIN fronts : \A i \in fronts[f], j \in fronts[g] :
         /\ i = j => f = g
         /\ Dominates(objs[i], objs[j]) => f < g
    /\ \A f \in 2..Len(fronts) : \A j \in fronts[f] :
         \E i \in fronts[f - 1] : Dominates(objs[i], objs[j])
============================================================================

--------------------------- MODULE RouteOptimizer ---------------------------
(***************************************************************************)
(* services/ml-optimize: one call of POST /optimize/route.  The active     *)
(* routes make a multigraph of hubs; candidate paths are the K shortest by *)
(* each criterion and some mutations of them; the candidates are sorted    *)
(* into fronts (Nsga2) and the best TopK are answered.                     *)
(*                                                                         *)
(* Random choices of the code (parent, hop, parallel route) are free, and  *)
(* so is every order the code gets from a set, a dictionary or a query     *)
(* without ORDER BY.  Left out: the explanation's wording, the rounding of *)
(* the answered totals, and the model behind the multipliers.              *)
(***************************************************************************)
EXTENDS Nsga2, SequencesExt

CONSTANTS
  Hubs, Routes,       \* the rows of tables hubs and routes
  From, To, Distance, \* route |-> its hubs, its distance_km
  PerKm,              \* MODE_*_PER_KM: mode |-> criterion |-> value of a kilometre
  Fleets,             \* what the transport_mode of each route may be
  Adjustments,        \* what the GNN may multiply the CO2 of each route by
  Actives,            \* the sets of routes that may be active
  Requests,           \* [origin, destination, topK, weights]: the calls considered
  K,                  \* paths taken per criterion, 4 in the code
  MaxOffspring        \* mutations at most, 20 in the code

ASSUME OptimizerAssumption ==
  /\ K \in Nat \ {0} /\ MaxOffspring \in Nat
  /\ IsFiniteSet(Hubs) /\ IsFiniteSet(Routes) /\ Actives \subseteq SUBSET Routes
  /\ From \in [Routes -> Hubs] /\ To \in [Routes -> Hubs]
  /\ Distance \in [Routes -> Nat]
  /\ \A t \in DOMAIN PerKm : PerKm[t] \in [Criteria -> Nat]
  /\ Fleets \subseteq [Routes -> DOMAIN PerKm]
  /\ Adjustments \subseteq [Routes -> Nat \ {0}]
  /\ \A q \in Requests : q.topK \in Nat \ {0}

VARIABLES
  mode,        \* active route |-> its transport_mode
  multiplier,  \* route |-> what the GNN says of it
  request,     \* the call
  seeds,       \* criterion |-> the paths taken by it
  phase,       \* how far the call is
  answer       \* [status, chosen]: what it answered

optVars == <<mode, multiplier, request, seeds, phase, answer>>
vars == <<sortVars, optVars>>

----------------------------------------------------------------------------
(* The graph. *)

Active == DOMAIN mode
Nodes  == {From[r] : r \in Active} \cup {To[r] : r \in Active}

\* build_graph: the values of an edge.
EdgeMeta(r) ==
  [m \in Criteria |-> Distance[r] * PerKm[mode[r]][m] * (IF m = "co2" THEN multiplier[r] ELSE 1)]

PathObjectives(p) == [m \in Criteria |-> SumFunction([n \in DOMAIN p |-> EdgeMeta(p[n])[m]])]

\* The simple paths from hub a to hub b over the routes E; from a hub to itself, the empty one.
SimplePaths(E, a, b) ==
  {p \in SeqOf(E, Cardinality(Hubs) - 1) :
     LET stops == <<a>> \o [n \in DOMAIN p |-> To[p[n]]]
     IN  /\ \A n \in DOMAIN p : From[p[n]] = stops[n]
         /\ stops[Len(stops)] = b
         /\ Cardinality(ToSet(stops)) = Len(stops)}

\* The routes between the hubs of route r, in its direction.
Parallel(r) == {q \in Active : From[q] = From[r] /\ To[q] = To[r]}

\* Faulty variant of Collapsed: the comparison of the weights the other way round.
CollapsedHeaviest(m) ==
  {E \in SUBSET Active :
     \A r \in Active : \E q \in E : /\ E \cap Parallel(r) = {q}
                                    /\ \A s \in Parallel(r) : EdgeMeta(q)[m] >= EdgeMeta(s)[m]}

\* The digraphs _k_shortest_by may keep: of parallel routes one that is lightest by m.
Collapsed(m) ==
  {E \in SUBSET Active :
     \A r \in Active : \E q \in E : /\ E \cap Parallel(r) = {q}
                                    /\ \A s \in Parallel(r) : EdgeMeta(q)[m] <= EdgeMeta(s)[m]}

\* The K first of shortest_simple_paths by m; at most K, and none left out is shorter.
KShortestBy(m) ==
  UNION {LET P == SimplePaths(E, request.origin, request.destination)
         IN  {S \in SUBSET P :
                /\ Cardinality(S) = Min({K, Cardinality(P)})
                /\ \A p \in S, q \in P \ S : PathObjectives(p)[m] <= PathObjectives(q)[m]}
         : E \in Collapsed(m)}

\* A hop replaced by a parallel route, of whichever mode.
Mutations(p) ==
  UNION {{[p EXCEPT ![n] = q] : q \in Parallel(p[n]) \ {p[n]}} : n \in DOMAIN p}

----------------------------------------------------------------------------
(* Crowding and ranking.  A distance is a sum of fractions gap / spread; all *)
(* those of a front are multiplied by one Scale, so that they are integers.  *)

\* What sorted() may return: equal keys stand in any order.
SortedBy(S, key) ==
  {o \in SetToSeqs(S) : \A a, b \in DOMAIN o : a < b => key[o[a]] <= key[o[b]]}

Values(S, m) == {objs[c][m] : c \in S}
Spread(S, m) == Max(Values(S, m)) - Min(Values(S, m))

\* _normalize, crowding_distance: a criterion on which all agree is not divided by.
Divisor(S, m) == IF Spread(S, m) = 0 THEN 1 ELSE Spread(S, m)
Scale(S)      == Divisor(S, "co2") * Divisor(S, "cost") * Divisor(S, "time")
Infinite(S)   == 3 * Scale(S) + 1

\* What criterion m may add to the distances in front S: nothing when all agree on it,
\* else for the two ends infinity, and for the others the gap between the neighbours.
Parts(S, m) ==
  LET unit == Scale(S) \div Divisor(S, m)
      PartIn(o) == [c \in S |->
        LET n == CHOOSE k \in DOMAIN o : o[k] = c
        IN  IF n \in {1, Len(o)} THEN Infinite(S) ELSE unit * (objs[o[n + 1]][m] - objs[o[n - 1]][m])]
  IN  IF Spread(S, m) = 0 THEN {[c \in S |-> 0]}
      ELSE {PartIn(o) : o \in SortedBy(S, [c \in S |-> objs[c][m]])}

CrowdingDistance(S) ==
  IF Cardinality(S) <= 2
  THEN {[c \in S |-> Infinite(S)]}
  ELSE {[c \in S |-> Min({Infinite(S), x[c] + y[c] + z[c]})] :
          x \in Parts(S, "co2"), y \in Parts(S, "cost"), z \in Parts(S, "time")}

\* The orders a front S may be listed in: the less crowded first.
Orders(S) == UNION {SortedBy(S, [c \in S |-> -d[c]]) : d \in CrowdingDistance(S)}

\* Front S behind what is ranked already.
Behind(ranked, S) == {r \o o : r \in ranked, o \in Orders(S)}

\* Faulty variant of Rankings: the whole population by crowding, whatever the front.
RankingsByCrowding == Orders(Candidates)

\* nsga2_rank: front by front.
Rankings == FoldLeft(Behind, {<<>>}, fronts)

\* The weighted sum of the normalised values, times Scale.
Score(S, c) ==
  MapThenSumSet(LAMBDA m : request.weights[m] * (objs[c][m] - Min(Values(S, m)))
                             * (Scale(S) \div Divisor(S, m)), Criteria)

----------------------------------------------------------------------------
(* The call. *)

Init ==
  /\ \E active \in Actives, fleet \in Fleets : mode = [r \in active |-> fleet[r]]
  /\ multiplier \in Adjustments
  /\ request \in Requests
  /\ seeds = [m \in Criteria |-> {}]
  /\ phase = "called"
  /\ answer = [status |-> 0, chosen |-> <<>>]
  /\ objs = <<>> /\ todo = {} /\ dominatedBy = <<>> /\ dominatedSet = <<>>
  /\ fronts = <<>> /\ sorted = FALSE

Answer(status, chosen) ==
  /\ phase' = "answered"
  /\ answer' = [status |-> status, chosen |-> chosen]

\* No active route at all is 503; a hub on none of them is no path, 404.
Decline ==
  /\ phase = "called"
  /\ request.origin \notin Nodes \/ request.destination \notin Nodes
  /\ Answer(IF Active = {} THEN 503 ELSE 404, <<>>)
  /\ UNCHANGED <<sortVars, mode, multiplier, request, seeds>>

\* shortest_simple_paths is a generator: NetworkXNoPath is raised when it is first asked,
\* in islice, after the try that would catch it, and the call ends with 500.
NoPathRaised ==
  /\ phase = "called"
  /\ {request.origin, request.destination} \subseteq Nodes
  /\ SimplePaths(Active, request.origin, request.destination) = {}
  /\ Answer(500, <<>>)
  /\ UNCHANGED <<sortVars, mode, multiplier, request, seeds>>

Seed ==
  /\ phase = "called"
  /\ {request.origin, request.destination} \subseteq Nodes
  /\ SimplePaths(Active, request.origin, request.destination) # {}
  /\ \E a \in KShortestBy("co2"), b \in KShortestBy("cost"), t \in KShortestBy("time") :
       seeds' = [co2 |-> a, cost |-> b, time |-> t]
  /\ phase' = "seeded"
  /\ UNCHANGED <<sortVars, mode, multiplier, request, answer>>

Seeds     == seeds.co2 \cup seeds.cost \cup seeds.time
SeedCount == Cardinality(seeds.co2) + Cardinality(seeds.cost) + Cardinality(seeds.time)

\* One generation of mutations; equal paths are one candidate; then the sort begins.
\* A mutation that meets a hop without a parallel route returns its parent.
Evolve ==
  /\ phase = "seeded"
  /\ \E offspring \in SUBSET UNION {Mutations(p) : p \in Seeds} :
       /\ Cardinality(offspring) <= Min({MaxOffspring, 2 * SeedCount})
       /\ SortOf([p \in Seeds \cup offspring |-> PathObjectives(p)])
  /\ phase' = "sorting"
  /\ UNCHANGED <<mode, multiplier, request, seeds, answer>>

Sort ==
  /\ phase = "sorting"
  /\ SortStep
  /\ UNCHANGED optVars

\* Faulty variant of Choose: one solution too many.
ChooseOneMore ==
  /\ phase = "sorting" /\ sorted
  /\ LET top == fronts[1]
     IN  \E o \in IF Cardinality(top) > request.topK
                  THEN SortedBy(top, [c \in top |-> Score(top, c)])
                  ELSE Rankings :
           Answer(200, SubSeq(o, 1, Min({request.topK + 1, Len(o)})))
  /\ UNCHANGED <<sortVars, mode, multiplier, request, seeds>>

\* More candidates in the first front than asked for: the best of them by weighted sum.
\* Otherwise the best by rank, whatever front they are in.
Choose ==
  /\ phase = "sorting" /\ sorted
  /\ LET top == fronts[1]
     IN  \E o \in IF Cardinality(top) > request.topK
                  THEN SortedBy(top, [c \in top |-> Score(top, c)])
                  ELSE Rankings :
           Answer(200, SubSeq(o, 1, Min({request.topK, Len(o)})))
  /\ UNCHANGED <<sortVars, mode, multiplier, request, seeds>>

Next == Decline \/ NoPathRaised \/ Seed \/ Evolve \/ Sort \/ Choose

Spec == Init /\ [][Next]_vars

----------------------------------------------------------------------------
(* Properties. *)

TypeOK ==
  /\ SortTypeOK
  /\ Candidates \subseteq Seq(Active)
  /\ seeds \in [Criteria -> SUBSET Seq(Active)]
  /\ phase \in {"called", "seeded", "sorting", "answered"}
  /\ answer.status \in {0, 200, 404, 500, 503}
  /\ answer.chosen \in Seq(Candidates)

Chosen == ToSet(answer.chosen)
Paths  == SimplePaths(Active, request.origin, request.destination)

(* optimizer.py:157: there is a good answer exactly when a simple path     *)
(* over active routes joins the two hubs; it names different such paths,   *)
(* topK or fewer, and has no room for a path of a later front while one of *)
(* the first is left out.                                                  *)
AnswerSound ==
  phase = "answered" =>
    /\ answer.status = 200 <=> Paths # {} /\ {request.origin, request.destination} \subseteq Nodes
    /\ answer.status = 200 =>
         /\ Chosen \subseteq Paths
         /\ Cardinality(Chosen) = Len(answer.chosen)
         /\ Len(answer.chosen) <= request.topK
         /\ \/ fronts[1] \subseteq Chosen
            \/ Chosen \subseteq fronts[1] /\ Len(answer.chosen) = request.topK

(* optimizer.py:217-229: whichever way the best are chosen, no chosen path *)
(* is dominated by a candidate that was not.                               *)
NothingBetterLeftOut ==
  \A c \in Candidates \ Chosen, d \in Chosen : ~Dominates(objs[c], objs[d])

(* optimizer.py:163-166: collapsing parallel routes, taking K paths and    *)
(* sorting lose no optimum.  Unless the first front had to be cut, the     *)
(* answer has, for each criterion, a path that is best by it among all the *)
(* simple paths of the multigraph.                                         *)
OptimumOffered ==
  (answer.status = 200 /\ Cardinality(fronts[1]) <= request.topK) =>
     \A m \in Criteria : \E c \in Chosen : \A p \in Paths :
        PathObjectives(c)[m] <= PathObjectives(p)[m]
============================================================================

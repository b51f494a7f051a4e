-------------------------- MODULE RouteOptimizerProofs --------------------------
(***************************************************************************)
(* Theorems about RouteOptimizer and the sort it calls (Nsga2), for any    *)
(* hubs, routes, fleets, multipliers and requests.  The values of a path   *)
(* are sums, that is, folds; what they need of induction over a set is had *)
(* from the minimal member of the family of the subsets that fail.         *)
(***************************************************************************)
EXTENDS RouteOptimizer, FiniteSetTheorems, TLAPS

-------------------------------------------------------------------------------
\* Minimal members.

LEMMA LeastNumber ==
  ASSUME NEW T \in SUBSET Nat, T # {}
  PROVE  \E n \in T : \A k \in T : n <= k
<1>1. PICK n \in T : \A k \in T : <<k, n>> \notin OpToRel(<, Nat)
  BY NatLessThanWellFounded, WFMin
<1>2. ASSUME NEW k \in T, k < n PROVE FALSE
  <2>1. <<k, n>> \in Nat \X Nat
    OBVIOUS
  <2>2. <<k, n>> \in OpToRel(<, Nat)
    BY <1>2, <2>1 DEF OpToRel
  <2> QED
    BY <1>1, <2>2
<1> QED
  BY <1>2

LEMMA MinimalMember ==
  ASSUME NEW S, IsFiniteSet(S), NEW F \in SUBSET SUBSET S, F # {}
  PROVE  \E A \in F : \A B \in F : B \subseteq A => B = A
<1>1. IsWellFoundedOn(StrictSubsetOrdering(S), FiniteSubsetsOf(S))
  BY FS_StrictSubsetOrderingWellFounded
<1>2. FiniteSubsetsOf(S) = SUBSET S
  BY FS_FiniteSubsetsOfFinite
<1>3. PICK A \in F : \A B \in F : <<B, A>> \notin StrictSubsetOrdering(S)
  BY <1>1, <1>2, WFMin
<1> QED
  BY <1>3 DEF StrictSubsetOrdering

-------------------------------------------------------------------------------
\* Folds over a finite set.  They are defined by a recursive function on the subsets; that there
\* is one is a lemma, since a CHOOSE says nothing otherwise.

LEMMA SmallerSubset ==
  ASSUME NEW S, IsFiniteSet(S), NEW s \in SUBSET S
  PROVE  /\ Cardinality(s) \in Nat /\ (s = {} <=> Cardinality(s) = 0)
         /\ \A x \in s : s \ {x} \in SUBSET S /\ Cardinality(s \ {x}) = Cardinality(s) - 1
<1>1. IsFiniteSet(s) /\ Cardinality(s) \in Nat
  BY FS_Subset, FS_CardinalityType
<1> QED
  BY <1>1, FS_EmptySet, FS_RemoveElement

\* g[s] is base folded with the members of s by step, in the order in which pick picks them.
FoldOf(S, pick, base, step, g) ==
  /\ g[{}] = base
  /\ \A s \in SUBSET S : s # {} => g[s] = step[<<pick[s], g[s \ {pick[s]}]>>]

\* The folds of the subsets of n + 1 elements are had from those of n.
LEMMA FoldsExist ==
  ASSUME NEW S, IsFiniteSet(S), NEW pick, \A s \in SUBSET S : s # {} => pick[s] \in s,
         NEW V, NEW base \in V, NEW step \in [S \X V -> V]
  PROVE  \E g \in [SUBSET S -> V] : FoldOf(S, pick, base, step, g)
<1> DEFINE Upto(n) == {s \in SUBSET S : Cardinality(s) <= n}
           Good(n, g) ==
             /\ g \in [Upto(n) -> V]
             /\ g = [s \in Upto(n) |-> IF s = {} THEN base
                                       ELSE step[<<pick[s], g[s \ {pick[s]}]>>]]
           Bad == {n \in Nat : ~ \E g : Good(n, g)}
<1>1. ASSUME NEW n \in Nat, NEW s
      PROVE  s \in Upto(n) <=> s \in SUBSET S /\ Cardinality(s) <= n
  OBVIOUS
<1> HIDE DEF Upto
<1>2. Good(0, [s \in Upto(0) |-> base])
  BY <1>1, SmallerSubset
<1>3. ASSUME NEW n \in Nat, NEW g, Good(n, g) PROVE \E f : Good(n + 1, f)
  <2> DEFINE f == [s \in Upto(n + 1) |-> IF s = {} THEN base
                                         ELSE step[<<pick[s], g[s \ {pick[s]}]>>]]
  <2>1. ASSUME NEW s \in Upto(n) PROVE f[s] = g[s]
    <3>1. s \in SUBSET S /\ Cardinality(s) \in Nat /\ Cardinality(s) <= n
      BY <1>1, SmallerSubset
    <3>2. s \in Upto(n + 1)
      BY <1>1, <3>1
    <3>3. g[s] = IF s = {} THEN base ELSE step[<<pick[s], g[s \ {pick[s]}]>>]
      BY <1>3, <2>1
    <3> QED
      BY <3>2, <3>3
  <2>2. ASSUME NEW s \in Upto(n + 1), s # {}
        PROVE  /\ pick[s] \in S /\ s \ {pick[s]} \in Upto(n)
               /\ f[s \ {pick[s]}] = g[s \ {pick[s]}]
    <3>1. pick[s] \in s /\ s \in SUBSET S
      BY <1>1, <2>2
    <3>2. s \ {pick[s]} \in Upto(n)
      BY <1>1, <2>2, <3>1, SmallerSubset
    <3> QED
      BY <2>1, <3>1, <3>2
  <2>3. f = [s \in Upto(n + 1) |-> IF s = {} THEN base
                                   ELSE step[<<pick[s], f[s \ {pick[s]}]>>]]
    BY <2>2
  <2>4. ASSUME NEW s \in Upto(n + 1) PROVE f[s] \in V
    BY <1>3, <2>2
  <2> QED
    BY <2>3, <2>4
<1> HIDE DEF Good
<1>4. ASSUME Bad # {} PROVE FALSE
  <2>1. PICK n \in Bad : \A k \in Bad : n <= k
    BY <1>4, LeastNumber
  <2>2. n # 0
    BY <1>2, <2>1
  <2>3. n \in Nat /\ n - 1 \in Nat /\ n - 1 \notin Bad
    BY <2>1, <2>2
  <2>4. \E f : Good(n - 1 + 1, f)
    BY <1>3, <2>3
  <2>5. n - 1 + 1 = n
    BY <2>3
  <2> QED
    BY <2>1, <2>4, <2>5
<1>5. Cardinality(S) \in Nat /\ Upto(Cardinality(S)) = SUBSET S
  BY FS_CardinalityType, FS_Subset, <1>1
<1>6. PICK g : Good(Cardinality(S), g)
  BY <1>4, <1>5
<1> QED
  BY <1>5, <1>6 DEF Good, FoldOf

-------------------------------------------------------------------------------
\* Sums.

First(s) == CHOOSE x \in s : TRUE

\* g[s] is the sum of h over s, for the subsets s of S.
Sums(h, S, g) ==
  g = [s \in SUBSET S |-> IF s = {} THEN 0 ELSE h[First(s)] + g[s \ {First(s)}]]

LEMMA SumsExist ==
  ASSUME NEW S, IsFiniteSet(S), NEW h, \A x \in S : h[x] \in Nat
  PROVE  \E g : Sums(h, S, g)
<1> DEFINE pick == [s \in SUBSET S |-> First(s)]
           step == [xy \in S \X Nat |-> h[xy[1]] + xy[2]]
<1>1. \A s \in SUBSET S : s # {} => pick[s] \in s
  BY DEF First
<1>2. step \in [S \X Nat -> Nat]
  OBVIOUS
<1>3. PICK g \in [SUBSET S -> Nat] : FoldOf(S, pick, 0, step, g)
  <2> HIDE DEF pick, step
  <2>1. 0 \in Nat
    OBVIOUS
  <2> QED
    BY <1>1, <1>2, <2>1, FoldsExist
<1>4. ASSUME NEW s \in SUBSET S, s # {}
      PROVE  step[<<pick[s], g[s \ {pick[s]}]>>] = h[First(s)] + g[s \ {First(s)}]
  BY <1>1, <1>3, <1>4
<1> HIDE DEF step, pick
<1>5. Sums(h, S, g)
  BY <1>3, <1>4 DEF Sums, FoldOf
<1> QED
  BY <1>5

\* A sum of naturals is a natural: a minimal subset with another sum cannot be.
LEMMA SumsNatural ==
  ASSUME NEW S, IsFiniteSet(S), NEW h, \A x \in S : h[x] \in Nat, NEW g, Sums(h, S, g)
  PROVE  g[S] \in Nat
<1> DEFINE Bad == {s \in SUBSET S : g[s] \notin Nat}
<1>1. ASSUME Bad # {} PROVE FALSE
  <2>1. PICK s \in Bad : \A t \in Bad : t \subseteq s => t = s
    <3>1. Bad \in SUBSET SUBSET S
      OBVIOUS
    <3> HIDE DEF Bad
    <3> QED
      BY <1>1, <3>1, MinimalMember
  <2>2. g[s] = IF s = {} THEN 0 ELSE h[First(s)] + g[s \ {First(s)}]
    BY <2>1 DEF Sums
  <2>3. s # {} /\ First(s) \in s /\ s \ {First(s)} \in SUBSET S
    BY <2>1, <2>2 DEF First
  <2>4. g[s \ {First(s)}] \in Nat
    BY <2>1, <2>3
  <2> QED
    BY <2>1, <2>2, <2>3, <2>4
<1> QED
  BY <1>1

LEMMA SumsMonotone ==
  ASSUME NEW S, IsFiniteSet(S), NEW h, NEW l,
         \A x \in S : h[x] \in Nat /\ l[x] \in Nat /\ l[x] <= h[x],
         NEW g, Sums(h, S, g), NEW f, Sums(l, S, f)
  PROVE  f[S] <= g[S]
<1> DEFINE Bad == {s \in SUBSET S : ~(f[s] \in Nat /\ g[s] \in Nat /\ f[s] <= g[s])}
<1>1. ASSUME Bad # {} PROVE FALSE
  <2>1. PICK s \in Bad : \A t \in Bad : t \subseteq s => t = s
    <3>1. Bad \in SUBSET SUBSET S
      OBVIOUS
    <3> HIDE DEF Bad
    <3> QED
      BY <1>1, <3>1, MinimalMember
  <2>2. /\ g[s] = IF s = {} THEN 0 ELSE h[First(s)] + g[s \ {First(s)}]
        /\ f[s] = IF s = {} THEN 0 ELSE l[First(s)] + f[s \ {First(s)}]
    BY <2>1 DEF Sums
  <2>3. s # {} /\ First(s) \in s /\ s \ {First(s)} \in SUBSET S
    BY <2>1, <2>2 DEF First
  <2> DEFINE t == s \ {First(s)}
  <2>4. f[t] \in Nat /\ g[t] \in Nat /\ f[t] <= g[t]
    BY <2>1, <2>3
  <2>5. /\ h[First(s)] \in Nat /\ l[First(s)] \in Nat /\ l[First(s)] <= h[First(s)]
    BY <2>1, <2>3
  <2> HIDE DEF t
  <2>6. g[s] = h[First(s)] + g[t] /\ f[s] = l[First(s)] + f[t]
    BY <2>2, <2>3 DEF t
  <2>7. f[s] \in Nat /\ g[s] \in Nat /\ f[s] <= g[s]
    BY <2>4, <2>5, <2>6
  <2> QED
    BY <2>1, <2>7
<1> QED
  BY <1>1

\* The sum that the community modules define.

LEMMA SumIs ==
  ASSUME NEW h
  PROVE  SumFunction(h) =
           (CHOOSE g : g = [s \in SUBSET DOMAIN h |-> IF s = {} THEN 0
              ELSE h[CHOOSE x \in s : TRUE] + g[s \ {CHOOSE x \in s : TRUE}]])[DOMAIN h]
  BY Zenon DEF SumFunction, SumFunctionOnSet, FoldFunctionOnSet, MapThenFoldSet

LEMMA SumIsSums ==
  ASSUME NEW h, IsFiniteSet(DOMAIN h), \A x \in DOMAIN h : h[x] \in Nat
  PROVE  \E g : Sums(h, DOMAIN h, g) /\ SumFunction(h) = g[DOMAIN h]
<1> DEFINE sum == CHOOSE g : Sums(h, DOMAIN h, g)
<1>1. SumFunction(h) = sum[DOMAIN h]
  BY SumIs DEF Sums, First
<1>2. Sums(h, DOMAIN h, sum)
  BY SumsExist
<1> HIDE DEF sum
<1> QED
  BY <1>1, <1>2

LEMMA SumNatural ==
  ASSUME NEW h, IsFiniteSet(DOMAIN h), \A x \in DOMAIN h : h[x] \in Nat
  PROVE  SumFunction(h) \in Nat
  BY SumIsSums, SumsNatural

LEMMA SumMonotone ==
  ASSUME NEW h, IsFiniteSet(DOMAIN h), NEW l, DOMAIN l = DOMAIN h,
         \A x \in DOMAIN h : h[x] \in Nat /\ l[x] \in Nat /\ l[x] <= h[x]
  PROVE  SumFunction(l) <= SumFunction(h)
<1>1. PICK g : Sums(h, DOMAIN h, g) /\ SumFunction(h) = g[DOMAIN h]
  BY SumIsSums
<1>2. PICK f : Sums(l, DOMAIN h, f) /\ SumFunction(l) = f[DOMAIN h]
  BY SumIsSums
<1> QED
  BY <1>1, <1>2, SumsMonotone

\* The values of a path.

LEMMA EdgeTyped ==
  ASSUME mode \in [Active -> DOMAIN PerKm], Active \subseteq Routes,
         multiplier \in [Routes -> Nat \ {0}], NEW r \in Active, NEW m \in Criteria
  PROVE  EdgeMeta(r)[m] \in Nat
<1>1. /\ Distance[r] \in Nat /\ PerKm[mode[r]][m] \in Nat
      /\ (IF m = "co2" THEN multiplier[r] ELSE 1) \in Nat
  BY OptimizerAssumption
<1>2. \A x, y, z \in Nat : x * y * z \in Nat
  OBVIOUS
<1> QED
  BY <1>1, <1>2 DEF EdgeMeta

\* What the hops of path p cost by criterion m.
Hops(p, m) == [n \in DOMAIN p |-> EdgeMeta(p[n])[m]]

LEMMA HopsTyped ==
  ASSUME mode \in [Active -> DOMAIN PerKm], Active \subseteq Routes,
         multiplier \in [Routes -> Nat \ {0}], NEW p \in Seq(Active), NEW m \in Criteria
  PROVE  /\ PathObjectives(p)[m] = SumFunction(Hops(p, m))
         /\ DOMAIN Hops(p, m) = DOMAIN p /\ IsFiniteSet(DOMAIN p)
         /\ \A n \in DOMAIN p : Hops(p, m)[n] \in Nat
<1>1. DOMAIN p = 1..Len(p) /\ Len(p) \in Nat
  OBVIOUS
<1>2. IsFiniteSet(DOMAIN p)
  BY <1>1, FS_Interval
<1>3. \A n \in DOMAIN p : Hops(p, m)[n] \in Nat
  BY EdgeTyped DEF Hops
<1>4. PathObjectives(p)[m] = SumFunction(Hops(p, m))
  BY DEF PathObjectives, Hops
<1> QED
  BY <1>2, <1>3, <1>4 DEF Hops

LEMMA PathTyped ==
  ASSUME mode \in [Active -> DOMAIN PerKm], Active \subseteq Routes,
         multiplier \in [Routes -> Nat \ {0}], NEW p \in Seq(Active)
  PROVE  PathObjectives(p) \in [Criteria -> Nat]
<1>1. ASSUME NEW m \in Criteria PROVE PathObjectives(p)[m] \in Nat
  BY HopsTyped, SumNatural
<1>2. /\ DOMAIN PathObjectives(p) = Criteria
      /\ PathObjectives(p) = [m \in Criteria |-> PathObjectives(p)[m]]
  BY DEF PathObjectives
<1> QED
  BY <1>1, <1>2

\* A path is as light as another if each of its hops is.
LEMMA LighterHops ==
  ASSUME mode \in [Active -> DOMAIN PerKm], Active \subseteq Routes,
         multiplier \in [Routes -> Nat \ {0}], NEW p \in Seq(Active), NEW q \in Seq(Active),
         DOMAIN q = DOMAIN p, NEW m \in Criteria,
         \A n \in DOMAIN p : EdgeMeta(q[n])[m] <= EdgeMeta(p[n])[m]
  PROVE  PathObjectives(q)[m] <= PathObjectives(p)[m]
<1>1. \A n \in DOMAIN p : Hops(q, m)[n] <= Hops(p, m)[n]
  BY DEF Hops
<1> QED
  BY <1>1, HopsTyped, SumMonotone

-------------------------------------------------------------------------------
\* The sort.

Vector == [Criteria -> Nat]

Beats(i, j) == Dominates(objs[i], objs[j])
\* Two candidates have been compared when the outer loop has reached one of them.
Met(i, j) == i \notin todo \/ j \notin todo

\* The candidates of the fronts before front f, and what front f has to be: those left whom
\* nobody left dominates.
Ahead(f) == {c \in Candidates : \E g \in 1..(f - 1) : c \in fronts[g]}
Layer(f) == {c \in Candidates \ Ahead(f) : \A i \in Candidates : Beats(i, c) => i \in Ahead(f)}

\* Those counted in dominatedBy[c]: the fronts before the last one have been taken off.
Counted(c) == {i \in Candidates \ Ahead(Len(fronts)) : Beats(i, c) /\ Met(i, c)}
Found(c) == {j \in Candidates : Beats(c, j) /\ Met(c, j)}

Population == objs \in [Candidates -> Vector] /\ IsFiniteSet(Candidates)
Layered ==
  /\ fronts \in Seq(SUBSET Candidates)
  /\ \A f \in DOMAIN fronts : fronts[f] = Layer(f) \ todo

SortInv ==
  /\ Population /\ Layered
  /\ todo \subseteq Candidates /\ sorted \in BOOLEAN
  /\ dominatedBy \in [Candidates -> 0..Cardinality(Candidates)]
  /\ dominatedSet = [c \in Candidates |-> Found(c)]
  /\ ~sorted => /\ Len(fronts) > 0
                /\ \A c \in Candidates : dominatedBy[c] = Cardinality(Counted(c))
  /\ todo # {} => Len(fronts) = 1 /\ ~sorted
  /\ sorted => Ahead(Len(fronts) + 1) = Candidates

\* Dominance is a strict order.
LEMMA DominanceIsStrict ==
  ASSUME NEW a \in Vector
  PROVE  /\ ~Dominates(a, a)
         /\ \A b, c \in Vector : Dominates(a, b) /\ Dominates(b, c) => Dominates(a, c)
<1>1. ~Dominates(a, a)
  BY DEF Dominates, Vector
<1>2. ASSUME NEW b \in Vector, NEW c \in Vector, Dominates(a, b), Dominates(b, c)
      PROVE  Dominates(a, c)
  <2>1. ASSUME NEW m \in Criteria
        PROVE  /\ a[m] \in Nat /\ b[m] \in Nat /\ c[m] \in Nat
               /\ a[m] <= b[m] /\ b[m] <= c[m]
    BY <1>2 DEF Dominates, Vector
  <2>2. PICK m \in Criteria : a[m] < b[m]
    BY <1>2 DEF Dominates
  <2>3. \A k \in Criteria : a[k] <= c[k]
    BY <2>1
  <2>4. a[m] < c[m]
    BY <2>1, <2>2
  <2> QED
    BY <2>3, <2>4 DEF Dominates
<1> QED
  BY <1>1, <1>2

LEMMA BeatsIsStrict ==
  ASSUME Population, NEW i \in Candidates, NEW j \in Candidates, NEW k \in Candidates
  PROVE  ~Beats(i, i) /\ (Beats(i, j) /\ Beats(j, k) => Beats(i, k))
  BY DominanceIsStrict DEF Population, Beats

\* Among some candidates there is one whom none of them dominates: one with the fewest of them
\* before it.
LEMMA SomeoneUnbeaten ==
  ASSUME Population, NEW T \in SUBSET Candidates, T # {}
  PROVE  \E c \in T : \A i \in T : ~Beats(i, c)
<1> DEFINE Before(c) == {i \in T : Beats(i, c)}
           F == {Before(c) : c \in T}
<1>1. F \in SUBSET SUBSET Candidates /\ F # {} /\ IsFiniteSet(Candidates)
  BY DEF Population
<1>2. PICK A \in F : \A B \in F : B \subseteq A => B = A
  <2> HIDE DEF F
  <2> QED
    BY <1>1, MinimalMember
<1>3. PICK c \in T : A = Before(c)
  BY <1>2
<1>4. ASSUME NEW i \in T, Beats(i, c) PROVE FALSE
  <2>1. Before(i) \subseteq Before(c)
    BY <1>4, BeatsIsStrict
  <2>2. i \in Before(c) /\ i \notin Before(i)
    BY <1>4, BeatsIsStrict
  <2> QED
    BY <1>2, <1>3, <2>1, <2>2
<1> QED
  BY <1>4

\* The fronts of a sorted population are its layers.
LEMMA SortInvImplies == SortInv => FrontsAreLayers
<1> SUFFICES ASSUME SortInv, sorted PROVE FrontsAreLayers
  BY DEF FrontsAreLayers
<1>1. /\ fronts \in Seq(SUBSET Candidates) /\ todo = {} /\ Len(fronts) \in Nat
      /\ DOMAIN fronts = 1..Len(fronts)
  BY DEF SortInv, Layered
<1>2. ASSUME NEW f \in DOMAIN fronts
      PROVE  /\ fronts[f] \subseteq Candidates /\ fronts[f] = Layer(f)
             /\ fronts[f] \cap Ahead(f) = {}
             /\ \A g \in DOMAIN fronts : f < g => fronts[f] \subseteq Ahead(g)
  <2>1. fronts[f] = Layer(f) /\ fronts[f] \subseteq Candidates
    BY <1>1 DEF SortInv, Layered
  <2>2. fronts[f] \cap Ahead(f) = {}
    BY <2>1 DEF Layer
  <2>3. ASSUME NEW g \in DOMAIN fronts, f < g PROVE fronts[f] \subseteq Ahead(g)
    <3>1. f \in 1..(g - 1)
      BY <1>1, <2>3
    <3> QED
      BY <2>1, <3>1 DEF Ahead
  <2> QED
    BY <2>1, <2>2, <2>3
<1>3. UNION {fronts[f] : f \in DOMAIN fronts} = Candidates
  <2>1. Ahead(Len(fronts) + 1) \subseteq UNION {fronts[f] : f \in DOMAIN fronts}
    BY <1>1 DEF Ahead
  <2> QED
    BY <1>2, <2>1 DEF SortInv
<1>4. ASSUME NEW f \in DOMAIN fronts, NEW g \in DOMAIN fronts, NEW i \in fronts[f],
             i \in fronts[g]
      PROVE  f = g
  BY <1>1, <1>2, <1>4
<1>5. ASSUME NEW f \in DOMAIN fronts, NEW g \in DOMAIN fronts, NEW i \in fronts[f],
             NEW j \in fronts[g], Beats(i, j)
      PROVE  f < g
  <2>1. i \in Ahead(g)
    BY <1>2, <1>5 DEF Layer
  <2>2. PICK h \in 1..(g - 1) : i \in fronts[h]
    BY <2>1 DEF Ahead
  <2>3. h \in DOMAIN fronts /\ h < g
    BY <1>1, <2>2
  <2>4. f = h
    BY <1>4, <2>2, <2>3
  <2> QED
    BY <2>3, <2>4
<1>6. ASSUME NEW f \in 2..Len(fronts), NEW j \in fronts[f]
      PROVE  \E i \in fronts[f - 1] : Beats(i, j)
  <2>1. f \in DOMAIN fronts /\ f - 1 \in DOMAIN fronts
    BY <1>1
  <2>2. j \in Candidates /\ j \notin fronts[f - 1] /\ j \notin Ahead(f - 1)
    <3>1. j \in Layer(f) /\ j \notin Ahead(f)
      BY <1>2, <2>1
    <3> QED
      BY <1>1, <2>1, <3>1 DEF Layer, Ahead
  <2>3. PICK i \in Candidates : Beats(i, j) /\ i \notin Ahead(f - 1)
    BY <1>2, <2>1, <2>2 DEF Layer
  <2>4. i \in Ahead(f)
    BY <1>2, <2>1, <2>3 DEF Layer
  <2>5. i \in fronts[f - 1]
    BY <1>1, <2>1, <2>3, <2>4 DEF Ahead
  <2> QED
    BY <2>3, <2>5
<1> QED
  BY <1>3, <1>4, <1>5, <1>6 DEF FrontsAreLayers, Beats

\* A population that nothing is known of yet.
LEMMA SortOfStarts ==
  ASSUME NEW p, p \in [DOMAIN p -> Vector], IsFiniteSet(DOMAIN p), SortOf(p)
  PROVE  SortInv'
<1>1. /\ Candidates' = DOMAIN p /\ todo' = Candidates' /\ fronts' = <<{}>> /\ sorted' = FALSE
      /\ objs' = p
  BY DEF SortOf, Candidates
<1>2. Population'
  BY <1>1 DEF Population
<1>3. Len(fronts') = 1 /\ DOMAIN fronts' = {1} /\ fronts'[1] = {}
  BY <1>1
<1>4. Layered'
  <2>1. fronts' \in Seq(SUBSET Candidates')
    BY <1>1
  <2>2. Layer(1)' \subseteq todo'
    BY <1>1 DEF Layer
  <2> QED
    BY <1>3, <2>1, <2>2 DEF Layered
<1>5. ASSUME NEW c \in Candidates' PROVE Counted(c)' = {} /\ Found(c)' = {}
  BY <1>1 DEF Counted, Found, Met
<1>6. /\ dominatedBy' \in [Candidates' -> 0..Cardinality(Candidates')]
      /\ \A c \in Candidates' : dominatedBy'[c] = 0
  <2>1. Cardinality(Candidates') \in Nat
    BY <1>1, FS_CardinalityType
  <2> QED
    BY <1>1, <2>1 DEF SortOf
<1>7. dominatedSet' = [c \in Candidates' |-> Found(c)']
  BY <1>1, <1>5 DEF SortOf
<1>8. \A c \in Candidates' : dominatedBy'[c] = Cardinality(Counted(c)')
  BY <1>5, <1>6, FS_EmptySet
<1>9. todo' \subseteq Candidates' /\ sorted' \in BOOLEAN /\ ~sorted'
  BY <1>1, Zenon
<1>10. Len(fronts') = 1 /\ Len(fronts') > 0
  <2>1. Len(fronts') = 1
    BY <1>3
  <2> QED
    BY <2>1
<1> QED
  BY <1>2, <1>4, <1>6, <1>7, <1>8, <1>9, <1>10 DEF SortInv

\* What is counted is some of the candidates.
LEMMA CountedFinite ==
  ASSUME Population, NEW T \in SUBSET Candidates
  PROVE  /\ IsFiniteSet(T) /\ (Cardinality(T) = 0 <=> T = {})
         /\ Cardinality(T) \in Nat /\ Cardinality(T) \in 0..Cardinality(Candidates)
<1>1. IsFiniteSet(Candidates)
  BY DEF Population
<1>2. IsFiniteSet(T) /\ Cardinality(T) <= Cardinality(Candidates)
  BY <1>1, FS_Subset
<1>3. Cardinality(T) \in Nat /\ Cardinality(Candidates) \in Nat
  BY <1>1, <1>2, FS_CardinalityType
<1> QED
  BY <1>2, <1>3, FS_EmptySet

LEMMA CountsTyped ==
  ASSUME Population, NEW d, DOMAIN d = Candidates, d = [c \in Candidates |-> d[c]],
         \A c \in Candidates : \E T \in SUBSET Candidates : d[c] = Cardinality(T)
  PROVE  d \in [Candidates -> 0..Cardinality(Candidates)]
<1>1. \A c \in Candidates : d[c] \in 0..Cardinality(Candidates)
  BY CountedFinite
<1> QED
  BY <1>1

LEMMA CompareKeeps ==
  ASSUME SortInv, NEW i \in Candidates, Compare(i)
  PROVE  SortInv'
<1> DEFINE rest == todo \ {i}
           beaten == {j \in rest : Dominates(objs[i], objs[j])}
           beating == {j \in rest : Dominates(objs[j], objs[i])}
           count == [c \in Candidates |-> IF c \in beaten THEN dominatedBy[c] + 1
                       ELSE IF c = i THEN dominatedBy[c] + Cardinality(beating)
                       ELSE dominatedBy[c]]
<1>1. /\ i \in todo /\ todo' = rest /\ dominatedBy' = count /\ objs' = objs /\ sorted' = sorted
      /\ dominatedSet' = [c \in Candidates |->
                            dominatedSet[c] \cup (IF c = i THEN beaten ELSE {})
                                            \cup (IF c \in beating THEN {i} ELSE {})]
      /\ fronts' = IF count[i] = 0 THEN <<fronts[1] \cup {i}>> ELSE fronts
  BY DEF Compare
<1>2. Candidates' = Candidates /\ \A j, c : Beats(j, c)' = Beats(j, c)
  BY <1>1 DEF Candidates, Beats
<1>3. /\ Len(fronts) = 1 /\ ~sorted /\ todo \subseteq Candidates /\ Population
      /\ fronts \in Seq(SUBSET Candidates) /\ fronts[1] = Layer(1) \ todo
  BY <1>1 DEF SortInv, Layered
<1>4. fronts'[1] = (IF count[i] = 0 THEN fronts[1] \cup {i} ELSE fronts[1])
      /\ Len(fronts') = 1 /\ fronts' \in Seq(SUBSET Candidates)
  <2>1. fronts[1] \in SUBSET Candidates /\ fronts = <<fronts[1]>>
    BY <1>3
  <2>2. CASE count[i] = 0
    <3>1. fronts' = <<fronts[1] \cup {i}>> /\ fronts[1] \cup {i} \in SUBSET Candidates
      BY <1>1, <2>1, <2>2
    <3> QED
      BY <2>2, <3>1
  <2>3. CASE count[i] # 0
    BY <1>1, <1>3, <2>3
  <2> QED
    BY <2>2, <2>3
<1>5. Ahead(1) = {} /\ Ahead(1)' = {}
  BY DEF Ahead
<1>6. \A j, c : Met(j, c)' <=> Met(j, c) \/ j = i \/ c = i
  BY <1>1 DEF Met
<1>7. \A c \in Candidates : /\ Counted(c) = {j \in Candidates : Beats(j, c) /\ Met(j, c)}
                            /\ Counted(c)' = {j \in Candidates : Beats(j, c) /\ Met(j, c)'}
  BY <1>2, <1>3, <1>4, <1>5 DEF Counted
<1>8. /\ beaten = {j \in rest : Beats(i, j)} /\ beating = {j \in rest : Beats(j, i)}
      /\ rest \subseteq Candidates /\ i \notin beaten /\ i \notin beating
  BY <1>3 DEF Beats
<1>9. ASSUME NEW c \in Candidates
      PROVE  Counted(c)' = Counted(c) \cup (IF c \in beaten THEN {i} ELSE {})
                                      \cup (IF c = i THEN beating ELSE {})
  BY <1>1, <1>2, <1>6, <1>7, <1>8, BeatsIsStrict, <1>3 DEF Met
<1>10. ASSUME NEW c \in Candidates
       PROVE  /\ c \in beaten => i \notin Counted(c)
              /\ c = i => Counted(c) \cap beating = {}
  BY <1>1, <1>7, <1>8 DEF Met
<1>11. ASSUME NEW c \in Candidates
       PROVE  Found(c)' = Found(c) \cup (IF c = i THEN beaten ELSE {})
                                   \cup (IF c \in beating THEN {i} ELSE {})
  BY <1>1, <1>2, <1>3, <1>6, <1>8, BeatsIsStrict DEF Found, Met
<1>12. dominatedSet' = [c \in Candidates' |-> Found(c)']
  BY <1>1, <1>2, <1>11 DEF SortInv
<1>13. ASSUME NEW c \in Candidates PROVE count[c] = Cardinality(Counted(c)')
  <2>1. /\ dominatedBy[c] = Cardinality(Counted(c)) /\ Counted(c) \in SUBSET Candidates
        /\ beating \in SUBSET Candidates
    BY <1>3, <1>7, <1>8 DEF SortInv
  <2>2. /\ IsFiniteSet(Counted(c)) /\ Cardinality(Counted(c)) \in Nat
        /\ IsFiniteSet(beating) /\ Cardinality(beating) \in Nat
    BY <1>3, <2>1, CountedFinite
  <2> HIDE DEF rest, beaten, beating
  <2>3. CASE c \in beaten
    <3>1. Counted(c)' = Counted(c) \cup {i} /\ c # i
      BY <1>8, <1>9, <2>3
    <3>2. Cardinality(Counted(c) \cup {i}) = Cardinality(Counted(c)) + 1
      BY <1>10, <2>2, <2>3, FS_AddElement
    <3> QED
      BY <2>1, <2>3, <3>1, <3>2
  <2>4. CASE c = i
    <3>1. Counted(c)' = Counted(c) \cup beating /\ c \notin beaten
      BY <1>8, <1>9, <2>4
    <3>2. Cardinality(Counted(c) \cup beating) =
            Cardinality(Counted(c)) + Cardinality(beating) - Cardinality({})
      BY <1>10, <2>2, <2>4, FS_Union
    <3>3. Cardinality(Counted(c) \cup beating) = Cardinality(Counted(c)) + Cardinality(beating)
      BY <2>2, <3>2, FS_EmptySet
    <3> QED
      BY <2>1, <2>4, <3>1, <3>3
  <2>5. CASE c \notin beaten /\ c # i
    BY <1>9, <2>1, <2>5
  <2> QED
    BY <2>3, <2>4, <2>5
<1>14. count[i] = 0 <=> \A j \in Candidates : ~Beats(j, i)
  <2>1. Counted(i)' \in SUBSET Candidates
    BY <1>7
  <2>2. Cardinality(Counted(i)') = 0 <=> Counted(i)' = {}
    BY <1>3, <2>1, CountedFinite
  <2>3. Counted(i)' = {j \in Candidates : Beats(j, i)}
    BY <1>6, <1>7
  <2> HIDE DEF count
  <2> QED
    BY <1>13, <2>2, <2>3
<1>15. Layer(1)' = Layer(1) /\ Layer(1) = {c \in Candidates : \A j \in Candidates : ~Beats(j, c)}
  BY <1>2, <1>5 DEF Layer
<1>16. fronts'[1] = Layer(1)' \ todo'
  <2> HIDE DEF count
  <2> QED
    BY <1>1, <1>3, <1>4, <1>14, <1>15
<1>17. Layered'
  <2>1. DOMAIN fronts' = {1}
    BY <1>4
  <2> QED
    BY <1>2, <1>4, <1>16, <2>1 DEF Layered
<1>18. Population'
  BY <1>1, <1>2, <1>3 DEF Population
<1>19. /\ dominatedBy' \in [Candidates' -> 0..Cardinality(Candidates')]
       /\ \A c \in Candidates' : dominatedBy'[c] = Cardinality(Counted(c)')
  <2>1. /\ dominatedBy' = count /\ DOMAIN count = Candidates
        /\ count = [c \in Candidates |-> count[c]]
    BY <1>1
  <2>2. \A c \in Candidates : Counted(c)' \in SUBSET Candidates
    BY <1>7
  <2> HIDE DEF count
  <2>3. count \in [Candidates -> 0..Cardinality(Candidates)]
    BY <1>3, <1>13, <2>1, <2>2, CountsTyped
  <2> QED
    BY <1>2, <1>13, <2>1, <2>3
<1> HIDE DEF count, beaten, beating
<1> QED
  BY <1>1, <1>2, <1>3, <1>4, <1>12, <1>17, <1>18, <1>19 DEF SortInv

\* Fronts that are there stay; one more goes behind the last.
LEMMA PeelKeeps ==
  ASSUME SortInv, Peel
  PROVE  SortInv'
<1> DEFINE n == Len(fronts)
           last == fronts[n]
           left == [c \in Candidates |->
                      dominatedBy[c] - Cardinality({i \in last : c \in dominatedSet[i]})]
           next == {c \in UNION {dominatedSet[i] : i \in last} : left[c] = 0}
<1>1. /\ todo = {} /\ ~sorted /\ dominatedBy' = left /\ fronts' = Append(fronts, next)
      /\ UNCHANGED <<objs, todo, dominatedSet, sorted>>
  BY DEF Peel
<1>2. Candidates' = Candidates /\ (\A j, c : Beats(j, c)' = Beats(j, c) /\ Met(j, c) /\ Met(j, c)')
  BY <1>1 DEF Candidates, Beats, Met
<1>3. /\ n \in Nat \ {0} /\ DOMAIN fronts = 1..n /\ Population /\ fronts \in Seq(SUBSET Candidates)
      /\ \A f \in 1..n : fronts[f] = Layer(f)
  BY <1>1 DEF SortInv, Layered
<1>4. last \subseteq Candidates /\ last = Layer(n) /\ last \cap Ahead(n) = {}
  BY <1>3 DEF Layer
<1>5. \A i \in Candidates : dominatedSet[i] = {c \in Candidates : Beats(i, c)}
  BY <1>2 DEF SortInv, Found
<1>6. next \subseteq Candidates
  BY <1>4, <1>5
<1> HIDE DEF next
<1>7. /\ Len(fronts') = n + 1 /\ DOMAIN fronts' = 1..(n + 1) /\ fronts'[n + 1] = next
      /\ \A f \in 1..n : fronts'[f] = fronts[f]
      /\ fronts' \in Seq(SUBSET Candidates)
  BY <1>1, <1>3, <1>6
<1>8. \A f \in 1..(n + 1) : Ahead(f)' = Ahead(f)
  BY <1>2, <1>3, <1>7 DEF Ahead
<1>9. \A f \in 1..(n + 1) : Layer(f)' = Layer(f)
  BY <1>2, <1>8 DEF Layer
<1>10. Ahead(n + 1) = Ahead(n) \cup last
  BY <1>3, <1>4 DEF Ahead
<1>11. ASSUME NEW c \in Candidates
       PROVE  /\ Counted(c) = {i \in Candidates \ Ahead(n) : Beats(i, c)}
              /\ {i \in last : c \in dominatedSet[i]} = {i \in last : Beats(i, c)}
              /\ Counted(c)' = Counted(c) \ {i \in last : Beats(i, c)}
              /\ {i \in last : Beats(i, c)} \subseteq Counted(c)
  <2>1. Counted(c) = {i \in Candidates \ Ahead(n) : Beats(i, c)}
    BY <1>2 DEF Counted
  <2>2. {i \in last : c \in dominatedSet[i]} = {i \in last : Beats(i, c)}
    BY <1>4, <1>5
  <2>3. Ahead(Len(fronts))' = Ahead(n) \cup last
    <3>1. Ahead(Len(fronts))'
            = {k \in Candidates' : \E g \in 1..(Len(fronts') - 1) : k \in fronts'[g]}
      BY DEF Ahead
    <3>2. Ahead(Len(fronts))' = {k \in Candidates : \E g \in 1..n : k \in fronts[g]}
      BY <1>2, <1>3, <1>7, <3>1
    <3> QED
      BY <1>3, <1>10, <3>2 DEF Ahead
  <2>4. Counted(c)' = {i \in Candidates \ (Ahead(n) \cup last) : Beats(i, c)}
    BY <1>2, <2>3 DEF Counted
  <2> HIDE DEF last
  <2> QED
    BY <1>4, <2>1, <2>2, <2>4
<1>12. ASSUME NEW c \in Candidates PROVE left[c] = Cardinality(Counted(c)')
  <2> DEFINE B == {i \in last : Beats(i, c)}
  <2>1. /\ Counted(c) \in SUBSET Candidates /\ dominatedBy[c] = Cardinality(Counted(c))
        /\ B \subseteq Counted(c) /\ Counted(c)' = Counted(c) \ B
        /\ left[c] = dominatedBy[c] - Cardinality(B)
    BY <1>1, <1>11 DEF SortInv
  <2> HIDE DEF B
  <2>2. IsFiniteSet(Counted(c)) /\ Counted(c) \cap B = B
    BY <1>3, <2>1, CountedFinite
  <2>3. Cardinality(Counted(c) \ B) = Cardinality(Counted(c)) - Cardinality(B)
    BY <2>2, FS_Difference
  <2> QED
    BY <2>1, <2>3
<1>13. ASSUME NEW c \in Candidates
       PROVE  left[c] = 0 <=> \A i \in Candidates : Beats(i, c) => i \in Ahead(n + 1)
  <2>1. Counted(c)' = {i \in Candidates \ Ahead(n + 1) : Beats(i, c)}
    BY <1>10, <1>11
  <2>2. Counted(c)' \in SUBSET Candidates
    BY <2>1
  <2>3. Cardinality(Counted(c)') = 0 <=> Counted(c)' = {}
    BY <1>3, <2>2, CountedFinite
  <2> HIDE DEF left
  <2> QED
    BY <1>12, <2>1, <2>3
<1>14. next = Layer(n + 1)
  <2>1. next = {c \in Candidates : left[c] = 0 /\ \E i \in last : Beats(i, c)}
    BY <1>4, <1>5 DEF next
  <2> HIDE DEF left, last
  <2>2. ASSUME NEW c \in Candidates, left[c] = 0
        PROVE  c \notin Ahead(n + 1) <=> \E i \in last : Beats(i, c)
    <3>1. \A i \in Candidates : Beats(i, c) => i \in Ahead(n) \cup last
      BY <1>10, <1>13, <2>2
    <3>2. ASSUME c \notin Ahead(n + 1), ~ \E i \in last : Beats(i, c) PROVE FALSE
      BY <1>4, <1>10, <3>1, <3>2 DEF Layer
    <3>3. ASSUME c \in Ahead(n + 1), NEW i \in last, Beats(i, c) PROVE FALSE
      <4>1. PICK f \in 1..n : c \in fronts[f]
        BY <1>3, <3>3 DEF Ahead
      <4>2. i \in Ahead(f)
        BY <1>3, <1>4, <3>3, <4>1 DEF Layer
      <4>3. i \in Ahead(n)
        BY <1>3, <4>1, <4>2 DEF Ahead
      <4> QED
        BY <1>4, <4>3
    <3> QED
      BY <3>2, <3>3
  <2> QED
    BY <1>13, <2>1, <2>2 DEF Layer
<1>15. Layered'
  BY <1>1, <1>2, <1>3, <1>7, <1>9, <1>14 DEF Layered
<1>16. Population'
  BY <1>1, <1>2, <1>3 DEF Population
<1>17. /\ dominatedBy' \in [Candidates' -> 0..Cardinality(Candidates')]
       /\ \A c \in Candidates' : dominatedBy'[c] = Cardinality(Counted(c)')
  <2>1. dominatedBy' = left /\ DOMAIN left = Candidates /\ left = [c \in Candidates |-> left[c]]
    BY <1>1
  <2>2. \A c \in Candidates : Counted(c)' \in SUBSET Candidates
    BY <1>11
  <2> HIDE DEF left
  <2>3. left \in [Candidates -> 0..Cardinality(Candidates)]
    BY <1>3, <1>12, <2>1, <2>2, CountsTyped
  <2> QED
    BY <1>2, <1>12, <2>1, <2>3
<1>18. dominatedSet' = [c \in Candidates' |-> Found(c)']
  <2>1. \A c \in Candidates : Found(c)' = Found(c)
    BY <1>2 DEF Found
  <2> QED
    BY <1>1, <1>2, <2>1 DEF SortInv
<1>19. Len(fronts') > 0
  BY <1>3, <1>7
<1> HIDE DEF left, last
<1> QED
  BY <1>1, <1>2, <1>15, <1>16, <1>17, <1>18, <1>19 DEF SortInv

\* Nobody is left when nobody left is undominated.
LEMMA FinishKeeps ==
  ASSUME SortInv, Finish
  PROVE  SortInv'
<1> DEFINE n == Len(fronts)
<1>1. /\ todo = {} /\ ~sorted /\ fronts[n] = {} /\ sorted' = TRUE
      /\ fronts' = SubSeq(fronts, 1, n - 1)
      /\ UNCHANGED <<objs, todo, dominatedBy, dominatedSet>>
  BY DEF Finish
<1>2. Candidates' = Candidates /\ (\A j, c : Beats(j, c)' = Beats(j, c) /\ Met(j, c)' = Met(j, c))
  BY <1>1 DEF Candidates, Beats, Met
<1>3. /\ n \in Nat \ {0} /\ DOMAIN fronts = 1..n /\ Population /\ fronts \in Seq(SUBSET Candidates)
      /\ \A f \in 1..n : fronts[f] = Layer(f)
  BY <1>1 DEF SortInv, Layered
<1>4. /\ Len(fronts') = n - 1 /\ DOMAIN fronts' = 1..(n - 1)
      /\ \A f \in 1..(n - 1) : fronts'[f] = fronts[f]
      /\ fronts' \in Seq(SUBSET Candidates)
  BY <1>1, <1>3
<1>5. \A f \in 1..n : Ahead(f)' = Ahead(f)
  BY <1>2, <1>3, <1>4 DEF Ahead
<1>6. \A f \in 1..n : Layer(f)' = Layer(f)
  BY <1>2, <1>5 DEF Layer
<1>7. Ahead(n) = Candidates
  <2>1. \A c \in Candidates \ Ahead(n) : \E i \in Candidates \ Ahead(n) : Beats(i, c)
    <3>1. Layer(n) = {}
      BY <1>1, <1>3
    <3> QED
      BY <3>1 DEF Layer
  <2>2. Candidates \ Ahead(n) = {}
    BY <1>3, <2>1, SomeoneUnbeaten
  <2> QED
    BY <2>2 DEF Ahead
<1>8. Ahead(Len(fronts) + 1)' = Candidates'
  <2>1. Ahead(Len(fronts) + 1)'
          = {c \in Candidates' : \E g \in 1..(Len(fronts') + 1 - 1) : c \in fronts'[g]}
    BY DEF Ahead
  <2>2. Ahead(Len(fronts) + 1)' = {c \in Candidates : \E g \in 1..(n - 1) : c \in fronts[g]}
    BY <1>2, <1>3, <1>4, <2>1
  <2> QED
    BY <1>2, <1>7, <2>2 DEF Ahead
<1>9. Layered'
  BY <1>1, <1>2, <1>3, <1>4, <1>6 DEF Layered
<1>10. Population'
  BY <1>1, <1>2, <1>3 DEF Population
<1>11. dominatedSet' = [c \in Candidates' |-> Found(c)']
  <2>1. \A c \in Candidates : Found(c)' = Found(c)
    BY <1>2 DEF Found
  <2> QED
    BY <1>1, <1>2, <2>1 DEF SortInv
<1>12. sorted' \in BOOLEAN
  BY <1>1, Zenon
<1> QED
  BY <1>1, <1>2, <1>8, <1>9, <1>10, <1>11, <1>12 DEF SortInv

LEMMA SortStepKeeps == SortInv /\ SortStep => SortInv'
  BY CompareKeeps, PeelKeeps, FinishKeeps DEF SortStep

-------------------------------------------------------------------------------
\* Paths are few.

\* The functions from one finite set to another are finitely many: each is its set of pairs.
LEMMA FunctionsFinite ==
  ASSUME NEW S, NEW T, IsFiniteSet(S), IsFiniteSet(T)
  PROVE  IsFiniteSet([S -> T])
<1> DEFINE F == [S -> T]
           P == SUBSET (S \X T)
           g == [f \in F |-> {<<x, f[x]>> : x \in S}]
<1>1. IsFiniteSet(P)
  BY FS_Product, FS_SUBSET
<1>2. g \in [F -> P]
  OBVIOUS
<1>3. ASSUME NEW f \in F, NEW h \in F, g[f] = g[h] PROVE f = h
  <2>1. ASSUME NEW x \in S PROVE f[x] = h[x]
    <3>1. <<x, f[x]>> \in g[h]
      BY <1>3
    <3> QED
      BY <3>1
  <2> QED
    BY <2>1
<1>4. g \in Injection(F, P)
  <2> HIDE DEF g, F, P
  <2> QED
    BY <1>2, <1>3, Zenon DEF Injection, IsInjective
<1> HIDE DEF g, P
<1> QED
  BY <1>1, <1>4, FS_Injection

LEMMA SequencesFinite ==
  ASSUME NEW S, IsFiniteSet(S), NEW n \in Int
  PROVE  IsFiniteSet(SeqOf(S, n))
<1> DEFINE D == 0..n
           g == [m \in D |-> [1..m -> S]]
           T == {[1..m -> S] : m \in D}
<1>1. IsFiniteSet(D)
  BY FS_Interval
<1>2. g \in Surjection(D, T)
  BY Zenon DEF Surjection
<1>3. IsFiniteSet(T)
  BY <1>1, <1>2, FS_Surjection
<1>4. ASSUME NEW t \in T PROVE IsFiniteSet(t)
  <2>1. PICK m \in D : t = [1..m -> S]
    OBVIOUS
  <2>2. IsFiniteSet(1..m)
    BY FS_Interval
  <2> QED
    BY <2>1, <2>2, FunctionsFinite
<1> HIDE DEF T
<1>5. IsFiniteSet(UNION T)
  BY <1>3, <1>4, FS_UNION
<1> QED
  BY <1>5 DEF SeqOf, T

LEMMA PathsFinite ==
  ASSUME Active \subseteq Routes, NEW E \in SUBSET Active, NEW a, NEW b
  PROVE  /\ IsFiniteSet(SimplePaths(E, a, b))
         /\ SimplePaths(E, a, b) \subseteq Seq(E)
<1> DEFINE Walks == SeqOf(E, Cardinality(Hubs) - 1)
<1>1. Cardinality(Hubs) - 1 \in Int
  BY OptimizerAssumption, FS_CardinalityType
<1>2. IsFiniteSet(E)
  BY OptimizerAssumption, FS_Subset
<1>3. IsFiniteSet(Walks)
  BY <1>1, <1>2, SequencesFinite
<1>4. SimplePaths(E, a, b) \in SUBSET Walks
  BY DEF SimplePaths
<1>5. Walks \subseteq Seq(E)
  BY <1>1 DEF SeqOf
<1> HIDE DEF Walks
<1> QED
  BY <1>3, <1>4, <1>5, FS_Subset

\* A sequence of routes is a simple path when its routes join the hubs those of a simple path do.
LEMMA SameStops ==
  ASSUME NEW E, NEW F, NEW a, NEW b, NEW p \in SimplePaths(E, a, b), NEW q,
         q \in [DOMAIN p -> F],
         \A n \in DOMAIN p : From[q[n]] = From[p[n]] /\ To[q[n]] = To[p[n]]
  PROVE  q \in SimplePaths(F, a, b)
<1> DEFINE Top == Cardinality(Hubs) - 1
           stops(s) == <<a>> \o [n \in DOMAIN s |-> To[s[n]]]
<1>1. /\ p \in SeqOf(E, Top)
      /\ \A n \in DOMAIN p : From[p[n]] = stops(p)[n]
      /\ stops(p)[Len(stops(p))] = b
      /\ Cardinality(ToSet(stops(p))) = Len(stops(p))
  BY DEF SimplePaths
<1>2. DOMAIN q = DOMAIN p
  OBVIOUS
<1>3. [n \in DOMAIN q |-> To[q[n]]] = [n \in DOMAIN p |-> To[p[n]]]
  BY <1>2
<1>4. stops(q) = stops(p)
  BY <1>3
<1>5. q \in SeqOf(F, Top)
  <2>1. PICK m \in 0..Top : p \in [1..m -> E]
    BY <1>1 DEF SeqOf
  <2>2. q \in [1..m -> F]
    BY <2>1
  <2> QED
    BY <2>2 DEF SeqOf
<1> HIDE DEF stops
<1>6. /\ \A n \in DOMAIN q : From[q[n]] = stops(q)[n]
      /\ stops(q)[Len(stops(q))] = b
      /\ Cardinality(ToSet(stops(q))) = Len(stops(q))
  BY <1>1, <1>2, <1>4
<1> QED
  BY <1>5, <1>6, Zenon DEF SimplePaths, stops

LEMMA PathsOverFewer ==
  ASSUME NEW E \in SUBSET Active, NEW a, NEW b
  PROVE  SimplePaths(E, a, b) \subseteq SimplePaths(Active, a, b)
<1>1. ASSUME NEW p \in SimplePaths(E, a, b) PROVE p \in [DOMAIN p -> Active]
  BY DEF SimplePaths, SeqOf
<1> QED
  BY <1>1, SameStops

LEMMA MutationsArePaths ==
  ASSUME NEW p \in Paths, NEW q \in Mutations(p)
  PROVE  q \in Paths
<1>1. PICK n \in DOMAIN p : \E r \in Parallel(p[n]) : q = [p EXCEPT ![n] = r]
  BY DEF Mutations
<1>2. PICK r \in Parallel(p[n]) : q = [p EXCEPT ![n] = r]
  BY <1>1
<1>3. r \in Active /\ From[r] = From[p[n]] /\ To[r] = To[p[n]]
  BY DEF Parallel
<1>4. p \in [DOMAIN p -> Active]
  BY DEF Paths, SimplePaths, SeqOf
<1>5. q \in [DOMAIN p -> Active]
  BY <1>2, <1>3, <1>4
<1>6. \A k \in DOMAIN p : From[q[k]] = From[p[k]] /\ To[q[k]] = To[p[k]]
  BY <1>2, <1>3, <1>4
<1> QED
  BY <1>5, <1>6, SameStops DEF Paths

-------------------------------------------------------------------------------
\* The call.

CallInv ==
  /\ mode \in [Active -> DOMAIN PerKm] /\ Active \subseteq Routes
  /\ multiplier \in [Routes -> Nat \ {0}]
  /\ request \in Requests
  /\ seeds \in [Criteria -> SUBSET Paths]
  /\ phase \in {"called", "seeded", "sorting", "answered"}
  /\ phase \in {"called", "seeded"} => ~sorted
  /\ Candidates \subseteq Paths /\ SortTypeOK
  /\ phase = "sorting" \/ sorted => SortInv

LEMMA SortInvTyped == SortInv => SortTypeOK
<1>1. ASSUME SortInv PROVE dominatedSet \in [Candidates -> SUBSET Candidates]
  BY <1>1 DEF SortInv, Found
<1> QED
  BY <1>1 DEF SortInv, SortTypeOK, Layered

LEMMA CallInvInit == Init => CallInv
<1> SUFFICES ASSUME Init PROVE CallInv
  OBVIOUS
<1>1. PICK active \in Actives, fleet \in Fleets : mode = [r \in active |-> fleet[r]]
  BY DEF Init
<1>2. Active = active /\ active \subseteq Routes /\ fleet \in [Routes -> DOMAIN PerKm]
  BY <1>1, OptimizerAssumption DEF Active
<1>3. mode \in [Active -> DOMAIN PerKm] /\ Active \subseteq Routes
  BY <1>1, <1>2
<1>4. multiplier \in [Routes -> Nat \ {0}] /\ request \in Requests
  BY OptimizerAssumption DEF Init
<1>5. Candidates = {}
  BY DEF Init, Candidates
<1>6. seeds \in [Criteria -> SUBSET Paths]
  BY DEF Init
<1>7. phase = "called" /\ ~sorted
  BY DEF Init
<1>8. SortTypeOK
  <2>1. /\ dominatedBy = <<>> /\ dominatedSet = <<>> /\ fronts = <<>> /\ todo = {}
        /\ sorted \in BOOLEAN
    BY Zenon DEF Init
  <2>2. /\ dominatedBy \in [Candidates -> 0..Cardinality(Candidates)]
        /\ dominatedSet \in [Candidates -> SUBSET Candidates]
    BY <1>5, <2>1
  <2> QED
    BY <1>5, <2>1, <2>2 DEF SortTypeOK
<1> QED
  BY <1>3, <1>4, <1>5, <1>6, <1>7, <1>8 DEF CallInv

LEMMA CallInvKept == CallInv /\ [Next]_vars => CallInv'
<1> SUFFICES ASSUME CallInv, [Next]_vars PROVE CallInv'
  OBVIOUS
<1>1. ASSUME UNCHANGED <<mode, request>>
      PROVE  Active' = Active /\ Paths' = Paths
  BY <1>1 DEF Active, Paths, SimplePaths
<1>2. ASSUME UNCHANGED sortVars
      PROVE  Candidates' = Candidates /\ SortInv' = SortInv /\ SortTypeOK' = SortTypeOK
  BY <1>2 DEF sortVars, Candidates, SortTypeOK, SortInv, Population, Layered, Layer, Ahead,
              Counted, Found, Beats, Met
<1>3. ASSUME Decline \/ NoPathRaised \/ Choose PROVE CallInv'
  <2>1. UNCHANGED <<sortVars, mode, multiplier, request, seeds>> /\ phase' = "answered"
    BY <1>3 DEF Decline, NoPathRaised, Choose, Answer
  <2>2. sorted' = sorted /\ Active' = Active /\ Paths' = Paths /\ Candidates' = Candidates
        /\ SortInv' = SortInv /\ SortTypeOK' = SortTypeOK
    BY <1>1, <1>2, <2>1 DEF sortVars
  <2> QED
    BY <2>1, <2>2 DEF CallInv
<1>4. CASE Seed
  <2>1. UNCHANGED <<sortVars, mode, multiplier, request>> /\ phase' = "seeded" /\ phase = "called"
    BY <1>4 DEF Seed
  <2>2. sorted' = sorted /\ Active' = Active /\ Paths' = Paths /\ Candidates' = Candidates
        /\ SortInv' = SortInv /\ SortTypeOK' = SortTypeOK
    BY <1>1, <1>2, <2>1 DEF sortVars
  <2>3. ASSUME NEW m, NEW S \in KShortestBy(m) PROVE S \subseteq Paths
    <3>1. PICK E \in Collapsed(m) : S \subseteq SimplePaths(E, request.origin, request.destination)
      BY DEF KShortestBy
    <3>2. E \in SUBSET Active
      BY DEF Collapsed
    <3> QED
      BY <3>1, <3>2, PathsOverFewer DEF Paths
  <2>4. PICK x \in KShortestBy("co2"), y \in KShortestBy("cost"), z \in KShortestBy("time") :
          seeds' = [co2 |-> x, cost |-> y, time |-> z]
    BY <1>4 DEF Seed
  <2>5. seeds' \in [Criteria -> SUBSET Paths]
    BY <2>3, <2>4 DEF Criteria
  <2> QED
    BY <2>1, <2>2, <2>5 DEF CallInv
<1>5. CASE Evolve
  <2>1. UNCHANGED <<mode, multiplier, request, seeds>> /\ phase' = "sorting" /\ phase = "seeded"
    BY <1>5 DEF Evolve
  <2>2. Active' = Active /\ Paths' = Paths
    BY <1>1, <2>1
  <2>3. PICK offspring \in SUBSET UNION {Mutations(p) : p \in Seeds} :
          SortOf([p \in Seeds \cup offspring |-> PathObjectives(p)])
    BY <1>5 DEF Evolve
  <2> DEFINE C == Seeds \cup offspring
             population == [p \in C |-> PathObjectives(p)]
  <2>4. Seeds \subseteq Paths
    BY DEF Seeds, CallInv, Criteria
  <2>5. C \subseteq Paths
    <3>1. \A q \in offspring : \E p \in Seeds : q \in Mutations(p)
      OBVIOUS
    <3> QED
      BY <2>4, <3>1, MutationsArePaths
  <2>6. IsFiniteSet(Paths) /\ Paths \subseteq Seq(Active)
    BY PathsFinite DEF CallInv, Paths
  <2>7. IsFiniteSet(C) /\ C \subseteq Seq(Active)
    BY <2>5, <2>6, FS_Subset
  <2>8. \A p \in C : PathObjectives(p) \in Vector
    BY <2>7, PathTyped DEF CallInv, Vector
  <2> HIDE DEF C
  <2>9. DOMAIN population = C /\ population \in [DOMAIN population -> Vector]
    BY <2>8
  <2>10. SortOf(population) /\ Candidates' = C
    BY <2>3 DEF C, SortOf, Candidates
  <2> HIDE DEF population
  <2>11. SortInv'
    BY <2>7, <2>9, <2>10, SortOfStarts
  <2>12. SortInv' => SortTypeOK'
    BY SortInvTyped, PTL
  <2> QED
    BY <2>1, <2>2, <2>5, <2>10, <2>11, <2>12 DEF CallInv
<1>6. CASE Sort
  <2>1. UNCHANGED optVars /\ SortStep /\ phase = "sorting"
    BY <1>6 DEF Sort
  <2>2. SortInv'
    BY <2>1, SortStepKeeps DEF CallInv
  <2>3. Active' = Active /\ Paths' = Paths
    BY <1>1, <2>1 DEF optVars
  <2>4. Candidates' = Candidates
    BY <2>1 DEF SortStep, Compare, Peel, Finish, Candidates
  <2>5. SortInv' => SortTypeOK'
    BY SortInvTyped, PTL
  <2> QED
    BY <2>1, <2>2, <2>3, <2>4, <2>5 DEF CallInv, optVars
<1>7. CASE UNCHANGED vars
  <2>1. /\ Active' = Active /\ Paths' = Paths /\ Candidates' = Candidates
        /\ SortInv' = SortInv /\ SortTypeOK' = SortTypeOK
    BY <1>1, <1>2, <1>7 DEF vars, optVars
  <2> QED
    BY <1>7, <2>1 DEF CallInv, vars, optVars, sortVars
<1> QED
  BY <1>3, <1>4, <1>5, <1>6, <1>7 DEF Next

-------------------------------------------------------------------------------
\* Rankings.

LEMMA LargestNumber ==
  ASSUME NEW n \in Nat, NEW T \in SUBSET (1..n), T # {}
  PROVE  Max(T) \in T /\ \A k \in T : k <= Max(T)
<1>1. {n - k : k \in T} \in SUBSET Nat /\ {n - k : k \in T} # {}
  <2>1. \A k \in T : n - k \in Nat
    OBVIOUS
  <2> QED
    BY <2>1
<1>2. PICK d \in {n - k : k \in T} : \A e \in {n - k : k \in T} : d <= e
  BY <1>1, LeastNumber
<1>3. PICK m \in T : d = n - m
  BY <1>2
<1>4. \A k \in T : m >= k
  <2>1. \A k \in T : n - m <= n - k
    BY <1>2, <1>3
  <2> QED
    BY <2>1
<1>5. Max(T) \in T /\ \A k \in T : Max(T) >= k
  BY <1>4 DEF Max
<1> QED
  BY <1>5

Injective(o) == \A i, j \in DOMAIN o : o[i] = o[j] => i = j

\* What SetToSeqs lists is the whole set, without repetition.
LEMMA ListsAll ==
  ASSUME NEW S, IsFiniteSet(S), NEW o \in SetToSeqs(S)
  PROVE  o \in Seq(S) /\ Len(o) = Cardinality(S) /\ Injective(o) /\ ToSet(o) = S
<1> DEFINE n == Cardinality(S)
<1>1. n \in Nat /\ IsFiniteSet(1..n) /\ Cardinality(1..n) = n
  BY FS_CardinalityType, FS_Interval
<1>2. o \in [1..n -> S] /\ \A i, j \in 1..n : i # j => o[i] # o[j]
  BY Zenon DEF SetToSeqs
<1> HIDE DEF n
<1>3. o \in Seq(S) /\ Len(o) = n /\ DOMAIN o = 1..n
  BY <1>1, <1>2
<1>4. o \in Injection(1..n, S)
  BY <1>2 DEF Injection, IsInjective
<1>5. o \in Surjection(1..n, S)
  BY <1>1, <1>4, FS_Injection DEF n
<1>6. ToSet(o) = S
  BY <1>2, <1>5 DEF ToSet, Surjection
<1> QED
  BY <1>2, <1>3, <1>6 DEF n, Injective

LEMMA OrdersListAll ==
  ASSUME NEW S, IsFiniteSet(S), NEW o \in Orders(S)
  PROVE  o \in Seq(S) /\ Len(o) = Cardinality(S) /\ Injective(o) /\ ToSet(o) = S
<1>1. o \in SetToSeqs(S)
  BY DEF Orders, SortedBy
<1> QED
  BY <1>1, ListsAll

\* Sequence o lists the candidates of the first n fronts, front by front.
Ranked(o, n) ==
  /\ o \in Seq(Candidates) /\ Injective(o)
  /\ ToSet(o) = Ahead(n + 1)
  /\ \A i, j \in 1..Len(o), f \in 1..n : i < j /\ o[j] \in fronts[f] => o[i] \in Ahead(f + 1)

LEMMA RankedOneMore ==
  ASSUME SortInv, todo = {}, NEW n \in Nat, n < Len(fronts), NEW r, Ranked(r, n),
         NEW o \in Orders(fronts[n + 1])
  PROVE  Ranked(r \o o, n + 1)
<1> DEFINE S == fronts[n + 1]
           q == r \o o
           l == Len(r)
<1>1. /\ n + 1 \in DOMAIN fronts /\ S \subseteq Candidates /\ S \cap Ahead(n + 1) = {}
      /\ IsFiniteSet(S)
  BY FS_Subset DEF SortInv, Layered, Layer, Population
<1>2. Ahead(n + 2) = Ahead(n + 1) \cup S
  BY <1>1 DEF Ahead
<1>3. /\ o \in Seq(S) /\ Injective(o) /\ ToSet(o) = S
      /\ r \in Seq(Candidates) /\ Injective(r) /\ ToSet(r) = Ahead(n + 1)
  BY <1>1, OrdersListAll DEF Ranked
<1> HIDE DEF S
<1>4. o \in Seq(Candidates)
  BY <1>1, <1>3
<1>5. /\ q \in Seq(Candidates) /\ Len(q) = l + Len(o) /\ l \in Nat /\ Len(o) \in Nat
      /\ DOMAIN q = 1..(l + Len(o)) /\ DOMAIN r = 1..l /\ DOMAIN o = 1..Len(o)
      /\ \A i \in 1..l : q[i] = r[i]
      /\ \A i \in 1..Len(o) : q[l + i] = o[i]
  BY <1>3, <1>4
<1>6. ASSUME NEW i \in DOMAIN q
      PROVE  \/ i \in 1..l /\ q[i] = r[i] /\ q[i] \in Ahead(n + 1)
             \/ /\ i - l \in 1..Len(o) /\ q[i] = o[i - l] /\ q[i] \in S
                /\ q[i] \notin Ahead(n + 1)
  <2>1. CASE i \in 1..l
    BY <1>3, <1>5, <2>1 DEF ToSet
  <2>2. CASE i \notin 1..l
    <3>1. i - l \in 1..Len(o) /\ i = l + (i - l)
      BY <1>5, <2>2
    <3>2. q[i] = o[i - l] /\ q[i] \in S
      BY <1>3, <1>5, <3>1 DEF ToSet
    <3> QED
      BY <1>1, <3>1, <3>2 DEF S
  <2> QED
    BY <2>1, <2>2
<1> HIDE DEF q, l
<1>7. Injective(q)
  <2> SUFFICES ASSUME NEW i \in DOMAIN q, NEW j \in DOMAIN q, q[i] = q[j] PROVE i = j
    BY DEF Injective
  <2>1. CASE q[i] \in Ahead(n + 1)
    BY <1>3, <1>5, <1>6, <2>1 DEF Injective
  <2>2. CASE q[i] \notin Ahead(n + 1)
    <3>1. i - l = j - l
      BY <1>3, <1>5, <1>6, <2>2 DEF Injective
    <3> QED
      BY <1>5, <3>1
  <2> QED
    BY <2>1, <2>2
<1>8. ToSet(q) = Ahead(n + 2)
  <2>1. ToSet(q) \subseteq Ahead(n + 2)
    BY <1>2, <1>6 DEF ToSet
  <2>2. ASSUME NEW c \in Ahead(n + 1) PROVE c \in ToSet(q)
    <3>1. PICK i \in 1..l : c = r[i]
      BY <1>3, <1>5 DEF ToSet
    <3> QED
      BY <1>5, <3>1 DEF ToSet
  <2>3. ASSUME NEW c \in S PROVE c \in ToSet(q)
    <3>1. PICK i \in 1..Len(o) : c = o[i]
      BY <1>3, <1>5 DEF ToSet
    <3>2. l + i \in DOMAIN q /\ q[l + i] = c
      BY <1>5, <3>1
    <3> QED
      BY <3>2 DEF ToSet
  <2> QED
    BY <1>2, <2>1, <2>2, <2>3
<1>9. ASSUME NEW i \in DOMAIN q, NEW j \in DOMAIN q, NEW f \in 1..(n + 1), i < j,
             q[j] \in fronts[f]
      PROVE  q[i] \in Ahead(f + 1)
  <2>1. CASE f = n + 1
    BY <1>2, <1>6, <2>1
  <2>2. CASE f # n + 1
    <3>1. f \in 1..n /\ q[j] \in Ahead(n + 1)
      BY <1>5, <1>9, <2>2 DEF Ahead
    <3>2. j \in 1..l /\ i \in 1..l /\ q[i] = r[i] /\ q[j] = r[j]
      BY <1>5, <1>6, <1>9, <3>1
    <3> QED
      BY <1>9, <3>1, <3>2 DEF Ranked, l
  <2> QED
    BY <2>1, <2>2
<1>10. n + 1 + 1 = n + 2
  OBVIOUS
<1> QED
  BY <1>5, <1>7, <1>8, <1>9, <1>10 DEF Ranked, q

\* Rankings as the fold it is defined by: from the first n fronts to one more.
OneMore(g, s) == Behind(g[s \ {Max(s)}], fronts[Max(s)])

LEMMA RankingsFold ==
  Rankings = (CHOOSE g : g = [s \in SUBSET DOMAIN fronts |-> IF s = {} THEN {<<>>}
                                                             ELSE OneMore(g, s)])[DOMAIN fronts]
  BY Zenon DEF Rankings, FoldLeft, MapThenFoldSet, OneMore

\* Every ranking lists all candidates, front by front.
LEMMA RankingsRanked ==
  ASSUME SortInv, sorted
  PROVE  \A o \in Rankings : Ranked(o, Len(fronts))
<1> DEFINE D == DOMAIN fronts
           l == Len(fronts)
           Is(g) == g = [s \in SUBSET D |-> IF s = {} THEN {<<>>} ELSE OneMore(g, s)]
           ranked == CHOOSE g : Is(g)
<1>1. /\ fronts \in Seq(SUBSET Candidates) /\ l \in Nat /\ D = 1..l /\ todo = {}
      /\ IsFiniteSet(D)
  <2>1. fronts \in Seq(SUBSET Candidates) /\ todo = {}
    BY DEF SortInv, Layered
  <2>2. l \in Nat /\ D = 1..l
    BY <2>1
  <2>3. IsFiniteSet(1..l)
    BY <2>2, FS_Interval
  <2> QED
    BY <2>1, <2>2, <2>3
<1>2. ASSUME NEW s \in SUBSET D, s # {}
      PROVE  Max(s) \in s /\ s \ {Max(s)} \in SUBSET D
  BY <1>1, <1>2, LargestNumber
<1>3. \E g : Is(g)
  <2> DEFINE V == SUBSET Seq(Candidates)
             pick == [s \in SUBSET D |-> Max(s)]
             step == [xy \in D \X V |-> Behind(xy[2], fronts[xy[1]])]
             base == {<<>>}
  <2>1. \A s \in SUBSET D : s # {} => pick[s] \in s
    BY <1>2
  <2>2. base \in V
    OBVIOUS
  <2>3. step \in [D \X V -> V]
    <3>1. ASSUME NEW x \in D, NEW y \in V, NEW r \in y, NEW o \in Orders(fronts[x])
          PROVE  r \o o \in Seq(Candidates)
      <4>1. fronts[x] \subseteq Candidates /\ IsFiniteSet(fronts[x])
        BY <1>1, FS_Subset DEF SortInv, Population
      <4>2. o \in Seq(Candidates)
        BY <4>1, OrdersListAll
      <4> QED
        BY <4>2
    <3>2. ASSUME NEW x \in D, NEW y \in V PROVE Behind(y, fronts[x]) \in V
      <4>1. ASSUME NEW z \in Behind(y, fronts[x]) PROVE z \in Seq(Candidates)
        <5>1. PICK r \in y, o \in Orders(fronts[x]) : z = r \o o
          BY DEF Behind
        <5> QED
          BY <3>1, <5>1
      <4> QED
        BY <4>1
    <3> HIDE DEF V
    <3> QED
      BY <3>2
  <2> HIDE DEF pick, step, V, base
  <2>4. PICK g \in [SUBSET D -> V] : FoldOf(D, pick, base, step, g)
    BY <1>1, <2>1, <2>2, <2>3, FoldsExist
  <2>5. ASSUME NEW s \in SUBSET D, s # {} PROVE g[s] = OneMore(g, s)
    <3>1. g[s] = step[<<Max(s), g[s \ {Max(s)}]>>]
      BY <2>4, <2>5 DEF FoldOf, pick
    <3>2. Max(s) \in D /\ g[s \ {Max(s)}] \in V
      BY <1>2, <2>4, <2>5
    <3> QED
      BY <3>1, <3>2 DEF step, OneMore
  <2>6. g[{}] = {<<>>}
    BY <2>4 DEF FoldOf, base
  <2>7. g = [s \in SUBSET D |-> IF s = {} THEN {<<>>} ELSE OneMore(g, s)]
    BY <2>4, <2>5, <2>6
  <2> QED
    BY <2>7
<1>4. Is(ranked)
  BY <1>3
<1>5. Rankings = ranked[D]
  BY RankingsFold
<1> HIDE DEF ranked
<1>6. ranked[{}] = {<<>>} /\ \A s \in SUBSET D : s # {} => ranked[s] = OneMore(ranked, s)
  BY <1>4
<1> HIDE DEF Is
<1> DEFINE Bad == {n \in 0..l : \E o \in ranked[1..n] : ~Ranked(o, n)}
<1>7. 0 \notin Bad
  <2>1. 1..0 = {} /\ Ahead(0 + 1) = {}
    BY DEF Ahead
  <2>2. Ranked(<<>>, 0)
    BY <2>1 DEF Ranked, Injective, ToSet
  <2> QED
    BY <1>6, <2>1, <2>2
<1>8. ASSUME NEW n \in Nat, n < l, n \notin Bad PROVE n + 1 \notin Bad
  <2>1. 1..(n + 1) \in SUBSET D /\ 1..(n + 1) # {} /\ n + 1 \in D
    <3>1. \A k \in 1..(n + 1) : k \in 1..l
      BY <1>1, <1>8
    <3>2. n + 1 \in 1..(n + 1)
      BY <1>8
    <3> QED
      BY <1>1, <3>1, <3>2
  <2>2. Max(1..(n + 1)) = n + 1
    <3>1. n + 1 \in Nat /\ 1..(n + 1) \in SUBSET (1..(n + 1)) /\ n + 1 \in 1..(n + 1)
      BY <1>8
    <3>2. Max(1..(n + 1)) \in 1..(n + 1) /\ n + 1 <= Max(1..(n + 1))
      BY <2>1, <3>1, LargestNumber
    <3> QED
      BY <3>2
  <2>3. (1..(n + 1)) \ {n + 1} = 1..n
    BY <1>8
  <2>4. ranked[1..(n + 1)] = Behind(ranked[1..n], fronts[n + 1])
    <3>1. ranked[1..(n + 1)] = OneMore(ranked, 1..(n + 1))
      BY <1>6, <2>1
    <3> QED
      BY <2>2, <2>3, <3>1 DEF OneMore
  <2>5. \A r \in ranked[1..n] : Ranked(r, n)
    BY <1>8
  <2>6. ASSUME NEW q \in ranked[1..(n + 1)] PROVE Ranked(q, n + 1)
    <3>1. PICK r \in ranked[1..n], o \in Orders(fronts[n + 1]) : q = r \o o
      BY <2>4 DEF Behind
    <3> QED
      BY <1>1, <1>8, <2>5, <3>1, RankedOneMore
  <2> QED
    BY <2>6
<1>9. ASSUME Bad # {} PROVE FALSE
  <2>1. Bad \in SUBSET Nat
    OBVIOUS
  <2>2. PICK n \in Bad : \A k \in Bad : n <= k
    <3> HIDE DEF Bad
    <3> QED
      BY <1>9, <2>1, LeastNumber
  <2>3. n \in Nat /\ n # 0 /\ n <= l
    BY <1>1, <1>7, <2>2
  <2>4. n - 1 \in Nat /\ n - 1 < l /\ n - 1 + 1 = n /\ n - 1 \notin Bad
    <3> HIDE DEF Bad
    <3> QED
      BY <1>1, <2>2, <2>3
  <2> QED
    BY <1>8, <2>2, <2>4
<1>10. l \in 0..l /\ ranked[1..l] = Rankings
  BY <1>1, <1>5
<1> QED
  BY <1>9, <1>10

-------------------------------------------------------------------------------
\* What is offered.

LEMMA MinOfTwo ==
  ASSUME NEW a \in Nat, NEW b \in Nat
  PROVE  Min({a, b}) = IF a <= b THEN a ELSE b
<1> DEFINE low == IF a <= b THEN a ELSE b
<1>1. low \in {a, b} /\ \A y \in {a, b} : low <= y
  OBVIOUS
<1>2. \A x \in {a, b} : (\A y \in {a, b} : x <= y) => x = low
  OBVIOUS
<1> HIDE DEF low
<1>3. Min({a, b}) \in {a, b} /\ \A y \in {a, b} : Min({a, b}) <= y
  BY <1>1, Zenon DEF Min
<1> QED
  BY <1>2, <1>3 DEF low

\* The first k of a sequence without repetition.
FirstOf(o, k) == {o[i] : i \in 1..k}

LEMMA FirstOfAreMany ==
  ASSUME NEW C, NEW o \in Seq(C), Injective(o), NEW k \in Nat, k <= Len(o)
  PROVE  /\ SubSeq(o, 1, k) \in Seq(C) /\ Len(SubSeq(o, 1, k)) = k
         /\ ToSet(SubSeq(o, 1, k)) = FirstOf(o, k)
         /\ Cardinality(FirstOf(o, k)) = k
<1> DEFINE s == SubSeq(o, 1, k)
           T == FirstOf(o, k)
           f == [i \in 1..k |-> o[i]]
<1>1. Len(o) \in Nat /\ k \in Nat /\ DOMAIN o = 1..Len(o) /\ 1..k \subseteq DOMAIN o
  OBVIOUS
<1>2. s \in Seq(C) /\ Len(s) = k /\ DOMAIN s = 1..k /\ \A i \in 1..k : s[i] = o[i]
  BY <1>1
<1>3. ToSet(s) = T
  BY <1>2 DEF ToSet, FirstOf
<1>4. \A i, j \in 1..k : f[i] = f[j] => i = j
  BY <1>1 DEF Injective
<1>5. f \in [1..k -> T] /\ \A t \in T : \E i \in 1..k : f[i] = t
  BY DEF FirstOf
<1> HIDE DEF f, T, s
<1>6. f \in Injection(1..k, T) /\ f \in Surjection(1..k, T)
  BY <1>4, <1>5 DEF Injection, IsInjective, Surjection
<1>7. IsFiniteSet(1..k) /\ Cardinality(1..k) = k
  BY <1>1, FS_Interval
<1>8. IsFiniteSet(T) /\ Cardinality(T) = k
  BY <1>6, <1>7, FS_Surjection
<1> QED
  BY <1>2, <1>3, <1>8 DEF s, T

\* What optimize() may answer of sorted candidates.
Offers(s) ==
  /\ s \in Seq(Candidates) /\ Cardinality(ToSet(s)) = Len(s)
  /\ Len(s) <= request.topK
  /\ \A c \in Candidates \ ToSet(s), d \in ToSet(s) : ~Beats(c, d)
  /\ Cardinality(fronts[1]) <= request.topK => fronts[1] \subseteq ToSet(s)
  /\ Cardinality(fronts[1]) > request.topK =>
       ToSet(s) \subseteq fronts[1] /\ Len(s) = request.topK

\* The first front is there, and is whoever is not dominated.
LEMMA TopFront ==
  ASSUME SortInv, sorted, Candidates # {}
  PROVE  /\ 1 \in DOMAIN fronts
         /\ fronts[1] = {c \in Candidates : \A i \in Candidates : ~Beats(i, c)}
         /\ IsFiniteSet(fronts[1]) /\ Cardinality(fronts[1]) \in Nat
         /\ IsFiniteSet(Candidates) /\ Cardinality(Candidates) \in Nat
         /\ Cardinality(fronts[1]) <= Cardinality(Candidates)
<1>1. /\ fronts \in Seq(SUBSET Candidates) /\ Len(fronts) \in Nat
      /\ DOMAIN fronts = 1..Len(fronts) /\ todo = {} /\ IsFiniteSet(Candidates)
  BY DEF SortInv, Layered, Population
<1>2. PICK g \in 1..(Len(fronts) + 1 - 1) : fronts[g] # {}
  BY DEF SortInv, Ahead
<1>3. 1 \in DOMAIN fronts
  BY <1>1, <1>2
<1>4. fronts[1] = Layer(1) /\ Ahead(1) = {}
  BY <1>1, <1>3 DEF SortInv, Layered, Ahead
<1>5. fronts[1] = {c \in Candidates : \A i \in Candidates : ~Beats(i, c)}
  BY <1>4 DEF Layer
<1>6. fronts[1] \in SUBSET Candidates
  BY <1>5
<1> QED
  BY <1>1, <1>3, <1>5, <1>6, FS_Subset, FS_CardinalityType

\* Cut by weighted sum, the answer is of the first front.
LEMMA CutOffers ==
  ASSUME SortInv, sorted, Candidates # {}, request.topK \in Nat,
         Cardinality(fronts[1]) > request.topK, NEW o \in SetToSeqs(fronts[1])
  PROVE  Offers(SubSeq(o, 1, Min({request.topK, Len(o)})))
<1> DEFINE k == request.topK
           s == SubSeq(o, 1, k)
<1>1. /\ o \in Seq(fronts[1]) /\ Len(o) = Cardinality(fronts[1]) /\ Injective(o)
      /\ fronts[1] \subseteq Candidates
  BY TopFront, ListsAll
<1>2. /\ Len(o) \in Nat /\ k \in Nat /\ k <= Len(o)
      /\ Min({k, Len(o)}) = k
  BY <1>1, TopFront, MinOfTwo
<1>3. o \in Seq(Candidates)
  BY <1>1
<1>4. s \in Seq(Candidates) /\ Len(s) = k /\ Cardinality(ToSet(s)) = k
  BY <1>1, <1>2, <1>3, FirstOfAreMany
<1>5. s \in Seq(fronts[1])
  BY <1>1, <1>2, FirstOfAreMany
<1>6. ToSet(s) \subseteq fronts[1]
  <2> HIDE DEF s
  <2>1. \A i \in DOMAIN s : s[i] \in fronts[1]
    BY <1>5
  <2> QED
    BY <2>1 DEF ToSet
<1>7. \A c \in Candidates, d \in ToSet(s) : ~Beats(c, d)
  BY <1>6, TopFront
<1>8. ~(Cardinality(fronts[1]) <= k)
  BY TopFront
<1> HIDE DEF s
<1>9. Offers(s)
  BY <1>2, <1>4, <1>6, <1>7, <1>8 DEF Offers
<1> QED
  BY <1>2, <1>9 DEF s

\* Cut by rank, the answer has the first fronts whole.
LEMMA RankedOffers ==
  ASSUME SortInv, sorted, Candidates # {}, request.topK \in Nat,
         ~(Cardinality(fronts[1]) > request.topK), NEW o, Ranked(o, Len(fronts))
  PROVE  Offers(SubSeq(o, 1, Min({request.topK, Len(o)})))
<1> DEFINE k == Min({request.topK, Len(o)})
           s == SubSeq(o, 1, k)
           n == Len(o)
<1>1. /\ fronts \in Seq(SUBSET Candidates) /\ Len(fronts) \in Nat
      /\ DOMAIN fronts = 1..Len(fronts) /\ todo = {}
      /\ \A f \in 1..Len(fronts) : fronts[f] = Layer(f)
  <2>1. todo = {} /\ fronts \in Seq(SUBSET Candidates)
    BY DEF SortInv, Layered
  <2>2. \A f \in DOMAIN fronts : fronts[f] = Layer(f)
    BY <2>1 DEF SortInv, Layered
  <2> QED
    BY <2>1, <2>2
<1>2. /\ o \in Seq(Candidates) /\ Injective(o) /\ ToSet(o) = Candidates
      /\ n \in Nat /\ DOMAIN o = 1..n
      /\ \A i, j \in 1..n, f \in 1..Len(fronts) :
           i < j /\ o[j] \in fronts[f] => o[i] \in Ahead(f + 1)
  <2>1. o \in Seq(Candidates) /\ Injective(o) /\ ToSet(o) = Candidates
    BY DEF Ranked, SortInv
  <2>2. \A i, j \in 1..n, f \in 1..Len(fronts) :
          i < j /\ o[j] \in fronts[f] => o[i] \in Ahead(f + 1)
    BY DEF Ranked
  <2> QED
    BY <2>1, <2>2
<1>3. FirstOf(o, n) = Candidates
  BY <1>2 DEF ToSet, FirstOf
<1>4. k \in Nat /\ k <= n /\ (k = n \/ k = request.topK) /\ k <= request.topK
  BY <1>2, MinOfTwo
<1>5. /\ s \in Seq(Candidates) /\ Len(s) = k /\ ToSet(s) = FirstOf(o, k)
      /\ Cardinality(ToSet(s)) = k
  <2>1. o \in Seq(Candidates) /\ Injective(o) /\ k \in Nat /\ k <= Len(o)
    BY <1>2, <1>4
  <2> HIDE DEF k
  <2> QED
    BY <2>1, FirstOfAreMany
<1> HIDE DEF s, k
<1>6. ASSUME NEW c \in Candidates \ ToSet(s), NEW d \in ToSet(s), Beats(c, d) PROVE FALSE
  <2>1. PICK i \in 1..k : d = o[i]
    BY <1>5 DEF FirstOf
  <2>2. PICK j \in 1..n : c = o[j]
    BY <1>3 DEF FirstOf
  <2>3. i \in 1..n /\ i < j /\ d \in Candidates
    BY <1>3, <1>4, <1>5, <1>6, <2>1, <2>2 DEF FirstOf
  <2>4. PICK g \in 1..Len(fronts) : d \in fronts[g]
    BY <2>3, <1>1 DEF SortInv, Ahead
  <2>5. c \in Ahead(g) /\ d \notin Ahead(g)
    BY <1>1, <1>6, <2>4 DEF Layer
  <2>6. PICK f \in 1..(g - 1) : c \in fronts[f]
    BY <2>5 DEF Ahead
  <2>7. f \in 1..Len(fronts) /\ d \in Ahead(f + 1)
    BY <1>1, <1>2, <2>1, <2>2, <2>3, <2>6
  <2>8. d \in Ahead(g)
    BY <1>1, <2>6, <2>7 DEF Ahead
  <2> QED
    BY <2>5, <2>8
<1>7. ASSUME Cardinality(fronts[1]) <= request.topK, NEW y \in fronts[1] PROVE y \in ToSet(s)
  <2>1. 1 \in 1..Len(fronts) /\ y \in Candidates /\ Ahead(2) = fronts[1]
    BY <1>1, TopFront DEF Ahead
  <2>2. PICK a \in 1..n : y = o[a]
    BY <1>3, <2>1 DEF FirstOf
  <2>3. \A i \in 1..a : o[i] \in fronts[1]
    BY <1>2, <1>7, <2>1, <2>2
  <2> DEFINE T == FirstOf(o, a)
  <2>4. T \in SUBSET fronts[1]
    BY <2>3 DEF FirstOf
  <2>5. Cardinality(T) = a
    <3>1. a \in Nat /\ a <= n
      BY <1>2
    <3> QED
      BY <1>2, <3>1, FirstOfAreMany
  <2> HIDE DEF T
  <2>6. a <= Cardinality(fronts[1])
    BY <2>4, <2>5, TopFront, FS_Subset
  <2>7. a \in 1..k
    <3>1. a \in Nat /\ 1 <= a /\ a <= n
      BY <1>2
    <3>2. Cardinality(fronts[1]) \in Nat
      BY TopFront
    <3>3. a <= request.topK
      BY <1>7, <2>6, <3>1, <3>2
    <3> QED
      BY <1>4, <3>1, <3>3
  <2> QED
    BY <1>5, <2>2, <2>7 DEF FirstOf
<1>8. Offers(s)
  BY <1>4, <1>5, <1>6, <1>7 DEF Offers
<1> QED
  BY <1>8 DEF s, k

\* Collapsing parallel routes keeps, for every path, one that is as light.
LEMMA CollapsedPath ==
  ASSUME CallInv, NEW m \in Criteria, NEW E \in Collapsed(m), NEW p \in Paths
  PROVE  \E q \in SimplePaths(E, request.origin, request.destination) :
           PathObjectives(q)[m] <= PathObjectives(p)[m]
<1> DEFINE Best(r, t) == E \cap Parallel(r) = {t}
                           /\ \A s \in Parallel(r) : EdgeMeta(t)[m] <= EdgeMeta(s)[m]
           q == [n \in DOMAIN p |-> CHOOSE t \in E : Best(p[n], t)]
<1>1. E \in SUBSET Active /\ \A r \in Active : \E t \in E : Best(r, t)
  BY DEF Collapsed
<1>2. p \in Seq(Active) /\ p \in [DOMAIN p -> Active]
  <2>1. Paths \subseteq Seq(Active)
    BY PathsFinite DEF CallInv, Paths
  <2>2. p \in Seq(Active)
    BY <2>1
  <2> QED
    BY <2>2
<1>3. ASSUME NEW n \in DOMAIN p
      PROVE  q[n] \in E /\ Best(p[n], q[n])
  <2>1. p[n] \in Active
    BY <1>2
  <2>2. \E t \in E : Best(p[n], t)
    BY <1>1, <2>1
  <2> HIDE DEF Best
  <2> QED
    BY <2>2
<1>4. DOMAIN q = DOMAIN p
  OBVIOUS
<1>5. q \in [DOMAIN p -> E]
  BY <1>3
<1> HIDE DEF q
<1>6. ASSUME NEW n \in DOMAIN p
      PROVE  /\ From[q[n]] = From[p[n]] /\ To[q[n]] = To[p[n]]
             /\ EdgeMeta(q[n])[m] <= EdgeMeta(p[n])[m]
  <2>1. q[n] \in Parallel(p[n]) /\ p[n] \in Parallel(p[n])
    BY <1>2, <1>3 DEF Parallel
  <2> QED
    BY <1>3, <2>1 DEF Parallel
<1>7. q \in SimplePaths(E, request.origin, request.destination)
  BY <1>5, <1>6, SameStops DEF Paths
<1>8. q \in Seq(Active)
  <2>1. q \in Seq(E)
    BY <1>1, <1>7, PathsFinite DEF CallInv
  <2> QED
    BY <1>1, <2>1
<1>9. PathObjectives(q)[m] <= PathObjectives(p)[m]
  BY <1>2, <1>4, <1>6, <1>8, LighterHops DEF CallInv
<1> QED
  BY <1>7, <1>9

\* Path p is as light as any by criterion m.
Lightest(p, m) == \A q \in Paths : PathObjectives(p)[m] <= PathObjectives(q)[m]

\* The paths taken by a criterion have one that is lightest by it.
LEMMA LightestTaken ==
  ASSUME CallInv, Paths # {}, NEW m \in Criteria, NEW S \in KShortestBy(m)
  PROVE  \E p \in S : Lightest(p, m)
<1>1. PICK E \in Collapsed(m) :
        LET P == SimplePaths(E, request.origin, request.destination)
        IN  /\ S \in SUBSET P /\ Cardinality(S) = Min({K, Cardinality(P)})
            /\ \A p \in S, q \in P \ S : PathObjectives(p)[m] <= PathObjectives(q)[m]
  BY DEF KShortestBy
<1> DEFINE P == SimplePaths(E, request.origin, request.destination)
<1>2. E \in SUBSET Active
  BY DEF Collapsed
<1>3. IsFiniteSet(P) /\ P \subseteq Seq(E)
  BY <1>2, PathsFinite DEF CallInv
<1>4. P # {}
  BY CollapsedPath
<1>5. ASSUME NEW p \in P PROVE PathObjectives(p)[m] \in Nat
  <2>1. p \in Seq(Active)
    BY <1>2, <1>3
  <2> QED
    BY <2>1, PathTyped DEF CallInv
<1>6. S \in SUBSET P /\ Cardinality(S) = Min({K, Cardinality(P)})
      /\ \A p \in S, q \in P \ S : PathObjectives(p)[m] <= PathObjectives(q)[m]
  BY <1>1
<1>7. S # {}
  <2>1. Cardinality(P) \in Nat /\ Cardinality(P) # 0 /\ K \in Nat \ {0}
    BY <1>3, <1>4, FS_CardinalityType, FS_EmptySet, OptimizerAssumption
  <2>2. Cardinality(S) # 0
    BY <1>6, <2>1, MinOfTwo
  <2> QED
    BY <2>2, FS_EmptySet
<1> DEFINE T == {PathObjectives(p)[m] : p \in S}
<1>8. T \in SUBSET Nat /\ T # {}
  BY <1>5, <1>6, <1>7
<1>9. PICK v \in T : \A w \in T : v <= w
  <2> HIDE DEF T
  <2> QED
    BY <1>8, LeastNumber
<1>10. PICK s \in S : v = PathObjectives(s)[m]
  BY <1>9
<1>11. ASSUME NEW p \in Paths PROVE PathObjectives(s)[m] <= PathObjectives(p)[m]
  <2>1. PICK q \in P : PathObjectives(q)[m] <= PathObjectives(p)[m]
    BY CollapsedPath
  <2>2. PathObjectives(s)[m] <= PathObjectives(q)[m]
    BY <1>6, <1>9, <1>10
  <2>3. PathObjectives(p)[m] \in Nat
    BY PathsFinite, PathTyped DEF CallInv, Paths
  <2>4. PathObjectives(s)[m] \in Nat /\ PathObjectives(q)[m] \in Nat
    BY <1>5, <1>6
  <2> QED
    BY <2>1, <2>2, <2>3, <2>4
<1> QED
  BY <1>11 DEF Lightest

\* The call's history: the seeds hold an optimum of each criterion, the candidates hold the seeds,
\* and the answer was chosen from the fronts.
OfferInv ==
  /\ answer \in [status : {0, 200, 404, 500, 503}, chosen : Seq(Candidates)]
  /\ phase # "answered" => answer.status = 0 /\ answer.chosen = <<>>
  /\ phase \in {"seeded", "sorting"} =>
       /\ {request.origin, request.destination} \subseteq Nodes
       /\ \A m \in Criteria : \E p \in seeds[m] : Lightest(p, m)
  /\ phase = "sorting" => /\ objs = [p \in Candidates |-> PathObjectives(p)]
                          /\ \A m \in Criteria : seeds[m] \subseteq Candidates
  /\ AnswerSound /\ NothingBetterLeftOut /\ OptimumOffered

LEMMA OfferInvInit == Init => OfferInv
<1> SUFFICES ASSUME Init PROVE OfferInv
  OBVIOUS
<1>1. phase = "called" /\ answer = [status |-> 0, chosen |-> <<>>]
  BY DEF Init
<1>2. Chosen = {}
  BY <1>1 DEF Chosen, ToSet
<1> QED
  BY <1>1, <1>2 DEF OfferInv, AnswerSound, NothingBetterLeftOut, OptimumOffered

\* An answer that offers nothing.
LEMMA RefusalKeeps ==
  ASSUME CallInv, OfferInv, Decline \/ NoPathRaised
  PROVE  OfferInv'
<1>1. /\ phase' = "answered" /\ answer'.chosen = <<>>
      /\ answer' = [status |-> answer'.status, chosen |-> <<>>]
      /\ answer'.status \in {404, 500, 503}
      /\ UNCHANGED <<sortVars, mode, multiplier, request, seeds>>
      /\ \/ ~({request.origin, request.destination} \subseteq Nodes)
         \/ Paths = {}
  <2>1. CASE Decline
    BY <2>1 DEF Decline, Answer
  <2>2. CASE NoPathRaised
    BY <2>2 DEF NoPathRaised, Answer, Paths
  <2> QED
    BY <2>1, <2>2
<1>2. Active' = Active /\ Nodes' = Nodes /\ Paths' = Paths /\ Candidates' = Candidates
  BY <1>1 DEF Active, Nodes, Paths, SimplePaths, Candidates, sortVars
<1>3. Chosen' = {}
  BY <1>1 DEF Chosen, ToSet
<1>4. answer' \in [status : {0, 200, 404, 500, 503}, chosen : Seq(Candidates')]
  <2> DEFINE S == Seq(Candidates')
             t == answer'.status
  <2>1. <<>> \in S /\ t \in {0, 200, 404, 500, 503}
    BY <1>1
  <2>2. answer' = [status |-> t, chosen |-> <<>>]
    BY <1>1
  <2> HIDE DEF S, t
  <2> QED
    BY <2>1, <2>2
<1>5. AnswerSound'
  BY <1>1, <1>2 DEF AnswerSound
<1>6. NothingBetterLeftOut'
  BY <1>3 DEF NothingBetterLeftOut
<1>7. OptimumOffered'
  BY <1>1 DEF OptimumOffered
<1> QED
  BY <1>1, <1>4, <1>5, <1>6, <1>7 DEF OfferInv

LEMMA SeedKeeps ==
  ASSUME CallInv, OfferInv, Seed
  PROVE  OfferInv'
<1>1. /\ UNCHANGED <<sortVars, mode, multiplier, request, answer>>
      /\ phase = "called" /\ phase' = "seeded"
      /\ {request.origin, request.destination} \subseteq Nodes /\ Paths # {}
  BY DEF Seed, Paths
<1>2. PICK x \in KShortestBy("co2"), y \in KShortestBy("cost"), z \in KShortestBy("time") :
        seeds' = [co2 |-> x, cost |-> y, time |-> z]
  BY DEF Seed
<1>3. \A m \in Criteria : seeds'[m] \in KShortestBy(m)
  BY <1>2 DEF Criteria
<1>4. ASSUME NEW m \in Criteria PROVE \E p \in seeds'[m] : Lightest(p, m)
  BY <1>1, <1>3, LightestTaken
<1>5. /\ Active' = Active /\ Nodes' = Nodes /\ Paths' = Paths /\ Candidates' = Candidates
      /\ \A r : EdgeMeta(r)' = EdgeMeta(r)
  BY <1>1 DEF Active, Nodes, Paths, SimplePaths, Candidates, sortVars, EdgeMeta
<1>6. \A p : PathObjectives(p)' = PathObjectives(p)
  BY <1>5 DEF PathObjectives
<1>7. \A p, m : Lightest(p, m)' = Lightest(p, m)
  BY <1>5, <1>6 DEF Lightest
<1>8. answer'.status = 0 /\ answer'.chosen = <<>> /\ phase' # "answered"
  BY <1>1 DEF OfferInv
<1>9. (AnswerSound /\ NothingBetterLeftOut /\ OptimumOffered)'
  <2>1. Chosen' = {}
    BY <1>8 DEF Chosen, ToSet
  <2> QED
    BY <1>8, <2>1 DEF AnswerSound, NothingBetterLeftOut, OptimumOffered
<1> QED
  BY <1>1, <1>4, <1>5, <1>7, <1>8, <1>9 DEF OfferInv

LEMMA EvolveKeeps ==
  ASSUME CallInv, OfferInv, Evolve
  PROVE  OfferInv'
<1>1. /\ UNCHANGED <<mode, multiplier, request, seeds, answer>>
      /\ phase = "seeded" /\ phase' = "sorting"
  BY DEF Evolve
<1>2. PICK offspring \in SUBSET UNION {Mutations(p) : p \in Seeds} :
        SortOf([p \in Seeds \cup offspring |-> PathObjectives(p)])
  BY DEF Evolve
<1>3. objs' = [p \in Seeds \cup offspring |-> PathObjectives(p)]
  BY <1>2 DEF SortOf
<1>4. Candidates' = Seeds \cup offspring
  BY <1>3 DEF Candidates
<1>5. \A m \in Criteria : seeds'[m] \subseteq Candidates'
  BY <1>1, <1>4 DEF Seeds, Criteria
<1>6. /\ Active' = Active /\ Nodes' = Nodes /\ Paths' = Paths
      /\ \A r : EdgeMeta(r)' = EdgeMeta(r)
  BY <1>1 DEF Active, Nodes, Paths, SimplePaths, EdgeMeta
<1>7. \A p : PathObjectives(p)' = PathObjectives(p)
  BY <1>6 DEF PathObjectives
<1>8. \A p, m : Lightest(p, m)' = Lightest(p, m)
  BY <1>6, <1>7 DEF Lightest
<1>9. objs' = [p \in Candidates' |-> PathObjectives(p)']
  BY <1>3, <1>4, <1>7
<1>10. answer'.status = 0 /\ answer'.chosen = <<>> /\ phase' # "answered"
  BY <1>1 DEF OfferInv
<1>11. answer' \in [status : {0, 200, 404, 500, 503}, chosen : Seq(Candidates')]
  <2>1. answer = [status |-> 0, chosen |-> <<>>]
    BY <1>1, <1>10 DEF OfferInv
  <2> QED
    BY <1>1, <2>1
<1>12. (AnswerSound /\ NothingBetterLeftOut /\ OptimumOffered)'
  <2>1. Chosen' = {}
    BY <1>10 DEF Chosen, ToSet
  <2> QED
    BY <1>10, <2>1 DEF AnswerSound, NothingBetterLeftOut, OptimumOffered
<1> QED
  BY <1>1, <1>5, <1>6, <1>8, <1>9, <1>10, <1>11, <1>12 DEF OfferInv

LEMMA SortKeepsOffer ==
  ASSUME CallInv, OfferInv, Sort
  PROVE  OfferInv'
<1>1. UNCHANGED <<objs, mode, multiplier, request, seeds, answer, phase>> /\ phase = "sorting"
  BY DEF Sort, SortStep, Compare, Peel, Finish, optVars
<1>2. /\ Active' = Active /\ Nodes' = Nodes /\ Paths' = Paths /\ Candidates' = Candidates
      /\ \A r : EdgeMeta(r)' = EdgeMeta(r)
  BY <1>1 DEF Active, Nodes, Paths, SimplePaths, Candidates, EdgeMeta
<1>3. \A p : PathObjectives(p)' = PathObjectives(p)
  BY <1>2 DEF PathObjectives
<1>4. \A p, m : Lightest(p, m)' = Lightest(p, m)
  BY <1>2, <1>3 DEF Lightest
<1>5. answer'.status = 0 /\ answer'.chosen = <<>> /\ phase' # "answered"
  BY <1>1 DEF OfferInv
<1>6. (AnswerSound /\ NothingBetterLeftOut /\ OptimumOffered)'
  <2>1. Chosen' = {}
    BY <1>5 DEF Chosen, ToSet
  <2> QED
    BY <1>5, <2>1 DEF AnswerSound, NothingBetterLeftOut, OptimumOffered
<1>7. objs' = [p \in Candidates' |-> PathObjectives(p)']
  BY <1>1, <1>2, <1>3 DEF OfferInv
<1> QED
  BY <1>1, <1>2, <1>4, <1>5, <1>6, <1>7 DEF OfferInv

\* Whichever way it cuts, Choose offers of the sorted candidates.
LEMMA ChooseOffers ==
  ASSUME CallInv, OfferInv, Choose
  PROVE  answer'.status = 200 /\ Offers(answer'.chosen)
<1>1. sorted /\ SortInv /\ request.topK \in Nat
  BY OptimizerAssumption DEF Choose, CallInv
<1>2. Candidates # {}
  BY DEF Choose, OfferInv, Criteria
<1>3. PICK o \in IF Cardinality(fronts[1]) > request.topK
                 THEN SortedBy(fronts[1], [c \in fronts[1] |-> Score(fronts[1], c)])
                 ELSE Rankings :
        Answer(200, SubSeq(o, 1, Min({request.topK, Len(o)})))
  BY Zenon DEF Choose
<1>4. Offers(SubSeq(o, 1, Min({request.topK, Len(o)})))
  <2>1. CASE Cardinality(fronts[1]) > request.topK
    <3>1. o \in SetToSeqs(fronts[1])
      BY <1>3, <2>1 DEF SortedBy
    <3> QED
      BY <1>1, <1>2, <2>1, <3>1, CutOffers
  <2>2. CASE ~(Cardinality(fronts[1]) > request.topK)
    <3>1. Ranked(o, Len(fronts))
      BY <1>1, <1>3, <2>2, RankingsRanked
    <3> QED
      BY <1>1, <1>2, <2>2, <3>1, RankedOffers
  <2> QED
    BY <2>1, <2>2
<1> QED
  BY <1>3, <1>4 DEF Answer

LEMMA ChooseKeeps ==
  ASSUME CallInv, OfferInv, Choose
  PROVE  OfferInv'
<1> DEFINE s == answer'.chosen
<1>1. /\ UNCHANGED <<sortVars, mode, multiplier, request, seeds>>
      /\ phase = "sorting" /\ phase' = "answered" /\ sorted /\ SortInv
  BY DEF Choose, Answer, CallInv
<1>2. answer'.status = 200 /\ Offers(s) /\ answer' = [status |-> 200, chosen |-> s]
  <2>1. answer' = [status |-> answer'.status, chosen |-> answer'.chosen]
    BY DEF Choose, Answer
  <2> QED
    BY <2>1, ChooseOffers
<1>3. /\ Active' = Active /\ Nodes' = Nodes /\ Paths' = Paths /\ Candidates' = Candidates
      /\ objs' = objs /\ fronts' = fronts /\ request' = request
      /\ \A r : EdgeMeta(r)' = EdgeMeta(r)
  BY <1>1 DEF Active, Nodes, Paths, SimplePaths, Candidates, sortVars, EdgeMeta
<1>4. \A p : PathObjectives(p)' = PathObjectives(p)
  BY <1>3 DEF PathObjectives
<1>5. Chosen' = ToSet(s) /\ Candidates \subseteq Paths /\ ToSet(s) \subseteq Candidates
  <2>1. s \in Seq(Candidates)
    BY <1>2 DEF Offers
  <2>2. \A i \in DOMAIN s : s[i] \in Candidates
    <3> HIDE DEF s
    <3> QED
      BY <2>1
  <2> QED
    BY <2>2 DEF Chosen, ToSet, CallInv
<1>6. /\ {request.origin, request.destination} \subseteq Nodes
      /\ \A m \in Criteria : \E p \in Candidates : Lightest(p, m)
      /\ objs = [p \in Candidates |-> PathObjectives(p)]
  BY <1>1 DEF OfferInv
<1>7. Candidates # {} /\ Paths # {}
  BY <1>5, <1>6 DEF Criteria
<1> HIDE DEF s
<1>8. answer' \in [status : {0, 200, 404, 500, 503}, chosen : Seq(Candidates')]
  BY <1>2, <1>3 DEF Offers
<1>9. AnswerSound'
  <2>1. Cardinality(fronts[1]) \in Nat /\ request.topK \in Nat
    BY <1>1, <1>7, TopFront, OptimizerAssumption DEF CallInv
  <2>2. \/ fronts[1] \subseteq ToSet(s)
        \/ ToSet(s) \subseteq fronts[1] /\ Len(s) = request.topK
    BY <1>2, <2>1 DEF Offers
  <2> QED
    BY <1>1, <1>2, <1>3, <1>5, <1>6, <1>7, <2>2 DEF AnswerSound, Offers, s
<1>10. NothingBetterLeftOut'
  BY <1>2, <1>3, <1>5 DEF NothingBetterLeftOut, Offers, Beats
<1>11. OptimumOffered'
  <2> SUFFICES ASSUME Cardinality(fronts[1]) <= request.topK, NEW m \in Criteria
               PROVE  \E c \in ToSet(s) : Lightest(c, m)
    BY <1>3, <1>4, <1>5 DEF OptimumOffered, Lightest
  <2>1. PICK x \in Candidates : Lightest(x, m)
    BY <1>6
  \* Whoever is not dominated among x and its dominators is of the first front.
  <2> DEFINE T == {i \in Candidates : i = x \/ Beats(i, x)}
  <2>2. Population /\ T \in SUBSET Candidates /\ T # {}
    BY <1>1 DEF SortInv
  <2>3. PICK y \in T : \A i \in T : ~Beats(i, y)
    <3> HIDE DEF T
    <3> QED
      BY <2>2, SomeoneUnbeaten
  <2>4. \A i \in Candidates : ~Beats(i, y)
    BY <2>2, <2>3, BeatsIsStrict
  <2>5. y \in fronts[1]
    BY <1>1, <1>7, <2>3, <2>4, TopFront
  <2>6. y \in ToSet(s)
    BY <1>2, <2>5 DEF Offers
  <2>7. PathObjectives(y)[m] <= PathObjectives(x)[m]
    <3>1. objs[x][m] \in Nat /\ objs[y][m] \in Nat
      BY <2>2 DEF Population, Vector
    <3>2. objs[y][m] <= objs[x][m]
      BY <2>3, <3>1 DEF Beats, Dominates
    <3> QED
      BY <1>6, <2>3, <3>2
  <2>8. ASSUME NEW p \in Paths PROVE PathObjectives(y)[m] <= PathObjectives(p)[m]
    <3>1. \A q \in Paths : PathObjectives(q)[m] \in Nat
      BY PathsFinite, PathTyped DEF CallInv, Paths
    <3>2. x \in Paths /\ y \in Paths
      BY <1>5, <2>3
    <3>3. PathObjectives(x)[m] <= PathObjectives(p)[m]
      BY <2>1 DEF Lightest
    <3> QED
      BY <2>7, <3>1, <3>2, <3>3
  <2> QED
    BY <2>6, <2>8 DEF Lightest
<1> QED
  BY <1>1, <1>8, <1>9, <1>10, <1>11 DEF OfferInv

LEMMA OfferInvKept == CallInv /\ OfferInv /\ [Next]_vars => OfferInv'
<1> SUFFICES ASSUME CallInv, OfferInv, [Next]_vars PROVE OfferInv'
  OBVIOUS
<1>1. CASE UNCHANGED vars
  <2>1. /\ Active' = Active /\ Nodes' = Nodes /\ Paths' = Paths /\ Candidates' = Candidates
        /\ Chosen' = Chosen /\ \A r : EdgeMeta(r)' = EdgeMeta(r)
    BY <1>1 DEF vars, optVars, sortVars, Active, Nodes, Paths, SimplePaths, Candidates, Chosen,
                EdgeMeta
  <2>2. \A p : PathObjectives(p)' = PathObjectives(p)
    BY <2>1 DEF PathObjectives
  <2>3. \A p, m : Lightest(p, m)' = Lightest(p, m)
    BY <2>1, <2>2 DEF Lightest
  <2>4. AnswerSound' /\ NothingBetterLeftOut' /\ OptimumOffered'
    BY <1>1, <2>1, <2>2 DEF OfferInv, AnswerSound, NothingBetterLeftOut, OptimumOffered, vars,
                            optVars, sortVars
  <2>5. objs' = objs /\ (objs = [p \in Candidates |-> PathObjectives(p)]
                           => objs' = [p \in Candidates' |-> PathObjectives(p)'])
    BY <1>1, <2>1, <2>2 DEF vars, sortVars
  <2> QED
    BY <1>1, <2>1, <2>3, <2>4, <2>5 DEF OfferInv, vars, optVars
<1> QED
  BY <1>1, RefusalKeeps, SeedKeeps, EvolveKeeps, SortKeepsOffer, ChooseKeeps DEF Next

LEMMA InvsHold == Spec => [](CallInv /\ OfferInv)
  BY CallInvInit, CallInvKept, OfferInvInit, OfferInvKept, PTL DEF Spec

-------------------------------------------------------------------------------
\* Theorems.

\* Seeds and candidates are paths over active routes, the counts of the sort never leave the
\* number of candidates, and an answer is one of the statuses with a list of candidates.
THEOREM OptimizerTypeCorrect == Spec => []TypeOK
<1>1. CallInv /\ OfferInv => TypeOK
  <2> SUFFICES ASSUME CallInv, OfferInv PROVE TypeOK
    OBVIOUS
  <2>1. Paths \subseteq Seq(Active)
    BY PathsFinite DEF CallInv, Paths
  <2>2. seeds \in [Criteria -> SUBSET Seq(Active)] /\ Candidates \subseteq Seq(Active)
    BY <2>1 DEF CallInv
  <2> QED
    BY <2>2 DEF TypeOK, CallInv, OfferInv
<1> QED
  BY <1>1, InvsHold, PTL

\* Whatever the routes, the fleet, the forecasts of the GNN and the mutations: when the sort
\* returns, its fronts are the layers of dominance of the candidates (nsga2.py:20).
THEOREM FrontsOfEveryCall == Spec => []FrontsAreLayers
<1>1. CallInv => FrontsAreLayers
  <2> SUFFICES ASSUME CallInv, sorted PROVE FrontsAreLayers
    BY DEF FrontsAreLayers
  <2> QED
    BY SortInvImplies DEF CallInv
<1> QED
  BY <1>1, InvsHold, PTL

\* A call is answered with different simple paths over active routes, exactly when there is one
\* and both hubs are on a route; they are no more than were asked for, and a path of a later
\* front comes only after the whole first front (optimizer.py:157).
THEOREM AnswersAreSound == Spec => []AnswerSound
<1>1. OfferInv => AnswerSound
  BY DEF OfferInv
<1> QED
  BY <1>1, InvsHold, PTL

\* Whichever way the best are chosen, no candidate left out dominates one that was chosen
\* (optimizer.py:217-229).
THEOREM NoDominatorLeftOut == Spec => []NothingBetterLeftOut
<1>1. OfferInv => NothingBetterLeftOut
  BY DEF OfferInv
<1> QED
  BY <1>1, InvsHold, PTL

\* Collapsing parallel routes, taking K paths by each criterion and sorting lose no optimum of
\* the multigraph, as long as the first front is not cut (optimizer.py:163-166).
THEOREM OptimaAreOffered == Spec => []OptimumOffered
<1>1. OfferInv => OptimumOffered
  BY DEF OfferInv
<1> QED
  BY <1>1, InvsHold, PTL
================================================================================

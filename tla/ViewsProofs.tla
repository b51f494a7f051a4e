------------------------------ MODULE ViewsProofs ------------------------------
(***************************************************************************)
(* Theorems about Views, for any hubs, routes, suppliers, horizons and     *)
(* number of changes: no view shows an answer to another question than its *)
(* last one; what is drawn was laid out, and the page goes blank only over *)
(* routes that are newer than the hubs.                                    *)
(***************************************************************************)
EXTENDS Views, TLAPS

\* The cache holds under a key what was asked under it, since a query in flight carries the key
\* it was asked for; a mutation's data are those of the ask it still holds.  (The first conjunct
\* says that the two are records, for the steps that replace single fields.)
ShownInv ==
  /\ DOMAIN optimize = DOMAIN NothingAsked /\ DOMAIN forecast = DOMAIN NothingAsked
  /\ optimize.shown \in {None, optimize.asked}
  /\ forecast.shown \in {None, forecast.asked}
  /\ DOMAIN history = Routes /\ \A k \in Routes : history[k] \in {None, k}
  /\ \A f \in fetching : f[1] = f[2]
  /\ selected \in Routes \cup {None}

LEMMA ShownInvImplies == ShownInv => ShownIsAsked
  BY DEF ShownInv, ShownIsAsked, HistoryShown, HistoryKey

LEMMA ShownInvInit == Init => ShownInv
  BY DEF Init, ShownInv, NothingAsked

\* What unmounting resets suits any cache.
LEMMA UnmountKeeps ==
  ASSUME ShownInv, Unmount, history' = history,
         \A f \in fetching' : f \in fetching \/ f[1] = f[2]
  PROVE  ShownInv'
  BY DEF ShownInv, Unmount, NothingAsked

LEMMA EventKeeps ==
  ASSUME ShownInv, Event
  PROVE  ShownInv'
<1>1. ASSUME NEW v \in ViewNames, Navigate(v) PROVE ShownInv'
  BY <1>1, UnmountKeeps DEF Navigate
<1>2. ASSUME NEW q \in Queries, Arrives(q) PROVE ShownInv'
  BY <1>2 DEF Arrives, ShownInv, forecastVars
<1>3. ASSUME NEW f \in fetching, FetchFails(f) PROVE ShownInv'
  BY <1>3 DEF FetchFails, ShownInv, forecastVars, networkVars
<1>4. ASSUME NEW f \in fetching, HistoryArrives(f) PROVE ShownInv'
  <2>1. f[1] = f[2] /\ f[1] \in Routes
    BY <1>4 DEF ShownInv, HistoryArrives
  <2>2. \A k \in Routes : history'[k] = IF k = f[1] THEN f[1] ELSE history[k]
    BY <1>4, <2>1 DEF ShownInv, HistoryArrives
  <2>3. DOMAIN history' = Routes
    BY <1>4 DEF ShownInv, HistoryArrives
  <2> QED
    BY <1>4, <2>2, <2>3 DEF ShownInv, HistoryArrives, forecastVars, networkVars
<1>5. CASE Changes \/ ScoreUpdate \/ Zoom
  BY <1>5 DEF Changes, ScoreUpdate, Zoom, Network, ShownInv, forecastVars, networkVars
<1>6. ASSUME NEW h \in Hubs, PickHub(h) PROVE ShownInv'
  BY <1>6 DEF PickHub, Network, ShownInv, forecastVars
<1>7. CASE Optimize \/ Clear
  <2>1. optimize'.shown = None /\ DOMAIN optimize' = DOMAIN NothingAsked
    BY <1>7 DEF Optimize, Clear, ShownInv, NothingAsked
  <2> QED
    BY <1>7, <2>1 DEF Optimize, Clear, Network, ShownInv, forecastVars
<1>8. CASE OptimizeEnds
  <2>1. optimize'.shown \in {None, optimize'.asked} /\ DOMAIN optimize' = DOMAIN NothingAsked
    BY <1>8 DEF OptimizeEnds, ShownInv, NothingAsked
  <2> QED
    BY <1>8, <2>1 DEF OptimizeEnds, Network, ShownInv, forecastVars
<1>9. ASSUME NEW r \in Routes, SelectRoute(r) PROVE ShownInv'
  <2>1. \A f \in fetching' : f \in fetching \/ f = <<r, r>>
    BY <1>9 DEF SelectRoute, HistoryKey
  <2> QED
    BY <1>9, <2>1 DEF SelectRoute, ShownInv, forecastVars, networkVars
<1>10. CASE ChooseForecast
  BY <1>10 DEF ChooseForecast, Forecast, ShownInv, networkVars
<1>11. CASE RunForecast
  BY <1>11 DEF RunForecast, Forecast, ShownInv, NothingAsked, networkVars
<1>12. CASE ForecastEnds
  <2>1. forecast'.shown \in {None, forecast'.asked} /\ DOMAIN forecast' = DOMAIN NothingAsked
    BY <1>12 DEF ForecastEnds, ShownInv, NothingAsked
  <2> QED
    BY <1>12, <2>1 DEF ForecastEnds, Forecast, ShownInv, networkVars
<1> QED
  BY <1>1, <1>2, <1>3, <1>4, <1>5, <1>6, <1>7, <1>8, <1>9, <1>10, <1>11, <1>12 DEF Event

\* Whatever fails, is slow, is cleared, clicked or left in between, in any order: what is on
\* screen answers the last question of the visit (NetworkGraph.tsx onOptimize, ForecastView.tsx's
\* mutation, OperationsMap.tsx's history query).
THEOREM AnswersAreForTheAsk == Spec => []ShownIsAsked
<1>1. ShownInv /\ [Next]_vars => ShownInv'
  <2> SUFFICES ASSUME ShownInv, [Next]_vars PROVE ShownInv'
    OBVIOUS
  <2>1. CASE Event
    BY <2>1, EventKeeps
  <2>2. CASE Reload
    BY <2>2 DEF Reload, Unmount, NothingAsked, ShownInv
  <2>3. CASE UNCHANGED vars
    BY <2>3 DEF vars, networkVars, forecastVars, ShownInv
  <2> QED
    BY <2>1, <2>2, <2>3 DEF Next
<1> QED
  BY <1>1, ShownInvInit, ShownInvImplies, PTL DEF Spec

-------------------------------------------------------------------------------
\* Types, and what goes with a view that is not mounted.  TypeOK is inductive.

Versions == 0..MaxVersion
Data == [Queries -> Versions]
Fetches == {<<q, q>> : q \in Queries} \cup (Routes \X Routes)
GraphState ==
  [seen : BOOLEAN, nodes : Versions \X Versions, laid : BOOLEAN, drawn : BOOLEAN,
   thrown : BOOLEAN]
Pick == [from : Hubs \cup {None}, to : Hubs \cup {None}]
Optimizing ==
  [asked : (Hubs \X Hubs) \cup {None}, pending : BOOLEAN, shown : (Hubs \X Hubs) \cup {None}]
Forecasting ==
  [asked : (Suppliers \X Horizons) \cup {None}, pending : BOOLEAN,
   shown : (Suppliers \X Horizons) \cup {None}]

\* A graph as it is while the page is up: what is drawn has been laid out, and nothing was
\* thrown unless the routes d holds are newer than its hubs.
Sound(g, d) ==
  /\ g \in GraphState
  /\ g.drawn => g.laid
  /\ g.thrown => d["routes"] > d["hubs"]

LEMMA VersionsAssumed == MaxVersion \in Nat /\ 0 \in Versions /\ 1 \in 1..MaxVersion
  BY ViewsAssumption DEF Versions

LEMMA NewGraphSound == \A d : Sound(NewGraph, d)
<1>1. NoNodes \in Versions \X Versions
  BY VersionsAssumed DEF NoNodes
<1> QED
  BY <1>1 DEF Sound, NewGraph, GraphState

\* A render, whatever it finds, leaves a graph that is sound for the data it rendered.
LEMMA RenderedSound ==
  ASSUME NEW g \in GraphState, NEW d \in Data
  PROVE  Sound(Rendered(g, d), d)
<1> DEFINE nodes == NodesOf(d)
           effect == g.seen /\ nodes[1] >= Seeded /\ ~(g.laid /\ nodes = g.nodes)
<1>1. d["hubs"] \in Versions /\ d["routes"] \in Versions
  BY DEF Data, Queries
<1>2. nodes \in Versions \X Versions
  BY <1>1, VersionsAssumed DEF NodesOf, NoNodes
<1>3. Unknown(nodes) => d["routes"] > d["hubs"]
  BY <1>1 DEF Unknown, NodesOf, NoNodes
<1>4. Rendered(g, d) = After(g, nodes, effect)
  BY DEF Rendered
<1>5. g.laid \in BOOLEAN /\ g.seen \in BOOLEAN
  BY DEF GraphState
<1> HIDE DEF nodes
<1>6. After(g, nodes, effect) \in GraphState
  BY <1>2, <1>5 DEF After, GraphState, Unknown
<1>7. After(g, nodes, effect).drawn => After(g, nodes, effect).laid
  BY DEF After
<1>8. After(g, nodes, effect).thrown => Unknown(nodes)
  BY DEF After
<1> QED
  BY <1>3, <1>4, <1>6, <1>7, <1>8 DEF Sound

TypeInv ==
  /\ view \in ViewNames /\ server \in 1..MaxVersion
  /\ data \in Data
  /\ history \in [Routes -> Routes \cup {None}]
  /\ fetching \subseteq Fetches
  /\ Sound(graph, data)
  /\ graph.thrown => view = "network"
  /\ picked \in Pick
  /\ optimize \in Optimizing
  /\ selected \in Routes \cup {None}
  /\ supplier \in Suppliers \cup {None} /\ horizon \in Horizons
  /\ forecast \in Forecasting
  /\ view # "network" => graph = NewGraph /\ optimize = NothingAsked
  /\ view # "forecast" => forecast = NothingAsked

LEMMA TypeInvImplies == TypeInv => TypeOK
  BY DEF TypeInv, TypeOK, Data, Versions, Fetches, Sound, GraphState, Pick, Optimizing,
         Forecasting

\* What Unmount leaves, and Init starts from.
LEMMA FreshTyped ==
  /\ NoPick \in Pick
  /\ NothingAsked \in Optimizing /\ NothingAsked \in Forecasting
  /\ FirstHorizon \in Horizons
<1>1. FirstHorizon \in Horizons
  BY ViewsAssumption DEF FirstHorizon
<1> QED
  BY <1>1 DEF NoPick, Pick, NothingAsked, Optimizing, Forecasting

LEMMA TypeInvInit == Init => TypeInv
<1> SUFFICES ASSUME Init PROVE TypeInv
  OBVIOUS
<1>1. data \in Data /\ server \in 1..MaxVersion
  BY VersionsAssumed DEF Init, Data
<1>2. Sound(graph, data) /\ ~graph.thrown
  BY NewGraphSound DEF Init, NewGraph
<1> QED
  BY <1>1, <1>2, FreshTyped DEF Init, TypeInv, ViewNames

\* The steps of the network view that render and leave the view, the cache and the other views
\* alone keep the types if its pick and its question have theirs.
LEMMA NetworkTyped ==
  ASSUME TypeInv, Network, graph' = Rendered(graph, data), picked' \in Pick,
         optimize' \in Optimizing
  PROVE  TypeInv'
<1>1. Sound(graph', data')
  BY RenderedSound DEF TypeInv, Sound, Network
<1> QED
  BY <1>1 DEF TypeInv, Network, forecastVars

LEMMA EventTyped ==
  ASSUME TypeInv, ~graph.thrown, Event
  PROVE  TypeInv'
<1>1. ASSUME NEW v \in ViewNames, Navigate(v) PROVE TypeInv'
  <2>1. v \in ViewNames /\ QueriesOf[v] \subseteq Queries
    BY DEF QueriesOf, ViewNames, Queries
  <2>2. fetching' \subseteq Fetches
    BY <1>1, <2>1 DEF Navigate, TypeInv, Fetches
  <2>3. NewGraph \in GraphState
    BY NewGraphSound DEF Sound
  <2>4. Sound(graph', data') /\ (v # "network" => graph' = NewGraph)
    BY <1>1, <2>3, NewGraphSound, RenderedSound DEF Navigate, TypeInv
  <2>5. graph'.thrown => v = "network"
    BY <2>4 DEF NewGraph
  <2> QED
    BY <1>1, <2>1, <2>2, <2>4, <2>5, FreshTyped DEF Navigate, Unmount, TypeInv
<1>2. ASSUME NEW q \in Queries, Arrives(q) PROVE TypeInv'
  <2>1. PICK n \in data[q]..server :
          /\ data' = [data EXCEPT ![q] = n]
          /\ graph' = IF view = "network" /\ q \in QueriesOf[view] /\ data[q] # n
                      THEN Rendered(graph, data') ELSE graph
    BY <1>2 DEF Arrives
  <2>2. data[q] \in Versions /\ server \in Versions
    BY VersionsAssumed DEF TypeInv, Data, Versions
  <2>3. data' \in Data
    BY <2>1, <2>2, VersionsAssumed DEF TypeInv, Data, Versions
  <2>4. CASE graph' = graph
    BY <1>2, <2>3, <2>4 DEF Arrives, TypeInv, Sound, forecastVars
  <2>5. CASE view = "network" /\ graph' = Rendered(graph, data')
    <3>1. Sound(graph', data')
      BY <2>3, <2>5, RenderedSound DEF TypeInv, Sound
    <3> QED
      BY <1>2, <2>3, <2>5, <3>1 DEF Arrives, TypeInv, forecastVars
  <2> QED
    BY <2>1, <2>4, <2>5
<1>3. ASSUME NEW f \in fetching, FetchFails(f) PROVE TypeInv'
  BY <1>3 DEF FetchFails, TypeInv, forecastVars, networkVars
<1>4. ASSUME NEW f \in fetching, HistoryArrives(f) PROVE TypeInv'
  <2>1. f[1] \in Routes /\ f[2] \in Routes
    BY <1>4 DEF HistoryArrives, TypeInv, Fetches
  <2> QED
    BY <1>4, <2>1 DEF HistoryArrives, TypeInv, forecastVars, networkVars
<1>5. CASE Changes
  <2>1. server' \in 1..MaxVersion
    BY <1>5, VersionsAssumed DEF Changes, TypeInv
  <2> QED
    BY <1>5, <2>1 DEF Changes, TypeInv, forecastVars, networkVars
<1>6. CASE ScoreUpdate \/ Zoom
  BY <1>6, NetworkTyped DEF ScoreUpdate, Zoom, Render, Network, TypeInv
<1>7. ASSUME NEW h \in Hubs, PickHub(h) PROVE TypeInv'
  <2>1. picked' \in Pick
    BY <1>7 DEF PickHub, TypeInv, Pick
  <2> QED
    BY <1>7, <2>1, NetworkTyped DEF PickHub, Render, TypeInv
<1>8. CASE Optimize
  <2>1. <<picked.from, picked.to>> \in Hubs \X Hubs
    BY <1>8 DEF Optimize, CanOptimize, TypeInv, Pick
  <2>2. optimize' \in Optimizing
    BY <1>8, <2>1 DEF Optimize, Optimizing
  <2> QED
    BY <1>8, <2>2, NetworkTyped DEF Optimize, Render, TypeInv
<1>9. CASE OptimizeEnds
  <2>1. optimize' \in Optimizing
    BY <1>9 DEF OptimizeEnds, TypeInv, Optimizing
  <2> QED
    BY <1>9, <2>1, NetworkTyped DEF OptimizeEnds, Render, TypeInv
<1>10. CASE Clear
  <2>1. optimize' \in Optimizing
    BY <1>10 DEF Clear, TypeInv, Optimizing
  <2> QED
    BY <1>10, <2>1, FreshTyped, NetworkTyped DEF Clear, Render
<1>11. ASSUME NEW r \in Routes, SelectRoute(r) PROVE TypeInv'
  <2>1. <<r, r>> \in Fetches
    BY DEF Fetches
  <2> QED
    BY <1>11, <2>1 DEF SelectRoute, HistoryKey, TypeInv, forecastVars, networkVars
<1>12. CASE ChooseForecast
  BY <1>12 DEF ChooseForecast, Forecast, TypeInv, networkVars
<1>13. CASE RunForecast
  <2>1. <<supplier, horizon>> \in Suppliers \X Horizons
    BY <1>13 DEF RunForecast, TypeInv
  <2>2. forecast' \in Forecasting
    BY <1>13, <2>1 DEF RunForecast, Forecasting
  <2> QED
    BY <1>13, <2>2 DEF RunForecast, Forecast, TypeInv, networkVars
<1>14. CASE ForecastEnds
  <2>1. forecast' \in Forecasting
    BY <1>14 DEF ForecastEnds, TypeInv, Forecasting
  <2> QED
    BY <1>14, <2>1 DEF ForecastEnds, Forecast, TypeInv, networkVars
<1> QED
  BY <1>1, <1>2, <1>3, <1>4, <1>5, <1>6, <1>7, <1>8, <1>9, <1>10, <1>11, <1>12, <1>13, <1>14
     DEF Event

\* However queries, renders, clicks and changes of view interleave: the states have their types;
\* the graph draws nothing that was not laid out, throws only over routes newer than the hubs
\* (NetworkGraph.tsx useGraphLayout), and a view that is not mounted holds nothing.
THEOREM ViewsTypeCorrect == Spec => []TypeOK
<1>1. TypeInv /\ [Next]_vars => TypeInv'
  <2> SUFFICES ASSUME TypeInv, [Next]_vars PROVE TypeInv'
    OBVIOUS
  <2>1. CASE ~graph.thrown /\ Event
    BY <2>1, EventTyped
  <2>2. CASE Reload
    <3>1. data' \in Data
      BY <2>2, VersionsAssumed DEF Reload, Data
    <3>2. Sound(graph', data') /\ ~graph'.thrown
      BY <2>2, NewGraphSound DEF Reload, NewGraph
    <3> QED
      BY <2>2, <3>1, <3>2, FreshTyped DEF Reload, Unmount, TypeInv, ViewNames
  <2>3. CASE UNCHANGED vars
    BY <2>3 DEF vars, networkVars, forecastVars, TypeInv
  <2> QED
    BY <2>1, <2>2, <2>3 DEF Next
<1> QED
  BY <1>1, TypeInvInit, TypeInvImplies, PTL DEF Spec
================================================================================

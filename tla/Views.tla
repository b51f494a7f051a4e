--------------------------------- MODULE Views ---------------------------------
(***************************************************************************)
(* The views of the page but the agent's console (AgentStream): the        *)
(* router, the query cache they share, and what each has on screen.        *)
(* Sources: apps/frontend/src/main.tsx, App.tsx, views/OperationsMap.tsx,  *)
(* NetworkGraph.tsx, ForecastView.tsx.                                     *)
(*                                                                         *)
(* An action is one event and the renders and effects that follow it.      *)
(* Abstracted: what the servers answer, which is the question it answers,  *)
(* or for the shared queries a version; the store's scores, of which only  *)
(* that they change matters here; colours, legends and the zoom's amount.  *)
(***************************************************************************)
EXTENDS Naturals, FiniteSets

CONSTANTS
  Hubs, Routes, Suppliers, Horizons,
  None,
  Seeded,       \* the version that brings hubs, routes and suppliers; those before have none
  MaxVersion    \* bound on how often the servers' data change

ASSUME ViewsAssumption ==
  /\ MaxVersion \in Nat \ {0} /\ Seeded \in Nat \ {0} /\ Horizons # {}
  /\ None \notin Hubs \cup Routes \cup Suppliers \cup Horizons \cup (Hubs \X Hubs)
                 \cup (Suppliers \X Horizons)

VARIABLES
  view,         \* the view that is mounted
  server,       \* the version of the data the backend serves
  data,         \* the query cache: for each shared query the version it holds, 0 for none
  history,      \* the query cache: for each key the route whose scores it holds
  fetching,     \* queries in flight: <<query, query>> or <<key, route>>
  graph,        \* NetworkGraph: svg ref set, versions behind nodes, laid out, drawn, thrown
  picked,       \* NetworkGraph: selectedHub and destHub
  optimize,     \* NetworkGraph: the last ask of this visit, optimizing, highlight
  selected,     \* OperationsMap: the route
  supplier, horizon, forecast     \* ForecastView; of its mutation: ask, pending, data

networkVars == <<graph, picked, optimize>>
forecastVars == <<supplier, horizon, forecast>>
vars == <<view, server, data, history, fetching, networkVars, selected, forecastVars>>

Queries == {"hubs", "routes", "suppliers"}
ViewNames == {"map", "network", "forecast", "agent"}
QueriesOf == [v \in ViewNames |->
  CASE v = "forecast" -> {"suppliers"}
    [] v = "agent" -> {}
    [] OTHER -> {"hubs", "routes"}]

NoNodes == <<0, 0>>
NewGraph ==
  [seen |-> FALSE, nodes |-> NoNodes, laid |-> FALSE, drawn |-> FALSE, thrown |-> FALSE]
NoPick == [from |-> None, to |-> None]
NothingAsked == [asked |-> None, pending |-> FALSE, shown |-> None]
FirstHorizon == CHOOSE h \in Horizons : TRUE

\* The answer to q has come, and is not an empty list.
Filled(q) == data[q] >= Seeded

Init ==
  /\ view = "agent" /\ server = 1
  /\ data = [q \in Queries |-> 0]
  /\ history = [k \in Routes |-> None]
  /\ fetching = {}
  /\ graph = NewGraph
  /\ picked = NoPick /\ optimize = NothingAsked
  /\ selected = None
  /\ supplier = None /\ horizon = FirstHorizon /\ forecast = NothingAsked

-------------------------------------------------------------------------------
\* NetworkGraph renders.

\* useGraphData: nodes and links are made anew when hubs or routes are others.
NodesOf(d) == IF d["hubs"] = 0 \/ d["routes"] = 0 THEN NoNodes ELSE <<d["hubs"], d["routes"]>>

\* Hubs and routes are two queries: routes may mention hubs that came after the hubs held.
Unknown(nodes) == nodes[2] > nodes[1]

\* The state of the graph after a render: what had been laid out is drawn, and the effect lays
\* out the nodes if it runs.  A link to a node that is not there makes d3 throw.
After(g, nodes, effect) ==
  [seen |-> TRUE, nodes |-> nodes,
   laid |-> (g.laid /\ nodes = g.nodes) \/ (effect /\ ~Unknown(nodes)),
   drawn |-> g.laid /\ nodes = g.nodes,
   thrown |-> effect /\ Unknown(nodes)]

\* A render draws the nodes that have a position, and passes svgRef.current, which is null in
\* the first one; the effect after it lays out new nodes, or those it had no svg for, unless
\* there are no hubs.  Neither that nor the simulation's ticks cause another render.
Rendered(g, d) ==
  LET nodes == NodesOf(d)
  IN  After(g, nodes, g.seen /\ nodes[1] >= Seeded /\ ~(g.laid /\ nodes = g.nodes))

Render == graph' = Rendered(graph, data)

-------------------------------------------------------------------------------
\* Router and queries.

\* Faulty variant of Unmount: the mutation is kept outside of the view.
UnmountKeeping ==
  /\ picked' = NoPick /\ optimize' = NothingAsked
  /\ selected' = None
  /\ supplier' = None /\ horizon' = FirstHorizon /\ UNCHANGED forecast

\* What the views keep in useState, useRef and useMutation goes with them.
Unmount ==
  /\ picked' = NoPick /\ optimize' = NothingAsked
  /\ selected' = None
  /\ supplier' = None /\ horizon' = FirstHorizon /\ forecast' = NothingAsked

\* A view is mounted with fresh state: it renders what the cache holds, and queries that hold
\* nothing, or something older than staleTime, are fetched.  What the old view was waiting
\* for comes to nobody.
Navigate(v) ==
  /\ view' = v /\ v # view
  /\ graph' = IF v = "network" THEN Rendered(NewGraph, data) ELSE NewGraph
  /\ Unmount
  /\ \E stale \in SUBSET QueriesOf[v] :
       /\ {q \in QueriesOf[v] : data[q] = 0} \subseteq stale
       /\ fetching' = fetching \cup {<<q, q>> : q \in stale}
  /\ UNCHANGED <<server, data, history>>

\* The data behind a shared query arrive, whoever is mounted, as they were at some moment since
\* the last time; equal data change nothing.
Arrives(q) ==
  /\ <<q, q>> \in fetching
  /\ fetching' = fetching \ {<<q, q>>}
  /\ \E n \in data[q]..server :
       /\ n # 0
       /\ data' = [data EXCEPT ![q] = n]
       /\ graph' = IF view = "network" /\ q \in QueriesOf[view] /\ data[q] # n
                   THEN Rendered(graph, data') ELSE graph
  /\ UNCHANGED <<view, server, history, picked, optimize, selected, forecastVars>>

\* It failed, and so did its one retry; no view shows that.
FetchFails(f) ==
  /\ f \in fetching
  /\ fetching' = fetching \ {f}
  /\ UNCHANGED <<view, server, data, history, networkVars, selected, forecastVars>>

\* Hubs, routes or suppliers change in the database.
Changes ==
  /\ server < MaxVersion
  /\ server' = server + 1
  /\ UNCHANGED <<view, data, history, fetching, networkVars, selected, forecastVars>>

\* The store takes a score: the views that use it render again.
ScoreUpdate ==
  /\ view = "network"
  /\ Render
  /\ UNCHANGED <<view, server, data, history, fetching, picked, optimize, selected,
                 forecastVars>>

-------------------------------------------------------------------------------
\* NetworkGraph: the svg can be zoomed and dragged, the hubs drawn can be clicked; the panel's
\* two buttons.

Network == view = "network" /\ UNCHANGED <<view, server, data, history, fetching, selected,
                                           forecastVars>>

\* setTransform: another render.
Zoom ==
  /\ Network
  /\ Render
  /\ UNCHANGED <<picked, optimize>>

PickHub(h) ==
  /\ Network /\ graph.drawn
  /\ \/ picked' = [picked EXCEPT !.from = h]
     \/ picked' = [picked EXCEPT !.to = h]
  /\ Render
  /\ UNCHANGED optimize

CanOptimize == picked.from # None /\ picked.to # None /\ ~optimize.pending

\* Faulty variant of Optimize: the old highlight stays until there is a new one.
OptimizeKeeping ==
  /\ Network /\ CanOptimize
  /\ optimize' = [optimize EXCEPT !.asked = <<picked.from, picked.to>>, !.pending = TRUE]
  /\ Render
  /\ UNCHANGED picked

\* onOptimize, up to its await.
Optimize ==
  /\ Network /\ CanOptimize
  /\ optimize' = [asked |-> <<picked.from, picked.to>>, pending |-> TRUE, shown |-> None]
  /\ Render
  /\ UNCHANGED picked

\* The solutions' routes are highlighted, whatever has been picked since; or the call failed
\* and nothing is.
OptimizeEnds ==
  /\ Network /\ optimize.pending
  /\ \/ optimize' = [optimize EXCEPT !.pending = FALSE, !.shown = optimize.asked]
     \/ optimize' = [optimize EXCEPT !.pending = FALSE]
  /\ Render
  /\ UNCHANGED picked

\* onClear does not cancel the call in flight.
Clear ==
  /\ Network
  /\ picked' = NoPick
  /\ optimize' = [optimize EXCEPT !.shown = None]
  /\ Render

-------------------------------------------------------------------------------
\* OperationsMap: a route is clicked, and its history queried.

\* Faulty variant of HistoryKey: one key for all routes.
HistoryKeyShared(r) == CHOOSE k \in Routes : TRUE

HistoryKey(r) == r

SelectRoute(r) ==
  /\ view = "map" /\ Filled("routes")
  /\ selected' = r
  /\ \/ fetching' = fetching \cup {<<HistoryKey(r), r>>}
     \/ history[HistoryKey(r)] # None /\ UNCHANGED fetching
  /\ UNCHANGED <<view, server, data, history, networkVars, forecastVars>>

HistoryArrives(f) ==
  /\ f \in fetching /\ f[1] \in Routes
  /\ fetching' = fetching \ {f}
  /\ history' = [history EXCEPT ![f[1]] = f[2]]
  /\ UNCHANGED <<view, server, data, networkVars, selected, forecastVars>>

HistoryShown == IF selected = None THEN None ELSE history[HistoryKey(selected)]

-------------------------------------------------------------------------------
\* ForecastView: supplier and horizon are chosen at any time, the mutation is run when none is
\* pending.

Forecast == view = "forecast" /\ UNCHANGED <<view, server, data, history, fetching,
                                             networkVars, selected>>

ChooseForecast ==
  /\ Forecast
  /\ \/ Filled("suppliers") /\ supplier' \in Suppliers /\ UNCHANGED horizon
     \/ horizon' \in Horizons /\ UNCHANGED supplier
  /\ UNCHANGED forecast

\* A new mutation starts without data.
RunForecast ==
  /\ Forecast /\ supplier # None /\ ~forecast.pending
  /\ forecast' = [asked |-> <<supplier, horizon>>, pending |-> TRUE, shown |-> None]
  /\ UNCHANGED <<supplier, horizon>>

ForecastEnds ==
  /\ Forecast /\ forecast.pending
  /\ \/ forecast' = [forecast EXCEPT !.pending = FALSE, !.shown = forecast.asked]
     \/ forecast' = [forecast EXCEPT !.pending = FALSE]
  /\ UNCHANGED <<supplier, horizon>>

-------------------------------------------------------------------------------
\* There is no error boundary: what an effect throws leaves a blank page, until it is loaded
\* again.
Reload ==
  /\ graph.thrown
  /\ view' = "agent" /\ graph' = NewGraph
  /\ data' = [q \in Queries |-> 0] /\ history' = [k \in Routes |-> None] /\ fetching' = {}
  /\ Unmount
  /\ UNCHANGED server

Event ==
  \/ \E v \in ViewNames : Navigate(v)
  \/ \E q \in Queries : Arrives(q)
  \/ \E f \in fetching : FetchFails(f) \/ HistoryArrives(f)
  \/ Changes \/ ScoreUpdate \/ Zoom
  \/ \E h \in Hubs : PickHub(h)
  \/ Optimize \/ OptimizeEnds \/ Clear
  \/ \E r \in Routes : SelectRoute(r)
  \/ ChooseForecast \/ RunForecast \/ ForecastEnds

Next == Reload \/ (~graph.thrown /\ Event)

Spec == Init /\ [][Next]_vars

\* What is fetched arrives, and calls end.  Neither the user nor the suppliers, whose routes'
\* scores are pushed, are obliged to anything.
FairSpec ==
  /\ Spec
  /\ \A q \in Queries : WF_vars(~graph.thrown /\ Arrives(q))
  /\ WF_vars(~graph.thrown /\ OptimizeEnds)

\* Types; what is drawn has been laid out, and only views that are mounted hold anything.
TypeOK ==
  /\ view \in ViewNames /\ server \in 1..MaxVersion
  /\ data \in [Queries -> 0..MaxVersion]
  /\ history \in [Routes -> Routes \cup {None}]
  /\ fetching \subseteq {<<q, q>> : q \in Queries} \cup (Routes \X Routes)
  /\ graph \in [seen : BOOLEAN, nodes : (0..MaxVersion) \X (0..MaxVersion),
                laid : BOOLEAN, drawn : BOOLEAN, thrown : BOOLEAN]
  /\ graph.drawn => graph.laid
  /\ graph.thrown => view = "network" /\ data["routes"] > data["hubs"]
  /\ picked \in [from : Hubs \cup {None}, to : Hubs \cup {None}]
  /\ optimize \in [asked : (Hubs \X Hubs) \cup {None}, pending : BOOLEAN,
                   shown : (Hubs \X Hubs) \cup {None}]
  /\ selected \in Routes \cup {None}
  /\ supplier \in Suppliers \cup {None} /\ horizon \in Horizons
  /\ forecast \in [asked : (Suppliers \X Horizons) \cup {None}, pending : BOOLEAN,
                   shown : (Suppliers \X Horizons) \cup {None}]
  /\ view # "network" => graph = NewGraph /\ optimize = NothingAsked
  /\ view # "forecast" => forecast = NothingAsked

\* What is on screen answers the last question of this visit: a call that fails, an answer
\* that is slow, a clear, a click elsewhere or a change of view in between leave no other
\* answer there.  (It need not be about what is picked by now: neither Clear nor another pick
\* cancels a call, and a forecast stays when another supplier is chosen.)
ShownIsAsked ==
  /\ optimize.shown \in {None, optimize.asked}
  /\ forecast.shown \in {None, forecast.asked}
  /\ HistoryShown \in {None, selected}

\* e2e/network-graph.spec.ts:9-15: once hubs and routes are there the graph gets drawn, unless
\* the view is left.  It does not: the effect gives the nodes their positions after the render
\* that should have drawn them, and only a score or the user causes another.
GraphDrawn ==
  (view = "network" /\ Filled("hubs") /\ Filled("routes")) ~> (graph.drawn \/ view # "network")
================================================================================

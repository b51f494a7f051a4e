# Smart Supply: TLA+ models

Smart Supply scores the carbon footprint of shipments as they sail. A simulator puts positions
and fuel consumption on Kafka topics; backend instances fold them into windows per route, store
the scores in TimescaleDB and push them to browsers over WebSockets; an agent, streamed to a
console, plans how to lower emissions with the help of two ML services. This directory models
the parts of it that have state and concurrency, from the migrations to the page, and its route
optimizer, checks them with TLC, and proves with TLAPS every safety property that is checked, for
every value of the constants.

Paths below are relative to the repository.

## 1. Inventory

| component | code | state | operations |
|---|---|---|---|
| Stream consumer | `apps/backend/src/stream-consumer.ts` | the open window of each route, route metadata, schema ids, the flush timer | start, onMessage, touchWindow, applyFuel, flushExpired, doFlushWindow, stop |
| Backend process | `apps/backend/src/server.ts` | life of the process, whether its consumer runs | main, shutdown, onClose |
| Simulator | `apps/simulator/src/index.ts` | routes it has loaded, schema ids, ships' progress | main with its retries; one sendBatch per tick, keyed by ship |
| WebSocket hub | `apps/backend/src/ws-hub.ts` | subscribers of this instance, Redis subscription | attach, subscribe/unsubscribe/ping, close and error, publishScoreUpdate, fanout, close |
| WebSocket client, score store | `apps/frontend/src/lib/ws.ts`, `App.tsx` | socket, queue, heartbeat, reconnect timer, status, scores | start, stop, send, four socket events |
| Agent coordinator | `services/ml-agent/app/coordinator.py`, `agent_state.py`, `main.py` | the session: messages, tool calls, step count, plan, error | run in two modes, persist |
| Agent proxy and console | `apps/backend/src/routes/agent.ts`, `views/AgentConsole.tsx`, `lib/sse.ts` | upstream body, events shown, abort controller | run, pipe, end, stop |
| Schema registry client | `packages/proto/src/registry.ts` | the ids a process has got so far; versions live in the registry | registerAllSchemas: GET, POST, retried by its callers |
| Database package | `packages/db/src`, `migrations/*.sql` | the tables, `_migrations` | a run of migrate, a run of seed |
| Cached proxies | `routes/forecast.ts`, `routes/optimize.ts` | Redis entries with a TTL | look up, call, store |
| Read-only routes | `routes/suppliers.ts`, `hubs.ts`, `routes-api.ts`, `health.ts` | none | one query each |
| Route optimizer | `services/ml-optimize/app/optimizer.py`, `nsga2.py` | none | enumerate paths, Pareto sort, crowding |
| GNN weights | `services/ml-optimize/app/gnn*.py` | model parameters | train, infer |
| Forecast service | `services/ml-forecast/app` | none | fetch history, fit, forecast |
| Views | `apps/frontend/src/main.tsx`, `App.tsx`, `views`, `components` | the mounted view and its React state, the query cache | navigate, queries, clicks, mutations, renders and their effects |

How they interact:

- simulator -> Kafka -> stream consumer: messages of one partition in order, at least once. All
  instances are one consumer group; offsets are committed by the client library after
  `eachMessage` returned.
- stream consumer -> two tables (one transaction per window), then -> Kafka
  `shipment.score_updated` (not awaited) and -> Redis channel (through the hub).
- Redis channel -> every hub -> its sockets -> the store of every page.
- migrate and seed -> tables, which backend (once) and simulator (a few times) read when they start;
  then both -> schema registry.
- page -> backend, over REST: hubs, routes, suppliers, histories, forecasts, optimizations.
- console -> backend proxy -> ml-agent, two HTTP responses that stream the same events; ml-agent
  -> LLM API, the two ML services, the `agent_sessions` table.

What is hard in them, and what makes each correct:

- *Stream consumer.* The timer starts flushes that nobody awaits, messages arrive while flushes
  are in flight, several instances share a route, a process can stop or die between the
  transaction and its announcements, answers get lost. Correct when no sample is counted twice,
  none is lost without a failure, a stored window is not overwritten, updates are published in
  order, and nothing stays in memory for ever.
- *WebSockets.* Errors, closes, timers and `stop()` come in any order; the two ends learn of a
  broken connection at different times; instances restart; Redis forgets. Correct when a page
  has one connection, the heartbeat beats with it, commands and updates keep their order, an open
  page gets connected again, hubs forget the sockets of pages that have closed them, and one dead
  socket does not keep updates from the rest.
- *Agent.* Model, tools and database fail independently, a process dies mid-stream, the user
  stops. Correct when every tool use is answered, the stored row says what the stream said,
  "done" means saved, and the console shows the run in order and comes to an end that says how it
  went.
- *Cached proxies.* Requests that miss together, a call the proxy gave up on, a store that waits for
  Redis, a failing store after a good answer. Correct when what is answered is never older than a
  known bound, was stored as a run, and every request ends.
- *Route optimizer.* Counting that decides fronts half-way, two rankings with a switch between them,
  parallel routes collapsed per objective. Correct when the fronts are the layers of dominance and
  no answer is worse than a candidate left out.
- *Start-up.* Migrations, seeds, backend and simulator start together or in an unlucky order, some
  look once and some a number of times, and any of them stops at any await. Correct when files are
  applied once and in order, a second seed adds nothing, a schema gets one version, and the order
  the quickstart gives leads to scores.
- *Views.* Answers come after what was asked for has been cleared, changed or left; a picture needs
  two renders, and renders come from elsewhere; queries of one picture are of different ages. Correct
  when nothing on screen answers another question than the last, and the graph gets drawn.

`PROJECT.json` lists the hazards with the lines where they bite and the properties aimed at them.

## 2. Modules

| module | what it is |
|---|---|
| `StreamConsumer` | consumer, producer, process life, group, tables, channel |
| `SampleLedger` | abstract: samples gathered in batches that are stored or lost whole |
| `MCStreamConsumer` | instances of it for TLC |
| `StreamConsumerProofs` | theorems about its windows and rows |
| `StreamLedgerProofs` | theorems about its samples and updates, and that it implements `SampleLedger` (EXTENDS the former) |
| `WsWire` | external: connections with two ends and a queue each way |
| `WsHub` | the hubs and the Redis channel (EXTENDS WsWire) |
| `WsClient` | the browser's client and store (EXTENDS WsWire) |
| `ScoreFanout`, `MCScoreFanout` | hubs and client composed; its instances |
| `ScoreFanoutProofs` | theorems about them |
| `AgentCoordinator` | one run of the coordinator, up to its row |
| `AgentStream`, `MCAgentStream` | coordinator, proxy and console composed; its instances |
| `AgentStreamProofs` | theorems about the coordinator, in that company, and about the console |
| `CachedProxy`, `MCCachedProxy` | the two cached routes, Redis and the services' calls; its instances |
| `CachedProxyProofs` | its theorems |
| `Database` | the migration runner and the seed, any number of runs of each |
| `SchemaRegistry` | clients that register all schemas, and the registry |
| `Startup`, `MCStartup` | the two composed with the starts of backend and simulator (EXTENDS both); its instances |
| `StartupProofs` | theorems about them |
| `Views` | router, query cache, network graph, map, forecast |
| `ViewsProofs` | its theorems |
| `Nsga2` | the non-dominated sort as a state machine |
| `RouteOptimizer`, `MCRouteOptimizer` | one call of the optimizer (EXTENDS Nsga2); its instances |
| `RouteOptimizerProofs` | theorems about the sort and the answer |

Definitions whose comment starts with "Faulty variant" are not part of a specification. They are
plausible bugs, kept to show that the properties notice them (`PROJECT.json`, "mutants").

### StreamConsumer

Each action is one turn of an event loop: everything between two awaits. `state[i]` is the `state`
map of instance i, `flushing` holds the calls of `doFlushWindow` in flight, at "persist" until the
transaction and at "announce" after it.

| action | code |
|---|---|
| `Start` | `start()`, with `registerSchemas` and `loadRouteMeta` |
| `OnMessage`, with `ApplyPosition`, `ApplyFuel`, `Touched` | `onMessage`, `touchWindow`, `applyFuel` |
| `FlushExpired`, with `Expired`, `FlushOf` | the interval's `flushExpired`, and `flushWindow` up to its first await |
| `Persist`, `PersistFail`, `PersistUnacknowledged` | `sql.begin`: committed, failed, committed with the answer lost |
| `Announce` | the unawaited `producer.send` and `publishScoreUpdate` |
| `Stop`, `Leave`, `Exit`, `Crash` | `shutdown` in its order, or death |
| `SendBatch`, `SendMalformed`, `Seed` | the simulator and the seed |
| `Tick`, `Assign`, `Commit` | external: time, group assignment, auto-commit |

Abstractions. A window's sums, and the score computed from them, are the set of samples they were
computed from; that distinguishes double counting, loss and overwriting, and nothing else about the
numbers. `start()` is one step, so a shutdown in the middle of it is not modelled. A message is
its route, or `Malformed`. A revoked partition is not read any further by its old owner (kafkajs
may finish the batch in hand). A retry of the producer that duplicates a message is two messages.
In a stopping process every call may fail without a further fault, because `shutdown` closes the
database and Redis under flushes in flight.

### WsWire, WsHub, WsClient, ScoreFanout

A socket k has a client end (`ready[k]`, the readyState) and a server end (`served[k]`, the hub that
attached it), joined by `link[k]` and a queue each way. A socket returns to use when both ends have
forgotten it. A link is "dialing", "up", closed by one end and the other being told ("hungup" by
the instance, "left" by the client), "cut", or "failing". `Break` cuts it and tells nobody. The client
learns of that by its pings; the hub sends none and sets no keepalive (`ws-hub.ts`), so that a socket
cut in silence stays among its subscribers until an update has been written to it (`Fanout`, "cut" to
"failing"), and for good if none is.

`subscribers[k]` is the hub's entry, `routeIds` a set or "all". `current`, `closed`, `queue`, `timers`,
`heartbeat` are the fields of `WsClient`; `status` and `scores` are the zustand store. `HangUp` is the
client's readyState going to CLOSING when the instance closes, a task before `onclose`. `Start` and
`Stop` are the effect of `App` and its cleanup, which React runs twice under StrictMode in development
(`MaxMounts`).

An update is known by its place in the order in which the channel took the updates of its route, not by
the window's time and score in it, which neither end looks at. With two instances the channel may take
an older window after a newer one; the page then shows the older, which came last.

Abstractions. Backoff delays and the attempt counter are left out: a reconnect is pending or not.
Frames the client does not act on (hello, pong, error) are left out. A socket that closes may drop
commands already written. No view sends commands at this commit; `Command` is the public method
`send()`. A SUBSCRIBE that fails at start-up (logged, never retried) is not modelled; losing the
Redis connection later is.

### AgentCoordinator, AgentStream

`run()` is an async generator; an action goes from one await or yield at which something else may
happen to the next, and `events` is everything yielded. Yields with nothing awaited between them are
one step. `pc` is where the generator stands. `Begin`, `Step`, `ReplyWithPlan`, `ReplyWithTools`,
`ChatFails`, `CallTool`, `ToolReturns`, `EndTurn`, `SynthesizePlan` are `_run_llm`; `ScriptCall`,
`ScriptReturns`, `ScriptPlan` are `_run_deterministic`; `Persist` and `Done` the end of `run()`.
`/agent/dry-run` is the deterministic mode collected into one answer. `AgentStream` adds the console
(`Run`, `Show`, `StreamEnds`, `StreamFails`, `StopRun`) and the proxy (`Accept` to `ClientGone`); a
frame is one event. A request can be refused with 400 by the proxy's own schema (`Invalid`), with 503
when ml-agent is not there and with 422 when its schema is the stricter one (`Unavailable`), all before
a stream opens. `PipeEnds` is the upstream's 'end', or its 'error' when the coordinator has gone;
`BodyTimeout` is the 'error' undici raises when a live coordinator has been silent for 300 s, which it can
be while it waits for the model or the database: the proxy ends the response as ever, and the
coordinator is cancelled when it notices (`ProxyGone`). Texts, tokens, tool inputs and results are left
out. The request's 'close' event comes once its body has been read (Node 16 and later; `package.json`
asks for 20).

### CachedProxy

A request's `pc` is the await its handler is at: "looking" (`redis.get`), "waiting" (the call),
"storing" (`redis.set`). Its `job` is the call at the service, which outlives the handler: "called",
"computed", "stored", "answered". The two handlers differ in the key, in `Validated` and in `OnError`
only, so they are one set of actions. `Arrive` parses the body, `LookUp` answers a hit or calls,
`Receive` takes the service's answer, `Store` keeps and answers it, `TimeOut`, `CallFails` and
`StoreRefused` are the catch. `Read`, `WriteRun`, `Respond` are the endpoints of the services.

Abstractions. An answer is the run it came from, and that is when its data were read. Redis commands
take no time while Redis is up and wait while it is down, which is what `maxRetriesPerRequest: null`
asks of ioredis; `redis.get` therefore never throws. A run's rows are one step, since asyncpg
executes `executemany` in one transaction.

### Database, SchemaRegistry, Startup

`runner[m]` and `seeder[s]` are runs of the two programs: an action is one query. `Migrate`, `LookUp`,
`Apply` are the loop of `migrate.ts`; `Refused` is the primary key of `_migrations`, or a `CREATE` that
meets another transaction's. `StartSeed`, `CountSuppliers`, then `InsertHubs` to `InsertSamples` are the
stages of `seed.ts`, which nothing joins in a transaction. `client[c]` is a call of
`registerAllSchemas`: `GetLatest` and `PostSchema` per topic, `RequestFails` and `AnswerLost` with the
callers' `Retry`. `Startup` adds `consumer` (`StartBackend`, `LoadRouteMeta`, `RegisterSchemas`) and
`simulator` (`StartSimulator`, `LoadRoutes`, `Connect`), whose processes die (`BackendDies`,
`SimulatorDies`) and are started again; `Scored` is telemetry that `onMessage` does not drop.

Abstractions. The rows that one run of the seed inserts into a table are one unit, since one
statement inserts them (telemetry and scores: `Batches` statements). A schema and its id are the
build that posts it, and all clients are of one build, so that posting the same schema twice gives
the same id, as the registry does; two builds that register at the same moment could give a subject
two versions. Of a message only counts whether it has an id and a known route.

### Views

An action is one event with the renders and effects it causes. `data` is the react-query cache of the
three shared queries, as versions of the server's data, `history` that of the histories; `fetching`
are the requests in flight. `graph` is what `NetworkGraph` has between renders: whether `svgRef` is set,
the versions its nodes were made of, whether they have positions (`laid`), whether the last render drew
them, whether d3 threw. Versions before `Seeded` are answers that are empty lists, for which
the effect does nothing (`Filled`, `NetworkGraph.tsx:218`). `Rendered` is one render and the effect after
it; a score, a zoom or drag (`Zoom`, which sets the transform) and the panel's buttons each cause one. `optimize` and `forecast` hold
the last ask, whether it is pending, and the ask whose answer is shown.

Abstractions. An answer is the question it answers. Scores are only that a view renders again. A
call made in a view that is left has no effect any more. Which queries are stale at a mount is free,
because `staleTime` is. A change of the connection's status renders the frame around the view, not the
view. Pixels, the zoom's amount, colours and legends are left out.

### Nsga2, RouteOptimizer

A candidate is its sequence of routes, so that equal candidates are one. `Seed`, `Evolve`, `Sort`,
`Choose` are the stages of `optimize()`; within `Sort`, `Compare` is one turn of the outer loop of
`fast_nondominated_sort`, `Peel` one of its while loop and `Finish` its end. `Decline` and
`NoPathRaised` are the calls that find nothing. Crowding distances and weighted scores are
fractions; the model multiplies a front's by their common denominator.

Abstractions. Floats are exact integers. Random choices, ties of a sort and the order of rows are
free: every outcome the code may have for some seed and some order is a behaviour, and a few more.
`shortest_simple_paths` is external: the simple paths in order of weight. The multipliers of the GNN
are inputs.

## 3. Runs

A passing run shows that its properties hold in every reachable state, or behaviour, of a small
instance. A violation run checks one sentence of the repository's own documents, comments or tests,
and TLC shows a behaviour of the code that breaks it.

| run | instance | checks |
|---|---|---|
| `consumer_one` | 1 instance, 1 ship, 2 messages per partition, window of 2 of 5 ticks, 1 fault, fairness | TypeOK, Accounted, PublishInOrder, ImplementsLedger, FoldedSettles |
| `consumer_pair` | 2 instances, 2 ships of one route on two partitions, some malformed messages, window of 1 of 2 ticks, 1 fault | OneFate, SameKeyOtherInstance, RowSurvives |
| `v_offsets` | as consumer_one | CommittedOffsetsCovered (violated) |
| `sockets` | 1 hub, 2 sockets, 1 route, 2 sends, 2 updates, 1 fault, fairness | TypeOK, OneConnection, CommandsInOrder, HeartbeatWhileOpen, AppliedInOrder, SubscriberReleased, UpdatesReach, MountedOpens |
| `v_strictmode` | 1 hub, the effect run twice, fairness | MountedOpens (violated) |
| `agent` | both modes, 1 or 2 steps, 2 tool uses (one may be unknown, any may fail without a text), 1 fault, fairness | TypeOK, Conversation, RowAgreesWithStream, BudgetPlanComplete, ConsoleFollows, RunStops, RunIsSaved |
| `proxies` | 2 requests to 2 keys, TTL of 2 ticks, time-out of 1, 1 fault, fairness | TypeOK, BoundedStaleness, ServedIsStored, EveryRequestEnds |
| `v_forecast` | as proxies, suppliers with a history, no fault | ForecastStatus (violated) |
| `optimizer` | 4 hubs, 7 routes or fewer, 4 modes, 2 paths per criterion, 2 mutations | TypeOK, FrontsAreLayers, AnswerSound, NothingBetterLeftOut, OptimumOffered |
| `startup` | of 2 migration runners, 2 seeds, backend and simulator three or four at a time; 2 files, 2 batches, 2 topics, 2 attempts, 2 faults, fairness | TypeOK, MigratedOnce, SeededOnce, RegisteredOnce, QuickstartScores |
| `views` | 2 hubs, routes, suppliers and horizons, an empty version of the data and 2 others | TypeOK, ShownIsAsked |
| `v_graph` | 2 hubs, a route, a database seeded from the start, fairness | GraphDrawn (violated) |

Why the bounds are enough. Two windows of one route, a flush in flight beside an open window and a
redelivery after a fault need two messages, five ticks and one fault; a window of two ticks with a
flush of one keeps the order question of `PublishInOrder` open (its premise, a flush shorter than a
window, is the one under which the code can keep the order: with slower flushes nothing in it
does). Rows collide only between two instances, hence `consumer_pair`. Two sockets are a dead one
beside a live one; two sends and two updates make a reordering; one fault is a break, a dead or
restarted instance, or a Redis connection lost, followed by the client's way back. One hub is what a
connection sees of any number, and the theorems of section 4 are about any number. Two requests are
one that computes beside one that hits, or two that miss together; `BoundedStaleness` speaks of cache
entries too, so that a third request need not be there to read what the slower one stored. Seven routes give hops with parallel routes, three paths in
each collapsed graph (one more than are taken), and fronts of more and of fewer members than topK.
The tables of the modes are rounded to small integers, which keeps the modes' order in each
criterion. Two steps and two tool uses give a turn with several results, a second
turn and a spent budget.

Start-up's races are between two: two runners at one file, two seeds past the guard, two clients
between GET and POST; the company of a run (`MCStartup`) has each of these pairs, and the pair of
backend and simulator with a runner and a seed before or beside them. Two files make "the next
one" matter, two topics an attempt that fails with an id in hand, two batches a loop that stops
half-way, two faults a failure during the repetition of what failed. Two filled versions of the data
are routes newer than hubs and the reverse; two routes are a history that comes after another route
was clicked.

Bounds by name: `Files`, `Batches`, `Topics`, `MaxAttempts` (attempts of a client of the registry; 15
for the simulator in the code), `LoadAttempts` (its attempts to load routes), `MaxVersion` (versions of
the data the views see), `Seeded` (the first of them that is not empty), `MaxTime`, `MaxOffset`,
`MaxFaults`, `FlushLatency` (longest flush), `MaxSends`, `MaxUpdates`, `MaxMounts`, `MaxSteps`,
`MaxCalls`, `LastArrival`, `MaxOutage`, `MaxOffspring` (20 in the code). `OnMessage` requires
`clock + Window <= MaxTime`, so that every window can close before the clock stops; `EndOfTime` is the
stutter at that point. The WebSocket, agent, proxy, optimizer, start-up and view runs switch the
deadlock check off: a page may be closed or blank, and a run, a call or a program is over, when the bounds are spent. Symmetry is used in
`consumer_pair` only, for the instances and for the two ships with their partitions.

### Fairness

- `StreamConsumer!Fairness`: the clock, the interval of a running instance, the end of a shutdown
  (`server.ts` always reaches `process.exit`), and an outcome for each database and broker call.
  Nothing is fair that would oblige a ship to send or a process to start, stop or fail.
- `ScoreFanout!Fairness`: event loops dispatch what has arrived, timers fire, a dialled connection is
  answered or refused, a dead instance is started again (the Helm chart's deployments do), ioredis
  subscribes again. A client learns of a broken connection, because it writes a ping every 25 s; a
  hub learns of one it has written to or that the client has closed, and of no other. Nothing obliges
  the page to be opened or an update to be published.
- `AgentStream!FairSpec`: event loops run, and whatever is awaited comes or times out (30 s in the
  tools' HTTP client, 10 min in the model's). Neither the user nor undici's timer need do anything.
- `CachedProxy!FairSpec`: event loops run, time passes, and Redis is brought back. The services need
  not answer: undici's time-outs are what ends a call.
- `Startup!Fairness`: Compose starts the two processes and starts them again, their loops run, and a
  request to a registry is answered or fails. Nothing obliges anybody to migrate or seed, or the
  registry to come up; `QuickstartScores` therefore assumes both done, and that nothing fails.
- `Views!FairSpec`: what is fetched arrives, and an optimization ends. No score, zoom or click need come.

### What the code does that its documents do not say

1. `v_offsets`: ADR-0004's "a consumer restart re-reads from the last committed offset" does not
   cover the samples of open windows, whose offsets are committed already.
2. `v_strictmode`: after the cleanup of React's first effect run the client never connects again, in
   the development server the end-to-end tests use.
3. `v_forecast`: the backend's schema takes timestamps in Z only, `ml-forecast` sends +00:00; every
   forecast is answered with 502 and none is cached.
4. `v_graph`: `e2e/network-graph.spec.ts` expects the circles of the network graph within 10 s of
   the answers. With hubs and routes there, the graph is drawn by the second render after, and the
   layout causes none: without a score, a zoom or a click it stays empty.

Others are visible in the models and have no run of their own. Windows do not tumble at 5 s: a
sample joins whatever window is open, however old (`Touched`). Messages are keyed by ship, not by
route as ADR-0004 says, so two instances can aggregate one route (`SameKeyOtherInstance` says what
follows). A tool that fails with an exception without text is streamed as a success
(`ToolReturns`). Hubs without a path are answered with 500 and not 404 (`NoPathRaised`). The comment
that boundary solutions are "always retained" (`nsga2.py:69`) holds for the crowding distance and not
for the answer, which a weighted sum cuts. Requests that miss together all run the optimizer,
against the header of `optimize.ts`. Two instances that share a route may publish an older window after
a newer one, and the page shows what came last, not "the most recent score per route" (`ws.ts:5`).

When the first front is smaller than topK, `optimizer.py:228` fills the answer up with dominated paths;
`tests/test_optimizer.py:25` ("top-K must be from front 0") and `services/ml-optimize/README.md:27` say
that it does not. `AnswerSound` takes neither side: no path of a later front is in an answer that leaves
out one of the first, and the answer has topK paths or fewer.

The 'close' listener that should cancel the agent's upstream run when the client has disconnected
(`agent.ts:94`) is attached after that event and never hears of it (`Accept`, `ClientGone`): a run its
user has stopped goes on, and is saved. No property asks for that. `ConsoleFollows` and `RunIsSaved` are
about runs that somebody watches. A coordinator that waits for the model for 300 s is given up on, and the
console stops in the middle of the run with neither an outcome nor an error of its own (`BodyTimeout`).

At start-up: a backend that starts before the migrations stays up, healthy, and never consumes, since
`start()` is not tried again (`LoadRouteMeta`, "crashed"); one that starts before the seed knows no
route until it is restarted. A registry that comes up after the simulator's last attempt leaves it
sending messages without an id, which the consumer drops for good. A seed that stopped half-way is
never completed: the next run finds suppliers and skips. After an upgrade the messages carry the old
schema's id, since an existing subject's is taken without comparing (`GetLatest`).

On the page: a route to a hub that is not in the list yet makes d3 throw, and without an
error boundary the page is blank until it is reloaded (`Reload`). A highlight or a forecast may belong
to hubs or a supplier no longer picked, since neither `Clear` nor a new pick cancels a call.

## 4. Proofs

| module | theorem | says |
|---|---|---|
| `StreamConsumerProofs` | `TypeCorrect` | `Spec => []TypeOK` |
| | `EverySampleHasOneFate` | `Spec => []OneFate` |
| | `KeysOfOneInstanceDiffer` | `Spec => []SameKeyOtherInstance` |
| | `RowsSurvive` | `Spec => []RowSurvives` |
| `StreamLedgerProofs` | `PublishedInOrder` | `Spec => []PublishInOrder` |
| | `RedeliveriesNeedFaults` | a message is folded at most once more than there were faults |
| | `NothingLost` | `SoleInstance => (Spec => []Accounted)` |
| | `ConsumerImplementsLedger` | `SoleInstance => (Spec => ImplementsLedger)` |
| `ScoreFanoutProofs` | `FanoutTypeCorrect` | `Spec => []TypeOK` |
| | `ConnectedOnce` | `Spec => []OneConnection` |
| | `CommandsKeepOrder` | `Spec => []CommandsInOrder` |
| | `BeatsWithConnection` | `Spec => []HeartbeatWhileOpen` |
| | `OneConnectionInOrder` | `Spec => AppliedInOrder` |
| `AgentStreamProofs` | `StreamRunsTheAgent` | the composed system runs the coordinator as specified |
| | `ConversationsAreAccepted` | `Spec => []Conversation` |
| | `RowsTellTheStream` | `Spec => []RowAgreesWithStream` |
| | `SpentBudgetPlansAreComplete` | `Spec => []BudgetPlanComplete` |
| | `StreamTypeCorrect` | `Spec => []TypeOK` |
| | `ConsoleShowsTheStream` | `Spec => []ConsoleFollows` |
| `CachedProxyProofs` | `ProxyTypeCorrect` | `Spec => []TypeOK` |
| | `ServedRunsAreStored` | `Spec => []ServedIsStored` |
| | `StalenessIsBounded` | `Spec => []BoundedStaleness` |
| `RouteOptimizerProofs` | `OptimizerTypeCorrect` | `Spec => []TypeOK` |
| | `FrontsOfEveryCall` | `Spec => []FrontsAreLayers` |
| | `AnswersAreSound` | `Spec => []AnswerSound` |
| | `NoDominatorLeftOut` | `Spec => []NothingBetterLeftOut` |
| | `OptimaAreOffered` | `Spec => []OptimumOffered` |
| `StartupProofs` | `StartupTypeCorrect` | `Spec => []TypeOK` |
| | `FilesMigratedOnce` | `Spec => []MigratedOnce` |
| | `DataSeededOnce` | `Spec => []SeededOnce` |
| | `SubjectsRegisteredOnce` | `Spec => []RegisteredOnce` |
| `ViewsProofs` | `ViewsTypeCorrect` | `Spec => []TypeOK` |
| | `AnswersAreForTheAsk` | `Spec => []ShownIsAsked` |

They hold for any sets of instances, routes, ships, partitions, sockets, hubs, requests, keys,
runners, seeds and clients, and for any bounds, under the assumptions the modules make of their
constants. Those that are more than the type of a number or a name apart from the rest:

- `StreamConsumer`: `Window` is at least one tick, and the keying functions map into their sets, as
  the simulator's do. Two theorems have the hypothesis `SoleInstance`. `ImplementsLedger` and
  `Accounted` say that a stored batch stays as it is, and with a second instance it need not: both can
  write one key, and the later row wins (`SameKeyOtherInstance`). `PublishInOrder` has its premise,
  `FlushLatency < Window`, in itself.
- `CachedProxy`: `TTL` and `Timeout` are positive.
- `RouteOptimizer`: hubs and routes are finite, distances and costs per kilometre are naturals.
- `Startup`: there is a file and a topic, and backend and simulator are the registry's clients.
- `Views`: there is a horizon to forecast over.

No hypothesis is about fairness. Each safety theorem rests on an inductive invariant; the proofs
show that the initial state has it and that each action keeps it, one step per action.

*Windows and rows.* That two windows of one instance never share a row key is true only
because of *when* windows open and close. `Inductive` says it: a window opened in the past;
whatever was flushed opened at least `Window` ticks ago, at least `Window` ticks before the
instance's next window of the route, and at least `Window` ticks away from everything else that
instance flushed for the route (`KeyInv`). `FlushExpired` establishes it, since it takes only windows
of that age and deletes them in the same turn; it survives a restart, since the clock does not go
back. With `RowsWritten` (a row belongs to a commit), a first insert finds no row of its own instance
to update, so all columns are its own: `RowSurvives`. `SamplesKnown` says that the delivery counter
is at least as high as every delivery held anywhere, so a sample folded now is new: `OneFate`.

*Order of updates.* `FlightInv` orders everything one instance has for a route: what is published
before the flush in flight, that before the window now open. `FlightAge` bounds a flush by
`FlushLatency`; if that is less than a window, the flush before has ended when the next one starts
(`OneInFlight`), so that what a flush announces is newer than all that was published
(`AnnouncedFirst`). A crash forgets the flushes and keeps the clock.

*Nothing lost.* A message is delivered again only after its partition has lost its owner, and that
takes a crash, a shutdown or a rebalance: `FewDeliveries` bounds the folds of a message by
`1 + faults`. So without a fault it was folded once, and `Placed` follows that
one sample from window to flush to row. `Quiet` (without a fault nobody stops) rules out the steps
that drop a window. For the refinement, each step is shown to be a step of `SampleLedger` or a
stutter: a fold gathers one new sample, a commit stores one batch whole, a death loses the batches
of that instance; `HeldInv` gives that a commit's batch is not empty, that its samples are not yet
stored, and that every row belongs to a commit.

*Sockets.* `ClientInv`: there is one socket object or one pending timer at most (`Single`); a client
whose effect has not run has neither (`Untouched`); what waits in the queue has higher numbers than all
that was written (`Waiting`), and nothing waits while the socket is open (`Drained`), which is why
`send()` may write past an empty queue. Since there is one socket, the close that clears the heartbeat is
that of the socket it was set for (`BeatInv`). For the updates, `OrderInv` follows the path from the
channel to the page: every queue is in the channel's order (`InOrder`), what a connection carries
is older than what its instance has still to hand out (`CarriedFirst`), what it has brought to the
page is older than both (`ShownFirst`), and an unanswered connection carries nothing
(`DialedEmpty`). A new connection may land on an instance that lags, and forgets what the last one
brought; hence "over one connection" in `AppliedInOrder`.

*Agent.* `StreamRunsTheAgent` shows that every step of the composed system is a step of the
coordinator or leaves its variables alone, so that what follows needs its actions only. `AgentInv`:
the messages alternate and every tool use of an earlier turn is answered, while the turn under way is
answered up to the tool that runs (`Talk`); plan, error and row agree with what was streamed
(`Records`); the calls kept are those streamed, each but the one under way with its outcome (`Log`).
For the console, `StreamInv`: what is shown, followed by what is on the wire, is what the proxy has
piped, an initial part of the stream (`Follow`); how the ends of the two responses go together
(`Wires`); and a console that stopped by itself has seen the outcome, was refused and says so, or was
cut off by the proxy's timeout (`AtOutcome`).

*Proxies.* `ProxyInv`: where a request and its job can be together (`Progress`); what is served was
stored as a run for that key (`Served`); and a call is no older than its time-out, and what waits to be
stored no older than that and the outages so far (`Ages`). The TTL starts when an entry is stored,
which is where the sum of the three comes from.

*Optimizer.* `SortInv`: two candidates have been compared once the outer loop has reached one of
them (`Met`), and a count is the number of dominators met and not peeled yet. A candidate whose turn
is over has met everybody, so its count is final when it decides about the first front, and reaches
zero exactly when its last dominator is peeled: `fronts[f]` is the layer f, less the candidates
whose turn is still to come. Dominance is a strict order, so whenever somebody is left, somebody left
is undominated, and an empty front means the end. `CallInv` adds
that everything the call gathers is a simple path of active routes, of which there are finitely
many. Every ranking lists the candidates front by front (`RankingsRanked`), so that whoever dominates
comes before whom it dominates, and a cut that spares the latter spares both; within one front nobody
dominates: `NothingBetterLeftOut`. The first front is listed first as well, so that a cut leaves one of
it out only when it has no room for others: `AnswerSound`. That an
optimum is offered goes by weights: the path taken first in a collapsed graph is the lightest of
the multigraph, since a path is as light as another if each of its hops is; nothing dominates it
without being as light.

Sums over a path and the ranking are folds, which the community modules define by a recursive
function. That this function exists is a lemma here (`FoldsExist`), and what holds of all folds is
shown from a smallest set for which it fails (`MinimalMember`, `LeastNumber`), since the library's
induction theorems take an operator as a parameter, which the provers cannot instantiate.

*Start-up.* Each of the three invariants speaks of one component's variables; a lemma (`StepOf...`)
shows that the rest of the system leaves them alone or takes that component's steps. `MigrateInv`: what
was committed is an initial segment of the files, and nobody is past its end by more than one; so the
file a runner applies is either recorded, and refused, or the next. `SeedInv`: two runs under way know
of each other, and so do one that has found no suppliers and one whose suppliers are there, because
they can only have come in since, while both were under way. `RegistryInv`: a subject has one version at
most, and a client about to post finds it empty or holding its own build's schema, because clients are
of one build; so posting adds nothing to what is there.

*Views.* `ShownInv` follows the key: a query in flight has the key it was asked under, so the cache
holds under a route's key nothing but that route's scores. For the types, a graph is `Sound` for the
data it was rendered with: drawn only with positions, thrown only by routes newer than the hubs.

The prover does not reach liveness or ENABLED, so `FoldedSettles`, `SubscriberReleased`,
`UpdatesReach`, `MountedOpens`, `RunStops`, `RunIsSaved`, `EveryRequestEnds` and `QuickstartScores` are
model-checked only, and so are the four violations of section 3.

## 5. Not modelled

HTTP plumbing, configuration, logging, tracing and the read-only routes have no state of their own.
Of the views: what a picture looks like, `Layout`, `ScoreSparkline`. `sse.ts` puts frames together
from chunks; in `AgentStream` a frame is one event. The GNN and the forecaster are floating-point
numerics. `schema.ts` and `seed-data.ts` are declarations and data. Weather and congestion messages of the
simulator have no consumer in the repository.

## 6. Plan

1. `Sse`: frames of the agent's stream cut into chunks and put together again, under `AgentStream`.
2. A schema of the registry that changes between two builds, so that a client's id and the payload
   it sends can disagree.
3. `start()` of the consumer step by step, with a shutdown in the middle of it.

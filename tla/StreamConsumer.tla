---------------------------- MODULE StreamConsumer ----------------------------
(***************************************************************************)
(* The stream consumer of the backend                                      *)
(* (apps/backend/src/stream-consumer.ts), with the producer that feeds it  *)
(* (sendBatch of apps/simulator/src/index.ts), the process that starts and *)
(* stops it (main of apps/backend/src/server.ts) and, as external parts,   *)
(* the Kafka topics and consumer group, the two TimescaleDB tables and the *)
(* Redis channel as that code uses them.                                   *)
(*                                                                         *)
(* Every backend instance runs one consumer of the group.  It folds the    *)
(* fuel samples of a route into an in-memory window, closes the window     *)
(* once it is Window ticks old, writes the aggregate to two tables in one  *)
(* transaction and then announces it.  Offsets are committed by the client *)
(* library as messages are handled, whatever became of the windows.        *)
(*                                                                         *)
(* Abstracted: the numbers.  A window's sums and the score computed from   *)
(* them are represented by the set of samples they were computed from.     *)
(***************************************************************************)
EXTENDS Naturals, Integers, FiniteSets, Sequences

CONSTANTS
  Instances,      \* backend processes, each running one StreamConsumer
  Routes,         \* routes.id
  Ships,          \* the simulator's ships; each sails one route
  RouteOf,        \* [Ships -> Routes]
  Partitions,     \* topic-partitions of shipment.position and shipment.fuel
  TopicOf,        \* [Partitions -> {"position", "fuel"}]
  PartitionOf,    \* [{"position", "fuel"} -> [Ships -> Partitions]]: the key hash
  Malformed,      \* a message the consumer drops: no value, bad JSON, no header,
                  \* or a body the schema rejects
  Noisy,          \* the topic-partitions on which such messages appear
  Nobody,         \* the owner of an unassigned partition
  Window,         \* WINDOW_MS, in ticks
  FlushLatency,   \* bound on how long a flush stays in flight, in ticks
  MaxTime,        \* bound on the clock
  MaxOffset,      \* bound on the length of a partition
  MaxFaults       \* bound on crashes, shutdowns, rebalances and failed calls

ASSUME WindowAssumption  == Window \in Nat \ {0}
ASSUME BoundsAssumption  == /\ MaxTime \in Nat /\ MaxOffset \in Nat
                            /\ MaxFaults \in Nat /\ FlushLatency \in Nat
ASSUME NoisyAssumption   == Noisy \subseteq Partitions
ASSUME NamesAssumption   == Malformed \notin Routes /\ Nobody \notin Instances
ASSUME KeyingAssumption  ==
  /\ RouteOf \in [Ships -> Routes]
  /\ TopicOf \in [Partitions -> {"position", "fuel"}]
  /\ PartitionOf \in [{"position", "fuel"} -> [Ships -> Partitions]]
  /\ \A topic \in {"position", "fuel"}, s \in Ships : TopicOf[PartitionOf[topic][s]] = topic

VARIABLES
  clock,       \* Date.now(), one clock for all instances
  log,         \* log[p]: the messages of topic-partition p, a route each
  owner,       \* owner[p]: the instance the group assigned p to
  position,    \* position[p]: how many messages of p its owner has handled or skipped
  committed,   \* committed[p]: the group's offset for p, or NoOffset
  unsaved,     \* unsaved[p]: the owner has handled messages since its last commit
  catalog,     \* the active rows of the routes table
  phase,       \* phase[i]: life of the process and its consumer
  routeMeta,   \* routeMeta[i]: the routes loaded by loadRouteMeta
  schemaIds,   \* schemaIds[i]: whether registerSchemas obtained the ids
  state,       \* state[i][r]: the open window of route r, or NoWindow
  flushing,    \* doFlushWindow calls in flight
  telemetry,   \* emissions_telemetry: <<route, start>> -> samples summed, {} for no row
  carbon,      \* carbon_scores: <<route, start>> -> samples behind each column
  published,   \* score updates that reached the Redis channel, in order
  scored,      \* records of the shipment.score_updated topic
  faults,      \* faults spent so far
  folds,       \* history: folds[p][n], times the n-th message of p was folded
  commits      \* history: the flushes whose transaction committed

vars == <<clock, log, owner, position, committed, unsaved, catalog, phase, routeMeta,
          schemaIds, state, flushing, telemetry, carbon, published, scored, faults,
          folds, commits>>

brokerVars  == <<log, owner, position, committed, unsaved>>
processVars == <<phase, routeMeta, schemaIds>>
storeVars   == <<telemetry, carbon, commits>>
outVars     == <<published, scored>>

NoOffset == -1
Offsets  == 1..MaxOffset
Times    == 0..MaxTime
Messages == Routes \cup {Malformed}
Keys     == Routes \X Times

\* One delivery of one message that was folded into a window: which message,
\* which delivery of it, and when it was folded.
Samples == [part: Partitions, off: Offsets, nth: Nat, at: Times]
IdOf(s) == <<s.part, s.off, s.nth>>

Windows  == [open: BOOLEAN, start: Times, samples: SUBSET Samples]
NoWindow == [open |-> FALSE, start |-> 0, samples |-> {}]

\* A call of doFlushWindow: before its transaction ("persist") or after it ("announce").
Flushes == [inst: Instances, route: Routes, start: Times, samples: SUBSET Samples,
            since: Times, stage: {"persist", "announce"}]
Commits == [inst: Instances, route: Routes, start: Times, samples: SUBSET Samples]
Scores  == [score: SUBSET Samples, detail: SUBSET Samples]
Updates == [inst: Instances, route: Routes, start: Times]

Phases == {"down", "running", "stopping", "failed"}
Alive(i) == phase[i] \in {"running", "stopping"}

-------------------------------------------------------------------------------

Init ==
  /\ clock = 0
  /\ log = [p \in Partitions |-> <<>>]
  /\ owner = [p \in Partitions |-> Nobody]
  /\ position = [p \in Partitions |-> 0]
  /\ committed = [p \in Partitions |-> NoOffset]
  /\ unsaved = [p \in Partitions |-> FALSE]
  /\ catalog = {}
  /\ phase = [i \in Instances |-> "down"]
  /\ routeMeta = [i \in Instances |-> {}]
  /\ schemaIds = [i \in Instances |-> FALSE]
  /\ state = [i \in Instances |-> [r \in Routes |-> NoWindow]]
  /\ flushing = {}
  /\ telemetry = [k \in Keys |-> {}]
  /\ carbon = [k \in Keys |-> [score |-> {}, detail |-> {}]]
  /\ published = <<>>
  /\ scored = {}
  /\ faults = 0
  /\ folds = [p \in Partitions |-> [n \in Offsets |-> 0]]
  /\ commits = {}

Fault == faults < MaxFaults /\ faults' = faults + 1

\* A call of a stopping process may fail without a further fault: shutdown closes the
\* producer, the database pool and Redis under the flushes in flight.
FailedCall(i) == IF phase[i] = "stopping" THEN UNCHANGED faults ELSE Fault

-------------------------------------------------------------------------------
\* The environment: time, the simulator, the seeded catalogue.

\* Time passes.  No flush stays in flight longer than FlushLatency.
Tick ==
  /\ clock < MaxTime
  /\ \A f \in flushing : clock - f.since < FlushLatency
  /\ clock' = clock + 1
  /\ UNCHANGED <<brokerVars, processVars, storeVars, outVars, catalog, state, flushing,
                 faults, folds>>

\* One tick of the simulator for one ship: a position and a fuel message, both keyed
\* by the ship.  sendBatch spans partitions, so a failed call may have written either.
SendBatch(ship) ==
  /\ RouteOf[ship] \in catalog
  /\ \E topics \in SUBSET {"position", "fuel"} :
       LET written == {PartitionOf[topic][ship] : topic \in topics}
       IN  /\ written # {}
           /\ \A p \in written : Len(log[p]) < MaxOffset
           /\ log' = [p \in Partitions |-> IF p \in written THEN Append(log[p], RouteOf[ship])
                                                            ELSE log[p]]
  /\ UNCHANGED <<clock, owner, position, committed, unsaved, catalog, processVars, state,
                 flushing, storeVars, outVars, faults, folds>>

\* A message the consumer will not accept.
SendMalformed(p) ==
  /\ Len(log[p]) < MaxOffset
  /\ log' = [log EXCEPT ![p] = Append(@, Malformed)]
  /\ UNCHANGED <<clock, owner, position, committed, unsaved, catalog, processVars, state,
                 flushing, storeVars, outVars, faults, folds>>

\* The seed inserts the routes, in one statement.
Seed ==
  /\ catalog = {}
  /\ catalog' = Routes
  /\ UNCHANGED <<clock, brokerVars, processVars, state, flushing, storeVars, outVars,
                 faults, folds>>

-------------------------------------------------------------------------------
\* The process and the consumer group.

\* start(): the route metadata is read once; registerSchemas gives up after its retries
\* and goes on without ids; any other failure leaves the process up, consuming nothing.
Start(i) ==
  /\ phase[i] = "down"
  /\ \/ /\ phase' = [phase EXCEPT ![i] = "running"]
        /\ routeMeta' = [routeMeta EXCEPT ![i] = catalog]
        /\ \E ids \in BOOLEAN : schemaIds' = [schemaIds EXCEPT ![i] = ids]
        /\ UNCHANGED faults
     \/ /\ phase' = [phase EXCEPT ![i] = "failed"]
        /\ Fault
        /\ UNCHANGED <<routeMeta, schemaIds>>
  /\ UNCHANGED <<clock, brokerVars, catalog, state, flushing, storeVars, outVars, folds>>

\* Faulty variant of Assign: the absent offset is used as if it were one.
AssignWithoutReset(p, i) ==
  /\ phase[i] = "running"
  /\ owner[p] = Nobody
  /\ owner' = [owner EXCEPT ![p] = i]
  /\ position' = [position EXCEPT ![p] = committed[p]]
  /\ UNCHANGED <<clock, log, committed, unsaved, catalog, processVars, state, flushing,
                 storeVars, outVars, faults, folds>>

\* The group assigns p to i.  The new owner reads from the committed offset, or from the
\* end of the partition when there is none (fromBeginning: false).  Taking a partition
\* from a live owner is a rebalance.
Assign(p, i) ==
  /\ phase[i] = "running"
  /\ owner[p] # i
  /\ IF owner[p] = Nobody THEN UNCHANGED faults ELSE Fault
  /\ owner' = [owner EXCEPT ![p] = i]
  /\ position' = [position EXCEPT ![p] = IF committed[p] = NoOffset THEN Len(log[p])
                                                                    ELSE committed[p]]
  /\ unsaved' = [unsaved EXCEPT ![p] = FALSE]
  /\ UNCHANGED <<clock, log, committed, catalog, processVars, state, flushing, storeVars,
                 outVars, folds>>

\* The client's auto-commit of what eachMessage has returned from.
Commit(p) ==
  /\ unsaved[p]
  /\ owner[p] # Nobody
  /\ committed' = [committed EXCEPT ![p] = position[p]]
  /\ unsaved' = [unsaved EXCEPT ![p] = FALSE]
  /\ UNCHANGED <<clock, log, owner, position, catalog, processVars, state, flushing,
                 storeVars, outVars, faults, folds>>

\* The group takes back what i owned.
Release(i) ==
  /\ owner' = [p \in Partitions |-> IF owner[p] = i THEN Nobody ELSE owner[p]]
  /\ unsaved' = [p \in Partitions |-> owner[p] # i /\ unsaved[p]]
  /\ UNCHANGED <<log, position, committed>>

\* What a process leaves behind when it is gone: nothing but its writes.
Gone(i) ==
  /\ phase' = [phase EXCEPT ![i] = "down"]
  /\ Release(i)
  /\ state' = [state EXCEPT ![i] = [r \in Routes |-> NoWindow]]
  /\ flushing' = {f \in flushing : f.inst # i}
  /\ routeMeta' = [routeMeta EXCEPT ![i] = {}]
  /\ schemaIds' = [schemaIds EXCEPT ![i] = FALSE]
  /\ UNCHANGED <<clock, catalog, storeVars, outVars, folds>>

\* SIGTERM or SIGINT: stop() first clears the flush timer.  The consumer still handles
\* messages until it has left the group.
Stop(i) ==
  /\ phase[i] \in {"running", "failed"}
  /\ Fault
  /\ phase' = [phase EXCEPT ![i] = "stopping"]
  /\ UNCHANGED <<clock, brokerVars, catalog, routeMeta, schemaIds, state, flushing, storeVars,
                 outVars, folds>>

\* consumer.disconnect() has left the group; the process has yet to close its server.
Leave(i) ==
  /\ phase[i] = "stopping"
  /\ \E p \in Partitions : owner[p] = i
  /\ Release(i)
  /\ UNCHANGED <<clock, catalog, processVars, state, flushing, storeVars, outVars, faults,
                 folds>>

\* process.exit(0) at the end of shutdown, whichever of the two signal handlers gets there.
Exit(i) == phase[i] = "stopping" /\ Gone(i) /\ UNCHANGED faults

\* The process dies.
Crash(i) == phase[i] \in {"running", "failed"} /\ Gone(i) /\ Fault

-------------------------------------------------------------------------------
\* Messages.

\* Faulty variant of Touched: an expired window is replaced before the timer has seen it.
TouchedTumbling(i, r) ==
  IF state[i][r].open /\ clock - state[i][r].start < Window
    THEN state[i][r]
    ELSE [open |-> TRUE, start |-> clock, samples |-> {}]

\* touchWindow: open a window at the present time if the route has none.
Touched(i, r) ==
  IF state[i][r].open THEN state[i][r]
                      ELSE [open |-> TRUE, start |-> clock, samples |-> {}]

\* A position message does no more than that.
ApplyPosition(i, r) ==
  /\ state' = [state EXCEPT ![i][r] = Touched(i, r)]
  /\ UNCHANGED folds

\* applyFuel: the sample joins the open window, however old it is.
ApplyFuel(i, r, p, off) ==
  LET nth == folds[p][off] + 1
      w   == Touched(i, r)
      s   == [part |-> p, off |-> off, nth |-> nth, at |-> clock]
  IN  /\ folds' = [folds EXCEPT ![p][off] = nth]
      /\ state' = [state EXCEPT ![i][r] = [w EXCEPT !.samples = @ \cup {s}]]

\* onMessage for the next message of partition p.  The bound keeps every window young
\* enough to close before the clock stops.
OnMessage(i, p) ==
  /\ Alive(i)
  /\ owner[p] = i
  /\ position[p] < Len(log[p])
  /\ clock + Window <= MaxTime
  /\ LET r == log[p][position[p] + 1]
     IN  \/ r \notin routeMeta[i] /\ UNCHANGED <<state, folds>>
         \/ r \in routeMeta[i] /\ TopicOf[p] = "position" /\ ApplyPosition(i, r)
         \/ r \in routeMeta[i] /\ TopicOf[p] = "fuel" /\ ApplyFuel(i, r, p, position[p] + 1)
  /\ position' = [position EXCEPT ![p] = @ + 1]
  /\ unsaved' = [unsaved EXCEPT ![p] = TRUE]
  /\ UNCHANGED <<clock, log, owner, committed, catalog, processVars, flushing, storeVars,
                 outVars, faults>>

-------------------------------------------------------------------------------
\* Windows.

\* Faulty variants of Expired: any window with samples; only one met at its exact age.
ExpiredAtAnyAge(i, r)  == state[i][r].open /\ state[i][r].samples # {}
ExpiredAtExactAge(i, r) ==
  state[i][r].open /\ clock - state[i][r].start = Window /\ state[i][r].samples # {}

Expired(i, r) ==
  state[i][r].open /\ clock - state[i][r].start >= Window /\ state[i][r].samples # {}

FlushOf(i, r) ==
  [inst |-> i, route |-> r, start |-> state[i][r].start, samples |-> state[i][r].samples,
   since |-> clock, stage |-> "persist"]

\* Faulty variant of FlushExpired: the window is flushed and stays open.
FlushExpiredKeeping(i) ==
  /\ phase[i] = "running"
  /\ \E r \in Routes : Expired(i, r)
  /\ flushing' = flushing \cup {FlushOf(i, r) : r \in {q \in Routes : Expired(i, q)}}
  /\ UNCHANGED <<clock, brokerVars, catalog, processVars, state, storeVars, outVars, faults,
                 folds>>

\* The flush timer: every expired window with samples starts its flush and is deleted in
\* the same turn of the event loop, before the flush has written anything.
FlushExpired(i) ==
  /\ phase[i] = "running"
  /\ \E r \in Routes : Expired(i, r)
  /\ flushing' = flushing \cup {FlushOf(i, r) : r \in {q \in Routes : Expired(i, q)}}
  /\ state' = [state EXCEPT ![i] = [r \in Routes |-> IF Expired(i, r) THEN NoWindow ELSE @[r]]]
  /\ UNCHANGED <<clock, brokerVars, catalog, processVars, storeVars, outVars, faults, folds>>

KeyOf(f) == <<f.route, f.start>>
CommitOf(f) == [inst |-> f.inst, route |-> f.route, start |-> f.start, samples |-> f.samples]

\* The transaction of doFlushWindow.  Both inserts are upserts; the second one updates
\* the score of an existing row and none of its other columns.
Write(f) ==
  /\ telemetry' = [telemetry EXCEPT ![KeyOf(f)] = f.samples]
  /\ carbon' = [carbon EXCEPT ![KeyOf(f)] =
                  [score |-> f.samples, detail |-> IF @.score = {} THEN f.samples ELSE @.detail]]
  /\ commits' = commits \cup {CommitOf(f)}

Persist(f) ==
  /\ f.stage = "persist"
  /\ Write(f)
  /\ flushing' = (flushing \ {f}) \cup {[f EXCEPT !.stage = "announce"]}
  /\ UNCHANGED <<clock, brokerVars, catalog, processVars, state, outVars, faults, folds>>

\* The transaction fails: the error is logged and the window is not kept anywhere.
PersistFail(f) ==
  /\ f.stage = "persist"
  /\ FailedCall(f.inst)
  /\ flushing' = flushing \ {f}
  /\ UNCHANGED <<clock, brokerVars, catalog, processVars, state, storeVars, outVars, folds>>

\* Faulty variant of PersistUnacknowledged: the flush is retried.
PersistUnacknowledgedRetry(f) ==
  /\ f.stage = "persist"
  /\ FailedCall(f.inst)
  /\ Write(f)
  /\ UNCHANGED <<clock, brokerVars, catalog, processVars, state, flushing, outVars, folds>>

\* It commits, but the connection is lost before the answer: the flush ends as failed.
PersistUnacknowledged(f) ==
  /\ f.stage = "persist"
  /\ FailedCall(f.inst)
  /\ Write(f)
  /\ flushing' = flushing \ {f}
  /\ UNCHANGED <<clock, brokerVars, catalog, processVars, state, outVars, folds>>

\* Faulty variant of Announce: both calls are repeated when the Kafka one fails.
AnnounceRetry(f) ==
  /\ f.stage = "announce"
  /\ published' = Append(published, [inst |-> f.inst, route |-> f.route, start |-> f.start])
  /\ \/ flushing' = flushing \ {f} /\ UNCHANGED faults
     \/ Fault /\ UNCHANGED flushing
  /\ UNCHANGED <<clock, brokerVars, catalog, processVars, state, storeVars, scored, folds>>

\* The Kafka record, not awaited, and the Redis publish; a fault loses either.
Announce(f) ==
  /\ f.stage = "announce"
  /\ \E reached \in SUBSET {"topic", "channel"} :
       /\ IF reached = {"topic", "channel"} THEN UNCHANGED faults ELSE FailedCall(f.inst)
       /\ published' = IF "channel" \in reached
                         THEN Append(published, [inst |-> f.inst, route |-> f.route,
                                                 start |-> f.start])
                         ELSE published
       /\ scored' = IF "topic" \in reached
                      THEN scored \cup {[route |-> f.route, start |-> f.start,
                                         header |-> schemaIds[f.inst]]}
                      ELSE scored
  /\ flushing' = flushing \ {f}
  /\ UNCHANGED <<clock, brokerVars, catalog, processVars, state, storeVars, folds>>

-------------------------------------------------------------------------------

\* Where the bound on the clock ends a behaviour; nothing the program does.
EndOfTime == clock = MaxTime /\ UNCHANGED vars

Next ==
  \/ Tick
  \/ \E s \in Ships : SendBatch(s)
  \/ \E p \in Noisy : SendMalformed(p)
  \/ Seed
  \/ \E i \in Instances :
       Start(i) \/ Stop(i) \/ Leave(i) \/ Exit(i) \/ Crash(i) \/ FlushExpired(i)
  \/ \E p \in Partitions, i \in Instances : Assign(p, i) \/ OnMessage(i, p)
  \/ \E p \in Partitions : Commit(p)
  \/ \E f \in flushing :
       Persist(f) \/ PersistFail(f) \/ PersistUnacknowledged(f) \/ Announce(f)
  \/ EndOfTime

Spec == Init /\ [][Next]_vars

\* The timer of a running instance keeps firing and the database and the broker answer.
\* Nothing obliges a ship to send, a process to start, stop or fail.
Fairness ==
  /\ WF_vars(Tick)
  /\ \A i \in Instances : WF_vars(FlushExpired(i)) /\ WF_vars(Exit(i))
  /\ WF_vars(\E f \in flushing : Persist(f) \/ PersistFail(f) \/ PersistUnacknowledged(f))
  /\ WF_vars(\E f \in flushing : Announce(f))

FairSpec == Spec /\ Fairness
-------------------------------------------------------------------------------
\* Properties.

\* Every variable has its type.
TypeOK ==
  /\ clock \in Times
  /\ log \in [Partitions -> Seq(Messages)]
  /\ owner \in [Partitions -> Instances \cup {Nobody}]
  /\ position \in [Partitions -> Nat]
  /\ committed \in [Partitions -> Nat \cup {NoOffset}]
  /\ unsaved \in [Partitions -> BOOLEAN]
  /\ catalog \in SUBSET Routes
  /\ phase \in [Instances -> Phases]
  /\ routeMeta \in [Instances -> SUBSET Routes]
  /\ schemaIds \in [Instances -> BOOLEAN]
  /\ state \in [Instances -> [Routes -> Windows]]
  /\ flushing \in SUBSET Flushes
  /\ telemetry \in [Keys -> SUBSET Samples]
  /\ carbon \in [Keys -> Scores]
  /\ published \in Seq(Updates)
  /\ scored \in SUBSET [route: Routes, start: Times, header: BOOLEAN]
  /\ faults \in 0..MaxFaults
  /\ folds \in [Partitions -> [Offsets -> Nat]]
  /\ commits \in SUBSET Commits
  /\ \A p \in Partitions : Len(log[p]) <= MaxOffset

Persisting == {f \in flushing : f.stage = "persist"}
Disjoint(a, b) == a \cap b = {}

\* No sample is counted twice: the open windows, the flushes that have yet to commit and
\* the committed ones hold disjoint sets of samples, across all instances, whatever the
\* order in which the timer, the messages and the transactions interleave.
OneFate ==
  /\ \A i, j \in Instances, r, q \in Routes :
       <<i, r>> # <<j, q>> => Disjoint(state[i][r].samples, state[j][q].samples)
  /\ \A i \in Instances, r \in Routes, f \in Persisting \cup commits :
       Disjoint(state[i][r].samples, f.samples)
  /\ \A f, g \in Persisting : f # g => Disjoint(f.samples, g.samples)
  /\ \A f \in Persisting, c \in commits : Disjoint(f.samples, c.samples)
  /\ \A c, d \in commits : c # d => Disjoint(c.samples, d.samples)

\* Two windows of one instance never share the key of a row, restarts included: when two
\* committed flushes of a route have the same time, two instances wrote them.
SameKeyOtherInstance ==
  \A c, d \in commits : c # d /\ KeyOf(c) = KeyOf(d) => c.inst # d.inst

\* A committed window stays in both tables, in all its columns, unless another instance
\* committed a window of the same route with the same time.  (The upserts overwrite.)
RowSurvives ==
  \A c \in commits :
    (\A d \in commits : KeyOf(d) = KeyOf(c) => d.inst = c.inst)
      => /\ telemetry[KeyOf(c)] = c.samples
         /\ carbon[KeyOf(c)] = [score |-> c.samples, detail |-> c.samples]

LiveSamples == UNION ({state[i][r].samples : i \in Instances, r \in Routes}
                        \cup {f.samples : f \in Persisting})
RowSamples  == UNION {telemetry[k] : k \in Keys}

\* Without a fault, every fuel message folded into a window was folded once and is in an
\* open window, in a flush under way, or in a row: handing a window to an unawaited flush
\* and deleting it loses and duplicates nothing.
Accounted ==
  faults = 0 =>
    \A p \in Partitions, n \in Offsets :
      /\ folds[p][n] <= 1
      /\ folds[p][n] = 1 => <<p, n, 1>> \in {IdOf(s) : s \in LiveSamples \cup RowSamples}

\* The updates of a route that one instance puts on the Redis channel are in the order of
\* their windows, with no repetition, although no flush waits for the one before it,
\* provided a flush takes less than a window.
PublishInOrder ==
  FlushLatency < Window =>
    \A m, n \in 1..Len(published) :
      m < n /\ published[m].inst = published[n].inst /\ published[m].route = published[n].route
        => published[m].start < published[n].start

\* A sample that was folded does not stay in memory for ever: its window closes and its
\* flush ends, or the process is gone.
FoldedSettles ==
  \A p \in Partitions, n \in Offsets :
    LET Pending == \E s \in LiveSamples : s.part = p /\ s.off = n
    IN  Pending ~> ~Pending

\* The samples of a route, seen as batches, when one instance runs: the open window and
\* the flushes that have yet to commit are the batches, the rows are what is stored.
Batches == {{IdOf(s) : s \in b} :
              b \in ({state[i][r].samples : i \in Instances, r \in Routes}
                       \cup {f.samples : f \in Persisting}) \ {{}}}
Ledger == INSTANCE SampleLedger WITH
            Ids <- Partitions \X Offsets \X (1..(MaxFaults + 1)),
            batches <- Batches,
            stored <- {IdOf(s) : s \in RowSamples}

\* With one instance the consumer implements the ledger: a window reaches the tables whole
\* or not at all, and neither a later window, a redelivery nor a restart takes it away.
ImplementsLedger == Ledger!Spec

-------------------------------------------------------------------------------
\* The inductive invariant behind OneFate, SameKeyOtherInstance and RowSurvives.

\* What has left the windows and has been, or may still be, written.
Flushed == {CommitOf(f) : f \in Persisting} \cup commits

\* A window opened in the past; what was flushed opened at least Window ticks ago, Window
\* ticks before its instance opened its next window of the route, and Window ticks away
\* from anything else the instance flushed for it.
WindowsPast  == \A i \in Instances, r \in Routes : state[i][r].open => state[i][r].start <= clock
FlushedPast  == \A x \in Flushed : x.start + Window <= clock
WindowsAfter == \A x \in Flushed : state[x.inst][x.route].open
                                     => x.start + Window <= state[x.inst][x.route].start
FlushedApart == \A x, y \in Flushed :
                  x # y /\ x.inst = y.inst /\ x.route = y.route
                    => x.start + Window <= y.start \/ y.start + Window <= x.start
KeyInv == WindowsPast /\ FlushedPast /\ WindowsAfter /\ FlushedApart

\* A row that was written belongs to some commit.
RowsWritten == \A k \in Keys : carbon[k].score # {} => \E c \in commits : KeyOf(c) = k

\* The history counts every delivery that any batch holds.
Known(s) == s.nth <= folds[s.part][s.off]
SamplesKnown ==
  /\ \A i \in Instances, r \in Routes : \A s \in state[i][r].samples : Known(s)
  /\ \A x \in Flushed : \A s \in x.samples : Known(s)

\* What holds because a window is closed at Window ticks of age, in the turn of the event
\* loop that starts its flush, and opened at the present time.
Inductive == KeyInv /\ RowsWritten /\ SamplesKnown

-------------------------------------------------------------------------------
\* What a document of the repository says, and the program does not do.

\* ADR-0004:30, "Kafka durability so a consumer restart re-reads from the last committed
\* offset": what lies before the committed offset and was folded is stored, or still held
\* by a process that can store it.
CommittedOffsetsCovered ==
  \A p \in Partitions, n \in Offsets :
    folds[p][n] > 0 /\ n <= committed[p] =>
      \E s \in LiveSamples \cup RowSamples : s.part = p /\ s.off = n
===============================================================================

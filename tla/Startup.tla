-------------------------------- MODULE Startup --------------------------------
(***************************************************************************)
(* What happens when everything is started together, or in an unlucky      *)
(* order: migration runners and seeds (Database), the backend and the      *)
(* simulator, which read the database once or a few times and then the     *)
(* schema registry (SchemaRegistry), and whether telemetry comes to be     *)
(* scored.  Sources: apps/backend/src/server.ts and stream-consumer.ts     *)
(* (start), apps/simulator/src/index.ts (main), infra/docker-compose.yml.  *)
(*                                                                         *)
(* Abstracted: the topics; of a message, only whether the consumer drops   *)
(* it.  Windows and rows are StreamConsumer's.                             *)
(***************************************************************************)
EXTENDS Database, SchemaRegistry

CONSTANT LoadAttempts       \* times the simulator looks for routes
CONSTANTS Backend, Simulator

ASSUME StartupAssumption == LoadAttempts \in Nat \ {0} /\ {Backend, Simulator} = Clients

VARIABLES
  consumer,     \* the backend: where it stands, and the routes in routeMeta
  simulator,    \* where it stands, its attempts to load routes, and the routes it has
  scored        \* telemetry has been folded

vars == <<databaseVars, faults, registryVars, consumer, simulator, scored>>

Off == [at |-> "off", attempt |-> 1, routes |-> {}]

Init ==
  /\ DatabaseInit /\ RegistryInit
  /\ consumer = [at |-> "off", routes |-> {}]
  /\ simulator = Off
  /\ scored = FALSE

-------------------------------------------------------------------------------
\* The backend.

\* main(): the consumer is started and not awaited; the server listens in any case.
StartBackend ==
  /\ consumer.at = "off"
  /\ consumer' = [at |-> "loading", routes |-> {}]
  /\ UNCHANGED <<databaseVars, faults, registryVars, simulator, scored>>

\* loadRouteMeta: the routes there are, be there none.  When it throws start() is over: the
\* process stays, healthy and consuming nothing.
LoadRouteMeta ==
  /\ consumer.at = "loading"
  /\ \/ Tables /\ consumer' = [at |-> "registering", routes |-> routes]
     \/ ~Tables /\ consumer' = [at |-> "crashed", routes |-> {}]
  /\ UNCHANGED <<databaseVars, faults, registryVars, simulator, scored>>

\* registerSchemas is called; when it is over, with ids or without, the consumer connects and
\* runs.
RegisterSchemas ==
  /\ consumer.at = "registering"
  /\ \/ Register(Backend) /\ UNCHANGED consumer
     \/ /\ Over(Backend)
        /\ consumer' = [consumer EXCEPT !.at = "running"]
        /\ UNCHANGED registryVars
  /\ UNCHANGED <<databaseVars, faults, simulator, scored>>

\* The database or the broker fails it.
StartFails ==
  /\ \/ consumer.at = "loading"
     \/ consumer.at = "registering" /\ Over(Backend)
  /\ Fault
  /\ consumer' = [consumer EXCEPT !.at = "crashed"]
  /\ UNCHANGED <<databaseVars, registryVars, simulator, scored>>

\* The process dies or is stopped; it is started again.
BackendDies ==
  /\ consumer.at # "off"
  /\ Fault
  /\ consumer' = [at |-> "off", routes |-> {}]
  /\ Forget(Backend)
  /\ UNCHANGED <<databaseVars, up, versions, simulator, scored>>

-------------------------------------------------------------------------------
\* The simulator.

\* Compose starts it after the backend; it is started again when it exits.
StartSimulator ==
  /\ simulator.at = "off" /\ consumer.at # "off"
  /\ simulator' = [Off EXCEPT !.at = "loading"]
  /\ UNCHANGED <<databaseVars, faults, registryVars, consumer, scored>>

\* After the last attempt it goes on with the routes it has, or exits without any.
NextAttempt(found) ==
  simulator' =
    IF simulator.attempt < LoadAttempts
    THEN [simulator EXCEPT !.attempt = @ + 1, !.routes = found]
    ELSE IF found = {} THEN Off ELSE [simulator EXCEPT !.at = "connecting", !.routes = found]

\* Faulty variant of LoadRoutes: the attempts are not counted when there are no routes yet.
LoadRoutesUncounted ==
  /\ simulator.at = "loading"
  /\ simulator' =
       IF Tables /\ routes # {} THEN [simulator EXCEPT !.at = "connecting", !.routes = routes]
       ELSE [simulator EXCEPT !.attempt = @ + 1]
  /\ UNCHANGED <<databaseVars, faults, registryVars, consumer, scored>>

\* One turn of the loop: routes end it, no routes or no tables ask for another.
LoadRoutes ==
  /\ simulator.at = "loading"
  /\ IF Tables /\ routes # {}
     THEN simulator' = [simulator EXCEPT !.at = "connecting", !.routes = routes]
     ELSE NextAttempt(IF Tables THEN {} ELSE simulator.routes)
  /\ UNCHANGED <<databaseVars, faults, registryVars, consumer, scored>>

\* A query fails: loadRoutes, or loadHubIds when the routes are loaded already.
LoadFails ==
  /\ simulator.at = "loading"
  /\ Fault
  /\ \/ NextAttempt(simulator.routes)
     \/ Tables /\ NextAttempt(routes)
  /\ UNCHANGED <<databaseVars, registryVars, consumer, scored>>

\* The producer connects and the schemas are registered; then, with ids or without, the
\* intervals start.
Connect ==
  /\ \/ /\ simulator.at = "connecting"
        /\ simulator' = [simulator EXCEPT !.at = "registering"]
        /\ Register(Simulator)
     \/ /\ simulator.at = "registering" /\ Over(Simulator)
        /\ simulator' = [simulator EXCEPT !.at = "running"]
        /\ UNCHANGED registryVars
  /\ UNCHANGED <<databaseVars, faults, consumer, scored>>

\* The broker is not there, or the process dies.
SimulatorDies ==
  /\ simulator.at # "off"
  /\ Fault
  /\ simulator' = Off
  /\ Forget(Simulator)
  /\ UNCHANGED <<databaseVars, up, versions, consumer, scored>>

-------------------------------------------------------------------------------
\* Telemetry is folded when it carries an id, whatever id, and its route is in routeMeta;
\* otherwise onMessage drops it and nothing changes.
Scored ==
  /\ simulator.at = "running" /\ consumer.at = "running"
  /\ Registered(Simulator) /\ simulator.routes \cap consumer.routes # {}
  /\ scored' = TRUE
  /\ UNCHANGED <<databaseVars, faults, registryVars, consumer, simulator>>

Processes == UNCHANGED <<consumer, simulator, scored>>

DatabaseNext ==
  /\ (\E m \in Runners : MigrateNext(m)) \/ (\E s \in Seeders : SeedNext(s))
  /\ UNCHANGED registryVars /\ Processes

\* The registry, on its own or with a client; it need not come up, and may go down again.
SchemaNext ==
  /\ \/ RegistryUp /\ UNCHANGED faults
     \/ RegistryDown /\ Fault
     \/ \E c \in Clients : RegisterNext(c) /\ UNCHANGED faults
     \/ \E c \in Clients : AnswerLost(c) /\ Fault
  /\ UNCHANGED databaseVars /\ Processes

Next ==
  \/ DatabaseNext \/ SchemaNext
  \/ StartBackend \/ LoadRouteMeta \/ RegisterSchemas \/ StartFails \/ BackendDies
  \/ StartSimulator \/ LoadRoutes \/ LoadFails \/ Connect \/ SimulatorDies
  \/ Scored

Spec == Init /\ [][Next]_vars

\* Compose starts the two processes, and again when they end; their loops run, and a request
\* is answered or fails.
Fairness ==
  /\ WF_vars(StartBackend \/ LoadRouteMeta \/ RegisterSchemas)
  /\ WF_vars(StartSimulator \/ LoadRoutes \/ Connect)
  /\ \A c \in Clients :
       WF_vars(RegisterNext(c) /\ UNCHANGED <<databaseVars, faults>> /\ Processes)
  /\ WF_vars(Scored)

FairSpec == Spec /\ Fairness

\* Types; the simulator makes no more attempts than it is given.
TypeOK ==
  /\ DatabaseTypeOK /\ RegistryTypeOK
  /\ consumer \in [at : {"off", "loading", "crashed", "registering", "running"},
                   routes : SUBSET Seeders]
  /\ simulator \in [at : {"off", "loading", "connecting", "registering", "running"},
                    attempt : 1..LoadAttempts, routes : SUBSET Seeders]
  /\ scored \in BOOLEAN

\* README.md:96-113: with the data layer up, migrated and seeded, starting the rest leads to
\* live scores, whatever is in the registry and in whichever order its two clients get there,
\* if nothing fails.  (A seed still to run, or a registry that comes up later, may end in a
\* simulator or a backend that stays up without ever scoring.)
QuickstartScores == routes # {} /\ up /\ [](faults = 0) => <>scored
================================================================================

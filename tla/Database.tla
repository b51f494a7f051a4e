------------------------------- MODULE Database -------------------------------
(***************************************************************************)
(* The two programs that prepare the database: the migration runner        *)
(* (packages/db/src/migrate.ts, with migrations/*.sql) and the seed        *)
(* (packages/db/src/seed.ts).  Either can be started more than once, also  *)
(* while another run of it is going on, and can stop at any await.         *)
(*                                                                         *)
(* Abstracted: rows.  A table holds, for each run of the seed, the rows    *)
(* that run inserted or none of them, since each table is filled by one    *)
(* statement; the samples are filled by Batches statements.                *)
(***************************************************************************)
EXTENDS Naturals, Sequences, FiniteSets

CONSTANTS
  Runners,      \* runs of the migration runner
  Seeders,      \* runs of the seed
  Files,        \* number of .sql files, in lexical order; the first creates the tables
  Batches,      \* number of INSERT statements for telemetry and scores
  MaxFaults     \* bound on the calls that fail and the processes that die

ASSUME DatabaseAssumption ==
  Files \in Nat \ {0} /\ Batches \in Nat \ {0} /\ MaxFaults \in Nat

VARIABLES
  applied,      \* the names in _migrations
  ran,          \* the files whose statements were committed, in that order
  runner,       \* runner[m]: where it stands, and at which file
  hubs, suppliers, routes,     \* the runs of the seed whose rows are in the table
  samples,      \* samples[s]: batches of telemetry and scores inserted by s
  seeder,       \* seeder[s]: where it stands
  alone,        \* alone[s]: no other run of the seed was under way while s was
  faults

tableVars == <<hubs, suppliers, routes, samples>>
migrateVars == <<applied, ran, runner>>
seedVars == <<tableVars, seeder, alone>>
databaseVars == <<migrateVars, seedVars>>

Fault == faults < MaxFaults /\ faults' = faults + 1

\* The states in which the programs find a database: new, migrated, or migrated and seeded
\* by an earlier run, to its end.
DatabaseInit ==
  /\ \/ applied = {} /\ ran = <<>> /\ hubs = {}
     \/ /\ applied = 1..Files /\ ran = [n \in 1..Files |-> n]
        /\ hubs = {} \/ \E s \in Seeders : hubs = {s}
  /\ runner = [m \in Runners |-> [at |-> "idle", file |-> 1]]
  /\ suppliers = hubs /\ routes = hubs
  /\ samples = [s \in Seeders |-> IF s \in hubs THEN Batches ELSE 0]
  /\ seeder = [s \in Seeders |-> IF s \in hubs THEN "done" ELSE "idle"]
  /\ alone = [s \in Seeders |-> TRUE]
  /\ faults = 0

-------------------------------------------------------------------------------
\* The migration runner.

\* main(): _migrations is created unless it is there.
Migrate(m) ==
  /\ runner[m].at = "idle"
  /\ runner' = [runner EXCEPT ![m].at = "looking"]
  /\ UNCHANGED <<applied, ran, seedVars, faults>>

\* The loop over the files: one that is recorded is skipped.
LookUp(m) ==
  LET n == runner[m].file
  IN  /\ runner[m].at = "looking"
      /\ runner' = [runner EXCEPT ![m] =
           IF n > Files THEN [at |-> "done", file |-> n]
           ELSE IF n \in applied THEN [at |-> "looking", file |-> n + 1]
           ELSE [at |-> "applying", file |-> n]]
      /\ UNCHANGED <<applied, ran, seedVars, faults>>

\* Faulty variant of Apply: nothing refuses a name that is recorded already.
ApplyThenRecord(m) ==
  LET n == runner[m].file
  IN  /\ runner[m].at = "applying"
      /\ ran' = Append(ran, n)
      /\ applied' = applied \cup {n}
      /\ runner' = [runner EXCEPT ![m] = [at |-> "looking", file |-> n + 1]]
      /\ UNCHANGED <<seedVars, faults>>

\* The transaction: the file's statements, and its name into a table of which that is the
\* primary key.  The answer to a commit can get lost.
Apply(m) ==
  LET n == runner[m].file
  IN  /\ runner[m].at = "applying" /\ n \notin applied
      /\ ran' = Append(ran, n)
      /\ applied' = applied \cup {n}
      /\ \/ /\ runner' = [runner EXCEPT ![m] = [at |-> "looking", file |-> n + 1]]
            /\ UNCHANGED faults
         \/ runner' = [runner EXCEPT ![m].at = "failed"] /\ Fault
      /\ UNCHANGED seedVars

\* The name is there already, or another runner's transaction creates the same tables: the
\* transaction is rolled back, and the runner exits.
Refused(m) ==
  /\ runner[m].at = "applying"
  /\ \/ runner[m].file \in applied
     \/ \E k \in Runners \ {m} : runner[k] = runner[m]
  /\ runner' = [runner EXCEPT ![m].at = "failed"]
  /\ UNCHANGED <<applied, ran, seedVars, faults>>

\* A query fails, or the process dies.
RunnerFails(m) ==
  /\ runner[m].at \in {"looking", "applying"}
  /\ Fault
  /\ runner' = [runner EXCEPT ![m].at = "failed"]
  /\ UNCHANGED <<applied, ran, seedVars>>

-------------------------------------------------------------------------------
\* The seed.

Tables == ran # <<>>
Stages == {"looking", "hubs", "suppliers", "routes", "samples"}
Seeding == {s \in Seeders : seeder[s] \in Stages}

\* main(): the suppliers are about to be counted.
StartSeed(s) ==
  /\ seeder[s] = "idle"
  /\ seeder' = [seeder EXCEPT ![s] = "looking"]
  /\ alone' = [x \in Seeders |-> alone[x] /\ (x \in Seeding \/ x = s => Seeding = {})]
  /\ UNCHANGED <<migrateVars, tableVars, faults>>

\* Faulty variant of CountSuppliers: the guard counts what is inserted last.
CountSamples(s) ==
  /\ seeder[s] = "looking"
  /\ seeder' = [seeder EXCEPT ![s] =
       IF ~Tables THEN "failed"
       ELSE IF \E x \in Seeders : samples[x] = Batches THEN "skipped" ELSE "hubs"]
  /\ UNCHANGED <<migrateVars, tableVars, alone, faults>>

\* The guard: with suppliers there is nothing to do; without the table the query fails.
CountSuppliers(s) ==
  /\ seeder[s] = "looking"
  /\ seeder' = [seeder EXCEPT ![s] =
       IF ~Tables THEN "failed" ELSE IF suppliers # {} THEN "skipped" ELSE "hubs"]
  /\ UNCHANGED <<migrateVars, tableVars, alone, faults>>

\* The INSERT of one stage and the next await.  There is no transaction around the stages:
\* when the answer is lost the rows are there, and the seed exits.
Then(s, next) ==
  /\ \/ seeder' = [seeder EXCEPT ![s] = next] /\ UNCHANGED faults
     \/ seeder' = [seeder EXCEPT ![s] = "failed"] /\ Fault
  /\ UNCHANGED <<migrateVars, alone>>

InsertHubs(s) ==
  /\ seeder[s] = "hubs"
  /\ hubs' = hubs \cup {s}
  /\ Then(s, "suppliers")
  /\ UNCHANGED <<suppliers, routes, samples>>

InsertSuppliers(s) ==
  /\ seeder[s] = "suppliers"
  /\ suppliers' = suppliers \cup {s}
  /\ Then(s, "routes")
  /\ UNCHANGED <<hubs, routes, samples>>

\* Routes join the hubs and suppliers this run has inserted, whatever else is there.
InsertRoutes(s) ==
  /\ seeder[s] = "routes"
  /\ routes' = routes \cup {s}
  /\ Then(s, "samples")
  /\ UNCHANGED <<hubs, suppliers, samples>>

\* The loop over routes and hours, a batch of telemetry or of scores at a time.
InsertSamples(s) ==
  /\ seeder[s] = "samples"
  /\ samples' = [samples EXCEPT ![s] = @ + 1]
  /\ Then(s, IF samples[s] + 1 < Batches THEN "samples" ELSE "done")
  /\ UNCHANGED <<hubs, suppliers, routes>>

\* A query fails, or the process dies.
SeederFails(s) ==
  /\ s \in Seeding
  /\ Fault
  /\ seeder' = [seeder EXCEPT ![s] = "failed"]
  /\ UNCHANGED <<migrateVars, tableVars, alone>>

-------------------------------------------------------------------------------
MigrateNext(m) == Migrate(m) \/ LookUp(m) \/ Apply(m) \/ Refused(m) \/ RunnerFails(m)

SeedNext(s) ==
  \/ StartSeed(s) \/ CountSuppliers(s) \/ SeederFails(s)
  \/ InsertHubs(s) \/ InsertSuppliers(s) \/ InsertRoutes(s) \/ InsertSamples(s)

DatabaseTypeOK ==
  /\ applied \subseteq 1..Files /\ ran \in Seq(1..Files)
  /\ runner \in [Runners -> [at : {"idle", "looking", "applying", "done", "failed"},
                             file : 1..(Files + 1)]]
  /\ hubs \subseteq Seeders /\ suppliers \subseteq Seeders /\ routes \subseteq Seeders
  /\ samples \in [Seeders -> 0..Batches]
  /\ seeder \in [Seeders -> Stages \cup {"idle", "skipped", "done", "failed"}]
  /\ alone \in [Seeders -> BOOLEAN]
  /\ faults \in 0..MaxFaults

\* migrate.ts:5, "re-running skips already-applied files", with any number of runners, at
\* once or one after the other: every file's statements are committed once, in the order of
\* the names, and what is recorded is what was committed.  A runner that is done has left
\* none out.
MigratedOnce ==
  /\ ran = [n \in 1..Len(ran) |-> n]
  /\ applied = 1..Len(ran)
  /\ \A m \in Runners : runner[m].at = "done" => Len(ran) = Files

\* seed.ts:10, "skips if suppliers already exist": the suppliers of two runs are both there only
\* if the two went on at the same time, however far an earlier one got.  (So a run that got
\* only part of the way has left its part for good: no later one completes it.)
SeededOnce == \A s, t \in suppliers : s # t => ~alone[s] /\ ~alone[t]
===============================================================================

----------------------------- MODULE StartupProofs -----------------------------
(***************************************************************************)
(* Theorems about Startup: what the migration runner, the seed and the     *)
(* registration promise holds for any number of runners, runs of the seed, *)
(* files, batches, topics, attempts and faults.  Each is proved for the    *)
(* variables of its own component; the steps of the others leave them      *)
(* alone.  The types and the bounds on attempts and batches come last, out *)
(* of the three invariants and of what the two processes read.             *)
(***************************************************************************)
EXTENDS Startup, TLAPS

-------------------------------------------------------------------------------
\* Registration.

Schema == {Build, Older}
State == [at : {"idle", "getting", "posting", "registered", "given up"}, attempt : Nat,
          ids : Seq(Schema)]
Subject == {<<>>, <<Build>>, <<Older>>}

\* Client state k suits the versions vs: it has an id of every topic before the one it asks about,
\* and of all when it is registered; a client that found a subject empty may find its own
\* build's schema there when it posts, and no other; an id is that of the one version.
Suits(k, vs) ==
  /\ Len(k.ids) \in IF k.at = "registered" THEN {Topics} ELSE 0..(Topics - 1)
  /\ k.at = "posting" => vs[Len(k.ids) + 1] \in {<<>>, <<Build>>}
  /\ \A t \in DOMAIN k.ids : vs[t] = <<k.ids[t]>>

RegistryInv ==
  /\ versions \in [1..Topics -> Subject]
  /\ client \in [Clients -> State]
  /\ \A c \in Clients : Suits(client[c], versions)

\* A client that has no id yet suits whatever there is, unless it posts or is registered.
LEMMA NoIdsSuit ==
  ASSUME NEW k, NEW vs, k.ids = <<>>, k.at \notin {"posting", "registered"}
  PROVE  Suits(k, vs)
<1>1. Topics \in Nat /\ 0 < Topics
  BY RegistryAssumption
<1>2. Len(k.ids) = 0 /\ DOMAIN k.ids = {}
  OBVIOUS
<1> QED
  BY <1>1, <1>2 DEF Suits

LEMMA IdleSuits == Idle \in State /\ \A vs : Suits(Idle, vs)
<1>1. Idle \in State /\ Idle.ids = <<>> /\ Idle.at = "idle"
  BY DEF Idle, State
<1> QED
  BY <1>1, NoIdsSuit

LEMMA RegistryInvInit == RegistryInit => RegistryInv
<1> SUFFICES ASSUME RegistryInit PROVE RegistryInv
  OBVIOUS
<1>1. versions \in [1..Topics -> Subject]
  BY DEF RegistryInit, Subject
<1>2. client \in [Clients -> State] /\ \A c \in Clients : client[c] = Idle
  BY IdleSuits DEF RegistryInit
<1> QED
  BY <1>1, <1>2, IdleSuits DEF RegistryInv

LEMMA RegistryInvImplies == RegistryInv => RegisteredOnce
<1> SUFFICES ASSUME RegistryInv PROVE RegisteredOnce
  OBVIOUS
<1>1. ASSUME NEW t \in 1..Topics PROVE Len(versions[t]) <= 1
  <2>1. versions[t] \in Subject
    BY DEF RegistryInv
  <2>2. CASE versions[t] = <<>>
    BY <2>2
  <2>3. CASE versions[t] = <<Build>>
    BY <2>3
  <2>4. CASE versions[t] = <<Older>>
    BY <2>4
  <2> QED
    BY <2>1, <2>2, <2>3, <2>4 DEF Subject
<1>2. \A c \in Clients : \A t \in DOMAIN client[c].ids : versions[t] = <<client[c].ids[t]>>
  BY DEF RegistryInv, Suits
<1> QED
  BY <1>1, <1>2 DEF RegisteredOnce

\* Posting to a subject that has no other schema leaves the build's there, once.
LEMMA PostedLeavesOne ==
  ASSUME versions \in [1..Topics -> Subject],
         NEW t \in 1..Topics, versions[t] \in {<<>>, <<Build>>}, Posted(t)
  PROVE  versions' = [versions EXCEPT ![t] = <<Build>>]
<1>1. CASE versions[t] = <<>>
  <2>1. ~ \E n \in DOMAIN versions[t] : versions[t][n] = Build
    BY <1>1
  <2>2. Append(versions[t], Build) = <<Build>>
    BY <1>1
  <2> QED
    BY <2>1, <2>2 DEF Posted
<1>2. CASE versions[t] = <<Build>>
  <2>1. \E n \in DOMAIN versions[t] : versions[t][n] = Build
    <3>1. 1 \in DOMAIN <<Build>> /\ <<Build>>[1] = Build
      OBVIOUS
    <3> QED
      BY <3>1, <1>2
  <2>2. versions' = versions
    BY <2>1 DEF Posted
  <2> QED
    BY <2>2, <1>2
<1> QED
  BY <1>1, <1>2

\* That disturbs no client.
LEMMA PostedSuits ==
  ASSUME NEW vs \in [1..Topics -> Subject], NEW t \in 1..Topics, vs[t] \in {<<>>, <<Build>>},
         NEW k \in State, Suits(k, vs)
  PROVE  Suits(k, [vs EXCEPT ![t] = <<Build>>])
<1> DEFINE ws == [vs EXCEPT ![t] = <<Build>>]
<1>1. Topics \in Nat /\ k.ids \in Seq(Schema)
  BY RegistryAssumption DEF State
<1>2. ASSUME NEW u \in 1..Topics PROVE ws[u] = IF u = t THEN <<Build>> ELSE vs[u]
  OBVIOUS
<1>3. ASSUME k.at = "posting" PROVE ws[Len(k.ids) + 1] \in {<<>>, <<Build>>}
  <2>1. Len(k.ids) + 1 \in 1..Topics
    BY <1>1, <1>3 DEF Suits
  <2> QED
    BY <1>2, <1>3, <2>1 DEF Suits
<1>4. ASSUME NEW u \in DOMAIN k.ids PROVE ws[u] = <<k.ids[u]>>
  <2>1. u \in 1..Topics
    BY <1>1 DEF Suits
  <2>2. vs[u] = <<k.ids[u]>> /\ vs[u] # <<>>
    BY DEF Suits
  <2>3. u = t => vs[u] = <<Build>>
    BY <2>2
  <2> QED
    BY <1>2, <2>1, <2>2, <2>3
<1> QED
  BY <1>3, <1>4 DEF Suits

\* A client that asks takes the id of the one version of its subject.
LEMMA TakenSuits ==
  ASSUME NEW k \in State, NEW vs, NEW id \in Schema, Suits(k, vs),
         k.at \in {"getting", "posting"}, vs[Len(k.ids) + 1] = <<id>>,
         NEW at \in {"getting", "registered"},
         at = IF Len(k.ids) + 1 = Topics THEN "registered" ELSE "getting",
         NEW j \in State, j.at = at, j.ids = Append(k.ids, id)
  PROVE  Suits(j, vs)
<1>1. Topics \in Nat /\ k.ids \in Seq(Schema)
  BY RegistryAssumption DEF State
<1>2. Len(j.ids) = Len(k.ids) + 1 /\ DOMAIN j.ids = 1..(Len(k.ids) + 1)
  BY <1>1
<1>3. Len(k.ids) < Topics
  BY <1>1 DEF Suits
<1>4. ASSUME NEW t \in DOMAIN j.ids PROVE vs[t] = <<j.ids[t]>>
  <2>1. CASE t = Len(k.ids) + 1
    BY <1>1, <2>1
  <2>2. CASE t # Len(k.ids) + 1
    <3>1. t \in DOMAIN k.ids /\ j.ids[t] = k.ids[t]
      BY <1>1, <1>2, <2>2
    <3> QED
      BY <3>1 DEF Suits
  <2> QED
    BY <2>1, <2>2
<1> QED
  BY <1>1, <1>2, <1>3, <1>4 DEF Suits

\* Each step keeps the invariant if it changes one client to a state that suits the versions
\* after it, and these are what they were or hold one more of the build's schemas.
LEMMA OneClientMoves ==
  ASSUME RegistryInv, NEW c \in Clients, NEW k \in State,
         client' = [client EXCEPT ![c] = k], Suits(k, versions'),
         \/ versions' = versions
         \/ \E t \in 1..Topics : /\ versions[t] \in {<<>>, <<Build>>}
                                 /\ versions' = [versions EXCEPT ![t] = <<Build>>]
  PROVE  RegistryInv'
<1>1. client' \in [Clients -> State]
  BY DEF RegistryInv
<1>2. versions' \in [1..Topics -> Subject]
  BY DEF RegistryInv, Subject
<1>3. ASSUME NEW d \in Clients, d # c PROVE Suits(client'[d], versions')
  <2>1. client'[d] = client[d] /\ client[d] \in State /\ Suits(client[d], versions)
    BY <1>3 DEF RegistryInv
  <2>2. versions \in [1..Topics -> Subject]
    BY DEF RegistryInv
  <2> QED
    BY <2>1, <2>2, PostedSuits
<1>4. client'[c] = k
  BY DEF RegistryInv
<1> QED
  BY <1>1, <1>2, <1>3, <1>4 DEF RegistryInv

LEMMA RetryKeeps ==
  ASSUME RegistryInv, NEW c \in Clients, Retry(c),
         \/ versions' = versions
         \/ \E t \in 1..Topics : /\ versions[t] \in {<<>>, <<Build>>}
                                 /\ versions' = [versions EXCEPT ![t] = <<Build>>]
  PROVE  RegistryInv'
<1> DEFINE k == IF client[c].attempt < MaxAttempts[c]
                THEN [at |-> "getting", attempt |-> client[c].attempt + 1, ids |-> <<>>]
                ELSE [at |-> "given up", attempt |-> client[c].attempt, ids |-> <<>>]
<1>1. client[c] \in State /\ client \in [Clients -> State]
  BY DEF RegistryInv
<1>2. client' = [client EXCEPT ![c] = k]
  BY <1>1 DEF Retry
<1>3. k \in State /\ k.ids = <<>> /\ k.at \notin {"posting", "registered"}
  <2>1. client[c].attempt \in Nat /\ <<>> \in Seq(Schema)
    <3>1. client[c].attempt \in Nat
      BY <1>1 DEF State
    <3>2. <<>> \in Seq(Schema)
      OBVIOUS
    <3> QED
      BY <3>1, <3>2
  <2>2. CASE client[c].attempt < MaxAttempts[c]
    BY <2>1, <2>2 DEF State
  <2>3. CASE ~(client[c].attempt < MaxAttempts[c])
    BY <2>1, <2>3 DEF State
  <2> QED
    BY <2>2, <2>3
<1>4. Suits(k, versions')
  BY <1>3, NoIdsSuit
<1> HIDE DEF k
<1> QED
  BY <1>2, <1>3, <1>4, OneClientMoves

\* A client that posts finds its subject empty or with its own build's schema.
LEMMA PostingSubject ==
  ASSUME RegistryInv, NEW c \in Clients, client[c].at = "posting"
  PROVE  /\ Topic(c) \in 1..Topics
         /\ versions[Topic(c)] \in {<<>>, <<Build>>}
<1>1. client[c] \in State /\ Suits(client[c], versions) /\ Topics \in Nat
  BY RegistryAssumption DEF RegistryInv
<1>2. client[c].ids \in Seq(Schema)
  BY <1>1 DEF State
<1> QED
  BY <1>1, <1>2 DEF Suits, Topic

LEMMA TakeKeeps ==
  ASSUME RegistryInv, NEW c \in Clients, Asking(c), NEW id \in Schema, Take(c, id),
         versions'[Topic(c)] = <<id>>,
         \/ versions' = versions
         \/ \E t \in 1..Topics : /\ versions[t] \in {<<>>, <<Build>>}
                                 /\ versions' = [versions EXCEPT ![t] = <<Build>>]
  PROVE  RegistryInv'
<1> DEFINE at == IF Topic(c) = Topics THEN "registered" ELSE "getting"
           k == [client[c] EXCEPT !.ids = Append(@, id), !.at = at]
<1>1. /\ client[c] \in State /\ client \in [Clients -> State] /\ Suits(client[c], versions)
      /\ versions \in [1..Topics -> Subject]
  BY DEF RegistryInv
<1>2. client' = [client EXCEPT ![c] = k]
  BY <1>1 DEF Take
<1>3. client[c].ids \in Seq(Schema) /\ Append(client[c].ids, id) \in Seq(Schema)
  <2>1. client[c].ids \in Seq(Schema)
    BY <1>1 DEF State
  <2> QED
    BY <2>1
<1>4. k \in State /\ k.at = at /\ k.ids = Append(client[c].ids, id)
  BY <1>1, <1>3 DEF State
<1>5. Suits(client[c], versions')
  BY <1>1, PostedSuits
<1>6. /\ at \in {"getting", "registered"}
      /\ at = IF Len(client[c].ids) + 1 = Topics THEN "registered" ELSE "getting"
  BY DEF Topic
<1>7. client[c].at \in {"getting", "posting"} /\ versions'[Len(client[c].ids) + 1] = <<id>>
  BY DEF Asking, Topic
<1> HIDE DEF k, at
<1>8. Suits(k, versions')
  BY <1>1, <1>4, <1>5, <1>6, <1>7, TakenSuits
<1> QED
  BY <1>2, <1>4, <1>8, OneClientMoves

LEMMA RegistryInvKept == RegistryInv /\ [RegistryNext]_registryVars => RegistryInv'
<1> SUFFICES ASSUME RegistryInv, [RegistryNext]_registryVars PROVE RegistryInv'
  OBVIOUS
<1>1. ASSUME UNCHANGED <<versions, client>> PROVE RegistryInv'
  BY <1>1 DEF RegistryInv
<1>2. ASSUME NEW c \in Clients, Register(c) PROVE RegistryInv'
  <2> DEFINE k == [client[c] EXCEPT !.at = "getting"]
  <2>1. /\ client[c] \in State /\ client \in [Clients -> State] /\ Suits(client[c], versions)
        /\ client[c].at = "idle"
    BY <1>2 DEF RegistryInv, Register
  <2>2. client' = [client EXCEPT ![c] = k] /\ versions' = versions
    BY <1>2, <2>1 DEF Register
  <2>3. k \in State /\ k.at = "getting" /\ k.ids = client[c].ids
    BY <2>1 DEF State
  <2>4. Suits(k, versions')
    BY <2>1, <2>2, <2>3 DEF Suits
  <2> HIDE DEF k
  <2> QED
    BY <2>2, <2>3, <2>4, OneClientMoves
<1>3. ASSUME NEW c \in Clients, GetLatest(c) PROVE RegistryInv'
  <2>1. /\ client[c] \in State /\ client \in [Clients -> State] /\ Suits(client[c], versions)
        /\ client[c].at = "getting" /\ versions' = versions
    BY <1>3 DEF RegistryInv, GetLatest
  <2>2. CASE versions[Topic(c)] = <<>>
    <3> DEFINE k == [client[c] EXCEPT !.at = "posting"]
    <3>1. client' = [client EXCEPT ![c] = k]
      BY <1>3, <2>1, <2>2 DEF GetLatest
    <3>2. k \in State /\ k.at = "posting" /\ k.ids = client[c].ids
      BY <2>1 DEF State
    <3>3. Suits(k, versions')
      BY <2>1, <2>2, <3>2 DEF Suits, Topic
    <3> HIDE DEF k
    <3> QED
      BY <2>1, <3>1, <3>2, <3>3, OneClientMoves
  <2>3. CASE versions[Topic(c)] # <<>>
    <3>1. Topic(c) \in 1..Topics
      <4>1. client[c].ids \in Seq(Schema) /\ Topics \in Nat
        BY <2>1, RegistryAssumption DEF State
      <4>2. Len(client[c].ids) < Topics
        BY <2>1, <4>1 DEF Suits
      <4> QED
        BY <4>1, <4>2 DEF Topic
    <3>2. PICK id \in Schema : versions[Topic(c)] = <<id>>
      BY <2>3, <3>1 DEF RegistryInv, Subject, Schema
    <3>3. Take(c, id)
      <4>1. Len(<<id>>) = 1 /\ <<id>>[1] = id
        OBVIOUS
      <4> QED
        BY <1>3, <2>3, <3>2, <4>1 DEF GetLatest
    <3>4. Asking(c)
      BY <2>1 DEF Asking
    <3> QED
      BY <2>1, <3>2, <3>3, <3>4, TakeKeeps
  <2> QED
    BY <2>2, <2>3
<1>4. ASSUME NEW c \in Clients, PostSchema(c) PROVE RegistryInv'
  <2>1. /\ client[c].at = "posting" /\ Posted(Topic(c)) /\ Take(c, Build) /\ Asking(c)
        /\ Build \in Schema
    BY <1>4 DEF PostSchema, Asking, Schema
  <2>2. Topic(c) \in 1..Topics /\ versions[Topic(c)] \in {<<>>, <<Build>>}
    BY <2>1, PostingSubject
  <2>3. versions \in [1..Topics -> Subject]
    BY DEF RegistryInv
  <2>4. versions' = [versions EXCEPT ![Topic(c)] = <<Build>>]
    BY <2>1, <2>2, <2>3, PostedLeavesOne
  <2>5. versions'[Topic(c)] = <<Build>>
    BY <2>2, <2>3, <2>4
  <2> QED
    BY <2>1, <2>2, <2>4, <2>5, TakeKeeps
<1>5. ASSUME NEW c \in Clients, RequestFails(c) PROVE RegistryInv'
  BY <1>5, RetryKeeps DEF RequestFails
<1>6. ASSUME NEW c \in Clients, AnswerLost(c) PROVE RegistryInv'
  <2>1. CASE UNCHANGED versions
    BY <1>6, <2>1, RetryKeeps DEF AnswerLost
  <2>2. CASE client[c].at = "posting" /\ Posted(Topic(c))
    <3>1. Topic(c) \in 1..Topics /\ versions[Topic(c)] \in {<<>>, <<Build>>}
      BY <2>2, PostingSubject
    <3>2. versions' = [versions EXCEPT ![Topic(c)] = <<Build>>]
      BY <2>2, <3>1, PostedLeavesOne DEF RegistryInv
    <3> QED
      BY <1>6, <3>1, <3>2, RetryKeeps DEF AnswerLost
  <2> QED
    BY <1>6, <2>1, <2>2 DEF AnswerLost
<1>7. ASSUME NEW c \in Clients, Forget(c), UNCHANGED <<up, versions>> PROVE RegistryInv'
  BY <1>7, IdleSuits, OneClientMoves DEF Forget
<1> QED
  BY <1>1, <1>2, <1>3, <1>4, <1>5, <1>6, <1>7
     DEF RegistryNext, RegisterNext, RegistryUp, RegistryDown, registryVars

\* What the rest of the system does leaves the registry and its clients alone.
LEMMA StepOfRegistry == [Next]_vars => [RegistryNext]_registryVars
<1> SUFFICES ASSUME [Next]_vars PROVE [RegistryNext]_registryVars
  OBVIOUS
<1>1. Backend \in Clients /\ Simulator \in Clients
  BY StartupAssumption
<1>2. CASE UNCHANGED vars
  BY <1>2 DEF vars
<1>3. CASE SchemaNext
  BY <1>3 DEF SchemaNext, RegistryNext
<1>4. CASE RegisterSchemas \/ Connect
  BY <1>1, <1>4 DEF RegisterSchemas, Connect, RegistryNext
<1>5. CASE BackendDies \/ SimulatorDies
  BY <1>1, <1>5 DEF BackendDies, SimulatorDies, RegistryNext
<1>6. CASE DatabaseNext
  BY <1>6 DEF DatabaseNext
<1>7. CASE StartBackend \/ LoadRouteMeta \/ StartFails \/ StartSimulator \/ LoadRoutes
           \/ LoadFails \/ Scored
  BY <1>7 DEF StartBackend, LoadRouteMeta, StartFails, StartSimulator, LoadRoutes, LoadFails,
              Scored
<1> QED
  BY <1>2, <1>3, <1>4, <1>5, <1>6, <1>7 DEF Next

\* However many clients register at once, lose answers and start again: a subject gets one
\* version, and the ids of every client are those of the versions there are (registry.ts:77).
THEOREM SubjectsRegisteredOnce == Spec => []RegisteredOnce
<1>1. Init => RegistryInv
  BY RegistryInvInit DEF Init
<1>2. RegistryInv /\ [Next]_vars => RegistryInv'
  BY RegistryInvKept, StepOfRegistry
<1>3. RegistryInv => RegisteredOnce
  BY RegistryInvImplies
<1> QED
  BY <1>1, <1>2, <1>3, PTL DEF Spec

-------------------------------------------------------------------------------
\* Migrations.

RunnerState == [at : {"idle", "looking", "applying", "done", "failed"}, file : 1..(Files + 1)]

\* Every file before the one a runner is at has been committed.
MigrateInv ==
  /\ Len(ran) \in 0..Files
  /\ ran = [n \in 1..Len(ran) |-> n]
  /\ applied = 1..Len(ran)
  /\ runner \in [Runners -> RunnerState]
  /\ \A m \in Runners :
       /\ runner[m].file <= Len(ran) + 1
       /\ runner[m].at = "applying" => runner[m].file <= Files
       /\ runner[m].at = "done" => runner[m].file = Files + 1

LEMMA MigrateInvInit == DatabaseInit => MigrateInv
<1> SUFFICES ASSUME DatabaseInit PROVE MigrateInv
  OBVIOUS
<1>1. Files \in Nat \ {0}
  BY DatabaseAssumption
<1>2. \A m \in Runners : runner[m] = [at |-> "idle", file |-> 1]
  BY DEF DatabaseInit
<1>3. runner \in [Runners -> RunnerState]
  BY <1>1 DEF DatabaseInit, RunnerState
<1>4. CASE applied = {} /\ ran = <<>>
  <2>1. Len(ran) = 0 /\ 1..Len(ran) = {}
    BY <1>4
  <2> QED
    BY <1>1, <1>2, <1>3, <1>4, <2>1 DEF MigrateInv
<1>5. CASE applied = 1..Files /\ ran = [n \in 1..Files |-> n]
  <2>1. Len(ran) = Files
    BY <1>1, <1>5
  <2> QED
    BY <1>1, <1>2, <1>3, <1>5, <2>1 DEF MigrateInv
<1> QED
  BY <1>4, <1>5 DEF DatabaseInit

\* A step of runner m that commits nothing: it moves on only past a file that is committed.
LEMMA RunnerMoves ==
  ASSUME MigrateInv, UNCHANGED <<applied, ran>>, NEW m \in Runners, NEW r \in RunnerState,
         runner' = [runner EXCEPT ![m] = r],
         r.file <= Len(ran) + 1,
         r.at = "applying" => r.file <= Files,
         r.at = "done" => r.file = Files + 1
  PROVE  MigrateInv'
  BY DEF MigrateInv

\* The next file is committed: it is the one after those that are recorded.
LEMMA FileApplied ==
  ASSUME MigrateInv, NEW m \in Runners, runner[m].at = "applying", runner[m].file \notin applied,
         ran' = Append(ran, runner[m].file), applied' = applied \cup {runner[m].file},
         NEW r \in RunnerState, runner' = [runner EXCEPT ![m] = r],
         r.at \in {"looking", "failed"}, r.file \in {runner[m].file, runner[m].file + 1}
  PROVE  MigrateInv'
<1> DEFINE n == runner[m].file
           l == Len(ran)
<1>1. Files \in Nat /\ l \in 0..Files /\ n \in 1..(Files + 1) /\ n <= Files /\ n <= l + 1
  BY DatabaseAssumption DEF MigrateInv, RunnerState
<1>2. n = l + 1
  BY <1>1 DEF MigrateInv
<1>3. ran \in Seq(Nat)
  <2>1. [i \in 1..l |-> i] \in Seq(Nat)
    BY <1>1
  <2> QED
    BY <2>1 DEF MigrateInv
<1>4. Len(ran') = l + 1
  BY <1>1, <1>3
<1>5. ran' = [i \in 1..(l + 1) |-> i]
  <2>1. ran' = [i \in 1..(l + 1) |-> IF i = l + 1 THEN n ELSE ran[i]]
    BY <1>1, <1>3
  <2>2. \A i \in 1..l : ran[i] = i
    BY DEF MigrateInv
  <2> QED
    BY <1>1, <1>2, <2>1, <2>2
<1>6. applied' = 1..(l + 1)
  BY <1>1, <1>2 DEF MigrateInv
<1>7. runner' \in [Runners -> RunnerState] /\ runner'[m] = r
  BY DEF MigrateInv
<1>8. ASSUME NEW k \in Runners, k # m PROVE runner'[k] = runner[k]
  BY <1>8 DEF MigrateInv
<1>9. ASSUME NEW k \in Runners
      PROVE  /\ runner'[k].file <= l + 2
             /\ runner'[k].at = "applying" => runner'[k].file <= Files
             /\ runner'[k].at = "done" => runner'[k].file = Files + 1
  <2>1. CASE k = m
    BY <1>1, <1>2, <1>7, <2>1
  <2>2. CASE k # m
    <3>1. runner[k] \in RunnerState /\ runner[k].file <= l + 1
      BY DEF MigrateInv
    <3>2. runner[k].file \in Nat
      BY <1>1, <3>1 DEF RunnerState
    <3> QED
      BY <1>1, <1>8, <2>2, <3>1, <3>2 DEF MigrateInv
  <2> QED
    BY <2>1, <2>2
<1>10. l + 1 \in 0..Files
  BY <1>1, <1>2
<1> QED
  BY <1>1, <1>4, <1>5, <1>6, <1>7, <1>9, <1>10 DEF MigrateInv

LEMMA MigrateInvKept ==
  ASSUME MigrateInv, [\E m \in Runners : MigrateNext(m)]_migrateVars
  PROVE  MigrateInv'
<1>1. Files \in Nat /\ Len(ran) \in 0..Files
  BY DatabaseAssumption DEF MigrateInv
<1>2. CASE UNCHANGED migrateVars
  BY <1>2 DEF migrateVars, MigrateInv
<1>3. ASSUME NEW m \in Runners
      PROVE  runner[m] \in RunnerState /\ runner \in [Runners -> RunnerState]
             /\ runner[m].file <= Len(ran) + 1
  BY DEF MigrateInv
<1>4. ASSUME NEW m \in Runners, Migrate(m) PROVE MigrateInv'
  <2> DEFINE r == [runner[m] EXCEPT !.at = "looking"]
  <2>1. /\ runner' = [runner EXCEPT ![m] = r] /\ r \in RunnerState
        /\ r.file = runner[m].file /\ r.at = "looking"
    BY <1>3, <1>4 DEF Migrate, RunnerState
  <2>2. UNCHANGED <<applied, ran>>
    BY <1>4 DEF Migrate
  <2> HIDE DEF r
  <2> QED
    BY <1>3, <2>1, <2>2, RunnerMoves
<1>5. ASSUME NEW m \in Runners, LookUp(m) PROVE MigrateInv'
  <2> DEFINE n == runner[m].file
             r == IF n > Files THEN [at |-> "done", file |-> n]
                  ELSE IF n \in applied THEN [at |-> "looking", file |-> n + 1]
                  ELSE [at |-> "applying", file |-> n]
  <2>1. UNCHANGED <<applied, ran>> /\ runner' = [runner EXCEPT ![m] = r]
    BY <1>5 DEF LookUp
  <2>2. n \in 1..(Files + 1) /\ n <= Len(ran) + 1
    BY <1>3 DEF RunnerState
  <2>3. n \in applied => n <= Len(ran)
    BY <1>1, <2>2 DEF MigrateInv
  <2>4. /\ r \in RunnerState /\ r.file <= Len(ran) + 1
        /\ r.at = "applying" => r.file <= Files
        /\ r.at = "done" => r.file = Files + 1
    BY <1>1, <2>2, <2>3 DEF RunnerState
  <2> HIDE DEF r
  <2> QED
    BY <2>1, <2>4, RunnerMoves
<1>6. ASSUME NEW m \in Runners, runner' = [runner EXCEPT ![m].at = "failed"],
             UNCHANGED <<applied, ran>>
      PROVE  MigrateInv'
  <2> DEFINE r == [runner[m] EXCEPT !.at = "failed"]
  <2>1. /\ runner' = [runner EXCEPT ![m] = r] /\ r \in RunnerState
        /\ r.file = runner[m].file /\ r.at = "failed"
    BY <1>3, <1>6 DEF RunnerState
  <2> HIDE DEF r
  <2> QED
    BY <1>3, <1>6, <2>1, RunnerMoves
<1>7. ASSUME NEW m \in Runners, Apply(m) PROVE MigrateInv'
  <2>1. /\ runner[m].at = "applying" /\ runner[m].file \notin applied
        /\ ran' = Append(ran, runner[m].file) /\ applied' = applied \cup {runner[m].file}
    BY <1>7 DEF Apply
  <2>2. runner[m].file \in 1..Files
    BY <1>1, <1>3, <2>1 DEF MigrateInv, RunnerState
  <2>3. CASE runner' = [runner EXCEPT ![m] = [at |-> "looking", file |-> runner[m].file + 1]]
    <3> DEFINE r == [at |-> "looking", file |-> runner[m].file + 1]
    <3>1. r \in RunnerState /\ r.at = "looking" /\ r.file = runner[m].file + 1
      BY <1>1, <2>2 DEF RunnerState
    <3>2. runner' = [runner EXCEPT ![m] = r]
      BY <2>3
    <3> HIDE DEF r
    <3> QED
      BY <2>1, <3>1, <3>2, FileApplied
  <2>4. CASE runner' = [runner EXCEPT ![m].at = "failed"]
    <3> DEFINE r == [runner[m] EXCEPT !.at = "failed"]
    <3>1. /\ r \in RunnerState /\ r.at = "failed" /\ r.file = runner[m].file
          /\ runner' = [runner EXCEPT ![m] = r]
      BY <1>3, <2>4 DEF RunnerState
    <3> HIDE DEF r
    <3> QED
      BY <2>1, <3>1, FileApplied
  <2> QED
    BY <1>7, <2>3, <2>4 DEF Apply
<1> QED
  BY <1>2, <1>4, <1>5, <1>6, <1>7 DEF MigrateNext, Refused, RunnerFails

LEMMA StepOfMigration == [Next]_vars => [\E m \in Runners : MigrateNext(m)]_migrateVars
<1> SUFFICES ASSUME [Next]_vars, ~UNCHANGED migrateVars PROVE \E m \in Runners : MigrateNext(m)
  OBVIOUS
<1>1. CASE UNCHANGED databaseVars
  BY <1>1 DEF databaseVars
<1>2. CASE DatabaseNext
  <2>1. ASSUME NEW s \in Seeders, SeedNext(s) PROVE FALSE
    BY <2>1 DEF SeedNext, StartSeed, CountSuppliers, SeederFails, InsertHubs, InsertSuppliers,
                InsertRoutes, InsertSamples, Then
  <2> QED
    BY <1>2, <2>1 DEF DatabaseNext
<1> QED
  BY <1>1, <1>2 DEF Next, vars, SchemaNext, StartBackend, LoadRouteMeta, RegisterSchemas,
     StartFails, BackendDies, StartSimulator, LoadRoutes, LoadFails, Connect, SimulatorDies,
     Scored

\* However many runners there are, at once or one after the other, and wherever they stop: no
\* file is committed twice or before the one it follows (migrate.ts:5).
THEOREM FilesMigratedOnce == Spec => []MigratedOnce
<1>1. Init => MigrateInv
  BY MigrateInvInit DEF Init
<1>2. MigrateInv /\ [Next]_vars => MigrateInv'
  BY MigrateInvKept, StepOfMigration
<1>3. MigrateInv => MigratedOnce
  <2> SUFFICES ASSUME MigrateInv PROVE MigratedOnce
    OBVIOUS
  <2>1. ASSUME NEW m \in Runners, runner[m].at = "done" PROVE Len(ran) = Files
    <3>1. runner[m].file = Files + 1 /\ runner[m].file <= Len(ran) + 1
      BY <2>1 DEF MigrateInv
    <3>2. Files \in Nat /\ Len(ran) \in 0..Files
      BY DatabaseAssumption DEF MigrateInv
    <3> QED
      BY <3>1, <3>2
  <2>2. ran = [n \in 1..Len(ran) |-> n] /\ applied = 1..Len(ran)
    BY DEF MigrateInv
  <2> QED
    BY <2>1, <2>2 DEF MigratedOnce
<1> QED
  BY <1>1, <1>2, <1>3, PTL DEF Spec

-------------------------------------------------------------------------------
\* The seed.

\* Two runs under way, or one that has counted no suppliers and one whose suppliers came in
\* since, know of each other.
SeedInv ==
  /\ seeder \in [Seeders -> Stages \cup {"idle", "skipped", "done", "failed"}]
  /\ \A s, t \in Seeders : s # t =>
       /\ seeder[s] \in Stages /\ seeder[t] \in Stages => ~alone[s]
       /\ seeder[s] \in {"hubs", "suppliers"} /\ t \in suppliers => ~alone[s] /\ ~alone[t]
  /\ suppliers \subseteq Seeders
  /\ SeededOnce

LEMMA SeedInvInit == DatabaseInit => SeedInv
<1> SUFFICES ASSUME DatabaseInit PROVE SeedInv
  OBVIOUS
<1>1. suppliers = {} \/ \E s \in Seeders : suppliers = {s}
  BY DEF DatabaseInit
<1>2. /\ seeder \in [Seeders -> {"idle", "done"}]
  BY DEF DatabaseInit
<1>3. \A s \in Seeders : seeder[s] \notin Stages
  BY <1>2 DEF Stages
<1> QED
  BY <1>1, <1>2, <1>3 DEF SeedInv, SeededOnce, Stages

\* A run moves on among the stages, or ends, without inserting suppliers and without starting to
\* be one that found none.
LEMMA SeedMoves ==
  ASSUME SeedInv, UNCHANGED <<suppliers, alone>>, NEW s \in Seeders,
         NEW stage \in Stages \cup {"skipped", "done", "failed"},
         seeder' = [seeder EXCEPT ![s] = stage], seeder[s] \in Stages,
         stage \in {"hubs", "suppliers"} => seeder[s] \in {"hubs", "suppliers"} \/ suppliers = {}
  PROVE  SeedInv'
<1>1. /\ seeder' \in [Seeders -> Stages \cup {"idle", "skipped", "done", "failed"}]
      /\ seeder'[s] = stage
      /\ \A t \in Seeders : t # s => seeder'[t] = seeder[t]
  BY DEF SeedInv
<1>2. \A t, u \in Seeders : t # u =>
        (seeder'[t] \in Stages /\ seeder'[u] \in Stages => ~alone'[t])
  BY <1>1 DEF SeedInv
<1>3. \A t, u \in Seeders : t # u =>
        (seeder'[t] \in {"hubs", "suppliers"} /\ u \in suppliers' => ~alone'[t] /\ ~alone'[u])
  BY <1>1 DEF SeedInv
<1>4. SeededOnce'
  BY DEF SeedInv, SeededOnce
<1> QED
  BY <1>1, <1>2, <1>3, <1>4 DEF SeedInv

LEMMA SeedInvKept ==
  ASSUME SeedInv, [\E s \in Seeders : SeedNext(s)]_seedVars
  PROVE  SeedInv'
<1>1. CASE UNCHANGED seedVars
  BY <1>1 DEF seedVars, tableVars, SeedInv, SeededOnce
<1>2. ASSUME NEW s \in Seeders, StartSeed(s) PROVE SeedInv'
  <2>1. /\ seeder' = [seeder EXCEPT ![s] = "looking"] /\ suppliers' = suppliers
        /\ alone' = [x \in Seeders |-> alone[x] /\ (x \in Seeding \/ x = s => Seeding = {})]
    BY <1>2 DEF StartSeed, tableVars
  <2>2. /\ seeder' \in [Seeders -> Stages \cup {"idle", "skipped", "done", "failed"}]
        /\ seeder'[s] = "looking"
        /\ \A t \in Seeders : t # s => seeder'[t] = seeder[t]
    BY <2>1 DEF SeedInv, Stages
  <2>3. \A x \in Seeders : ~alone[x] => ~alone'[x]
    BY <2>1
  <2>4. ASSUME NEW t \in Seeders, NEW u \in Seeders, t # u, seeder'[t] \in Stages,
               seeder'[u] \in Stages
        PROVE  ~alone'[t]
    <3>1. CASE t = s \/ u = s
      <4>1. Seeding # {} /\ (t \in Seeding \/ t = s)
        BY <2>2, <2>4, <3>1 DEF Seeding
      <4> QED
        BY <2>1, <4>1
    <3>2. CASE t # s /\ u # s
      BY <2>2, <2>3, <2>4, <3>2 DEF SeedInv
    <3> QED
      BY <3>1, <3>2
  <2>5. ASSUME NEW t \in Seeders, NEW u \in Seeders, t # u,
               seeder'[t] \in {"hubs", "suppliers"}, u \in suppliers'
        PROVE  ~alone'[t] /\ ~alone'[u]
    <3>1. t # s
      BY <2>2, <2>5
    <3> QED
      BY <2>1, <2>2, <2>3, <2>5, <3>1 DEF SeedInv
  <2>6. SeededOnce'
    BY <2>1, <2>3 DEF SeedInv, SeededOnce
  <2> QED
    BY <2>1, <2>2, <2>4, <2>5, <2>6 DEF SeedInv
<1>3. ASSUME NEW s \in Seeders, CountSuppliers(s) PROVE SeedInv'
  <2> DEFINE stage == IF ~Tables THEN "failed" ELSE IF suppliers # {} THEN "skipped" ELSE "hubs"
  <2>1. /\ seeder' = [seeder EXCEPT ![s] = stage] /\ seeder[s] \in Stages
        /\ UNCHANGED <<suppliers, alone>>
    BY <1>3 DEF CountSuppliers, tableVars, Stages
  <2>2. /\ stage \in Stages \cup {"skipped", "done", "failed"}
        /\ stage \in {"hubs", "suppliers"} => suppliers = {}
    BY DEF Stages
  <2> HIDE DEF stage
  <2> QED
    BY <2>1, <2>2, SeedMoves
<1>4. ASSUME NEW s \in Seeders, SeederFails(s) PROVE SeedInv'
  BY <1>4, SeedMoves DEF SeederFails, tableVars, Seeding
<1>5. ASSUME NEW s \in Seeders, InsertHubs(s) PROVE SeedInv'
  <2>1. /\ seeder[s] = "hubs" /\ UNCHANGED <<suppliers, alone>>
        /\ \/ seeder' = [seeder EXCEPT ![s] = "suppliers"]
           \/ seeder' = [seeder EXCEPT ![s] = "failed"]
    BY <1>5 DEF InsertHubs, Then
  <2> QED
    BY <2>1, SeedMoves DEF Stages
<1>6. ASSUME NEW s \in Seeders, InsertRoutes(s) PROVE SeedInv'
  <2>1. /\ seeder[s] = "routes" /\ UNCHANGED <<suppliers, alone>>
        /\ \/ seeder' = [seeder EXCEPT ![s] = "samples"]
           \/ seeder' = [seeder EXCEPT ![s] = "failed"]
    BY <1>6 DEF InsertRoutes, Then
  <2> QED
    BY <2>1, SeedMoves DEF Stages
<1>7. ASSUME NEW s \in Seeders, InsertSamples(s) PROVE SeedInv'
  <2>1. /\ seeder[s] = "samples" /\ UNCHANGED <<suppliers, alone>>
        /\ \/ seeder' = [seeder EXCEPT ![s] = "samples"]
           \/ seeder' = [seeder EXCEPT ![s] = "done"]
           \/ seeder' = [seeder EXCEPT ![s] = "failed"]
    BY <1>7 DEF InsertSamples, Then
  <2> QED
    BY <2>1, SeedMoves DEF Stages
<1>8. ASSUME NEW s \in Seeders, InsertSuppliers(s) PROVE SeedInv'
  <2>1. /\ seeder[s] = "suppliers" /\ suppliers' = suppliers \cup {s} /\ alone' = alone
        /\ \E stage \in {"routes", "failed"} : seeder' = [seeder EXCEPT ![s] = stage]
    BY <1>8 DEF InsertSuppliers, Then
  <2>2. /\ seeder' \in [Seeders -> Stages \cup {"idle", "skipped", "done", "failed"}]
        /\ seeder'[s] \in {"routes", "failed"}
        /\ \A t \in Seeders : t # s => seeder'[t] = seeder[t]
    BY <2>1 DEF SeedInv, Stages
  <2>3. ASSUME NEW t \in Seeders, t # s, seeder[t] \in Stages
        PROVE  ~alone[s] /\ ~alone[t]
    BY <2>1, <2>3 DEF SeedInv, Stages
  <2>4. \A t, u \in Seeders : t # u =>
          (seeder'[t] \in Stages /\ seeder'[u] \in Stages => ~alone'[t])
    BY <2>1, <2>2, <2>3 DEF SeedInv
  <2>5. \A t, u \in Seeders : t # u =>
          (seeder'[t] \in {"hubs", "suppliers"} /\ u \in suppliers' => ~alone'[t] /\ ~alone'[u])
    <3>1. {"hubs", "suppliers"} \subseteq Stages
      BY DEF Stages
    <3> QED
      BY <2>1, <2>2, <2>3, <3>1 DEF SeedInv
  <2>6. SeededOnce'
    <3>1. ASSUME NEW t \in suppliers, t # s PROVE ~alone[s] /\ ~alone[t]
      BY <2>1, <3>1 DEF SeedInv
    <3> QED
      BY <2>1, <3>1 DEF SeedInv, SeededOnce
  <2> QED
    BY <2>1, <2>2, <2>4, <2>5, <2>6 DEF SeedInv
<1> QED
  BY <1>1, <1>2, <1>3, <1>4, <1>5, <1>6, <1>7, <1>8 DEF SeedNext

LEMMA StepOfSeed == [Next]_vars => [\E s \in Seeders : SeedNext(s)]_seedVars
<1> SUFFICES ASSUME [Next]_vars, ~UNCHANGED seedVars PROVE \E s \in Seeders : SeedNext(s)
  OBVIOUS
<1>1. CASE UNCHANGED databaseVars
  BY <1>1 DEF databaseVars
<1>2. CASE DatabaseNext
  <2>1. ASSUME NEW m \in Runners, MigrateNext(m) PROVE FALSE
    BY <2>1 DEF MigrateNext, Migrate, LookUp, Apply, Refused, RunnerFails
  <2> QED
    BY <1>2, <2>1 DEF DatabaseNext
<1> QED
  BY <1>1, <1>2 DEF Next, vars, SchemaNext, StartBackend, LoadRouteMeta, RegisterSchemas,
     StartFails, BackendDies, StartSimulator, LoadRoutes, LoadFails, Connect, SimulatorDies,
     Scored

\* However many runs of the seed there are and wherever they stop: the suppliers of two runs are
\* both there only if neither of them had the database to itself (seed.ts:10).
THEOREM DataSeededOnce == Spec => []SeededOnce
<1>1. Init => SeedInv
  BY SeedInvInit DEF Init
<1>2. SeedInv /\ [Next]_vars => SeedInv'
  BY SeedInvKept, StepOfSeed
<1>3. SeedInv => SeededOnce
  BY DEF SeedInv
<1> QED
  BY <1>1, <1>2, <1>3, PTL DEF Spec

-------------------------------------------------------------------------------
\* Types and bounds.

\* A run of the seed has inserted no samples before it gets to them, and has some left to insert
\* while it is at them.
RowsTyped ==
  /\ hubs \subseteq Seeders /\ routes \subseteq Seeders
  /\ samples \in [Seeders -> 0..Batches]
  /\ alone \in [Seeders -> BOOLEAN]
  /\ \A s \in Seeders :
       /\ seeder[s] \in {"idle", "looking", "hubs", "suppliers", "routes"} => samples[s] = 0
       /\ seeder[s] = "samples" => samples[s] < Batches

ClientsTyped ==
  /\ up \in BOOLEAN
  /\ \A c \in Clients : client[c].attempt \in 1..MaxAttempts[c]

Consumer ==
  [at : {"off", "loading", "crashed", "registering", "running"}, routes : SUBSET Seeders]
Loader ==
  [at : {"off", "loading", "connecting", "registering", "running"}, attempt : 1..LoadAttempts,
   routes : SUBSET Seeders]

ProcessesTyped ==
  /\ consumer \in Consumer /\ simulator \in Loader /\ scored \in BOOLEAN
  /\ faults \in 0..MaxFaults

TypeInv == RegistryInv /\ MigrateInv /\ SeedInv /\ RowsTyped /\ ClientsTyped /\ ProcessesTyped

\* A subject has the empty list of versions or one version, and either is a list of schemas.
LEMMA SubjectsAreLists == Subject \subseteq Seq(Schema)
  BY DEF Subject, Schema

LEMMA TypeInvImplies == TypeInv => TypeOK
<1> SUFFICES ASSUME TypeInv PROVE TypeOK
  OBVIOUS
<1>1. applied \subseteq 1..Files /\ ran \in Seq(1..Files)
  <2>1. Files \in Nat /\ Len(ran) \in 0..Files
    BY DatabaseAssumption DEF TypeInv, MigrateInv
  <2>2. [n \in 1..Len(ran) |-> n] \in Seq(1..Files)
    BY <2>1
  <2> QED
    BY <2>1, <2>2 DEF TypeInv, MigrateInv
<1>2. DatabaseTypeOK
  BY <1>1 DEF TypeInv, MigrateInv, SeedInv, RowsTyped, ProcessesTyped, DatabaseTypeOK, RunnerState
<1>3. versions \in [1..Topics -> Seq(Schema)]
  BY SubjectsAreLists DEF TypeInv, RegistryInv
<1>4. RegistryTypeOK
  <2>1. client \in [Clients ->
          [at : {"idle", "getting", "posting", "registered", "given up"}, attempt : Nat,
           ids : Seq({Build, Older})]]
    BY DEF TypeInv, RegistryInv, State, Schema
  <2>2. versions \in [1..Topics -> Seq({Build, Older})]
    BY <1>3 DEF Schema
  <2> QED
    BY <2>1, <2>2 DEF RegistryTypeOK, TypeInv, RegistryInv, Suits, ClientsTyped, Registered
<1>5. consumer \in Consumer /\ simulator \in Loader /\ scored \in BOOLEAN
  BY DEF TypeInv, ProcessesTyped
<1> QED
  BY <1>2, <1>4, <1>5 DEF TypeOK, Consumer, Loader

LEMMA IdleTyped == \A c \in Clients : Idle.attempt \in 1..MaxAttempts[c]
  BY RegistryAssumption DEF Idle

LEMMA OffTyped == Off \in Loader
  BY StartupAssumption DEF Off, Loader

LEMMA RowsTypedInit == DatabaseInit => RowsTyped
<1> SUFFICES ASSUME DatabaseInit PROVE RowsTyped
  OBVIOUS
<1>1. hubs \subseteq Seeders /\ routes \subseteq Seeders
  BY DEF DatabaseInit
<1>2. Batches \in Nat \ {0}
  BY DatabaseAssumption
<1>3. samples = [s \in Seeders |-> IF s \in hubs THEN Batches ELSE 0]
  BY DEF DatabaseInit
<1>4. seeder = [s \in Seeders |-> IF s \in hubs THEN "done" ELSE "idle"]
  BY DEF DatabaseInit
<1>5. alone \in [Seeders -> BOOLEAN]
  BY DEF DatabaseInit
<1>6. samples \in [Seeders -> 0..Batches]
  BY <1>2, <1>3
<1>7. ASSUME NEW s \in Seeders
      PROVE  /\ seeder[s] \in {"idle", "looking", "hubs", "suppliers", "routes"} => samples[s] = 0
             /\ seeder[s] # "samples"
  BY <1>3, <1>4
<1> QED
  BY <1>1, <1>5, <1>6, <1>7 DEF RowsTyped

LEMMA TypeInvInit == Init => TypeInv
<1> SUFFICES ASSUME Init PROVE TypeInv
  OBVIOUS
<1>1. RegistryInv /\ MigrateInv /\ SeedInv /\ RowsTyped
  BY RegistryInvInit, MigrateInvInit, SeedInvInit, RowsTypedInit DEF Init
<1>2. ClientsTyped
  <2>1. up \in BOOLEAN /\ client = [c \in Clients |-> Idle]
    BY DEF Init, RegistryInit
  <2> QED
    BY <2>1, IdleTyped DEF ClientsTyped
<1>3. ProcessesTyped
  <2>1. faults \in 0..MaxFaults
    BY DatabaseAssumption DEF Init, DatabaseInit
  <2>2. consumer \in Consumer /\ simulator \in Loader /\ scored \in BOOLEAN
    BY OffTyped DEF Init, Consumer
  <2> QED
    BY <2>1, <2>2 DEF ProcessesTyped
<1> QED
  BY <1>1, <1>2, <1>3 DEF TypeInv

\* The rows.

\* A run of the seed moves on without inserting samples, and not to them unless it has none yet.
LEMMA RowsMove ==
  ASSUME SeedInv, RowsTyped, NEW s \in Seeders, NEW stage,
         seeder' = [seeder EXCEPT ![s] = stage], samples' = samples,
         hubs' \subseteq Seeders, routes' \subseteq Seeders, alone' \in [Seeders -> BOOLEAN],
         stage \in Stages => samples[s] = 0, stage # "idle"
  PROVE  RowsTyped'
<1>1. seeder'[s] = stage /\ \A t \in Seeders : t # s => seeder'[t] = seeder[t]
  BY DEF SeedInv
<1>2. 0 < Batches
  BY DatabaseAssumption
<1> QED
  BY <1>1, <1>2 DEF RowsTyped, Stages

LEMMA RowsKept ==
  ASSUME SeedInv, RowsTyped, [\E s \in Seeders : SeedNext(s)]_seedVars
  PROVE  RowsTyped'
<1>1. CASE UNCHANGED seedVars
  BY <1>1 DEF seedVars, tableVars, RowsTyped
<1>2. ASSUME NEW s \in Seeders, StartSeed(s) PROVE RowsTyped'
  <2>1. alone' \in [Seeders -> BOOLEAN]
    BY <1>2, Zenon DEF StartSeed, RowsTyped
  <2>2. samples[s] = 0
    BY <1>2 DEF StartSeed, RowsTyped
  <2> QED
    BY <1>2, <2>1, <2>2, RowsMove DEF StartSeed, RowsTyped, tableVars
<1>3. ASSUME NEW s \in Seeders, CountSuppliers(s) PROVE RowsTyped'
  <2> DEFINE stage == IF ~Tables THEN "failed" ELSE IF suppliers # {} THEN "skipped" ELSE "hubs"
  <2>1. samples[s] = 0 /\ stage # "idle"
    BY <1>3 DEF CountSuppliers, RowsTyped
  <2>2. seeder' = [seeder EXCEPT ![s] = stage] /\ UNCHANGED <<hubs, routes, samples, alone>>
    BY <1>3 DEF CountSuppliers, tableVars
  <2> HIDE DEF stage
  <2> QED
    BY <2>1, <2>2, RowsMove DEF RowsTyped
<1>4. ASSUME NEW s \in Seeders, SeederFails(s) PROVE RowsTyped'
  BY <1>4, RowsMove DEF SeederFails, RowsTyped, tableVars, Stages
<1>5. ASSUME NEW s \in Seeders, InsertHubs(s) \/ InsertSuppliers(s) \/ InsertRoutes(s)
      PROVE  RowsTyped'
  <2>1. PICK stage \in {"suppliers", "routes", "samples", "failed"} :
          seeder' = [seeder EXCEPT ![s] = stage]
    BY <1>5 DEF InsertHubs, InsertSuppliers, InsertRoutes, Then
  <2>2. /\ samples[s] = 0 /\ UNCHANGED <<samples, alone>>
        /\ hubs' \subseteq Seeders /\ routes' \subseteq Seeders
    BY <1>5 DEF InsertHubs, InsertSuppliers, InsertRoutes, Then, RowsTyped
  <2> QED
    BY <2>1, <2>2, RowsMove DEF RowsTyped
<1>6. ASSUME NEW s \in Seeders, InsertSamples(s) PROVE RowsTyped'
  <2>1. /\ samples[s] \in 0..Batches /\ samples[s] < Batches /\ Batches \in Nat
        /\ samples' = [samples EXCEPT ![s] = samples[s] + 1]
        /\ UNCHANGED <<hubs, routes, alone>>
    BY <1>6, DatabaseAssumption DEF InsertSamples, Then, RowsTyped
  <2>2. PICK stage \in {"samples", "done", "failed"} :
          /\ seeder' = [seeder EXCEPT ![s] = stage]
          /\ stage = "samples" => samples[s] + 1 < Batches
    BY <1>6 DEF InsertSamples, Then
  <2>3. /\ seeder'[s] = stage /\ samples'[s] = samples[s] + 1
        /\ \A t \in Seeders : t # s => seeder'[t] = seeder[t] /\ samples'[t] = samples[t]
    BY <2>1, <2>2 DEF SeedInv, RowsTyped
  <2>4. samples' \in [Seeders -> 0..Batches]
    BY <2>1 DEF RowsTyped
  <2> QED
    BY <2>1, <2>2, <2>3, <2>4 DEF RowsTyped
<1> QED
  BY <1>1, <1>2, <1>3, <1>4, <1>5, <1>6 DEF SeedNext

\* The clients' attempts.

LEMMA OneAttemptMoves ==
  ASSUME RegistryInv, ClientsTyped, up' \in BOOLEAN, NEW c \in Clients, NEW k,
         client' = [client EXCEPT ![c] = k], k.attempt \in 1..MaxAttempts[c]
  PROVE  ClientsTyped'
  BY DEF RegistryInv, ClientsTyped

LEMMA RetryTyped ==
  ASSUME RegistryInv, ClientsTyped, up' \in BOOLEAN, NEW c \in Clients, Retry(c)
  PROVE  ClientsTyped'
<1> DEFINE n == client[c].attempt
           k == IF n < MaxAttempts[c]
                THEN [at |-> "getting", attempt |-> n + 1, ids |-> <<>>]
                ELSE [at |-> "given up", attempt |-> n, ids |-> <<>>]
<1>1. n \in 1..MaxAttempts[c] /\ MaxAttempts[c] \in Nat
  BY RegistryAssumption DEF ClientsTyped
<1>2. client' = [client EXCEPT ![c] = k]
  BY DEF Retry, RegistryInv
<1>3. k.attempt = IF n < MaxAttempts[c] THEN n + 1 ELSE n
  OBVIOUS
<1>4. k.attempt \in 1..MaxAttempts[c]
  BY <1>1, <1>3
<1> HIDE DEF k
<1> QED
  BY <1>2, <1>4, OneAttemptMoves

LEMMA ClientsKept ==
  ASSUME RegistryInv, ClientsTyped, [RegistryNext]_registryVars
  PROVE  ClientsTyped'
<1>1. CASE UNCHANGED registryVars
  BY <1>1 DEF registryVars, ClientsTyped
<1>2. CASE RegistryUp \/ RegistryDown
  BY <1>2 DEF RegistryUp, RegistryDown, ClientsTyped
<1>3. ASSUME NEW c \in Clients, Register(c) \/ GetLatest(c) \/ PostSchema(c) PROVE ClientsTyped'
  <2>1. up' \in BOOLEAN
    BY <1>3 DEF Register, GetLatest, PostSchema, ClientsTyped
  <2>2. client[c] \in State /\ client \in [Clients -> State]
    BY DEF RegistryInv
  <2>3. PICK k : client' = [client EXCEPT ![c] = k] /\ k.attempt = client[c].attempt
    <3>1. CASE Register(c) \/ client' = [client EXCEPT ![c].at = "posting"]
      BY <2>2, <3>1 DEF Register, State
    <3>2. ASSUME NEW id, Take(c, id)
          PROVE  \E k : client' = [client EXCEPT ![c] = k] /\ k.attempt = client[c].attempt
      <4> DEFINE k == [client[c] EXCEPT !.ids = Append(@, id),
                         !.at = IF Topic(c) = Topics THEN "registered" ELSE "getting"]
      <4>1. client' = [client EXCEPT ![c] = k]
        BY <2>2, <3>2 DEF Take
      <4>2. k.attempt = client[c].attempt
        BY <2>2 DEF State
      <4> HIDE DEF k
      <4> QED
        BY <4>1, <4>2
    <3> QED
      BY <1>3, <3>1, <3>2 DEF GetLatest, PostSchema
  <2> QED
    BY <2>1, <2>3, OneAttemptMoves DEF ClientsTyped
<1>4. ASSUME NEW c \in Clients, RequestFails(c) \/ AnswerLost(c) PROVE ClientsTyped'
  BY <1>4, RetryTyped DEF RequestFails, AnswerLost, ClientsTyped
<1>5. ASSUME NEW c \in Clients, Forget(c), UNCHANGED <<up, versions>> PROVE ClientsTyped'
  BY <1>5, IdleTyped, OneAttemptMoves DEF Forget, ClientsTyped
<1> QED
  BY <1>1, <1>2, <1>3, <1>4, <1>5 DEF RegistryNext, RegisterNext

\* The two processes, which take the routes that are there, and the faults.

LEMMA FaultsCounted ==
  ASSUME [Next]_vars, ProcessesTyped
  PROVE  faults' \in 0..MaxFaults
<1>1. ASSUME faults' = faults \/ Fault PROVE faults' \in 0..MaxFaults
  BY <1>1, DatabaseAssumption DEF ProcessesTyped, Fault
<1>2. ASSUME NEW m \in Runners, MigrateNext(m) PROVE faults' = faults \/ Fault
  BY <1>2 DEF MigrateNext, Migrate, LookUp, Apply, Refused, RunnerFails
<1>3. ASSUME NEW s \in Seeders, SeedNext(s) PROVE faults' = faults \/ Fault
  BY <1>3 DEF SeedNext, StartSeed, CountSuppliers, SeederFails, InsertHubs, InsertSuppliers,
              InsertRoutes, InsertSamples, Then
<1>4. CASE SchemaNext
  BY <1>1, <1>4 DEF SchemaNext
<1>5. CASE StartBackend \/ LoadRouteMeta \/ RegisterSchemas \/ StartFails \/ BackendDies
  BY <1>1, <1>5 DEF StartBackend, LoadRouteMeta, RegisterSchemas, StartFails, BackendDies
<1>6. CASE StartSimulator \/ LoadRoutes \/ LoadFails \/ Connect \/ SimulatorDies \/ Scored
  BY <1>1, <1>6 DEF StartSimulator, LoadRoutes, LoadFails, Connect, SimulatorDies, Scored
<1> QED
  BY <1>1, <1>2, <1>3, <1>4, <1>5, <1>6 DEF Next, DatabaseNext, vars

LEMMA ConsumerMoves ==
  ASSUME [Next]_vars, consumer \in Consumer, routes \subseteq Seeders
  PROVE  consumer' \in Consumer
<1>1. CASE StartBackend \/ BackendDies
  BY <1>1 DEF StartBackend, BackendDies, Consumer
<1>2. CASE LoadRouteMeta
  BY <1>2 DEF LoadRouteMeta, Consumer
<1>3. CASE RegisterSchemas
  BY <1>3 DEF RegisterSchemas, Consumer
<1>4. CASE StartFails
  BY <1>4 DEF StartFails, Consumer
<1>5. CASE consumer' = consumer
  BY <1>5
<1>6. StartSimulator \/ LoadRoutes \/ LoadFails \/ Connect \/ SimulatorDies \/ Scored
        \/ DatabaseNext \/ SchemaNext \/ UNCHANGED vars => consumer' = consumer
  BY DEF StartSimulator, LoadRoutes, LoadFails, Connect, SimulatorDies, Scored, DatabaseNext,
         SchemaNext, Processes, vars
<1> QED
  BY <1>1, <1>2, <1>3, <1>4, <1>5, <1>6 DEF Next

\* The last attempt leads out of the loop.
LEMMA AttemptCounted ==
  ASSUME simulator \in Loader, NEW found \in SUBSET Seeders, NextAttempt(found)
  PROVE  simulator' \in Loader
<1>1. simulator.attempt \in 1..LoadAttempts /\ LoadAttempts \in Nat
  BY StartupAssumption DEF Loader
<1>2. CASE simulator.attempt < LoadAttempts
  <2>1. simulator.attempt + 1 \in 1..LoadAttempts
    BY <1>1, <1>2
  <2>2. simulator' = [simulator EXCEPT !.attempt = simulator.attempt + 1, !.routes = found]
    BY <1>2 DEF NextAttempt
  <2> QED
    BY <2>1, <2>2 DEF Loader
<1>3. CASE ~(simulator.attempt < LoadAttempts)
  BY <1>3, OffTyped DEF NextAttempt, Loader
<1> QED
  BY <1>2, <1>3

LEMMA SimulatorMoves ==
  ASSUME [Next]_vars, simulator \in Loader, routes \subseteq Seeders
  PROVE  simulator' \in Loader
<1>1. CASE StartSimulator \/ SimulatorDies
  BY <1>1, OffTyped DEF StartSimulator, SimulatorDies, Loader
<1>2. CASE LoadRoutes
  <2>1. CASE Tables /\ routes # {}
    BY <1>2, <2>1 DEF LoadRoutes, Loader
  <2>2. CASE ~(Tables /\ routes # {})
    <3>1. simulator.routes \in SUBSET Seeders
      BY DEF Loader
    <3> QED
      BY <1>2, <2>2, <3>1, AttemptCounted DEF LoadRoutes
  <2> QED
    BY <2>1, <2>2
<1>3. CASE LoadFails
  <2>1. simulator.routes \in SUBSET Seeders
    BY DEF Loader
  <2> QED
    BY <1>3, <2>1, AttemptCounted DEF LoadFails
<1>4. CASE Connect
  BY <1>4 DEF Connect, Loader
<1>5. StartBackend \/ LoadRouteMeta \/ RegisterSchemas \/ StartFails \/ BackendDies \/ Scored
        \/ DatabaseNext \/ SchemaNext \/ UNCHANGED vars => simulator' = simulator
  BY DEF StartBackend, LoadRouteMeta, RegisterSchemas, StartFails, BackendDies, Scored,
         DatabaseNext, SchemaNext, Processes, vars
<1> QED
  BY <1>1, <1>2, <1>3, <1>4, <1>5 DEF Next

LEMMA ScoredTyped == scored \in BOOLEAN /\ [Next]_vars => scored' \in BOOLEAN
  BY DEF Next, vars, DatabaseNext, SchemaNext, Processes, StartBackend, LoadRouteMeta,
         RegisterSchemas, StartFails, BackendDies, StartSimulator, LoadRoutes, LoadFails, Connect,
         SimulatorDies, Scored

\* Whatever is started, fails or dies in whatever order: the states have their types; no client
\* makes more attempts than it is given, or has ids enough and goes on asking; no run of the seed
\* inserts more batches than there are, and the simulator gives up after its last attempt.
THEOREM StartupTypeCorrect == Spec => []TypeOK
<1>1. TypeInv /\ [Next]_vars => TypeInv'
  <2> SUFFICES ASSUME TypeInv, [Next]_vars PROVE TypeInv'
    OBVIOUS
  <2>1. RegistryInv' /\ MigrateInv' /\ SeedInv'
    BY RegistryInvKept, StepOfRegistry, MigrateInvKept, StepOfMigration, SeedInvKept, StepOfSeed
       DEF TypeInv
  <2>2. RowsTyped' /\ ClientsTyped'
    BY RowsKept, StepOfSeed, ClientsKept, StepOfRegistry DEF TypeInv
  <2>3. ProcessesTyped'
    BY FaultsCounted, ConsumerMoves, SimulatorMoves, ScoredTyped
       DEF TypeInv, ProcessesTyped, RowsTyped
  <2> QED
    BY <2>1, <2>2, <2>3 DEF TypeInv
<1> QED
  BY <1>1, TypeInvInit, TypeInvImplies, PTL DEF Spec
================================================================================

---------------------------- MODULE SchemaRegistry ----------------------------
(***************************************************************************)
(* registerAllSchemas (packages/proto/src/registry.ts) as the processes    *)
(* that call it when they start do: topic by topic, a GET of the subject's *)
(* latest version, and a POST when there is none; whatever is thrown ends  *)
(* the attempt, and the next one starts again from the first topic.        *)
(*                                                                         *)
(* Abstracted: a schema, and the id the registry gives it, is the build    *)
(* that posts it.  The clients are of one build.                           *)
(***************************************************************************)
EXTENDS Naturals, Sequences

CONSTANTS
  Clients,          \* processes that register
  Topics,           \* number of topics in TOPIC_VALIDATORS, in its order
  Build, Older,     \* schemas of the clients' build, and of the one before
  MaxAttempts       \* MaxAttempts[c]: attempts client c makes

ASSUME RegistryAssumption ==
  /\ Topics \in Nat \ {0} /\ Build # Older
  /\ MaxAttempts \in [Clients -> Nat \ {0}]

VARIABLES
  up,           \* the registry answers
  versions,     \* versions[t]: the versions of the subject of topic t
  client        \* client[c]: where it stands, in which attempt, and the ids it has so far

registryVars == <<up, versions, client>>

Idle == [at |-> "idle", attempt |-> 1, ids |-> <<>>]

\* A registry that is new or holds what an earlier build registered, and may not be up yet.
RegistryInit ==
  /\ up \in BOOLEAN
  /\ versions \in [1..Topics -> {<<>>, <<Older>>, <<Build>>}]
  /\ client = [c \in Clients |-> Idle]

Asking(c) == client[c].at \in {"getting", "posting"}
Topic(c) == Len(client[c].ids) + 1

\* The ids count only when every topic has one.
Registered(c) == client[c].at = "registered"
\* The caller goes on, with ids or without.
Over(c) == client[c].at \in {"registered", "given up"}

Register(c) ==
  /\ client[c].at = "idle"
  /\ client' = [client EXCEPT ![c].at = "getting"]
  /\ UNCHANGED <<up, versions>>

\* An id for the topic in hand; with the last one the attempt has succeeded.
Take(c, id) ==
  client' = [client EXCEPT ![c].ids = Append(@, id),
                           ![c].at = IF Topic(c) = Topics THEN "registered" ELSE "getting"]

\* Faulty variant of GetLatest: a subject that does not exist is a failure like any other.
GetLatestStrict(c) ==
  /\ client[c].at = "getting" /\ up
  /\ LET known == versions[Topic(c)]
     IN  IF known = <<>>
         THEN client' = [client EXCEPT ![c] =
                IF @.attempt < MaxAttempts[c]
                THEN [at |-> "getting", attempt |-> @.attempt + 1, ids |-> <<>>]
                ELSE [at |-> "given up", attempt |-> @.attempt, ids |-> <<>>]]
         ELSE Take(c, known[Len(known)])
  /\ UNCHANGED <<up, versions>>

\* Faulty variant of GetLatest: every start posts the schemas of its build.
GetLatestIgnored(c) ==
  /\ client[c].at = "getting" /\ up
  /\ client' = [client EXCEPT ![c].at = "posting"]
  /\ UNCHANGED <<up, versions>>

\* getLatestSchemaId: an existing subject's latest id is taken; 404 leads to the POST.
GetLatest(c) ==
  /\ client[c].at = "getting" /\ up
  /\ LET known == versions[Topic(c)]
     IN  IF known = <<>> THEN client' = [client EXCEPT ![c].at = "posting"]
                         ELSE Take(c, known[Len(known)])
  /\ UNCHANGED <<up, versions>>

\* The registry gives a schema it holds the id it has; another one is a new version.
Posted(t) ==
  versions' = IF \E n \in DOMAIN versions[t] : versions[t][n] = Build THEN versions
              ELSE [versions EXCEPT ![t] = Append(@, Build)]

\* postSchema, answered.
PostSchema(c) ==
  /\ client[c].at = "posting" /\ up
  /\ Posted(Topic(c))
  /\ Take(c, Build)
  /\ UNCHANGED up

\* The caller's catch: it pauses and tries again, until its attempts are used up.
Retry(c) ==
  client' = [client EXCEPT ![c] =
    IF @.attempt < MaxAttempts[c]
    THEN [at |-> "getting", attempt |-> @.attempt + 1, ids |-> <<>>]
    ELSE [at |-> "given up", attempt |-> @.attempt, ids |-> <<>>]]

\* A request that finds nobody.
RequestFails(c) ==
  /\ Asking(c) /\ ~up
  /\ Retry(c)
  /\ UNCHANGED <<up, versions>>

\* A request whose answer is lost or is an error; a POST may have been carried out.
AnswerLost(c) ==
  /\ Asking(c) /\ up
  /\ \/ client[c].at = "posting" /\ Posted(Topic(c))
     \/ UNCHANGED versions
  /\ Retry(c)
  /\ UNCHANGED up

\* The process ends, and with it the ids it had.
Forget(c) == client' = [client EXCEPT ![c] = Idle]

RegistryUp == ~up /\ up' = TRUE /\ UNCHANGED <<versions, client>>
RegistryDown == up /\ up' = FALSE /\ UNCHANGED <<versions, client>>

RegisterNext(c) == GetLatest(c) \/ PostSchema(c) \/ RequestFails(c)

RegistryNext ==
  \/ RegistryUp \/ RegistryDown
  \/ \E c \in Clients :
       \/ Register(c) \/ RegisterNext(c) \/ AnswerLost(c)
       \/ Forget(c) /\ UNCHANGED <<up, versions>>

RegistrySpec == RegistryInit /\ [][RegistryNext]_registryVars

RegistryTypeOK ==
  /\ up \in BOOLEAN
  /\ versions \in [1..Topics -> Seq({Build, Older})]
  /\ client \in [Clients ->
       [at : {"idle", "getting", "posting", "registered", "given up"}, attempt : Nat,
        ids : Seq({Build, Older})]]
  /\ \A c \in Clients :
       /\ client[c].attempt \in 1..MaxAttempts[c]
       /\ Len(client[c].ids) \in IF Registered(c) THEN {Topics} ELSE 0..(Topics - 1)

\* registry.ts:77, "returns existing schema id when subject already exists", with any number of
\* clients that start, fail and start again together: a subject gets one version at most, though
\* the GET and the POST are two requests, and every client that has an id has that version's.
RegisteredOnce ==
  /\ \A t \in 1..Topics : Len(versions[t]) <= 1
  /\ \A c \in Clients : \A t \in DOMAIN client[c].ids : versions[t] = <<client[c].ids[t]>>
===============================================================================

--------------------------- MODULE CachedProxyProofs ---------------------------
(***************************************************************************)
(* Theorems about CachedProxy, for any requests, keys, verdicts, TTL,      *)
(* time-out and bounds: type correctness; what is served is a stored run   *)
(* of the same key; nothing served is older than a call, a TTL and the     *)
(* outages of Redis.                                                       *)
(***************************************************************************)
EXTENDS CachedProxy, TLAPS

\* The bounds as numbers.
LEMMA Bounds == /\ TTL \in Nat /\ Timeout \in Nat /\ MaxTime \in Nat
                /\ MaxOutage \in Nat /\ MaxFaults \in Nat
  BY ProxyAssumption DEF MaxTime

Statuses == {0, 200, 400, 404, 500, 502, 503}

\* A reply is one of a status the code sends, at the present time.
LEMMA TypeReply ==
  ASSUME TypeOK, now' = now, NEW r \in Requests, NEW status \in Statuses,
         NEW run \in Requests \cup {Nothing}, Reply(r, status, run)
  PROVE  /\ pc' \in [Requests -> {"new", "looking", "waiting", "storing", "done", "gone"}]
         /\ reply' \in [Requests -> [status : Statuses, run : Requests \cup {Nothing},
                                     at : 0..now']]
<1>1. now \in 0..now
  BY Bounds DEF TypeOK
<1>2. [status |-> status, run |-> run, at |-> now]
        \in [status : Statuses, run : Requests \cup {Nothing}, at : 0..now']
  BY <1>1
<1>3. reply \in [Requests -> [status : Statuses, run : Requests \cup {Nothing}, at : 0..now']]
  BY DEF TypeOK, Statuses
<1> QED
  BY <1>2, <1>3 DEF Reply, TypeOK

LEMMA TypeInit == Init => TypeOK
  BY Bounds DEF Init, TypeOK, Statuses

LEMMA TypeArrive == ASSUME TypeOK, NEW r \in Requests, Arrive(r) PROVE TypeOK'
<1>1. UNCHANGED <<world, asked, service, cache, faults>>
  BY DEF Arrive
<1>2. CASE Reply(r, 400, Nothing) /\ UNCHANGED key
  BY <1>1, <1>2, TypeReply DEF TypeOK, world, service, Statuses
<1>3. CASE /\ \E k \in Keys : key' = [key EXCEPT ![r] = k]
           /\ pc' = [pc EXCEPT ![r] = "looking"]
           /\ UNCHANGED reply
  BY <1>1, <1>3 DEF TypeOK, world, service
<1> QED
  BY <1>2, <1>3 DEF Arrive

\* An entry that is hit names a run.
LEMMA TypeHit == ASSUME TypeOK, NEW k \in Keys, Hit(k)
                 PROVE  cache[k] \in [run : Requests, expires : 0..(now + TTL)]
  BY DEF TypeOK, Hit

\* A handler that has got past Arrive has a key.
KeyKnown == \A r \in Requests : pc[r] \in {"looking", "waiting", "storing"} => key[r] \in Keys

Typed == TypeOK /\ KeyKnown /\ DOMAIN verdict = Requests

\* What a step that writes an entry, or none, makes of the cache.
LEMMA TypeEntry ==
  ASSUME TypeOK, now' = now, NEW r \in Requests, NEW k \in Keys,
         cache' = [cache EXCEPT ![k] = [run |-> r, expires |-> now + TTL]]
  PROVE  cache' \in [Keys -> [run : Requests, expires : 0..(now' + TTL)] \cup {Nothing}]
<1>1. [run |-> r, expires |-> now + TTL] \in [run : Requests, expires : 0..(now' + TTL)]
  BY Bounds DEF TypeOK
<1> QED
  BY <1>1 DEF TypeOK

LEMMA TypeLookUp == ASSUME Typed, NEW r \in Requests, LookUp(r) PROVE TypeOK'
<1>1. /\ key[r] \in Keys
      /\ UNCHANGED <<world, key, verdict, readAt, runs, cache, faults>>
  BY DEF LookUp, Typed, KeyKnown
<1>2. CASE Hit(key[r]) /\ Reply(r, 200, cache[key[r]].run) /\ UNCHANGED <<asked, job>>
  <2>1. cache[key[r]].run \in Requests
    BY <1>1, <1>2, TypeHit DEF Typed
  <2> QED
    BY <1>1, <1>2, <2>1, TypeReply DEF Typed, TypeOK, world, Statuses
<1>3. CASE /\ pc' = [pc EXCEPT ![r] = "waiting"]
           /\ asked' = [asked EXCEPT ![r] = now]
           /\ job' = [job EXCEPT ![r] = "called"]
           /\ UNCHANGED reply
  <2>1. now \in 0..now
    BY Bounds DEF Typed, TypeOK
  <2> QED
    BY <1>1, <1>3, <2>1 DEF Typed, TypeOK, world
<1> QED
  BY <1>2, <1>3 DEF LookUp

LEMMA TypeReceive == ASSUME TypeOK, NEW r \in Requests, Receive(r) PROVE TypeOK'
<1>1. UNCHANGED <<world, key, asked, service, cache, faults>>
  BY DEF Receive
<1>2. OnError(r, Status(r)) \in Statuses /\ 502 \in Statuses
  BY DEF OnError, Status, Statuses
<1>3. ASSUME NEW status \in Statuses, Reply(r, status, Nothing) PROVE TypeOK'
  BY <1>1, <1>3, TypeReply DEF TypeOK, world, service, Statuses
<1>4. CASE pc' = [pc EXCEPT ![r] = "storing"] /\ UNCHANGED reply
  BY <1>1, <1>4 DEF TypeOK, world, service
<1> QED
  BY <1>2, <1>3, <1>4 DEF Receive

LEMMA TypeStore == ASSUME Typed, NEW r \in Requests, Store(r) PROVE TypeOK'
<1>1. key[r] \in Keys /\ UNCHANGED <<world, key, asked, service, faults>>
  BY DEF Store, Typed, KeyKnown
<1>2. cache' \in [Keys -> [run : Requests, expires : 0..(now' + TTL)] \cup {Nothing}]
  BY <1>1, TypeEntry DEF Store, Typed, world
<1> QED
  BY <1>1, <1>2, TypeReply DEF Store, Typed, TypeOK, world, service, Statuses

LEMMA TypeGivesUp ==
  ASSUME TypeOK, NEW r \in Requests, Reply(r, 503, Nothing),
         UNCHANGED <<world, key, asked, service, cache>>, faults' \in 0..MaxFaults
  PROVE  TypeOK'
  BY TypeReply DEF TypeOK, world, service, Statuses

LEMMA TypeBackendDies == ASSUME Typed, NEW r \in Requests, BackendDies(r) PROVE TypeOK'
<1>1. /\ key[r] \in Keys /\ UNCHANGED <<world, key, asked, reply, service>>
      /\ pc' = [pc EXCEPT ![r] = "gone"] /\ faults' \in 0..MaxFaults
  BY Bounds DEF BackendDies, Typed, TypeOK, KeyKnown
<1>2. cache' \in [Keys -> [run : Requests, expires : 0..(now' + TTL)] \cup {Nothing}]
  <2>1. CASE UNCHANGED cache
    BY <1>1, <2>1 DEF Typed, TypeOK, world
  <2>2. CASE cache' = [cache EXCEPT ![key[r]] = [run |-> r, expires |-> now + TTL]]
    BY <1>1, <2>2, TypeEntry DEF Typed, world
  <2> QED
    BY <2>1, <2>2 DEF BackendDies
<1> QED
  BY <1>1, <1>2 DEF Typed, TypeOK, world, service

LEMMA TypeServe ==
  ASSUME TypeOK, NEW r \in Requests, Read(r) \/ WriteRun(r) \/ WriteFails(r) \/ Respond(r)
  PROVE  TypeOK'
<1>1. now \in 0..now
  BY Bounds DEF TypeOK
<1>2. CASE Read(r)
  BY <1>1, <1>2 DEF Read, TypeOK, world, handlers
<1>3. CASE WriteRun(r)
  BY <1>3 DEF WriteRun, TypeOK, world, handlers
<1>4. CASE WriteFails(r)
  BY <1>4, Bounds DEF WriteFails, TypeOK, world, handlers
<1>5. CASE Respond(r)
  BY <1>5 DEF Respond, TypeOK, world, handlers
<1> QED
  BY <1>2, <1>3, <1>4, <1>5

LEMMA TypeWorld ==
  ASSUME TypeOK,
         (\E e \in {"forecast", "optimize"} : ServiceDies(e)) \/ RedisDown \/ RedisBack
  PROVE  TypeOK'
<1>1. ASSUME NEW e \in {"forecast", "optimize"}, ServiceDies(e) PROVE TypeOK'
  <2>1. job' \in [Requests -> {"none", "called", "computed", "stored", "answered", "gone"}]
    BY <1>1 DEF ServiceDies, TypeOK
  <2>2. faults' \in 0..MaxFaults
    BY <1>1, Bounds DEF ServiceDies, TypeOK
  <2> QED
    BY <1>1, <2>1, <2>2 DEF ServiceDies, TypeOK, world, handlers
<1>2. CASE RedisDown
  <2>1. cache' \in [Keys -> [run : Requests, expires : 0..(now' + TTL)] \cup {Nothing}]
    BY <1>2 DEF RedisDown, TypeOK
  <2>2. faults' \in 0..MaxFaults
    BY <1>2, Bounds DEF RedisDown, TypeOK
  <2> QED
    BY <1>2, <2>1, <2>2 DEF RedisDown, TypeOK, handlers, service
<1>3. CASE RedisBack
  BY <1>3 DEF RedisBack, TypeOK, handlers, service
<1> QED
  BY <1>1, <1>2, <1>3

LEMMA TypeTick == ASSUME TypeOK, Tick PROVE TypeOK'
<1>1. now \in Nat /\ now' = now + 1 /\ now' \in 0..MaxTime /\ outage' \in 0..MaxOutage
  BY Bounds DEF Tick, TypeOK
<1>2. 0..now \subseteq 0..now' /\ 0..(now + TTL) \subseteq 0..(now' + TTL)
  BY <1>1, Bounds
<1>3. UNCHANGED <<redisUp, handlers, service, cache, faults>>
  BY DEF Tick
<1>4. asked' \in [Requests -> 0..now'] /\ readAt' \in [Requests -> 0..now']
  BY <1>2, <1>3 DEF TypeOK, handlers, service
<1>5. reply' \in [Requests -> [status : Statuses, run : Requests \cup {Nothing}, at : 0..now']]
  BY <1>2, <1>3 DEF TypeOK, handlers, Statuses
<1>6. cache' \in [Keys -> [run : Requests, expires : 0..(now' + TTL)] \cup {Nothing}]
  BY <1>2, <1>3 DEF TypeOK
<1> QED
  BY <1>1, <1>3, <1>4, <1>5, <1>6 DEF TypeOK, handlers, service, Statuses

LEMMA TypeStep == Typed /\ [Next]_vars => Typed'
<1> SUFFICES ASSUME Typed, [Next]_vars PROVE Typed'
  OBVIOUS
<1>1. TypeOK'
  <2>1. ASSUME NEW r \in Requests, TimeOut(r) \/ CallFails(r) \/ StoreRefused(r) PROVE TypeOK'
    <3>1. faults' \in 0..MaxFaults
      BY <2>1, Bounds DEF TimeOut, CallFails, StoreRefused, Typed, TypeOK
    <3> QED
      BY <2>1, <3>1, TypeGivesUp DEF TimeOut, CallFails, StoreRefused, Typed
  <2>2. CASE UNCHANGED vars
    BY <2>2 DEF vars, Typed, TypeOK
  <2> QED
    BY <2>1, <2>2, TypeArrive, TypeLookUp, TypeReceive, TypeStore, TypeBackendDies, TypeServe,
       TypeWorld, TypeTick DEF Typed, Next, Handle, Serve
<1>2. KeyKnown'
  <2>1. ASSUME NEW r \in Requests, Arrive(r) PROVE KeyKnown'
    BY <2>1 DEF Arrive, Reply, Typed, TypeOK, KeyKnown
  <2>2. ASSUME NEW r \in Requests, LookUp(r) \/ Receive(r) PROVE KeyKnown'
    BY <2>2 DEF LookUp, Receive, Reply, Typed, TypeOK, KeyKnown
  <2>3. ASSUME NEW r \in Requests,
               Store(r) \/ StoreRefused(r) \/ TimeOut(r) \/ CallFails(r) \/ BackendDies(r)
        PROVE  KeyKnown'
    BY <2>3 DEF Store, StoreRefused, TimeOut, CallFails, BackendDies, Reply, Typed, TypeOK,
       KeyKnown
  <2>4. CASE UNCHANGED <<key, pc>>
    BY <2>4 DEF Typed, KeyKnown
  <2> QED
    BY <2>1, <2>2, <2>3, <2>4 DEF Next, Handle, Serve, vars, handlers, Read, WriteRun, WriteFails,
       Respond, ServiceDies, Tick, RedisDown, RedisBack
<1>3. DOMAIN verdict' = Requests
  BY DEF Typed, Next, Handle, Serve, vars, world, handlers, service, Arrive, LookUp, Receive,
     Store, StoreRefused, TimeOut, CallFails, BackendDies, Read, WriteRun, WriteFails, Respond,
     ServiceDies, Tick, RedisDown, RedisBack
<1> QED
  BY <1>1, <1>2, <1>3 DEF Typed

LEMMA TypedInit == Init => Typed
  BY TypeInit DEF Init, Typed, KeyKnown

LEMMA TypedAlways == Spec => []Typed
  BY TypedInit, TypeStep, PTL DEF Spec

\* Every variable has its type in every reachable state, for any requests, keys and bounds; the
\* status of a reply is one the handlers send.
THEOREM ProxyTypeCorrect == Spec => []TypeOK
<1>1. Typed => TypeOK
  BY DEF Typed
<1> QED
  BY <1>1, TypedAlways, PTL

-------------------------------------------------------------------------------
(***************************************************************************)
(* What is served.  A run is in the database before its answer leaves the  *)
(* service; a request that is over changes no more, so what was true when  *)
(* its run was put into the cache stays true for whoever hits it.          *)
(***************************************************************************)

\* How far the call of a request is, seen from its handler.
Progress ==
  \A r \in Requests :
    /\ pc[r] \in {"new", "looking"} => job[r] = "none"
    /\ pc[r] = "storing" => job[r] = "answered" /\ verdict[r] = "good"
    /\ job[r] = "stored" => r \in runs
    /\ job[r] = "answered" /\ verdict[r] = "good" => r \in runs
    /\ r \in runs => job[r] \in {"stored", "answered", "gone"}
    /\ reply[r].status # 0 => pc[r] = "done"

\* x answered its own request, unless that died.
Kept(x) == reply[x].status = 200 \/ pc[x] = "gone"

\* Run x may be served for key k.
Servable(x, k) == x \in runs /\ key[x] = k /\ Kept(x)

Served ==
  /\ \A r \in Requests : reply[r].status = 200 => Servable(reply[r].run, key[r])
  /\ \A k \in Keys : cache[k] # Nothing => Servable(cache[k].run, k)

\* Ages: of a call, of what it read, and of what waits to be stored.
Ages ==
  \A r \in Requests :
    /\ pc[r] = "waiting" => now - asked[r] <= Timeout
    /\ job[r] \in {"computed", "stored", "answered"} => asked[r] <= readAt[r]
    /\ pc[r] = "storing" => now - readAt[r] <= Timeout + outage

ProxyInv == Typed /\ Progress /\ Served /\ Ages /\ BoundedStaleness

\* Only a good answer has status 200.
LEMMA StatusGood == ASSUME NEW r, Status(r) = 200 PROVE verdict[r] = "good"
<1>1. ASSUME verdict[r] = "not found" PROVE FALSE
  <2>1. Status(r) = 404
    BY <1>1, Zenon DEF Status
  <2> QED
    BY <2>1
<1>2. ASSUME verdict[r] = "no routes" PROVE FALSE
  <2>1. Status(r) = 503
    BY <1>2, Zenon DEF Status
  <2> QED
    BY <2>1
<1>3. ASSUME verdict[r] \notin {"good", "not found", "no routes"} PROVE FALSE
  <2>1. Status(r) = 500
    BY <1>3, Zenon DEF Status
  <2> QED
    BY <2>1
<1> QED
  BY <1>1, <1>2, <1>3, Zenon

LEMMA ProgressStep == ASSUME Typed, Progress, [Next]_vars PROVE Progress'
<1>1. ASSUME NEW r \in Requests, Arrive(r) PROVE Progress'
  BY <1>1 DEF Arrive, Reply, world, service, Typed, TypeOK, Progress
<1>2. ASSUME NEW r \in Requests, LookUp(r) PROVE Progress'
  <2>1. r \notin runs /\ job[r] = "none" /\ reply[r].status = 0
    BY <1>2 DEF LookUp, Progress
  <2>2. CASE /\ Reply(r, 200, cache[key[r]].run)
             /\ UNCHANGED <<asked, job>>
    BY <1>2, <2>1, <2>2 DEF LookUp, Reply, Typed, TypeOK, Progress
  <2>3. CASE /\ pc' = [pc EXCEPT ![r] = "waiting"]
             /\ job' = [job EXCEPT ![r] = "called"]
             /\ UNCHANGED reply
    BY <1>2, <2>1, <2>3 DEF LookUp, Typed, TypeOK, Progress
  <2> QED
    BY <1>2, <2>2, <2>3 DEF LookUp
<1>3. ASSUME NEW r \in Requests, Receive(r) PROVE Progress'
  <2>1. Status(r) = 200 => verdict[r] = "good"
    BY StatusGood
  <2> QED
    BY <1>3, <2>1 DEF Receive, Reply, service, Typed, TypeOK, Progress
<1>4. ASSUME NEW r \in Requests,
             Store(r) \/ StoreRefused(r) \/ TimeOut(r) \/ CallFails(r) \/ BackendDies(r)
      PROVE  Progress'
  BY <1>4 DEF Store, StoreRefused, TimeOut, CallFails, BackendDies, Reply, service, Typed, TypeOK,
     Progress
<1>5. ASSUME NEW r \in Requests, Read(r) PROVE Progress'
  <2>1. PICK v \in Verdicts[Endpoint(r)] :
          /\ verdict' = [verdict EXCEPT ![r] = v]
          /\ job' = [job EXCEPT ![r] = IF v \in {"good", "nan"} THEN "computed" ELSE "answered"]
    BY <1>5 DEF Read
  <2> QED
    BY <1>5, <2>1 DEF Read, handlers, Typed, TypeOK, Progress
<1>6. ASSUME NEW r \in Requests, WriteRun(r) \/ WriteFails(r) \/ Respond(r) PROVE Progress'
  BY <1>6 DEF WriteRun, WriteFails, Respond, handlers, Typed, TypeOK, Progress
<1>7. ASSUME NEW e \in {"forecast", "optimize"}, ServiceDies(e) PROVE Progress'
  BY <1>7 DEF ServiceDies, handlers, Typed, TypeOK, Progress
<1>8. CASE UNCHANGED <<pc, reply, job, verdict, runs>>
  BY <1>8 DEF Progress
<1> QED
  BY <1>1, <1>2, <1>3, <1>4, <1>5, <1>6, <1>7, <1>8 DEF Next, Handle, Serve, vars, handlers,
     service, Tick, RedisDown, RedisBack

\* A run that may be served for a key may be for ever; when it was read does not change.
LEMMA ServableStays ==
  ASSUME Typed, Progress, [Next]_vars, NEW x \in Requests, NEW k, Servable(x, k)
  PROVE  Servable(x, k)' /\ readAt'[x] = readAt[x]
<1>1. /\ pc[x] \in {"done", "gone"} /\ job[x] \in {"stored", "answered", "gone"}
      /\ x \in runs /\ key[x] = k /\ Kept(x)
  BY DEF Servable, Kept, Progress
<1>2. ASSUME NEW r \in Requests, Arrive(r) \/ LookUp(r) \/ Receive(r) \/ Store(r)
               \/ StoreRefused(r) \/ TimeOut(r) \/ CallFails(r)
      PROVE  Servable(x, k)' /\ readAt'[x] = readAt[x]
  <2>1. r # x
    BY <1>1, <1>2 DEF Arrive, LookUp, Receive, Store, StoreRefused, TimeOut, CallFails
  <2>2. key'[x] = key[x] /\ pc'[x] = pc[x] /\ reply'[x] = reply[x] /\ UNCHANGED <<runs, readAt>>
    BY <1>2, <2>1 DEF Arrive, LookUp, Receive, Store, StoreRefused, TimeOut, CallFails, Reply,
       service, Typed, TypeOK
  <2> QED
    BY <1>1, <2>2 DEF Servable, Kept
<1>3. ASSUME NEW r \in Requests, BackendDies(r)
      PROVE  Servable(x, k)' /\ readAt'[x] = readAt[x]
  BY <1>1, <1>3 DEF BackendDies, service, Servable, Kept, Typed, TypeOK
<1>4. ASSUME NEW r \in Requests, Read(r) \/ WriteRun(r) \/ WriteFails(r) \/ Respond(r)
      PROVE  Servable(x, k)' /\ readAt'[x] = readAt[x]
  BY <1>1, <1>4 DEF Read, WriteRun, WriteFails, Respond, handlers, Servable, Kept, Typed, TypeOK
<1>5. CASE UNCHANGED <<key, pc, reply, runs, readAt>>
  BY <1>1, <1>5 DEF Servable, Kept
<1> QED
  BY <1>2, <1>3, <1>4, <1>5 DEF Next, Handle, Serve, vars, handlers, service, ServiceDies, Tick,
     RedisDown, RedisBack

\* An entry is what it was, or gone, or has just been stored for a TTL.
LEMMA EntryStep ==
  ASSUME Typed, [Next]_vars, NEW k \in Keys
  PROVE  \/ cache'[k] = cache[k]
         \/ cache'[k] = Nothing
         \/ \E r \in Requests :
              /\ pc[r] = "storing" /\ key[r] = k /\ (Store(r) \/ BackendDies(r))
              /\ cache'[k] = [run |-> r, expires |-> now + TTL]
<1>1. ASSUME NEW r \in Requests, Store(r) \/ BackendDies(r),
             cache' = [cache EXCEPT ![key[r]] = [run |-> r, expires |-> now + TTL]],
             pc[r] = "storing"
      PROVE  \/ cache'[k] = cache[k]
             \/ /\ key[r] = k
                /\ cache'[k] = [run |-> r, expires |-> now + TTL]
  BY <1>1 DEF Typed, TypeOK
<1>2. CASE cache' = [j \in Keys |-> Nothing]
  BY <1>2
<1>3. CASE UNCHANGED cache
  BY <1>3
<1> QED
  BY <1>1, <1>2, <1>3 DEF Next, Handle, Serve, vars, Arrive, LookUp, Receive, Store, StoreRefused,
     TimeOut, CallFails, BackendDies, Read, WriteRun, WriteFails, Respond, ServiceDies, Tick,
     RedisDown, RedisBack

\* So is a reply: what it was, an error, a hit, or the run just stored.
LEMMA ReplyStep ==
  ASSUME Typed, [Next]_vars, NEW r \in Requests, reply'[r].status = 200
  PROVE  /\ reply'[r] # reply[r] => now' = now /\ outage' = outage
         /\ \/ reply'[r] = reply[r] /\ (key'[r] = key[r] \/ pc[r] = "new")
            \/ /\ key[r] \in Keys /\ key'[r] = key[r] /\ Hit(key[r])
               /\ reply'[r] = [status |-> 200, run |-> cache[key[r]].run, at |-> now]
            \/ /\ key[r] \in Keys /\ Store(r)
               /\ reply'[r] = [status |-> 200, run |-> r, at |-> now]
<1>1. ASSUME NEW q \in Requests, Arrive(q)
      PROVE  reply'[r] = reply[r] /\ (key'[r] = key[r] \/ pc[r] = "new")
  BY <1>1 DEF Arrive, Reply, Typed, TypeOK
<1>2. ASSUME NEW q \in Requests, LookUp(q)
      PROVE  /\ key' = key /\ now' = now /\ outage' = outage
             /\ \/ reply'[r] = reply[r]
                \/ /\ key[r] \in Keys /\ Hit(key[r])
                   /\ reply'[r] = [status |-> 200, run |-> cache[key[r]].run, at |-> now]
  BY <1>2 DEF LookUp, Reply, world, Typed, TypeOK, KeyKnown
<1>3. ASSUME NEW q \in Requests, Store(q)
      PROVE  /\ key' = key /\ now' = now /\ outage' = outage
             /\ \/ reply'[r] = reply[r]
                \/ /\ key[r] \in Keys /\ q = r
                   /\ reply'[r] = [status |-> 200, run |-> r, at |-> now]
  BY <1>3 DEF Store, Reply, world, Typed, TypeOK, KeyKnown
<1>4. ASSUME NEW q \in Requests, Receive(q) \/ StoreRefused(q) \/ TimeOut(q) \/ CallFails(q)
      PROVE  reply'[r] = reply[r] /\ key' = key
  <2>1. Status(q) # 200 => OnError(q, Status(q)) # 200
    BY DEF OnError
  <2> QED
    BY <1>4, <2>1 DEF Receive, StoreRefused, TimeOut, CallFails, Reply, Typed, TypeOK
<1>5. CASE UNCHANGED <<key, reply>>
  BY <1>5
<1> QED
  BY <1>1, <1>2, <1>3, <1>4, <1>5 DEF Next, Handle, Serve, vars, handlers, BackendDies, Read,
     WriteRun, WriteFails, Respond, ServiceDies, Tick, RedisDown, RedisBack

\* Servable after the step.
ServableNext(x, k) == x \in runs' /\ key'[x] = k /\ (reply'[x].status = 200 \/ pc'[x] = "gone")

LEMMA ServedStep == ASSUME Typed, Progress, Progress', Served, [Next]_vars PROVE Served'
<1>1. Typed'
  BY TypeStep
<1>2. ASSUME NEW k \in Keys, cache'[k] # Nothing PROVE ServableNext(cache'[k].run, k)
  <2>1. CASE cache'[k] = cache[k]
    <3>1. Servable(cache[k].run, k) /\ cache[k].run \in Requests
      BY <1>2, <2>1 DEF Served, Typed, TypeOK
    <3> QED
      BY <2>1, <3>1, ServableStays DEF Servable, Kept, ServableNext
  <2>2. ASSUME NEW r \in Requests, pc[r] = "storing", key[r] = k, Store(r) \/ BackendDies(r),
               cache'[k] = [run |-> r, expires |-> now + TTL]
        PROVE  ServableNext(cache'[k].run, k)
    <3>1. r \in runs /\ runs' = runs /\ key' = key
      BY <2>2 DEF Progress, Store, BackendDies, service
    <3>2. reply'[r].status = 200 \/ pc'[r] = "gone"
      BY <2>2 DEF Store, BackendDies, Reply, Typed, TypeOK
    <3>3. cache'[k].run = r
      BY <2>2
    <3> QED
      BY <2>2, <3>1, <3>2, <3>3 DEF ServableNext
  <2> QED
    BY <1>2, <2>1, <2>2, EntryStep
<1>3. ASSUME NEW r \in Requests, reply'[r].status = 200 PROVE ServableNext(reply'[r].run, key'[r])
  <2>1. CASE reply'[r] = reply[r] /\ (key'[r] = key[r] \/ pc[r] = "new")
    <3>1. Servable(reply[r].run, key[r]) /\ pc[r] = "done"
      BY <1>3, <2>1 DEF Served, Progress
    <3>2. reply[r].run \in Requests
      BY <3>1 DEF Servable, Typed, TypeOK
    <3> QED
      BY <2>1, <3>1, <3>2, ServableStays DEF Servable, Kept, ServableNext
  <2>2. CASE /\ key[r] \in Keys /\ key'[r] = key[r] /\ Hit(key[r])
             /\ reply'[r] = [status |-> 200, run |-> cache[key[r]].run, at |-> now]
    <3>1. Servable(cache[key[r]].run, key[r]) /\ cache[key[r]].run \in Requests
      BY <2>2, TypeHit DEF Served, Hit, Typed
    <3>2. reply'[r].run = cache[key[r]].run
      BY <2>2
    <3> QED
      BY <2>2, <3>1, <3>2, ServableStays DEF Servable, Kept, ServableNext
  <2>3. CASE /\ key[r] \in Keys /\ Store(r)
             /\ reply'[r] = [status |-> 200, run |-> r, at |-> now]
    <3>1. r \in runs /\ runs' = runs /\ key' = key
      BY <2>3 DEF Progress, Store, service
    <3>2. reply'[r].run = r
      BY <2>3
    <3> QED
      BY <1>3, <3>1, <3>2 DEF ServableNext
  <2> QED
    BY <1>3, <2>1, <2>2, <2>3, ReplyStep
<1> QED
  BY <1>2, <1>3 DEF Served, Servable, Kept, ServableNext

LEMMA AgesStep == ASSUME Typed, Progress, Ages, [Next]_vars PROVE Ages'
<1> USE Bounds
<1>1. now \in Nat /\ outage \in Nat
  BY DEF Typed, TypeOK
<1>2. ASSUME NEW r \in Requests PROVE asked[r] \in Nat /\ readAt[r] \in Nat
  BY <1>1 DEF Typed, TypeOK
<1>3. ASSUME NEW r \in Requests, LookUp(r) PROVE Ages'
  <2>1. job[r] = "none" /\ pc[r] = "looking" /\ now' = now /\ outage' = outage
    BY <1>3 DEF LookUp, Progress, world
  <2> QED
    BY <1>1, <1>2, <1>3, <2>1 DEF LookUp, Reply, Typed, TypeOK, Ages
<1>4. ASSUME NEW r \in Requests, Receive(r) PROVE Ages'
  <2>1. now - asked[r] <= Timeout /\ asked[r] <= readAt[r]
    BY <1>4 DEF Receive, Ages
  <2>2. now - readAt[r] <= Timeout + outage
    BY <1>1, <1>2, <2>1
  <2> QED
    BY <1>1, <1>2, <1>4, <2>2 DEF Receive, Reply, world, service, Typed, TypeOK, Ages
<1>5. ASSUME NEW r \in Requests, Arrive(r) \/ Store(r) \/ StoreRefused(r) \/ TimeOut(r)
               \/ CallFails(r) \/ BackendDies(r)
      PROVE  Ages'
  BY <1>5 DEF Arrive, Store, StoreRefused, TimeOut, CallFails, BackendDies, Reply, world, service,
     Typed, TypeOK, Ages
<1>6. ASSUME NEW r \in Requests, Read(r) PROVE Ages'
  <2>1. /\ pc[r] # "storing" /\ asked[r] <= now /\ UNCHANGED <<pc, asked, now, outage>>
        /\ readAt' = [readAt EXCEPT ![r] = now]
        /\ \A q \in Requests : q # r => job'[q] = job[q]
    BY <1>1, <1>6 DEF Read, Progress, Typed, TypeOK, world, handlers
  <2> QED
    BY <1>1, <1>2, <2>1 DEF Typed, TypeOK, Ages
<1>7. ASSUME NEW r \in Requests, WriteRun(r) \/ WriteFails(r) \/ Respond(r) PROVE Ages'
  BY <1>7 DEF WriteRun, WriteFails, Respond, world, handlers, Typed, TypeOK, Ages
<1>8. ASSUME NEW e \in {"forecast", "optimize"}, ServiceDies(e) PROVE Ages'
  BY <1>8 DEF ServiceDies, world, handlers, Typed, TypeOK, Ages
<1>9. CASE Tick
  <2>1. /\ now' = now + 1 /\ UNCHANGED <<pc, asked, readAt, job>>
        /\ \A r \in Requests : pc[r] = "waiting" => now - asked[r] < Timeout
        /\ \A r \in Requests : pc[r] = "storing" => outage' = outage + 1
    BY <1>9 DEF Tick, handlers, service
  <2>2. ASSUME NEW r \in Requests, pc[r] = "waiting" PROVE now' - asked[r] <= Timeout
    BY <1>1, <1>2, <2>1, <2>2
  <2>3. ASSUME NEW r \in Requests, pc[r] = "storing" PROVE now' - readAt[r] <= Timeout + outage'
    <3>1. now - readAt[r] <= Timeout + outage /\ outage' = outage + 1
      BY <2>1, <2>3 DEF Ages
    <3> QED
      BY <1>1, <1>2, <2>1, <3>1
  <2> QED
    BY <2>1, <2>2, <2>3 DEF Ages
<1>10. CASE UNCHANGED <<now, outage, pc, asked, readAt, job>>
  BY <1>10 DEF Ages
<1> QED
  BY <1>3, <1>4, <1>5, <1>6, <1>7, <1>8, <1>9, <1>10 DEF Next, Handle, Serve, vars, world, handlers,
     service, RedisDown, RedisBack

\* What is served has waited for its TTL at most, since it was stored, and was then no older than
\* Ages says.
LEMMA StalenessStep ==
  ASSUME Typed, Progress, Served, Ages, BoundedStaleness, [Next]_vars PROVE BoundedStaleness'
<1> USE Bounds
<1>1. Typed' /\ Served'
  <2>1. Progress'
    BY ProgressStep
  <2> QED
    BY <2>1, TypeStep, ServedStep
<1>2. now \in Nat /\ outage \in Nat /\ outage' \in Nat /\ outage <= outage'
  <2>1. outage' = outage \/ outage' = outage + 1
    BY DEF Next, Handle, Serve, vars, world, Arrive, LookUp, Receive, Store, StoreRefused, TimeOut,
       CallFails, BackendDies, Read, WriteRun, WriteFails, Respond, ServiceDies, Tick, RedisDown,
       RedisBack
  <2> QED
    BY <2>1 DEF Typed, TypeOK
<1>3. ASSUME NEW x \in Requests PROVE readAt[x] \in Nat
  BY DEF Typed, TypeOK
<1>4. ASSUME NEW k \in Keys, cache'[k] # Nothing
      PROVE  cache'[k].expires - readAt'[cache'[k].run] <= Timeout + TTL + outage'
  <2>1. CASE cache'[k] = cache[k]
    <3>1. /\ cache[k].run \in Requests /\ Servable(cache[k].run, k)
          /\ cache[k].expires \in Nat
          /\ cache[k].expires - readAt[cache[k].run] <= Timeout + TTL + outage
      BY <1>2, <1>4, <2>1 DEF Served, BoundedStaleness, Typed, TypeOK
    <3>2. readAt'[cache[k].run] = readAt[cache[k].run]
      BY <3>1, ServableStays
    <3> QED
      BY <1>2, <1>3, <2>1, <3>1, <3>2
  <2>2. ASSUME NEW r \in Requests, pc[r] = "storing", key[r] = k, Store(r) \/ BackendDies(r),
               cache'[k] = [run |-> r, expires |-> now + TTL]
        PROVE  cache'[k].expires - readAt'[cache'[k].run] <= Timeout + TTL + outage'
    <3>1. cache'[k].run = r /\ cache'[k].expires = now + TTL
      BY <2>2
    <3>2. readAt' = readAt /\ now - readAt[r] <= Timeout + outage
      BY <2>2 DEF Store, BackendDies, service, Ages
    <3> QED
      BY <1>2, <1>3, <3>1, <3>2
  <2> QED
    BY <1>4, <2>1, <2>2, EntryStep
<1>5. ASSUME NEW r \in Requests, reply'[r].status = 200
      PROVE  reply'[r].at - readAt'[reply'[r].run] <= Timeout + TTL + outage'
  <2>1. CASE reply'[r] = reply[r]
    <3>1. /\ Servable(reply[r].run, key[r]) /\ reply[r].at \in Nat
          /\ reply[r].at - readAt[reply[r].run] <= Timeout + TTL + outage
      BY <1>2, <1>5, <2>1 DEF Served, BoundedStaleness, Typed, TypeOK
    <3>2. reply[r].run \in Requests
      BY <3>1 DEF Servable, Typed, TypeOK
    <3>3. readAt'[reply[r].run] = readAt[reply[r].run]
      BY <3>1, <3>2, ServableStays
    <3> QED
      BY <1>2, <1>3, <2>1, <3>1, <3>2, <3>3
  <2>2. CASE /\ key[r] \in Keys /\ Hit(key[r])
             /\ reply'[r] = [status |-> 200, run |-> cache[key[r]].run, at |-> now]
    <3> DEFINE x == cache[key[r]].run
    <3>1. /\ x \in Requests /\ Servable(x, key[r]) /\ now < cache[key[r]].expires
          /\ cache[key[r]].expires \in Nat
          /\ cache[key[r]].expires - readAt[x] <= Timeout + TTL + outage
      BY <1>2, <2>2, TypeHit DEF Served, Hit, Typed, BoundedStaleness
    <3>2. readAt'[x] = readAt[x]
      BY <3>1, ServableStays
    <3>3. reply'[r].run = x /\ reply'[r].at = now
      BY <2>2
    <3> HIDE DEF x
    <3> QED
      BY <1>2, <1>3, <3>1, <3>2, <3>3
  <2>3. CASE Store(r) /\ reply'[r] = [status |-> 200, run |-> r, at |-> now]
    <3>1. reply'[r].run = r /\ reply'[r].at = now
      BY <2>3
    <3>2. readAt' = readAt /\ now - readAt[r] <= Timeout + outage
      BY <2>3 DEF Store, service, Ages
    <3> QED
      BY <1>2, <1>3, <3>1, <3>2
  <2> QED
    BY <1>5, <2>1, <2>2, <2>3, ReplyStep
<1> QED
  BY <1>4, <1>5 DEF BoundedStaleness

LEMMA ProxyInvInit == Init => ProxyInv
  BY TypedInit DEF Init, ProxyInv, Progress, Served, Ages, BoundedStaleness

LEMMA ProxyInvAlways == Spec => []ProxyInv
<1>1. ProxyInv /\ [Next]_vars => ProxyInv'
  BY TypeStep, ProgressStep, ServedStep, AgesStep, StalenessStep DEF ProxyInv
<1> QED
  BY <1>1, ProxyInvInit, PTL DEF Spec

\* Whatever fails and however calls overlap: what is answered with 200, and what the cache may
\* answer, is a run in the database that was asked for with the same key and whose own request was
\* answered, unless the instance died with it.
THEOREM ServedRunsAreStored == Spec => []ServedIsStored
<1>1. ProxyInv => ServedIsStored
  BY DEF ProxyInv, Served, Servable, Kept, ServedIsStored
<1> QED
  BY <1>1, ProxyInvAlways, PTL

\* For every TTL and time-out: no answer is older than a call, a TTL and the time for which Redis
\* was down, and no entry can come to be.
THEOREM StalenessIsBounded == Spec => []BoundedStaleness
<1>1. ProxyInv => BoundedStaleness
  BY DEF ProxyInv
<1> QED
  BY <1>1, ProxyInvAlways, PTL
================================================================================

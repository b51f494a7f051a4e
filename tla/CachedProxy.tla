---------------------------- MODULE CachedProxy ----------------------------
(***************************************************************************)
(* POST /api/forecast and POST /api/optimize/route of the backend          *)
(* (routes/forecast.ts, routes/optimize.ts), the Redis cache they share    *)
(* and the two services behind them (ml-forecast, ml-optimize), which      *)
(* compute an answer and store it as a run.                                *)
(*                                                                         *)
(* Requests are handled concurrently, by any instance of the backend; a    *)
(* request is a state machine whose steps are the awaits of its handler.   *)
(* Its call at the service, job[r], has a life of its own: it goes on when *)
(* the handler has given up.  A run is named by the request it is for.     *)
(* What an answer holds is abstracted to when its data were read.          *)
(* A command to Redis waits while Redis is down (maxRetriesPerRequest is   *)
(* null, server.ts:38), and otherwise takes less than a tick of the clock. *)
(***************************************************************************)
EXTENDS Naturals, FiniteSets

CONSTANTS
  Requests,      \* requests that arrive
  Keys,          \* cache keys, one for each route and parsed body
  EndpointOf,    \* key |-> "forecast" or "optimize"
  Verdicts,      \* endpoint |-> how the service may find its data: see Read
  TTL,           \* CACHE_TTL_SEC
  Timeout,       \* headersTimeout and bodyTimeout of undici, 300 s
  LastArrival,   \* bound: no request arrives later
  MaxOutage,     \* bound: ticks during which Redis is down
  MaxFaults,     \* bound: other failures of the environment
  Nothing        \* no entry in the cache, no run in an answer

ASSUME ProxyAssumption ==
  /\ TTL \in Nat \ {0} /\ Timeout \in Nat \ {0}
  /\ LastArrival \in Nat /\ MaxOutage \in Nat /\ MaxFaults \in Nat
  /\ EndpointOf \in [Keys -> {"forecast", "optimize"}]
  /\ Nothing \notin Requests \cup Keys

VARIABLES
  now,
  key,      \* request |-> the key its body makes, when it has arrived
  pc,       \* request |-> the await its handler is at
  asked,    \* request |-> when its handler called the service
  reply,    \* request |-> [status, run, at]
  job,      \* request |-> its call at the service
  verdict,  \* request |-> what the service found
  readAt,   \* request |-> when the service read its data
  runs,     \* rows of forecasts and optimization_runs, by run
  cache,    \* key |-> [run, expires] or Nothing
  redisUp, outage,   \* is Redis up; for how many ticks it has been down
  faults

vars == <<now, key, pc, asked, reply, job, verdict, readAt, runs, cache, redisUp, outage, faults>>
handlers == <<key, pc, asked, reply>>
service  == <<job, verdict, readAt, runs>>
world    == <<now, redisUp, outage>>

MaxTime == LastArrival + MaxOutage + Timeout + 1
Endpoint(r) == EndpointOf[key[r]]

Init ==
  /\ now = 0
  /\ key = [r \in Requests |-> Nothing]
  /\ pc = [r \in Requests |-> "new"]
  /\ asked = [r \in Requests |-> 0]
  /\ reply = [r \in Requests |-> [status |-> 0, run |-> Nothing, at |-> 0]]
  /\ job = [r \in Requests |-> "none"]
  /\ verdict = [r \in Requests |-> "none"]
  /\ readAt = [r \in Requests |-> 0]
  /\ runs = {}
  /\ cache = [k \in Keys |-> Nothing]
  /\ redisUp = TRUE /\ outage = 0 /\ faults = 0

----------------------------------------------------------------------------
(* The handler. *)

Reply(r, status, run) ==
  /\ pc' = [pc EXCEPT ![r] = "done"]
  /\ reply' = [reply EXCEPT ![r] = [status |-> status, run |-> run, at |-> now]]

\* safeParse refuses the body, or the handler awaits redis.get.
Arrive(r) ==
  /\ pc[r] = "new" /\ now <= LastArrival
  /\ \/ Reply(r, 400, Nothing) /\ UNCHANGED key
     \/ /\ \E k \in Keys : key' = [key EXCEPT ![r] = k]
        /\ pc' = [pc EXCEPT ![r] = "looking"]
        /\ UNCHANGED reply
  /\ UNCHANGED <<world, asked, service, cache, faults>>

Hit(k) == cache[k] # Nothing /\ now < cache[k].expires

\* Faulty variant of LookUp: a hit renews the entry.
LookUpRenewing(r) ==
  /\ pc[r] = "looking" /\ redisUp
  /\ IF Hit(key[r])
     THEN /\ Reply(r, 200, cache[key[r]].run)
          /\ cache' = [cache EXCEPT ![key[r]].expires = now + TTL]
          /\ UNCHANGED <<asked, job>>
     ELSE /\ pc' = [pc EXCEPT ![r] = "waiting"]
          /\ asked' = [asked EXCEPT ![r] = now]
          /\ job' = [job EXCEPT ![r] = "called"]
          /\ UNCHANGED <<reply, cache>>
  /\ UNCHANGED <<world, key, verdict, readAt, runs, faults>>

\* redis.get: a hit is answered at once, a miss calls the service.
LookUp(r) ==
  /\ pc[r] = "looking" /\ redisUp
  /\ IF Hit(key[r])
     THEN /\ Reply(r, 200, cache[key[r]].run)
          /\ UNCHANGED <<asked, job>>
     ELSE /\ pc' = [pc EXCEPT ![r] = "waiting"]
          /\ asked' = [asked EXCEPT ![r] = now]
          /\ job' = [job EXCEPT ![r] = "called"]
          /\ UNCHANGED reply
  /\ UNCHANGED <<world, key, verdict, readAt, runs, cache, faults>>

\* Both schemas hold of what the services send, but for one member: generatedAt is
\* datetime.now(timezone.utc).isoformat(), which ends in +00:00, and z.string().datetime()
\* takes no offset, only Z.
Isoformat       == "offset"
ZodDatetime     == {"zulu"}
Validated(r)    == Endpoint(r) = "optimize" \/ Isoformat \in ZodDatetime

\* The service's status is passed on by one route and made a 502 by the other.
OnError(r, status) == IF Endpoint(r) = "optimize" THEN status ELSE 502

Status(r) ==
  CASE verdict[r] = "good"       -> 200
    [] verdict[r] = "not found"  -> 404
    [] verdict[r] = "no routes"  -> 503
    [] OTHER                     -> 500

\* The answer of the service: only a good one goes on to redis.set.
Receive(r) ==
  /\ pc[r] = "waiting" /\ job[r] = "answered"
  /\ IF Status(r) # 200 THEN Reply(r, OnError(r, Status(r)), Nothing)
     ELSE IF ~Validated(r) THEN Reply(r, 502, Nothing)
     ELSE pc' = [pc EXCEPT ![r] = "storing"] /\ UNCHANGED reply
  /\ UNCHANGED <<world, key, asked, service, cache, faults>>

\* Faulty variant of Store: the entry lives for a TTL more.
StoreForLonger(r) ==
  /\ pc[r] = "storing" /\ redisUp
  /\ cache' = [cache EXCEPT ![key[r]] = [run |-> r, expires |-> now + 2 * TTL]]
  /\ Reply(r, 200, r)
  /\ UNCHANGED <<world, key, asked, service, faults>>

\* redis.set with EX, then the answer.
Store(r) ==
  /\ pc[r] = "storing" /\ redisUp
  /\ cache' = [cache EXCEPT ![key[r]] = [run |-> r, expires |-> now + TTL]]
  /\ Reply(r, 200, r)
  /\ UNCHANGED <<world, key, asked, service, faults>>

\* redis.set answers with an error (out of memory, read-only): the good answer is lost.
StoreRefused(r) ==
  /\ pc[r] = "storing" /\ redisUp /\ faults < MaxFaults
  /\ faults' = faults + 1
  /\ Reply(r, 503, Nothing)
  /\ UNCHANGED <<world, key, asked, service, cache>>

\* Faulty variant of TimeOut: the clock stops once the service has computed the answer.
TimeOutWhileComputing(r) ==
  /\ pc[r] = "waiting" /\ now - asked[r] >= Timeout
  /\ job[r] = "called"
  /\ Reply(r, 503, Nothing)
  /\ UNCHANGED <<world, key, asked, service, cache, faults>>

\* undici gives up, or the connection to the service breaks.
TimeOut(r) ==
  /\ pc[r] = "waiting" /\ now - asked[r] >= Timeout
  /\ Reply(r, 503, Nothing)
  /\ UNCHANGED <<world, key, asked, service, cache, faults>>

CallFails(r) ==
  /\ pc[r] = "waiting" /\ job[r] = "gone"
  /\ Reply(r, 503, Nothing)
  /\ UNCHANGED <<world, key, asked, service, cache, faults>>

\* The instance dies with the request.  What it asked of the service goes on, and a
\* redis.set on its way may arrive.
BackendDies(r) ==
  /\ pc[r] \in {"looking", "waiting", "storing"} /\ faults < MaxFaults
  /\ faults' = faults + 1
  /\ pc' = [pc EXCEPT ![r] = "gone"]
  /\ \/ UNCHANGED cache
     \/ /\ pc[r] = "storing" /\ redisUp
        /\ cache' = [cache EXCEPT ![key[r]] = [run |-> r, expires |-> now + TTL]]
  /\ UNCHANGED <<world, key, asked, reply, service>>

----------------------------------------------------------------------------
(* The services. *)

\* The data are read and the answer is computed from them.  A "good" one is answered; data
\* may be missing ("not found", and "no routes" of ml-optimize); hubs without a path raise
\* in ml-optimize ("raises", see RouteOptimizer!NoPathRaised); and a history of one hour
\* has a standard deviation that is not a number ("nan", forecaster.py:125).
Read(r) ==
  /\ job[r] = "called"
  /\ \E v \in Verdicts[Endpoint(r)] :
       /\ verdict' = [verdict EXCEPT ![r] = v]
       /\ job' = [job EXCEPT ![r] = IF v \in {"good", "nan"} THEN "computed" ELSE "answered"]
  /\ readAt' = [readAt EXCEPT ![r] = now]
  /\ UNCHANGED <<world, handlers, runs, cache, faults>>

\* Faulty variant of WriteRun: the answer does not wait for the row.
WriteRunLater(r) ==
  /\ job[r] = "computed"
  /\ job' = [job EXCEPT ![r] = "stored"]
  /\ UNCHANGED <<world, handlers, verdict, readAt, runs, cache, faults>>

\* write_forecast, INSERT INTO optimization_runs: in one transaction, before the answer.
WriteRun(r) ==
  /\ job[r] = "computed"
  /\ job' = [job EXCEPT ![r] = "stored"]
  /\ runs' = runs \cup {r}
  /\ UNCHANGED <<world, handlers, verdict, readAt, cache, faults>>

WriteFails(r) ==
  /\ job[r] = "computed" /\ faults < MaxFaults
  /\ faults' = faults + 1
  /\ job' = [job EXCEPT ![r] = "answered"]
  /\ verdict' = [verdict EXCEPT ![r] = "failed"]
  /\ UNCHANGED <<world, handlers, readAt, runs, cache>>

\* The answer is made into JSON, which has no way to write a number that is none.
Respond(r) ==
  /\ job[r] = "stored"
  /\ job' = [job EXCEPT ![r] = "answered"]
  /\ UNCHANGED <<world, handlers, verdict, readAt, runs, cache, faults>>

ServiceDies(e) ==
  /\ faults < MaxFaults
  /\ faults' = faults + 1
  /\ job' = [r \in Requests |-> IF job[r] \in {"called", "computed", "stored"} /\ Endpoint(r) = e
                                THEN "gone" ELSE job[r]]
  /\ UNCHANGED <<world, handlers, verdict, readAt, runs, cache>>

----------------------------------------------------------------------------
(* Time and Redis. *)

\* A handler that has waited Timeout gives up before more time passes, and so does a
\* command that a running Redis has to answer.
Tick ==
  /\ now < MaxTime
  /\ \A r \in Requests : pc[r] = "waiting" => now - asked[r] < Timeout
  /\ IF redisUp THEN /\ \A r \in Requests : pc[r] \notin {"looking", "storing"}
                     /\ UNCHANGED outage
     ELSE outage < MaxOutage /\ outage' = outage + 1
  /\ now' = now + 1
  /\ UNCHANGED <<redisUp, handlers, service, cache, faults>>

\* Redis goes, with what it holds or not, and comes back.
RedisDown ==
  /\ redisUp /\ faults < MaxFaults
  /\ faults' = faults + 1
  /\ redisUp' = FALSE
  /\ \/ UNCHANGED cache
     \/ cache' = [k \in Keys |-> Nothing]
  /\ UNCHANGED <<now, outage, handlers, service>>

RedisBack ==
  /\ ~redisUp
  /\ redisUp' = TRUE
  /\ UNCHANGED <<now, outage, handlers, service, cache, faults>>

Handle(r) == LookUp(r) \/ Receive(r) \/ Store(r) \/ TimeOut(r) \/ CallFails(r)
Serve(r)  == Read(r) \/ WriteRun(r) \/ Respond(r)

Next ==
  \/ \E r \in Requests : Arrive(r) \/ Handle(r) \/ Serve(r)
  \/ \E r \in Requests : StoreRefused(r) \/ WriteFails(r) \/ BackendDies(r)
  \/ \E e \in {"forecast", "optimize"} : ServiceDies(e)
  \/ Tick \/ RedisDown \/ RedisBack

Spec == Init /\ [][Next]_vars

(* The event loop runs every handler whose await is over, time passes, and *)
(* Redis is brought back.  The services may never answer.                  *)
FairSpec ==
  /\ Spec
  /\ \A r \in Requests : WF_vars(Handle(r))
  /\ WF_vars(Tick) /\ WF_vars(RedisBack)

----------------------------------------------------------------------------
(* Properties. *)

TypeOK ==
  /\ now \in 0..MaxTime
  /\ key \in [Requests -> Keys \cup {Nothing}]
  /\ pc \in [Requests -> {"new", "looking", "waiting", "storing", "done", "gone"}]
  /\ asked \in [Requests -> 0..now] /\ readAt \in [Requests -> 0..now]
  /\ reply \in [Requests -> [status : {0, 200, 400, 404, 500, 502, 503},
                             run : Requests \cup {Nothing}, at : 0..now]]
  /\ job \in [Requests -> {"none", "called", "computed", "stored", "answered", "gone"}]
  /\ runs \subseteq Requests
  /\ cache \in [Keys -> [run : Requests, expires : 0..(now + TTL)] \cup {Nothing}]
  /\ redisUp \in BOOLEAN /\ outage \in 0..MaxOutage /\ faults \in 0..MaxFaults

(* forecast.ts:9, optimize.ts:9, "short TTL": what is answered was read    *)
(* from the database no longer ago than a call and a TTL take, plus the    *)
(* time for which Redis was down; the same goes for what the cache may     *)
(* still answer.  A slow call that stores after a quicker one, a store     *)
(* that waits for Redis and a late answer of the service do not break the  *)
(* bound.                                                                  *)
BoundedStaleness ==
  LET bound == Timeout + TTL + outage
  IN  /\ \A r \in Requests : reply[r].status = 200 => reply[r].at - readAt[reply[r].run] <= bound
      /\ \A k \in Keys : cache[k] # Nothing => cache[k].expires - readAt[cache[k].run] <= bound

(* main.py:167 of ml-optimize, "Persist for observability": the run of     *)
(* every good answer, and of every cache entry, is in the database, was    *)
(* asked for with the same key, and was no failure to its own request,     *)
(* unless the instance died with it.                                       *)
ServedIsStored ==
  LET served == {<<key[r], reply[r].run>> : r \in {q \in Requests : reply[q].status = 200}}
      kept   == {<<k, cache[k].run>> : k \in {j \in Keys : cache[j] # Nothing}}
  IN  \A s \in served \cup kept :
        /\ s[2] \in runs
        /\ key[s[2]] = s[1]
        /\ reply[s[2]].status = 200 \/ pc[s[2]] = "gone"

(* Whatever fails, and whether the service answers or not, a request that  *)
(* came in ends: no await of the handler is for ever.                      *)
EveryRequestEnds ==
  \A r \in Requests : pc[r] = "looking" ~> pc[r] \in {"done", "gone"}

(* infra/k6/forecast-load.js:49 checks 'status 200 or 404' of every        *)
(* forecast, and line 7 expects cache hits: a forecast that the service    *)
(* made in time, with nothing failing, is answered with 200.  The code     *)
(* refuses every one of them: see Validated.                               *)
ForecastStatus ==
  \A r \in Requests :
    (/\ pc[r] = "done" /\ key[r] # Nothing /\ verdict[r] = "good"
     /\ reply[r].at - asked[r] < Timeout)
    => (Endpoint(r) = "forecast" => reply[r].status \in {200, 404})
============================================================================

------------------------------ MODULE Deployment ------------------------------
(***************************************************************************)
(* The processes of the API: how a container migrates the database, makes  *)
(* the bucket and starts to serve (db/migrate.ts, server.ts, lifecycle.ts, *)
(* ensureBucket of storage.ts), how it shuts down, and how requests to a   *)
(* limited route are counted (plugins/ratelimit.ts) across replicas,       *)
(* crashes and restarts. docker-compose.yml restarts a process that ended, *)
(* unless its container was stopped.                                       *)
(*                                                                         *)
(* All of it happens within one window of the limiter, 15 minutes, and the *)
(* requests come from one address. What a request does is in AuthService   *)
(* and NoteFiles. Postgres is up; object storage and Redis may go down.    *)
(***************************************************************************)
EXTENDS Naturals, FiniteSets

CONSTANTS
  Replicas,
  Redis,       \* the counter that replicas share when REDIS_URL is set
  Requests,
  None,
  Limit,       \* max of the route's config.rateLimit
  MaxFaults,   \* bound on crashes, kills and outages
  MaxSignals   \* bound on SIGINT and SIGTERM

ASSUME NamesAssumption == Redis \notin Replicas /\ None \notin Replicas
ASSUME RequestsAssumption == IsFiniteSet(Requests)
ASSUME BoundsAssumption == Limit \in Nat /\ MaxFaults \in Nat /\ MaxSignals \in Nat

VARIABLES
  schema,      \* the migrations have been applied
  bucket,      \* the bucket exists
  storageUp, redisUp,
  shared,      \* REDIS_URL is set
  proc,        \* where each replica's process is
  stopped,     \* containers that are not started again
  request,
  counter,     \* the limiter's counts in this window
  faults, signals,
  past         \* history: what the counters, and their failures, allow

world == <<schema, bucket, storageUp, redisUp>>
vars == <<world, shared, proc, stopped, request, counter, faults, signals, past>>

(***************************************************************************)
(* "migrating": migrate.js found migrations to apply. "head", "create":    *)
(* the two requests of ensureBucket. "bound": listen() done, the signal    *)
(* handlers not yet registered. "closing": in app.close(). "draining": in  *)
(* sql.end().                                                              *)
(***************************************************************************)
Stages == {"down", "migrating", "head", "create", "listen", "bound", "serving", "closing", "draining"}
Accepting == {"bound", "serving"}

\* waiting: its client still holds the connection. "limited": the limiter's hook
\* refused it. "cut": its handler was broken off.
Request == [pc : {"new", "running", "answered", "limited", "cut"},
            at : Replicas \cup {None}, waiting : BOOLEAN]
Through == {q \in Requests : request[q].pc \in {"running", "answered", "cut"}}
Running(r) == {q \in Requests : request[q].pc = "running" /\ request[q].at = r}
Connected(r) == {q \in Running(r) : request[q].waiting}

Counters == Replicas \cup {Redis}
\* allowed: Limit for every time the counter started from zero; unseen:
\* requests let through although Redis did not answer.
Past == [allowed : [Counters -> Nat], unseen : Nat]

Init ==
  /\ schema \in BOOLEAN /\ bucket \in BOOLEAN
  /\ storageUp = TRUE /\ redisUp = TRUE
  /\ shared \in BOOLEAN
  /\ proc = [r \in Replicas |-> "down"] /\ stopped = {}
  /\ request = [q \in Requests |-> [pc |-> "new", at |-> None, waiting |-> TRUE]]
  /\ counter = [c \in Counters |-> 0]
  /\ faults = 0 /\ signals = 0
  /\ past = [allowed |-> [c \in Counters |-> IF c = Redis THEN Limit ELSE 0], unseen |-> 0]

-----------------------------------------------------------------------------
(* Starting: CMD of the Dockerfile, migrate.ts, server.ts *)

\* The process of r gets from one stage to the next.
Advance(r, from, to) ==
  /\ proc[r] = from
  /\ proc' = [proc EXCEPT ![r] = to]

\* The container starts migrate.js, which has nothing to do if the schema is
\* there.
Start(r) ==
  /\ r \notin stopped
  /\ Advance(r, "down", IF schema THEN "head" ELSE "migrating")
  /\ UNCHANGED <<world, shared, stopped, request, counter, faults, signals, past>>

\* A replica that finds the migrations applied meanwhile goes on or fails.
Migrate(r) ==
  /\ \/ Advance(r, "migrating", "head") /\ schema' = TRUE
     \/ schema /\ Advance(r, "migrating", "down") /\ UNCHANGED schema
  /\ UNCHANGED <<bucket, storageUp, redisUp, shared, stopped, request, counter, faults, signals, past>>

\* HeadBucket: any error leads to CreateBucket.
\* Defect: the bucket is created without asking.
HeadNever(r) ==
  /\ Advance(r, "head", "create")
  /\ UNCHANGED <<world, shared, stopped, request, counter, faults, signals, past>>

Head(r) ==
  /\ Advance(r, "head", IF bucket /\ storageUp THEN "listen" ELSE "create")
  /\ UNCHANGED <<world, shared, stopped, request, counter, faults, signals, past>>

\* CreateBucket fails if storage is down, or another replica was faster; then
\* the process exits.
\* Defect: the error is logged and the process goes on.
CreateUnchecked(r) ==
  /\ Advance(r, "create", "listen")
  /\ bucket' = (bucket \/ storageUp)
  /\ UNCHANGED <<schema, storageUp, redisUp, shared, stopped, request, counter, faults, signals, past>>

Create(r) ==
  /\ \/ ~bucket /\ storageUp /\ bucket' = TRUE /\ Advance(r, "create", "listen")
     \/ (bucket \/ ~storageUp) /\ UNCHANGED bucket /\ Advance(r, "create", "down")
  /\ UNCHANGED <<schema, storageUp, redisUp, shared, stopped, request, counter, faults, signals, past>>

\* listen(): from here on requests come in. A counter in memory starts at zero.
\* If the port cannot be had, the process exits.
Listen(r) ==
  /\ \/ /\ Advance(r, "listen", "bound")
        /\ counter' = [counter EXCEPT ![r] = 0]
        /\ past' = [past EXCEPT !.allowed[r] = @ + Limit]
        /\ UNCHANGED faults
     \/ /\ Advance(r, "listen", "down")
        /\ faults < MaxFaults /\ faults' = faults + 1
        /\ UNCHANGED <<counter, past>>
  /\ UNCHANGED <<world, shared, stopped, request, signals>>

RegisterGracefulShutdown(r) ==
  /\ Advance(r, "bound", "serving")
  /\ UNCHANGED <<world, shared, stopped, request, counter, faults, signals, past>>

Boot(r) == Start(r) \/ Migrate(r) \/ Head(r) \/ Create(r) \/ Listen(r) \/ RegisterGracefulShutdown(r)

-----------------------------------------------------------------------------
(* Requests *)

\* Defect: every replica counts for itself, REDIS_URL or not.
CounterOfReplica(r) == r
CounterOf(r) == IF shared THEN Redis ELSE r

Pass(q, r) == request' = [request EXCEPT ![q].pc = "running", ![q].at = r]
Refuse(q) == request' = [request EXCEPT ![q].pc = "limited", ![q].waiting = FALSE]

\* The limiter's hook: a request is counted, and refused beyond the limit.
\* Defect: it is counted after the comparison.
CountLate(q, r) ==
  LET c == CounterOf(r)
  IN /\ counter' = [counter EXCEPT ![c] = @ + 1]
     /\ IF counter[c] <= Limit
        THEN Pass(q, r) ELSE Refuse(q)

Count(q, r) ==
  LET c == CounterOf(r)
  IN /\ counter' = [counter EXCEPT ![c] = @ + 1]
     /\ IF counter[c] + 1 <= Limit
        THEN Pass(q, r) ELSE Refuse(q)

\* Without Redis a request is let through if skipOnError holds, as ratelimit.ts
\* says of its default, and fails if it does not; the option is not set.
Arrive(q, r) ==
  /\ request[q].pc = "new" /\ proc[r] \in Accepting
  /\ IF shared /\ ~redisUp
     THEN /\ \/ Pass(q, r) /\ past' = [past EXCEPT !.unseen = @ + 1]
             \/ Refuse(q) /\ UNCHANGED past
          /\ UNCHANGED counter
     ELSE Count(q, r) /\ UNCHANGED past
  /\ UNCHANGED <<world, shared, proc, stopped, faults, signals>>

\* The client goes away: it gave up, or lost the connection. The handler runs on.
Leave(q) ==
  /\ request[q].pc = "running" /\ request[q].waiting
  /\ request' = [request EXCEPT ![q].waiting = FALSE]
  /\ UNCHANGED <<world, shared, proc, stopped, counter, faults, signals, past>>

\* The handler comes to its end; one whose next statement meets the ended pool
\* is broken off.
Finish(q) ==
  /\ request[q].pc = "running"
  /\ \E pc \in {"answered"} \cup (IF proc[request[q].at] = "draining" THEN {"cut"} ELSE {}) :
       request' = [request EXCEPT ![q].pc = pc, ![q].waiting = FALSE]
  /\ UNCHANGED <<world, shared, proc, stopped, counter, faults, signals, past>>

-----------------------------------------------------------------------------
(* Ending *)

\* The process of r is gone, and with it the requests it was busy with.
End(r) ==
  /\ proc' = [proc EXCEPT ![r] = "down"]
  /\ request' = [q \in Requests |->
       IF q \in Running(r) THEN [request[q] EXCEPT !.pc = "cut", !.waiting = FALSE] ELSE request[q]]

\* SIGTERM: 'docker stop' if it is for good. Before the handlers are there it
\* ends the process, or is ignored if that is the first of its container; a
\* second one changes nothing.
Signal(r, forGood) ==
  /\ proc[r] # "down" \/ forGood
  /\ signals < MaxSignals /\ signals' = signals + 1
  /\ stopped' = IF forGood THEN stopped \cup {r} ELSE stopped
  /\ CASE proc[r] = "serving" -> proc' = [proc EXCEPT ![r] = "closing"] /\ UNCHANGED request
       [] proc[r] \in {"closing", "draining"} -> UNCHANGED <<proc, request>>
       [] OTHER -> End(r) \/ UNCHANGED <<proc, request>>
  /\ UNCHANGED <<world, shared, counter, faults, past>>

\* app.close() waits for the connections with a request under way, not for
\* handlers whose client has gone.
\* Defect: it does not wait.
CloseAtOnce(r) ==
  /\ Advance(r, "closing", "draining")
  /\ UNCHANGED <<world, shared, stopped, request, counter, faults, signals, past>>

Close(r) ==
  /\ Connected(r) = {}
  /\ Advance(r, "closing", "draining")
  /\ UNCHANGED <<world, shared, stopped, request, counter, faults, signals, past>>

\* sql.end(), then process.exit(0), which breaks off what still runs.
\* Defect: nothing ends the process.
ExitNever(r) == UNCHANGED vars

Exit(r) ==
  /\ proc[r] = "draining"
  /\ End(r)
  /\ UNCHANGED <<world, shared, stopped, counter, faults, signals, past>>

\* A crash, or SIGKILL when the grace period of 'docker stop' is over.
Kill(r) ==
  /\ \/ r \in stopped /\ UNCHANGED faults
     \/ faults < MaxFaults /\ faults' = faults + 1
  /\ proc[r] # "down"
  /\ End(r)
  /\ UNCHANGED <<world, shared, stopped, counter, signals, past>>

Shutdown(r) == Close(r) \/ Exit(r)

-----------------------------------------------------------------------------
(* Outages *)

StorageFails ==
  /\ storageUp /\ faults < MaxFaults
  /\ storageUp' = FALSE /\ faults' = faults + 1
  /\ UNCHANGED <<schema, bucket, redisUp, shared, proc, stopped, request, counter, signals, past>>

StorageBack ==
  /\ ~storageUp /\ storageUp' = TRUE
  /\ UNCHANGED <<schema, bucket, redisUp, shared, proc, stopped, request, counter, faults, signals, past>>

RedisFails ==
  /\ redisUp /\ faults < MaxFaults
  /\ redisUp' = FALSE /\ faults' = faults + 1
  /\ UNCHANGED <<schema, bucket, storageUp, shared, proc, stopped, request, counter, signals, past>>

\* Redis persists nothing: it comes back empty, unless only the network failed.
RedisBack ==
  /\ ~redisUp /\ redisUp' = TRUE
  /\ \/ counter' = [counter EXCEPT ![Redis] = 0] /\ past' = [past EXCEPT !.allowed[Redis] = @ + Limit]
     \/ UNCHANGED <<counter, past>>
  /\ UNCHANGED <<schema, bucket, storageUp, shared, proc, stopped, request, faults, signals>>

Outage == StorageFails \/ StorageBack \/ RedisFails \/ RedisBack

Next ==
  \/ \E r \in Replicas :
       \/ Boot(r) \/ Shutdown(r) \/ Kill(r)
       \/ \E forGood \in BOOLEAN : Signal(r, forGood)
       \/ \E q \in Requests : Arrive(q, r)
  \/ \E q \in Requests : Leave(q) \/ Finish(q)
  \/ Outage

Spec == Init /\ [][Next]_vars

\* A started process gets on, requests are answered, and storage comes back.
FairSpec ==
  /\ Spec
  /\ \A r \in Replicas : WF_vars(Boot(r)) /\ WF_vars(Shutdown(r))
  /\ \A q \in Requests : WF_vars(Finish(q))
  /\ WF_vars(StorageBack)

-----------------------------------------------------------------------------
(* Properties *)

\* The processes, the requests and the counters have their types.
TypeOK ==
  /\ schema \in BOOLEAN /\ bucket \in BOOLEAN /\ storageUp \in BOOLEAN /\ redisUp \in BOOLEAN
  /\ shared \in BOOLEAN
  /\ proc \in [Replicas -> Stages] /\ stopped \subseteq Replicas
  /\ request \in [Requests -> Request]
  /\ counter \in [Counters -> Nat]
  /\ faults \in Nat /\ signals \in Nat
  /\ past \in Past

\* "so the first upload doesn't fail against a fresh MinIO instance"
\* (lifecycle.ts:5): no request reaches a process before the database has its
\* schema and the bucket exists, in whatever order replicas start and fail.
ServesOnlyWhenReady ==
  \A r \in Replicas : proc[r] \in Accepting \cup {"closing", "draining"} => schema /\ bucket

\* "Graceful shutdown" (lifecycle.ts:17): a request whose client still waits is
\* broken off only by a crash, by SIGKILL while its container is being stopped, or
\* by a signal in the moment before the handlers are registered (server.ts:86),
\* and by nothing once the pool is being ended, however signals, steps and clients
\* interleave. A request whose client has gone has no such promise: it may meet
\* the ended pool, or the exit.
NobodyWaitingIsCutOff ==
  [][\A q \in Requests :
       LET r == request[q].at
       IN request[q].pc = "running" /\ request[q].waiting /\ request'[q].pc = "cut" =>
            /\ proc[r] # "draining"
            /\ \/ faults' # faults
               \/ r \in stopped
               \/ signals' # signals /\ proc[r] = "bound"]_vars

\* "the per-IP windows are enforced across every replica and survive restarts"
\* (ratelimit.ts:14): with REDIS_URL set, all replicas together let through no
\* more requests than the limit for each time Redis started from zero, and those
\* that Redis did not answer for, however often they crash and restart. Without
\* it that holds of each replica, for each time it started.
LimitHolds ==
  IF shared THEN Cardinality(Through) <= past.allowed[Redis] + past.unseen
  ELSE \A r \in Replicas : Cardinality({q \in Through : request[q].at = r}) <= past.allowed[r]

\* A replica that is not stopped gets to serve: a lost race for the bucket or
\* the migrations, or storage that is not up yet, only delays it.
EventuallyServes ==
  \A r \in Replicas : r \notin stopped ~> proc[r] = "serving" \/ r \in stopped

\* A process that was told to stop ends.
ShutdownEnds == \A r \in Replicas : proc[r] = "closing" ~> proc[r] = "down"
=============================================================================

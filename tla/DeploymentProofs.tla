-------------------------- MODULE DeploymentProofs --------------------------
(***************************************************************************)
(* Safety of Deployment for every set of replicas and requests, every      *)
(* limit and any number of faults.                                         *)
(***************************************************************************)
EXTENDS Deployment, FiniteSetTheorems, TLAPS

(* How a step moves processes and requests. *)

LEMMA AdvanceType ==
  ASSUME TypeOK, NEW r \in Replicas, NEW from, NEW to \in Stages, Advance(r, from, to)
  PROVE  proc' \in [Replicas -> Stages]
  BY DEF Advance, TypeOK

LEMMA EndType ==
  ASSUME TypeOK, NEW r \in Replicas, End(r)
  PROVE  proc' \in [Replicas -> Stages] /\ request' \in [Requests -> Request]
<1>1. ASSUME NEW q \in Requests
      PROVE  [request[q] EXCEPT !.pc = "cut", !.waiting = FALSE] \in Request
  BY DEF TypeOK, Request
<1> QED
  BY <1>1 DEF End, TypeOK, Stages

LEMMA BootType ==
  ASSUME TypeOK, NEW r \in Replicas, Boot(r)
  PROVE  TypeOK'
<1> USE DEF world, Stages
<1>1. CASE Start(r)
  BY <1>1, AdvanceType DEF Start, TypeOK
<1>2. CASE Migrate(r)
  BY <1>2, AdvanceType DEF Migrate, TypeOK
<1>3. CASE Head(r)
  BY <1>3, AdvanceType DEF Head, TypeOK
<1>4. CASE Create(r)
  BY <1>4, AdvanceType DEF Create, TypeOK
<1>5. CASE Listen(r)
  <2>1. proc' \in [Replicas -> Stages]
    BY <1>5, AdvanceType DEF Listen
  <2>2. counter' \in [Counters -> Nat] /\ faults' \in Nat
    BY <1>5 DEF Listen, TypeOK
  <2>3. past' \in Past
    BY <1>5, BoundsAssumption DEF Listen, TypeOK, Past
  <2> QED
    BY <1>5, <2>1, <2>2, <2>3 DEF Listen, TypeOK
<1>6. CASE RegisterGracefulShutdown(r)
  BY <1>6, AdvanceType DEF RegisterGracefulShutdown, TypeOK
<1> QED
  BY <1>1, <1>2, <1>3, <1>4, <1>5, <1>6 DEF Boot

LEMMA ArriveType ==
  ASSUME TypeOK, NEW r \in Replicas, NEW q \in Requests, Arrive(q, r)
  PROVE  TypeOK'
<1>1. CounterOf(r) \in Counters
  BY DEF CounterOf, Counters
<1>2. /\ [request[q] EXCEPT !.pc = "limited", !.waiting = FALSE] \in Request
      /\ [request[q] EXCEPT !.pc = "running", !.at = r] \in Request
  BY DEF TypeOK, Request
<1>3. request' \in [Requests -> Request]
  BY <1>2 DEF Arrive, Count, Pass, Refuse, TypeOK
<1>4. counter' \in [Counters -> Nat]
  BY <1>1 DEF Arrive, Count, TypeOK
<1>5. past' \in Past
  BY DEF Arrive, TypeOK, Past
<1> QED
  BY <1>3, <1>4, <1>5 DEF Arrive, TypeOK, world

LEMMA NextType ==
  ASSUME TypeOK, [Next]_vars
  PROVE  TypeOK'
<1>1. ASSUME NEW r \in Replicas, Boot(r)
      PROVE  TypeOK'
  BY <1>1, BootType
<1>2. ASSUME NEW r \in Replicas, Shutdown(r)
      PROVE  TypeOK'
  BY <1>2, AdvanceType, EndType DEF Shutdown, Close, Exit, TypeOK, Stages, world
<1>3. ASSUME NEW r \in Replicas, Kill(r)
      PROVE  TypeOK'
  BY <1>3, EndType DEF Kill, TypeOK, world
<1>4. ASSUME NEW r \in Replicas, NEW forGood \in BOOLEAN, Signal(r, forGood)
      PROVE  TypeOK'
  <2>1. proc' \in [Replicas -> Stages] /\ request' \in [Requests -> Request]
    <3>1. CASE proc[r] = "serving"
      BY <1>4, <3>1 DEF Signal, TypeOK, Stages
    <3>2. CASE proc[r] \in {"closing", "draining"}
      BY <1>4, <3>2 DEF Signal, TypeOK
    <3>3. CASE proc[r] \notin {"serving", "closing", "draining"}
      BY <1>4, <3>3, EndType DEF Signal, TypeOK
    <3> QED
      BY <3>1, <3>2, <3>3
  <2> QED
    BY <1>4, <2>1 DEF Signal, TypeOK, world
<1>5. ASSUME NEW r \in Replicas, NEW q \in Requests, Arrive(q, r)
      PROVE  TypeOK'
  BY <1>5, ArriveType
<1>6. ASSUME NEW q \in Requests, Leave(q) \/ Finish(q)
      PROVE  TypeOK'
  <2>1. request' \in [Requests -> Request]
    <3>1. \A pc \in {"answered", "cut"} : [request[q] EXCEPT !.pc = pc, !.waiting = FALSE] \in Request
      BY DEF TypeOK, Request
    <3>2. [request[q] EXCEPT !.waiting = FALSE] \in Request
      BY DEF TypeOK, Request
    <3> QED
      BY <1>6, <3>1, <3>2 DEF Leave, Finish, TypeOK
  <2> QED
    BY <1>6, <2>1 DEF Leave, Finish, TypeOK, world
<1>7. CASE Outage
  <2>1. CASE RedisBack
    BY <1>7, <2>1, BoundsAssumption DEF RedisBack, TypeOK, Past, Counters
  <2>2. CASE StorageFails \/ StorageBack \/ RedisFails
    <3>1. faults' \in Nat
      BY <2>2 DEF StorageFails, StorageBack, RedisFails, TypeOK
    <3>2. storageUp' \in BOOLEAN /\ redisUp' \in BOOLEAN
      BY <2>2, Zenon DEF StorageFails, StorageBack, RedisFails, TypeOK
    <3>3. UNCHANGED <<schema, bucket, shared, proc, stopped, request, counter, signals, past>>
      BY <2>2 DEF StorageFails, StorageBack, RedisFails
    <3> QED
      BY <3>1, <3>2, <3>3 DEF TypeOK
  <2> QED
    BY <1>7, <2>1, <2>2 DEF Outage
<1>8. CASE UNCHANGED vars
  BY <1>8 DEF vars, world, TypeOK
<1> QED
  BY <1>1, <1>2, <1>3, <1>4, <1>5, <1>6, <1>7, <1>8 DEF Next

\* The processes, requests and counters keep their types.
THEOREM TypeCorrect == Spec => []TypeOK
<1>1. Init => TypeOK
  BY BoundsAssumption DEF Init, TypeOK, Stages, Request, Counters, Past
<1> QED
  BY <1>1, NextType, PTL DEF Spec

-----------------------------------------------------------------------------
(* A process that serves has its schema, its bucket and its requests. *)

\* What a process has done at a stage, and the requests it may hold.
StageInv(r) ==
  /\ proc[r] \in Stages \ {"down", "migrating"} => schema
  /\ proc[r] \in Accepting \cup {"listen", "closing", "draining"} => bucket
  /\ proc[r] \notin Accepting \cup {"closing", "draining"} => Running(r) = {}
  /\ proc[r] = "draining" => Connected(r) = {}

LEMMA RunningOnly ==
  ASSUME NEW r \in Replicas, request' = request
  PROVE  Running(r)' = Running(r) /\ Connected(r)' = Connected(r)
  BY DEF Running, Connected

\* Ending a process leaves it without requests, and the others with theirs.
LEMMA EndRunning ==
  ASSUME TypeOK, NEW r \in Replicas, End(r), NEW s \in Replicas
  PROVE  /\ Running(s)' = IF s = r THEN {} ELSE Running(s)
         /\ s # r => Connected(s)' = Connected(s)
<1>1. ASSUME NEW q \in Requests
      PROVE  q \in Running(s)' <=> q \in Running(s) /\ s # r
  <2>1. request[q] \in Request
    BY DEF TypeOK
  <2>2. CASE q \in Running(r)
    <3>1. request'[q].pc = "cut" /\ request[q].at = r
      BY <2>1, <2>2 DEF End, Running, Request
    <3> QED
      BY <2>2, <3>1 DEF Running
  <2>3. CASE q \notin Running(r)
    <3>1. request'[q] = request[q]
      BY <2>3 DEF End
    <3> QED
      BY <2>3, <3>1 DEF Running
  <2> QED
    BY <2>2, <2>3
<1>2. ASSUME NEW q \in Requests, s # r, q \in Running(s)
      PROVE  request'[q] = request[q]
  <2>1. q \notin Running(r)
    BY <1>2 DEF Running
  <2> QED
    BY <2>1 DEF End
<1>3. Running(s)' = IF s = r THEN {} ELSE Running(s)
  BY <1>1 DEF Running
<1>4. s # r => Connected(s)' = Connected(s)
  BY <1>2, <1>3 DEF Connected, Running
<1> QED
  BY <1>3, <1>4

LEMMA EndStage ==
  ASSUME TypeOK, NEW r \in Replicas, End(r), NEW s \in Replicas, StageInv(s),
         UNCHANGED <<schema, bucket>>
  PROVE  StageInv(s)'
<1>1. proc'[s] = IF s = r THEN "down" ELSE proc[s]
  BY DEF End, TypeOK
<1>2. /\ Running(s)' = IF s = r THEN {} ELSE Running(s)
      /\ s # r => Connected(s)' = Connected(s)
  BY EndRunning
<1> QED
  BY <1>1, <1>2 DEF StageInv, Accepting, Stages

\* A step of r that moves only processes: the others stay as they are.
LEMMA AdvanceStage ==
  ASSUME TypeOK, NEW r \in Replicas, NEW from, NEW to, Advance(r, from, to),
         NEW s \in Replicas, s # r, StageInv(s), request' = request,
         schema => schema', bucket => bucket'
  PROVE  StageInv(s)'
<1>1. proc'[s] = proc[s]
  BY DEF Advance, TypeOK
<1> QED
  BY <1>1, RunningOnly DEF StageInv

LEMMA BootStage ==
  ASSUME TypeOK, NEW r \in Replicas, Boot(r), NEW s \in Replicas, StageInv(s)
  PROVE  StageInv(s)'
<1> USE DEF world
<1>1. request' = request /\ (schema => schema') /\ (bucket => bucket')
  BY DEF Boot, Start, Migrate, Head, Create, Listen, RegisterGracefulShutdown
<1>2. CASE s # r
  <2>1. PICK from, to : Advance(r, from, to)
    BY DEF Boot, Start, Migrate, Head, Create, Listen, RegisterGracefulShutdown
  <2> QED
    BY <1>1, <1>2, <2>1, AdvanceStage
<1>3. CASE s = r
  <2>1. Running(r)' = Running(r) /\ Connected(r)' = Connected(r)
    BY <1>1, RunningOnly
  <2>2. CASE Start(r)
    BY <1>3, <2>1, <2>2 DEF Start, Advance, StageInv, TypeOK, Accepting, Stages
  <2>3. CASE Migrate(r)
    BY <1>3, <2>1, <2>3 DEF Migrate, Advance, StageInv, TypeOK, Accepting, Stages
  <2>4. CASE Head(r)
    BY <1>3, <2>1, <2>4 DEF Head, Advance, StageInv, TypeOK, Accepting, Stages
  <2>5. CASE Create(r)
    BY <1>3, <2>1, <2>5 DEF Create, Advance, StageInv, TypeOK, Accepting, Stages
  <2>6. CASE Listen(r)
    BY <1>3, <2>1, <2>6 DEF Listen, Advance, StageInv, TypeOK, Accepting, Stages
  <2>7. CASE RegisterGracefulShutdown(r)
    BY <1>3, <2>1, <2>7 DEF RegisterGracefulShutdown, Advance, StageInv, TypeOK, Accepting, Stages
  <2> QED
    BY <2>2, <2>3, <2>4, <2>5, <2>6, <2>7 DEF Boot
<1> QED
  BY <1>2, <1>3

LEMMA ArriveStage ==
  ASSUME TypeOK, NEW r \in Replicas, NEW q \in Requests, Arrive(q, r),
         NEW s \in Replicas, StageInv(s)
  PROVE  StageInv(s)'
<1>1. UNCHANGED <<schema, bucket, proc>> /\ proc[r] \in Accepting
  BY DEF Arrive, world
<1>2. s # r => Running(s)' = Running(s) /\ Connected(s)' = Connected(s)
  <2>1. ASSUME s # r, NEW p \in Requests
        PROVE  /\ p \in Running(s)' <=> p \in Running(s)
               /\ p \in Connected(s)' <=> p \in Connected(s)
    <3>1. CASE p = q
      BY <2>1, <3>1 DEF Arrive, Count, Pass, Refuse, Connected, Running, TypeOK, Request
    <3>2. CASE p # q
      <4>1. request'[p] = request[p]
        BY <3>2 DEF Arrive, Count, Pass, Refuse, TypeOK
      <4> QED
        BY <4>1 DEF Running, Connected
    <3> QED
      BY <3>1, <3>2
  <2> QED
    BY <2>1 DEF Running, Connected
<1> QED
  BY <1>1, <1>2 DEF StageInv, Accepting

\* The client goes, or the handler ends: no request comes under way by that.
LEMMA FinishMoves ==
  ASSUME TypeOK, NEW q \in Requests, Leave(q) \/ Finish(q), NEW p \in Requests
  PROVE  /\ request'[p].at = request[p].at
         /\ request'[p].pc = "running" => request[p].pc = "running"
         /\ request'[p].waiting => request[p].waiting
         /\ p # q => request'[p] = request[p]
         /\ p = q => request[p].pc = "running" /\ request'[p].pc \in {"running", "answered", "cut"}
<1> DEFINE left == [request[q] EXCEPT !.waiting = FALSE]
           done(pc) == [request[q] EXCEPT !.pc = pc, !.waiting = FALSE]
<1>1. request[q] \in Request /\ request[q].pc = "running" /\ request \in [Requests -> Request]
  BY DEF TypeOK, Leave, Finish
<1>2. left.at = request[q].at /\ left.pc = "running" /\ left.waiting = FALSE
  BY <1>1 DEF Request
<1>3. ASSUME NEW pc \in {"answered", "cut"}
      PROVE  done(pc).at = request[q].at /\ done(pc).pc = pc /\ done(pc).waiting = FALSE
  BY <1>1 DEF Request
<1>4. /\ request'[q] = left \/ \E pc \in {"answered", "cut"} : request'[q] = done(pc)
      /\ p # q => request'[p] = request[p]
  BY <1>1 DEF Leave, Finish
<1> HIDE DEF left, done
<1> QED
  BY <1>1, <1>2, <1>3, <1>4

LEMMA FinishStage ==
  ASSUME TypeOK, NEW q \in Requests, Leave(q) \/ Finish(q), NEW s \in Replicas, StageInv(s)
  PROVE  StageInv(s)'
<1>1. UNCHANGED <<schema, bucket, proc>>
  BY DEF Leave, Finish, world
<1>2. Running(s)' \subseteq Running(s) /\ Connected(s)' \subseteq Connected(s)
  BY FinishMoves DEF Running, Connected
<1> QED
  BY <1>1, <1>2 DEF StageInv

LEMMA SignalStage ==
  ASSUME TypeOK, NEW r \in Replicas, NEW forGood \in BOOLEAN, Signal(r, forGood),
         NEW s \in Replicas, StageInv(s)
  PROVE  StageInv(s)'
<1>1. UNCHANGED <<schema, bucket>>
  BY DEF Signal, world
<1>2. CASE End(r)
  BY <1>1, <1>2, EndStage
<1>3. CASE UNCHANGED <<proc, request>>
  BY <1>1, <1>3, RunningOnly DEF StageInv
<1>4. CASE proc[r] = "serving" /\ proc' = [proc EXCEPT ![r] = "closing"] /\ request' = request
  BY <1>1, <1>4, RunningOnly DEF StageInv, TypeOK, Accepting, Stages
<1>5. End(r) \/ UNCHANGED <<proc, request>>
      \/ (proc[r] = "serving" /\ proc' = [proc EXCEPT ![r] = "closing"] /\ request' = request)
  <2>1. CASE proc[r] = "serving"
    BY <2>1 DEF Signal
  <2>2. CASE proc[r] \in {"closing", "draining"}
    BY <2>2 DEF Signal
  <2>3. CASE proc[r] \notin {"serving", "closing", "draining"}
    BY <2>3 DEF Signal
  <2> QED
    BY <2>1, <2>2, <2>3
<1> QED
  BY <1>2, <1>3, <1>4, <1>5

LEMMA NextStage ==
  ASSUME TypeOK, [Next]_vars, NEW s \in Replicas, StageInv(s)
  PROVE  StageInv(s)'
<1>1. ASSUME NEW r \in Replicas, Boot(r)
      PROVE  StageInv(s)'
  BY <1>1, BootStage
<1>2. ASSUME NEW r \in Replicas, Close(r)
      PROVE  StageInv(s)'
  <2>1. Running(s)' = Running(s) /\ Connected(s)' = Connected(s)
    BY <1>2, RunningOnly DEF Close
  <2> QED
    BY <1>2, <2>1 DEF Close, Advance, StageInv, TypeOK, Accepting, Stages, world
<1>3. ASSUME NEW r \in Replicas, Exit(r) \/ Kill(r)
      PROVE  StageInv(s)'
  BY <1>3, EndStage DEF Exit, Kill, world
<1>4. ASSUME NEW r \in Replicas, NEW forGood \in BOOLEAN, Signal(r, forGood)
      PROVE  StageInv(s)'
  BY <1>4, SignalStage
<1>5. ASSUME NEW r \in Replicas, NEW q \in Requests, Arrive(q, r)
      PROVE  StageInv(s)'
  BY <1>5, ArriveStage
<1>6. ASSUME NEW q \in Requests, Leave(q) \/ Finish(q)
      PROVE  StageInv(s)'
  BY <1>6, FinishStage
<1>7. CASE Outage \/ UNCHANGED vars
  <2>1. UNCHANGED <<schema, bucket, proc, request>>
    BY <1>7 DEF Outage, StorageFails, StorageBack, RedisFails, RedisBack, vars, world
  <2> QED
    BY <2>1, RunningOnly DEF StageInv
<1> QED
  BY <1>1, <1>2, <1>3, <1>4, <1>5, <1>6, <1>7 DEF Next, Shutdown

\* At every stage a process has what the stages before it promised.
THEOREM StagesKept == Spec => [](\A r \in Replicas : StageInv(r))
<1>1. Init => \A r \in Replicas : StageInv(r)
  BY DEF Init, StageInv, Running, Accepting, Stages
<1>2. TypeOK /\ (\A r \in Replicas : StageInv(r)) /\ [Next]_vars => (\A r \in Replicas : StageInv(r))'
  BY NextStage
<1> QED
  BY <1>1, <1>2, TypeCorrect, PTL DEF Spec

\* Whatever replicas race, fail and restart: none serves without its schema and
\* its bucket.
THEOREM OnlyReadyReplicasServe == Spec => []ServesOnlyWhenReady
<1>1. (\A r \in Replicas : StageInv(r)) => ServesOnlyWhenReady
  BY DEF StageInv, ServesOnlyWhenReady, Accepting, Stages
<1> QED
  BY <1>1, StagesKept, PTL

-----------------------------------------------------------------------------
(* The limiter *)

\* The requests let through that counter c was responsible for.
Counted(c) == {q \in Through : CounterOf(request[q].at) = c}

\* Every such request was allowed to it, and every one it would still let
\* through is.
CounterInv(c) ==
  /\ Cardinality(Counted(c)) <= past.allowed[c] + past.unseen
  /\ proc[c] \in Accepting \/ c = Redis =>
       Cardinality(Counted(c)) + Limit <= past.allowed[c] + past.unseen + counter[c]

\* Requests let through came in somewhere; Redis is asked only when shared.
LimiterInv ==
  /\ \A q \in Through : request[q].at \in Replicas
  /\ ~shared => past.unseen = 0
  /\ \A c \in Counters : CounterInv(c)

LEMMA CountedFinite ==
  ASSUME NEW c
  PROVE  IsFiniteSet(Counted(c)) /\ Cardinality(Counted(c)) \in Nat
<1>1. Counted(c) \subseteq Requests
  BY DEF Counted, Through
<1> QED
  BY <1>1, RequestsAssumption, FS_Subset, FS_CardinalityType

LEMMA CountedFiniteNext ==
  ASSUME NEW c
  PROVE  Cardinality(Counted(c)') \in Nat
<1>1. Counted(c)' \subseteq Requests
  BY DEF Counted, Through
<1> QED
  BY <1>1, RequestsAssumption, FS_Subset, FS_CardinalityType

\* A request that ends stays let through, by the same counter.
LEMMA EndCounted ==
  ASSUME TypeOK, NEW r \in Replicas, End(r), shared' = shared, NEW c
  PROVE  Through' = Through /\ Counted(c)' = Counted(c)
         /\ \A q \in Requests : request'[q].at = request[q].at
<1>1. ASSUME NEW q \in Requests
      PROVE  /\ request'[q].at = request[q].at
             /\ q \in Through' <=> q \in Through
  BY DEF End, Running, Through, TypeOK, Request
<1>2. Through' = Through
  BY <1>1 DEF Through
<1> QED
  BY <1>1, <1>2 DEF Counted, CounterOf, Through

LEMMA FinishCounted ==
  ASSUME TypeOK, NEW q \in Requests, Leave(q) \/ Finish(q), NEW c
  PROVE  Through' = Through /\ Counted(c)' = Counted(c)
         /\ \A p \in Requests : request'[p].at = request[p].at
<1>1. ASSUME NEW p \in Requests
      PROVE  /\ request'[p].at = request[p].at
             /\ p \in Through' <=> p \in Through
  BY FinishMoves DEF Through
<1>2. Through' = Through
  BY <1>1 DEF Through
<1> QED
  BY <1>1, <1>2 DEF Counted, CounterOf, Through, Leave, Finish

\* Steps that move no request, count nothing and let no counter start.
LEMMA QuietStep ==
  ASSUME LimiterInv, Through' = Through, \A c : Counted(c)' = Counted(c),
         \A q \in Requests : request'[q].at = request[q].at,
         UNCHANGED <<shared, counter, past>>,
         \A r \in Replicas : proc'[r] \in Accepting => proc[r] \in Accepting
  PROVE  LimiterInv'
<1>1. ASSUME NEW c \in Counters
      PROVE  CounterInv(c)'
  BY <1>1 DEF LimiterInv, CounterInv, Counters
<1> QED
  BY <1>1 DEF LimiterInv, Through

\* A request let through at r is one more for its counter, and for no other.
LEMMA PassStep ==
  ASSUME TypeOK, LimiterInv, NEW r \in Replicas, NEW q \in Requests, NEW c, c = CounterOf(r),
         request[q].pc = "new", Pass(q, r), shared' = shared
  PROVE  /\ Cardinality(Counted(c)') = Cardinality(Counted(c)) + 1
         /\ \A d : d # c => Counted(d)' = Counted(d)
         /\ \A p \in Through' : request'[p].at \in Replicas
<1>1. q \notin Through
  BY DEF Through
<1>2. request'[q].pc = "running" /\ request'[q].at = r
      /\ \A p \in Requests : p # q => request'[p] = request[p]
  BY DEF Pass, TypeOK, Request
<1>3. Through' = Through \cup {q}
  BY <1>2 DEF Through
<1>4. ASSUME NEW d
      PROVE  Counted(d)' = IF d = c THEN Counted(d) \cup {q} ELSE Counted(d)
  BY <1>1, <1>2, <1>3 DEF Counted, CounterOf, Through
<1>5. q \notin Counted(c)
  BY <1>1 DEF Counted
<1>6. Cardinality(Counted(c) \cup {q}) = Cardinality(Counted(c)) + 1
  BY <1>5, CountedFinite, FS_AddElement
<1>7. \A p \in Through' : request'[p].at \in Replicas
  BY <1>1, <1>2, <1>3 DEF LimiterInv, Through
<1> QED
  BY <1>4, <1>6, <1>7

\* A refused request is let through by no counter.
LEMMA LimitedStep ==
  ASSUME TypeOK, NEW q \in Requests, request[q].pc = "new",
         Refuse(q), shared' = shared
  PROVE  /\ Through' = Through /\ \A c : Counted(c)' = Counted(c)
         /\ \A p \in Requests : request'[p].at = request[p].at
<1>1. ASSUME NEW p \in Requests
      PROVE  /\ request'[p].at = request[p].at
             /\ p \in Through' <=> p \in Through
  BY DEF Refuse, Through, TypeOK, Request
<1>2. Through' = Through
  BY <1>1 DEF Through
<1> QED
  BY <1>1, <1>2 DEF Counted, CounterOf, Through

LEMMA ArriveLimiter ==
  ASSUME TypeOK, LimiterInv, NEW r \in Replicas, NEW q \in Requests, Arrive(q, r)
  PROVE  LimiterInv'
<1>1. UNCHANGED <<shared, proc>> /\ request[q].pc = "new" /\ proc[r] \in Accepting
  BY DEF Arrive, world
<1>2. PICK c \in Counters : c = CounterOf(r)
  BY DEF Counters, CounterOf
<1>3. counter[c] \in Nat /\ past.allowed \in [Counters -> Nat] /\ past.unseen \in Nat /\ Limit \in Nat
  BY BoundsAssumption DEF TypeOK, Past
<1>4. c = Redis \/ proc[c] \in Accepting
  BY <1>1, <1>2 DEF CounterOf
<1>5. CASE shared /\ ~redisUp /\ Pass(q, r)
  <2>1. Pass(q, r) /\ past' = [past EXCEPT !.unseen = @ + 1] /\ counter' = counter
    <3>1. ~Refuse(q)
      BY <1>1, <1>5 DEF Pass, Refuse, TypeOK, Request
    <3> QED
      BY <1>5, <3>1 DEF Arrive
  <2>2. past'.unseen = past.unseen + 1 /\ past'.allowed = past.allowed
    BY <2>1 DEF TypeOK, Past
  <2>3. ASSUME NEW d \in Counters
        PROVE  CounterInv(d)'
    <3>1. Cardinality(Counted(d)') <= Cardinality(Counted(d)) + 1
      <4>1. Cardinality(Counted(d)) \in Nat
        BY CountedFinite
      <4> QED
        BY <1>1, <1>2, <2>1, <4>1, PassStep
    <3>2. Cardinality(Counted(d)) \in Nat /\ Cardinality(Counted(d)') \in Nat
          /\ past.allowed[d] \in Nat /\ counter[d] \in Nat
      BY <1>3, CountedFinite, CountedFiniteNext DEF TypeOK
    <3>3. CounterInv(d)
      BY DEF LimiterInv
    <3> QED
      BY <1>1, <1>3, <2>1, <2>2, <3>1, <3>2, <3>3 DEF CounterInv
  <2> QED
    BY <1>1, <1>2, <1>5, <2>1, <2>3, PassStep DEF LimiterInv
<1>6. CASE ~(shared /\ ~redisUp)
  <2>1. Count(q, r) /\ past' = past
    BY <1>6 DEF Arrive
  <2>2. counter' = [counter EXCEPT ![c] = @ + 1]
    BY <1>2, <2>1 DEF Count
  <2>3. counter'[c] = counter[c] + 1 /\ \A d \in Counters : d # c => counter'[d] = counter[d]
    BY <2>2 DEF TypeOK
  <2>4. CASE counter[c] + 1 <= Limit
    <3>1. Pass(q, r)
      BY <1>2, <2>1, <2>4 DEF Count
    <3>2. Cardinality(Counted(c)') = Cardinality(Counted(c)) + 1
          /\ (\A d : d # c => Counted(d)' = Counted(d))
          /\ \A p \in Through' : request'[p].at \in Replicas
      BY <1>1, <1>2, <3>1, PassStep
    <3>3. CounterInv(c)'
      <4>1. Cardinality(Counted(c)) \in Nat /\ past.allowed[c] \in Nat
        BY <1>3, CountedFinite
      <4>2. Cardinality(Counted(c)) + Limit <= past.allowed[c] + past.unseen + counter[c]
        BY <1>4 DEF LimiterInv, CounterInv
      <4> QED
        BY <1>3, <2>1, <2>3, <2>4, <3>2, <4>1, <4>2 DEF CounterInv
    <3>4. ASSUME NEW d \in Counters, d # c
          PROVE  CounterInv(d)'
      BY <1>1, <2>1, <2>3, <3>2, <3>4 DEF LimiterInv, CounterInv
    <3> QED
      BY <1>1, <2>1, <3>2, <3>3, <3>4 DEF LimiterInv
  <2>5. CASE ~(counter[c] + 1 <= Limit)
    <3>1. Refuse(q)
      BY <1>2, <2>1, <2>5 DEF Count
    <3>2. Through' = Through /\ (\A d : Counted(d)' = Counted(d))
          /\ \A p \in Requests : request'[p].at = request[p].at
      BY <1>1, <3>1, LimitedStep
    <3>3. ASSUME NEW d \in Counters
          PROVE  CounterInv(d)'
      <4>1. Cardinality(Counted(d)) \in Nat /\ past.allowed[d] \in Nat /\ counter[d] \in Nat
        BY <1>3, CountedFinite DEF TypeOK
      <4>2. counter'[d] = counter[d] \/ counter'[d] = counter[d] + 1
        BY <2>3
      <4>3. CounterInv(d)
        BY DEF LimiterInv
      <4> QED
        BY <1>1, <1>3, <2>1, <3>2, <4>1, <4>2, <4>3 DEF CounterInv
    <3> QED
      BY <1>1, <2>1, <3>2, <3>3 DEF LimiterInv, Through
  <2> QED
    BY <2>4, <2>5
<1>7. CASE shared /\ ~redisUp /\ ~Pass(q, r)
  <2>1. Refuse(q) /\ UNCHANGED <<shared, proc, counter, past>>
    BY <1>1, <1>7 DEF Arrive
  <2> QED
    BY <1>1, <2>1, LimitedStep, QuietStep
<1> QED
  BY <1>5, <1>6, <1>7

\* A counter that starts from zero may let through Limit more.
LEMMA RestartStep ==
  ASSUME TypeOK, LimiterInv, NEW c \in Counters,
         counter' = [counter EXCEPT ![c] = 0], past' = [past EXCEPT !.allowed[c] = @ + Limit],
         UNCHANGED <<request, shared>>,
         \A r \in Replicas : r # c /\ proc'[r] \in Accepting => proc[r] \in Accepting
  PROVE  LimiterInv'
<1>1. Through' = Through /\ \A d : Counted(d)' = Counted(d)
  BY DEF Through, Counted, CounterOf
<1>2. past'.unseen = past.unseen /\ past'.allowed = [past.allowed EXCEPT ![c] = @ + Limit]
      /\ past.unseen \in Nat /\ Limit \in Nat
  BY BoundsAssumption DEF TypeOK, Past
<1>3. ASSUME NEW d \in Counters
      PROVE  CounterInv(d)'
  <2>1. Cardinality(Counted(d)) \in Nat /\ past.allowed[d] \in Nat /\ counter[d] \in Nat
    BY CountedFinite DEF TypeOK, Past
  <2>2. CounterInv(d)
    BY DEF LimiterInv
  <2>3. CASE d = c
    <3>1. counter'[d] = 0 /\ past'.allowed[d] = past.allowed[d] + Limit
      BY <1>2, <2>3 DEF TypeOK, Past
    <3> QED
      BY <1>1, <1>2, <2>1, <2>2, <3>1 DEF CounterInv
  <2>4. CASE d # c
    <3>1. counter'[d] = counter[d] /\ past'.allowed[d] = past.allowed[d]
      BY <1>2, <2>4 DEF TypeOK, Past
    <3>2. proc'[d] \in Accepting \/ d = Redis => proc[d] \in Accepting \/ d = Redis
      BY <2>4 DEF Counters
    <3> QED
      BY <1>1, <1>2, <2>1, <2>2, <3>1, <3>2 DEF CounterInv
  <2> QED
    BY <2>3, <2>4
<1> QED
  BY <1>1, <1>2, <1>3 DEF LimiterInv

LEMMA SameRequests ==
  ASSUME LimiterInv, UNCHANGED <<request, shared, counter, past>>,
         \A r \in Replicas : proc'[r] \in Accepting => proc[r] \in Accepting
  PROVE  LimiterInv'
<1>1. Through' = Through /\ \A c : Counted(c)' = Counted(c)
  BY DEF Through, Counted, CounterOf
<1> QED
  BY <1>1, QuietStep

LEMMA EndLimiter ==
  ASSUME TypeOK, LimiterInv, NEW r \in Replicas, End(r), UNCHANGED <<shared, counter, past>>
  PROVE  LimiterInv'
<1>1. \A s \in Replicas : proc'[s] \in Accepting => proc[s] \in Accepting
  BY DEF End, TypeOK, Accepting
<1> QED
  BY <1>1, EndCounted, QuietStep

LEMMA BootLimiter ==
  ASSUME TypeOK, LimiterInv, NEW r \in Replicas, Boot(r)
  PROVE  LimiterInv'
<1> USE DEF world, Accepting
<1>1. CASE Start(r)
  BY <1>1, SameRequests DEF Start, Advance, TypeOK
<1>2. CASE Migrate(r)
  BY <1>2, SameRequests DEF Migrate, Advance, TypeOK
<1>3. CASE Head(r)
  BY <1>3, SameRequests DEF Head, Advance, TypeOK
<1>4. CASE Create(r)
  BY <1>4, SameRequests DEF Create, Advance, TypeOK
<1>5. CASE Listen(r)
  <2>1. CASE Advance(r, "listen", "down")
    <3>1. UNCHANGED <<request, shared, counter, past>>
      BY <1>5, <2>1 DEF Listen, Advance, TypeOK
    <3> QED
      BY <2>1, <3>1, SameRequests DEF Advance, TypeOK
  <2>2. CASE Advance(r, "listen", "bound")
    <3>1. r \in Counters
      BY DEF Counters
    <3> QED
      BY <1>5, <2>2, <3>1, RestartStep DEF Listen, Advance, TypeOK
  <2> QED
    BY <1>5, <2>1, <2>2 DEF Listen
<1>6. CASE RegisterGracefulShutdown(r)
  BY <1>6, SameRequests DEF RegisterGracefulShutdown, Advance, TypeOK
<1> QED
  BY <1>1, <1>2, <1>3, <1>4, <1>5, <1>6 DEF Boot

LEMMA SignalLimiter ==
  ASSUME TypeOK, LimiterInv, NEW r \in Replicas, NEW forGood \in BOOLEAN, Signal(r, forGood)
  PROVE  LimiterInv'
<1>1. UNCHANGED <<shared, counter, past>>
  BY DEF Signal
<1>2. CASE proc[r] = "serving"
  BY <1>1, <1>2, SameRequests DEF Signal, TypeOK, Accepting
<1>3. CASE proc[r] \in {"closing", "draining"}
  BY <1>1, <1>3, SameRequests DEF Signal
<1>4. CASE proc[r] \notin {"serving", "closing", "draining"}
  <2>1. End(r) \/ UNCHANGED <<proc, request>>
    BY <1>4 DEF Signal
  <2> QED
    BY <1>1, <2>1, EndLimiter, SameRequests
<1> QED
  BY <1>2, <1>3, <1>4

LEMMA NextLimiter ==
  ASSUME TypeOK, LimiterInv, [Next]_vars
  PROVE  LimiterInv'
<1>1. ASSUME NEW r \in Replicas, Boot(r)
      PROVE  LimiterInv'
  BY <1>1, BootLimiter
<1>2. ASSUME NEW r \in Replicas, Close(r)
      PROVE  LimiterInv'
  BY <1>2, SameRequests DEF Close, Advance, TypeOK, Accepting
<1>3. ASSUME NEW r \in Replicas, Exit(r) \/ Kill(r)
      PROVE  LimiterInv'
  BY <1>3, EndLimiter DEF Exit, Kill
<1>4. ASSUME NEW r \in Replicas, NEW forGood \in BOOLEAN, Signal(r, forGood)
      PROVE  LimiterInv'
  BY <1>4, SignalLimiter
<1>5. ASSUME NEW r \in Replicas, NEW q \in Requests, Arrive(q, r)
      PROVE  LimiterInv'
  BY <1>5, ArriveLimiter
<1>6. ASSUME NEW q \in Requests, Leave(q) \/ Finish(q)
      PROVE  LimiterInv'
  BY <1>6, FinishCounted, QuietStep DEF Leave, Finish
<1>7. CASE RedisBack
  <2>1. CASE UNCHANGED <<counter, past>>
    BY <1>7, <2>1, SameRequests DEF RedisBack
  <2>2. CASE counter' = [counter EXCEPT ![Redis] = 0] /\ past' = [past EXCEPT !.allowed[Redis] = @ + Limit]
    <3>1. Redis \in Counters /\ proc' = proc /\ UNCHANGED <<request, shared>>
      BY <1>7 DEF Counters, RedisBack
    <3> QED
      BY <2>2, <3>1, RestartStep
  <2> QED
    BY <1>7, <2>1, <2>2 DEF RedisBack
<1>8. CASE StorageFails \/ StorageBack \/ RedisFails \/ UNCHANGED vars
  BY <1>8, SameRequests DEF StorageFails, StorageBack, RedisFails, vars
<1> QED
  BY <1>1, <1>2, <1>3, <1>4, <1>5, <1>6, <1>7, <1>8 DEF Next, Shutdown, Outage

LEMMA InitLimiter == Init => LimiterInv
<1>1. ASSUME Init
      PROVE  LimiterInv
  <2>1. Through = {}
    BY <1>1 DEF Init, Through
  <2>2. ASSUME NEW c
        PROVE  Cardinality(Counted(c)) = 0
    BY <2>1, FS_EmptySet DEF Counted
  <2>3. ASSUME NEW c \in Counters
        PROVE  CounterInv(c)
    BY <1>1, <2>2, BoundsAssumption, NamesAssumption DEF Init, CounterInv, Accepting, Counters
  <2> QED
    BY <1>1, <2>1, <2>3 DEF Init, LimiterInv
<1> QED
  BY <1>1

\* For any number of replicas, crashes, restarts and outages of Redis: the
\* requests let through are those the limit allows, each time the counter in
\* charge of them started from zero, and those Redis did not see.
THEOREM LimitsHold == Spec => []LimitHolds
<1>1. TypeOK /\ LimiterInv => LimitHolds
  <2>1. ASSUME TypeOK, LimiterInv, shared
        PROVE  LimitHolds
    <3>1. Counted(Redis) = Through
      BY <2>1 DEF Counted, CounterOf
    <3>2. CounterInv(Redis)
      BY <2>1 DEF LimiterInv, Counters
    <3> QED
      BY <2>1, <3>1, <3>2 DEF LimitHolds, CounterInv
  <2>2. ASSUME TypeOK, LimiterInv, ~shared
        PROVE  LimitHolds
    <3>1. ASSUME NEW r \in Replicas
          PROVE  Cardinality({q \in Through : request[q].at = r}) <= past.allowed[r]
      <4>1. Counted(r) = {q \in Through : request[q].at = r}
        BY <2>2 DEF Counted, CounterOf
      <4>2. CounterInv(r) /\ past.unseen = 0
        BY <2>2 DEF LimiterInv, Counters
      <4>3. past.allowed[r] \in Nat
        BY <2>2 DEF TypeOK, Past, Counters
      <4> QED
        BY <4>1, <4>2, <4>3 DEF CounterInv
    <3> QED
      BY <2>2, <3>1 DEF LimitHolds
  <2> QED
    BY <2>1, <2>2
<1> QED
  BY <1>1, InitLimiter, NextLimiter, TypeCorrect, PTL DEF Spec

-----------------------------------------------------------------------------
(* Shutting down *)

\* Ending a process breaks off its requests and no others.
LEMMA EndCuts ==
  ASSUME TypeOK, NEW r \in Replicas, End(r), NEW q \in Requests,
         request[q].pc = "running", request'[q].pc = "cut"
  PROVE  request[q].at = r
<1>1. q \in Running(r)
  BY DEF End
<1> QED
  BY <1>1 DEF Running

\* A handler that ends is broken off only at a process that has ended its pool.
LEMMA FinishCuts ==
  ASSUME TypeOK, NEW p \in Requests, Leave(p) \/ Finish(p), NEW q \in Requests,
         request[q].pc = "running", request'[q].pc = "cut"
  PROVE  proc[request[q].at] = "draining"
<1>1. CASE p # q
  <2>1. request'[q] = request[q]
    BY <1>1 DEF Leave, Finish, TypeOK
  <2> QED
    BY <2>1
<1>2. CASE p = q
  <2>1. CASE Leave(p)
    BY <1>2, <2>1 DEF Leave, TypeOK, Request
  <2>2. CASE Finish(p)
    <3>1. proc[request[q].at] # "draining" => request'[q].pc = "answered"
      BY <1>2, <2>2 DEF Finish, TypeOK, Request
    <3> QED
      BY <3>1
  <2> QED
    BY <2>1, <2>2
<1> QED
  BY <1>1, <1>2

LEMMA NoOtherCuts ==
  ASSUME TypeOK, NEW r \in Replicas, NEW p \in Requests, Arrive(p, r), NEW q \in Requests,
         request[q].pc = "running"
  PROVE  request'[q].pc # "cut"
<1>1. request'[q] = request[q]
  BY DEF Arrive, Count, Pass, Refuse, TypeOK
<1> QED
  BY <1>1

\* However many replicas, clients and signals there are: a request whose client
\* still waits is broken off by a crash, by SIGKILL or by a signal that finds no
\* handler (lifecycle.ts:20-27, server.ts:86), and never once the pool is ended.
THEOREM NobodyWaitingIsEverCutOff == Spec => NobodyWaitingIsCutOff
<1> DEFINE Inv == TypeOK /\ LimiterInv /\ \A r \in Replicas : StageInv(r)
<1>1. Init => Inv
  BY InitLimiter, BoundsAssumption
     DEF Init, TypeOK, Stages, Request, Counters, Past, StageInv, Running, Accepting
<1>2. Inv /\ [Next]_vars => Inv'
  BY NextType, NextLimiter, NextStage
<1>3. ASSUME Inv, [Next]_vars, NEW q \in Requests,
             request[q].pc = "running", request[q].waiting, request'[q].pc = "cut"
      PROVE  LET r == request[q].at
             IN /\ proc[r] # "draining"
                /\ \/ faults' # faults \/ r \in stopped
                   \/ signals' # signals /\ proc[r] = "bound"
  <2> DEFINE at == request[q].at
  <2>1. /\ TypeOK /\ at \in Replicas /\ StageInv(at)
        /\ faults \in Nat /\ signals \in Nat
    BY <1>3 DEF LimiterInv, Through, TypeOK
  <2>2. proc[at] \in Accepting \cup {"closing"}
    <3>1. q \in Running(at) /\ q \in Connected(at)
      BY <1>3 DEF Running, Connected
    <3> QED
      BY <2>1, <3>1 DEF StageInv
  <2>3. ASSUME NEW r \in Replicas, Boot(r) PROVE FALSE
    <3>1. request' = request
      BY <2>3 DEF Boot, Start, Migrate, Head, Create, Listen, RegisterGracefulShutdown
    <3> QED
      BY <1>3, <3>1
  <2>4. ASSUME NEW r \in Replicas, Shutdown(r) PROVE FALSE
    <3>1. CASE Close(r)
      BY <1>3, <3>1 DEF Close
    <3>2. CASE Exit(r)
      BY <1>3, <2>1, <2>2, <3>2, EndCuts DEF Exit, Accepting
    <3> QED
      BY <2>4, <3>1, <3>2 DEF Shutdown
  <2>5. ASSUME NEW r \in Replicas, Kill(r) PROVE faults' # faults \/ at \in stopped
    <3>1. at = r
      BY <1>3, <2>1, <2>5, EndCuts DEF Kill
    <3> HIDE DEF at
    <3> QED
      BY <2>1, <2>5, <3>1 DEF Kill
  <2>6. ASSUME NEW r \in Replicas, NEW forGood \in BOOLEAN, Signal(r, forGood)
        PROVE  signals' # signals /\ proc[at] = "bound"
    <3>1. signals' # signals
      BY <2>1, <2>6 DEF Signal
    <3>2. request' # request
      BY <1>3
    <3>3. proc[r] \notin {"serving", "closing", "draining"} /\ End(r)
      BY <2>6, <3>2 DEF Signal
    <3>4. at = r
      BY <1>3, <2>1, <3>3, EndCuts
    <3> QED
      BY <2>2, <3>1, <3>3, <3>4 DEF Accepting
  <2>7. ASSUME NEW r \in Replicas, NEW p \in Requests, Arrive(p, r) PROVE FALSE
    BY <1>3, <2>1, <2>7, NoOtherCuts
  <2>8. ASSUME NEW p \in Requests, Leave(p) \/ Finish(p) PROVE FALSE
    BY <1>3, <2>1, <2>2, <2>8, FinishCuts DEF Accepting
  <2>9. CASE Outage \/ UNCHANGED vars
    <3>1. request' = request
      BY <2>9 DEF Outage, StorageFails, StorageBack, RedisFails, RedisBack, vars
    <3> QED
      BY <1>3, <3>1
  <2> QED
    BY <1>3, <2>2, <2>3, <2>4, <2>5, <2>6, <2>7, <2>8, <2>9 DEF Next, Accepting
<1> HIDE DEF Inv
<1>4. Inv /\ [Next]_vars =>
        [\A q \in Requests :
           LET r == request[q].at
           IN request[q].pc = "running" /\ request[q].waiting /\ request'[q].pc = "cut" =>
                /\ proc[r] # "draining"
                /\ \/ faults' # faults
                   \/ r \in stopped
                   \/ signals' # signals /\ proc[r] = "bound"]_vars
  BY <1>3
<1> QED
  BY <1>1, <1>2, <1>4, PTL DEF Spec, NobodyWaitingIsCutOff
=============================================================================

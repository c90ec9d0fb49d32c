------------------------------ MODULE WorkLease ------------------------------
(***************************************************************************)
(* RedisWorkCoordinator and HeartbeatTask (storage/redis_queue.py): workers *)
(* claim a target with SET NX EX, a background heartbeat renews the lease   *)
(* with GET then EXPIRE, and release is GET then DELETE.  A coordinator     *)
(* without a Redis client, or whose Redis call raises, uses the dictionary  *)
(* of its own process.                                                      *)
(*                                                                          *)
(* Time is relative: a Redis key carries the time it has left, a dictionary *)
(* entry and a pending call the time since they were made.  Every await on  *)
(* Redis is a step of its own; code between two awaits is one step, because *)
(* the coordinator runs on one event loop.                                  *)
(***************************************************************************)
EXTENDS Naturals

CONSTANTS Worker, Target, Coordinator,
          NoWorker, NoTarget,
          CoordinatorOf,    \* the coordinator (process) of every worker
          UseRedis,         \* coordinators were given a Redis client
          DecodeResponses,  \* that client returns str, not bytes
          HeartbeatChoice,  \* may a worker start a heartbeat / go without one
          LeaseTTL,         \* lease_ttl
          Interval,         \* interval_seconds
          MaxLatency,       \* longest call or late timer, in clock ticks
          MaxFaults         \* bound: Redis calls that raise

ASSUME ConstantsAssumption ==
  /\ NoWorker \notin Worker /\ NoTarget \notin Target
  /\ CoordinatorOf \in [Worker -> Coordinator]
  /\ UseRedis \in BOOLEAN /\ DecodeResponses \in BOOLEAN
  /\ HeartbeatChoice \in (SUBSET BOOLEAN) \ {{}}
  /\ LeaseTTL \in Nat \ {0} /\ Interval \in Nat \ {0}
  /\ MaxLatency \in Nat /\ MaxFaults \in Nat

VARIABLES redis,   \* lock:target:<id> on the server: its owner and time left
          local,   \* _in_memory_locks of every coordinator: owner and age
          main,    \* the worker's own task: where it is, on which target
          beat,    \* its HeartbeatTask
          lease,   \* time left of the lease the worker was last granted
          faults   \* Redis calls that have raised

vars == <<redis, local, main, beat, lease, faults>>

AgeCap == LeaseTTL + MaxLatency   \* bound: older entries are all expired
Free == [owner |-> NoWorker, left |-> 0]
NoEntry == [owner |-> NoWorker, age |-> 0]
Idle == [pc |-> "idle", target |-> NoTarget, age |-> 0]
Off == [pc |-> "off", age |-> 0]

TypeOK ==
  /\ redis \in [Target -> [owner : Worker \cup {NoWorker}, left : 0..LeaseTTL]]
  /\ local \in [Coordinator ->
                  [Target -> [owner : Worker \cup {NoWorker}, age : 0..AgeCap]]]
  /\ main \in [Worker -> [pc : {"idle", "claiming", "working", "releasing", "deleting"},
                          target : Target \cup {NoTarget}, age : 0..MaxLatency]]
  /\ \A w \in Worker : main[w].pc = "idle" <=> main[w].target = NoTarget
  /\ beat \in [Worker -> [pc : {"off", "sleeping", "renewing", "extending", "ended"},
                          age : 0..(Interval + MaxLatency)]]
  /\ lease \in [Worker -> 0..LeaseTTL]
  /\ faults \in 0..MaxFaults

Init ==
  /\ redis = [t \in Target |-> Free]
  /\ local = [c \in Coordinator |-> [t \in Target |-> NoEntry]]
  /\ main = [w \in Worker |-> Idle]
  /\ beat = [w \in Worker |-> Off]
  /\ lease = [w \in Worker |-> 0]
  /\ faults = 0

----------------------------------------------------------------------------
\* What the code computes on a lease.

\* The lease lasts lease_ttl from the time.time() read when the call began.
Remaining(age) == IF age < LeaseTTL THEN LeaseTTL - age ELSE 0

\* Mutant: the entry is taken over one tick before it expires.
Locked_Early(c, t, age) == /\ local[c][t].owner # NoWorker
                           /\ local[c][t].age + 1 < LeaseTTL + age
\* A dictionary entry still locks a target for a call made age ago.
Locked(c, t, age) == /\ local[c][t].owner # NoWorker
                     /\ local[c][t].age < LeaseTTL + age

\* SET lock:target:<t> w NX EX ttl.
\* Mutants: without NX; a refused SET that extends the lease it met.
SetNX_Overwrites(t, w) == [redis EXCEPT ![t] = [owner |-> w, left |-> LeaseTTL]]
SetNX_Extends(t, w) == IF redis[t].owner = NoWorker
                       THEN [redis EXCEPT ![t] = [owner |-> w, left |-> LeaseTTL]]
                       ELSE [redis EXCEPT ![t].left = LeaseTTL]
SetNX(t, w) == IF redis[t].owner = NoWorker
               THEN [redis EXCEPT ![t] = [owner |-> w, left |-> LeaseTTL]]
               ELSE redis

\* Mutant: renewal forgets EXPIRE.
Expire_Forgotten(t) == redis
\* EXPIRE extends whatever key is there, whoever owns it.
Expire(t) == IF redis[t].owner = NoWorker
             THEN redis ELSE [redis EXCEPT ![t].left = LeaseTTL]

Delete(t) == [redis EXCEPT ![t] = Free]

\* Mutant: a bytes reply is compared with a str.
OwnedBy_Undecoded(t, w) == ~DecodeResponses /\ redis[t].owner = w
\* The reply to GET makes the call go on to its second command, ...
OwnedBy(t, w) == redis[t].owner = w
\* ... or raises: .decode() of another worker's name that is already a str.
DecodeFails(t, w) == DecodeResponses /\ redis[t].owner \notin {w, NoWorker}

\* The dictionary entry of the worker's target is its own.
\* Mutant: any owner will do.
OwnEntry_Anyone(w) == local[CoordinatorOf[w]][main[w].target].owner # NoWorker
OwnEntry(w) == local[CoordinatorOf[w]][main[w].target].owner = w

----------------------------------------------------------------------------
\* claim_target.

\* The worker gets its token and, if it uses one, starts the heartbeat.
Grant(w, t, age) ==
  /\ main' = [main EXCEPT ![w] = [pc |-> "working", target |-> t, age |-> 0]]
  /\ lease' = [lease EXCEPT ![w] = Remaining(age)]
  /\ \E b \in HeartbeatChoice :
       beat' = [beat EXCEPT ![w] = IF b THEN [pc |-> "sleeping", age |-> 0] ELSE Off]

Refuse(w) == /\ main' = [main EXCEPT ![w] = Idle]
             /\ UNCHANGED <<beat, lease>>

\* The in-memory part of claim_target, for a call made age ago.
ClaimInMemory(w, t, age) ==
  LET c == CoordinatorOf[w] IN
  IF Locked(c, t, age)
  THEN Refuse(w) /\ UNCHANGED local
  ELSE /\ local' = [local EXCEPT ![c][t] = [owner |-> w, age |-> age]]
       /\ Grant(w, t, age)

ClaimLocal(w, t) ==
  /\ ~UseRedis
  /\ main[w].pc = "idle"
  /\ ClaimInMemory(w, t, 0)
  /\ UNCHANGED <<redis, faults>>

ClaimSend(w, t) ==
  /\ UseRedis
  /\ main[w].pc = "idle"
  /\ main' = [main EXCEPT ![w] = [pc |-> "claiming", target |-> t, age |-> 0]]
  /\ UNCHANGED <<redis, local, beat, lease, faults>>

ClaimSet(w) ==
  LET t == main[w].target IN
  /\ main[w].pc = "claiming"
  /\ redis' = SetNX(t, w)
  /\ IF redis[t].owner = NoWorker THEN Grant(w, t, main[w].age) ELSE Refuse(w)
  /\ UNCHANGED <<local, faults>>

\* A Redis call raised, after or before the server carried it out.
Raises(effect) == /\ faults < MaxFaults
                  /\ faults' = faults + 1
                  /\ redis' \in {redis, effect}

ClaimError(w) ==
  LET t == main[w].target IN
  /\ main[w].pc = "claiming"
  /\ Raises(SetNX(t, w))
  /\ ClaimInMemory(w, t, main[w].age)

----------------------------------------------------------------------------
\* renew_lease, called by HeartbeatTask._run_heartbeat after every sleep.

\* renew_lease returned True: the loop sleeps again.
Renewed(w, age) ==
  /\ lease' = [lease EXCEPT ![w] = Remaining(age)]
  /\ beat' = [beat EXCEPT ![w] = [pc |-> "sleeping", age |-> 0]]

\* It returned False: the loop ends and nobody tells the worker.
NotRenewed(w) ==
  /\ beat' = [beat EXCEPT ![w] = [pc |-> "ended", age |-> 0]]
  /\ UNCHANGED lease

\* The in-memory part of renew_lease: the owner may renew an expired entry.
RenewInMemory(w, age) ==
  LET c == CoordinatorOf[w]
      t == main[w].target
  IN IF OwnEntry(w)
     THEN /\ local' = [local EXCEPT ![c][t].age = age]
          /\ Renewed(w, age)
     ELSE NotRenewed(w) /\ UNCHANGED local

HeartbeatWake(w) ==
  /\ beat[w].pc = "sleeping"
  /\ beat[w].age >= Interval
  /\ IF UseRedis
     THEN /\ beat' = [beat EXCEPT ![w] = [pc |-> "renewing", age |-> 0]]
          /\ UNCHANGED <<local, lease>>
     ELSE RenewInMemory(w, 0)
  /\ UNCHANGED <<redis, main, faults>>

RenewGet(w) ==
  LET t == main[w].target IN
  /\ beat[w].pc = "renewing"
  /\ IF OwnedBy(t, w)
     THEN beat' = [beat EXCEPT ![w].pc = "extending"] /\ UNCHANGED <<local, lease>>
     ELSE IF DecodeFails(t, w)
          THEN RenewInMemory(w, beat[w].age)
          ELSE NotRenewed(w) /\ UNCHANGED local
  /\ UNCHANGED <<redis, main, faults>>

\* The reply to EXPIRE is not looked at.
RenewExpire(w) ==
  /\ beat[w].pc = "extending"
  /\ redis' = Expire(main[w].target)
  /\ Renewed(w, beat[w].age)
  /\ UNCHANGED <<local, main, faults>>

RenewError(w) ==
  /\ beat[w].pc \in {"renewing", "extending"}
  /\ Raises(IF beat[w].pc = "extending" THEN Expire(main[w].target) ELSE redis)
  /\ RenewInMemory(w, beat[w].age)
  /\ UNCHANGED main

----------------------------------------------------------------------------
\* HeartbeatTask.stop followed by release_target.

\* Mutant: the worker keeps the target it has let go.
Done_KeepsTarget(w) == /\ main' = [main EXCEPT ![w].pc = "idle"]
                       /\ lease' = [lease EXCEPT ![w] = 0]
                       /\ beat' = [beat EXCEPT ![w] = Off]
Done(w) == /\ main' = [main EXCEPT ![w] = Idle]
           /\ lease' = [lease EXCEPT ![w] = 0]
           /\ beat' = [beat EXCEPT ![w] = Off]

ReleaseInMemory(w) ==
  LET c == CoordinatorOf[w]
      t == main[w].target
  IN /\ local' = IF OwnEntry(w)
                 THEN [local EXCEPT ![c][t] = NoEntry] ELSE local
     /\ Done(w)

ReleaseLocal(w) ==
  /\ ~UseRedis
  /\ main[w].pc = "working"
  /\ ReleaseInMemory(w)
  /\ UNCHANGED <<redis, faults>>

\* stop() cancels the heartbeat, in whatever await it is; then GET is sent.
ReleaseSend(w) ==
  /\ UseRedis
  /\ main[w].pc = "working"
  /\ main' = [main EXCEPT ![w] =
                [pc |-> "releasing", target |-> main[w].target, age |-> 0]]
  /\ beat' = [beat EXCEPT ![w] = Off]
  /\ UNCHANGED <<redis, local, lease, faults>>

ReleaseGet(w) ==
  LET t == main[w].target IN
  /\ main[w].pc = "releasing"
  /\ IF OwnedBy(t, w)
     THEN /\ main' = [main EXCEPT ![w].pc = "deleting"]
          /\ UNCHANGED <<local, beat, lease>>
     ELSE IF DecodeFails(t, w)
          THEN ReleaseInMemory(w)
          ELSE Done(w) /\ UNCHANGED local
  /\ UNCHANGED <<redis, faults>>

ReleaseDelete(w) ==
  /\ main[w].pc = "deleting"
  /\ redis' = Delete(main[w].target)
  /\ Done(w)
  /\ UNCHANGED <<local, faults>>

ReleaseError(w) ==
  /\ main[w].pc \in {"releasing", "deleting"}
  /\ Raises(IF main[w].pc = "deleting" THEN Delete(main[w].target) ELSE redis)
  /\ ReleaseInMemory(w)

----------------------------------------------------------------------------
\* recover_dead_workers: with Redis it leaves expiry to the server.
\* Mutant: it never finds one.
StaleKeys_Never(c) == {}
StaleKeys(c) == {t \in Target : local[c][t].owner # NoWorker /\ local[c][t].age >= LeaseTTL}

RecoverDeadWorkers(c) ==
  /\ ~UseRedis
  /\ StaleKeys(c) # {}
  /\ local' = [local EXCEPT ![c] =
                 [t \in Target |-> IF t \in StaleKeys(c) THEN NoEntry ELSE local[c][t]]]
  /\ UNCHANGED <<redis, main, beat, lease, faults>>

\* A worker's task ends without releasing: an exception, a cancellation.
Abandon(w) ==
  /\ main[w].pc # "idle"
  /\ Done(w)
  /\ UNCHANGED <<redis, local, faults>>

\* The process dies, with its workers, their heartbeats and its dictionary.
Crash(c) ==
  LET Here == {w \in Worker : CoordinatorOf[w] = c} IN
  /\ \E w \in Here : main[w].pc # "idle"
  /\ local' = [local EXCEPT ![c] = [t \in Target |-> NoEntry]]
  /\ main' = [w \in Worker |-> IF w \in Here THEN Idle ELSE main[w]]
  /\ beat' = [w \in Worker |-> IF w \in Here THEN Off ELSE beat[w]]
  /\ lease' = [w \in Worker |-> IF w \in Here THEN 0 ELSE lease[w]]
  /\ UNCHANGED <<redis, faults>>

\* One unit of time.  No call stays pending, and no timer fires late, by more
\* than MaxLatency.
Pending(w) == main[w].pc \in {"claiming", "releasing", "deleting"}

Deadline(w) == CASE beat[w].pc = "sleeping" -> Interval + MaxLatency
                 [] beat[w].pc \in {"renewing", "extending"} -> MaxLatency
                 [] OTHER -> 0

Tick ==
  /\ \A w \in Worker : /\ Pending(w) => main[w].age < MaxLatency
                       /\ beat[w].pc \notin {"off", "ended"} => beat[w].age < Deadline(w)
  /\ redis' = [t \in Target |-> IF redis[t].left <= 1 THEN Free
                                ELSE [redis[t] EXCEPT !.left = @ - 1]]
  /\ local' = [c \in Coordinator |-> [t \in Target |->
                 IF local[c][t].owner = NoWorker \/ local[c][t].age = AgeCap
                 THEN local[c][t] ELSE [local[c][t] EXCEPT !.age = @ + 1]]]
  /\ main' = [w \in Worker |-> IF Pending(w) THEN [main[w] EXCEPT !.age = @ + 1]
                               ELSE main[w]]
  /\ beat' = [w \in Worker |-> IF beat[w].pc \in {"off", "ended"} THEN beat[w]
                               ELSE [beat[w] EXCEPT !.age = @ + 1]]
  /\ lease' = [w \in Worker |-> IF lease[w] = 0 THEN 0 ELSE lease[w] - 1]
  /\ UNCHANGED faults

Replies(w) == \/ ClaimSet(w) \/ RenewGet(w) \/ RenewExpire(w)
              \/ ReleaseGet(w) \/ ReleaseDelete(w)

Next ==
  \/ \E w \in Worker, t \in Target : ClaimLocal(w, t) \/ ClaimSend(w, t)
  \/ \E w \in Worker : \/ Replies(w)
                       \/ ClaimError(w) \/ RenewError(w) \/ ReleaseError(w)
                       \/ HeartbeatWake(w)
                       \/ ReleaseLocal(w) \/ ReleaseSend(w) \/ Abandon(w)
  \/ \E c \in Coordinator : RecoverDeadWorkers(c) \/ Crash(c)
  \/ Tick

Spec == Init /\ [][Next]_vars

\* Time passes, sent commands are answered, due timers fire and, without
\* Redis, someone calls recover_dead_workers from time to time.
FairSpec == /\ Spec
            /\ WF_vars(Tick)
            /\ \A w \in Worker : WF_vars(Replies(w)) /\ WF_vars(HeartbeatWake(w))
            /\ \A c \in Coordinator : WF_vars(RecoverDeadWorkers(c))

----------------------------------------------------------------------------
\* Properties.

Holds(w, t) == main[w].target = t /\ lease[w] > 0

\* No two workers are inside a granted lease of the same target: the exclusion
\* that claim_target's "atomic lease with TTL" is for, until a call to Redis
\* raises and sends a coordinator to its own dictionary.
Exclusion == faults = 0 => \A v, w \in Worker : \A t \in Target :
                             Holds(v, t) /\ Holds(w, t) => v = w

\* A granted lease never outlasts the record that excludes the others: a worker
\* inside its lease owns the Redis key or an entry of its own process's
\* dictionary, and that record lives at least as long.  So two workers inside a
\* lease of one target cannot both rest on the same lock table.  It takes a
\* raised call and a late one together to break it: the heartbeat of a lease
\* granted by the dictionary finds a key its worker has left behind, and extends
\* it too late.
InMemory(w) == LET e == local[CoordinatorOf[w]][main[w].target]
               IN e.owner = w /\ e.age + lease[w] <= LeaseTTL
InRedis(w) == LET k == redis[main[w].target]
              IN k.owner = w /\ k.left >= lease[w]
LeaseBacked == faults = 0 \/ MaxLatency = 0 =>
                 \A w \in Worker : lease[w] > 0 => InMemory(w) \/ InRedis(w)

\* A worker with a heartbeat keeps its lease as long as it works, until a call
\* raises: it is never crawling a target that somebody else may claim.
WorkingKeepsLease ==
  faults = 0 => \A w \in Worker : main[w].pc = "working" => lease[w] > 0

\* A renewal or a release by one worker never extends, shortens or deletes the
\* lease of another; only its owner's calls and the clock touch a lease.  Like
\* LeaseBacked it takes a raised call and a late one together to break it.
Moves(w) == main'[w] # main[w] \/ beat'[w] # beat[w]
OnlyOwnerTouches ==
  [][\A t \in Target : redis[t].owner # NoWorker /\ redis'[t] # redis[t] =>
       \/ Tick
       \/ Moves(redis[t].owner)
       \/ faults > 0 /\ MaxLatency > 0]_vars

\* The same for the dictionary of a process.
OnlyOwnerTouchesLocal ==
  [][\A c \in Coordinator, t \in Target :
       LET e == local[c][t]
       IN e.owner # NoWorker /\ e.age < LeaseTTL /\ local'[c][t] # e =>
            \/ Tick \/ Crash(c)
            \/ Moves(e.owner)]_vars

\* The dead-worker recovery of recover_dead_workers and of key expiry: a lease
\* whose worker is gone does not stay.  Entries a coordinator with Redis has
\* fallen back to are never removed, only taken over once they have expired.
Orphaned(w, t) == /\ main[w].target # t
                  /\ \/ redis[t].owner = w
                     \/ ~UseRedis /\ local[CoordinatorOf[w]][t].owner = w
DeadWorkerRecovered ==
  \A w \in Worker, t \in Target : Orphaned(w, t) ~> ~Orphaned(w, t)

\* The coordinator implements the lease service.
holder == [t \in Target |-> IF \E w \in Worker : Holds(w, t)
                            THEN CHOOSE w \in Worker : Holds(w, t) ELSE NoWorker]
Service == INSTANCE LeaseService
ServiceSpec == Service!Spec
=============================================================================

-------------------------- MODULE WorkLeaseProofs --------------------------
(***************************************************************************)
(* Proofs about WorkLease for any number of workers, targets and            *)
(* coordinators and any lease length, heartbeat interval and latency.       *)
(***************************************************************************)
EXTENDS WorkLease, TLAPS

USE ConstantsAssumption DEF ConstantsAssumption

\* TypeOK by variable, and what makes it inductive: a heartbeat that is not
\* over belongs to a working task, and its call is not older than MaxLatency.
RedisOK == redis \in [Target -> [owner : Worker \cup {NoWorker}, left : 0..LeaseTTL]]
LocalOK == local \in [Coordinator ->
                        [Target -> [owner : Worker \cup {NoWorker}, age : 0..AgeCap]]]
MainOK == /\ main \in [Worker -> [pc : {"idle", "claiming", "working", "releasing", "deleting"},
                                  target : Target \cup {NoTarget}, age : 0..MaxLatency]]
          /\ \A w \in Worker : main[w].pc = "idle" <=> main[w].target = NoTarget
BeatOK == /\ beat \in [Worker -> [pc : {"off", "sleeping", "renewing", "extending", "ended"},
                                  age : 0..(Interval + MaxLatency)]]
          /\ \A w \in Worker :
               /\ beat[w].pc \in {"sleeping", "renewing", "extending"} => main[w].pc = "working"
               /\ beat[w].pc \in {"renewing", "extending"} => beat[w].age <= MaxLatency
LeaseOK == lease \in [Worker -> 0..LeaseTTL]
FaultsOK == faults \in 0..MaxFaults

WorkersOK == MainOK /\ BeatOK /\ LeaseOK
TypeInv == RedisOK /\ LocalOK /\ WorkersOK /\ FaultsOK

\* The remaining time of a lease is between 0 and lease_ttl.
LEMMA RemainingType ==
  ASSUME NEW age \in Nat
  PROVE  /\ Remaining(age) \in 0..LeaseTTL
         /\ Remaining(age) > 0 => age + Remaining(age) = LeaseTTL
  BY DEF Remaining

\* Every command of the server leaves well-formed keys.
LEMMA ServerType ==
  ASSUME RedisOK, NEW t \in Target, NEW w \in Worker
  PROVE  LET Keys == [Target -> [owner : Worker \cup {NoWorker}, left : 0..LeaseTTL]]
         IN SetNX(t, w) \in Keys /\ Expire(t) \in Keys /\ Delete(t) \in Keys
<1> DEFINE Key == [owner : Worker \cup {NoWorker}, left : 0..LeaseTTL]
<1>1. /\ [owner |-> w, left |-> LeaseTTL] \in Key
      /\ Free \in Key
      /\ [redis[t] EXCEPT !.left = LeaseTTL] \in Key
  BY DEF Free, RedisOK
<1>2. \A k \in Key : [redis EXCEPT ![t] = k] \in [Target -> Key]
  BY DEF RedisOK
<1>3. [redis EXCEPT ![t].left = LeaseTTL] = [redis EXCEPT ![t] = [redis[t] EXCEPT !.left = LeaseTTL]]
  BY DEF RedisOK
<1> QED
  BY <1>1, <1>2, <1>3 DEF SetNX, Expire, Delete, RedisOK

\* A granted claim leaves the workers well-formed.
LEMMA GrantType ==
  ASSUME WorkersOK, NEW w \in Worker, NEW t \in Target, NEW age \in Nat, Grant(w, t, age)
  PROVE  WorkersOK'
  BY RemainingType DEF WorkersOK, MainOK, BeatOK, LeaseOK, Grant, Off

\* So does a refused one,
LEMMA RefuseType ==
  ASSUME WorkersOK, NEW w \in Worker, main[w].pc \in {"idle", "claiming"}, Refuse(w)
  PROVE  WorkersOK'
  BY DEF WorkersOK, MainOK, BeatOK, LeaseOK, Refuse, Idle

\* the end of a release or of a task,
LEMMA DoneType ==
  ASSUME WorkersOK, NEW w \in Worker, Done(w)
  PROVE  WorkersOK'
  BY DEF WorkersOK, MainOK, BeatOK, LeaseOK, Done, Idle, Off

\* and either outcome of a renewal.
LEMMA RenewType ==
  ASSUME WorkersOK, NEW w \in Worker, main[w].pc = "working", NEW age \in Nat,
         Renewed(w, age) \/ NotRenewed(w), UNCHANGED main
  PROVE  WorkersOK'
<1>1. Remaining(age) \in 0..LeaseTTL
  BY RemainingType
<1>2. LeaseOK'
  BY <1>1 DEF WorkersOK, LeaseOK, Renewed, NotRenewed
<1>3. MainOK'
  BY DEF WorkersOK, MainOK
<1>4. BeatOK'
  BY DEF WorkersOK, BeatOK, Renewed, NotRenewed
<1> QED
  BY <1>2, <1>3, <1>4 DEF WorkersOK

\* The in-memory parts of the three operations.
LEMMA InMemoryType ==
  ASSUME TypeInv, NEW w \in Worker
  PROVE  /\ \A t \in Target, age \in 0..MaxLatency :
              main[w].pc \in {"idle", "claiming"} /\ ClaimInMemory(w, t, age)
                => LocalOK' /\ WorkersOK'
         /\ \A age \in 0..MaxLatency :
              main[w].pc = "working" /\ RenewInMemory(w, age) /\ UNCHANGED main
                => LocalOK' /\ WorkersOK'
         /\ main[w].pc # "idle" /\ ReleaseInMemory(w) => LocalOK' /\ WorkersOK'
<1> DEFINE Entry == [owner : Worker \cup {NoWorker}, age : 0..AgeCap]
<1> USE DEF TypeInv
<1>1. ASSUME NEW t \in Target, NEW age \in 0..MaxLatency,
             main[w].pc \in {"idle", "claiming"}, ClaimInMemory(w, t, age)
      PROVE  LocalOK' /\ WorkersOK'
  <2>1. [owner |-> w, age |-> age] \in Entry
    BY DEF AgeCap
  <2>2. [local EXCEPT ![CoordinatorOf[w]][t] = [owner |-> w, age |-> age]]
          \in [Coordinator -> [Target -> Entry]]
    BY <2>1 DEF LocalOK
  <2>3. local' \in {local, [local EXCEPT ![CoordinatorOf[w]][t] = [owner |-> w, age |-> age]]}
    BY <1>1 DEF ClaimInMemory
  <2>4. LocalOK'
    BY <2>2, <2>3 DEF LocalOK
  <2>5. WorkersOK'
    BY <1>1, GrantType, RefuseType DEF ClaimInMemory
  <2> QED
    BY <2>4, <2>5
<1>2. ASSUME NEW age \in 0..MaxLatency,
             main[w].pc = "working", RenewInMemory(w, age), UNCHANGED main
      PROVE  LocalOK' /\ WorkersOK'
  <2> DEFINE c == CoordinatorOf[w]
             t == main[w].target
  <2>1. t \in Target /\ c \in Coordinator
    BY <1>2 DEF WorkersOK, MainOK
  <2>2. local[c][t] \in Entry /\ age \in 0..AgeCap
    BY <2>1 DEF LocalOK, AgeCap
  <2>3. [local EXCEPT ![c][t].age = age] \in [Coordinator -> [Target -> Entry]]
    BY <2>1, <2>2 DEF LocalOK
  <2>4. local' \in {local, [local EXCEPT ![c][t].age = age]}
    BY <1>2 DEF RenewInMemory
  <2>5. LocalOK'
    BY <2>3, <2>4 DEF LocalOK
  <2>6. Renewed(w, age) \/ NotRenewed(w)
    BY <1>2 DEF RenewInMemory
  <2> QED
    BY <1>2, <2>5, <2>6, RenewType
<1>3. ASSUME main[w].pc # "idle", ReleaseInMemory(w)
      PROVE  LocalOK' /\ WorkersOK'
  <2>1. NoEntry \in Entry
    BY DEF NoEntry, AgeCap
  <2>2. main[w].target \in Target
    BY <1>3 DEF WorkersOK, MainOK
  <2>3. [local EXCEPT ![CoordinatorOf[w]][main[w].target] = NoEntry]
          \in [Coordinator -> [Target -> Entry]]
    BY <2>1, <2>2 DEF LocalOK
  <2>4. LocalOK'
    BY <1>3, <2>3 DEF ReleaseInMemory, LocalOK
  <2> QED
    BY <1>3, <2>4, DoneType DEF ReleaseInMemory
<1> QED
  BY <1>1, <1>2, <1>3

\* Working workers, in whatever call, are on a target.
LEMMA OnTarget ==
  ASSUME WorkersOK, NEW w \in Worker
  PROVE  /\ main[w].pc # "idle" => main[w].target \in Target
         /\ beat[w].pc \in {"sleeping", "renewing", "extending"} =>
              main[w].pc = "working" /\ main[w].target \in Target
         /\ main[w].age \in 0..MaxLatency
         /\ beat[w].pc \in {"renewing", "extending"} => beat[w].age \in 0..MaxLatency
  BY DEF WorkersOK, MainOK, BeatOK

\* A call that raises leaves a well-formed server.
LEMMA RaisesType ==
  ASSUME RedisOK, FaultsOK, NEW effect, effect = redis \/ effect \in
           [Target -> [owner : Worker \cup {NoWorker}, left : 0..LeaseTTL]],
         Raises(effect)
  PROVE  RedisOK' /\ FaultsOK'
  BY DEF Raises, RedisOK, FaultsOK

\* claim_target keeps the types.
LEMMA ClaimStepType ==
  ASSUME TypeInv, NEW w \in Worker
  PROVE  /\ \A t \in Target : ClaimLocal(w, t) \/ ClaimSend(w, t) => TypeInv'
         /\ ClaimSet(w) \/ ClaimError(w) => TypeInv'
<1>1. ASSUME NEW t \in Target, ClaimLocal(w, t) PROVE TypeInv'
  <2>1. LocalOK' /\ WorkersOK'
    BY <1>1, InMemoryType DEF ClaimLocal
  <2> QED
    BY <1>1, <2>1 DEF ClaimLocal, TypeInv, RedisOK, FaultsOK
<1>2. ASSUME NEW t \in Target, ClaimSend(w, t) PROVE TypeInv'
  <2>1. WorkersOK'
    BY <1>2 DEF ClaimSend, TypeInv, WorkersOK, MainOK, BeatOK, LeaseOK
  <2> QED
    BY <1>2, <2>1 DEF ClaimSend, TypeInv, RedisOK, LocalOK, FaultsOK
<1>3. ASSUME ClaimSet(w) PROVE TypeInv'
  <2>1. main[w].target \in Target /\ main[w].age \in Nat
    BY <1>3, OnTarget DEF ClaimSet, TypeInv
  <2>2. WorkersOK'
    BY <1>3, <2>1, GrantType, RefuseType DEF ClaimSet, TypeInv
  <2>3. RedisOK'
    BY <1>3, <2>1, ServerType DEF ClaimSet, TypeInv, RedisOK
  <2> QED
    BY <1>3, <2>2, <2>3 DEF ClaimSet, TypeInv, LocalOK, FaultsOK
<1>4. ASSUME ClaimError(w) PROVE TypeInv'
  <2>1. main[w].target \in Target /\ main[w].age \in 0..MaxLatency
    BY <1>4, OnTarget DEF ClaimError, TypeInv
  <2>2. LocalOK' /\ WorkersOK'
    BY <1>4, <2>1, InMemoryType DEF ClaimError
  <2>3. RedisOK' /\ FaultsOK'
    BY <1>4, <2>1, ServerType, RaisesType DEF ClaimError, TypeInv
  <2> QED
    BY <2>2, <2>3 DEF TypeInv
<1> QED
  BY <1>1, <1>2, <1>3, <1>4

\* renew_lease and the heartbeat keep the types.
LEMMA RenewStepType ==
  ASSUME TypeInv, NEW w \in Worker,
         HeartbeatWake(w) \/ RenewGet(w) \/ RenewExpire(w) \/ RenewError(w)
  PROVE  TypeInv'
<1> USE DEF TypeInv
<1> DEFINE t == main[w].target
<1>0. main[w].pc = "working" /\ t \in Target
  BY OnTarget DEF HeartbeatWake, RenewGet, RenewExpire, RenewError
<1>1. CASE HeartbeatWake(w)
  <2>1. CASE UseRedis
    <3>1. MainOK' /\ LeaseOK'
      BY <1>1, <2>1 DEF HeartbeatWake, WorkersOK, MainOK, LeaseOK
    <3>2. BeatOK'
      BY <1>0, <1>1, <2>1 DEF HeartbeatWake, WorkersOK, BeatOK
    <3> QED
      BY <1>1, <2>1, <3>1, <3>2 DEF HeartbeatWake, WorkersOK, RedisOK, LocalOK, FaultsOK
  <2>2. CASE ~UseRedis
    <3>1. LocalOK' /\ WorkersOK'
      BY <1>0, <1>1, <2>2, InMemoryType DEF HeartbeatWake
    <3> QED
      BY <1>1, <3>1 DEF HeartbeatWake, RedisOK, FaultsOK
  <2> QED
    BY <2>1, <2>2
<1>2. CASE RenewGet(w)
  <2>1. beat[w].age \in 0..MaxLatency
    BY <1>2, OnTarget DEF RenewGet
  <2>2. CASE OwnedBy(t, w)
    <3>1. MainOK' /\ LeaseOK'
      BY <1>2, <2>2 DEF RenewGet, WorkersOK, MainOK, LeaseOK
    <3>2. BeatOK'
      BY <1>0, <1>2, <2>1, <2>2 DEF RenewGet, WorkersOK, BeatOK
    <3> QED
      BY <1>2, <2>2, <3>1, <3>2 DEF RenewGet, WorkersOK, RedisOK, LocalOK, FaultsOK
  <2>3. CASE ~OwnedBy(t, w) /\ DecodeFails(t, w)
    <3>1. LocalOK' /\ WorkersOK'
      BY <1>0, <1>2, <2>1, <2>3, InMemoryType DEF RenewGet
    <3> QED
      BY <1>2, <3>1 DEF RenewGet, RedisOK, FaultsOK
  <2>4. CASE ~OwnedBy(t, w) /\ ~DecodeFails(t, w)
    <3>1. WorkersOK'
      BY <1>0, <1>2, <2>1, <2>4, RenewType DEF RenewGet
    <3> QED
      BY <1>2, <2>4, <3>1 DEF RenewGet, RedisOK, LocalOK, FaultsOK
  <2> QED
    BY <2>2, <2>3, <2>4
<1>3. CASE RenewExpire(w)
  <2>1. beat[w].age \in 0..MaxLatency
    BY <1>3, OnTarget DEF RenewExpire
  <2>2. WorkersOK'
    BY <1>0, <1>3, <2>1, RenewType DEF RenewExpire
  <2>3. RedisOK'
    BY <1>0, <1>3, ServerType DEF RenewExpire, RedisOK
  <2> QED
    BY <1>3, <2>2, <2>3 DEF RenewExpire, LocalOK, FaultsOK
<1>4. CASE RenewError(w)
  <2>1. beat[w].age \in 0..MaxLatency
    BY <1>4, OnTarget DEF RenewError
  <2>2. LocalOK' /\ WorkersOK'
    BY <1>0, <1>4, <2>1, InMemoryType DEF RenewError
  <2>3. RedisOK' /\ FaultsOK'
    BY <1>0, <1>4, ServerType, RaisesType DEF RenewError
  <2> QED
    BY <2>2, <2>3
<1> QED
  BY <1>1, <1>2, <1>3, <1>4

\* release_target keeps the types.
LEMMA ReleaseStepType ==
  ASSUME TypeInv, NEW w \in Worker,
         \/ ReleaseLocal(w) \/ ReleaseSend(w) \/ ReleaseGet(w)
         \/ ReleaseDelete(w) \/ ReleaseError(w) \/ Abandon(w)
  PROVE  TypeInv'
<1> USE DEF TypeInv
<1> DEFINE t == main[w].target
<1>0. main[w].pc # "idle" /\ t \in Target
  BY OnTarget DEF ReleaseLocal, ReleaseSend, ReleaseGet, ReleaseDelete, ReleaseError, Abandon
<1>1. CASE ReleaseLocal(w)
  <2>1. LocalOK' /\ WorkersOK'
    BY <1>0, <1>1, InMemoryType DEF ReleaseLocal
  <2> QED
    BY <1>1, <2>1 DEF ReleaseLocal, RedisOK, FaultsOK
<1>2. CASE ReleaseSend(w)
  <2>0. /\ main' = [main EXCEPT ![w] = [pc |-> "releasing", target |-> t, age |-> 0]]
        /\ beat' = [beat EXCEPT ![w] = Off]
    BY <1>2 DEF ReleaseSend
  <2>1. MainOK' /\ LeaseOK'
    BY <1>0, <1>2, <2>0 DEF ReleaseSend, WorkersOK, MainOK, LeaseOK
  <2>2. BeatOK'
    BY <2>0 DEF WorkersOK, MainOK, BeatOK, Off
  <2> QED
    BY <1>2, <2>1, <2>2 DEF ReleaseSend, WorkersOK, RedisOK, LocalOK, FaultsOK
<1>3. CASE ReleaseGet(w)
  <2>1. CASE OwnedBy(t, w)
    <3>1. MainOK' /\ LeaseOK'
      BY <1>0, <1>3, <2>1 DEF ReleaseGet, WorkersOK, MainOK, LeaseOK
    <3>2. \A x \in Worker : main[x].pc = "working" => main'[x].pc = "working"
      BY <1>3, <2>1 DEF ReleaseGet, WorkersOK, MainOK
    <3>3. BeatOK'
      BY <1>3, <2>1, <3>2 DEF ReleaseGet, WorkersOK, BeatOK
    <3> QED
      BY <1>3, <2>1, <3>1, <3>3 DEF WorkersOK, ReleaseGet, RedisOK, LocalOK, FaultsOK
  <2>2. CASE ~OwnedBy(t, w) /\ DecodeFails(t, w)
    <3>1. LocalOK' /\ WorkersOK'
      BY <1>0, <1>3, <2>2, InMemoryType DEF ReleaseGet
    <3> QED
      BY <1>3, <3>1 DEF ReleaseGet, RedisOK, FaultsOK
  <2>3. CASE ~OwnedBy(t, w) /\ ~DecodeFails(t, w)
    <3>1. WorkersOK'
      BY <1>3, <2>3, DoneType DEF ReleaseGet
    <3> QED
      BY <1>3, <2>3, <3>1 DEF ReleaseGet, RedisOK, LocalOK, FaultsOK
  <2> QED
    BY <2>1, <2>2, <2>3
<1>4. CASE ReleaseDelete(w)
  <2>1. RedisOK' /\ WorkersOK'
    BY <1>0, <1>4, ServerType, DoneType DEF ReleaseDelete, RedisOK
  <2> QED
    BY <1>4, <2>1 DEF ReleaseDelete, LocalOK, FaultsOK
<1>5. CASE ReleaseError(w)
  <2>1. LocalOK' /\ WorkersOK'
    BY <1>0, <1>5, InMemoryType DEF ReleaseError
  <2>2. RedisOK' /\ FaultsOK'
    BY <1>0, <1>5, ServerType, RaisesType DEF ReleaseError
  <2> QED
    BY <2>1, <2>2
<1>6. CASE Abandon(w)
  <2>1. WorkersOK'
    BY <1>6, DoneType DEF Abandon
  <2> QED
    BY <1>6, <2>1 DEF Abandon, RedisOK, LocalOK, FaultsOK
<1> QED
  BY <1>1, <1>2, <1>3, <1>4, <1>5, <1>6

\* Recovery, the end of a task, a crash and time keep the types.
LEMMA SystemStepType ==
  ASSUME TypeInv,
         (\E c \in Coordinator : RecoverDeadWorkers(c) \/ Crash(c)) \/ Tick
  PROVE  TypeInv'
<1> USE DEF TypeInv
<1>1. ASSUME NEW c \in Coordinator, RecoverDeadWorkers(c) PROVE TypeInv'
  <2>1. LocalOK'
    BY <1>1 DEF RecoverDeadWorkers, LocalOK, NoEntry, AgeCap
  <2> QED
    BY <1>1, <2>1 DEF RecoverDeadWorkers, RedisOK, WorkersOK, MainOK, BeatOK, LeaseOK, FaultsOK
<1>2. ASSUME NEW c \in Coordinator, Crash(c) PROVE TypeInv'
  <2>1. LocalOK'
    BY <1>2 DEF Crash, LocalOK, NoEntry, AgeCap
  <2>2. MainOK'
    BY <1>2 DEF Crash, WorkersOK, MainOK, Idle
  <2>3. BeatOK'
    BY <1>2 DEF Crash, WorkersOK, MainOK, BeatOK, Idle, Off
  <2>4. LeaseOK'
    BY <1>2 DEF Crash, WorkersOK, LeaseOK
  <2> QED
    BY <1>2, <2>1, <2>2, <2>3, <2>4 DEF Crash, RedisOK, WorkersOK, FaultsOK
<1>3. ASSUME Tick PROVE TypeInv'
  <2>1. RedisOK'
    <3> DEFINE Key == [owner : Worker \cup {NoWorker}, left : 0..LeaseTTL]
               Aged(t) == IF redis[t].left <= 1 THEN Free ELSE [redis[t] EXCEPT !.left = @ - 1]
    <3>1. \A t \in Target : Aged(t) \in Key
      BY DEF RedisOK, Free
    <3>2. redis' = [t \in Target |-> Aged(t)]
      BY <1>3 DEF Tick
    <3> HIDE DEF Aged
    <3> QED
      BY <3>1, <3>2 DEF RedisOK
  <2>2. LocalOK'
    <3> DEFINE Entry == [owner : Worker \cup {NoWorker}, age : 0..AgeCap]
               Aged(c, t) == IF local[c][t].owner = NoWorker \/ local[c][t].age = AgeCap
                             THEN local[c][t] ELSE [local[c][t] EXCEPT !.age = @ + 1]
    <3>1. ASSUME NEW c \in Coordinator, NEW t \in Target PROVE Aged(c, t) \in Entry
      <4>1. AgeCap \in Nat /\ local[c][t] \in Entry
        BY DEF LocalOK, AgeCap
      <4>2. local[c][t].age # AgeCap => local[c][t].age + 1 \in 0..AgeCap
        BY <4>1
      <4> QED
        BY <4>1, <4>2
    <3>2. local' = [c \in Coordinator |-> [t \in Target |-> Aged(c, t)]]
      BY <1>3 DEF Tick
    <3> HIDE DEF Aged
    <3> QED
      BY <3>1, <3>2 DEF LocalOK
  <2>3. MainOK'
    BY <1>3 DEF Tick, WorkersOK, MainOK, Pending
  <2>4. BeatOK'
    BY <1>3 DEF Tick, WorkersOK, MainOK, BeatOK, Pending, Deadline
  <2>5. LeaseOK'
    <3>1. lease' = [w \in Worker |-> IF lease[w] = 0 THEN 0 ELSE lease[w] - 1]
      BY <1>3 DEF Tick
    <3>2. \A w \in Worker : (IF lease[w] = 0 THEN 0 ELSE lease[w] - 1) \in 0..LeaseTTL
      BY DEF WorkersOK, LeaseOK
    <3> QED
      BY <3>1, <3>2 DEF LeaseOK
  <2> QED
    BY <1>3, <2>1, <2>2, <2>3, <2>4, <2>5 DEF Tick, WorkersOK, FaultsOK
<1> QED
  BY <1>1, <1>2, <1>3

\* The steps above: TypeInv is inductive.
LEMMA TypeInitially == ASSUME Init PROVE TypeInv
  BY DEF Init, TypeInv, RedisOK, LocalOK, WorkersOK, MainOK, BeatOK, LeaseOK, FaultsOK,
         Free, NoEntry, Idle, Off, AgeCap

\* Every step of Next keeps the types.
LEMMA TypeStep == ASSUME TypeInv, [Next]_vars PROVE TypeInv'
<1>1. CASE UNCHANGED vars
  BY <1>1 DEF vars, TypeInv, RedisOK, LocalOK, WorkersOK, MainOK, BeatOK, LeaseOK, FaultsOK
<1>2. CASE Next
  BY <1>2, ClaimStepType, RenewStepType, ReleaseStepType, SystemStepType
     DEF Next, Replies
<1> QED
  BY <1>1, <1>2

\* The type invariant holds in every behaviour.
LEMMA TypeInductive == Spec => []TypeInv
  BY TypeInitially, TypeStep, PTL DEF Spec

\* Type correctness of the coordinator, with and without Redis: every key,
\* dictionary entry, call and lease stays within its bounds.
THEOREM TypeCorrect == Spec => []TypeOK
<1>1. TypeInv => TypeOK
  BY DEF TypeInv, TypeOK, RedisOK, LocalOK, WorkersOK, MainOK, BeatOK, LeaseOK, FaultsOK
<1> QED
  BY <1>1, TypeInductive, PTL

----------------------------------------------------------------------------
\* Without Redis, a worker inside its lease owns the entry of its target in
\* its process's dictionary; nobody waits for a server.
LocalInv ==
  \A w \in Worker : /\ main[w].pc \in {"idle", "working"}
                    /\ beat[w].pc \in {"off", "sleeping", "ended"}
                    /\ lease[w] > 0 => main[w].pc = "working" /\ InMemory(w)

\* A lease that a step leaves in force was in force before, or the target had
\* no holder in that process.
NoSteal == \A v, w \in Worker : \A t \in Target :
             CoordinatorOf[v] = CoordinatorOf[w] /\ Holds(v, t) /\ Holds(w, t)' => v = w

\* Two workers of one process cannot both rest on the same dictionary entry.
LEMMA OneEntryOneOwner ==
  ASSUME TypeInv, LocalInv, NEW v \in Worker, NEW w \in Worker, NEW t \in Target,
         Holds(v, t), CoordinatorOf[v] = CoordinatorOf[w]
  PROVE  /\ local[CoordinatorOf[w]][t].owner = v
         /\ Locked(CoordinatorOf[w], t, 0)
<1>1. lease[v] \in Nat /\ lease[v] > 0 /\ main[v].target = t
  BY DEF Holds, TypeInv, WorkersOK, LeaseOK
<1>2. /\ local[CoordinatorOf[v]][t].owner = v
      /\ local[CoordinatorOf[v]][t].age + lease[v] <= LeaseTTL
      /\ local[CoordinatorOf[v]][t].age \in Nat
  BY <1>1 DEF LocalInv, InMemory, TypeInv, LocalOK, AgeCap
<1> QED
  BY <1>1, <1>2 DEF Locked

\* The invariant for a worker whose own state, and the entry it relies on, a
\* step does not change.
LEMMA Undisturbed ==
  ASSUME TypeInv, LocalInv, NEW v \in Worker,
         main'[v] = main[v], beat'[v] = beat[v], lease'[v] = lease[v],
         lease[v] > 0 => local'[CoordinatorOf[v]][main[v].target]
                           = local[CoordinatorOf[v]][main[v].target]
  PROVE  /\ main'[v].pc \in {"idle", "working"}
         /\ beat'[v].pc \in {"off", "sleeping", "ended"}
         /\ lease'[v] > 0 => main'[v].pc = "working" /\ InMemory(v)'
  BY DEF LocalInv, InMemory

\* An in-memory claim keeps the invariant and steals no lease.
LEMMA ClaimLocalStep ==
  ASSUME TypeInv, LocalInv, NEW w \in Worker, NEW t \in Target, ClaimLocal(w, t)
  PROVE  LocalInv' /\ NoSteal
<1> DEFINE c == CoordinatorOf[w]
<1> USE DEF TypeInv
<1>0. /\ main[w].pc = "idle" /\ main[w].target = NoTarget
      /\ lease \in [Worker -> 0..LeaseTTL] /\ lease[w] = 0
  BY DEF ClaimLocal, WorkersOK, MainOK, LeaseOK, LocalInv
<1>1. CASE Locked(c, t, 0)
  <2>1. Refuse(w) /\ UNCHANGED local
    BY <1>1 DEF ClaimLocal, ClaimInMemory
  <2>2. main' = [main EXCEPT ![w] = Idle] /\ UNCHANGED <<beat, lease, local>>
    BY <2>1 DEF Refuse
  <2>3. \A v \in Worker : v # w => main'[v] = main[v]
    BY <2>2 DEF WorkersOK, MainOK
  <2>4. main'[w] = Idle
    BY <2>2 DEF WorkersOK, MainOK
  <2>5. LocalInv'
    BY <1>0, <2>2, <2>3, <2>4 DEF LocalInv, InMemory, Idle
  <2>6. \A v \in Worker, u \in Target : Holds(v, u)' => Holds(v, u)
    BY <1>0, <2>2, <2>3, <2>4 DEF Holds, Idle
  <2>7. NoSteal
    BY <2>6, OneEntryOneOwner DEF NoSteal
  <2> QED
    BY <2>5, <2>7
<1>2. CASE ~Locked(c, t, 0)
  <2>1. /\ local' = [local EXCEPT ![c][t] = [owner |-> w, age |-> 0]]
        /\ Grant(w, t, 0)
    BY <1>2 DEF ClaimLocal, ClaimInMemory
  <2>2. /\ main'[w].pc = "working" /\ main'[w].target = t
        /\ lease'[w] = Remaining(0)
        /\ beat'[w].pc \in {"off", "sleeping"}
    BY <1>0, <2>1 DEF Grant, WorkersOK, MainOK, BeatOK, Off
  <2>3. \A v \in Worker : v # w => /\ main'[v] = main[v]
                                   /\ lease'[v] = lease[v] /\ beat'[v] = beat[v]
    BY <1>0, <2>1 DEF Grant, WorkersOK, MainOK, BeatOK
  <2>4. /\ local'[c][t] = [owner |-> w, age |-> 0]
        /\ \A d \in Coordinator, u \in Target :
             d # c \/ u # t => local'[d][u] = local[d][u]
    BY <2>1 DEF LocalOK
  <2>5. \A v \in Worker : lease[v] > 0 /\ main[v].target = t => CoordinatorOf[v] # c
    BY <1>2, OneEntryOneOwner DEF Holds
  <2>6. \A v \in Worker : lease[v] > 0 => main[v].target \in Target
    BY OnTarget DEF LocalInv
  <2>7. ASSUME NEW v \in Worker, v # w
        PROVE  lease[v] > 0 => local'[CoordinatorOf[v]][main[v].target]
                                 = local[CoordinatorOf[v]][main[v].target]
    BY <2>4, <2>5, <2>6
  <2>8. LocalInv'
    <3>1. InMemory(w)'
      BY <2>2, <2>4, RemainingType DEF InMemory, Remaining
    <3> QED
      BY <2>2, <2>3, <2>7, <3>1, Undisturbed DEF LocalInv
  <2>9. NoSteal
    <3> SUFFICES ASSUME NEW v \in Worker, NEW x \in Worker, NEW u \in Target,
                        CoordinatorOf[v] = CoordinatorOf[x], Holds(v, u), Holds(x, u)'
                 PROVE  v = x
      BY DEF NoSteal
    <3>1. CASE x = w
      BY <2>2, <2>5, <3>1 DEF Holds
    <3>2. CASE x # w
      <4>1. Holds(x, u)
        BY <2>3, <3>2 DEF Holds
      <4> QED
        BY <4>1, OneEntryOneOwner
    <3> QED
      BY <3>1, <3>2
  <2> QED
    BY <2>8, <2>9
<1> QED
  BY <1>1, <1>2

\* An in-memory renewal keeps the invariant and steals no lease.
LEMMA HeartbeatLocalStep ==
  ASSUME ~UseRedis, TypeInv, LocalInv, NEW w \in Worker, HeartbeatWake(w)
  PROVE  LocalInv' /\ NoSteal
<1> DEFINE c == CoordinatorOf[w]
           t == main[w].target
<1> USE DEF TypeInv
<1>0. /\ main[w].pc = "working" /\ t \in Target /\ c \in Coordinator
      /\ UNCHANGED main /\ RenewInMemory(w, 0)
  BY OnTarget DEF HeartbeatWake
<1>1. CASE OwnEntry(w)
  <2>1. /\ local' = [local EXCEPT ![c][t].age = 0]
        /\ lease' = [lease EXCEPT ![w] = Remaining(0)]
        /\ beat' = [beat EXCEPT ![w] = [pc |-> "sleeping", age |-> 0]]
    BY <1>0, <1>1 DEF RenewInMemory, Renewed
  <2>2. local[c][t].owner = w
    BY <1>1 DEF OwnEntry
  <2>3. /\ local'[c][t].owner = w /\ local'[c][t].age = 0
        /\ \A d \in Coordinator, u \in Target :
             d # c \/ u # t => local'[d][u] = local[d][u]
    BY <1>0, <2>1, <2>2 DEF LocalOK
  <2>4. \A v \in Worker : v # w => lease'[v] = lease[v] /\ beat'[v] = beat[v]
    BY <2>1 DEF WorkersOK, LeaseOK, BeatOK
  <2>5. lease'[w] = Remaining(0) /\ beat'[w].pc = "sleeping"
    BY <2>1 DEF WorkersOK, LeaseOK, BeatOK
  <2>6. ASSUME NEW v \in Worker, NEW u \in Target, v # w, Holds(v, u), CoordinatorOf[v] = c
        PROVE  u # t
    BY <2>2, <2>6, OneEntryOneOwner
  <2>7. ASSUME NEW v \in Worker, v # w
        PROVE  lease[v] > 0 => local'[CoordinatorOf[v]][main[v].target]
                                 = local[CoordinatorOf[v]][main[v].target]
    <3>1. lease[v] > 0 => main[v].target \in Target /\ Holds(v, main[v].target)
      BY OnTarget DEF LocalInv, Holds
    <3> QED
      BY <2>3, <2>6, <2>7, <3>1
  <2>8. LocalInv'
    <3>1. InMemory(w)'
      BY <1>0, <2>3, <2>5, RemainingType DEF InMemory, Remaining
    <3> QED
      BY <1>0, <2>4, <2>5, <2>7, <3>1, Undisturbed DEF LocalInv
  <2>9. NoSteal
    <3> SUFFICES ASSUME NEW v \in Worker, NEW x \in Worker, NEW u \in Target,
                        CoordinatorOf[v] = CoordinatorOf[x], Holds(v, u), Holds(x, u)'
                 PROVE  v = x
      BY DEF NoSteal
    <3>1. CASE x = w
      BY <1>0, <2>6, <3>1 DEF Holds
    <3>2. CASE x # w
      BY <1>0, <2>4, <3>2, OneEntryOneOwner DEF Holds
    <3> QED
      BY <3>1, <3>2
  <2> QED
    BY <2>8, <2>9
<1>2. CASE ~OwnEntry(w)
  <2>1. /\ UNCHANGED <<local, lease, main>>
        /\ beat' = [beat EXCEPT ![w] = [pc |-> "ended", age |-> 0]]
    BY <1>0, <1>2 DEF RenewInMemory, NotRenewed
  <2>2. \A v \in Worker : beat'[v].pc \in {"off", "sleeping", "ended"}
    BY <2>1 DEF LocalInv, WorkersOK, BeatOK
  <2>3. LocalInv'
    BY <2>1, <2>2 DEF LocalInv, InMemory
  <2>4. NoSteal
    BY <2>1, OneEntryOneOwner DEF NoSteal, Holds
  <2> QED
    BY <2>3, <2>4
<1> QED
  BY <1>1, <1>2

\* Steps after which no worker is inside a lease it was not inside before, and
\* every lease still in force has the entry it had.
LEMMA OnlyEnds ==
  ASSUME TypeInv, LocalInv,
         \A v \in Worker :
           /\ main'[v].pc \in {"idle", "working"}
           /\ beat'[v].pc \in {"off", "sleeping", "ended"}
           /\ lease'[v] > 0 => /\ lease[v] > 0 /\ main'[v] = main[v]
                               /\ InMemory(v)'
  PROVE  LocalInv' /\ NoSteal
<1>1. LocalInv'
  BY DEF LocalInv
<1>2. \A v \in Worker, u \in Target : Holds(v, u)' => Holds(v, u)
  BY DEF Holds
<1> QED
  BY <1>1, <1>2, OneEntryOneOwner DEF NoSteal

\* An in-memory release keeps the invariant and steals no lease.
LEMMA ReleaseLocalStep ==
  ASSUME TypeInv, LocalInv, NEW w \in Worker, ReleaseLocal(w) \/ Abandon(w)
  PROVE  LocalInv' /\ NoSteal
<1> DEFINE c == CoordinatorOf[w]
           t == main[w].target
<1> USE DEF TypeInv
<1>0. main[w].pc # "idle" /\ t \in Target /\ c \in Coordinator /\ Done(w)
  BY OnTarget DEF ReleaseLocal, Abandon, ReleaseInMemory
<1>1. /\ main'[w] = Idle /\ lease'[w] = 0 /\ beat'[w] = Off
      /\ \A v \in Worker : v # w => /\ main'[v] = main[v]
                                    /\ lease'[v] = lease[v] /\ beat'[v] = beat[v]
  BY <1>0 DEF Done, WorkersOK, MainOK, BeatOK, LeaseOK
<1>2. \/ local' = local
      \/ local[c][t].owner = w /\ local' = [local EXCEPT ![c][t] = NoEntry]
  BY DEF ReleaseLocal, ReleaseInMemory, Abandon, OwnEntry
<1>3. ASSUME NEW v \in Worker, v # w, lease[v] > 0 PROVE InMemory(v)'
  <2>1. main[v].target \in Target /\ InMemory(v) /\ CoordinatorOf[v] \in Coordinator
    BY <1>3, OnTarget DEF LocalInv
  <2>2. local'[CoordinatorOf[v]][main[v].target] = local[CoordinatorOf[v]][main[v].target]
    <3>1. local[CoordinatorOf[v]][main[v].target].owner = v
      BY <2>1 DEF InMemory
    <3>2. CASE local[c][t].owner = w /\ local' = [local EXCEPT ![c][t] = NoEntry]
      <4>1. CoordinatorOf[v] # c \/ main[v].target # t
        BY <1>3, <3>1, <3>2
      <4> QED
        BY <1>0, <2>1, <3>2, <4>1 DEF LocalOK
    <3> QED
      BY <1>2, <3>2
  <2> QED
    BY <1>1, <1>3, <2>1, <2>2 DEF InMemory
<1> QED
  BY <1>1, <1>3, OnlyEnds DEF LocalInv, Idle, Off

\* Recovery, the end of a task, a crash and time do so too.
LEMMA SystemLocalStep ==
  ASSUME TypeInv, LocalInv,
         (\E c \in Coordinator : RecoverDeadWorkers(c) \/ Crash(c)) \/ Tick
  PROVE  LocalInv' /\ NoSteal
<1> USE DEF TypeInv
<1>0. \A v \in Worker : lease[v] > 0 =>
        /\ main[v].target \in Target /\ InMemory(v) /\ CoordinatorOf[v] \in Coordinator
  BY OnTarget DEF LocalInv
<1>1. ASSUME NEW c \in Coordinator, RecoverDeadWorkers(c) PROVE LocalInv' /\ NoSteal
  <2>1. ASSUME NEW v \in Worker, lease[v] > 0 PROVE InMemory(v)'
    <3> DEFINE e == local[CoordinatorOf[v]][main[v].target]
    <3>1. e.age < LeaseTTL
      BY <1>0, <2>1 DEF InMemory, LocalOK, WorkersOK, LeaseOK, AgeCap
    <3>2. CoordinatorOf[v] = c => main[v].target \notin StaleKeys(c)
      BY <1>0, <2>1, <3>1 DEF StaleKeys, LocalOK, AgeCap
    <3>3. local'[CoordinatorOf[v]][main[v].target] = e
      BY <1>0, <1>1, <2>1, <3>2 DEF RecoverDeadWorkers, LocalOK
    <3> QED
      BY <1>0, <1>1, <2>1, <3>3 DEF RecoverDeadWorkers, InMemory
  <2> QED
    BY <1>1, <2>1, OnlyEnds DEF RecoverDeadWorkers, LocalInv
<1>2. ASSUME NEW c \in Coordinator, Crash(c) PROVE LocalInv' /\ NoSteal
  <2>1. \A v \in Worker :
          IF CoordinatorOf[v] = c
          THEN main'[v] = Idle /\ beat'[v] = Off /\ lease'[v] = 0
          ELSE main'[v] = main[v] /\ beat'[v] = beat[v] /\ lease'[v] = lease[v]
    BY <1>2 DEF Crash
  <2>2. \A d \in Coordinator : d # c => local'[d] = local[d]
    BY <1>2 DEF Crash, LocalOK
  <2> QED
    BY <1>0, <2>1, <2>2, OnlyEnds DEF LocalInv, InMemory, Idle, Off
<1>3. ASSUME Tick PROVE LocalInv' /\ NoSteal
  <2>1. \A v \in Worker : /\ main'[v] = main[v] \/ main[v].pc \notin {"idle", "working"}
                          /\ beat'[v].pc = beat[v].pc
    BY <1>3 DEF Tick, Pending, WorkersOK, BeatOK, MainOK
  <2>2. \A v \in Worker : lease'[v] = IF lease[v] = 0 THEN 0 ELSE lease[v] - 1
    BY <1>3 DEF Tick
  <2>3. ASSUME NEW v \in Worker, lease[v] > 0 PROVE InMemory(v)'
    <3> DEFINE d == CoordinatorOf[v]
               u == main[v].target
    <3>1. /\ d \in Coordinator /\ u \in Target
          /\ local[d][u].owner = v /\ local[d][u].age + lease[v] <= LeaseTTL
          /\ local[d][u].age \in Nat /\ lease[v] \in Nat
      BY <1>0, <2>3 DEF InMemory, LocalOK, WorkersOK, LeaseOK, AgeCap
    <3>2. local[d][u].age # AgeCap
      BY <2>3, <3>1 DEF AgeCap
    <3>3. local'[d][u] = [local[d][u] EXCEPT !.age = @ + 1]
      BY <1>3, <3>1, <3>2 DEF Tick
    <3>4. local'[d][u].owner = v /\ local'[d][u].age = local[d][u].age + 1
      BY <3>1, <3>3 DEF LocalOK
    <3>5. main'[v] = main[v] /\ lease'[v] = lease[v] - 1
      BY <2>1, <2>2, <2>3 DEF LocalInv
    <3> QED
      BY <3>1, <3>4, <3>5 DEF InMemory
  <2> QED
    BY <2>1, <2>2, <2>3, OnlyEnds DEF LocalInv, WorkersOK, LeaseOK
<1> QED
  BY <1>1, <1>2, <1>3

\* Without Redis, every step keeps the invariant and steals no lease.
LEMMA LocalStep ==
  ASSUME ~UseRedis, TypeInv, LocalInv, [Next]_vars
  PROVE  LocalInv' /\ NoSteal
<1>1. CASE UNCHANGED vars
  BY <1>1, OneEntryOneOwner DEF vars, LocalInv, InMemory, NoSteal, Holds
<1>2. CASE Next
  <2>1. ASSUME NEW w \in Worker
        PROVE  /\ \A t \in Target : ~ClaimSend(w, t)
               /\ ~Replies(w) /\ ~ClaimError(w) /\ ~RenewError(w)
               /\ ~ReleaseSend(w) /\ ~ReleaseError(w)
    BY DEF LocalInv, ClaimSend, Replies, ClaimSet, RenewGet, RenewExpire, ReleaseGet,
           ReleaseDelete, ClaimError, RenewError, ReleaseSend, ReleaseError
  <2> QED
    BY <1>2, <2>1, ClaimLocalStep, HeartbeatLocalStep, ReleaseLocalStep, SystemLocalStep
       DEF Next
<1> QED
  BY <1>1, <1>2

\* At first no worker is inside a lease.
LEMMA LocalInitially == ASSUME Init PROVE LocalInv
<1>1. \A w \in Worker : main[w] = Idle /\ beat[w] = Off /\ lease[w] = 0
  BY DEF Init
<1>2. Idle.pc = "idle" /\ Off.pc = "off"
  BY DEF Idle, Off
<1>3. ASSUME NEW w \in Worker PROVE ~(lease[w] > 0)
  <2>1. lease[w] = 0
    BY <1>1
  <2>2. ~(0 > 0)
    OBVIOUS
  <2> QED
    BY <2>1, <2>2
<1> QED
  BY <1>1, <1>2, <1>3 DEF LocalInv

\* Every process without Redis keeps the workers it serves apart: of those that
\* share a coordinator, at most one is inside a lease of a target.
ProcessExclusion == \A v, w \in Worker : \A t \in Target :
  CoordinatorOf[v] = CoordinatorOf[w] /\ Holds(v, t) /\ Holds(w, t) => v = w

\* One entry has one owner: exclusion within a process.
LEMMA LocalExclusion == ASSUME TypeInv, LocalInv PROVE ProcessExclusion
  BY OneEntryOneOwner DEF ProcessExclusion

\* The two invariants together, as properties of the specification.
LEMMA LocalInvariant == ASSUME ~UseRedis PROVE Spec => [](TypeInv /\ LocalInv)
<1>1. Init => TypeInv /\ LocalInv
  BY TypeInitially, LocalInitially
<1>2. (TypeInv /\ LocalInv) /\ [Next]_vars => (TypeInv /\ LocalInv)'
  BY TypeStep, LocalStep
<1> QED
  BY <1>1, <1>2, PTL DEF Spec

\* Leases of one process rest on its dictionary: the worker that is inside a
\* lease owns the entry, and the entry outlives the lease.
THEOREM WithoutRedisLeaseBacked == ASSUME ~UseRedis PROVE Spec => []LeaseBacked
<1>1. TypeInv /\ LocalInv => LeaseBacked
  BY DEF LocalInv, LeaseBacked
<1> QED
  BY <1>1, LocalInvariant, PTL

\* Exclusion, when all workers run in one process without Redis: the lease of
\* claim_target is atomic, whatever the heartbeats, releases, recoveries,
\* abandoned tasks and crashes in between.
THEOREM OneProcessExclusion ==
  ASSUME ~UseRedis, \A v, w \in Worker : CoordinatorOf[v] = CoordinatorOf[w]
  PROVE  Spec => []Exclusion
<1>1. TypeInv /\ LocalInv => Exclusion
  BY LocalExclusion DEF ProcessExclusion, Exclusion
<1> QED
  BY <1>1, LocalInvariant, PTL

\* A step in which nobody enters the lease of another is one that the lease
\* service allows, and at first nobody holds anything.
LEMMA ServiceStep ==
  ASSUME \A v, w \in Worker : \A t \in Target : Holds(v, t) /\ Holds(w, t)' => v = w
  PROVE  Service!Change
<1>1. \A v, w \in Worker : \A t \in Target :
        /\ main[v].target = t /\ lease[v] > 0
        /\ main'[w].target = t /\ lease'[w] > 0
        => v = w
  BY DEF Holds
<1>2. \A t \in Target : holder[t] # NoWorker =>
        /\ holder[t] \in Worker
        /\ main[holder[t]].target = t /\ lease[holder[t]] > 0
  BY DEF holder, Holds
<1>3. \A t \in Target : holder'[t] # NoWorker =>
        /\ holder'[t] \in Worker
        /\ main'[holder'[t]].target = t /\ lease'[holder'[t]] > 0
  BY DEF holder, Holds
<1>4. holder' \in [Target -> Worker \cup {NoWorker}]
  BY DEF holder, Holds
<1> QED
  BY <1>1, <1>2, <1>3, <1>4 DEF Service!Change

\* The initial states are those of the service.
LEMMA ServiceInitially == ASSUME Init PROVE Service!Init
<1>1. \A w \in Worker, t \in Target : ~Holds(w, t)
  BY DEF Init, Holds
<1> QED
  BY <1>1 DEF Service!Init, holder

\* The coordinator of one process implements the lease service: a target goes
\* from one holder to the next only through a moment without one.
THEOREM OneProcessService ==
  ASSUME ~UseRedis, \A v, w \in Worker : CoordinatorOf[v] = CoordinatorOf[w]
  PROVE  Spec => ServiceSpec
<1>1. Init => Service!Init
  BY ServiceInitially
<1>2. TypeInv /\ LocalInv /\ [Next]_vars => [Service!Change]_holder
  BY LocalStep, ServiceStep DEF NoSteal
<1> QED
  BY <1>1, <1>2, LocalInvariant, PTL DEF Spec, ServiceSpec, Service!Spec

----------------------------------------------------------------------------
\* With Redis.  The time since the command that last set the expiry of a
\* worker's key, or an upper bound for it: the heartbeat wakes up no later than
\* Interval + MaxLatency after it, renews within MaxLatency after that, and a
\* release takes no longer than another MaxLatency.
Spent(w) ==
  IF main[w].pc \in {"releasing", "deleting"} THEN Interval + 2 * MaxLatency + main[w].age
  ELSE IF beat[w].pc = "sleeping" THEN beat[w].age
  ELSE Interval + MaxLatency + beat[w].age

\* While a worker works or releases, the key is its own; what it has left, and
\* what is left of the lease, follow from the time spent.
OnTime(w) ==
  IF main[w].pc \in {"idle", "claiming"} THEN lease[w] = 0 /\ beat[w].pc = "off"
  ELSE /\ redis[main[w].target].owner = w
       /\ lease[w] <= redis[main[w].target].left
       /\ redis[main[w].target].left + Spent(w) >= LeaseTTL
       /\ lease[w] + Spent(w) + MaxLatency >= LeaseTTL
       /\ main[w].pc = "working" => beat[w].pc \in {"sleeping", "renewing", "extending"}

\* No coordinator has ever fallen back to its dictionary.
NoFallback == \A c \in Coordinator, t \in Target : local[c][t].owner = NoWorker

Timely == NoFallback /\ \A w \in Worker : OnTime(w)

\* The assumption under which the timing of the heartbeat is enough: workers
\* have one, and two calls and a timer that are late leave some of the lease.
InTime == UseRedis /\ HeartbeatChoice = {TRUE} /\ Interval + 3 * MaxLatency < LeaseTTL

\* What the timing is for: a key that somebody relies on has not expired.
LEMMA TimeLeft ==
  ASSUME InTime, TypeInv, NEW w \in Worker, OnTime(w), main[w].pc \notin {"idle", "claiming"}
  PROVE  /\ redis[main[w].target].owner = w /\ main[w].target \in Target
         /\ redis[main[w].target].left >= 1
         /\ Pending(w) /\ main[w].age < MaxLatency => redis[main[w].target].left >= 2
         /\ main[w].pc = "working" => lease[w] >= 1
<1>1. /\ main[w].target \in Target /\ main[w].age \in 0..MaxLatency
      /\ beat[w].age \in 0..(Interval + MaxLatency)
      /\ beat[w].pc \in {"renewing", "extending"} => beat[w].age <= MaxLatency
      /\ redis[main[w].target].left \in 0..LeaseTTL /\ lease[w] \in 0..LeaseTTL
  BY OnTarget DEF TypeInv, WorkersOK, MainOK, BeatOK, LeaseOK, RedisOK
<1>2. main[w].pc \in {"working", "releasing", "deleting"}
  BY DEF TypeInv, WorkersOK, MainOK
<1> QED
  BY <1>1, <1>2 DEF OnTime, Spent, InTime, Pending

\* The calls of one worker change no key that another one owns.
OthersKeys(w) == \A t \in Target : redis[t].owner \notin {w, NoWorker} => redis'[t] = redis[t]
OthersStay(w) == \A v \in Worker \ {w} :
                   main'[v] = main[v] /\ beat'[v] = beat[v] /\ lease'[v] = lease[v]

\* So the others stay on time.
LEMMA OthersOnTime ==
  ASSUME TypeInv, Timely, NEW w \in Worker, OthersKeys(w), OthersStay(w),
         UNCHANGED local, OnTime(w)'
  PROVE  Timely'
<1>1. ASSUME NEW v \in Worker, v # w PROVE OnTime(v)'
  <2>1. main'[v] = main[v] /\ beat'[v] = beat[v] /\ lease'[v] = lease[v]
    BY <1>1 DEF OthersStay
  <2>2. CASE main[v].pc \in {"idle", "claiming"}
    BY <2>1, <2>2 DEF Timely, OnTime
  <2>3. CASE main[v].pc \notin {"idle", "claiming"}
    <3>1. main[v].target \in Target /\ redis[main[v].target].owner = v
      BY <2>3, OnTarget DEF TypeInv, Timely, OnTime
    <3>2. redis'[main[v].target] = redis[main[v].target]
      BY <1>1, <3>1 DEF OthersKeys
    <3>3. Spent(v)' = Spent(v)
      BY <2>1 DEF Spent
    <3> QED
      BY <2>1, <2>3, <3>2, <3>3 DEF Timely, OnTime
  <2> QED
    BY <2>2, <2>3
<1> QED
  BY <1>1 DEF Timely, NoFallback

\* A claim takes the target's key with it, or nothing.
LEMMA ClaimOnTime ==
  ASSUME InTime, TypeInv, Timely, NEW w \in Worker,
         (\E t \in Target : ClaimSend(w, t)) \/ ClaimSet(w)
  PROVE  Timely'
<1> USE DEF TypeInv
<1>1. ASSUME NEW t \in Target, ClaimSend(w, t) PROVE Timely'
  <2>1. main'[w].pc = "claiming" /\ lease'[w] = 0 /\ beat'[w].pc = "off"
    BY <1>1 DEF ClaimSend, Timely, OnTime, WorkersOK, MainOK
  <2>2. OnTime(w)'
    BY <2>1 DEF OnTime
  <2>3. OthersKeys(w) /\ OthersStay(w) /\ UNCHANGED local
    BY <1>1 DEF ClaimSend, OthersKeys, OthersStay, WorkersOK, MainOK
  <2> QED
    BY <2>2, <2>3, OthersOnTime
<1>2. CASE ClaimSet(w)
  <2> DEFINE t == main[w].target
  <2>1. /\ t \in Target /\ main[w].pc = "claiming" /\ main[w].age \in 0..MaxLatency
        /\ lease[w] = 0 /\ beat[w].pc = "off"
    BY <1>2, OnTarget DEF ClaimSet, Timely, OnTime
  <2>2. CASE redis[t].owner = NoWorker
    <3>1. Grant(w, t, main[w].age) /\ UNCHANGED local
          /\ redis' = [redis EXCEPT ![t] = [owner |-> w, left |-> LeaseTTL]]
      BY <1>2, <2>2 DEF ClaimSet, SetNX
    <3>2. /\ main'[w] = [pc |-> "working", target |-> t, age |-> 0]
          /\ beat'[w] = [pc |-> "sleeping", age |-> 0]
          /\ lease'[w] = Remaining(main[w].age)
      BY <3>1 DEF Grant, InTime, WorkersOK, MainOK, BeatOK, LeaseOK
    <3>3. redis'[t] = [owner |-> w, left |-> LeaseTTL]
      BY <2>1, <3>1 DEF RedisOK
    <3>4. Remaining(main[w].age) \in 0..LeaseTTL
          /\ Remaining(main[w].age) + MaxLatency >= LeaseTTL
      BY <2>1 DEF Remaining
    <3>5. Spent(w)' = 0
      BY <3>2 DEF Spent
    <3>6. OnTime(w)'
      BY <3>2, <3>3, <3>4, <3>5 DEF OnTime
    <3>7. OthersKeys(w) /\ OthersStay(w)
      BY <2>2, <3>1 DEF OthersKeys, OthersStay, Grant, RedisOK, WorkersOK, MainOK, BeatOK, LeaseOK
    <3> QED
      BY <3>1, <3>6, <3>7, OthersOnTime
  <2>3. CASE redis[t].owner # NoWorker
    <3>1. Refuse(w) /\ UNCHANGED <<redis, local>>
      BY <1>2, <2>3 DEF ClaimSet, SetNX
    <3>2. main'[w] = Idle /\ lease'[w] = 0 /\ beat'[w].pc = "off"
      BY <2>1, <3>1 DEF Refuse, WorkersOK, MainOK
    <3>3. OnTime(w)'
      BY <3>2 DEF OnTime, Idle
    <3>4. OthersKeys(w) /\ OthersStay(w)
      BY <3>1 DEF OthersKeys, OthersStay, Refuse, WorkersOK, MainOK
    <3> QED
      BY <3>1, <3>3, <3>4, OthersOnTime
  <2> QED
    BY <2>2, <2>3
<1> QED
  BY <1>1, <1>2

\* A heartbeat that is on time finds its worker's key, and extends it.
LEMMA RenewOnTime ==
  ASSUME InTime, TypeInv, Timely, NEW w \in Worker,
         HeartbeatWake(w) \/ RenewGet(w) \/ RenewExpire(w)
  PROVE  Timely'
<1> USE DEF TypeInv
<1> DEFINE t == main[w].target
<1>0. /\ main[w].pc = "working" /\ t \in Target /\ UNCHANGED main
      /\ redis[t].owner = w /\ redis[t].left \in Nat /\ lease[w] \in Nat
      /\ lease[w] <= redis[t].left
      /\ redis[t].left + Spent(w) >= LeaseTTL /\ lease[w] + Spent(w) + MaxLatency >= LeaseTTL
      /\ beat[w].age \in 0..(Interval + MaxLatency)
      /\ beat[w].pc \in {"renewing", "extending"} => beat[w].age \in 0..MaxLatency
  <2>1. main[w].pc = "working" /\ t \in Target /\ UNCHANGED main
    BY OnTarget DEF HeartbeatWake, RenewGet, RenewExpire
  <2> QED
    BY <2>1 DEF Timely, OnTime, WorkersOK, BeatOK, LeaseOK, RedisOK
<1>1. CASE HeartbeatWake(w)
  <2>1. /\ beat[w].pc = "sleeping" /\ beat'[w] = [pc |-> "renewing", age |-> 0]
        /\ UNCHANGED <<redis, lease, local>> /\ OthersStay(w)
    BY <1>0, <1>1 DEF HeartbeatWake, InTime, OthersStay, WorkersOK, BeatOK
  <2>2. Spent(w) = beat[w].age /\ Spent(w)' = Interval + MaxLatency
    BY <1>0, <2>1 DEF Spent
  <2>3. OnTime(w)'
    BY <1>0, <2>1, <2>2 DEF OnTime
  <2> QED
    BY <2>1, <2>3, OthersOnTime DEF OthersKeys
<1>2. CASE RenewGet(w)
  <2>1. /\ beat[w].pc = "renewing" /\ beat'[w].pc = "extending" /\ beat'[w].age = beat[w].age
        /\ UNCHANGED <<redis, lease, local>> /\ OthersStay(w)
    BY <1>0, <1>2 DEF RenewGet, OwnedBy, OthersStay, WorkersOK, BeatOK
  <2>2. Spent(w)' = Spent(w)
    BY <1>0, <2>1 DEF Spent
  <2>3. OnTime(w)'
    BY <1>0, <2>1, <2>2 DEF OnTime
  <2> QED
    BY <2>1, <2>3, OthersOnTime DEF OthersKeys
<1>3. CASE RenewExpire(w)
  <2>1. /\ beat[w].pc = "extending" /\ beat'[w] = [pc |-> "sleeping", age |-> 0]
        /\ lease'[w] = Remaining(beat[w].age) /\ UNCHANGED local /\ OthersStay(w)
    BY <1>0, <1>3 DEF RenewExpire, Renewed, OthersStay, WorkersOK, BeatOK, LeaseOK
  <2>2. redis' = [redis EXCEPT ![t].left = LeaseTTL]
    BY <1>0, <1>3 DEF RenewExpire, Expire
  <2>3. redis'[t].owner = w /\ redis'[t].left = LeaseTTL
    BY <1>0, <2>2 DEF RedisOK
  <2>4. /\ Remaining(beat[w].age) \in 0..LeaseTTL
        /\ Remaining(beat[w].age) + MaxLatency >= LeaseTTL
    BY <1>0, <2>1 DEF Remaining
  <2>5. Spent(w)' = 0
    BY <1>0, <2>1 DEF Spent
  <2>6. OnTime(w)'
    BY <1>0, <2>1, <2>3, <2>4, <2>5 DEF OnTime
  <2>7. OthersKeys(w)
    BY <1>0, <2>2 DEF OthersKeys, RedisOK
  <2> QED
    BY <2>1, <2>6, <2>7, OthersOnTime
<1> QED
  BY <1>1, <1>2, <1>3

\* A release on time finds its worker's key, and deletes no other.
LEMMA ReleaseOnTime ==
  ASSUME InTime, TypeInv, Timely, NEW w \in Worker,
         ReleaseSend(w) \/ ReleaseGet(w) \/ ReleaseDelete(w) \/ Abandon(w)
  PROVE  Timely'
<1> USE DEF TypeInv
<1> DEFINE t == main[w].target
<1>0. main[w].pc # "idle" /\ t \in Target
  BY OnTarget DEF ReleaseSend, ReleaseGet, ReleaseDelete, Abandon
<1>1. CASE ReleaseSend(w)
  <2>1. /\ main[w].pc = "working" /\ main'[w] = [pc |-> "releasing", target |-> t, age |-> 0]
        /\ UNCHANGED <<redis, lease, local>> /\ OthersStay(w)
    BY <1>1 DEF ReleaseSend, OthersStay, WorkersOK, MainOK, BeatOK
  <2>2. Spent(w) <= Interval + 2 * MaxLatency /\ Spent(w) \in Nat
    BY <2>1 DEF Spent, WorkersOK, BeatOK, Timely, OnTime
  <2>3. Spent(w)' = Interval + 2 * MaxLatency
    <3>1. main'[w].pc \in {"releasing", "deleting"} /\ main'[w].age = 0
      BY <2>1
    <3>2. Spent(w)' = Interval + 2 * MaxLatency + 0
      BY <3>1 DEF Spent
    <3> QED
      BY <3>2
  <2>4. redis[t].left \in Nat /\ lease[w] \in Nat
    BY <1>0 DEF RedisOK, WorkersOK, LeaseOK
  <2>5. OnTime(w)'
    BY <2>1, <2>2, <2>3, <2>4 DEF OnTime, Timely
  <2> QED
    BY <2>1, <2>5, OthersOnTime DEF OthersKeys
<1>2. CASE ReleaseGet(w)
  <2>1. main[w].pc = "releasing" /\ redis[t].owner = w
    BY <1>2 DEF ReleaseGet, Timely, OnTime
  <2>2. /\ main'[w].pc = "deleting" /\ main'[w].target = t /\ main'[w].age = main[w].age
        /\ UNCHANGED <<redis, lease, local, beat>> /\ OthersStay(w)
    BY <1>2, <2>1 DEF ReleaseGet, OwnedBy, OthersStay, WorkersOK, MainOK
  <2>3. Spent(w)' = Spent(w)
    BY <2>1, <2>2 DEF Spent
  <2>4. OnTime(w)'
    BY <2>1, <2>2, <2>3 DEF OnTime, Timely
  <2> QED
    BY <2>2, <2>4, OthersOnTime DEF OthersKeys
<1>3. CASE ReleaseDelete(w) \/ Abandon(w)
  <2>1. Done(w) /\ UNCHANGED local
    BY <1>3 DEF ReleaseDelete, Abandon
  <2>2. main'[w].pc = "idle" /\ lease'[w] = 0 /\ beat'[w].pc = "off" /\ OthersStay(w)
    BY <2>1 DEF Done, Idle, Off, OthersStay, WorkersOK, MainOK, BeatOK, LeaseOK
  <2>3. OnTime(w)'
    BY <2>2 DEF OnTime
  <2>4. OthersKeys(w)
    <3>1. CASE ReleaseDelete(w)
      <4>1. redis[t].owner = w /\ redis' = [redis EXCEPT ![t] = Free]
        BY <3>1 DEF ReleaseDelete, Delete, Timely, OnTime
      <4> QED
        BY <1>0, <4>1 DEF OthersKeys, RedisOK
    <3>2. CASE Abandon(w)
      BY <3>2 DEF Abandon, OthersKeys
    <3> QED
      BY <1>3, <3>1, <3>2
  <2> QED
    BY <2>1, <2>2, <2>3, <2>4, OthersOnTime
<1> QED
  BY <1>1, <1>2, <1>3

\* A crash leaves the others alone.
LEMMA CrashOnTime ==
  ASSUME TypeInv, Timely, NEW c \in Coordinator, Crash(c)
  PROVE  Timely'
<1> USE DEF TypeInv
<1>1. NoFallback'
  BY DEF Crash, Timely, NoFallback, NoEntry, LocalOK
<1>2. ASSUME NEW w \in Worker, CoordinatorOf[w] = c PROVE OnTime(w)'
  <2>1. main'[w] = Idle /\ beat'[w] = Off /\ lease'[w] = 0
    BY <1>2 DEF Crash
  <2> QED
    BY <2>1 DEF OnTime, Idle, Off
<1>3. ASSUME NEW w \in Worker, CoordinatorOf[w] # c PROVE OnTime(w)'
  <2>1. main'[w] = main[w] /\ beat'[w] = beat[w] /\ lease'[w] = lease[w] /\ redis' = redis
    BY <1>3 DEF Crash
  <2>2. Spent(w)' = Spent(w)
    BY <2>1 DEF Spent
  <2> QED
    BY <2>1, <2>2 DEF OnTime, Timely
<1> QED
  BY <1>1, <1>2, <1>3 DEF Timely

\* Time uses up keys, leases and the time spent at the same rate, and expires
\* no key that somebody relies on.
LEMMA TickOnTime ==
  ASSUME InTime, TypeInv, Timely, Tick
  PROVE  Timely'
<1> USE DEF TypeInv
<1>1. NoFallback'
  BY DEF Tick, Timely, NoFallback, LocalOK
<1>2. ASSUME NEW w \in Worker, main[w].pc \in {"idle", "claiming"} PROVE OnTime(w)'
  <2>1. lease'[w] = 0 /\ beat'[w].pc = "off" /\ main'[w].pc = main[w].pc
    BY <1>2 DEF Tick, Timely, OnTime, WorkersOK, MainOK
  <2> QED
    BY <1>2, <2>1 DEF OnTime
<1>3. ASSUME NEW w \in Worker, main[w].pc \notin {"idle", "claiming"} PROVE OnTime(w)'
  <2> DEFINE t == main[w].target
  <2>1. /\ main[w].pc \in {"working", "releasing", "deleting"} /\ t \in Target
        /\ main[w].age \in Nat /\ beat[w].age \in Nat /\ lease[w] \in Nat /\ redis[t].left \in Nat
    BY <1>3, OnTarget DEF WorkersOK, MainOK, BeatOK, LeaseOK, RedisOK
  <2>2. /\ OnTime(w) /\ redis[t].owner = w
        /\ lease[w] <= redis[t].left /\ redis[t].left + Spent(w) >= LeaseTTL
        /\ lease[w] + Spent(w) + MaxLatency >= LeaseTTL
        /\ main[w].pc = "working" => beat[w].pc \in {"sleeping", "renewing", "extending"}
    BY <1>3 DEF Timely, OnTime
  <2>3. /\ main'[w].pc = main[w].pc /\ main'[w].target = t
        /\ Pending(w) => main'[w].age = main[w].age + 1 /\ main[w].age < MaxLatency
        /\ main[w].pc = "working" => /\ beat'[w].pc = beat[w].pc
                                     /\ beat'[w].age = beat[w].age + 1
                                     /\ beat[w].age < Deadline(w)
    BY <2>1, <2>2 DEF Tick, Pending, WorkersOK, MainOK, BeatOK
  <2>4. Spent(w) \in Nat /\ Spent(w)' = Spent(w) + 1
    BY <2>1, <2>2, <2>3 DEF Spent, Pending
  <2>5. redis[t].left > 1
    <3>1. CASE main[w].pc = "working"
      <4>1. Spent(w) <= Interval + 2 * MaxLatency
        BY <2>1, <2>2, <2>3, <3>1 DEF Spent, Deadline
      <4>2. Spent(w) < Interval + 2 * MaxLatency
        BY <2>1, <2>2, <2>3, <3>1 DEF Spent, Deadline
      <4> QED
        BY <2>1, <2>2, <2>4, <4>2 DEF InTime
    <3>2. CASE main[w].pc # "working"
      <4>1. Spent(w) < Interval + 3 * MaxLatency
        BY <2>1, <2>3, <3>2 DEF Spent, Pending
      <4> QED
        BY <2>1, <2>2, <2>4, <4>1 DEF InTime
    <3> QED
      BY <3>1, <3>2
  <2>6. redis'[t].owner = w /\ redis'[t].left = redis[t].left - 1
    BY <2>1, <2>2, <2>5 DEF Tick, RedisOK
  <2>7. lease'[w] = IF lease[w] = 0 THEN 0 ELSE lease[w] - 1
    BY DEF Tick
  <2>8. /\ lease'[w] <= redis'[t].left
        /\ redis'[t].left + Spent(w)' >= LeaseTTL
        /\ lease'[w] + Spent(w)' + MaxLatency >= LeaseTTL
    BY <2>1, <2>2, <2>4, <2>5, <2>6, <2>7
  <2> QED
    BY <1>3, <2>2, <2>3, <2>6, <2>8 DEF OnTime
<1> QED
  BY <1>1, <1>2, <1>3 DEF Timely

\* Every step without a raised call keeps the workers on time.
LEMMA TimelyStep ==
  ASSUME InTime, TypeInv, faults = 0 => Timely, [Next]_vars
  PROVE  (faults = 0 => Timely)'
<1> SUFFICES ASSUME faults' = 0 PROVE Timely'
  OBVIOUS
<1>1. /\ faults = 0 /\ Timely
      /\ \A w \in Worker : ~ClaimError(w) /\ ~RenewError(w) /\ ~ReleaseError(w)
  <2>1. faults \in Nat
    BY DEF TypeInv, FaultsOK
  <2>2. \A effect : ~Raises(effect)
    BY <2>1 DEF Raises
  <2>3. faults = 0
    BY <2>1, <2>2 DEF Next, Replies, vars, ClaimLocal, ClaimSend, ClaimSet, RenewGet,
       RenewExpire, HeartbeatWake, ReleaseLocal, ReleaseSend, ReleaseGet, ReleaseDelete,
       ClaimError, RenewError, ReleaseError, Abandon, RecoverDeadWorkers, Crash, Tick
  <2> QED
    BY <2>2, <2>3 DEF ClaimError, RenewError, ReleaseError
<1>2. CASE UNCHANGED vars
  <2>1. \A w \in Worker : Spent(w)' = Spent(w)
    BY <1>2 DEF vars, Spent
  <2> QED
    BY <1>1, <1>2, <2>1 DEF vars, Timely, NoFallback, OnTime
<1>3. CASE Next
  <2>1. \A w \in Worker : /\ \A t \in Target : ~ClaimLocal(w, t)
                          /\ ~ReleaseLocal(w)
    BY DEF InTime, ClaimLocal, ReleaseLocal
  <2>2. \A c \in Coordinator : ~RecoverDeadWorkers(c)
    BY DEF InTime, RecoverDeadWorkers
  <2> QED
    BY <1>1, <1>3, <2>1, <2>2, ClaimOnTime, RenewOnTime, ReleaseOnTime, CrashOnTime,
       TickOnTime DEF Next, Replies
<1> QED
  BY <1>2, <1>3

\* With Redis: workers are on time until a call raises.
LEMMA TimelyInvariant == ASSUME InTime PROVE Spec => [](TypeInv /\ (faults = 0 => Timely))
<1>1. Init => Timely
  <2>1. ASSUME Init PROVE \A w \in Worker : main[w].pc = "idle" /\ beat[w].pc = "off" /\ lease[w] = 0
    BY <2>1 DEF Init, Idle, Off
  <2>2. ASSUME Init PROVE NoFallback
    BY <2>2 DEF Init, NoFallback, NoEntry
  <2> QED
    BY <2>1, <2>2 DEF Timely, OnTime
<1>2. (TypeInv /\ (faults = 0 => Timely)) /\ [Next]_vars => (TypeInv /\ (faults = 0 => Timely))'
  BY TypeStep, TimelyStep
<1> QED
  BY <1>1, <1>2, TypeInitially, PTL DEF Spec

\* A worker inside its lease owns the key, so there is one at most.
LEMMA OneKeyOneOwner ==
  ASSUME TypeInv, Timely, NEW w \in Worker, lease[w] > 0
  PROVE  main[w].target \in Target /\ InRedis(w)
<1>1. main[w].pc \notin {"idle", "claiming"}
  <2>1. lease[w] # 0
    BY DEF TypeInv, WorkersOK, LeaseOK
  <2> QED
    BY <2>1 DEF Timely, OnTime
<1> QED
  BY <1>1, OnTarget DEF TypeInv, Timely, OnTime, InRedis, RedisOK, WorkersOK, LeaseOK

\* Exclusion with Redis, for any number of processes: as long as no call
\* raises, two workers are never inside a lease of the same target, provided
\* that late timers and calls leave some of the lease (Interval + 3 *
\* MaxLatency < LeaseTTL) and that everybody runs a heartbeat.
THEOREM RedisExclusion == ASSUME InTime PROVE Spec => []Exclusion
<1>1. TypeInv /\ (faults = 0 => Timely) => Exclusion
  BY OneKeyOneOwner DEF Exclusion, Holds, InRedis
<1> QED
  BY <1>1, TimelyInvariant, PTL

\* The heartbeat of a worker keeps its lease: whoever works is inside it.
THEOREM HeartbeatKeepsLease == ASSUME InTime PROVE Spec => []WorkingKeepsLease
<1>1. TypeInv /\ (faults = 0 => Timely) => WorkingKeepsLease
  <2> SUFFICES ASSUME TypeInv, Timely, NEW w \in Worker, main[w].pc = "working"
               PROVE  lease[w] > 0
    BY DEF WorkingKeepsLease
  <2>1. OnTime(w) /\ lease[w] \in Nat
    BY DEF Timely, TypeInv, WorkersOK, LeaseOK
  <2> QED
    BY <2>1, TimeLeft
<1> QED
  BY <1>1, TimelyInvariant, PTL

\* In a step without a raised call, no worker enters a lease of a target of
\* which another one is inside a lease.
LEMMA NoStealWithRedis ==
  ASSUME InTime, TypeInv, TypeInv', Timely, Timely', [Next]_vars,
         NEW v \in Worker, NEW w \in Worker, NEW t \in Target, Holds(v, t), Holds(w, t)'
  PROVE  v = w
<1>1. redis[t].owner = v
  BY OneKeyOneOwner DEF Holds, InRedis
<1>2. main'[w].target = t /\ redis'[t].owner = w
  <2>1. main'[w].target = t /\ lease'[w] > 0 /\ lease'[w] # 0
    BY DEF Holds, TypeInv, WorkersOK, LeaseOK
  <2>2. main'[w].pc \notin {"idle", "claiming"}
    BY <2>1 DEF Timely, OnTime
  <2> QED
    BY <2>1, <2>2 DEF Timely, OnTime
<1>3. redis'[t].owner \in {redis[t].owner, NoWorker}
  <2>1. CASE UNCHANGED vars
    BY <2>1 DEF vars
  <2>2. CASE Tick
    BY <2>2 DEF Tick, Free, TypeInv, RedisOK
  <2>3. ASSUME NEW u \in Worker, NEW s, redis' = SetNX(s, u) \/ redis' = Expire(s) \/ redis' = Delete(s)
        PROVE  redis'[t].owner \in {redis[t].owner, NoWorker}
    BY <1>1, <2>3 DEF SetNX, Expire, Delete, Free, TypeInv, RedisOK
  <2>4. CASE Next /\ ~Tick
    <3>1. \/ UNCHANGED redis
          \/ \E u \in Worker : \E s : redis' = SetNX(s, u) \/ redis' = Expire(s) \/ redis' = Delete(s)
      BY <2>4 DEF Next, Replies, ClaimLocal, ClaimSend, ClaimSet, RenewGet, RenewExpire,
         HeartbeatWake, ReleaseLocal, ReleaseSend, ReleaseGet, ReleaseDelete, ClaimError,
         RenewError, ReleaseError, Raises, Abandon, RecoverDeadWorkers, Crash
    <3> QED
      BY <2>3, <3>1
  <2> QED
    BY <2>1, <2>2, <2>4
<1> QED
  BY <1>1, <1>2, <1>3

----------------------------------------------------------------------------
\* Whose keys and entries a call touches.

\* One of the calls, timers or ends of the task of one worker.
WorkerStep(w) == \/ \E t \in Target : ClaimLocal(w, t) \/ ClaimSend(w, t)
                 \/ Replies(w) \/ ClaimError(w) \/ RenewError(w) \/ ReleaseError(w)
                 \/ HeartbeatWake(w) \/ ReleaseLocal(w) \/ ReleaseSend(w) \/ Abandon(w)

\* No entry in force of another worker changes.
OthersEntries(w) ==
  \A c \in Coordinator, t \in Target :
    local[c][t].owner \notin {w, NoWorker} /\ local[c][t].age < LeaseTTL
      => local'[c][t] = local[c][t]

\* The in-memory parts of the operations touch no entry in force of another
\* worker, and show in the state of the worker that they have been called.
LEMMA ClaimInMemoryTouches ==
  ASSUME TypeInv, NEW w \in Worker, NEW t \in Target, NEW age \in Nat,
         main[w].pc \in {"idle", "claiming"}, ClaimInMemory(w, t, age)
  PROVE  OthersEntries(w) /\ OthersStay(w) /\ (local' # local => Moves(w))
<1> USE DEF TypeInv
<1> DEFINE c == CoordinatorOf[w]
<1>1. CASE Locked(c, t, age)
  BY <1>1 DEF ClaimInMemory, Refuse, OthersEntries, OthersStay, WorkersOK, MainOK
<1>2. CASE ~Locked(c, t, age)
  <2>1. /\ local' = [local EXCEPT ![c][t] = [owner |-> w, age |-> age]]
        /\ Grant(w, t, age)
    BY <1>2 DEF ClaimInMemory
  <2>2. local[c][t].owner = NoWorker \/ local[c][t].age >= LeaseTTL
    BY <1>2 DEF Locked, LocalOK, AgeCap
  <2>3. OthersEntries(w)
    BY <2>1, <2>2 DEF OthersEntries, LocalOK, AgeCap
  <2>4. main'[w].pc = "working" /\ OthersStay(w)
    BY <2>1 DEF Grant, OthersStay, WorkersOK, MainOK, BeatOK, LeaseOK
  <2> QED
    BY <2>3, <2>4 DEF Moves
<1> QED
  BY <1>1, <1>2

\* The same for a renewal,
LEMMA RenewInMemoryTouches ==
  ASSUME TypeInv, NEW w \in Worker, NEW age \in Nat, main[w].pc = "working",
         beat[w].pc = "sleeping" => beat[w].age > 0,
         beat[w].pc \in {"sleeping", "renewing", "extending"},
         UNCHANGED main, RenewInMemory(w, age)
  PROVE  OthersEntries(w) /\ OthersStay(w) /\ Moves(w)
<1> USE DEF TypeInv
<1> DEFINE c == CoordinatorOf[w]
           t == main[w].target
<1>1. t \in Target
  BY OnTarget
<1>2. beat'[w] \in {[pc |-> "sleeping", age |-> 0], [pc |-> "ended", age |-> 0]}
      /\ OthersStay(w)
  BY DEF RenewInMemory, Renewed, NotRenewed, OthersStay, WorkersOK, BeatOK, LeaseOK
<1>3. Moves(w)
  <2>1. beat'[w].pc \in {"sleeping", "ended"} /\ beat'[w].age = 0
    BY <1>2
  <2>2. ~(0 > 0)
    OBVIOUS
  <2> QED
    BY <2>1, <2>2 DEF Moves
<1>4. OthersEntries(w)
  <2> SUFFICES ASSUME NEW d \in Coordinator, NEW s \in Target, local[d][s].owner # w
               PROVE  local'[d][s] = local[d][s]
    BY DEF OthersEntries
  <2>1. CASE UNCHANGED local
    BY <2>1
  <2>2. CASE local' = [local EXCEPT ![c][t].age = age] /\ local[c][t].owner = w
    <3>1. ~(d = c /\ s = t)
      BY <2>2
    <3> QED
      BY <2>2, <3>1 DEF LocalOK
  <2> QED
    BY <2>1, <2>2 DEF RenewInMemory, OwnEntry
<1> QED
  BY <1>2, <1>3, <1>4

\* and for a release.
LEMMA ReleaseInMemoryTouches ==
  ASSUME TypeInv, NEW w \in Worker, main[w].pc # "idle", ReleaseInMemory(w)
  PROVE  OthersEntries(w) /\ OthersStay(w) /\ Moves(w)
<1> USE DEF TypeInv
<1>1. main[w].target \in Target
  BY OnTarget
<1>2. main'[w].pc = "idle" /\ OthersStay(w)
  BY DEF ReleaseInMemory, Done, Idle, OthersStay, WorkersOK, MainOK, BeatOK, LeaseOK
<1>3. OthersEntries(w)
  BY <1>1 DEF ReleaseInMemory, OwnEntry, OthersEntries, LocalOK
<1> QED
  BY <1>2, <1>3 DEF Moves

\* Whatever a worker does: no entry in force of another one changes, and no
\* entry or key without a move of its own.
LEMMA WorkerStepTouches ==
  ASSUME TypeInv, NEW w \in Worker, WorkerStep(w)
  PROVE  /\ OthersEntries(w) /\ OthersStay(w)
         /\ local' # local \/ redis' # redis => Moves(w)
<1> USE DEF TypeInv
<1> DEFINE Goal == /\ OthersEntries(w) /\ OthersStay(w)
                   /\ local' # local \/ redis' # redis => Moves(w)
<1>0. main[w].age \in Nat /\ beat[w].age \in Nat
  BY DEF WorkersOK, MainOK, BeatOK
<1>1. ASSUME NEW t \in Target, ClaimLocal(w, t) PROVE Goal
  BY <1>1, ClaimInMemoryTouches DEF ClaimLocal
<1>2. ASSUME NEW t \in Target, ClaimSend(w, t) PROVE Goal
  BY <1>2 DEF ClaimSend, OthersEntries, OthersStay, WorkersOK, MainOK
<1>3. CASE ClaimSet(w)
  BY <1>3 DEF ClaimSet, SetNX, Grant, Refuse, OthersEntries, OthersStay, Moves, WorkersOK,
     MainOK, BeatOK, LeaseOK
<1>4. CASE ClaimError(w)
  <2>1. main[w].target \in Target /\ main[w].pc = "claiming"
    BY <1>4, OnTarget DEF ClaimError
  <2>2. OthersEntries(w) /\ OthersStay(w)
    BY <1>0, <1>4, <2>1, ClaimInMemoryTouches DEF ClaimError
  <2>3. main'[w].pc # "claiming"
    BY <1>4, <2>1 DEF ClaimError, ClaimInMemory, Grant, Refuse, Idle, WorkersOK, MainOK
  <2> QED
    BY <2>1, <2>2, <2>3 DEF Moves
<1>5. CASE HeartbeatWake(w)
  <2>1. CASE UseRedis
    BY <1>5, <2>1 DEF HeartbeatWake, OthersEntries, OthersStay, WorkersOK, BeatOK
  <2>2. CASE ~UseRedis
    <3>1. main[w].pc = "working"
      BY <1>5, OnTarget DEF HeartbeatWake
    <3> QED
      BY <1>0, <1>5, <2>2, <3>1, RenewInMemoryTouches DEF HeartbeatWake
  <2> QED
    BY <2>1, <2>2
<1>6. CASE RenewGet(w)
  <2>1. main[w].pc = "working"
    BY <1>6, OnTarget DEF RenewGet
  <2>2. CASE RenewInMemory(w, beat[w].age)
    BY <1>0, <1>6, <2>1, <2>2, RenewInMemoryTouches DEF RenewGet
  <2>3. CASE ~RenewInMemory(w, beat[w].age)
    BY <1>6, <2>3 DEF RenewGet, NotRenewed, OthersEntries, OthersStay, WorkersOK, BeatOK
  <2> QED
    BY <2>2, <2>3
<1>7. CASE RenewExpire(w)
  BY <1>7 DEF RenewExpire, Renewed, OthersEntries, OthersStay, Moves, WorkersOK, BeatOK, LeaseOK
<1>8. CASE RenewError(w)
  <2>1. main[w].pc = "working"
    BY <1>8, OnTarget DEF RenewError
  <2> QED
    BY <1>0, <1>8, <2>1, RenewInMemoryTouches DEF RenewError
<1>9. CASE ReleaseSend(w)
  BY <1>9 DEF ReleaseSend, OthersEntries, OthersStay, WorkersOK, MainOK, BeatOK
<1>10. CASE ReleaseLocal(w) \/ ReleaseError(w)
  BY <1>10, ReleaseInMemoryTouches DEF ReleaseLocal, ReleaseError
<1>11. CASE ReleaseGet(w)
  <2>1. CASE ReleaseInMemory(w)
    BY <1>11, <2>1, ReleaseInMemoryTouches DEF ReleaseGet
  <2>2. CASE ~ReleaseInMemory(w)
    BY <1>11, <2>2 DEF ReleaseGet, Done, OthersEntries, OthersStay, WorkersOK, MainOK, BeatOK,
       LeaseOK
  <2> QED
    BY <2>1, <2>2
<1>12. CASE ReleaseDelete(w) \/ Abandon(w)
  <2>1. main'[w].pc = "idle" /\ main[w].pc # "idle" /\ UNCHANGED local /\ OthersStay(w)
    BY <1>12 DEF ReleaseDelete, Abandon, Done, Idle, OthersStay, WorkersOK, MainOK, BeatOK, LeaseOK
  <2> QED
    BY <2>1 DEF Moves, OthersEntries
<1>13. CASE \E t \in Target : ClaimLocal(w, t) \/ ClaimSend(w, t)
  BY <1>1, <1>2, <1>13
<1>14. CASE Replies(w)
  BY <1>3, <1>6, <1>7, <1>11, <1>12, <1>14 DEF Replies
<1> QED
  BY <1>4, <1>5, <1>8, <1>9, <1>10, <1>12, <1>13, <1>14 DEF WorkerStep

\* Dictionary entries, for all constants: an entry in force is changed by
\* nobody but its owner, the clock and a crash of its process; a claim takes
\* over, and recover_dead_workers removes, only what has expired.
THEOREM OnlyOwnerTouchesEntries == Spec => OnlyOwnerTouchesLocal
<1>1. TypeInv /\ [Next]_vars =>
        [\A c \in Coordinator, t \in Target :
           LET e == local[c][t]
           IN e.owner # NoWorker /\ e.age < LeaseTTL /\ local'[c][t] # e =>
                \/ Tick \/ Crash(c)
                \/ Moves(e.owner)]_vars
  <2> SUFFICES ASSUME TypeInv, Next, NEW c \in Coordinator, NEW t \in Target,
                      local[c][t].owner # NoWorker, local[c][t].age < LeaseTTL,
                      local'[c][t] # local[c][t], ~Tick, ~Crash(c)
               PROVE  Moves(local[c][t].owner)
    OBVIOUS
  <2>1. CASE \E w \in Worker : WorkerStep(w)
    <3>1. PICK w \in Worker : WorkerStep(w)
      BY <2>1
    <3>2. OthersEntries(w) /\ Moves(w)
      BY <3>1, WorkerStepTouches
    <3>3. local[c][t].owner = w
      BY <3>2 DEF OthersEntries
    <3> QED
      BY <3>2, <3>3
  <2>2. ASSUME NEW d \in Coordinator, RecoverDeadWorkers(d) PROVE FALSE
    BY <2>2 DEF RecoverDeadWorkers, StaleKeys, TypeInv, LocalOK, AgeCap
  <2>3. ASSUME NEW d \in Coordinator, Crash(d) PROVE FALSE
    BY <2>3 DEF Crash, TypeInv, LocalOK
  <2> QED
    BY <2>1, <2>2, <2>3 DEF Next, WorkerStep
<1> QED
  BY <1>1, TypeInductive, PTL DEF Spec, OnlyOwnerTouchesLocal

----------------------------------------------------------------------------
\* With Redis and calls that may raise, but all in time: a heartbeat that is
\* about to extend a key, and a release about to delete one, has just read that
\* it is its worker's; and a worker inside its lease owns the key or an entry
\* that live as long.
PromptAt(w) ==
  /\ beat[w].pc = "extending" \/ main[w].pc = "deleting" => redis[main[w].target].owner = w
  /\ main[w].pc \in {"idle", "claiming"} => lease[w] = 0
  /\ lease[w] > 0 => InMemory(w) \/ InRedis(w)

Prompt == \A w \in Worker : PromptAt(w)

\* The calls that write a key they do not test in the same command.
OwnCommands == \A w \in Worker : beat[w].pc = "extending" \/ main[w].pc = "deleting"
                                   => redis[main[w].target].owner = w

\* If these meet their worker's key, nobody else's key ever changes.
LEMMA OwnKeysOnly ==
  ASSUME TypeInv, OwnCommands, NEW w \in Worker, WorkerStep(w)
  PROVE  OthersKeys(w)
<1> USE DEF TypeInv
<1> DEFINE t == main[w].target
<1>1. \/ UNCHANGED redis
      \/ main[w].pc = "claiming" /\ redis' = SetNX(t, w)
      \/ beat[w].pc = "extending" /\ redis' = Expire(t)
      \/ main[w].pc = "deleting" /\ redis' = Delete(t)
  BY DEF WorkerStep, Replies, ClaimLocal, ClaimSend, ClaimSet, RenewGet, RenewExpire,
     HeartbeatWake, ReleaseLocal, ReleaseSend, ReleaseGet, ReleaseDelete, ClaimError,
     RenewError, ReleaseError, Raises, Abandon
<1>2. CASE main[w].pc = "claiming" /\ redis' = SetNX(t, w)
  BY <1>2, OnTarget DEF SetNX, OthersKeys, RedisOK
<1>3. CASE beat[w].pc = "extending" /\ redis' = Expire(t)
  BY <1>3, OnTarget DEF Expire, OthersKeys, OwnCommands, RedisOK
<1>4. CASE main[w].pc = "deleting" /\ redis' = Delete(t)
  BY <1>4, OnTarget DEF Delete, OthersKeys, OwnCommands, RedisOK
<1> QED
  BY <1>1, <1>2, <1>3, <1>4 DEF OthersKeys

\* What others do leaves a worker's keys, entries and calls as they are.
LEMMA OthersPrompt ==
  ASSUME TypeInv, Prompt, NEW w \in Worker, OthersKeys(w), OthersEntries(w), OthersStay(w),
         PromptAt(w)'
  PROVE  Prompt'
<1> USE DEF TypeInv
<1>1. ASSUME NEW v \in Worker, v # w PROVE PromptAt(v)'
  <2> DEFINE t == main[v].target
             c == CoordinatorOf[v]
  <2>0. /\ main'[v] = main[v] /\ beat'[v] = beat[v] /\ lease'[v] = lease[v]
        /\ PromptAt(v) /\ lease[v] \in Nat /\ c \in Coordinator
    BY <1>1 DEF OthersStay, Prompt, WorkersOK, LeaseOK
  <2>1. t \in Target /\ redis[t].owner = v => redis'[t] = redis[t]
    BY <1>1 DEF OthersKeys
  <2>2. lease[v] > 0 => main[v].pc # "idle" /\ t \in Target
    BY <2>0, OnTarget DEF PromptAt
  <2>3. beat[v].pc = "extending" \/ main[v].pc = "deleting" => t \in Target
    BY OnTarget
  <2>4. lease[v] > 0 /\ InMemory(v) => local'[c][t] = local[c][t]
    <3> SUFFICES ASSUME lease[v] > 0, InMemory(v) PROVE local'[c][t] = local[c][t]
      OBVIOUS
    <3>1. local[c][t].owner = v /\ local[c][t].age + lease[v] <= LeaseTTL
      BY DEF InMemory
    <3>2. local[c][t].age \in Nat
      BY <2>0, <2>2 DEF LocalOK, AgeCap
    <3>3. local[c][t].age < LeaseTTL
      BY <2>0, <3>1, <3>2
    <3> QED
      BY <1>1, <2>0, <2>2, <3>1, <3>3 DEF OthersEntries
  <2>5. lease'[v] > 0 => InMemory(v)' \/ InRedis(v)'
    BY <2>0, <2>1, <2>2, <2>4 DEF PromptAt, InMemory, InRedis
  <2> QED
    BY <2>0, <2>1, <2>3, <2>5 DEF PromptAt
<1> QED
  BY <1>1 DEF Prompt

\* The end of a release or of a task,
LEMMA DonePrompt ==
  ASSUME TypeInv, NEW w \in Worker, Done(w)
  PROVE  PromptAt(w)'
<1>1. main'[w].pc = "idle" /\ beat'[w].pc = "off" /\ lease'[w] = 0
  BY DEF Done, Idle, Off, TypeInv, WorkersOK, MainOK, BeatOK, LeaseOK
<1> QED
  BY <1>1 DEF PromptAt

\* a claim,
LEMMA ClaimPrompt ==
  ASSUME UseRedis, TypeInv, Prompt, NEW w \in Worker,
         (\E t \in Target : ClaimSend(w, t)) \/ ClaimSet(w) \/ ClaimError(w)
  PROVE  PromptAt(w)'
<1> USE DEF TypeInv
<1> DEFINE t == main[w].target
           c == CoordinatorOf[w]
<1>0. /\ main[w].pc \in {"idle", "claiming"} /\ lease[w] = 0
      /\ beat[w].pc \notin {"sleeping", "renewing", "extending"}
      /\ main[w].age \in Nat /\ lease \in [Worker -> 0..LeaseTTL]
  BY OnTarget DEF ClaimSend, ClaimSet, ClaimError, Prompt, PromptAt, WorkersOK, MainOK, LeaseOK
<1>1. ASSUME NEW s \in Target, ClaimSend(w, s) PROVE PromptAt(w)'
  <2>1. main'[w].pc = "claiming" /\ beat'[w] = beat[w] /\ lease'[w] = 0
    BY <1>0, <1>1 DEF ClaimSend, WorkersOK, MainOK
  <2> QED
    BY <1>0, <2>1 DEF PromptAt
<1>2. CASE Refuse(w)
  <2>1. main'[w].pc = "idle" /\ beat'[w] = beat[w] /\ lease'[w] = 0
    BY <1>0, <1>2 DEF Refuse, Idle, WorkersOK, MainOK
  <2> QED
    BY <1>0, <2>1 DEF PromptAt
<1>3. ASSUME Grant(w, t, main[w].age), t \in Target,
             \/ redis' = [redis EXCEPT ![t] = [owner |-> w, left |-> LeaseTTL]]
             \/ local' = [local EXCEPT ![c][t] = [owner |-> w, age |-> main[w].age]]
      PROVE  PromptAt(w)'
  <2>1. /\ main'[w].pc = "working" /\ main'[w].target = t
        /\ lease'[w] = Remaining(main[w].age) /\ beat'[w].pc # "extending"
    BY <1>3 DEF Grant, Off, WorkersOK, MainOK, BeatOK, LeaseOK
  <2>2. /\ lease'[w] \in 0..LeaseTTL
        /\ lease'[w] > 0 => main[w].age + lease'[w] = LeaseTTL
    BY <1>0, <2>1, RemainingType
  <2>3. CASE redis' = [redis EXCEPT ![t] = [owner |-> w, left |-> LeaseTTL]]
    <3>1. redis'[t] = [owner |-> w, left |-> LeaseTTL]
      BY <1>3, <2>3 DEF RedisOK
    <3> QED
      BY <2>1, <2>2, <3>1 DEF PromptAt, InRedis
  <2>4. CASE local' = [local EXCEPT ![c][t] = [owner |-> w, age |-> main[w].age]]
    <3>1. local'[c][t] = [owner |-> w, age |-> main[w].age]
      BY <1>3, <2>4 DEF LocalOK
    <3> QED
      BY <2>1, <2>2, <3>1 DEF PromptAt, InMemory
  <2> QED
    BY <1>3, <2>3, <2>4
<1>4. CASE ClaimSet(w)
  BY <1>2, <1>3, <1>4, OnTarget DEF ClaimSet, SetNX
<1>5. CASE ClaimError(w)
  BY <1>2, <1>3, <1>5, OnTarget DEF ClaimError, ClaimInMemory
<1> QED
  BY <1>1, <1>4, <1>5

\* the in-memory part of a renewal, after a call that may have extended the key,
LEMMA RenewInMemoryPrompt ==
  ASSUME TypeInv, Prompt, NEW w \in Worker, NEW age \in Nat, main[w].pc = "working",
         UNCHANGED main, RenewInMemory(w, age),
         \/ UNCHANGED redis
         \/ redis' = Expire(main[w].target)
  PROVE  PromptAt(w)'
<1> USE DEF TypeInv
<1> DEFINE t == main[w].target
           c == CoordinatorOf[w]
<1>0. /\ t \in Target /\ c \in Coordinator /\ lease[w] \in 0..LeaseTTL
      /\ redis[t].left \in 0..LeaseTTL
      /\ beat'[w].pc # "extending"
  BY OnTarget DEF RenewInMemory, Renewed, NotRenewed, WorkersOK, BeatOK, LeaseOK, RedisOK
<1>1. CASE OwnEntry(w)
  <2>1. /\ local' = [local EXCEPT ![c][t].age = age] /\ lease'[w] = Remaining(age)
        /\ local[c][t].owner = w
    BY <1>1 DEF RenewInMemory, Renewed, OwnEntry, WorkersOK, LeaseOK
  <2>2. local'[c][t].owner = w /\ local'[c][t].age = age
    BY <1>0, <2>1 DEF LocalOK
  <2>3. lease'[w] > 0 => age + lease'[w] <= LeaseTTL
    BY <2>1, RemainingType
  <2> QED
    BY <1>0, <2>2, <2>3 DEF PromptAt, InMemory
<1>2. CASE ~OwnEntry(w)
  <2>1. lease'[w] = lease[w] /\ local' = local
    BY <1>2 DEF RenewInMemory, NotRenewed
  <2>2. redis'[t].owner = redis[t].owner /\ redis'[t].left >= redis[t].left
    BY <1>0 DEF Expire, RedisOK
  <2>3. redis'[t].left \in Nat
    BY <1>0 DEF Expire, RedisOK
  <2>4. lease[w] > 0 => InMemory(w)' \/ InRedis(w)'
    BY <1>0, <2>1, <2>2, <2>3 DEF Prompt, PromptAt, InMemory, InRedis
  <2> QED
    BY <1>0, <2>1, <2>4 DEF PromptAt
<1> QED
  BY <1>1, <1>2

\* a renewal,
LEMMA RenewPrompt ==
  ASSUME UseRedis, TypeInv, Prompt, NEW w \in Worker,
         HeartbeatWake(w) \/ RenewGet(w) \/ RenewExpire(w) \/ RenewError(w)
  PROVE  PromptAt(w)'
<1> USE DEF TypeInv
<1> DEFINE t == main[w].target
<1>0. /\ main[w].pc = "working" /\ t \in Target /\ UNCHANGED main
      /\ beat[w].age \in Nat /\ lease[w] \in 0..LeaseTTL /\ PromptAt(w)
  BY OnTarget DEF HeartbeatWake, RenewGet, RenewExpire, RenewError, Prompt, WorkersOK, BeatOK, LeaseOK
<1>1. CASE HeartbeatWake(w) \/ (RenewGet(w) /\ ~RenewInMemory(w, beat[w].age))
  <2>1. /\ UNCHANGED <<redis, local, lease>>
        /\ beat'[w].pc = "extending" => redis[t].owner = w
    BY <1>1 DEF HeartbeatWake, RenewGet, NotRenewed, OwnedBy, WorkersOK, BeatOK
  <2> QED
    BY <1>0, <2>1 DEF PromptAt, InMemory, InRedis
<1>2. CASE RenewGet(w) /\ RenewInMemory(w, beat[w].age)
  BY <1>0, <1>2, RenewInMemoryPrompt DEF RenewGet
<1>3. CASE RenewError(w)
  BY <1>0, <1>3, RenewInMemoryPrompt DEF RenewError, Raises
<1>4. CASE RenewExpire(w)
  <2>1. /\ redis[t].owner = w /\ redis' = [redis EXCEPT ![t].left = LeaseTTL]
        /\ lease'[w] = Remaining(beat[w].age) /\ beat'[w].pc = "sleeping"
    BY <1>0, <1>4 DEF RenewExpire, Expire, Renewed, PromptAt, WorkersOK, BeatOK, LeaseOK
  <2>2. redis'[t].owner = w /\ redis'[t].left = LeaseTTL
    BY <1>0, <2>1 DEF RedisOK
  <2>3. lease'[w] <= LeaseTTL
    BY <1>0, <2>1, RemainingType
  <2> QED
    BY <1>0, <2>1, <2>2, <2>3 DEF PromptAt, InRedis
<1> QED
  BY <1>1, <1>2, <1>3, <1>4

\* and a release.
LEMMA ReleasePrompt ==
  ASSUME UseRedis, TypeInv, Prompt, NEW w \in Worker,
         ReleaseSend(w) \/ ReleaseGet(w) \/ ReleaseDelete(w) \/ ReleaseError(w) \/ Abandon(w)
  PROVE  PromptAt(w)'
<1> USE DEF TypeInv
<1> DEFINE t == main[w].target
<1>1. CASE Done(w)
  BY <1>1, DonePrompt
<1>2. CASE ~Done(w)
  <2>1. ReleaseSend(w) \/ ReleaseGet(w)
    BY <1>2 DEF ReleaseDelete, ReleaseError, ReleaseInMemory, Abandon
  <2>2. /\ UNCHANGED <<redis, local, lease>> /\ main'[w].target = t
        /\ main'[w].pc = "releasing" \/ (main'[w].pc = "deleting" /\ redis[t].owner = w)
        /\ beat'[w].pc # "extending"
    <3>1. CASE ReleaseSend(w)
      BY <3>1 DEF ReleaseSend, Off, WorkersOK, MainOK, BeatOK
    <3>2. CASE ReleaseGet(w)
      <4>1. beat[w].pc # "extending"
        BY <3>2, OnTarget DEF ReleaseGet
      <4> QED
        BY <1>2, <3>2, <4>1 DEF ReleaseGet, ReleaseInMemory, OwnedBy, WorkersOK, MainOK, BeatOK
    <3> QED
      BY <2>1, <3>1, <3>2
  <2> QED
    BY <2>2 DEF Prompt, PromptAt, InMemory, InRedis
<1> QED
  BY <1>1, <1>2

\* With calls that are never late no time passes between two commands of one
\* call: the clock finds nobody about to extend or to delete a key.
LEMMA SystemPrompt ==
  ASSUME UseRedis, MaxLatency = 0, TypeInv, Prompt,
         (\E c \in Coordinator : RecoverDeadWorkers(c) \/ Crash(c)) \/ Tick
  PROVE  Prompt'
<1> USE DEF TypeInv
<1>0. ASSUME NEW w \in Worker
      PROVE  lease[w] \in Nat /\ (lease[w] > 0 => main[w].target \in Target)
  <2>1. lease[w] \in Nat /\ (main[w].pc = "idle" => lease[w] = 0)
    BY DEF Prompt, PromptAt, WorkersOK, LeaseOK
  <2>2. lease[w] > 0 => lease[w] # 0
    BY <2>1
  <2> QED
    BY <2>1, <2>2, OnTarget
<1>1. ASSUME NEW c \in Coordinator, Crash(c) PROVE Prompt'
  <2>1. ASSUME NEW w \in Worker, CoordinatorOf[w] = c PROVE PromptAt(w)'
    <3>1. main'[w].pc = "idle" /\ beat'[w].pc = "off" /\ lease'[w] = 0
      BY <1>1, <2>1 DEF Crash, Idle, Off
    <3> QED
      BY <3>1 DEF PromptAt
  <2>2. ASSUME NEW w \in Worker, CoordinatorOf[w] # c PROVE PromptAt(w)'
    <3>1. /\ main'[w] = main[w] /\ beat'[w] = beat[w] /\ lease'[w] = lease[w] /\ redis' = redis
          /\ local'[CoordinatorOf[w]] = local[CoordinatorOf[w]]
      BY <1>1, <2>2 DEF Crash, LocalOK
    <3> QED
      BY <3>1 DEF Prompt, PromptAt, InMemory, InRedis
  <2> QED
    BY <2>1, <2>2 DEF Prompt
<1>2. CASE Tick
  <2> SUFFICES ASSUME NEW w \in Worker PROVE PromptAt(w)'
    BY DEF Prompt
  <2> DEFINE t == main[w].target
             c == CoordinatorOf[w]
  <2>1. /\ beat[w].pc # "extending" /\ main[w].pc # "deleting" /\ main[w].pc # "claiming"
    <3>1. main[w].age \in Nat /\ beat[w].age \in Nat
      BY DEF WorkersOK, MainOK, BeatOK
    <3>2. ~Pending(w)
      BY <1>2, <3>1 DEF Tick
    <3>3. beat[w].pc = "extending" => Deadline(w) = 0
      BY DEF Deadline
    <3>4. beat[w].pc # "extending"
      <4>1. beat[w].pc = "extending" => beat[w].age < Deadline(w)
        BY <1>2 DEF Tick
      <4>2. ~(beat[w].age < 0)
        BY <3>1
      <4> QED
        BY <3>3, <4>1, <4>2
    <3> QED
      BY <3>2, <3>4 DEF Pending
  <2>2. beat'[w].pc = beat[w].pc /\ main'[w] = main[w]
    BY <1>2, <2>1 DEF Tick, Pending, WorkersOK, MainOK, BeatOK
  <2>3. lease'[w] = IF lease[w] = 0 THEN 0 ELSE lease[w] - 1
    BY <1>2 DEF Tick
  <2>4. ASSUME lease'[w] > 0 PROVE InMemory(w)' \/ InRedis(w)'
    <3>1. /\ lease[w] > 1 /\ lease'[w] = lease[w] - 1 /\ lease[w] \in Nat
          /\ t \in Target /\ c \in Coordinator
      BY <1>0, <2>3, <2>4
    <3>2. CASE InMemory(w)
      <4>1. /\ local[c][t].owner = w /\ local[c][t].age + lease[w] <= LeaseTTL
            /\ local[c][t].age \in Nat /\ w # NoWorker
        BY <3>1, <3>2 DEF InMemory, LocalOK, AgeCap
      <4>2. local[c][t].age # AgeCap
        BY <3>1, <4>1 DEF AgeCap
      <4>3. local'[c][t] = [local[c][t] EXCEPT !.age = @ + 1]
        BY <1>2, <3>1, <4>1, <4>2 DEF Tick
      <4>4. local'[c][t].owner = w /\ local'[c][t].age = local[c][t].age + 1
        BY <3>1, <4>1, <4>3 DEF LocalOK
      <4>5. local'[c][t].age + lease'[w] <= LeaseTTL
        BY <3>1, <4>1, <4>4
      <4> QED
        BY <2>2, <4>4, <4>5 DEF InMemory
    <3>3. CASE InRedis(w)
      <4>1. redis[t].owner = w /\ redis[t].left >= lease[w] /\ redis[t].left \in Nat
        BY <3>1, <3>3 DEF InRedis, RedisOK
      <4>2. redis'[t].owner = w /\ redis'[t].left = redis[t].left - 1
        BY <1>2, <3>1, <4>1 DEF Tick, RedisOK
      <4> QED
        BY <2>2, <3>1, <4>1, <4>2 DEF InRedis
    <3>4. lease[w] > 0
      BY <3>1
    <3> QED
      BY <3>2, <3>3, <3>4 DEF Prompt, PromptAt
  <2>5. main[w].pc \in {"idle", "claiming"} => lease'[w] = 0
    BY <2>3 DEF Prompt, PromptAt
  <2> QED
    BY <2>1, <2>2, <2>4, <2>5 DEF PromptAt
<1> QED
  BY <1>1, <1>2 DEF RecoverDeadWorkers

\* With Redis and calls in time, Prompt is inductive.
LEMMA PromptStep ==
  ASSUME UseRedis, MaxLatency = 0, TypeInv, Prompt, [Next]_vars
  PROVE  Prompt'
<1>1. CASE UNCHANGED vars
  BY <1>1 DEF vars, Prompt, PromptAt, InMemory, InRedis
<1>2. ASSUME NEW w \in Worker, WorkerStep(w) PROVE Prompt'
  <2>1. PromptAt(w)'
    <3>1. \A t \in Target : ~ClaimLocal(w, t)
      BY DEF ClaimLocal
    <3>2. ~ReleaseLocal(w)
      BY DEF ReleaseLocal
    <3> QED
      BY <1>2, <3>1, <3>2, ClaimPrompt, RenewPrompt, ReleasePrompt DEF WorkerStep, Replies
  <2>2. OthersKeys(w) /\ OthersEntries(w) /\ OthersStay(w)
    BY <1>2, OwnKeysOnly, WorkerStepTouches DEF OwnCommands, Prompt, PromptAt
  <2> QED
    BY <2>1, <2>2, OthersPrompt
<1>3. CASE (\E c \in Coordinator : RecoverDeadWorkers(c) \/ Crash(c)) \/ Tick
  BY <1>3, SystemPrompt
<1> QED
  BY <1>1, <1>2, <1>3 DEF Next, WorkerStep

\* Before a call has raised workers are on time, and after it, if no call is
\* ever late, they are prompt.
RedisInv == /\ faults = 0 => Timely
            /\ MaxLatency = 0 => Prompt

\* Both invariants, as properties of the specification.
LEMMA RedisInvariant == ASSUME InTime PROVE Spec => [](TypeInv /\ RedisInv)
<1>1. Init => Prompt
  <2> SUFFICES ASSUME Init, NEW w \in Worker PROVE PromptAt(w)
    BY DEF Prompt
  <2>1. main[w].pc = "idle" /\ beat[w].pc = "off" /\ lease[w] = 0
    BY DEF Init, Idle, Off
  <2>2. ~(lease[w] > 0)
    BY <2>1
  <2> QED
    BY <2>1, <2>2 DEF PromptAt
<1>2. TypeInv /\ (MaxLatency = 0 => Prompt) /\ [Next]_vars => (MaxLatency = 0 => Prompt)'
  BY PromptStep DEF InTime
<1>3. Spec => [](MaxLatency = 0 => Prompt)
  BY <1>1, <1>2, TypeInductive, PTL DEF Spec
<1>4. TypeInv /\ (faults = 0 => Timely) /\ (MaxLatency = 0 => Prompt) => TypeInv /\ RedisInv
  BY DEF RedisInv
<1> QED
  BY <1>3, <1>4, TimelyInvariant, PTL

\* With Redis, a worker inside its lease has its name in the key or in its
\* process's dictionary, for at least as long as the lease: while no call has
\* raised, and also after one if no call is late.
THEOREM RedisLeaseBacked == ASSUME InTime PROVE Spec => []LeaseBacked
<1>1. TypeInv /\ RedisInv => LeaseBacked
  <2> SUFFICES ASSUME TypeInv, RedisInv, faults = 0 \/ MaxLatency = 0,
                      NEW w \in Worker, lease[w] > 0
               PROVE  InMemory(w) \/ InRedis(w)
    BY DEF LeaseBacked
  <2> QED
    BY OneKeyOneOwner DEF RedisInv, Prompt, PromptAt
<1> QED
  BY <1>1, RedisInvariant, PTL

\* And a renewal or a release never meets the key of another worker, under the
\* same conditions, although it reads the key in one command and writes it in
\* the next.
THEOREM OnlyOwnerTouchesKeys == ASSUME InTime PROVE Spec => OnlyOwnerTouches
<1>1. TypeInv /\ RedisInv /\ [Next]_vars =>
        [\A t \in Target : redis[t].owner # NoWorker /\ redis'[t] # redis[t] =>
           \/ Tick
           \/ Moves(redis[t].owner)
           \/ faults > 0 /\ MaxLatency > 0]_vars
  <2> SUFFICES ASSUME TypeInv, RedisInv, Next, NEW t \in Target,
                      redis[t].owner # NoWorker, redis'[t] # redis[t],
                      ~Tick, ~(faults > 0 /\ MaxLatency > 0)
               PROVE  Moves(redis[t].owner)
    OBVIOUS
  <2>1. OwnCommands
    <3>1. faults = 0 \/ MaxLatency = 0
      BY DEF TypeInv, FaultsOK
    <3>2. CASE faults = 0
      BY <3>2, OnTarget DEF RedisInv, Timely, OnTime, OwnCommands, TypeInv
    <3>3. CASE MaxLatency = 0
      BY <3>3 DEF RedisInv, Prompt, PromptAt, OwnCommands
    <3> QED
      BY <3>1, <3>2, <3>3
  <2>2. PICK w \in Worker : WorkerStep(w)
    BY DEF Next, WorkerStep, RecoverDeadWorkers, Crash
  <2>3. OthersKeys(w) /\ Moves(w)
    BY <2>1, <2>2, OwnKeysOnly, WorkerStepTouches
  <2> QED
    BY <2>3 DEF OthersKeys
<1> QED
  BY <1>1, RedisInvariant, PTL DEF Spec, OnlyOwnerTouches

\* Any number of processes that share a Redis server implement the lease service
\* as well, if no call raises.
THEOREM RedisService == ASSUME InTime, MaxFaults = 0 PROVE Spec => ServiceSpec
<1>1. Init => Service!Init
  BY ServiceInitially
<1>2. TypeInv /\ RedisInv => Timely
  BY DEF TypeInv, FaultsOK, RedisInv
<1>3. /\ TypeInv /\ RedisInv /\ Timely /\ (TypeInv /\ RedisInv)' /\ Timely' /\ [Next]_vars
      => [Service!Change]_holder
  BY NoStealWithRedis, ServiceStep
<1> QED
  BY <1>1, <1>2, <1>3, RedisInvariant, PTL DEF Spec, ServiceSpec, Service!Spec
=============================================================================

------------------------ MODULE IngestPipelineProofs ------------------------
(***************************************************************************)
(* Theorems about IngestPipeline, for any runs, repositories, candidates,   *)
(* sources, limits and numbers of faults.                                   *)
(***************************************************************************)
EXTENDS IngestPipeline, FiniteSetTheorems, WellFoundedInduction, TLAPS

\* Candidates are of the type of their pipeline, and gathered by Fetch only.
Typed == \A r \in Run :
  /\ \A j \in 1..Len(got[r]) : TypeOf[got[r][j]] = VerticalOf[r]
  /\ pc[r] \in {"off", "fetch"} => Len(got[r]) = 0

\* A run that goes on has not reached its limit.
Below == \A r \in Run :
  Bounded(r) /\ pc[r] \in {"off", "fetch", "loop", "write", "store"}
    => count[r].stored < Limit

TypeInv == TypeOK /\ Typed /\ Below

----------------------------------------------------------------------------
\* Type correctness.

\* The candidate in hand is one, and has the type of its pipeline.
LEMMA InHand ==
  ASSUME TypeInv, NEW r \in Run, AtCandidate(r) \/ pc[r] \in {"write", "store"}
  PROVE  /\ pos[r] \in 1..Len(got[r])
         /\ Current(r) \in Candidate /\ TypeOf[Current(r)] = VerticalOf[r]
         /\ KeyOf[Current(r)] \in Key /\ NameOf[Current(r)] \in Name
         /\ RowOf[Current(r)] \in Row
<1>1. got[r] \in Seq(Candidate) /\ pos[r] \in 1..Len(got[r])
  BY DEF TypeInv, TypeOK, AtCandidate
<1>2. Current(r) \in Candidate
  BY <1>1 DEF Current
<1>3. TypeOf[Current(r)] = VerticalOf[r]
  BY <1>1 DEF TypeInv, Typed, Current
<1> QED
  BY <1>1, <1>2, <1>3, IngestAssumption

LEMMA InitTyped == Init => TypeInv
  BY IngestAssumption DEF Init, TypeInv, TypeOK, Typed, Below, Working

\* Fetch: the only step that is about what sources answer.
LEMMA FetchTyped ==
  ASSUME TypeInv, NEW r \in Run, Fetch(r)
  PROVE  TypeInv'
<1>1. PICK up \in SUBSET ToSet(Sources[VerticalOf[r]]) :
        got' = [got EXCEPT ![r] = Gathered(VerticalOf[r], up)]
  BY DEF Fetch
<1> DEFINE g == Gathered(VerticalOf[r], up)
<1>2. g \in Seq({c \in Candidate : TypeOf[c] = VerticalOf[r]})
  BY AnswersAssumption, IngestAssumption
<1> HIDE DEF g
<1>3. g \in Seq(Candidate) /\ \A j \in 1..Len(g) : TypeOf[g[j]] = VerticalOf[r]
  BY <1>2
<1>4. Len(g) \in Nat /\ got' = [got EXCEPT ![r] = g]
  BY <1>1, <1>3 DEF g
<1>5. TypeOK'
  BY <1>3, <1>4 DEF TypeInv, TypeOK, Typed, Fetch, Working, Bounded
<1>6. Typed'
  BY <1>3, <1>4 DEF TypeInv, TypeOK, Typed, Fetch
<1>7. Below'
  BY DEF TypeInv, TypeOK, Below, Fetch, Bounded
<1> QED
  BY <1>5, <1>6, <1>7 DEF TypeInv

\* Nothing else changes what was gathered, and only Start leads to Fetch.
LEMMA OthersTyped ==
  ASSUME TypeInv, UNCHANGED got,
         \A r \in Run : pc'[r] \in {"off", "fetch"} => pc[r] \in {"off", "fetch"}
  PROVE  Typed'
  BY DEF TypeInv, Typed

\* The counters of a run.
Counts == [stored : Nat, failures : Nat, stale : Nat]
Tally(c) == c.stored + c.failures + c.stale

LEMMA TallyNat == ASSUME NEW c \in Counts PROVE Tally(c) \in Nat
  BY DEF Counts, Tally

\* A step that ends with a run at one of its candidates, or past the last, with
\* at most one more thing counted if it has moved on.
LEMMA LoopTyped ==
  ASSUME TypeInv, NEW r \in Run, pos[r] \in 1..Len(got[r]),
         UNCHANGED <<rvars, now>>,
         records' \in [Store -> [Key -> Candidate \cup {NoRecord}]],
         rows' \in [Row -> Key \cup {NoKey}],
         logged' \in [Store -> SUBSET Candidate],
         seen' \in [Run -> SUBSET Name], faults' \in 0..MaxFaults,
         pc' = [pc EXCEPT ![r] = pc'[r]], count' = [count EXCEPT ![r] = count'[r]],
         pc[r] \in {"loop", "write", "store"},
         pc'[r] \in {"loop", "write", "store", "close"},
         count'[r] \in Counts,
         Bounded(r) => /\ count'[r].stored <= Limit
                       /\ pc'[r] # "close" => count'[r].stored < Limit,
         \/ pos' = pos /\ count' = count
         \/ /\ pos' = [pos EXCEPT ![r] = @ + 1] /\ pc'[r] \in {"loop", "close"}
            /\ Tally(count'[r]) <= Tally(count[r]) + 1
  PROVE  TypeInv'
<1>1. TypeOK
  BY DEF TypeInv
<1>2. pc' \in [Run -> {"off", "done", "raised"} \cup Working]
  BY <1>1 DEF TypeOK, Working
<1>3. /\ at' \in [Run -> Store] /\ got' \in [Run -> Seq(Candidate)]
      /\ cutoff' \in [Run -> Int] /\ now' \in 0..MaxTime
  BY <1>1 DEF TypeOK, rvars
<1>4. pos' \in [Run -> Nat \ {0}]
  <2>1. pos \in [Run -> Nat \ {0}] /\ pos[r] + 1 \in Nat \ {0}
    BY <1>1 DEF TypeOK
  <2> QED
    BY <2>1
<1>5. count' \in [Run -> Counts]
  BY <1>1 DEF TypeOK, Counts
<1>6. ASSUME NEW q \in Run
      PROVE  /\ pos'[q] <= Len(got'[q]) + 1
             /\ pc'[q] \in {"write", "store"} => pos'[q] <= Len(got'[q])
  <2>1. CASE q = r
    BY <2>1, <1>1 DEF TypeOK, rvars
  <2>2. CASE q # r
    BY <2>2, <1>1 DEF TypeOK, rvars
  <2> QED
    BY <2>1, <2>2
<1>7. ASSUME NEW q \in Run
      PROVE  /\ count'[q].stored + count'[q].failures + count'[q].stale < pos'[q]
             /\ Bounded(q) => count'[q].stored <= Limit
  <2>1. CASE q = r
    <3>1. count[r] \in Counts /\ Tally(count[r]) < pos[r] /\ pos[r] \in Nat
      BY <1>1 DEF TypeOK, Counts, Tally
    <3>2. Tally(count[r]) \in Nat /\ Tally(count'[r]) \in Nat
      BY <3>1, TallyNat
    <3>3. Tally(count'[r]) < pos'[r]
      <4>1. CASE pos' = pos /\ count' = count
        BY <3>1, <4>1
      <4>2. CASE pos' = [pos EXCEPT ![r] = @ + 1] /\ Tally(count'[r]) <= Tally(count[r]) + 1
        <5>1. pos'[r] = pos[r] + 1
          BY <4>2, <1>1 DEF TypeOK
        <5> QED
          BY <3>1, <3>2, <4>2, <5>1
      <4> QED
        BY <4>1, <4>2
    <3> QED
      BY <3>3, <2>1 DEF Tally
  <2>2. CASE q # r
    BY <2>2, <1>1 DEF TypeOK
  <2> QED
    BY <2>1, <2>2
<1>8. TypeOK'
  BY <1>2, <1>3, <1>4, <1>5, <1>6, <1>7 DEF TypeOK, Counts, Bounded
<1>9. Typed'
  BY <1>1, OthersTyped DEF TypeOK, rvars
<1>10. Below'
  BY <1>1 DEF TypeInv, TypeOK, Below, Bounded
<1> QED
  BY <1>8, <1>9, <1>10 DEF TypeInv

\* One more of something.
LEMMA CountedTyped ==
  ASSUME TypeInv, NEW r \in Run,
         \/ CountFailure(r)
         \/ count' = [count EXCEPT ![r].stale = @ + 1]
         \/ UNCHANGED count
  PROVE  /\ count' = [count EXCEPT ![r] = count'[r]] /\ count'[r] \in Counts
         /\ count'[r].stored = count[r].stored
         /\ Tally(count'[r]) <= Tally(count[r]) + 1
<1>1. count \in [Run -> Counts] /\ count[r] \in Counts
  BY DEF TypeInv, TypeOK, Counts
<1> QED
  BY <1>1 DEF CountFailure, Counts, Tally

\* What the steps of the loop write.
LEMMA RecordsTyped ==
  ASSUME TypeOK, NEW r \in Run, Current(r) \in Candidate, KeyOf[Current(r)] \in Key,
         RowOf[Current(r)] \in Row, UNCHANGED <<records, rows>> \/ Upsert(r)
  PROVE  /\ records' \in [Store -> [Key -> Candidate \cup {NoRecord}]]
         /\ rows' \in [Row -> Key \cup {NoKey}]
<1>1. /\ at[r] \in Store /\ records[at[r]] \in [Key -> Candidate \cup {NoRecord}]
      /\ records \in [Store -> [Key -> Candidate \cup {NoRecord}]]
      /\ rows \in [Row -> Key \cup {NoKey}]
  BY DEF TypeOK
<1>2. CASE UNCHANGED <<records, rows>>
  BY <1>1, <1>2
<1>3. CASE Upsert(r)
  <2>1. records' \in [Store -> [Key -> Candidate \cup {NoRecord}]]
    BY <1>1, <1>3 DEF Upsert
  <2>2. rows' \in [Row -> Key \cup {NoKey}]
    BY <1>1, <1>3 DEF Upsert
  <2> QED
    BY <2>1, <2>2
<1> QED
  BY <1>2, <1>3

LEMMA LoggedTyped ==
  ASSUME TypeOK, NEW r \in Run, Current(r) \in Candidate,
         UNCHANGED logged \/ Log(r)
  PROVE  logged' \in [Store -> SUBSET Candidate]
<1>1. logged[at[r]] \cup {Current(r)} \in SUBSET Candidate
  BY DEF TypeOK
<1>2. CASE UNCHANGED logged
  BY <1>2 DEF TypeOK
<1>3. CASE Log(r)
  BY <1>1, <1>3 DEF TypeOK, Log
<1> QED
  BY <1>2, <1>3

LEMMA SeenTyped ==
  ASSUME TypeOK, NEW r \in Run, NameOf[Current(r)] \in Name,
         \/ UNCHANGED seen
         \/ seen' = [seen EXCEPT ![r] = @ \cup Remembered(r)]
         \/ seen' = [seen EXCEPT ![r] = @ \cup RememberedStale(r)]
  PROVE  seen' \in [Run -> SUBSET Name]
<1>1. Remembered(r) \in SUBSET Name /\ RememberedStale(r) \in SUBSET Name
  BY DEF Remembered, RememberedStale
<1>2. seen[r] \in SUBSET Name
  BY DEF TypeOK
<1>3. PICK S \in SUBSET Name : seen' = [seen EXCEPT ![r] = S] \/ UNCHANGED seen
  BY <1>1, <1>2
<1> QED
  BY <1>3 DEF TypeOK

LEMMA FaultsTyped ==
  ASSUME TypeOK, UNCHANGED faults \/ Fault
  PROVE  faults' \in 0..MaxFaults
  BY IngestAssumption DEF TypeOK, Fault

\* A step that rejects, skips or gives up a candidate, keeps it, or logs it.
LEMMA ActionTyped ==
  ASSUME TypeInv, NEW r \in Run, AtCandidate(r) \/ pc[r] \in {"write", "store"},
         UNCHANGED <<rvars, now>>,
         UNCHANGED <<records, rows>> \/ Upsert(r), UNCHANGED logged \/ Log(r),
         \/ UNCHANGED seen
         \/ seen' = [seen EXCEPT ![r] = @ \cup Remembered(r)]
         \/ seen' = [seen EXCEPT ![r] = @ \cup RememberedStale(r)],
         UNCHANGED faults \/ Fault,
         \/ /\ Skip(r)
            /\ \/ CountFailure(r) \/ UNCHANGED count
               \/ count' = [count EXCEPT ![r].stale = @ + 1]
         \/ /\ UNCHANGED <<pos, count>>
            /\ \E p \in {"write", "store"} : pc' = [pc EXCEPT ![r] = p]
  PROVE  TypeInv'
<1>1. TypeOK
  BY DEF TypeInv
<1>2. /\ pos[r] \in 1..Len(got[r]) /\ Current(r) \in Candidate
      /\ KeyOf[Current(r)] \in Key /\ NameOf[Current(r)] \in Name /\ RowOf[Current(r)] \in Row
  BY InHand
<1>3. at[r] \in Store /\ pc[r] \in {"loop", "write", "store"}
  BY <1>1 DEF TypeOK, AtCandidate
<1>4. /\ records' \in [Store -> [Key -> Candidate \cup {NoRecord}]]
      /\ rows' \in [Row -> Key \cup {NoKey}]
  BY <1>1, <1>2, RecordsTyped
<1>5. logged' \in [Store -> SUBSET Candidate]
  BY <1>1, <1>2, LoggedTyped
<1>6. seen' \in [Run -> SUBSET Name]
  BY <1>1, <1>2, SeenTyped
<1>7. faults' \in 0..MaxFaults
  BY <1>1, FaultsTyped
<1>8. pc' = [pc EXCEPT ![r] = pc'[r]] /\ pc'[r] \in {"loop", "write", "store"}
  BY <1>1 DEF TypeOK, Skip
<1>9. /\ count' = [count EXCEPT ![r] = count'[r]] /\ count'[r] \in Counts
      /\ count'[r].stored = count[r].stored
      /\ Tally(count'[r]) <= Tally(count[r]) + 1
  BY CountedTyped
<1>10. Bounded(r) => count'[r].stored < Limit /\ count'[r].stored <= Limit
  BY <1>3, <1>9, <1>1, IngestAssumption DEF TypeInv, TypeOK, Below, Counts
<1>11. \/ pos' = pos /\ count' = count
       \/ pos' = [pos EXCEPT ![r] = @ + 1] /\ pc'[r] = "loop"
  BY <1>1 DEF TypeOK, Skip
<1> QED
  BY <1>2, <1>3, <1>4, <1>5, <1>6, <1>7, <1>8, <1>9, <1>10, <1>11, LoopTyped

\* The record is stored, and counted if it is new.
LEMMA StoreTyped ==
  ASSUME TypeInv, NEW r \in Run, StoreRecord(r)
  PROVE  TypeInv'
<1>1. TypeOK
  BY DEF TypeInv
<1>2. /\ pos[r] \in 1..Len(got[r]) /\ Current(r) \in Candidate
      /\ KeyOf[Current(r)] \in Key /\ RowOf[Current(r)] \in Row
  BY InHand DEF StoreRecord
<1>3. count \in [Run -> Counts] /\ count[r] \in Counts
  BY <1>1 DEF TypeOK, Counts
<1>4. /\ records' \in [Store -> [Key -> Candidate \cup {NoRecord}]]
      /\ rows' \in [Row -> Key \cup {NoKey}]
  BY <1>1, <1>2, RecordsTyped DEF StoreRecord
<1>5. /\ count' = [count EXCEPT ![r] = count'[r]] /\ count'[r] \in Counts
      /\ Tally(count'[r]) <= Tally(count[r]) + 1
      /\ count'[r].stored = IF IsNew(r) THEN count[r].stored + 1 ELSE count[r].stored
  BY <1>3 DEF StoreRecord, Counts, Tally
<1>6. /\ pc' = [pc EXCEPT ![r] = pc'[r]]
      /\ pc'[r] = IF Enough(r) THEN "close" ELSE "loop"
  BY <1>1 DEF TypeOK, StoreRecord
<1>7. Bounded(r) => count[r].stored < Limit
  BY DEF TypeInv, Below, StoreRecord
<1>8. Bounded(r) => /\ count'[r].stored <= Limit
                    /\ pc'[r] # "close" => count'[r].stored < Limit
  BY <1>3, <1>5, <1>6, <1>7, IngestAssumption DEF Enough, Counts
<1>9. /\ logged' \in [Store -> SUBSET Candidate] /\ seen' \in [Run -> SUBSET Name]
      /\ faults' \in 0..MaxFaults /\ pc[r] \in {"loop", "write", "store"}
      /\ UNCHANGED <<rvars, now>> /\ pos' = [pos EXCEPT ![r] = @ + 1]
  BY <1>1 DEF TypeOK, StoreRecord
<1> QED
  BY <1>2, <1>4, <1>5, <1>6, <1>8, <1>9, LoopTyped

\* A run starts, returns or dies.
LEMMA StartTyped ==
  ASSUME TypeInv, NEW r \in Run, NEW s \in Store, Start(r, s)
  PROVE  TypeInv'
<1>1. TypeOK
  BY DEF TypeInv
<1>2. now - Hours \in Int
  BY <1>1, IngestAssumption DEF TypeOK
<1>3. /\ pc' \in [Run -> {"off", "done", "raised"} \cup Working]
      /\ at' \in [Run -> Store] /\ cutoff' \in [Run -> Int]
  BY <1>1, <1>2 DEF TypeOK, Start, Working
<1>4. TypeOK'
  BY <1>1, <1>3 DEF TypeOK, Start, Bounded
<1>5. Typed'
  BY OthersTyped DEF Start, TypeInv, TypeOK
<1>6. Below'
  BY <1>1 DEF TypeInv, TypeOK, Start, Below, Bounded
<1> QED
  BY <1>4, <1>5, <1>6 DEF TypeInv

LEMMA EndTyped ==
  ASSUME TypeInv, NEW r \in Run, Complete(r) \/ Abort(r)
  PROVE  TypeInv'
<1>1. TypeOK
  BY DEF TypeInv
<1>2. faults' \in 0..MaxFaults
  <2>1. \/ faults' = faults
        \/ faults < MaxFaults /\ faults' = faults + 1
    <3>1. CASE Complete(r)
      BY <3>1 DEF Complete
    <3>2. CASE Abort(r)
      BY <3>2 DEF Abort, Fault
    <3> QED
      BY <3>1, <3>2
  <2>2. faults \in 0..MaxFaults
    BY <1>1, Zenon DEF TypeOK
  <2>3. MaxFaults \in Nat
    BY IngestAssumption
  <2> QED
    BY <2>1, <2>2, <2>3
<1>3. PICK p \in {"done", "raised"} : pc' = [pc EXCEPT ![r] = p]
  BY DEF Complete, Abort
<1>4. pc' \in [Run -> {"off", "done", "raised"} \cup Working]
  BY <1>1, <1>3 DEF TypeOK
<1>5. UNCHANGED <<records, rows, logged, rvars, pos, seen, count, now>>
  BY DEF Complete, Abort
<1>6. TypeOK'
  BY <1>1, <1>2, <1>3, <1>4, <1>5 DEF TypeOK, rvars, Bounded
<1>7. Typed'
  BY <1>1, <1>3, <1>5, OthersTyped DEF TypeOK, rvars
<1>8. Below'
  BY <1>1, <1>3, <1>5 DEF TypeInv, TypeOK, Below, Bounded
<1> QED
  BY <1>6, <1>7, <1>8 DEF TypeInv

LEMMA StepTyped == TypeInv /\ [Next]_vars => TypeInv'
<1> SUFFICES ASSUME TypeInv, [Next]_vars PROVE TypeInv'
  OBVIOUS
<1>1. ASSUME NEW r \in Run, NEW s \in Store, Start(r, s) PROVE TypeInv'
  BY <1>1, StartTyped
<1>2. ASSUME NEW r \in Run, Fetch(r) PROVE TypeInv'
  BY <1>2, FetchTyped
<1>3. ASSUME NEW r \in Run, RejectStale(r) PROVE TypeInv'
  BY <1>3, ActionTyped DEF RejectStale
<1>4. ASSUME NEW r \in Run, SkipDuplicate(r) PROVE TypeInv'
  BY <1>4, ActionTyped DEF SkipDuplicate
<1>5. ASSUME NEW r \in Run, RejectInvalid(r) PROVE TypeInv'
  BY <1>5, ActionTyped DEF RejectInvalid
<1>6. ASSUME NEW r \in Run, Accept(r) PROVE TypeInv'
  BY <1>6, ActionTyped DEF Accept, FirstWrite
<1>7. ASSUME NEW r \in Run, Write(r) PROVE TypeInv'
  BY <1>7, ActionTyped DEF Write
<1>8. ASSUME NEW r \in Run, StoreRecord(r) PROVE TypeInv'
  BY <1>8, StoreTyped
<1>9. ASSUME NEW r \in Run, Complete(r) \/ Abort(r) PROVE TypeInv'
  BY <1>9, EndTyped
<1>10. ASSUME NEW r \in Run, WriteRaises(r) PROVE TypeInv'
  BY <1>10, ActionTyped DEF WriteRaises, GiveUp
<1>11. ASSUME NEW r \in Run, StoreRefused(r) \/ StoreRaises(r) PROVE TypeInv'
  BY <1>11, ActionTyped DEF StoreRefused, StoreRaises, GiveUp
<1>12. CASE Tick
  BY <1>12, IngestAssumption DEF Tick, TypeInv, TypeOK, Typed, Below, rvars, Bounded
<1>13. CASE UNCHANGED vars
  BY <1>13 DEF vars, TypeInv, TypeOK, Typed, Below, Bounded
<1> QED
  BY <1>1, <1>2, <1>3, <1>4, <1>5, <1>6, <1>7, <1>8, <1>9, <1>10, <1>11, <1>12,
     <1>13 DEF Next, Step, Mishap

\* The variables have their types, no run deals with more candidates than it
\* has gathered, and the pipelines with a limit never store more than that.
THEOREM TypeCorrect == Spec => []TypeOK
<1>1. TypeInv => TypeOK
  BY DEF TypeInv
<1> QED
  BY <1>1, InitTyped, StepTyped, PTL DEF Spec

----------------------------------------------------------------------------
\* Every record is traceable.

\* What is about to be stored has been logged.
Backed == \A r \in Run :
  pc[r] = "store" => VerticalOf[r] = "news" \/ Current(r) \in logged[at[r]]

TraceInv == TypeInv /\ Backed /\ StoredIsLogged

\* Records stay, or are replaced by the one in hand.
LEMMA UpsertLogged ==
  ASSUME TraceInv, NEW r \in Run, pc[r] = "store", Upsert(r), UNCHANGED logged
  PROVE  StoredIsLogged'
<1>1. /\ records \in [Store -> [Key -> Candidate \cup {NoRecord}]]
      /\ at[r] \in Store
  BY DEF TraceInv, TypeInv, TypeOK
<1>2. /\ KeyOf[Current(r)] \in Key
      /\ TypeOf[Current(r)] # "news" => Current(r) \in logged[at[r]]
  BY InHand DEF TraceInv, Backed
<1> SUFFICES ASSUME NEW s \in Store, NEW k \in Key, records'[s][k] # NoRecord,
                    TypeOf[records'[s][k]] # "news"
             PROVE  records'[s][k] \in logged'[s]
  BY DEF StoredIsLogged, Stored
<1>3. CASE s = at[r] /\ k = KeyOf[Current(r)]
  BY <1>1, <1>2, <1>3 DEF Upsert
<1>4. CASE ~(s = at[r] /\ k = KeyOf[Current(r)])
  <2>1. records'[s][k] = records[s][k]
    BY <1>1, <1>2, <1>4 DEF Upsert
  <2> QED
    BY <2>1 DEF TraceInv, StoredIsLogged, Stored
<1> QED
  BY <1>3, <1>4

\* The other steps write no record, and take nothing out of the log.
LEMMA OthersLogged ==
  ASSUME TraceInv, UNCHANGED records,
         UNCHANGED logged \/ \E r \in Run : Log(r)
  PROVE  StoredIsLogged' /\ \A s \in Store : logged[s] \subseteq logged'[s]
<1>1. \A s \in Store : logged[s] \subseteq logged'[s]
  <2>1. logged \in [Store -> SUBSET Candidate]
    BY DEF TraceInv, TypeInv, TypeOK
  <2>2. ASSUME NEW r \in Run, NEW s \in Store, Log(r)
        PROVE  logged[s] \subseteq logged'[s]
    BY <2>1, <2>2 DEF Log
  <2> QED
    BY <2>2
<1> QED
  BY <1>1 DEF TraceInv, StoredIsLogged, Stored

\* No run but r moves, and r does not get to its last step without the log.
LEMMA BackedKept ==
  ASSUME TraceInv, NEW r \in Run,
         \A s \in Store : logged[s] \subseteq logged'[s],
         \A q \in Run \ {r} : /\ pc'[q] = pc[q] /\ at'[q] = at[q]
                              /\ got'[q] = got[q] /\ pos'[q] = pos[q],
         pc'[r] = "store" => \/ VerticalOf[r] = "news"
                             \/ Current(r)' \in logged'[at'[r]]
  PROVE  Backed'
  BY DEF TraceInv, TypeInv, TypeOK, Backed, Current

LEMMA StepLogged == TraceInv /\ [Next]_vars => TraceInv'
<1> SUFFICES ASSUME TraceInv, [Next]_vars PROVE TraceInv'
  OBVIOUS
<1>1. TypeInv' /\ TypeOK
  BY StepTyped DEF TraceInv, TypeInv
<1>2. ASSUME NEW r \in Run, NEW s \in Store, Start(r, s)
      PROVE  Backed' /\ StoredIsLogged'
  BY <1>1, <1>2, OthersLogged, BackedKept DEF Start, TypeOK
<1>3. ASSUME NEW r \in Run, Fetch(r) PROVE Backed' /\ StoredIsLogged'
  BY <1>1, <1>3, OthersLogged, BackedKept DEF Fetch, TypeOK
<1>4. ASSUME NEW r \in Run, RejectStale(r) \/ SkipDuplicate(r) \/ RejectInvalid(r)
      PROVE  Backed' /\ StoredIsLogged'
  BY <1>1, <1>4, OthersLogged, BackedKept
     DEF RejectStale, SkipDuplicate, RejectInvalid, Skip, TypeOK, rvars
<1>5. ASSUME NEW r \in Run, Accept(r) PROVE Backed' /\ StoredIsLogged'
  <2>1. pc'[r] = "store" => VerticalOf[r] = "news"
    BY <1>1, <1>5 DEF Accept, FirstWrite, TypeOK
  <2> QED
    BY <1>1, <1>5, <2>1, OthersLogged, BackedKept DEF Accept, TypeOK, rvars
<1>6. ASSUME NEW r \in Run, Write(r) PROVE Backed' /\ StoredIsLogged'
  <2>1. UNCHANGED <<records, rvars>> /\ Log(r)
    BY <1>6 DEF Write
  <2>2. StoredIsLogged' /\ \A s \in Store : logged[s] \subseteq logged'[s]
    BY <2>1, OthersLogged
  <2>3. pc'[r] = "store" => Current(r)' \in logged'[at'[r]]
    BY <1>1, <1>6, <2>1 DEF Write, Log, Skip, TypeOK, rvars, Current
  <2> QED
    BY <1>1, <1>6, <2>1, <2>2, <2>3, BackedKept DEF Write, Skip, TypeOK, rvars
<1>7. ASSUME NEW r \in Run, StoreRecord(r) \/ StoreRefused(r) \/ StoreRaises(r)
      PROVE  Backed' /\ StoredIsLogged'
  <2>1. /\ pc[r] = "store" /\ UNCHANGED <<logged, rvars>>
        /\ Upsert(r) \/ UNCHANGED records
    BY <1>7 DEF StoreRecord, StoreRefused, StoreRaises
  <2>2. StoredIsLogged'
    BY <2>1, UpsertLogged, OthersLogged
  <2>3. /\ pc'[r] # "store"
        /\ \A q \in Run \ {r} : pc'[q] = pc[q] /\ pos'[q] = pos[q]
    BY <1>1, <1>7 DEF StoreRecord, StoreRefused, StoreRaises, GiveUp, Skip, TypeOK
  <2> QED
    BY <2>1, <2>2, <2>3, BackedKept DEF rvars
<1>8. ASSUME NEW r \in Run, WriteRaises(r) PROVE Backed' /\ StoredIsLogged'
  <2>1. UNCHANGED <<records, rvars>> /\ (Log(r) \/ UNCHANGED logged)
    BY <1>8 DEF WriteRaises
  <2>2. StoredIsLogged' /\ \A s \in Store : logged[s] \subseteq logged'[s]
    BY <2>1, OthersLogged
  <2>3. /\ pc'[r] # "store"
        /\ \A q \in Run \ {r} : pc'[q] = pc[q] /\ pos'[q] = pos[q]
    BY <1>1, <1>8 DEF WriteRaises, GiveUp, Skip, TypeOK
  <2> QED
    BY <2>1, <2>2, <2>3, BackedKept DEF rvars
<1>9. ASSUME NEW r \in Run, Complete(r) \/ Abort(r) PROVE Backed' /\ StoredIsLogged'
  BY <1>1, <1>9, OthersLogged, BackedKept DEF Complete, Abort, TypeOK, rvars
<1>10. ASSUME Tick \/ UNCHANGED vars PROVE Backed' /\ StoredIsLogged'
  BY <1>10, OthersLogged DEF TraceInv, Backed, Current, Tick, vars, rvars
<1>11. Backed' /\ StoredIsLogged'
  BY <1>2, <1>3, <1>4, <1>5, <1>6, <1>7, <1>8, <1>9, <1>10 DEF Next, Step, Mishap
<1> QED
  BY <1>1, <1>11 DEF TraceInv

\* Whatever raises, wherever a run dies and whoever shares the repository, a
\* record of a paper, startup, product or job is never there before the metrics
\* or the mapping it rests on: the pipelines write these first.
THEOREM Traceable == Spec => []StoredIsLogged
<1>1. Init => TraceInv
  BY InitTyped DEF Init, TraceInv, Backed, StoredIsLogged, Stored
<1>2. TraceInv => StoredIsLogged
  BY DEF TraceInv
<1> QED
  BY <1>1, <1>2, StepLogged, PTL DEF Spec

----------------------------------------------------------------------------
\* The first candidate of a name wins, and only fresh ones are stored.

Outdated(r, c) == Dated(r) /\ Posted[c] < cutoff[r]

\* A candidate that cannot shadow a later one.
Void(r, c) == Outdated(r, c) \/ c \in Unbuildable

\* What a run has dealt with, it remembers, unless it was void.
Passed(r) == VerticalOf[r] # "papers" =>
  \A j \in 1..(pos[r] - 1) : NameOf[got[r][j]] \in seen[r] \/ Void(r, got[r][j])

\* A candidate to be written is fresh, and the first of its name.
Chosen(r) == pc[r] \in {"write", "store"} =>
  /\ ~Outdated(r, Current(r))
  /\ VerticalOf[r] # "papers" =>
       /\ NameOf[Current(r)] \in seen[r]
       /\ \A j \in 1..(pos[r] - 1) :
            NameOf[got[r][j]] # NameOf[Current(r)] \/ Void(r, got[r][j])

OrderInv == TypeInv /\ \A r \in Run : Passed(r) /\ Chosen(r)

\* A step of one run leaves the others as they are.
LEMMA Frame ==
  ASSUME TypeInv, NEW r \in Run,
         Step(r) \/ Mishap(r) \/ \E s \in Store : Start(r, s)
  PROVE  \A q \in Run \ {r} :
           /\ pc'[q] = pc[q] /\ at'[q] = at[q] /\ got'[q] = got[q]
           /\ pos'[q] = pos[q] /\ seen'[q] = seen[q] /\ cutoff'[q] = cutoff[q]
           /\ count'[q] = count[q]
<1> USE DEF TypeInv, TypeOK, rvars, Skip, GiveUp, CountFailure
<1>1. CASE \E s \in Store : Start(r, s)
  BY <1>1 DEF Start
<1>2. CASE Fetch(r)
  BY <1>2 DEF Fetch
<1>3. CASE RejectStale(r) \/ SkipDuplicate(r)
  BY <1>3 DEF RejectStale, SkipDuplicate
<1>4. CASE RejectInvalid(r) \/ Accept(r)
  BY <1>4 DEF RejectInvalid, Accept
<1>5. CASE Write(r) \/ WriteRaises(r)
  BY <1>5 DEF Write, WriteRaises
<1>6. CASE StoreRecord(r) \/ StoreRefused(r) \/ StoreRaises(r)
  BY <1>6 DEF StoreRecord, StoreRefused, StoreRaises
<1>7. CASE Complete(r) \/ Abort(r)
  BY <1>7 DEF Complete, Abort
<1> QED
  BY <1>1, <1>2, <1>3, <1>4, <1>5, <1>6, <1>7 DEF Step, Mishap

\* A run that has not got to its first candidate has nothing behind it.
LEMMA NothingBehind ==
  ASSUME TypeInv, NEW r \in Run, pc[r] \in {"off", "fetch"}
  PROVE  got[r] = <<>> /\ pos[r] = 1
<1>1. got[r] \in Seq(Candidate) /\ Len(got[r]) = 0 /\ pos[r] \in Nat \ {0}
      /\ pos[r] <= Len(got[r]) + 1
  BY DEF TypeInv, TypeOK, Typed
<1> QED
  BY <1>1

\* Going on to the next candidate.
LEMMA PassOn ==
  ASSUME OrderInv, NEW r \in Run, pos[r] \in 1..Len(got[r]), UNCHANGED rvars,
         seen[r] \subseteq seen'[r], pos'[r] = pos[r] + 1, pc'[r] \in {"loop", "close"},
         \/ VerticalOf[r] = "papers" \/ NameOf[Current(r)] \in seen'[r]
         \/ Void(r, Current(r))
  PROVE  Passed(r)' /\ Chosen(r)'
<1>1. Chosen(r)'
  BY DEF Chosen
<1>2. ASSUME VerticalOf[r] # "papers", NEW j \in 1..(pos[r] + 1 - 1)
      PROVE  NameOf[got[r][j]] \in seen'[r] \/ Void(r, got[r][j])
  <2>1. CASE j = pos[r]
    BY <1>2, <2>1 DEF Current
  <2>2. CASE j # pos[r]
    <3>1. j \in 1..(pos[r] - 1)
      BY <2>2
    <3> QED
      BY <1>2, <3>1 DEF OrderInv, Passed
  <2> QED
    BY <2>1, <2>2
<1>3. \A c : Void(r, c)' <=> Void(r, c)
  BY DEF Void, Outdated, Dated, rvars
<1> QED
  BY <1>1, <1>2, <1>3 DEF Passed, rvars

\* Staying at the same one, or stopping there.
LEMMA StayOn ==
  ASSUME OrderInv, NEW r \in Run, UNCHANGED <<rvars, pos>>,
         seen[r] \subseteq seen'[r],
         pc'[r] \in {"write", "store"} => pc[r] \in {"write", "store"}
  PROVE  Passed(r)' /\ Chosen(r)'
<1>1. \A c : (Void(r, c)' <=> Void(r, c)) /\ (Outdated(r, c)' <=> Outdated(r, c))
  BY DEF Void, Outdated, Dated, rvars
<1>2. Passed(r) /\ Chosen(r)
  BY DEF OrderInv
<1>3. Passed(r)'
  BY <1>1, <1>2 DEF Passed, rvars
<1>4. Current(r)' = Current(r)
  BY DEF Current, rvars
<1>5. Chosen(r)'
  BY <1>1, <1>2, <1>4 DEF Chosen, rvars
<1> QED
  BY <1>3, <1>5

\* Accept is where the order is decided.
LEMMA AcceptOrdered ==
  ASSUME OrderInv, NEW r \in Run, Accept(r)
  PROVE  Passed(r)' /\ Chosen(r)'
<1>1. /\ UNCHANGED <<rvars, pos>> /\ seen[r] \subseteq seen'[r]
      /\ seen'[r] = seen[r] \cup Remembered(r)
  BY DEF OrderInv, TypeInv, TypeOK, Accept
<1>2. \A c : (Void(r, c)' <=> Void(r, c)) /\ (Outdated(r, c)' <=> Outdated(r, c))
  BY <1>1 DEF Void, Outdated, Dated, rvars
<1>3. Passed(r)
  BY DEF OrderInv
<1>4. Passed(r)'
  BY <1>1, <1>2, <1>3 DEF Passed, rvars
<1>5. VerticalOf[r] = "papers" \/ Current(r) \notin Unbuildable
  BY DEF Accept, Fails
<1>6. ~Outdated(r, Current(r))
  BY <1>5 DEF Accept, Stale, Outdated, Dated
<1>7. ASSUME VerticalOf[r] # "papers"
      PROVE  /\ NameOf[Current(r)] \in seen'[r]
             /\ \A j \in 1..(pos[r] - 1) :
                  NameOf[got[r][j]] # NameOf[Current(r)] \/ Void(r, got[r][j])
  <2>1. NameOf[Current(r)] \notin seen[r]
    BY <1>5, <1>7 DEF Accept, Duplicate
  <2>2. NameOf[Current(r)] \in Remembered(r)
    BY <1>5, <1>7 DEF Remembered
  <2> QED
    BY <1>1, <1>3, <1>7, <2>1, <2>2 DEF Passed
<1>8. Current(r)' = Current(r)
  BY <1>1 DEF Current, rvars
<1>9. Chosen(r)'
  BY <1>1, <1>2, <1>6, <1>7, <1>8 DEF Chosen, rvars
<1> QED
  BY <1>4, <1>9

LEMMA RunOrdered ==
  ASSUME OrderInv, NEW r \in Run,
         Step(r) \/ Mishap(r) \/ \E s \in Store : Start(r, s)
  PROVE  Passed(r)' /\ Chosen(r)'
<1>1. TypeInv /\ TypeOK
  BY DEF OrderInv, TypeInv
<1>2. ASSUME AtCandidate(r) \/ pc[r] \in {"write", "store"}
      PROVE  pos[r] \in 1..Len(got[r])
  BY <1>1, <1>2, InHand
<1>3. ASSUME pc[r] \in {"write", "store"}
      PROVE  VerticalOf[r] = "papers" \/ NameOf[Current(r)] \in seen[r]
  BY <1>3 DEF OrderInv, Chosen
<1>4. ASSUME NEW s \in Store, Start(r, s) PROVE Passed(r)' /\ Chosen(r)'
  BY <1>1, <1>4, NothingBehind DEF Start, TypeOK, Passed, Chosen
<1>5. ASSUME Fetch(r) PROVE Passed(r)' /\ Chosen(r)'
  BY <1>1, <1>5, NothingBehind DEF Fetch, TypeOK, Passed, Chosen
<1>6. ASSUME RejectStale(r) PROVE Passed(r)' /\ Chosen(r)'
  <2>1. Void(r, Current(r))
    BY <1>6 DEF RejectStale, Stale, Void, Outdated
  <2> QED
    BY <1>1, <1>2, <1>6, <2>1, PassOn
       DEF RejectStale, Skip, TypeOK, rvars, RememberedStale
<1>7. ASSUME SkipDuplicate(r) PROVE Passed(r)' /\ Chosen(r)'
  <2>1. NameOf[Current(r)] \in seen[r]
    BY <1>7 DEF SkipDuplicate, Duplicate
  <2> QED
    BY <1>1, <1>2, <1>7, <2>1, PassOn DEF SkipDuplicate, Skip, TypeOK, rvars
<1>8. ASSUME RejectInvalid(r) PROVE Passed(r)' /\ Chosen(r)'
  <2>1. seen'[r] = seen[r] \cup Remembered(r)
    BY <1>1, <1>8 DEF RejectInvalid, TypeOK
  <2>2. Void(r, Current(r)) \/ NameOf[Current(r)] \in Remembered(r)
    BY <1>8 DEF RejectInvalid, Remembered, Void
  <2> QED
    BY <1>1, <1>2, <1>8, <2>1, <2>2, PassOn DEF RejectInvalid, Skip, TypeOK, rvars
<1>9. ASSUME Accept(r) PROVE Passed(r)' /\ Chosen(r)'
  BY <1>9, AcceptOrdered
<1>10. ASSUME Write(r) PROVE Passed(r)' /\ Chosen(r)'
  <2>1. CASE VerticalOf[r] = "papers" /\ Fails(r)
    BY <1>1, <1>2, <1>10, <2>1, PassOn DEF Write, Skip, TypeOK, rvars
  <2>2. CASE ~(VerticalOf[r] = "papers" /\ Fails(r))
    BY <1>10, <2>2, StayOn DEF Write, rvars
  <2> QED
    BY <2>1, <2>2
<1>11. ASSUME StoreRecord(r) PROVE Passed(r)' /\ Chosen(r)'
  BY <1>1, <1>2, <1>3, <1>11, PassOn DEF StoreRecord, TypeOK, rvars
<1>12. ASSUME StoreRefused(r) \/ WriteRaises(r) \/ StoreRaises(r)
       PROVE  Passed(r)' /\ Chosen(r)'
  BY <1>1, <1>2, <1>3, <1>12, PassOn
     DEF StoreRefused, WriteRaises, StoreRaises, GiveUp, Skip, TypeOK, rvars
<1>13. ASSUME Complete(r) \/ Abort(r) PROVE Passed(r)' /\ Chosen(r)'
  BY <1>1, <1>13, StayOn DEF Complete, Abort, TypeOK, rvars
<1> QED
  BY <1>4, <1>5, <1>6, <1>7, <1>8, <1>9, <1>10, <1>11, <1>12, <1>13 DEF Step, Mishap

LEMMA StepOrdered == OrderInv /\ [Next]_vars => OrderInv'
<1> SUFFICES ASSUME OrderInv, [Next]_vars PROVE OrderInv'
  OBVIOUS
<1>1. TypeInv /\ TypeInv'
  BY StepTyped DEF OrderInv
<1>2. ASSUME NEW r \in Run, NEW q \in Run \ {r},
             Step(r) \/ Mishap(r) \/ \E s \in Store : Start(r, s)
      PROVE  Passed(q)' /\ Chosen(q)'
  <2>1. /\ pc'[q] = pc[q] /\ got'[q] = got[q] /\ pos'[q] = pos[q]
        /\ seen'[q] = seen[q] /\ cutoff'[q] = cutoff[q]
    BY <1>1, <1>2, Frame
  <2>2. Passed(q) /\ Chosen(q)
    BY DEF OrderInv
  <2> QED
    BY <2>1, <2>2 DEF Passed, Chosen, Void, Outdated, Dated, Current
<1>3. ASSUME NEW q \in Run, Tick \/ UNCHANGED vars PROVE Passed(q)' /\ Chosen(q)'
  BY <1>3, StayOn DEF Tick, vars, rvars
<1>4. ASSUME NEW q \in Run PROVE Passed(q)' /\ Chosen(q)'
  BY <1>2, <1>3, RunOrdered DEF Next
<1> QED
  BY <1>1, <1>4 DEF OrderInv

LEMMA InitOrdered == Init => OrderInv
  BY InitTyped DEF Init, OrderInv, Passed, Chosen

\* Within a run, a record is never replaced by a duplicate that another source
\* lists later: the pipelines remember names before they write.
THEOREM FirstOfNameWins == Spec => FirstWins
<1>1. ASSUME OrderInv, [Next]_vars,
             NEW r \in Run, pc[r] = "store", VerticalOf[r] # "papers",
             NEW j \in 1..(pos[r] - 1)
      PROVE  \/ NameOf[got[r][j]] # NameOf[Current(r)]
             \/ Dated(r) /\ Posted[got[r][j]] < cutoff[r]
             \/ got[r][j] \in Unbuildable
  BY <1>1 DEF OrderInv, Chosen, Void, Outdated
<1>2. OrderInv /\ [Next]_vars =>
        [\A r \in Run :
           pc[r] = "store" /\ VerticalOf[r] # "papers" /\ records' # records
             /\ pos'[r] # pos[r]
             => \A j \in 1..(pos[r] - 1) :
                  \/ NameOf[got[r][j]] # NameOf[Current(r)]
                  \/ Dated(r) /\ Posted[got[r][j]] < cutoff[r]
                  \/ got[r][j] \in Unbuildable]_vars
  BY <1>1
<1> QED
  BY <1>2, InitOrdered, StepOrdered, PTL DEF Spec, FirstWins

----------------------------------------------------------------------------
\* Only fresh ones are stored.

\* Where a run writes, what it has gathered and its window stay.
LEMMA WindowKept ==
  ASSUME OrderInv, [Next]_vars, NEW r \in Run, pc[r] \notin {"off", "fetch"}
  PROVE  at'[r] = at[r] /\ got'[r] = got[r] /\ cutoff'[r] = cutoff[r]
<1>1. TypeInv /\ TypeOK
  BY DEF OrderInv, TypeInv
<1>2. CASE UNCHANGED rvars
  BY <1>2 DEF rvars
<1>3. ASSUME NEW q \in Run, (\E s \in Store : Start(q, s)) \/ Fetch(q)
      PROVE  at'[r] = at[r] /\ got'[r] = got[r] /\ cutoff'[r] = cutoff[r]
  <2>1. q # r
    BY <1>3 DEF Start, Fetch
  <2> QED
    BY <1>1, <1>3, <2>1, Frame DEF Step
<1>4. \/ UNCHANGED rvars
      \/ \E q \in Run : (\E s \in Store : Start(q, s)) \/ Fetch(q)
  BY DEF Next, Step, Mishap, RejectStale, SkipDuplicate, RejectInvalid, Accept, Write,
         StoreRecord, StoreRefused, Complete, WriteRaises, StoreRaises, Abort, Tick, vars, rvars
<1> QED
  BY <1>2, <1>3, <1>4

\* A record that was not there is the one a run has in hand.
LEMMA NewRecord ==
  ASSUME OrderInv, [Next]_vars, NEW s \in Store, NEW k \in Key,
         records'[s][k] # records[s][k]
  PROVE  \E r \in Run : pc[r] = "store" /\ s = at[r] /\ records'[s][k] = Current(r)
<1>1. records \in [Store -> [Key -> Candidate \cup {NoRecord}]]
  BY DEF OrderInv, TypeInv, TypeOK
<1>2. \E r \in Run : pc[r] = "store" /\ Upsert(r)
  BY DEF Next, Step, Mishap, Start, Fetch, RejectStale, SkipDuplicate, RejectInvalid,
         Accept, Write, StoreRecord, StoreRefused, Complete, WriteRaises, StoreRaises,
         Abort, Tick, vars
<1>3. PICK r \in Run : pc[r] = "store" /\ Upsert(r)
  BY <1>2
<1>4. at[r] \in Store /\ KeyOf[Current(r)] \in Key
  BY <1>3, InHand DEF OrderInv, TypeInv, TypeOK
<1>5. s = at[r] /\ k = KeyOf[Current(r)]
  BY <1>1, <1>3, <1>4 DEF Upsert
<1> QED
  BY <1>1, <1>3, <1>4, <1>5 DEF Upsert

LEMMA StepFresh == OrderInv /\ StoredFresh /\ [Next]_vars => StoredFresh'
<1> SUFFICES ASSUME OrderInv, StoredFresh, [Next]_vars,
                    NEW s \in Store, NEW k \in Key, records'[s][k] # NoRecord,
                    TypeOf[records'[s][k]] \in {"news", "jobs"}
             PROVE  \E r \in Run : /\ at'[r] = s
                                   /\ VerticalOf[r] = TypeOf[records'[s][k]]
                                   /\ records'[s][k] \in ToSet(got'[r])
                                   /\ Posted[records'[s][k]] >= cutoff'[r]
  BY DEF StoredFresh, Stored, RunsOn
<1>1. \A r \in Run : got[r] \in Seq(Candidate)
  BY DEF OrderInv, TypeInv, TypeOK
<1>2. CASE records'[s][k] = records[s][k]
  <2>1. PICK r \in Run : /\ at[r] = s
                         /\ VerticalOf[r] = TypeOf[records[s][k]]
                         /\ records[s][k] \in ToSet(got[r])
                         /\ Posted[records[s][k]] >= cutoff[r]
    BY <1>2 DEF StoredFresh, Stored, RunsOn
  <2>2. got[r] # <<>>
    BY <2>1 DEF ToSet
  <2>3. pc[r] \notin {"off", "fetch"}
    BY <2>2, NothingBehind DEF OrderInv
  <2> QED
    BY <1>2, <2>1, <2>3, WindowKept
<1>3. CASE records'[s][k] # records[s][k]
  <2>1. PICK r \in Run : /\ pc[r] = "store" /\ s = at[r]
                         /\ records'[s][k] = Current(r)
    BY <1>3, NewRecord
  <2>2. /\ pos[r] \in 1..Len(got[r]) /\ Current(r) \in Candidate
        /\ TypeOf[Current(r)] = VerticalOf[r]
    BY <2>1, InHand DEF OrderInv
  <2>3. Current(r) \in ToSet(got[r])
    BY <1>1, <2>2 DEF Current, ToSet
  <2>4. ~Outdated(r, Current(r)) /\ Dated(r)
    BY <2>1, <2>2 DEF OrderInv, Chosen, Dated
  <2>5. Posted[Current(r)] \in Int /\ cutoff[r] \in Int
    BY <2>2, IngestAssumption DEF OrderInv, TypeInv, TypeOK
  <2>6. Posted[Current(r)] >= cutoff[r]
    BY <2>4, <2>5 DEF Outdated
  <2> QED
    BY <2>1, <2>2, <2>3, <2>6, WindowKept
<1> QED
  BY <1>2, <1>3

\* No article or job gets into a repository that was outside the window when
\* its run began, and what is there keeps such a run as its witness.
THEOREM FreshOnly == Spec => []StoredFresh
<1>1. Init => StoredFresh
  BY DEF Init, StoredFresh, Stored
<1> QED
  BY <1>1, InitOrdered, StepOrdered, StepFresh, PTL DEF Spec

----------------------------------------------------------------------------
\* Nothing is lost quietly.

\* A candidate of this name, gathered by the run, has its record stored.
KeptName(r, n) == \E d \in ToSet(got[r]) : NameOf[d] = n /\ KeyOf[d] \in Stored(at[r])

InWork(r, n) == pc[r] \in {"write", "store"} /\ NameOf[Current(r)] = n

\* The names a run has met so far, in a candidate that was fresh or that it
\* remembers, of which nothing is stored and nothing is in work.
Met(r) == seen[r] \cup {NameOf[got[r][j]] : j \in {i \in 1..(pos[r] - 1) : ~Outdated(r, got[r][i])}}
Lost(r) == {n \in Met(r) : ~KeptName(r, n) /\ ~InWork(r, n)}

\* There are no more of them than failures.
Dealt(r) == pc[r] # "raised" =>
  IsFiniteSet(Lost(r)) /\ Cardinality(Lost(r)) <= count[r].failures

\* A run ends after its last candidate, or at its limit.
AtLimit(r) == Bounded(r) /\ count[r].stored >= Limit
Ended(r) ==
  /\ pc[r] = "close" => AtLimit(r)
  /\ pc[r] = "done" => pos[r] > Len(got[r]) \/ AtLimit(r)

LossInv == OrderInv /\ \A r \in Run : Dealt(r) /\ Ended(r)

\* Records are replaced, never deleted.
LEMMA StoredStays ==
  ASSUME OrderInv, [Next]_vars, NEW s \in Store
  PROVE  Stored(s) \subseteq Stored(s)'
<1> SUFFICES ASSUME NEW k \in Key, records[s][k] # NoRecord PROVE records'[s][k] # NoRecord
  BY DEF Stored
<1>1. CASE records'[s][k] # records[s][k]
  <2>1. PICK r \in Run : pc[r] = "store" /\ records'[s][k] = Current(r)
    BY <1>1, NewRecord
  <2> QED
    BY <2>1, InHand, IngestAssumption DEF OrderInv
<1> QED
  BY <1>1

LEMMA KeptStays ==
  ASSUME OrderInv, [Next]_vars, NEW r \in Run, at'[r] = at[r], got'[r] = got[r]
  PROVE  \A n : KeptName(r, n) => KeptName(r, n)'
<1>1. at[r] \in Store
  BY DEF OrderInv, TypeInv, TypeOK
<1>2. Stored(at[r]) \subseteq {k \in Key : records'[at[r]][k] # NoRecord}
  BY <1>1, StoredStays DEF Stored
<1> QED
  BY <1>2 DEF KeptName, Stored

\* What a step may do to the names met: nothing, or one more failure for the one
\* of the candidate in hand.
LEMMA DealtSmaller ==
  ASSUME TypeInv, NEW r \in Run, Dealt(r), pc[r] # "raised", Lost(r)' \subseteq Lost(r),
         count'[r].failures = count[r].failures
  PROVE  Dealt(r)'
<1>1. IsFiniteSet(Lost(r)) /\ Cardinality(Lost(r)) <= count[r].failures
  BY DEF Dealt
<1>2. IsFiniteSet(Lost(r)') /\ Cardinality(Lost(r)') <= Cardinality(Lost(r))
  BY <1>1, FS_Subset
<1>3. /\ Cardinality(Lost(r)') \in Nat /\ Cardinality(Lost(r)) \in Nat
      /\ count[r].failures \in Nat
  BY <1>1, <1>2, FS_CardinalityType DEF TypeInv, TypeOK
<1>4. Cardinality(Lost(r)') <= count'[r].failures
  BY <1>1, <1>2, <1>3
<1> QED
  BY <1>2, <1>4 DEF Dealt

LEMMA OneMore ==
  ASSUME NEW S, NEW n, IsFiniteSet(S)
  PROVE  /\ IsFiniteSet(S \cup {n}) /\ Cardinality(S) \in Nat
         /\ Cardinality(S \cup {n}) <= Cardinality(S) + 1
<1>1. Cardinality(S) \in Nat
  BY FS_CardinalityType
<1>2. CASE n \in S
  <2>1. S \cup {n} = S
    BY <1>2
  <2>2. Cardinality(S) <= Cardinality(S) + 1
    BY <1>1
  <2> QED
    BY <1>1, <2>1, <2>2, Zenon
<1>3. CASE n \notin S
  <2>1. IsFiniteSet(S \cup {n}) /\ Cardinality(S \cup {n}) = Cardinality(S) + 1
    BY <1>3, FS_AddElement
  <2> QED
    BY <1>1, <2>1
<1> QED
  BY <1>2, <1>3

LEMMA DealtFailure ==
  ASSUME TypeInv, NEW r \in Run, Dealt(r), pc[r] # "raised", NEW n,
         Lost(r)' \subseteq Lost(r) \cup {n}, CountFailure(r)
  PROVE  Dealt(r)'
<1>1. IsFiniteSet(Lost(r)) /\ Cardinality(Lost(r)) <= count[r].failures
  BY DEF Dealt
<1>2. /\ IsFiniteSet(Lost(r) \cup {n}) /\ Cardinality(Lost(r)) \in Nat
      /\ Cardinality(Lost(r) \cup {n}) <= Cardinality(Lost(r)) + 1
  BY <1>1, OneMore
<1>3. /\ IsFiniteSet(Lost(r)') /\ Cardinality(Lost(r)') <= Cardinality(Lost(r) \cup {n})
      /\ Cardinality(Lost(r)') \in Nat /\ Cardinality(Lost(r) \cup {n}) \in Nat
  BY <1>2, FS_Subset, FS_CardinalityType
<1>4. count[r].failures \in Nat /\ count'[r].failures = count[r].failures + 1
  BY DEF TypeInv, TypeOK, CountFailure
<1>5. Cardinality(Lost(r)') <= count'[r].failures
  BY <1>1, <1>2, <1>3, <1>4
<1> QED
  BY <1>3, <1>5 DEF Dealt

\* Neither the steps of other runs nor the clock matter: they may only store.
LEMMA DealtAside ==
  ASSUME LossInv, [Next]_vars, NEW r \in Run,
         pc'[r] = pc[r], at'[r] = at[r], got'[r] = got[r], pos'[r] = pos[r],
         seen'[r] = seen[r], cutoff'[r] = cutoff[r], count'[r] = count[r]
  PROVE  Dealt(r)' /\ Ended(r)'
<1>1. Dealt(r) /\ Ended(r) /\ OrderInv /\ TypeInv
  BY DEF LossInv, OrderInv
<1>2. \A n : (KeptName(r, n) => KeptName(r, n)') /\ (InWork(r, n)' <=> InWork(r, n))
  BY <1>1, KeptStays DEF InWork, Current
<1>3. Met(r)' = Met(r)
  BY DEF Met, Outdated, Dated
<1>4. Lost(r)' \subseteq Lost(r)
  BY <1>2, <1>3 DEF Lost
<1>5. Dealt(r)'
  <2>1. CASE pc[r] = "raised"
    BY <2>1 DEF Dealt
  <2>2. CASE pc[r] # "raised"
    BY <1>1, <1>4, <2>2, DealtSmaller
  <2> QED
    BY <2>1, <2>2
<1> QED
  BY <1>1, <1>5 DEF Ended, AtLimit, Bounded

\* The names met when a run has gone on to its next candidate.
LEMMA MetOn ==
  ASSUME OrderInv, [Next]_vars, NEW r \in Run, pos[r] \in 1..Len(got[r]), UNCHANGED rvars,
         pos'[r] = pos[r] + 1, pc'[r] \in {"loop", "close"},
         seen'[r] \subseteq seen[r] \cup {NameOf[Current(r)]}
  PROVE  /\ Met(r)' \subseteq Met(r) \cup {NameOf[Current(r)]}
         /\ seen'[r] = seen[r] /\ Outdated(r, Current(r)) => Met(r)' \subseteq Met(r)
         /\ Lost(r)' \subseteq Lost(r) \cup {NameOf[Current(r)]}
         /\ \A n \in Lost(r)' : ~KeptName(r, n)'
<1>1. \A d : Outdated(r, d)' <=> Outdated(r, d)
  BY DEF Outdated, Dated, rvars
<1>2. pos[r] \in Nat
  OBVIOUS
<1>3. \A j \in 1..(pos'[r] - 1) : j = pos[r] \/ j \in 1..(pos[r] - 1)
  BY <1>2
<1>4. \A n \in Met(r)' : \/ n \in seen'[r]
                          \/ \E j \in 1..(pos'[r] - 1) : ~Outdated(r, got[r][j]) /\ n = NameOf[got[r][j]]
  BY <1>1 DEF Met, rvars
<1>5. ASSUME NEW n, NEW j \in 1..(pos'[r] - 1), ~Outdated(r, got[r][j]), n = NameOf[got[r][j]]
      PROVE  n \in Met(r) \/ (n = NameOf[Current(r)] /\ ~Outdated(r, Current(r)))
  <2>1. CASE j = pos[r]
    BY <1>5, <2>1 DEF Current
  <2>2. CASE j \in 1..(pos[r] - 1)
    BY <1>5, <2>2 DEF Met
  <2> QED
    BY <1>3, <2>1, <2>2
<1>6. Met(r)' \subseteq Met(r) \cup {NameOf[Current(r)]}
  BY <1>4, <1>5 DEF Met
<1>7. seen'[r] = seen[r] /\ Outdated(r, Current(r)) => Met(r)' \subseteq Met(r)
  BY <1>4, <1>5 DEF Met
<1>8. \A n : KeptName(r, n) => KeptName(r, n)'
  BY KeptStays DEF rvars
<1>9. \A n : InWork(r, n) => n = NameOf[Current(r)]
  BY DEF InWork
<1> QED
  BY <1>6, <1>7, <1>8, <1>9 DEF Lost

\* A candidate is given up, with a failure.
LEMMA GivenUp ==
  ASSUME LossInv, [Next]_vars, NEW r \in Run, pos[r] \in 1..Len(got[r]), UNCHANGED rvars,
         pc[r] # "raised", CountFailure(r), Skip(r),
         seen'[r] \subseteq seen[r] \cup {NameOf[Current(r)]}
  PROVE  Dealt(r)' /\ Ended(r)'
<1>1. Dealt(r) /\ OrderInv /\ TypeInv /\ TypeOK
  BY DEF LossInv, OrderInv, TypeInv
<1>2. pos'[r] = pos[r] + 1 /\ pc'[r] = "loop"
  BY <1>1 DEF Skip, TypeOK
<1>3. Lost(r)' \subseteq Lost(r) \cup {NameOf[Current(r)]}
  BY <1>1, <1>2, MetOn
<1>4. Dealt(r)'
  BY <1>1, <1>3, DealtFailure
<1> QED
  BY <1>2, <1>4 DEF Ended

\* A candidate is taken up: its name is in work.
LEMMA DealtAccept ==
  ASSUME LossInv, [Next]_vars, NEW r \in Run, Accept(r)
  PROVE  Dealt(r)' /\ Ended(r)'
<1>1. Dealt(r) /\ OrderInv /\ TypeInv /\ TypeOK
  BY DEF LossInv, OrderInv, TypeInv
<1>2. /\ UNCHANGED <<rvars, pos, count>> /\ pc[r] = "loop" /\ pc'[r] \in {"write", "store"}
      /\ seen'[r] = seen[r] \cup Remembered(r) /\ Remembered(r) \subseteq {NameOf[Current(r)]}
  BY <1>1 DEF Accept, AtCandidate, FirstWrite, Remembered, TypeOK
<1>3. \A n : KeptName(r, n) => KeptName(r, n)'
  BY <1>1, <1>2, KeptStays DEF rvars
<1>4. \A d : Outdated(r, d)' <=> Outdated(r, d)
  BY <1>2 DEF Outdated, Dated, rvars
<1>5. \A n : InWork(r, n)' = (NameOf[Current(r)] = n) /\ ~InWork(r, n)
  BY <1>2 DEF InWork, Current, rvars
<1>6. Met(r)' \subseteq Met(r) \cup {NameOf[Current(r)]}
  BY <1>2, <1>4 DEF Met, rvars
<1>7. Lost(r)' \subseteq Lost(r)
  <2> SUFFICES ASSUME NEW n \in Lost(r)' PROVE n \in Lost(r)
    OBVIOUS
  <2>1. n \in Met(r)' /\ ~KeptName(r, n)' /\ ~InWork(r, n)'
    BY Zenon DEF Lost
  <2>2. ~KeptName(r, n)
    BY <1>3, <2>1
  <2>3. n # NameOf[Current(r)]
    BY <1>5, <2>1
  <2>4. ~InWork(r, n)
    BY <1>5
  <2> QED
    BY <1>6, <2>1, <2>2, <2>3, <2>4 DEF Lost
<1>8. Dealt(r)'
  BY <1>1, <1>2, <1>7, DealtSmaller
<1> QED
  BY <1>2, <1>8 DEF Ended

\* Any other step that stays at the candidate.
LEMMA DealtStay ==
  ASSUME LossInv, [Next]_vars, NEW r \in Run, UNCHANGED <<rvars, pos, seen, count>>,
         pc[r] \in {"write", "store"} => pc'[r] \in {"write", "store", "raised"},
         pc'[r] # "close", pc'[r] = "done" => Ended(r)',
         pc[r] # "raised"
  PROVE  Dealt(r)' /\ Ended(r)'
<1>1. Dealt(r) /\ OrderInv /\ TypeInv
  BY DEF LossInv, OrderInv
<1>2. \A n : (KeptName(r, n) => KeptName(r, n)')
             /\ (pc'[r] # "raised" /\ InWork(r, n) => InWork(r, n)')
  BY <1>1, KeptStays DEF InWork, Current, rvars
<1>3. Met(r)' = Met(r)
  BY DEF Met, Outdated, Dated, rvars
<1>4. Dealt(r)'
  <2>1. CASE pc'[r] = "raised"
    BY <2>1 DEF Dealt
  <2>2. CASE pc'[r] # "raised"
    <3>1. Lost(r)' \subseteq Lost(r)
      BY <1>2, <1>3, <2>2 DEF Lost
    <3> QED
      BY <1>1, <3>1, DealtSmaller
  <2> QED
    BY <2>1, <2>2
<1> QED
  BY <1>4 DEF Ended

\* The record is stored: the candidate is kept, and so is its name.
LEMMA DealtStore ==
  ASSUME LossInv, [Next]_vars, NEW r \in Run, StoreRecord(r)
  PROVE  Dealt(r)' /\ Ended(r)'
<1>1. OrderInv /\ TypeInv /\ TypeOK /\ Dealt(r)
  BY DEF LossInv, OrderInv, TypeInv
<1>2. PICK c : c = Current(r)
  OBVIOUS
<1>3. /\ pos[r] \in 1..Len(got[r]) /\ c \in Candidate /\ KeyOf[c] \in Key
      /\ c = got[r][pos[r]] /\ got[r] \in Seq(Candidate) /\ at[r] \in Store
  BY <1>1, <1>2, InHand DEF StoreRecord, TypeOK, Current
<1>4. /\ pos'[r] = pos[r] + 1 /\ seen'[r] = seen[r] /\ UNCHANGED rvars /\ pc[r] = "store"
      /\ count'[r].failures = count[r].failures
      /\ count'[r].stored = IF IsNew(r) THEN count[r].stored + 1 ELSE count[r].stored
      /\ pc'[r] = IF Enough(r) THEN "close" ELSE "loop"
      /\ records' = [records EXCEPT ![at[r]][KeyOf[c]] = c]
  BY <1>1, <1>2 DEF StoreRecord, TypeOK, Upsert
<1>5. KeptName(r, NameOf[c])'
  <2>1. records'[at[r]][KeyOf[c]] # NoRecord
    BY <1>1, <1>3, <1>4, IngestAssumption DEF TypeOK
  <2>2. c \in ToSet(got[r])
    BY <1>3 DEF ToSet
  <2> QED
    BY <1>3, <1>4, <2>1, <2>2 DEF KeptName, Stored, rvars
<1>6. Lost(r)' \subseteq Lost(r)
  <2>1. /\ Lost(r)' \subseteq Lost(r) \cup {NameOf[c]}
        /\ \A n \in Lost(r)' : ~KeptName(r, n)'
    BY <1>1, <1>2, <1>3, <1>4, MetOn
  <2> QED
    BY <1>5, <2>1
<1>7. Dealt(r)'
  BY <1>1, <1>4, <1>6, DealtSmaller
<1>8. Ended(r)'
  BY <1>4 DEF Ended, Enough, AtLimit, Bounded
<1> QED
  BY <1>7, <1>8

\* A stale candidate, or a name that was met before.
LEMMA DealtSkip ==
  ASSUME LossInv, [Next]_vars, NEW r \in Run, RejectStale(r) \/ SkipDuplicate(r)
  PROVE  Dealt(r)' /\ Ended(r)'
<1>1. OrderInv /\ TypeInv /\ TypeOK /\ Dealt(r)
  BY DEF LossInv, OrderInv, TypeInv
<1>3. /\ pos[r] \in 1..Len(got[r]) /\ pos'[r] = pos[r] + 1 /\ pc[r] = "loop" /\ pc'[r] = "loop"
      /\ seen'[r] = seen[r] /\ count'[r].failures = count[r].failures /\ UNCHANGED rvars
  <2>1. pos[r] \in 1..Len(got[r]) /\ pc[r] = "loop"
    BY <1>1, InHand DEF RejectStale, SkipDuplicate, AtCandidate
  <2>2. CASE RejectStale(r)
    BY <1>1, <2>1, <2>2 DEF RejectStale, Skip, TypeOK, RememberedStale
  <2>3. CASE SkipDuplicate(r)
    BY <1>1, <2>1, <2>3 DEF SkipDuplicate, Skip, TypeOK
  <2> QED
    BY <2>2, <2>3
<1>4. Met(r)' \subseteq Met(r)
  <2>1. CASE RejectStale(r)
    <3>1. Outdated(r, Current(r))
      BY <2>1 DEF RejectStale, Stale, Outdated
    <3> QED
      BY <1>1, <1>3, <3>1, MetOn
  <2>2. CASE SkipDuplicate(r)
    <3>1. NameOf[Current(r)] \in Met(r)
      BY <2>2 DEF SkipDuplicate, Duplicate, Met
    <3>2. Met(r)' \subseteq Met(r) \cup {NameOf[Current(r)]}
      BY <1>1, <1>3, MetOn
    <3> QED
      BY <3>1, <3>2
  <2> QED
    BY <2>1, <2>2
<1>5. Lost(r)' \subseteq Lost(r)
  <2>1. \A n : ~InWork(r, n)
    BY <1>3 DEF InWork
  <2>2. \A n : KeptName(r, n) => KeptName(r, n)'
    BY <1>1, <1>3, KeptStays DEF rvars
  <2> QED
    BY <1>4, <2>1, <2>2 DEF Lost
<1>6. Dealt(r)'
  BY <1>1, <1>3, <1>5, DealtSmaller
<1> QED
  BY <1>3, <1>6 DEF Ended

\* At the beginning of a run there is nothing to deal with.
LEMMA DealtBegin ==
  ASSUME LossInv, NEW r \in Run, (\E s \in Store : Start(r, s)) \/ Fetch(r)
  PROVE  Dealt(r)' /\ Ended(r)'
<1>1. TypeInv /\ TypeOK /\ Dealt(r)
  BY DEF LossInv, OrderInv, TypeInv
<1>2. pc[r] \in {"off", "fetch"} /\ UNCHANGED <<pos, seen, count>> /\ pc'[r] \in {"fetch", "loop"}
  BY <1>1 DEF Start, Fetch, TypeOK
<1>3. got[r] = <<>> /\ pos[r] = 1
  BY <1>1, <1>2, NothingBehind
<1>4. seen[r] \subseteq Lost(r)
  <2>1. ToSet(got[r]) = {}
    BY <1>3 DEF ToSet
  <2> QED
    BY <1>2, <2>1 DEF Lost, Met, KeptName, InWork
<1>5. Lost(r)' \subseteq seen[r]
  <2>1. seen'[r] = seen[r] /\ pos'[r] = 1 /\ 1..(pos'[r] - 1) = {}
    BY <1>2, <1>3
  <2> QED
    BY <2>1 DEF Lost, Met
<1>6. Dealt(r)'
  <2>1. Lost(r)' \subseteq Lost(r) /\ count'[r].failures = count[r].failures
    BY <1>2, <1>4, <1>5
  <2> QED
    BY <1>1, <1>2, <2>1, DealtSmaller
<1> QED
  BY <1>2, <1>6 DEF Ended

\* Every step of a run.
LEMMA RunDealt ==
  ASSUME LossInv, [Next]_vars, NEW r \in Run,
         Step(r) \/ Mishap(r) \/ \E s \in Store : Start(r, s)
  PROVE  Dealt(r)' /\ Ended(r)'
<1>1. TypeInv /\ TypeOK /\ Ended(r)
  BY DEF LossInv, OrderInv, TypeInv
<1>2. CASE RejectInvalid(r) \/ StoreRefused(r) \/ WriteRaises(r) \/ StoreRaises(r)
  <2>1. pos[r] \in 1..Len(got[r]) /\ pc[r] # "raised"
    BY <1>1, <1>2, InHand DEF RejectInvalid, StoreRefused, WriteRaises, StoreRaises, AtCandidate
  <2>2. CountFailure(r) /\ Skip(r) /\ UNCHANGED rvars
    BY <1>2 DEF RejectInvalid, StoreRefused, WriteRaises, StoreRaises, GiveUp
  <2>3. seen'[r] \subseteq seen[r] \cup {NameOf[Current(r)]}
    BY <1>1, <1>2 DEF RejectInvalid, StoreRefused, WriteRaises, StoreRaises, Remembered, TypeOK
  <2> QED
    BY <2>1, <2>2, <2>3, GivenUp
<1>3. CASE Write(r)
  <2>1. CASE VerticalOf[r] = "papers" /\ Fails(r)
    <3>1. pos[r] \in 1..Len(got[r]) /\ pc[r] # "raised"
      BY <1>1, <1>3, InHand DEF Write
    <3>2. CountFailure(r) /\ Skip(r) /\ UNCHANGED rvars /\ seen' = seen
      BY <1>3, <2>1 DEF Write
    <3> QED
      BY <3>1, <3>2, GivenUp
  <2>2. CASE ~(VerticalOf[r] = "papers" /\ Fails(r))
    <3>1. /\ UNCHANGED <<rvars, pos, seen, count>> /\ pc[r] = "write" /\ pc'[r] = "store"
      BY <1>1, <1>3, <2>2 DEF Write, TypeOK
    <3> QED
      BY <3>1, DealtStay
  <2> QED
    BY <2>1, <2>2
<1>4. CASE Complete(r)
  <2>1. /\ UNCHANGED <<rvars, pos, seen, count>> /\ pc'[r] = "done" /\ pc[r] \in {"loop", "close"}
        /\ pc[r] = "loop" => pos[r] > Len(got[r])
    BY <1>1, <1>4 DEF Complete, TypeOK
  <2>2. Ended(r)'
    BY <1>1, <2>1 DEF Ended, AtLimit, rvars
  <2> QED
    BY <2>1, <2>2, DealtStay
<1>5. CASE Abort(r)
  <2>1. /\ UNCHANGED <<rvars, pos, seen, count>> /\ pc'[r] = "raised" /\ pc[r] \in Working
    BY <1>1, <1>5 DEF Abort, TypeOK
  <2> QED
    BY <2>1, DealtStay DEF Working
<1> QED
  BY <1>2, <1>3, <1>4, <1>5, DealtBegin, DealtSkip, DealtAccept, DealtStore DEF Step, Mishap

LEMMA LossStep == LossInv /\ [Next]_vars => LossInv'
<1> SUFFICES ASSUME LossInv, [Next]_vars PROVE LossInv'
  OBVIOUS
<1>1. OrderInv /\ TypeInv /\ OrderInv'
  BY StepOrdered DEF LossInv, OrderInv
<1>2. ASSUME NEW r \in Run, NEW q \in Run \ {r},
             Step(r) \/ Mishap(r) \/ \E s \in Store : Start(r, s)
      PROVE  Dealt(q)' /\ Ended(q)'
  BY <1>1, <1>2, Frame, DealtAside
<1>3. ASSUME NEW q \in Run, Tick \/ UNCHANGED vars PROVE Dealt(q)' /\ Ended(q)'
  BY <1>3, DealtAside DEF Tick, vars, rvars
<1>4. ASSUME NEW q \in Run PROVE Dealt(q)' /\ Ended(q)'
  BY <1>2, <1>3, RunDealt DEF Next
<1> QED
  BY <1>1, <1>4 DEF LossInv

LEMMA LossInitially == Init => LossInv
<1> SUFFICES ASSUME Init, NEW r \in Run PROVE Dealt(r) /\ Ended(r)
  BY InitOrdered DEF LossInv
<1>1. Lost(r) = {} /\ count[r].failures = 0
  BY DEF Init, Lost, Met
<1> QED
  BY <1>1, FS_EmptySet DEF Init, Dealt, Ended

\* A run that ends, and not at its limit, has a failure for every name it has
\* lost: every other name it gathered was stale, or has a record, whoever stored
\* that and whatever other runs have replaced since.
THEOREM NothingIsLost == Spec => []NothingLostQuietly
<1>1. LossInv => NothingLostQuietly
  <2> SUFFICES ASSUME LossInv, NEW r \in Run, pc[r] = "done",
                      Bounded(r) => count[r].stored < Limit
               PROVE  Cardinality(LostNames(r)) <= count[r].failures
    BY DEF NothingLostQuietly
  <2>1. Dealt(r) /\ Ended(r) /\ TypeOK
    BY DEF LossInv, OrderInv, TypeInv
  <2>2. got[r] \in Seq(Candidate) /\ pos[r] \in Nat /\ count[r] \in Counts /\ Limit \in Nat
    BY <2>1, IngestAssumption DEF TypeOK, Counts
  <2>3. pos[r] > Len(got[r])
    BY <2>1, <2>2 DEF Ended, AtLimit, Counts
  <2>4. LostNames(r) \subseteq Lost(r)
    <3> SUFFICES ASSUME NEW c \in ToSet(got[r]), ~Outdated(r, c), ~KeptName(r, NameOf[c])
                 PROVE  NameOf[c] \in Lost(r)
      BY DEF LostNames, Outdated, KeptName
    <3>1. PICK j \in 1..Len(got[r]) : c = got[r][j]
      BY <2>2 DEF ToSet
    <3>2. j \in 1..(pos[r] - 1)
      BY <2>2, <2>3, <3>1
    <3>3. NameOf[c] \in Met(r)
      BY <3>1, <3>2 DEF Met
    <3> QED
      BY <3>3 DEF Lost, InWork
  <2>5. IsFiniteSet(Lost(r)) /\ Cardinality(Lost(r)) <= count[r].failures
    BY <2>1 DEF Dealt
  <2>6. /\ Cardinality(LostNames(r)) <= Cardinality(Lost(r))
        /\ Cardinality(LostNames(r)) \in Nat /\ Cardinality(Lost(r)) \in Nat
    BY <2>4, <2>5, FS_Subset, FS_CardinalityType
  <2> QED
    BY <2>2, <2>5, <2>6 DEF Counts
<1> QED
  BY <1>1, LossInitially, LossStep, PTL DEF Spec

----------------------------------------------------------------------------
\* Sums over finite sets, as MapThenSumSet computes them: one element after the
\* other, in an order that CHOOSE gives.  Proofs by induction look at the least
\* member of a set of numbers, the sizes of the sets for which a claim fails.

Sum(f, S) == MapThenSumSet(LAMBDA x : f[x], S)

Less == {p \in Nat \X Nat : p[1] < p[2]}

\* A set of natural numbers has a least element.
LEMMA LeastNumber ==
  ASSUME NEW T, T \subseteq Nat, T # {}
  PROVE  \E x \in T : \A y \in T : x <= y
<1>1. IsWellFoundedOn(Less, Nat)
  BY NatLessThanWellFounded DEF OpToRel, Less
<1>2. PICK x \in T : \A y \in T : <<y, x>> \notin Less
  BY <1>1, WFMin
<1>3. \A y \in T : x <= y
  <2> SUFFICES ASSUME NEW y \in T PROVE x <= y
    OBVIOUS
  <2>1. x \in Nat /\ y \in Nat /\ <<y, x>> \in Nat \X Nat
    OBVIOUS
  <2>2. ~(y < x)
    BY <1>2, <2>1 DEF Less
  <2> QED
    BY <2>1, <2>2
<1> QED
  BY <1>3

----------------------------------------------------------------------------
\* The function that MapThenSumSet computes on the way.

Pick(s) == CHOOSE x \in s : TRUE
Total(f, s, g) == IF s = {} THEN 0 ELSE f[Pick(s)] + g[s \ {Pick(s)}]
Sums(f, S, g) == g = [s \in SUBSET S |-> Total(f, s, g)]

LEMMA PickIsMember == \A s : s # {} => Pick(s) \in s
BY DEF Pick

LEMMA Smaller ==
  ASSUME NEW S, IsFiniteSet(S), NEW s \in SUBSET S, NEW x \in s
  PROVE  /\ IsFiniteSet(s) /\ IsFiniteSet(s \ {x})
         /\ Cardinality(s) \in Nat /\ Cardinality(s \ {x}) \in Nat
         /\ Cardinality(s \ {x}) = Cardinality(s) - 1
<1>1. IsFiniteSet(s)
  BY FS_Subset
<1>2. IsFiniteSet(s \ {x}) /\ Cardinality(s \ {x}) = Cardinality(s) - 1
  BY <1>1, FS_RemoveElement
<1> QED
  BY <1>1, <1>2, FS_CardinalityType

LEMMA SumsUnique ==
  ASSUME NEW f, NEW S, IsFiniteSet(S), NEW g, NEW h, Sums(f, S, g), Sums(f, S, h)
  PROVE  g = h
<1> DEFINE Wrong == {n \in Nat : \E s \in SUBSET S : Cardinality(s) = n /\ g[s] # h[s]}
<1>1. ASSUME Wrong # {} PROVE FALSE
  <2>1. PICK n \in Wrong : \A m \in Wrong : n <= m
    BY <1>1, LeastNumber
  <2>2. PICK s \in SUBSET S : Cardinality(s) = n /\ g[s] # h[s]
    BY <2>1
  <2>3. g[s] = Total(f, s, g) /\ h[s] = Total(f, s, h)
    BY DEF Sums
  <2>4. s # {}
    BY <2>2, <2>3 DEF Total
  <2> DEFINE x == Pick(s)
  <2>5. x \in s
    BY <2>4, PickIsMember
  <2> HIDE DEF x
  <2>6. Cardinality(s \ {x}) \in Nat /\ Cardinality(s \ {x}) < n /\ n \in Nat
    BY <2>2, <2>5, Smaller
  <2>7. s \ {x} \in SUBSET S
    OBVIOUS
  <2>8. g[s \ {x}] = h[s \ {x}]
    BY <2>1, <2>6, <2>7
  <2> QED
    BY <2>2, <2>3, <2>4, <2>8 DEF Total, x
<1>2. \A s \in SUBSET S : g[s] = h[s]
  <2> SUFFICES ASSUME NEW s \in SUBSET S PROVE g[s] = h[s]
    OBVIOUS
  <2>1. Cardinality(s) \in Nat
    BY FS_Subset, FS_CardinalityType
  <2> QED
    BY <1>1, <2>1
<1> QED
  BY <1>2 DEF Sums

Layer(S, n) == {s \in SUBSET S : Cardinality(s) <= n}
SumsUpTo(f, S, n, g) ==
  g \in [Layer(S, n) -> Nat] /\ \A s \in Layer(S, n) : g[s] = Total(f, s, g)

LEMMA SumsExist ==
  ASSUME NEW f, NEW S, IsFiniteSet(S), \A x \in S : f[x] \in Nat
  PROVE  \E g \in [SUBSET S -> Nat] : Sums(f, S, g)
<1> DEFINE Wrong == {n \in Nat : ~ \E g : SumsUpTo(f, S, n, g)}
<1>1. ASSUME Wrong # {} PROVE FALSE
  <2>1. PICK n \in Wrong : \A m \in Wrong : n <= m
    BY <1>1, LeastNumber
  <2>2. CASE n = 0
    <3> DEFINE g == [s \in Layer(S, 0) |-> 0]
    <3>1. \A s \in Layer(S, 0) : s = {}
      <4> SUFFICES ASSUME NEW s \in Layer(S, 0) PROVE s = {}
        OBVIOUS
      <4>1. IsFiniteSet(s)
        BY FS_Subset DEF Layer
      <4>2. Cardinality(s) \in Nat /\ Cardinality(s) <= 0
        BY <4>1, FS_CardinalityType DEF Layer
      <4> QED
        BY <4>1, <4>2, FS_EmptySet
    <3>2. SumsUpTo(f, S, 0, g)
      BY <3>1 DEF SumsUpTo, Total
    <3> QED
      BY <2>1, <2>2, <3>2
  <2>3. CASE n # 0
    <3>1. n - 1 \in Nat /\ n \in Nat /\ n - 1 \notin Wrong
      BY <2>1, <2>3
    <3>2. PICK g : SumsUpTo(f, S, n - 1, g)
      BY <3>1
    <3> DEFINE h == [s \in Layer(S, n) |-> Total(f, s, g)]
    <3>3. ASSUME NEW s \in Layer(S, n), s # {}
          PROVE  /\ s \ {Pick(s)} \in Layer(S, n - 1) /\ s \ {Pick(s)} \in Layer(S, n)
                 /\ Pick(s) \in S
      <4>1. s \in SUBSET S /\ Cardinality(s) <= n
        BY DEF Layer
      <4>2. Pick(s) \in s
        BY <3>3, PickIsMember
      <4>3. Cardinality(s \ {Pick(s)}) = Cardinality(s) - 1 /\ Cardinality(s) \in Nat
        BY <4>1, <4>2, Smaller
      <4>4. s \ {Pick(s)} \in SUBSET S
        BY <4>1
      <4>5. Cardinality(s \ {Pick(s)}) <= n - 1 /\ Cardinality(s \ {Pick(s)}) <= n
        BY <3>1, <4>1, <4>3
      <4> QED
        BY <4>1, <4>2, <4>4, <4>5 DEF Layer
    <3>4. \A s \in Layer(S, n) : h[s] \in Nat
      BY <3>2, <3>3 DEF SumsUpTo, Total
    <3>5. \A s \in Layer(S, n - 1) : s \in Layer(S, n) /\ h[s] = g[s]
      <4> SUFFICES ASSUME NEW s \in Layer(S, n - 1)
                   PROVE  s \in Layer(S, n) /\ h[s] = g[s]
        OBVIOUS
      <4>1. s \in SUBSET S /\ Cardinality(s) <= n - 1 /\ Cardinality(s) \in Nat
        BY FS_Subset, FS_CardinalityType DEF Layer
      <4>2. s \in Layer(S, n)
        BY <3>1, <4>1 DEF Layer
      <4> QED
        BY <3>2, <4>2 DEF SumsUpTo
    <3>6. \A s \in Layer(S, n) : h[s] = Total(f, s, h)
      BY <3>3, <3>5 DEF Total
    <3>7. SumsUpTo(f, S, n, h)
      BY <3>4, <3>6 DEF SumsUpTo
    <3> QED
      BY <2>1, <3>7
  <2> QED
    BY <2>2, <2>3
<1>2. Cardinality(S) \in Nat /\ Layer(S, Cardinality(S)) = SUBSET S
  BY FS_CardinalityType, FS_Subset DEF Layer
<1>3. PICK g : SumsUpTo(f, S, Cardinality(S), g)
  BY <1>1, <1>2
<1>4. g \in [SUBSET S -> Nat] /\ Sums(f, S, g)
  BY <1>2, <1>3 DEF SumsUpTo, Sums
<1> QED
  BY <1>4

----------------------------------------------------------------------------
\* What the model's operator is.

LEMMA SumIs ==
  ASSUME NEW f, NEW S, IsFiniteSet(S), NEW g, Sums(f, S, g)
  PROVE  Sum(f, S) = g[S]
<1>1. \A h : Sums(f, S, h) => h = g
  BY SumsUnique
<1> QED
  BY <1>1 DEF Sum, Sums, Total, MapThenSumSet, MapThenFoldSet, Pick

\* The part of the function on the subsets of a subset computes its sums.
LEMMA SumOfPart ==
  ASSUME NEW f, NEW S, IsFiniteSet(S), NEW g, Sums(f, S, g), NEW s \in SUBSET S
  PROVE  Sum(f, s) = g[s]
<1> DEFINE h == [t \in SUBSET s |-> g[t]]
<1>1. IsFiniteSet(s)
  BY FS_Subset
<1>2. ASSUME NEW t \in SUBSET s
      PROVE  h[t] = Total(f, t, h)
  <2>1. t \in SUBSET S /\ g[t] = Total(f, t, g)
    BY DEF Sums
  <2>2. t \ {Pick(t)} \in SUBSET s
    OBVIOUS
  <2> QED
    BY <2>1, <2>2 DEF Total
<1>3. Sums(f, s, h)
  BY <1>2 DEF Sums
<1> HIDE DEF h
<1>4. Sum(f, s) = h[s]
  BY <1>1, <1>3, SumIs
<1> QED
  BY <1>4 DEF h

LEMMA SumType ==
  ASSUME NEW f, NEW S, IsFiniteSet(S), \A x \in S : f[x] \in Nat
  PROVE  Sum(f, S) \in Nat
<1>1. PICK g \in [SUBSET S -> Nat] : Sums(f, S, g)
  BY SumsExist
<1> QED
  BY <1>1, SumIs

\* Any element may be left out last, if that is so for smaller sets.
AnyLast(f, g, s) == \A e \in s : g[s] = g[s \ {e}] + f[e]

LEMMA RemoveStep ==
  ASSUME NEW f, NEW S, IsFiniteSet(S), \A x \in S : f[x] \in Nat,
         NEW g, Sums(f, S, g), \A s \in SUBSET S : g[s] \in Nat,
         NEW s \in SUBSET S,
         \A t \in SUBSET S : Cardinality(t) < Cardinality(s) => AnyLast(f, g, t)
  PROVE  AnyLast(f, g, s)
<1> SUFFICES ASSUME NEW e \in s
             PROVE  g[s] = g[s \ {e}] + f[e]
  BY DEF AnyLast
<1> DEFINE p == Pick(s)
<1>1. p \in s /\ s # {}
  BY PickIsMember
<1>2. g[s] = f[p] + g[s \ {p}]
  BY <1>1 DEF Sums, Total
<1> HIDE DEF p
<1>3. s \ {p} \in SUBSET S /\ s \ {e} \in SUBSET S /\ (s \ {p}) \ {e} \in SUBSET S
  OBVIOUS
<1>4. /\ f[p] \in Nat /\ f[e] \in Nat /\ g[s \ {p}] \in Nat /\ g[s \ {e}] \in Nat
      /\ g[(s \ {p}) \ {e}] \in Nat
  BY <1>1, <1>3
<1>5. CASE p = e
  BY <1>2, <1>4, <1>5
<1>6. CASE p # e
  <2>1. Cardinality(s \ {p}) < Cardinality(s) /\ Cardinality(s \ {e}) < Cardinality(s)
    <3>1. /\ Cardinality(s) \in Nat
          /\ Cardinality(s \ {p}) = Cardinality(s) - 1
          /\ Cardinality(s \ {e}) = Cardinality(s) - 1
      BY <1>1, Smaller
    <3> QED
      BY <3>1
  <2>2. e \in s \ {p} /\ p \in s \ {e} /\ (s \ {e}) \ {p} = (s \ {p}) \ {e}
    BY <1>1, <1>6
  <2>3. g[s \ {p}] = g[(s \ {p}) \ {e}] + f[e]
    BY <1>3, <2>1, <2>2 DEF AnyLast
  <2>4. g[s \ {e}] = g[(s \ {p}) \ {e}] + f[p]
    BY <1>3, <2>1, <2>2 DEF AnyLast
  <2> QED
    BY <1>2, <1>4, <2>3, <2>4
<1> QED
  BY <1>5, <1>6

\* The order of the elements does not matter: any of them may be the last.
LEMMA SumRemove ==
  ASSUME NEW f, NEW S, IsFiniteSet(S), \A x \in S : f[x] \in Nat, NEW x \in S
  PROVE  Sum(f, S) = Sum(f, S \ {x}) + f[x]
<1>1. \E g : Sums(f, S, g) /\ \A s \in SUBSET S : g[s] \in Nat
  <2>1. PICK g \in [SUBSET S -> Nat] : Sums(f, S, g)
    BY SumsExist
  <2> QED
    BY <2>1
<1>2. PICK g : Sums(f, S, g) /\ \A s \in SUBSET S : g[s] \in Nat
  BY <1>1
<1> DEFINE Wrong == {n \in Nat : \E s \in SUBSET S : Cardinality(s) = n /\ ~AnyLast(f, g, s)}
<1>3. ASSUME NEW s \in SUBSET S,
             \A t \in SUBSET S : Cardinality(t) < Cardinality(s) => AnyLast(f, g, t)
      PROVE  AnyLast(f, g, s)
  BY <1>2, <1>3, RemoveStep
<1>4. ASSUME Wrong # {} PROVE FALSE
  <2>1. PICK n \in Wrong : \A m \in Wrong : n <= m
    BY <1>4, LeastNumber
  <2>2. PICK s \in SUBSET S : Cardinality(s) = n /\ ~AnyLast(f, g, s)
    BY <2>1
  <2>3. ASSUME NEW t \in SUBSET S, Cardinality(t) < Cardinality(s) PROVE AnyLast(f, g, t)
    <3>1. Cardinality(t) \in Nat
      BY FS_Subset, FS_CardinalityType
    <3> QED
      BY <2>1, <2>2, <2>3, <3>1
  <2> QED
    BY <1>3, <2>2, <2>3
<1>5. AnyLast(f, g, S)
  <2>1. Cardinality(S) \in Nat /\ S \in SUBSET S
    BY FS_CardinalityType
  <2> QED
    BY <1>4, <2>1
<1>6. g[S] = g[S \ {x}] + f[x]
  BY <1>5 DEF AnyLast
<1>7. S \ {x} \in SUBSET S /\ S \in SUBSET S
  OBVIOUS
<1> QED
  BY <1>2, <1>6, <1>7, SumOfPart

LEMMA SumSame ==
  ASSUME NEW f, NEW h, NEW S, IsFiniteSet(S), \A x \in S : f[x] \in Nat /\ f[x] = h[x]
  PROVE  Sum(f, S) = Sum(h, S)
<1>1. PICK g \in [SUBSET S -> Nat] : Sums(f, S, g)
  BY SumsExist
<1>2. \A s \in SUBSET S : Total(f, s, g) = Total(h, s, g)
  BY PickIsMember DEF Total
<1>3. Sums(h, S, g)
  BY <1>1, <1>2 DEF Sums
<1> QED
  BY <1>1, <1>3, SumIs

LEMMA SumZero ==
  ASSUME NEW f, NEW S, IsFiniteSet(S), \A x \in S : f[x] = 0
  PROVE  Sum(f, S) = 0
<1> DEFINE g == [s \in SUBSET S |-> 0]
<1>1. \A s \in SUBSET S : g[s] = Total(f, s, g)
  BY PickIsMember DEF Total
<1>2. Sums(f, S, g)
  BY <1>1 DEF Sums
<1> HIDE DEF g
<1>3. Sum(f, S) = g[S]
  BY <1>2, SumIs
<1> QED
  BY <1>3 DEF g

\* One summand changes.
LEMMA SumChange ==
  ASSUME NEW f, NEW h, NEW S, IsFiniteSet(S), NEW x \in S,
         \A y \in S : f[y] \in Nat /\ h[y] \in Nat,
         \A y \in S \ {x} : h[y] = f[y]
  PROVE  Sum(h, S) = Sum(f, S) - f[x] + h[x]
<1>1. IsFiniteSet(S \ {x})
  BY FS_RemoveElement
<1>2. /\ Sum(f, S) = Sum(f, S \ {x}) + f[x]
      /\ Sum(h, S) = Sum(h, S \ {x}) + h[x]
  BY SumRemove
<1>3. Sum(f, S \ {x}) = Sum(h, S \ {x})
  BY <1>1, SumSame
<1>4. Sum(f, S \ {x}) \in Nat /\ f[x] \in Nat /\ h[x] \in Nat
  BY <1>1, SumType
<1> QED
  BY <1>2, <1>3, <1>4

\* An element that adds nothing may be left out.
LEMMA SumWithout ==
  ASSUME NEW f, NEW S, IsFiniteSet(S), \A y \in S : f[y] \in Nat,
         NEW x, x \in S => f[x] = 0
  PROVE  Sum(f, S \ {x}) = Sum(f, S)
<1>1. CASE x \in S
  <2>1. IsFiniteSet(S \ {x})
    BY FS_RemoveElement
  <2>2. Sum(f, S) = Sum(f, S \ {x}) + f[x] /\ Sum(f, S \ {x}) \in Nat
    BY <1>1, <2>1, SumRemove, SumType
  <2> QED
    BY <1>1, <2>2
<1>2. CASE x \notin S
  <2>1. S \ {x} = S
    BY <1>2
  <2> QED
    BY <2>1
<1> QED
  BY <1>1, <1>2

----------------------------------------------------------------------------
\* What the runs have counted.

\* A repository has finitely many records.
Finite == \A s \in Store : IsFiniteSet(Stored(s))

LEMMA StoredFinite ==
  ASSUME TypeInv, Finite, [Next]_vars
  PROVE  Finite'
<1>1. \/ UNCHANGED records
      \/ \E r \in Run : pc[r] = "store" /\ Upsert(r)
  BY DEF Next, Step, Mishap, Start, Fetch, RejectStale, SkipDuplicate, RejectInvalid,
         Accept, Write, StoreRecord, StoreRefused, Complete, WriteRaises, StoreRaises,
         Abort, Tick, vars
<1>2. ASSUME NEW r \in Run, pc[r] = "store", Upsert(r), NEW s \in Store
      PROVE  IsFiniteSet(Stored(s)')
  <2> DEFINE k == KeyOf[Current(r)]
  <2>1. /\ records \in [Store -> [Key -> Candidate \cup {NoRecord}]]
        /\ at[r] \in Store /\ k \in Key
    BY <1>2, InHand DEF TypeInv, TypeOK
  <2>2. Stored(s)' \subseteq Stored(s) \cup {k}
    BY <1>2, <2>1 DEF Stored, Upsert
  <2>3. IsFiniteSet(Stored(s) \cup {k})
    BY FS_AddElement DEF Finite
  <2> QED
    BY <2>2, <2>3, FS_Subset
<1> QED
  BY <1>1, <1>2 DEF Finite, Stored

\* So has what counts as one.
HeldFinite == \A s \in Store : IsFiniteSet(Held(s))

\* What an upsert adds to it.
LEMMA UpsertHolds ==
  ASSUME TypeInv, NEW r \in Run, pc[r] = "store", Upsert(r), NEW s \in Store
  PROVE  \E x : /\ s = at[r] => /\ Held(s)' = Held(s) \cup {x}
                                /\ x \notin Held(s) <=> IsNew(r)
                /\ s # at[r] => Held(s)' = Held(s)
<1> DEFINE k == KeyOf[Current(r)]
           u == RowOf[Current(r)]
<1>1. /\ records \in [Store -> [Key -> Candidate \cup {NoRecord}]]
      /\ rows \in [Row -> Key \cup {NoKey}]
      /\ at[r] \in Store /\ k \in Key /\ u \in Row /\ Current(r) \in Candidate
      /\ k # NoKey /\ Current(r) # NoRecord
  <2>1. /\ records \in [Store -> [Key -> Candidate \cup {NoRecord}]]
        /\ rows \in [Row -> Key \cup {NoKey}] /\ at[r] \in Store
    BY DEF TypeInv, TypeOK
  <2>2. Current(r) \in Candidate
    BY InHand
  <2>3. k \in Key /\ u \in Row /\ NoKey \notin Key /\ NoRecord \notin Candidate
    BY <2>2, IngestAssumption
  <2> QED
    BY <2>1, <2>2, <2>3
<1>2. /\ records' = [records EXCEPT ![at[r]][k] = Current(r)]
      /\ rows' = IF at[r] = Postgres THEN [rows EXCEPT ![u] = k] ELSE rows
      /\ IsNew(r) <=> IF at[r] = Postgres THEN rows[u] = NoKey ELSE records[at[r]][k] = NoRecord
  BY DEF Upsert, IsNew
<1> HIDE DEF k, u
<1>3. CASE s # at[r]
  BY <1>1, <1>2, <1>3 DEF Held, Stored
<1>4. CASE s = at[r] /\ s = Postgres
  <2>1. Held(s)' = Held(s) \cup {u} /\ (u \notin Held(s) <=> IsNew(r))
    BY <1>1, <1>2, <1>4 DEF Held
  <2> QED
    BY <1>4, <2>1
<1>5. CASE s = at[r] /\ s # Postgres
  <2>1. Held(s)' = Held(s) \cup {k} /\ (k \notin Held(s) <=> IsNew(r))
    BY <1>1, <1>2, <1>5 DEF Held, Stored
  <2> QED
    BY <1>5, <2>1
<1> QED
  BY <1>3, <1>4, <1>5

\* Nothing else changes it, and nothing takes away from it.
LEMMA HeldGrows ==
  ASSUME TypeInv, HeldFinite, [Next]_vars, NEW s \in Store
  PROVE  /\ IsFiniteSet(Held(s)')
         /\ Cardinality(Held(s)) \in Nat /\ Cardinality(Held(s)') \in Nat
         /\ Cardinality(Held(s)) <= Cardinality(Held(s)')
<1>1. \/ UNCHANGED <<records, rows>>
      \/ \E r \in Run : pc[r] = "store" /\ Upsert(r)
  BY DEF Next, Step, Mishap, Start, Fetch, RejectStale, SkipDuplicate, RejectInvalid,
         Accept, Write, StoreRecord, StoreRefused, Complete, WriteRaises, StoreRaises,
         Abort, Tick, vars
<1>2. IsFiniteSet(Held(s)) /\ Cardinality(Held(s)) \in Nat
  BY FS_CardinalityType DEF HeldFinite
<1>3. \/ Held(s)' = Held(s)
      \/ \E x : Held(s)' = Held(s) \cup {x}
  <2>1. CASE UNCHANGED <<records, rows>>
    BY <2>1 DEF Held, Stored
  <2>2. CASE \E r \in Run : pc[r] = "store" /\ Upsert(r)
    BY <2>2, UpsertHolds
  <2> QED
    BY <1>1, <2>1, <2>2
<1>4. Held(s) \subseteq Held(s)' /\ IsFiniteSet(Held(s)')
  BY <1>2, <1>3, FS_AddElement
<1> QED
  BY <1>2, <1>4, FS_Subset, FS_CardinalityType

\* The sum that CountsAddUp is about is one of a function.
Counted(c) == [r \in Run |-> c[r].stored]

LEMMA ToldIsSum ==
  ASSUME NEW c, NEW R \in SUBSET Run, \A r \in R : c[r].stored \in Nat
  PROVE  Told(c, R) = Sum(Counted(c), R)
<1> DEFINE f == Counted(c)
<1>1. IsFiniteSet(R) /\ \A r \in R : f[r] \in Nat /\ f[r] = c[r].stored
  BY IngestAssumption, FS_Subset DEF Counted
<1> HIDE DEF f
<1>2. PICK g \in [SUBSET R -> Nat] : Sums(f, R, g)
  BY <1>1, SumsExist
<1>3. ASSUME NEW h
      PROVE  h = [t \in SUBSET R |-> IF t = {} THEN 0 ELSE c[Pick(t)].stored + h[t \ {Pick(t)}]]
               <=> Sums(f, R, h)
  <2>1. \A t \in SUBSET R : t # {} => f[Pick(t)] = c[Pick(t)].stored
    BY <1>1, PickIsMember
  <2> QED
    BY <2>1 DEF Sums, Total
<1>4. \A h : Sums(f, R, h) <=> h = g
  BY <1>1, <1>2, SumsUnique
<1>5. Told(c, R) = g[R]
  BY <1>3, <1>4 DEF Told, MapThenSumSet, MapThenFoldSet, Pick
<1> QED
  BY <1>1, <1>2, <1>5, SumIs DEF f


SumInv == TypeInv /\ HeldFinite /\ CountsAddUp

LEMMA RunsOnFinite ==
  ASSUME TypeInv, NEW s
  PROVE  /\ RunsOn(s) \in SUBSET Run /\ IsFiniteSet(RunsOn(s))
         /\ \A r \in Run : count[r].stored \in Nat /\ Counted(count)[r] = count[r].stored
         /\ Told(count, RunsOn(s)) = Sum(Counted(count), RunsOn(s))
         /\ Told(count, RunsOn(s)) \in Nat
<1>1. RunsOn(s) \in SUBSET Run /\ IsFiniteSet(RunsOn(s))
  BY IngestAssumption, FS_Subset DEF RunsOn
<1>2. \A r \in Run : count[r].stored \in Nat /\ Counted(count)[r] = count[r].stored
  BY DEF TypeInv, TypeOK, Counted
<1>3. Told(count, RunsOn(s)) = Sum(Counted(count), RunsOn(s))
  BY <1>1, <1>2, ToldIsSum
<1> QED
  BY <1>1, <1>2, <1>3, SumType

\* The same once a step is taken.
LEMMA RunsOnAfter ==
  ASSUME TypeInv', NEW s
  PROVE  /\ RunsOn(s)' \in SUBSET Run /\ IsFiniteSet(RunsOn(s)')
         /\ \A r \in Run : count'[r].stored \in Nat /\ Counted(count')[r] = count'[r].stored
         /\ Told(count', RunsOn(s)') = Sum(Counted(count'), RunsOn(s)')
<1>1. RunsOn(s)' \in SUBSET Run /\ IsFiniteSet(RunsOn(s)')
  BY IngestAssumption, FS_Subset DEF RunsOn
<1>2. \A r \in Run : count'[r].stored \in Nat /\ Counted(count')[r] = count'[r].stored
  BY DEF TypeInv, TypeOK, Counted
<1> QED
  BY <1>1, <1>2, ToldIsSum

\* A step that counts nothing as stored leaves the sum alone: only Start moves a
\* run to another repository, and then it has counted nothing yet.
LEMMA ToldKept ==
  ASSUME TypeInv, TypeInv', NEW r \in Run, NEW s \in Store,
         \A q \in Run : count'[q].stored = count[q].stored,
         \A q \in Run \ {r} : at'[q] = at[q],
         at'[r] = at[r] \/ count[r].stored = 0
  PROVE  Told(count', RunsOn(s)') = Told(count, RunsOn(s))
<1> DEFINE f == Counted(count)
           R == RunsOn(s)
           Q == RunsOn(s)'
<1>1. /\ R \in SUBSET Run /\ Q \in SUBSET Run /\ IsFiniteSet(R) /\ IsFiniteSet(Q)
      /\ \A q \in Run : f[q] \in Nat /\ f[q] = Counted(count')[q]
      /\ \A q \in Run : f[q] = count[q].stored
      /\ Told(count, R) = Sum(f, R) /\ Told(count', Q) = Sum(Counted(count'), Q)
  BY RunsOnFinite, RunsOnAfter
<1>2. R \ {r} = Q \ {r} /\ (at'[r] = at[r] => R = Q)
  BY DEF RunsOn
<1> HIDE DEF f, R, Q
<1>3. Sum(Counted(count'), Q) = Sum(f, Q)
  BY <1>1, SumSame
<1>4. ASSUME R = Q PROVE Told(count', Q) = Told(count, R)
  BY <1>1, <1>3, <1>4
<1>5. ASSUME count[r].stored = 0 PROVE Told(count', Q) = Told(count, R)
  <2>1. Sum(f, R \ {r}) = Sum(f, R) /\ Sum(f, Q \ {r}) = Sum(f, Q)
    BY <1>1, <1>5, SumWithout
  <2> QED
    BY <1>1, <1>2, <1>3, <2>1
<1>6. Told(count', Q) = Told(count, R)
  BY <1>2, <1>4, <1>5
<1> QED
  BY <1>6 DEF Q, R

\* One more held, and one more counted.
LEMMA ToldMore ==
  ASSUME SumInv, TypeInv', NEW r \in Run, StoreRecord(r), IsNew(r), NEW s \in Store
  PROVE  /\ s = at[r] => /\ Told(count', RunsOn(s)') = Told(count, RunsOn(s)) + 1
                         /\ Cardinality(Held(s)') = Cardinality(Held(s)) + 1
         /\ s # at[r] => /\ Told(count', RunsOn(s)') = Told(count, RunsOn(s))
                         /\ Held(s)' = Held(s)
<1> DEFINE f == Counted(count)
           h == Counted(count')
           R == RunsOn(s)
<1>1. /\ R \in SUBSET Run /\ IsFiniteSet(R)
      /\ \A q \in Run : f[q] \in Nat /\ f[q] = count[q].stored
      /\ \A q \in Run : h[q] \in Nat /\ h[q] = count'[q].stored
      /\ Told(count, R) = Sum(f, R) /\ RunsOn(s)' = R /\ Told(count', RunsOn(s)') = Sum(h, RunsOn(s)')
      /\ r \in R <=> s = at[r]
  BY RunsOnFinite, RunsOnAfter DEF SumInv, StoreRecord, rvars, RunsOn
<1>2. \A q \in Run \ {r} : count'[q].stored = count[q].stored
  BY DEF SumInv, TypeInv, TypeOK, StoreRecord
<1>3. count'[r].stored = count[r].stored + 1
  BY DEF SumInv, TypeInv, TypeOK, StoreRecord
<1>4. PICK x : /\ s = at[r] => /\ Held(s)' = Held(s) \cup {x}
                               /\ x \notin Held(s) <=> IsNew(r)
               /\ s # at[r] => Held(s)' = Held(s)
  BY UpsertHolds DEF SumInv, StoreRecord
<1>5. s = at[r] => Cardinality(Held(s)') = Cardinality(Held(s)) + 1
  BY <1>4, FS_AddElement DEF SumInv, HeldFinite
<1> HIDE DEF f, h, R
<1>8. s # at[r] => Sum(h, R) = Sum(f, R)
  BY <1>1, <1>2, SumSame
<1>9. ASSUME s = at[r] PROVE Sum(h, R) = Sum(f, R) + 1
  <2>1. Sum(h, R) = Sum(f, R) - f[r] + h[r]
    BY <1>1, <1>2, <1>9, SumChange
  <2>2. Sum(f, R) \in Nat /\ f[r] \in Nat /\ h[r] = f[r] + 1
    BY <1>1, <1>3, SumType
  <2> QED
    BY <2>1, <2>2
<1> QED
  BY <1>1, <1>4, <1>5, <1>8, <1>9 DEF R


\* Every other step counts nothing as stored; those that write a record all the
\* same are faults.
LEMMA NothingCounted ==
  ASSUME TypeInv, NEW r \in Run,
         Step(r) \/ Mishap(r) \/ \E s \in Store : Start(r, s),
         ~(StoreRecord(r) /\ IsNew(r))
  PROVE  /\ count'[r].stored = count[r].stored
         /\ at'[r] = at[r] \/ count[r].stored = 0
         /\ StoreRecord(r) \/ faults' # 0 \/ UNCHANGED <<records, rows>>
         /\ faults' = 0 => faults = 0
<1>1. TypeOK /\ count[r].stored \in Nat /\ faults \in Nat
  BY DEF TypeInv, TypeOK
<1>2. CASE \E s \in Store : Start(r, s)
  <2>1. pc[r] = "off" /\ UNCHANGED <<records, rows, count, faults>>
    BY <1>2 DEF Start
  <2>2. Len(got[r]) = 0 /\ pos[r] \in Nat /\ pos[r] <= 1
    BY <1>1, <2>1 DEF TypeInv, Typed, TypeOK
  <2>3. count[r] \in Counts /\ Tally(count[r]) < pos[r]
    BY <1>1 DEF TypeOK, Counts, Tally
  <2>4. count[r].stored = 0
    BY <2>2, <2>3 DEF Counts, Tally
  <2> QED
    BY <2>1, <2>4
<1>3. CASE StoreRecord(r)
  BY <1>1, <1>3 DEF StoreRecord, rvars, TypeOK
<1>4. CASE StoreRaises(r) \/ WriteRaises(r)
  <2>1. CountFailure(r) /\ Fault /\ UNCHANGED rvars /\ (StoreRaises(r) \/ UNCHANGED <<records, rows>>)
    BY <1>4 DEF StoreRaises, WriteRaises
  <2>2. faults' = faults + 1
    BY <2>1 DEF Fault
  <2> QED
    BY <1>1, <2>1, <2>2 DEF CountFailure, TypeOK, rvars
<1>5. CASE RejectInvalid(r) \/ StoreRefused(r) \/ RejectStale(r)
  BY <1>1, <1>5 DEF RejectInvalid, StoreRefused, RejectStale, CountFailure, TypeOK, rvars
<1>6. CASE Write(r)
  BY <1>1, <1>6 DEF Write, CountFailure, Skip, TypeOK, rvars
<1>7. CASE Fetch(r) \/ SkipDuplicate(r) \/ Accept(r) \/ Complete(r)
  BY <1>7 DEF Fetch, SkipDuplicate, Accept, Complete, rvars
<1>8. CASE Abort(r)
  BY <1>1, <1>8 DEF Abort, Fault, rvars
<1> QED
  BY <1>2, <1>3, <1>4, <1>5, <1>6, <1>7, <1>8 DEF Step, Mishap

\* A record that replaces another, or takes over its row, adds nothing.
LEMMA OldReplaced ==
  ASSUME TypeInv, NEW r \in Run, StoreRecord(r), ~IsNew(r), NEW s \in Store
  PROVE  Held(s)' = Held(s)
<1>1. PICK x : /\ s = at[r] => /\ Held(s)' = Held(s) \cup {x}
                               /\ x \notin Held(s) <=> IsNew(r)
               /\ s # at[r] => Held(s)' = Held(s)
  BY UpsertHolds DEF StoreRecord
<1> QED
  BY <1>1

LEMMA StepAddsUp == SumInv /\ [Next]_vars => SumInv'
<1> SUFFICES ASSUME SumInv, [Next]_vars
             PROVE  TypeInv' /\ HeldFinite' /\ CountsAddUp'
  BY DEF SumInv
<1>0. TypeInv /\ TypeInv' /\ HeldFinite /\ HeldFinite'
  BY StepTyped, HeldGrows DEF SumInv, HeldFinite
<1> SUFFICES ASSUME NEW s \in Store
             PROVE  /\ Told(count', RunsOn(s)') <= Cardinality(Held(s)')
                    /\ faults' = 0 => Told(count', RunsOn(s)') = Cardinality(Held(s)')
  BY <1>0 DEF CountsAddUp
<1>2. /\ Cardinality(Held(s)) \in Nat /\ Cardinality(Held(s)') \in Nat
      /\ Cardinality(Held(s)) <= Cardinality(Held(s)')
      /\ Told(count, RunsOn(s)) \in Nat
  BY <1>0, HeldGrows, RunsOnFinite
<1>3. /\ Told(count, RunsOn(s)) <= Cardinality(Held(s))
      /\ faults = 0 => Told(count, RunsOn(s)) = Cardinality(Held(s))
  BY DEF SumInv, CountsAddUp
<1>4. CASE \E r \in Run : StoreRecord(r) /\ IsNew(r)
  <2>1. PICK r \in Run : StoreRecord(r) /\ IsNew(r)
    BY <1>4
  <2>2. faults' = faults
    BY <2>1 DEF StoreRecord
  <2> QED
    BY <1>0, <1>2, <1>3, <2>1, <2>2, ToldMore
<1>5. ASSUME NEW r \in Run, Step(r) \/ Mishap(r) \/ \E q \in Store : Start(r, q),
             ~(StoreRecord(r) /\ IsNew(r))
      PROVE  /\ Told(count', RunsOn(s)') <= Cardinality(Held(s)')
             /\ faults' = 0 => Told(count', RunsOn(s)') = Cardinality(Held(s)')
  <2>1. \A q \in Run \ {r} : at'[q] = at[q] /\ count'[q] = count[q]
    BY <1>0, <1>5, Frame
  <2>2. /\ count'[r].stored = count[r].stored
        /\ at'[r] = at[r] \/ count[r].stored = 0
        /\ StoreRecord(r) \/ faults' # 0 \/ UNCHANGED <<records, rows>>
        /\ faults' = 0 => faults = 0
    BY <1>0, <1>5, NothingCounted
  <2>3. Told(count', RunsOn(s)') = Told(count, RunsOn(s))
    BY <1>0, <2>1, <2>2, ToldKept
  <2>4. StoreRecord(r) => Held(s)' = Held(s)
    BY <1>0, <1>5, OldReplaced
  <2>5. UNCHANGED <<records, rows>> => Held(s)' = Held(s)
    BY DEF Held, Stored
  <2> QED
    BY <1>2, <1>3, <2>2, <2>3, <2>4, <2>5
<1>6. CASE Tick \/ UNCHANGED vars
  <2>1. UNCHANGED <<records, rows, at, count, faults>>
    BY <1>6 DEF Tick, vars, rvars
  <2> QED
    BY <1>3, <2>1 DEF Held, Stored, RunsOn
<1> QED
  BY <1>4, <1>5, <1>6 DEF Next

LEMMA InitAddsUp == Init => SumInv
<1> SUFFICES ASSUME Init PROVE SumInv
  OBVIOUS
<1>1. TypeInv
  BY InitTyped
<1>2. \A s \in Store : Held(s) = {}
  BY DEF Init, Held, Stored
<1>3. ASSUME NEW s \in Store PROVE Told(count, RunsOn(s)) = 0
  <2>1. \A r \in Run : count[r].stored = 0
    BY DEF Init
  <2>2. \A r \in RunsOn(s) : Counted(count)[r] = 0
    BY <1>1, <2>1, RunsOnFinite
  <2> QED
    BY <1>1, <2>2, RunsOnFinite, SumZero
<1>4. HeldFinite
  BY <1>2, FS_EmptySet DEF HeldFinite
<1> QED
  BY <1>1, <1>2, <1>3, <1>4, FS_EmptySet DEF SumInv, CountsAddUp

\* The counts of all runs on a repository add up to what it holds: runs that
\* find the same record, or move one row between records, count it once, and
\* only a fault leaves a record in memory or a row in PostgreSQL uncounted.
THEOREM CountsAreRight == Spec => []CountsAddUp
<1>1. SumInv => CountsAddUp
  BY DEF SumInv
<1> QED
  BY <1>1, InitAddsUp, StepAddsUp, PTL DEF Spec
=============================================================================

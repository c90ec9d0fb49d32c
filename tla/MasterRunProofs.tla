--------------------------- MODULE MasterRunProofs ---------------------------
(***************************************************************************)
(* Master runs only order the runs of the pipelines and look at them, so    *)
(* what is proved of any runs holds of theirs; and what they look at, in a  *)
(* memory that nobody else writes to, is what the runs have counted.        *)
(***************************************************************************)
EXTENDS MasterRun, IngestPipelineProofs

LEMMA InOrder ==
  /\ \A m \in Master, j \in DOMAIN Order : <<m, Order[j]>> \in Run
  /\ \A m \in Master, v \in ToSet(Order) : <<m, v>> \in Run
<1>1. \A j \in DOMAIN Order : Order[j] \in ToSet(Order)
  BY MasterAssumption DEF ToSet
<1> QED
  BY <1>1, MasterAssumption

\* Every step of a master run is one of a pipeline, or leaves them alone.
LEMMA MasterStepIsStep ==
  ASSUME MasterTypeOK, [MasterNext]_<<vars, mvars>>
  PROVE  [Next]_vars
<1>1. storage \in [Master -> Store]
  BY DEF MasterTypeOK
<1>2. ASSUME NEW m \in Master, MasterStep(m) PROVE [Next]_vars
  BY <1>1, <1>2, InOrder
     DEF MasterStep, Ingest, RunStep, Export, Finish, Propagate, Fall, Next
<1>3. ASSUME NEW m \in Master, Begin(m) \/ Raise(m) PROVE UNCHANGED vars
  BY <1>3 DEF Begin, Raise, Fall
<1>4. ASSUME NEW r \in Run, Mishap(r) PROVE Next
  BY <1>4 DEF Next
<1> QED
  BY <1>2, <1>3, <1>4 DEF MasterNext, Next

LEMMA FiniteRows ==
  ASSUME Finite, NEW m \in Master, NEW v \in ToSet(Order)
  PROVE  Rows(m, v) \in Nat
<1>1. IsFiniteSet(Stored(m))
  BY MasterAssumption DEF Finite
<1>2. {k \in Stored(m) : TypeOf[records[m][k]] = v} \subseteq Stored(m)
  OBVIOUS
<1>3. IsFiniteSet({k \in Stored(m) : TypeOf[records[m][k]] = v})
  BY <1>1, <1>2, FS_Subset
<1> QED
  BY <1>3, FS_CardinalityType DEF Rows

LEMMA FiniteViolations ==
  ASSUME Finite, NEW m \in Master
  PROVE  Audited(m) \in Nat
<1>1. IsFiniteSet(Stored(m))
  BY MasterAssumption DEF Finite
<1>2. Violations(m) \subseteq Stored(m)
  BY DEF Violations
<1>3. IsFiniteSet(Violations(m))
  BY <1>1, <1>2, FS_Subset
<1> QED
  BY <1>3, FS_CardinalityType DEF Audited

\* A master run that has not begun has started nothing.
Dormant == \A m \in Master : phase[m] = "off"
  => \A v \in ToSet(Order) : pc[<<m, v>>] = "off"

MasterInv == MasterTypeOK /\ TypeInv /\ Finite /\ Dormant

LEMMA InitMastered == MasterInit => MasterInv
<1> SUFFICES ASSUME MasterInit PROVE MasterInv
  OBVIOUS
<1>1. TypeInv
  BY InitTyped DEF MasterInit
<1>2. \A s \in Store : Stored(s) = {}
  BY DEF MasterInit, Init, Stored
<1>3. Finite
  BY <1>2, FS_EmptySet DEF Finite
<1> QED
  BY <1>1, <1>3, InOrder, MasterAssumption
     DEF MasterInit, MasterInv, MasterTypeOK, TypeInv, Dormant, Init

\* The part of the invariant about the repository a run writes to.
Faithful == \A m \in Master, v \in ToSet(Order) :
  pc[<<m, v>>] = "off" \/ at[<<m, v>>] = storage[m]

\* Steps of a run that is under way.
LEMMA RunKept ==
  ASSUME MasterInv, NEW r \in Run, Step(r) \/ Mishap(r), UNCHANGED mvars
  PROVE  Faithful' /\ Dormant'
<1>1. pc \in [Run -> {"off", "done", "raised"} \cup Working]
  BY DEF MasterInv, MasterTypeOK, TypeOK
<1>2. at'[r] = at[r] /\ pc[r] # "off"
  BY <1>1 DEF Step, Mishap, Fetch, RejectStale, SkipDuplicate, RejectInvalid, Accept,
     Write, StoreRecord, StoreRefused, Complete, WriteRaises, StoreRaises, Abort, AtCandidate,
     Working, rvars
<1>3. \A q \in Run \ {r} : pc'[q] = pc[q] /\ at'[q] = at[q]
  BY Frame DEF MasterInv
<1>4. \A q \in Run : at'[q] = at[q] /\ (pc[q] = "off" => pc'[q] = "off")
  BY <1>2, <1>3
<1> QED
  BY <1>2, <1>3, <1>4, InOrder DEF MasterInv, MasterTypeOK, Faithful, Dormant, mvars

\* Starting the next pipeline.
LEMMA IngestKept ==
  ASSUME MasterInv, NEW m \in Master, NEW j \in DOMAIN Order, Ingest(m, j)
  PROVE  Faithful' /\ Dormant'
<1> DEFINE r == <<m, Order[j]>>
<1>1. r \in Run /\ storage[m] \in Store /\ Start(r, storage[m])
  BY InOrder DEF MasterInv, MasterTypeOK, Ingest
<1>2. \A q \in Run \ {r} : pc'[q] = pc[q] /\ at'[q] = at[q]
  BY <1>1, Frame DEF MasterInv
<1>3. at'[r] = storage[m] /\ phase[m] # "off" /\ UNCHANGED mvars
  BY <1>1 DEF Ingest, Start, MasterInv, MasterTypeOK, TypeOK
<1> HIDE DEF r
<1>4. ASSUME NEW n \in Master, NEW v \in ToSet(Order), <<n, v>> = r
      PROVE  n = m
  BY <1>4 DEF r
<1>5. Faithful'
  <2> SUFFICES ASSUME NEW n \in Master, NEW v \in ToSet(Order)
               PROVE  pc'[<<n, v>>] = "off" \/ at'[<<n, v>>] = storage'[n]
    BY DEF Faithful
  <2>1. <<n, v>> \in Run
    BY InOrder
  <2>2. CASE <<n, v>> = r
    BY <2>2, <1>3, <1>4 DEF mvars
  <2>3. CASE <<n, v>> # r
    BY <2>1, <2>3, <1>2, <1>3 DEF MasterInv, MasterTypeOK, mvars
  <2> QED
    BY <2>2, <2>3
<1>6. Dormant'
  <2> SUFFICES ASSUME NEW n \in Master, NEW v \in ToSet(Order), phase'[n] = "off"
               PROVE  pc'[<<n, v>>] = "off"
    BY DEF Dormant
  <2>1. <<n, v>> \in Run /\ <<n, v>> # r
    BY InOrder, <1>3, <1>4 DEF mvars
  <2> QED
    BY <2>1, <1>2, <1>3 DEF MasterInv, Dormant, mvars
<1> QED
  BY <1>5, <1>6

\* Steps of the master run itself.
LEMMA MasterKept ==
  ASSUME MasterInv, NEW m \in Master,
         Begin(m) \/ Export(m) \/ Finish(m) \/ Propagate(m) \/ Raise(m)
  PROVE  Faithful' /\ Dormant'
<1>1. phase \in [Master -> {"off", "verticals", "exported", "completed", "raised"}]
      /\ storage \in [Master -> Store]
  BY DEF MasterInv, MasterTypeOK
<1>2. UNCHANGED <<pc, at>>
  BY DEF Begin, Export, Finish, Propagate, Raise, Fall, vars
<1>3. \A n \in Master : phase'[n] = "off" => phase[n] = "off"
  BY <1>1 DEF Begin, Export, Finish, Propagate, Raise, Fall
<1>4. \A n \in Master : storage'[n] = storage[n] \/ phase[n] = "off"
  BY <1>1 DEF Begin, Export, Finish, Propagate, Raise, Fall
<1> QED
  BY <1>2, <1>3, <1>4 DEF MasterInv, MasterTypeOK, Faithful, Dormant

LEMMA StepMastered == MasterInv /\ [MasterNext]_<<vars, mvars>> => MasterInv'
<1> SUFFICES ASSUME MasterInv, [MasterNext]_<<vars, mvars>> PROVE MasterInv'
  OBVIOUS
<1>1. MasterTypeOK /\ TypeInv /\ Finite /\ Dormant /\ Faithful
  BY DEF MasterInv, MasterTypeOK, Faithful
<1>2. TypeInv' /\ TypeOK' /\ Finite'
  BY <1>1, MasterStepIsStep, StepTyped, StoredFinite DEF TypeInv
<1>3. Faithful' /\ Dormant'
  <2>1. ASSUME NEW m \in Master, NEW j \in DOMAIN Order, RunStep(<<m, Order[j]>>)
        PROVE  Faithful' /\ Dormant'
    BY <2>1, InOrder, RunKept DEF RunStep
  <2>2. ASSUME NEW r \in Run, Mishap(r), UNCHANGED mvars
        PROVE  Faithful' /\ Dormant'
    BY <2>2, RunKept
  <2>3. ASSUME (Tick /\ UNCHANGED mvars) \/ UNCHANGED <<vars, mvars>>
        PROVE  Faithful' /\ Dormant'
    BY <1>1, <2>3 DEF Faithful, Dormant, Tick, vars, mvars, rvars
  <2> QED
    BY <2>1, <2>2, <2>3, IngestKept, MasterKept DEF MasterNext, MasterStep
<1>4. phase' \in [Master -> {"off", "verticals", "exported", "completed", "raised"}]
  BY <1>1 DEF MasterTypeOK, MasterNext, MasterStep, Begin, Ingest, RunStep, Export,
     Finish, Propagate, Raise, Fall, mvars
<1>5. /\ storage' \in [Master -> Store]
      /\ \A m \in Master : storage'[m] \in {m, Postgres}
  <2>1. \A m \in Master : m \in Store /\ Postgres \in Store
    BY MasterAssumption
  <2>2. \/ UNCHANGED storage
        \/ \E m \in Master : \E s \in {m, Postgres} :
             storage' = [storage EXCEPT ![m] = s]
    BY DEF MasterNext, MasterStep, Begin, Ingest, RunStep, Export, Finish, Propagate,
       Raise, Fall, mvars
  <2> QED
    BY <1>1, <2>1, <2>2 DEF MasterTypeOK
<1>6. exported' \in [Master -> [ToSet(Order) -> Nat]]
  <2>1. ASSUME NEW m \in Master, Export(m)
        PROVE  exported' \in [Master -> [ToSet(Order) -> Nat]]
    <3>1. \A v \in ToSet(Order) : Rows(m, v) \in Nat
      BY <1>1, FiniteRows, <2>1
    <3> QED
      BY <1>1, <2>1, <3>1 DEF Export, MasterTypeOK
  <2>2. (\E m \in Master : Export(m)) \/ UNCHANGED exported
    BY DEF MasterNext, MasterStep, Begin, Ingest, RunStep, Finish, Propagate, Raise,
       Fall, mvars
  <2> QED
    BY <1>1, <2>1, <2>2 DEF MasterTypeOK
<1>7. audited' \in [Master -> Nat]
  <2>1. ASSUME NEW m \in Master, Export(m) PROVE audited' \in [Master -> Nat]
    BY <1>1, <2>1, FiniteViolations DEF Export, MasterTypeOK
  <2>2. (\E m \in Master : Export(m)) \/ UNCHANGED audited
    BY DEF MasterNext, MasterStep, Begin, Ingest, RunStep, Finish, Propagate, Raise,
       Fall, mvars
  <2> QED
    BY <1>1, <2>1, <2>2 DEF MasterTypeOK
<1> QED
  BY <1>2, <1>3, <1>4, <1>5, <1>6, <1>7 DEF MasterInv, MasterTypeOK, Faithful

\* The master run and its pipelines have their types, no pipeline stores more
\* than its limit, and whatever a master run has started writes to the one
\* repository it has chosen: it never moves from the database to memory.
THEOREM MasterTypeCorrect == MasterSpec => []MasterTypeOK
<1>1. MasterInv => MasterTypeOK
  BY DEF MasterInv
<1> QED
  BY <1>1, InitMastered, StepMastered, PTL DEF MasterSpec

\* A master run is nothing but runs of pipelines in a certain order: with the
\* theorems about Spec, whatever holds of any runs holds of those of run_all.
THEOREM MasterImplementsIngest == MasterSpec => Spec
<1>1. MasterInit => Init
  BY DEF MasterInit
<1>2. MasterInv /\ [MasterNext]_<<vars, mvars>> => [Next]_vars
  BY MasterStepIsStep DEF MasterInv
<1> QED
  BY <1>1, <1>2, InitMastered, StepMastered, PTL DEF MasterSpec, Spec

\* In particular, the records master runs leave behind, whichever of them
\* share the database, are traceable and were fresh.
THEOREM MasterTraceable == MasterSpec => [](StoredIsLogged /\ StoredFresh)
  BY MasterImplementsIngest, Traceable, FreshOnly, PTL

----------------------------------------------------------------------------
\* What a run in memory exports.

\* A run belongs to one master run, and writes to its memory or to PostgreSQL.
LEMMA Own ==
  ASSUME MasterInv, NEW r \in Run
  PROVE  /\ r[1] \in Master /\ r[2] \in ToSet(Order) /\ r = <<r[1], r[2]>>
         /\ VerticalOf[r] = r[2]
         /\ pc[r] # "off" => at[r] = storage[r[1]] /\ at[r] \in {r[1], Postgres}
<1>1. r[1] \in Master /\ r[2] \in ToSet(Order) /\ r = <<r[1], r[2]>> /\ VerticalOf[r] = r[2]
  BY MasterAssumption
<1> QED
  BY <1>1 DEF MasterInv, MasterTypeOK

\* Records are kept under their own keys.
Keyed == \A s \in Store, k \in Key : records[s][k] # NoRecord => KeyOf[records[s][k]] = k

LEMMA StepKeyed ==
  ASSUME OrderInv, Keyed, [Next]_vars
  PROVE  Keyed'
<1> SUFFICES ASSUME NEW s \in Store, NEW k \in Key, records'[s][k] # NoRecord
             PROVE  KeyOf[records'[s][k]] = k
  BY DEF Keyed
<1>1. records \in [Store -> [Key -> Candidate \cup {NoRecord}]]
  BY DEF OrderInv, TypeInv, TypeOK
<1>2. CASE records' = records
  BY <1>2 DEF Keyed
<1>3. ASSUME NEW r \in Run, pc[r] = "store", Upsert(r) PROVE KeyOf[records'[s][k]] = k
  <2>1. at[r] \in Store /\ KeyOf[Current(r)] \in Key
    BY <1>3, InHand DEF OrderInv, TypeInv, TypeOK
  <2>2. CASE s = at[r] /\ k = KeyOf[Current(r)]
    BY <1>1, <1>3, <2>1, <2>2 DEF Upsert
  <2>3. CASE ~(s = at[r] /\ k = KeyOf[Current(r)])
    BY <1>1, <1>3, <2>1, <2>3 DEF Upsert, Keyed
  <2> QED
    BY <2>2, <2>3
<1>4. records' = records \/ \E r \in Run : pc[r] = "store" /\ Upsert(r)
  BY DEF Next, Step, Mishap, Start, Fetch, RejectStale, SkipDuplicate, RejectInvalid,
         Accept, Write, StoreRecord, StoreRefused, Complete, WriteRaises, StoreRaises,
         Abort, Tick, vars
<1> QED
  BY <1>2, <1>3, <1>4

\* The records of one type in the memory of a master run are as many as its
\* pipeline of that type has counted.
Shelf(m, v) == {k \in Stored(m) : TypeOf[records[m][k]] = v}
PipelineCount(m, v) == IF at[<<m, v>>] = m THEN count[<<m, v>>].stored ELSE 0
Shelves == \A m \in Master, v \in ToSet(Order) : Cardinality(Shelf(m, v)) = PipelineCount(m, v)

LEMMA ShelfFinite ==
  ASSUME Finite, NEW m \in Master, NEW v
  PROVE  IsFiniteSet(Shelf(m, v)) /\ Cardinality(Shelf(m, v)) \in Nat
<1>1. IsFiniteSet(Stored(m)) /\ Shelf(m, v) \subseteq Stored(m)
  BY MasterAssumption DEF Finite, Shelf
<1> QED
  BY <1>1, FS_Subset, FS_CardinalityType

\* Storing is counted for the shelf it changes.
LEMMA StoreShelves ==
  ASSUME MasterInv, OrderInv, Keyed, Shelves, NEW r \in Run, StoreRecord(r)
  PROVE  Shelves'
<1> DEFINE n == r[1]
<1>1. PICK c : c = Current(r)
  OBVIOUS
<1>2. /\ n \in Master /\ r[2] \in ToSet(Order) /\ r = <<n, r[2]>> /\ VerticalOf[r] = r[2]
      /\ at[r] \in {n, Postgres}
  BY Own DEF StoreRecord
<1>3. /\ c \in Candidate /\ KeyOf[c] \in Key /\ TypeOf[c] = r[2] /\ at[r] \in Store
  BY <1>1, <1>2, InHand DEF StoreRecord, OrderInv, TypeInv, TypeOK
<1>4. /\ records' = [records EXCEPT ![at[r]][KeyOf[c]] = c] /\ at' = at
      /\ records \in [Store -> [Key -> Candidate \cup {NoRecord}]]
      /\ \A q \in Run : q # r => count'[q] = count[q]
      /\ count'[r].stored = IF IsNew(r) THEN count[r].stored + 1 ELSE count[r].stored
      /\ at[r] # Postgres => (IsNew(r) <=> records[at[r]][KeyOf[c]] = NoRecord)
      /\ count[r].stored \in Nat
  BY <1>1 DEF StoreRecord, Upsert, OrderInv, TypeInv, TypeOK, rvars, IsNew
<1> SUFFICES ASSUME NEW m \in Master, NEW v \in ToSet(Order)
             PROVE  Cardinality(Shelf(m, v)') = PipelineCount(m, v)'
  BY DEF Shelves
<1>5. Cardinality(Shelf(m, v)) = PipelineCount(m, v) /\ <<m, v>> \in Run
  BY InOrder DEF Shelves
<1>6. IsFiniteSet(Shelf(m, v))
  BY ShelfFinite DEF MasterInv
<1>7. m \in Store /\ m # Postgres
  BY MasterAssumption
<1>8. CASE at[r] # m
  <2>1. Shelf(m, v)' = Shelf(m, v)
    BY <1>3, <1>4, <1>7, <1>8 DEF Shelf, Stored
  <2>2. PipelineCount(m, v)' = PipelineCount(m, v)
    BY <1>4, <1>5, <1>8 DEF PipelineCount
  <2> QED
    BY <1>5, <2>1, <2>2
<1>9. CASE at[r] = m
  <2>1. r = <<m, r[2]>>
    BY <1>2, <1>7, <1>9
  <2>2. ~IsNew(r) => TypeOf[records[m][KeyOf[c]]] = r[2]
    <3> SUFFICES ASSUME ~IsNew(r) PROVE TypeOf[records[m][KeyOf[c]]] = r[2]
      OBVIOUS
    <3> DEFINE d == records[m][KeyOf[c]]
    <3>1. d # NoRecord
      BY <1>4, <1>7, <1>9
    <3>2. d \in Candidate /\ KeyOf[d] = KeyOf[c]
      BY <1>3, <1>4, <1>7, <3>1 DEF Keyed
    <3> QED
      BY <1>3, <3>2, IngestAssumption
  <2>3. \A k \in Key : records'[m][k] = IF k = KeyOf[c] THEN c ELSE records[m][k]
    BY <1>3, <1>4, <1>7, <1>9
  <2>4. c # NoRecord
    BY <1>3, IngestAssumption
  <2>5. CASE v = r[2]
    <3>1. Shelf(m, v)' = Shelf(m, v) \cup {KeyOf[c]}
      BY <1>3, <2>3, <2>4, <2>5 DEF Shelf, Stored
    <3>2. KeyOf[c] \in Shelf(m, v) <=> ~IsNew(r)
      BY <1>3, <1>4, <1>7, <1>9, <2>2, <2>5 DEF Shelf, Stored
    <3>3. Cardinality(Shelf(m, v)') = IF KeyOf[c] \in Shelf(m, v) THEN Cardinality(Shelf(m, v))
                                      ELSE Cardinality(Shelf(m, v)) + 1
      BY <1>6, <3>1, FS_AddElement
    <3>4. PipelineCount(m, v) = count[r].stored /\ PipelineCount(m, v)' = count'[r].stored
      BY <1>4, <1>9, <2>1, <2>5 DEF PipelineCount
    <3> QED
      BY <1>4, <1>5, <3>2, <3>3, <3>4
  <2>6. CASE v # r[2]
    <3>1. Shelf(m, v)' = Shelf(m, v)
      <4>1. KeyOf[c] \notin Shelf(m, v)
        BY <1>4, <1>7, <1>9, <2>2, <2>6 DEF Shelf, Stored
      <4>2. KeyOf[c] \notin Shelf(m, v)'
        BY <1>3, <2>3, <2>6 DEF Shelf
      <4>3. \A k \in Key : k # KeyOf[c] => (k \in Shelf(m, v)' <=> k \in Shelf(m, v))
        BY <2>3 DEF Shelf, Stored
      <4> QED
        BY <4>1, <4>2, <4>3 DEF Shelf, Stored
    <3>2. <<m, v>> # r
      BY <2>1, <2>6
    <3>3. PipelineCount(m, v)' = PipelineCount(m, v)
      BY <1>4, <1>5, <3>2 DEF PipelineCount
    <3> QED
      BY <1>5, <3>1, <3>3
  <2> QED
    BY <2>5, <2>6
<1> QED
  BY <1>8, <1>9

\* Whatever else happens leaves every shelf and its count alone: a pipeline that
\* begins in memory has stored nothing yet, and only calls to PostgreSQL raise.
LEMMA OthersShelves ==
  ASSUME MasterInv, OrderInv, Shelves, [Next]_vars, ~(\E r \in Run : StoreRecord(r))
  PROVE  Shelves'
<1> SUFFICES ASSUME NEW m \in Master, NEW v \in ToSet(Order)
             PROVE  Cardinality(Shelf(m, v)') = PipelineCount(m, v)'
  BY DEF Shelves
<1>1. Cardinality(Shelf(m, v)) = PipelineCount(m, v) /\ <<m, v>> \in Run
  BY InOrder DEF Shelves
<1>2. m \in Store /\ m # Postgres
  BY MasterAssumption
<1>3. TypeInv /\ TypeOK
  BY DEF OrderInv, TypeInv
<1>4. ASSUME NEW r \in Run, NEW s \in Store, Start(r, s)
      PROVE  Cardinality(Shelf(m, v)') = PipelineCount(m, v)'
  <2>1. Shelf(m, v)' = Shelf(m, v) /\ count' = count /\ pc[r] = "off"
        /\ \A q \in Run : q # r => at'[q] = at[q]
    BY <1>3, <1>4 DEF Start, Shelf, Stored, TypeOK
  <2>2. CASE <<m, v>> # r
    BY <1>1, <2>1, <2>2 DEF PipelineCount
  <2>3. CASE <<m, v>> = r
    <3>1. pos[r] = 1
      BY <1>3, <2>1, NothingBehind
    <3>2. count[r].stored = 0
      <4>1. /\ count[r].stored \in Nat /\ count[r].failures \in Nat /\ count[r].stale \in Nat
            /\ count[r].stored + count[r].failures + count[r].stale < pos[r]
        BY <1>3 DEF TypeOK
      <4> QED
        BY <3>1, <4>1
    <3> QED
      BY <1>1, <2>1, <2>3, <3>2 DEF PipelineCount
  <2> QED
    BY <2>2, <2>3
<1>5. ASSUME records' = records \/ \E r \in Run : StoreRaises(r),
             at' = at, \A q \in Run : count'[q].stored = count[q].stored
      PROVE  Cardinality(Shelf(m, v)') = PipelineCount(m, v)'
  <2>1. \A k \in Key : records'[m][k] = records[m][k]
    <3> SUFFICES ASSUME NEW k \in Key PROVE records'[m][k] = records[m][k]
      OBVIOUS
    <3>1. CASE records' = records
      BY <3>1
    <3>2. CASE \E r \in Run : StoreRaises(r)
      <4>1. PICK r \in Run : StoreRaises(r)
        BY <3>2
      <4>2. at[r] = Postgres /\ (Upsert(r) \/ UNCHANGED records)
        BY <4>1 DEF StoreRaises
      <4> QED
        BY <1>2, <1>3, <4>2 DEF Upsert, TypeOK
    <3> QED
      BY <1>5, <3>1, <3>2
  <2>2. Shelf(m, v)' = Shelf(m, v)
    BY <2>1 DEF Shelf, Stored
  <2> QED
    BY <1>1, <1>5, <2>2 DEF PipelineCount
<1>6. ASSUME NEW r \in Run, CountFailure(r) \/ UNCHANGED count \/ RejectStale(r)
      PROVE  \A q \in Run : count'[q].stored = count[q].stored
  <2>1. count \in [Run -> [stored : Nat, failures : Nat, stale : Nat]]
    BY <1>3 DEF TypeOK
  <2>2. CASE CountFailure(r)
    BY <2>1, <2>2 DEF CountFailure
  <2>3. CASE RejectStale(r)
    <3>1. count' = [count EXCEPT ![r].stale = @ + 1]
      BY <2>3 DEF RejectStale
    <3> QED
      BY <2>1, <3>1
  <2> QED
    BY <1>6, <2>2, <2>3
<1>7. ASSUME NEW r \in Run, Step(r) \/ Mishap(r)
      PROVE  /\ records' = records \/ StoreRaises(r)
             /\ at' = at /\ \A q \in Run : count'[q].stored = count[q].stored
  <2>1. CountFailure(r) \/ UNCHANGED count \/ RejectStale(r)
    BY <1>7 DEF Step, Mishap, Fetch, SkipDuplicate, RejectInvalid,
       Accept, Write, StoreRefused, Complete, WriteRaises, StoreRaises, Abort
  <2>2. (records' = records \/ StoreRaises(r)) /\ at' = at
    BY <1>7 DEF Step, Mishap, Fetch, RejectStale, SkipDuplicate, RejectInvalid,
       Accept, Write, StoreRefused, Complete, WriteRaises, StoreRaises, Abort, rvars
  <2> QED
    BY <1>6, <2>1, <2>2
<1>8. CASE Tick \/ UNCHANGED vars
  BY <1>5, <1>8 DEF Tick, vars, rvars
<1> QED
  BY <1>4, <1>5, <1>7, <1>8 DEF Next

\* What a run that is over has said, and what is in the memory of a master run
\* whose pipelines are over, is final.
LEMMA DoneStays ==
  ASSUME MasterInv, [Next]_vars, NEW q \in Run, pc[q] = "done"
  PROVE  pc'[q] = "done" /\ at'[q] = at[q] /\ cutoff'[q] = cutoff[q] /\ count'[q] = count[q]
<1>1. TypeInv
  BY DEF MasterInv
<1>2. ASSUME NEW r \in Run, Step(r) \/ Mishap(r) \/ \E s \in Store : Start(r, s)
      PROVE  q # r
  BY <1>2 DEF Step, Mishap, Fetch, RejectStale, SkipDuplicate, RejectInvalid, Accept,
     Write, StoreRecord, StoreRefused, Complete, WriteRaises, StoreRaises, Abort, AtCandidate,
     Working, Start
<1>3. ASSUME NEW r \in Run, Step(r) \/ Mishap(r) \/ \E s \in Store : Start(r, s)
      PROVE  pc'[q] = pc[q] /\ at'[q] = at[q] /\ cutoff'[q] = cutoff[q] /\ count'[q] = count[q]
  BY <1>1, <1>2, <1>3, Frame
<1>4. CASE Tick \/ UNCHANGED vars
  BY <1>4 DEF Tick, vars, rvars
<1> QED
  BY <1>3, <1>4 DEF Next

LEMMA MemoryStays ==
  ASSUME MasterInv, OrderInv, [Next]_vars, NEW m \in Master, \A v \in ToSet(Order) : Done(m, v)
  PROVE  \A k \in Key : records'[m][k] = records[m][k]
<1> SUFFICES ASSUME NEW k \in Key, records'[m][k] # records[m][k] PROVE FALSE
  OBVIOUS
<1>1. m \in Store /\ m # Postgres
  BY MasterAssumption
<1>2. PICK r \in Run : pc[r] = "store" /\ m = at[r]
  BY <1>1, NewRecord
<1>3. r = <<m, r[2]>> /\ r[2] \in ToSet(Order)
  BY <1>1, <1>2, Own
<1> QED
  BY <1>2, <1>3 DEF Done

\* The articles and jobs that were fresh when their pipeline began, and are too
\* old now.
Aged(m) == {k \in Stored(m) :
  LET c == records[m][k]
  IN /\ TypeOf[c] \in {"news", "jobs"}
     /\ cutoff[<<m, TypeOf[c]>>] <= Posted[c] /\ Posted[c] < now - Hours}

\* The audit finds no others.
LEMMA AuditFindsAged ==
  ASSUME MasterInv, OrderInv, StoredFresh, NEW m \in Master
  PROVE  Violations(m) \subseteq Aged(m) /\ IsFiniteSet(Aged(m))
<1>1. m \in Store /\ m # Postgres
  BY MasterAssumption
<1>2. ASSUME NEW k \in Violations(m) PROVE k \in Aged(m)
  <2> DEFINE c == records[m][k]
  <2>1. k \in Stored(m) /\ TypeOf[c] \in {"news", "jobs"} /\ Posted[c] < now - Hours
    BY <1>2 DEF Violations
  <2>2. PICK r \in Run : /\ at[r] = m /\ VerticalOf[r] = TypeOf[c]
                         /\ c \in ToSet(got[r]) /\ Posted[c] >= cutoff[r]
    BY <1>1, <2>1 DEF StoredFresh, RunsOn
  <2>3. pc[r] # "off"
    <3>1. got[r] # <<>>
      BY <2>2 DEF ToSet
    <3> QED
      BY <3>1, NothingBehind DEF OrderInv
  <2>4. r = <<m, TypeOf[c]>>
    BY <1>1, <2>2, <2>3, Own
  <2>5. Posted[c] \in Int /\ cutoff[r] \in Int
    <3>1. c \in Candidate
      BY <1>1, <2>1 DEF Stored, OrderInv, TypeInv, TypeOK
    <3> QED
      BY <3>1, IngestAssumption DEF OrderInv, TypeInv, TypeOK
  <2>6. cutoff[r] <= Posted[c]
    BY <2>2, <2>5
  <2> QED
    BY <2>1, <2>4, <2>6 DEF Aged
<1>3. Aged(m) \subseteq Stored(m) /\ IsFiniteSet(Stored(m))
  BY <1>1 DEF Aged, MasterInv, Finite
<1> QED
  BY <1>2, <1>3, FS_Subset

\* A master run that has exported has nothing under way, and its manifest says
\* what is in its memory.
Closed(m) == phase[m] \in {"exported", "completed"} =>
  /\ \A v \in ToSet(Order) : Done(m, v)
  /\ storage[m] # Postgres =>
       /\ \A v \in ToSet(Order) : exported[m][v] = count[<<m, v>>].stored
       /\ audited[m] <= Cardinality(Aged(m))

ReportInv == MasterInv /\ OrderInv /\ StoredFresh /\ Keyed /\ Shelves
             /\ \A m \in Master : Closed(m)

\* The export itself.
LEMMA ExportCloses ==
  ASSUME ReportInv, NEW m \in Master, Export(m)
  PROVE  Closed(m)'
<1>1. /\ MasterInv /\ OrderInv /\ StoredFresh /\ Shelves /\ MasterTypeOK
      /\ phase[m] = "verticals"
  BY DEF ReportInv, MasterInv, Export
<1>2. /\ exported'[m] = [v \in ToSet(Order) |-> Rows(m, v)] /\ audited'[m] = Audited(m)
      /\ UNCHANGED <<records, pc, at, count, cutoff, now, storage>>
  BY <1>1 DEF Export, MasterTypeOK, vars, rvars
<1>3. \A v \in ToSet(Order) : Done(m, v)
  <2>1. Len(Order) \in Nat /\ DOMAIN Order = 1..Len(Order)
    BY MasterAssumption
  <2>2. \A h \in 1..Len(Order) : Done(m, Order[h])
    BY <2>1 DEF Export, Turn
  <2> QED
    BY <2>1, <2>2 DEF ToSet
<1>4. ASSUME storage[m] # Postgres, NEW v \in ToSet(Order)
      PROVE  exported'[m][v] = count[<<m, v>>].stored
  <2>1. at[<<m, v>>] = m
    BY <1>1, <1>3, <1>4 DEF Done, MasterTypeOK
  <2>2. Rows(m, v) = Cardinality(Shelf(m, v))
    BY <1>4 DEF Rows, Shelf
  <2> QED
    BY <1>1, <1>2, <2>1, <2>2 DEF Shelves, PipelineCount
<1>5. ASSUME storage[m] # Postgres PROVE audited'[m] <= Cardinality(Aged(m))
  <2>1. Violations(m) \subseteq Aged(m) /\ IsFiniteSet(Aged(m))
    BY <1>1, AuditFindsAged
  <2>2. Cardinality(Violations(m)) <= Cardinality(Aged(m))
    BY <2>1, FS_Subset
  <2> QED
    BY <1>2, <1>5, <2>2 DEF Audited
<1>6. Cardinality(Aged(m))' = Cardinality(Aged(m))
  BY <1>2 DEF Aged, Stored
<1> QED
  BY <1>2, <1>3, <1>4, <1>5, <1>6 DEF Closed, Done

\* After it, the clock may make more records old, and that is all.
LEMMA ClosedStays ==
  ASSUME ReportInv, [Next]_vars, NEW m \in Master, phase[m] \in {"exported", "completed"},
         exported'[m] = exported[m], audited'[m] = audited[m], storage'[m] = storage[m]
  PROVE  Closed(m)'
<1>1. /\ MasterInv /\ OrderInv /\ StoredFresh /\ MasterTypeOK /\ TypeOK /\ Closed(m)
  BY DEF ReportInv, MasterInv, MasterTypeOK
<1>2. \A v \in ToSet(Order) : Done(m, v) /\ <<m, v>> \in Run
  BY <1>1, InOrder DEF Closed
<1>3. \A v \in ToSet(Order) : /\ Done(m, v)' /\ cutoff'[<<m, v>>] = cutoff[<<m, v>>]
                              /\ count'[<<m, v>>] = count[<<m, v>>]
  BY <1>1, <1>2, DoneStays DEF Done
<1>4. \A k \in Key : records'[m][k] = records[m][k]
  BY <1>1, <1>2, MemoryStays
<1>5. now \in Nat /\ now' \in Nat /\ now <= now' /\ Hours \in Nat
  <2>1. now \in Nat /\ (now' = now \/ now' = now + 1)
    BY <1>1 DEF TypeOK, Next, Step, Mishap, Start, Fetch, RejectStale, SkipDuplicate,
       RejectInvalid, Accept, Write, StoreRecord, StoreRefused, Complete, WriteRaises,
       StoreRaises, Abort, Tick, vars
  <2> QED
    BY <2>1, IngestAssumption
<1>6. ASSUME storage[m] # Postgres PROVE Aged(m) \subseteq Aged(m)'
  <2> SUFFICES ASSUME NEW k \in Aged(m) PROVE k \in Aged(m)'
    OBVIOUS
  <2>1. PICK c : c = records[m][k]
    OBVIOUS
  <2>2. /\ k \in Key /\ c # NoRecord /\ TypeOf[c] \in {"news", "jobs"}
        /\ cutoff[<<m, TypeOf[c]>>] <= Posted[c] /\ Posted[c] < now - Hours
    BY <2>1 DEF Aged, Stored
  <2>3. c \in Candidate /\ Posted[c] \in Int
    BY <1>1, <2>1, <2>2, MasterAssumption, IngestAssumption DEF TypeOK
  <2>4. Posted[c] < now' - Hours
    BY <1>5, <2>2, <2>3
  <2>5. TypeOf[c] \in ToSet(Order)
    <3>1. m \in Store /\ m # Postgres
      BY MasterAssumption
    <3>2. PICK r \in Run : at[r] = m /\ VerticalOf[r] = TypeOf[c] /\ c \in ToSet(got[r])
      BY <1>1, <2>1, <2>2, <3>1 DEF StoredFresh, RunsOn, Stored
    <3> QED
      BY <1>1, <3>2, Own
  <2>6. cutoff'[<<m, TypeOf[c]>>] <= Posted[c]
    BY <1>3, <2>2, <2>5
  <2> QED
    BY <1>4, <2>1, <2>2, <2>4, <2>6 DEF Aged, Stored
<1>7. ASSUME storage[m] # Postgres PROVE audited[m] <= Cardinality(Aged(m)')
  <2>2. TypeInv /\ Finite
    BY <1>1 DEF MasterInv
  <2>3. IsFiniteSet(Stored(m)')
    BY <2>2, StoredFinite, MasterAssumption DEF Finite
  <2>4. IsFiniteSet(Aged(m)')
    <3>1. Aged(m)' \subseteq Stored(m)'
      BY DEF Aged
    <3> QED
      BY <2>3, <3>1, FS_Subset
  <2>5. /\ Cardinality(Aged(m)) \in Nat /\ Cardinality(Aged(m)') \in Nat
        /\ Cardinality(Aged(m)) <= Cardinality(Aged(m)')
    <3>1. IsFiniteSet(Aged(m))
      BY <1>1, AuditFindsAged
    <3> QED
      BY <1>6, <1>7, <2>4, <3>1, FS_Subset, FS_CardinalityType
  <2>6. audited[m] \in Nat /\ audited[m] <= Cardinality(Aged(m))
    BY <1>1, <1>7 DEF Closed, MasterTypeOK
  <2> QED
    BY <2>5, <2>6
<1> QED
  BY <1>1, <1>3, <1>7 DEF Closed

LEMMA StepReported == ReportInv /\ [MasterNext]_<<vars, mvars>> => ReportInv'
<1> SUFFICES ASSUME ReportInv, [MasterNext]_<<vars, mvars>> PROVE ReportInv'
  OBVIOUS
<1>1. MasterInv /\ OrderInv /\ StoredFresh /\ Keyed /\ Shelves /\ MasterTypeOK
  BY DEF ReportInv, MasterInv
<1>2. [Next]_vars
  BY <1>1, MasterStepIsStep
<1>3. MasterInv' /\ OrderInv' /\ StoredFresh' /\ Keyed'
  BY <1>1, <1>2, StepMastered, StepOrdered, StepFresh, StepKeyed
<1>4. Shelves'
  BY <1>1, <1>2, StoreShelves, OthersShelves
<1>5. ASSUME NEW m \in Master PROVE Closed(m)'
  <2>1. CASE Export(m)
    BY <2>1, ExportCloses
  <2>2. CASE ~Export(m) /\ phase'[m] \in {"exported", "completed"}
    <3>1. /\ phase[m] \in {"exported", "completed"} /\ storage'[m] = storage[m]
          /\ exported'[m] = exported[m] /\ audited'[m] = audited[m]
      BY <1>1, <2>2 DEF MasterTypeOK, MasterNext, MasterStep, Begin, Ingest, RunStep, Export,
         Finish, Propagate, Raise, Fall, mvars
    <3> QED
      BY <1>2, <3>1, ClosedStays
  <2>3. CASE phase'[m] \notin {"exported", "completed"}
    BY <2>3 DEF Closed
  <2> QED
    BY <2>1, <2>2, <2>3
<1> QED
  BY <1>3, <1>4, <1>5 DEF ReportInv

LEMMA InitReported == MasterInit => ReportInv
<1> SUFFICES ASSUME MasterInit PROVE ReportInv
  OBVIOUS
<1>1. MasterInv /\ OrderInv
  BY InitMastered, InitOrdered DEF MasterInit
<1>2. \A s \in Store : Stored(s) = {}
  BY DEF MasterInit, Init, Stored
<1>3. StoredFresh /\ Keyed
  BY <1>2 DEF StoredFresh, Keyed, Stored
<1>4. Shelves
  <2> SUFFICES ASSUME NEW m \in Master, NEW v \in ToSet(Order)
               PROVE  Cardinality(Shelf(m, v)) = PipelineCount(m, v)
    BY DEF Shelves
  <2>1. Shelf(m, v) = {}
    BY <1>2, MasterAssumption DEF Shelf
  <2>2. <<m, v>> \in Run /\ at[<<m, v>>] = Postgres /\ m # Postgres
    BY InOrder, MasterAssumption DEF MasterInit, Init
  <2> QED
    BY <2>1, <2>2, FS_EmptySet DEF PipelineCount
<1>5. \A m \in Master : Closed(m)
  BY DEF MasterInit, Closed
<1> QED
  BY <1>1, <1>3, <1>4, <1>5 DEF ReportInv

\* The manifest of a run in memory is exact: for every type it exports as many
\* records as the pipeline has counted, whatever was replaced, refused or cut
\* off on the way, and every violation that its audit reports is a record that
\* was fresh when its pipeline began.
THEOREM ManifestIsExact == MasterSpec => []ExportMatchesCounts
<1>1. ReportInv => ExportMatchesCounts
  BY DEF ReportInv, Closed, ExportMatchesCounts, RowsMatchCounts, ViolationsHaveAged, Aged
<1> QED
  BY <1>1, InitReported, StepReported, PTL DEF MasterSpec

\* No pipeline of a master run loses a fresh name quietly: it has counted a
\* failure for every name of which nothing is stored.
THEOREM MasterLosesNothing == MasterSpec => []NothingLostQuietly
  BY MasterImplementsIngest, NothingIsLost, PTL

\* The counts that all runs of all master runs report on a repository add up to
\* what it holds, the rows of its typed tables or its records in memory, up to
\* those that a fault has left uncounted.
THEOREM MasterCountsAddUp == MasterSpec => []CountsAddUp
  BY MasterImplementsIngest, CountsAreRight, PTL
=============================================================================

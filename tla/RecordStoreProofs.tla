-------------------------- MODULE RecordStoreProofs --------------------------
(***************************************************************************)
(* Theorems about RecordStore, for any number of clients, records, keys and *)
(* rows, any pool and any number of faults.                                 *)
(***************************************************************************)
EXTENDS RecordStore, FiniteSetTheorems, TLAPS

\* Types, without the counters.
TablesOK ==
  /\ canon \in [Key -> Record \cup {NoRecord}]
  /\ child \in [Row -> RowType]
ClientsOK ==
  /\ pc \in [Client -> {"idle", "next"} \cup InTransaction]
  /\ left \in [Client -> Seq(Record)]
  /\ \A c \in Client : pc[c] = "idle" <=> left[c] = <<>>

\* Nothing is held by two clients.
LocksOK == \A c, d \in Client :
  \/ c = d
  \/ /\ HoldsKey(c) /\ HoldsKey(d) => MyKey(c) # MyKey(d)
     /\ HoldsRow(c) /\ HoldsRow(d) => MyRow(c) # MyRow(d)

\* What the second statement has found out is still so when its transaction
\* takes effect: no other row bears its id, and its row is there or is not.
WrittenOK == \A c \in Client : Written(c) => ~BreaksPrimaryKey(c)
FreshOK == \A c \in Client : /\ pc[c] = "inserted" => child[MyRow(c)] = NoRow
                             /\ pc[c] = "updated" => child[MyRow(c)] # NoRow

Filled == {u \in Row : child[u] # NoRow}
CountsOK == /\ told \in Nat /\ faults \in 0..MaxFaults
            /\ IsFiniteSet(Filled)
            /\ told <= Cardinality(Filled)
            /\ faults = 0 => told = Cardinality(Filled)

StoreInv == TablesOK /\ ClientsOK /\ LocksOK /\ WrittenOK /\ FreshOK /\ RowsAgree /\ CountsOK

\* What other clients have in hand.
OthersStay(c) == \A d \in Client \ {c} : pc'[d] = pc[d] /\ left'[d] = left[d]

----------------------------------------------------------------------------
\* Lemmas about the steps of one client.

\* A client that is not idle has a record in hand.
LEMMA InHand ==
  ASSUME ClientsOK, NEW c \in Client, pc[c] # "idle"
  PROVE  /\ left[c] \in Seq(Record) /\ Tail(left[c]) \in Seq(Record)
         /\ Current(c) \in Record /\ MyKey(c) \in Key /\ MyRow(c) \in Row
         /\ MyKey(c) = KeyOf[Current(c)] /\ MyRow(c) = RowOf[Current(c)]
<1>1. left[c] \in Seq(Record) /\ left[c] # <<>>
  BY DEF ClientsOK
<1>2. Head(left[c]) \in Record /\ Tail(left[c]) \in Seq(Record)
  BY <1>1
<1> QED
  BY <1>1, <1>2, StoreAssumption DEF Current, MyKey, MyRow, StoreAssumption

\* The others do not notice that a client takes up other records; it holds
\* nothing afterwards.
LEMMA ContinueKeeps ==
  ASSUME ClientsOK, NEW c \in Client, NEW rest \in Seq(Record), Continue(c, rest)
  PROVE  ClientsOK' /\ pc'[c] \in {"idle", "next"} /\ OthersStay(c)
  BY DEF ClientsOK, Continue, OthersStay

\* The same after an exception.
LEMMA RaisedKeeps ==
  ASSUME ClientsOK, NEW c \in Client, pc[c] # "idle", Raised(c)
  PROVE  ClientsOK' /\ pc'[c] \in {"idle", "next"} /\ OthersStay(c)
<1>1. PICK rest \in Seq(Record) : Continue(c, rest)
  <2>1. Tail(left[c]) \in Seq(Record) /\ <<>> \in Seq(Record)
    BY InHand
  <2> QED
    BY <2>1 DEF Raised
<1> QED
  BY <1>1, ContinueKeeps

\* A client that holds nothing more disturbs none of the others.
LEMMA LetGo ==
  ASSUME LocksOK, WrittenOK, FreshOK, NEW c \in Client,
         pc'[c] \in {"idle", "next", "connected"}, child' = child, OthersStay(c)
  PROVE  LocksOK' /\ WrittenOK' /\ FreshOK'
<1>1. ~HoldsKey(c)' /\ ~HoldsRow(c)' /\ ~Written(c)'
  BY DEF HoldsKey, HoldsRow, Written
<1>2. \A d \in Client \ {c} : /\ HoldsKey(d)' = HoldsKey(d) /\ HoldsRow(d)' = HoldsRow(d)
                              /\ Written(d)' = Written(d)
                              /\ MyKey(d)' = MyKey(d) /\ MyRow(d)' = MyRow(d)
                              /\ BreaksPrimaryKey(d)' = BreaksPrimaryKey(d)
  BY DEF OthersStay, HoldsKey, HoldsRow, Written, MyKey, MyRow, Current, BreaksPrimaryKey
<1>3. LocksOK'
  BY <1>1, <1>2 DEF LocksOK
<1>4. WrittenOK'
  BY <1>1, <1>2 DEF WrittenOK
<1>5. FreshOK'
  BY <1>2 DEF FreshOK, OthersStay
<1> QED
  BY <1>3, <1>4, <1>5

\* A client goes from one statement to the next, with the same record.
LEMMA Onward ==
  ASSUME ClientsOK, NEW c \in Client, NEW p \in InTransaction, pc[c] # "idle",
         pc' = [pc EXCEPT ![c] = p], left' = left
  PROVE  /\ ClientsOK' /\ pc'[c] = p /\ OthersStay(c)
         /\ \A d \in Client : MyKey(d)' = MyKey(d) /\ MyRow(d)' = MyRow(d)
  BY DEF ClientsOK, OthersStay, MyKey, MyRow, Current, InTransaction

----------------------------------------------------------------------------
\* A transaction takes effect.

\* It changes its row and nothing else of the second table, and the kept column
\* comes from a record of the row.
LEMMA CommitsRow ==
  ASSUME TablesOK, ClientsOK, FreshOK, RowsAgree, NEW c \in Client, Written(c), Commits(c)
  PROVE  /\ child'[MyRow(c)] = [key |-> MyKey(c), rec |-> Current(c), kept |-> Kept(c)]
         /\ child'[MyRow(c)].key = MyKey(c) /\ child'[MyRow(c)].rec = Current(c)
         /\ child'[MyRow(c)].kept = Kept(c)
         /\ \A u \in Row : u # MyRow(c) => child'[u] = child[u]
         /\ canon'[MyKey(c)] = Current(c)
         /\ \A k \in Key : k # MyKey(c) => canon'[k] = canon[k]
         /\ Kept(c) \in Record /\ RowOf[Kept(c)] = MyRow(c)
         /\ child'[MyRow(c)] # NoRow
         /\ TablesOK'
<1>1. /\ Current(c) \in Record /\ MyKey(c) \in Key /\ MyRow(c) \in Row
      /\ MyRow(c) = RowOf[Current(c)]
  BY InHand DEF Written
<1>2. Kept(c) \in Record /\ RowOf[Kept(c)] = MyRow(c)
  <2>1. CASE Kept(c) = Current(c)
    BY <1>1, <2>1
  <2>2. CASE pc[c] = "updated" /\ Kept(c) = child[MyRow(c)].kept
    <3>1. child[MyRow(c)] # NoRow
      BY <2>2 DEF FreshOK
    <3> QED
      BY <1>1, <2>2, <3>1 DEF RowsAgree
  <2> QED
    BY <2>1, <2>2 DEF Kept
<1>3. /\ canon' = [canon EXCEPT ![MyKey(c)] = Current(c)]
      /\ child' = [child EXCEPT ![MyRow(c)] =
                     [key |-> MyKey(c), rec |-> Current(c), kept |-> Kept(c)]]
  BY DEF Commits
<1>4. /\ canon \in [Key -> Record \cup {NoRecord}]
      /\ child \in [Row -> RowType]
  BY DEF TablesOK
<1>5. [key |-> MyKey(c), rec |-> Current(c), kept |-> Kept(c)] \in RowType
  BY <1>1, <1>2 DEF RowType
<1>6. TablesOK'
  BY <1>1, <1>3, <1>4, <1>5 DEF TablesOK
<1>7. child'[MyRow(c)] = [key |-> MyKey(c), rec |-> Current(c), kept |-> Kept(c)]
  BY <1>1, <1>3, <1>4
<1>8. child'[MyRow(c)] # NoRow
  BY <1>1, <1>7, StoreAssumption DEF NoRow, StoreAssumption
<1> QED
  BY <1>1, <1>2, <1>3, <1>4, <1>6, <1>7, <1>8

\* The others still hold what they hold, and what their second statements have
\* found out stays true.
LEMMA CommitsLeavesOthers ==
  ASSUME TablesOK, ClientsOK, LocksOK, WrittenOK, FreshOK, RowsAgree,
         NEW c \in Client, Written(c), Commits(c), pc'[c] \in {"idle", "next"}, OthersStay(c)
  PROVE  LocksOK' /\ WrittenOK' /\ FreshOK'
<1>1. ~HoldsKey(c)' /\ ~HoldsRow(c)' /\ ~Written(c)'
  BY DEF HoldsKey, HoldsRow, Written
<1>2. \A d \in Client \ {c} : /\ HoldsKey(d)' = HoldsKey(d) /\ HoldsRow(d)' = HoldsRow(d)
                              /\ Written(d)' = Written(d) /\ pc'[d] = pc[d]
                              /\ MyKey(d)' = MyKey(d) /\ MyRow(d)' = MyRow(d)
  BY DEF OthersStay, HoldsKey, HoldsRow, Written, MyKey, MyRow, Current
<1>3. LocksOK'
  BY <1>1, <1>2 DEF LocksOK
<1>4. \A d \in Client \ {c} : Written(d) => MyKey(d) # MyKey(c) /\ MyRow(d) # MyRow(c)
  BY DEF LocksOK, HoldsKey, HoldsRow, Written
<1>5. WrittenOK'
  <2> SUFFICES ASSUME NEW d \in Client, Written(d)', NEW u \in Row, u # MyRow(d)',
                      child'[u].key = MyKey(d)'
               PROVE  FALSE
    BY DEF WrittenOK, BreaksPrimaryKey
  <2>1. d # c /\ Written(d) /\ MyRow(d)' = MyRow(d) /\ MyKey(d)' = MyKey(d)
    BY <1>1, <1>2
  <2>2. CASE u = MyRow(c)
    <3>1. child'[u].key = MyKey(c)
      BY <2>2, CommitsRow
    <3> QED
      BY <1>4, <2>1, <3>1
  <2>3. CASE u # MyRow(c)
    <3>1. child'[u] = child[u]
      BY <2>3, CommitsRow
    <3> QED
      BY <2>1, <3>1 DEF WrittenOK, BreaksPrimaryKey
  <2> QED
    BY <2>2, <2>3
<1>6. FreshOK'
  <2> SUFFICES ASSUME NEW d \in Client, Written(d)'
               PROVE  child'[MyRow(d)'] = child[MyRow(d)] /\ pc'[d] = pc[d]
    BY <1>1, <1>2 DEF FreshOK, Written
  <2>1. d # c /\ Written(d) /\ MyRow(d)' = MyRow(d) /\ MyRow(d) \in Row
    BY <1>1, <1>2, InHand DEF Written
  <2> QED
    BY <1>2, <1>4, <2>1, CommitsRow
<1> QED
  BY <1>3, <1>5, <1>6

\* No row but its own refers to the canonical record it replaces.
LEMMA CommitsAgrees ==
  ASSUME TablesOK, ClientsOK, WrittenOK, FreshOK, RowsAgree,
         NEW c \in Client, Written(c), Commits(c)
  PROVE  RowsAgree'
<1>0. /\ Current(c) \in Record /\ MyKey(c) \in Key /\ MyRow(c) \in Row
      /\ MyKey(c) = KeyOf[Current(c)] /\ MyRow(c) = RowOf[Current(c)]
  BY InHand DEF Written
<1>1. \A v \in Row : v # MyRow(c) => child[v].key # MyKey(c)
  BY DEF WrittenOK, BreaksPrimaryKey
<1> SUFFICES ASSUME NEW u \in Row, child'[u] # NoRow
             PROVE  /\ child'[u].rec \in Record /\ RowOf[child'[u].rec] = u
                    /\ KeyOf[child'[u].rec] = child'[u].key
                    /\ canon'[child'[u].key] \in {child'[u].rec} \cup Untyped
                    /\ child'[u].kept \in Record /\ RowOf[child'[u].kept] = u
                    /\ \A v \in Row \ {u} : child'[v].key # child'[u].key
  BY DEF RowsAgree
<1>2. CASE u = MyRow(c)
  <2>1. /\ child'[u].key = MyKey(c) /\ child'[u].rec = Current(c) /\ child'[u].kept = Kept(c)
        /\ canon'[MyKey(c)] = Current(c)
        /\ Kept(c) \in Record /\ RowOf[Kept(c)] = u
    BY <1>2, CommitsRow
  <2>2. \A v \in Row \ {u} : child'[v].key # MyKey(c)
    BY <1>1, <1>2, CommitsRow
  <2> QED
    BY <1>0, <1>2, <2>1, <2>2
<1>3. CASE u # MyRow(c)
  <2>1. child'[u] = child[u] /\ child[u].key # MyKey(c)
    BY <1>1, <1>3, CommitsRow
  <2>2. /\ child[u].rec \in Record /\ RowOf[child[u].rec] = u
        /\ KeyOf[child[u].rec] = child[u].key
        /\ canon[child[u].key] \in {child[u].rec} \cup Untyped
        /\ child[u].kept \in Record /\ RowOf[child[u].kept] = u
        /\ \A v \in Row \ {u} : child[v].key # child[u].key
    BY <2>1 DEF RowsAgree
  <2>3. child[u].key \in Key
    BY <2>2, StoreAssumption DEF StoreAssumption
  <2>4. canon'[child[u].key] = canon[child[u].key]
    BY <2>1, <2>3, CommitsRow
  <2>5. \A v \in Row \ {u} : child'[v].key # child[u].key
    <3> TAKE v \in Row \ {u}
    <3>1. CASE v = MyRow(c)
      <4>1. child'[v].key = MyKey(c)
        BY <3>1, CommitsRow
      <4> QED
        BY <2>1, <4>1
    <3>2. CASE v # MyRow(c)
      BY <2>2, <3>2, CommitsRow
    <3> QED
      BY <3>1, <3>2
  <2> QED
    BY <2>1, <2>2, <2>4, <2>5
<1> QED
  BY <1>2, <1>3

\* It fills its row, if it was not there.
LEMMA CommitFills ==
  ASSUME TablesOK, ClientsOK, FreshOK, RowsAgree, CountsOK,
         NEW c \in Client, Written(c), Commits(c)
  PROVE  /\ IsFiniteSet(Filled')
         /\ Cardinality(Filled') \in Nat /\ Cardinality(Filled) \in Nat
         /\ Cardinality(Filled') =
              Cardinality(Filled) + IF pc[c] = "inserted" THEN 1 ELSE 0
<1>1. MyRow(c) \in Row /\ TablesOK
  BY InHand DEF Written
<1>2. Filled' = Filled \cup {MyRow(c)}
  BY <1>1, CommitsRow DEF Filled
<1>3. pc[c] = "inserted" <=> MyRow(c) \notin Filled
  BY <1>1 DEF Filled, FreshOK, Written
<1>4. IsFiniteSet(Filled) /\ Cardinality(Filled) \in Nat
  BY FS_CardinalityType DEF CountsOK
<1>5. /\ IsFiniteSet(Filled')
      /\ Cardinality(Filled') = IF MyRow(c) \in Filled THEN Cardinality(Filled)
                                ELSE Cardinality(Filled) + 1
  BY <1>2, <1>4, FS_AddElement
<1> QED
  BY <1>3, <1>4, <1>5

----------------------------------------------------------------------------
\* The invariant is inductive.

\* At first the tables are empty and nobody holds anything.
LEMMA StoreInitially == ASSUME Init PROVE StoreInv
<1>1. TablesOK /\ ClientsOK
  BY DEF Init, TablesOK, ClientsOK, NoRow, RowType
<1>2. LocksOK /\ WrittenOK /\ FreshOK
  BY DEF Init, LocksOK, WrittenOK, FreshOK, HoldsKey, HoldsRow, Written
<1>3. RowsAgree
  BY DEF Init, RowsAgree
<1>4. CountsOK
  <2>1. Filled = {}
    BY DEF Init, Filled
  <2> QED
    BY <2>1, FS_EmptySet, StoreAssumption DEF Init, CountsOK, StoreAssumption
<1> QED
  BY <1>1, <1>2, <1>3, <1>4 DEF StoreInv

\* Where the tables stay, the clients and their locks are all there is to look at.
LEMMA TablesStay ==
  ASSUME StoreInv, canon' = canon, child' = child, told' = told,
         faults' = faults \/ (faults < MaxFaults /\ faults' = faults + 1),
         ClientsOK', LocksOK', WrittenOK', FreshOK'
  PROVE  StoreInv'
<1>1. TablesOK' /\ RowsAgree'
  BY DEF StoreInv, TablesOK, RowsAgree
<1>2. CountsOK'
  <2>1. Filled' = Filled
    BY DEF Filled
  <2> QED
    BY <2>1, StoreAssumption DEF StoreInv, CountsOK, StoreAssumption
<1> QED
  BY <1>1, <1>2 DEF StoreInv

\* Asking for a batch and taking a connection.
LEMMA BeforeStatements ==
  ASSUME StoreInv, NEW c \in Client, (\E batch \in Batch : Ask(c, batch)) \/ Acquire(c)
  PROVE  StoreInv'
<1>1. UNCHANGED <<canon, child, told, faults>>
  BY DEF Ask, Acquire
<1>2. ClientsOK' /\ pc'[c] \in {"next", "connected"} /\ OthersStay(c)
  <2>1. ASSUME NEW batch \in Batch, Ask(c, batch)
        PROVE  ClientsOK' /\ pc'[c] \in {"next", "connected"} /\ OthersStay(c)
    <3>1. batch \in Seq(Record) /\ batch # <<>>
      BY StoreAssumption DEF StoreAssumption
    <3> QED
      BY <2>1, <3>1 DEF Ask, StoreInv, ClientsOK, OthersStay
  <2>2. CASE Acquire(c)
    BY <2>2, Onward DEF Acquire, StoreInv, InTransaction
  <2> QED
    BY <2>1, <2>2
<1>3. LocksOK' /\ WrittenOK' /\ FreshOK'
  BY <1>1, <1>2, LetGo DEF StoreInv
<1> QED
  BY <1>1, <1>2, <1>3, TablesStay

\* The first statement, and the lock of the second one.
LEMMA Locking ==
  ASSUME StoreInv, NEW c \in Client, UpsertCanonical(c) \/ LockRow(c)
  PROVE  StoreInv'
<1>1. UNCHANGED <<canon, child, told, faults>>
  BY DEF UpsertCanonical, LockRow
<1>2. PICK p \in {"canonical", "locked"} :
        /\ pc' = [pc EXCEPT ![c] = p] /\ left' = left /\ pc[c] # "idle"
        /\ p = "canonical" => ~KeyLocked(MyKey(c), c)
        /\ p = "locked" => pc[c] = "canonical" /\ ~RowLocked(MyRow(c), c)
  BY DEF UpsertCanonical, LockRow
<1>3. /\ ClientsOK' /\ pc'[c] = p /\ OthersStay(c)
      /\ \A d \in Client : MyKey(d)' = MyKey(d) /\ MyRow(d)' = MyRow(d)
  BY <1>2, Onward DEF StoreInv, InTransaction
<1>4. \A d \in Client \ {c} : /\ HoldsKey(d)' = HoldsKey(d) /\ HoldsRow(d)' = HoldsRow(d)
                              /\ Written(d)' = Written(d) /\ pc'[d] = pc[d]
  BY <1>3 DEF OthersStay, HoldsKey, HoldsRow, Written
<1>5. /\ ~Written(c)'
      /\ HoldsRow(c)' <=> p = "locked"
      /\ p = "locked" => HoldsKey(c)
  BY <1>2, <1>3 DEF Written, HoldsRow, HoldsKey
<1>6. \A d \in Client \ {c} :
        /\ HoldsKey(d) => MyKey(d) # MyKey(c)
        /\ HoldsRow(d) /\ p = "locked" => MyRow(d) # MyRow(c)
  BY <1>2, <1>5 DEF StoreInv, LocksOK, KeyLocked, RowLocked
<1>7. LocksOK'
  BY <1>3, <1>4, <1>5, <1>6 DEF StoreInv, LocksOK
<1>8. WrittenOK'
  BY <1>1, <1>3, <1>4, <1>5 DEF StoreInv, WrittenOK, BreaksPrimaryKey
<1>9. FreshOK'
  BY <1>1, <1>3, <1>4 DEF StoreInv, FreshOK
<1> QED
  BY <1>1, <1>3, <1>7, <1>8, <1>9, TablesStay

\* The second statement goes through.
LEMMA SecondStatement ==
  ASSUME StoreInv, NEW c \in Client, UpsertChild(c), ~BreaksPrimaryKey(c)
  PROVE  StoreInv'
<1>1. UNCHANGED <<canon, child, told, faults>>
  BY DEF UpsertChild
<1>2. PICK p \in {"inserted", "updated"} :
        /\ pc' = [pc EXCEPT ![c] = p] /\ left' = left /\ pc[c] = "locked"
        /\ p = "inserted" <=> child[MyRow(c)] = NoRow
  BY DEF UpsertChild, Fresh
<1>3. /\ ClientsOK' /\ pc'[c] = p /\ OthersStay(c)
      /\ \A d \in Client : MyKey(d)' = MyKey(d) /\ MyRow(d)' = MyRow(d)
  BY <1>2, Onward DEF StoreInv, InTransaction
<1>4. \A d \in Client : /\ HoldsKey(d)' = HoldsKey(d) /\ HoldsRow(d)' = HoldsRow(d)
                        /\ d # c => Written(d)' = Written(d) /\ pc'[d] = pc[d]
  BY <1>2, <1>3 DEF OthersStay, HoldsKey, HoldsRow, Written
<1>5. LocksOK'
  BY <1>3, <1>4 DEF StoreInv, LocksOK
<1>6. WrittenOK'
  BY <1>1, <1>3, <1>4 DEF StoreInv, WrittenOK, BreaksPrimaryKey
<1>7. FreshOK'
  BY <1>1, <1>2, <1>3, <1>4 DEF StoreInv, FreshOK
<1> QED
  BY <1>1, <1>3, <1>5, <1>6, <1>7, TablesStay

\* A broken primary key, a deadlock and a lost connection: a rolled back
\* transaction leaves both tables as they were.
LEMMA Failing ==
  ASSUME StoreInv, NEW c \in Client,
         (UpsertChild(c) /\ BreaksPrimaryKey(c)) \/ BreakDeadlock(c) \/ Abort(c)
  PROVE  StoreInv'
<1>1. /\ UNCHANGED <<canon, child, told>> /\ Raised(c) /\ pc[c] # "idle"
      /\ faults' = faults \/ (faults < MaxFaults /\ faults' = faults + 1)
  BY DEF UpsertChild, BreakDeadlock, Deadlocked, Abort, Fails, RolledBack, Connected, InTransaction
<1>2. ClientsOK' /\ pc'[c] \in {"idle", "next"} /\ OthersStay(c)
  BY <1>1, RaisedKeeps DEF StoreInv
<1>3. LocksOK' /\ WrittenOK' /\ FreshOK'
  BY <1>1, <1>2, LetGo DEF StoreInv
<1> QED
  BY <1>1, <1>2, <1>3, TablesStay

\* The end of a transaction, whether or not its client hears of it.
LEMMA EndOfTransaction ==
  ASSUME StoreInv, NEW c \in Client, Commit(c) \/ CommitUnheard(c)
  PROVE  StoreInv'
<1>1. /\ Written(c) /\ Commits(c) /\ pc[c] # "idle"
      /\ TablesOK /\ ClientsOK /\ LocksOK /\ WrittenOK /\ FreshOK /\ RowsAgree /\ CountsOK
  BY DEF Commit, CommitUnheard, Written, StoreInv
<1>2. ClientsOK' /\ pc'[c] \in {"idle", "next"} /\ OthersStay(c)
  <2>1. CASE Commit(c)
    BY <1>1, <2>1, InHand, ContinueKeeps DEF Commit
  <2>2. CASE CommitUnheard(c)
    BY <1>1, <2>2, RaisedKeeps DEF CommitUnheard
  <2> QED
    BY <2>1, <2>2
<1>3. LocksOK' /\ WrittenOK' /\ FreshOK'
  BY <1>1, <1>2, CommitsLeavesOthers
<1>4. RowsAgree'
  BY <1>1, CommitsAgrees
<1>5. TablesOK'
  BY <1>1, CommitsRow
<1>6. CountsOK'
  <2>1. /\ IsFiniteSet(Filled')
        /\ Cardinality(Filled') \in Nat /\ Cardinality(Filled) \in Nat
        /\ Cardinality(Filled') =
             Cardinality(Filled) + IF pc[c] = "inserted" THEN 1 ELSE 0
    BY <1>1, CommitFills
  <2>2. CASE Commit(c)
    BY <1>1, <2>1, <2>2 DEF Commit, Counted, CountsOK
  <2>3. CASE CommitUnheard(c)
    BY <1>1, <2>1, <2>3, StoreAssumption DEF CommitUnheard, CountsOK, StoreAssumption
  <2> QED
    BY <2>2, <2>3
<1> QED
  BY <1>2, <1>3, <1>4, <1>5, <1>6 DEF StoreInv

\* upsert_record touches no row of the typed table and no lock.
LEMMA CanonicalAlone ==
  ASSUME StoreInv, NEW c \in Client, NEW r \in Record, UpsertRecord(c, r)
  PROVE  StoreInv'
<1>1. /\ canon' = [canon EXCEPT ![KeyOf[r]] = r] /\ KeyOf[r] \in Key /\ r \in Untyped
      /\ UNCHANGED <<child, pc, left, told, faults>>
  BY StoreAssumption DEF UpsertRecord, StoreAssumption
<1>2. TablesOK' /\ ClientsOK' /\ CountsOK'
  BY <1>1 DEF StoreInv, TablesOK, ClientsOK, CountsOK, Filled
<1>3. LocksOK' /\ WrittenOK' /\ FreshOK'
  BY <1>1 DEF StoreInv, LocksOK, WrittenOK, FreshOK, HoldsKey, HoldsRow, Written,
              BreaksPrimaryKey, MyKey, MyRow, Current
<1>4. RowsAgree'
  <2>1. \A k \in Key : canon'[k] = canon[k] \/ canon'[k] \in Untyped
    BY <1>1 DEF StoreInv, TablesOK
  <2>2. \A u \in Row : child[u] # NoRow => child[u].key \in Key
    BY StoreAssumption DEF StoreInv, RowsAgree, StoreAssumption
  <2> QED
    BY <1>1, <2>1, <2>2 DEF StoreInv, RowsAgree
<1> QED
  BY <1>2, <1>3, <1>4 DEF StoreInv

\* Every step keeps the invariant.
LEMMA StoreStep == ASSUME StoreInv, [Next]_vars PROVE StoreInv'
<1>1. CASE UNCHANGED vars
  BY <1>1 DEF vars, StoreInv, TablesOK, ClientsOK, LocksOK, WrittenOK, FreshOK, RowsAgree,
              CountsOK, Filled, HoldsKey, HoldsRow, Written, BreaksPrimaryKey, MyKey, MyRow,
              Current
<1>2. CASE Next
  BY <1>2, BeforeStatements, Locking, SecondStatement, Failing, EndOfTransaction,
     CanonicalAlone DEF Next, Step
<1> QED
  BY <1>1, <1>2

LEMMA StoreInvariant == Spec => []StoreInv
<1>1. Init => StoreInv
  BY StoreInitially
<1>2. StoreInv /\ [Next]_vars => StoreInv'
  BY StoreStep
<1> QED
  BY <1>1, <1>2, PTL DEF Spec

----------------------------------------------------------------------------
\* What follows from it.

\* Every variable has its type, and a client is idle exactly when no record of
\* its batch is left.
THEOREM TypeCorrect == Spec => []TypeOK
<1>1. StoreInv => TypeOK
  BY DEF StoreInv, TablesOK, ClientsOK, CountsOK, TypeOK
<1> QED
  BY <1>1, StoreInvariant, PTL

\* Whatever upserts run side by side, move rows between canonical records,
\* break the primary key, wait for each other for ever or lose their connection
\* before or after COMMIT: a row of the typed table has a canonical record to
\* itself, whose natural key is its own record's, and shows what that holds,
\* unless upsert_record has put something else there; the columns an update
\* keeps come from a record of the same row.
THEOREM TablesAgree == Spec => []RowsAgree
<1>1. StoreInv => RowsAgree
  BY DEF StoreInv
<1> QED
  BY <1>1, StoreInvariant, PTL

\* Upserts that race for a new row, are refused, cut off or never heard of: the
\* number of upserts that told their caller the row is new never exceeds the
\* number of rows, and is that number as long as nothing was cut off.
THEOREM CountsRowsOnce == Spec => []CountedOnce
<1>1. StoreInv => CountedOnce
  BY DEF StoreInv, CountsOK, Filled, CountedOnce
<1> QED
  BY <1>1, StoreInvariant, PTL

\* The two actions that change the typed table are the ends of transactions.
LEMMA OnlyCommits ==
  ASSUME StoreInv, [Next]_vars, child' # child
  PROVE  \E c \in Client : Commit(c) \/ CommitUnheard(c)
  BY DEF Next, Step, vars, Ask, Acquire, UpsertCanonical, LockRow, UpsertChild,
         BreakDeadlock, Abort, UpsertRecord

\* Whoever races whom for a row: what the first record in it has put into a
\* column that updates keep is never overwritten by such an update.
THEOREM KeepsFirstSeen == Spec => FirstSeenStays
<1> DEFINE Stays == \A u \in Row :
             child[u] # NoRow /\ child'[u] # child[u] /\ child'[u].rec \in Keeps
               => child'[u].kept = child[u].kept
<1>1. StoreInv /\ [Next]_vars => Stays
  <2> SUFFICES ASSUME StoreInv, [Next]_vars, NEW u \in Row, child[u] # NoRow,
                      child'[u] # child[u], child'[u].rec \in Keeps
               PROVE  child'[u].kept = child[u].kept
    OBVIOUS
  <2>1. PICK c \in Client : Commit(c) \/ CommitUnheard(c)
    BY OnlyCommits
  <2>2. /\ Written(c) /\ Commits(c) /\ FreshOK
        /\ TablesOK /\ ClientsOK /\ RowsAgree
    BY <2>1 DEF Commit, CommitUnheard, StoreInv
  <2>3. u = MyRow(c) /\ child'[u] = [key |-> MyKey(c), rec |-> Current(c), kept |-> Kept(c)]
    BY <2>2, CommitsRow
  <2>4. pc[c] = "updated" /\ Current(c) \in Keeps
    BY <2>2, <2>3 DEF Written, FreshOK
  <2> QED
    BY <2>3, <2>4 DEF Kept
<1> QED
  BY <1>1, StoreInvariant, PTL DEF Spec, FirstSeenStays

\* A typed upsert, although several steps among those of others, is one step of
\* a table, and its answer is what that table says just before that step: the
\* row lock keeps everybody else away from the second statement to the COMMIT.
THEOREM ImplementsService == Spec => ServiceSpec
<1> DEFINE Table == [u \in Row |-> child[u].rec]
<1>1. Init => Service!Init
  BY DEF Init, Service!Init, NoRow
<1>2. StoreInv /\ [Next]_vars => [Service!Next]_<<Table, told>>
  <2> SUFFICES ASSUME StoreInv, [Next]_vars
               PROVE  Service!Next \/ UNCHANGED <<Table, told>>
    OBVIOUS
  <2>1. ASSUME NEW c \in Client, Commit(c) \/ CommitUnheard(c) PROVE Service!Next
    <3>1. /\ Written(c) /\ Commits(c) /\ TablesOK /\ ClientsOK /\ FreshOK /\ RowsAgree
      BY <2>1 DEF Commit, CommitUnheard, StoreInv
    <3>2. /\ Current(c) \in Record /\ MyRow(c) \in Row /\ RowOf[Current(c)] = MyRow(c)
      BY <3>1, InHand DEF Written
    <3>3. Table' = [Table EXCEPT ![RowOf[Current(c)]] = Current(c)]
      <4>1. /\ child'[MyRow(c)].rec = Current(c)
            /\ \A u \in Row : u # MyRow(c) => child'[u] = child[u]
        BY <3>1, CommitsRow
      <4>2. Table' = [u \in Row |-> child'[u].rec]
        OBVIOUS
      <4> QED
        BY <3>2, <4>1, <4>2
    <3>4. pc[c] = "inserted" <=> Table[RowOf[Current(c)]] = NoRecord
      <4>1. pc[c] = "inserted" <=> child[MyRow(c)] = NoRow
        BY <3>1 DEF Written, FreshOK
      <4>2. child[MyRow(c)] = NoRow <=> child[MyRow(c)].rec = NoRecord
        BY <3>1, <3>2, StoreAssumption DEF RowsAgree, NoRow, StoreAssumption
      <4> QED
        BY <3>2, <4>1, <4>2
    <3>5. CASE Commit(c)
      BY <3>2, <3>3, <3>4, <3>5
         DEF Commit, Counted, Service!Next, Service!Answered, Service!Store
    <3>6. CASE CommitUnheard(c)
      BY <3>2, <3>3, <3>6 DEF CommitUnheard, Service!Next, Service!Unheard, Service!Store
    <3> QED
      BY <2>1, <3>5, <3>6
  <2>2. ASSUME ~\E c \in Client : Commit(c) \/ CommitUnheard(c)
        PROVE  UNCHANGED <<Table, told>>
    <3>1. child' = child
      BY <2>2, OnlyCommits
    <3>2. told' = told
      BY <2>2 DEF Next, Step, vars, Ask, Acquire, UpsertCanonical, LockRow, UpsertChild,
                  BreakDeadlock, Abort, UpsertRecord
    <3> QED
      BY <3>1, <3>2
  <2> QED
    BY <2>1, <2>2
<1> QED
  BY <1>1, <1>2, StoreInvariant, PTL DEF Spec, ServiceSpec, Service!Spec
=============================================================================

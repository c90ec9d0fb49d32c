----------------------------- MODULE RecordStore -----------------------------
(***************************************************************************)
(* The typed upserts of PostgresStorageRepository (storage/postgres.py) and *)
(* the loops that call them: batch_upsert_* of storage/base.py, which ends  *)
(* at the first exception, and the ingest loops of the pipelines, which     *)
(* count it and go on.                                                      *)
(*                                                                          *)
(* A typed upsert is one transaction of two statements.  The first upserts  *)
(* the record into canonical_records on its natural key; the second upserts *)
(* a row of the table of its type, on the URL or name that is unique there. *)
(* The primary key of that row is the id of the canonical record, and       *)
(* breaking it aborts the transaction.  Canonical rows are never deleted,   *)
(* so the natural key stands for the id.  arxiv_id and content_hash are     *)
(* unique, too, but make the natural key: breaking one breaks the other.    *)
(*                                                                          *)
(* PostgreSQL runs at READ COMMITTED: an INSERT ... ON CONFLICT waits for   *)
(* the open transaction that wrote the conflicting row, and nobody sees the *)
(* writes of an open transaction.  The second statement takes its row first *)
(* and then looks at the primary key, where it may have to wait again.      *)
(* What an open transaction has written follows from how far its client is, *)
(* so it is not kept a second time.                                         *)
(***************************************************************************)
EXTENDS Naturals, Sequences, FiniteSets

CONSTANTS Client,       \* tasks and processes that store records
          Record, Key, Row,
          KeyOf,        \* natural_key() of every record
          RowOf,        \* its source_url, paper_url or entity_name
          Batch,        \* the lists of records clients may be asked to store
          Batching,     \* the clients that call batch_upsert_*, the others
                        \* are loops of pipelines
          Keeps,        \* the records that, when they update a row, leave a
                        \* column of it as it was: first_seen_at of a job, a
                        \* value that a startup does not bear (COALESCE)
          Untyped,      \* the records that are also stored by upsert_record
          PoolSize,     \* max_size of the connection pool
          MaxFaults,    \* bound: connections lost, statements cancelled
          NoRecord, NoKey

ASSUME StoreAssumption ==
  /\ KeyOf \in [Record -> Key] /\ RowOf \in [Record -> Row]
  /\ NoRecord \notin Record /\ NoKey \notin Key
  /\ Batch \subseteq Seq(Record) /\ <<>> \notin Batch
  /\ Batching \subseteq Client /\ Untyped \subseteq Record /\ Keeps \subseteq Record
  /\ PoolSize \in Nat \ {0} /\ MaxFaults \in Nat

VARIABLES canon,    \* canonical_records, as committed
          child,    \* the table of the record type, as committed
          pc,       \* how far every client is with the first record of left
          left,     \* the records of its batch not yet dealt with
          told,     \* upserts that have returned True (history)
          faults

vars == <<canon, child, pc, left, told, faults>>

\* A row: the id of its canonical record, the record that wrote the columns
\* which every update overwrites, and the one that wrote the column which some
\* updates keep.
RowType == [key : Key \cup {NoKey}, rec : Record \cup {NoRecord}, kept : Record \cup {NoRecord}]
NoRow == [key |-> NoKey, rec |-> NoRecord, kept |-> NoRecord]

InTransaction == {"connected", "canonical", "locked", "inserted", "updated"}

TypeOK ==
  /\ canon \in [Key -> Record \cup {NoRecord}]
  /\ child \in [Row -> RowType]
  /\ pc \in [Client -> {"idle", "next"} \cup InTransaction]
  /\ left \in [Client -> Seq(Record)]
  /\ \A c \in Client : pc[c] = "idle" <=> left[c] = <<>>
  /\ told \in Nat
  /\ faults \in 0..MaxFaults

Init ==
  /\ canon = [k \in Key |-> NoRecord]
  /\ child = [u \in Row |-> NoRow]
  /\ pc = [c \in Client |-> "idle"]
  /\ left = [c \in Client |-> <<>>]
  /\ told = 0
  /\ faults = 0

----------------------------------------------------------------------------
\* Locks and constraints.

Current(c) == Head(left[c])
MyKey(c) == KeyOf[Current(c)]
MyRow(c) == RowOf[Current(c)]

\* Clients that hold the canonical row they have written, ...
HoldsKey(c) == pc[c] \in {"canonical", "locked", "inserted", "updated"}
\* ... and the row of the second table, ...
HoldsRow(c) == pc[c] \in {"locked", "inserted", "updated"}
\* ... and those whose second statement is through.
Written(c) == pc[c] \in {"inserted", "updated"}

KeyLocked(k, c) == \E d \in Client \ {c} : HoldsKey(d) /\ MyKey(d) = k
RowLocked(u, c) == \E d \in Client \ {c} : HoldsRow(d) /\ MyRow(d) = u

\* d is moving the row that still bears the id of c to another canonical
\* record: whether the id is free is known when the transaction of d ends.
Blocks(d, c) == HoldsRow(d) /\ d # c /\ child[MyRow(d)].key = MyKey(c)

\* Another row bears the id: the primary key of the second table is broken.
BreaksPrimaryKey(c) == \E u \in Row \ {MyRow(c)} : child[u].key = MyKey(c)

\* c is one of a circle of clients each of which waits for another one.
Deadlocked(c) == \E circle \in SUBSET Client :
  /\ c \in circle
  /\ \A d \in circle : pc[d] = "locked"
  /\ \A d \in circle : (\E e \in circle : Blocks(e, d)) /\ (\E e \in circle : Blocks(d, e))

Connected == {c \in Client : pc[c] \in InTransaction}

----------------------------------------------------------------------------
\* The loop over the records.

Ask(c, batch) ==
  /\ pc[c] = "idle"
  /\ left' = [left EXCEPT ![c] = batch]
  /\ pc' = [pc EXCEPT ![c] = "next"]
  /\ UNCHANGED <<canon, child, told, faults>>

\* Go on with the records rest; with none left, the loop is over.
\* Mutant: nobody notices that none is left.
Continue_PastEnd(c, rest) ==
  /\ left' = [left EXCEPT ![c] = rest]
  /\ pc' = [pc EXCEPT ![c] = "next"]
Continue(c, rest) ==
  /\ left' = [left EXCEPT ![c] = rest]
  /\ pc' = [pc EXCEPT ![c] = IF rest = <<>> THEN "idle" ELSE "next"]

\* An upsert raised.
\* Mutant: the connection is not given back.
Raised_KeepsConnection(c) == UNCHANGED <<left, pc>>
Raised(c) == Continue(c, IF c \in Batching THEN <<>> ELSE Tail(left[c]))

----------------------------------------------------------------------------
\* A typed upsert.

\* async with pool.acquire(), connection.transaction()
Acquire(c) ==
  /\ pc[c] = "next"
  /\ Cardinality(Connected) < PoolSize
  /\ pc' = [pc EXCEPT ![c] = "connected"]
  /\ UNCHANGED <<canon, child, left, told, faults>>

UpsertCanonical(c) ==
  /\ pc[c] = "connected"
  /\ ~KeyLocked(MyKey(c), c)
  /\ pc' = [pc EXCEPT ![c] = "canonical"]
  /\ UNCHANGED <<canon, child, left, told, faults>>

\* What the transaction leaves behind when it is rolled back.
\* Mutant: the first statement stays, as without a transaction.
RolledBack_Autocommit(c) == IF HoldsKey(c) THEN [canon EXCEPT ![MyKey(c)] = Current(c)] ELSE canon
RolledBack(c) == canon

Fails(c) == Raised(c) /\ canon' = RolledBack(c)

\* The second statement takes its row, there or new, ...
LockRow(c) ==
  /\ pc[c] = "canonical"
  /\ ~RowLocked(MyRow(c), c)
  /\ pc' = [pc EXCEPT ![c] = "locked"]
  /\ UNCHANGED <<canon, child, left, told, faults>>

\* (xmax = 0): it has inserted the row.  Mutant: the canonical record is new.
Fresh_Canonical(c) == canon[MyKey(c)] = NoRecord
Fresh(c) == child[MyRow(c)] = NoRow

\* ... and gives it the id of the canonical record.
UpsertChild(c) ==
  /\ pc[c] = "locked"
  /\ \A d \in Client : ~Blocks(d, c)
  /\ IF BreaksPrimaryKey(c)
     THEN Fails(c)
     ELSE /\ pc' = [pc EXCEPT ![c] = IF Fresh(c) THEN "inserted" ELSE "updated"]
          /\ UNCHANGED <<canon, left>>
  /\ UNCHANGED <<child, told, faults>>

\* The server aborts one of those who wait for each other for ever.
BreakDeadlock(c) == Deadlocked(c) /\ Fails(c) /\ UNCHANGED <<child, told, faults>>

\* DO UPDATE SET.  Mutant: every column is overwritten.
Kept_Never(c) == Current(c)
Kept(c) == IF pc[c] = "updated" /\ Current(c) \in Keeps THEN child[MyRow(c)].kept ELSE Current(c)

\* The transaction takes effect.
Commits(c) ==
  /\ canon' = [canon EXCEPT ![MyKey(c)] = Current(c)]
  /\ child' = [child EXCEPT ![MyRow(c)] =
                 [key |-> MyKey(c), rec |-> Current(c), kept |-> Kept(c)]]

\* return bool(inserted), counted by the caller.  Mutant: every upsert counts.
Counted_Always(c) == told + 1
Counted(c) == IF pc[c] = "inserted" THEN told + 1 ELSE told

Commit(c) ==
  /\ Written(c)
  /\ Commits(c)
  /\ told' = Counted(c)
  /\ Continue(c, Tail(left[c]))
  /\ UNCHANGED faults

\* The connection is lost or a statement is cancelled: an exception, and
\* nothing has happened ...
Abort(c) ==
  /\ c \in Connected
  /\ faults < MaxFaults /\ faults' = faults + 1
  /\ Fails(c)
  /\ UNCHANGED <<child, told>>

\* ... or the reply to COMMIT is lost, and everything has.
CommitUnheard(c) ==
  /\ Written(c)
  /\ faults < MaxFaults /\ faults' = faults + 1
  /\ Commits(c)
  /\ Raised(c)
  /\ UNCHANGED told

\* upsert_record: the first statement alone, on a connection of its own.
UpsertRecord(c, r) ==
  /\ r \in Untyped
  /\ pc[c] = "idle"
  /\ Cardinality(Connected) < PoolSize
  /\ ~KeyLocked(KeyOf[r], c)
  /\ canon' = [canon EXCEPT ![KeyOf[r]] = r]
  /\ UNCHANGED <<child, pc, left, told, faults>>

\* The next step of the client's own code, or of the server for it.
Step(c) == \/ Acquire(c) \/ UpsertCanonical(c) \/ LockRow(c) \/ UpsertChild(c)
           \/ BreakDeadlock(c) \/ Commit(c)

Next == \E c \in Client :
          \/ \E batch \in Batch : Ask(c, batch)
          \/ Step(c)
          \/ Abort(c)
          \/ CommitUnheard(c)
          \/ \E r \in Record : UpsertRecord(c, r)

Spec == Init /\ [][Next]_vars

\* The server and the event loop run everybody who can run, and the pool and
\* the locks serve those who wait in their order.
FairSpec == Spec /\ \A c \in Client : SF_vars(Step(c))

----------------------------------------------------------------------------
\* Properties.

\* The two tables agree, although upserts of one canonical record under several
\* URLs, and of one URL under several canonical records, run side by side and
\* fail half-way: a row has a canonical record to itself, the one its own
\* natural key names, and its overwritten columns show what that record holds,
\* unless upsert_record has been there since.  The column that some updates keep
\* may be older, but comes from a record of the same row.
RowsAgree == \A u \in Row :
  LET row == child[u]
  IN row # NoRow =>
       /\ row.rec \in Record /\ RowOf[row.rec] = u /\ KeyOf[row.rec] = row.key
       /\ canon[row.key] \in {row.rec} \cup Untyped
       /\ row.kept \in Record /\ RowOf[row.kept] = u
       /\ \A v \in Row \ {u} : child[v].key # row.key

\* What an update has to keep stays, also when two clients race to insert the
\* row: the second of them updates what the first has inserted, and the
\* first_seen_at of a posting is never moved.
FirstSeenStays == [][\A u \in Row :
  child[u] # NoRow /\ child'[u] # child[u] /\ child'[u].rec \in Keeps
    => child'[u].kept = child[u].kept]_vars

\* The stored_* counts of the pipelines never exceed the rows in the database,
\* and with no reply lost they are the same: two upserts that race for a new
\* row do not both report it as new, and one of them does.
CountedOnce ==
  LET rows == Cardinality({u \in Row : child[u] # NoRow})
  IN told <= rows /\ (faults = 0 => told = rows)

\* Every batch comes to its end: nobody waits for ever on the pool, on a lock
\* or on somebody who waits for him.
BatchEnds == \A c \in Client : pc[c] # "idle" ~> pc[c] = "idle"

\* Although it takes several statements among those of others, a typed upsert is
\* one step of a table: it stores the record in its row, at once or not at all,
\* and answers whether the row is new.
Service == INSTANCE RecordService WITH table <- [u \in Row |-> child[u].rec]
ServiceSpec == Service!Spec
=============================================================================

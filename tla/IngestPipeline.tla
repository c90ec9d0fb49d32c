--------------------------- MODULE IngestPipeline ---------------------------
(***************************************************************************)
(* The ingest methods of the five pipelines (pipelines/*.py): one run       *)
(* gathers candidates from its sources, then deals with one candidate after *)
(* the other, rejecting stale ones, skipping those seen before, validating, *)
(* writing the mapping log or the repository metrics, and the record last.  *)
(* Whatever goes wrong inside the loop costs one candidate; outside of it,  *)
(* the run.                                                                 *)
(*                                                                          *)
(* Runs that share a repository interleave at every call that waits.  Each  *)
(* upsert is one step of it (module RecordStore has the statements).  Both  *)
(* kinds keep one record per natural key; PostgreSQL has a second table for *)
(* every type, with one row per URL or name, and it is by that row that an  *)
(* upsert tells whether the record is new: a role that is renamed at its    *)
(* URL, or an edited article, is a new canonical record in an old row.  A   *)
(* record whose key another row bears is refused.  The manifest of a run    *)
(* (pipeline_runs) needs no variable: it says "running" from Start on, and  *)
(* once pc is "done", "completed" with its count.  Enrichment, resolution   *)
(* and the fields of records are left out, as is the optional since of      *)
(* papers.                                                                  *)
(***************************************************************************)
EXTENDS Integers, SequencesExt

CONSTANTS Run,          \* runs of pipelines
          VerticalOf,   \* the pipeline of every run
          Store,        \* repositories: PostgreSQL, and those in memory
          Postgres,
          Candidate, Key, Row, Name,
          TypeOf,       \* the vertical of a candidate: its record_type
          KeyOf,        \* natural_key() of the record built from a candidate
          RowOf,        \* its row in the table of its type: URL or name
          NameOf,       \* what a pipeline remembers a candidate by
          Posted,       \* its date; when it was collected if it bears none
          Unbuildable,  \* candidates whose record cannot be built
          Invalid,      \* candidates whose record the validator rejects
          Sources,      \* the sources of every vertical, in order
          Offers,       \* what a source that works returns
          Samples,      \* what a crawler returns when its source is down
          NewsSamples,  \* _fallback_candidates of the news pipeline
          Limit, Hours,
          MaxTime,      \* bound of the clock
          MaxFaults,    \* bound: raised calls, crashes
          NoRecord, NoKey

Vertical == {"papers", "startups", "products", "news", "jobs"}

ASSUME IngestAssumption ==
  /\ IsFiniteSet(Run)
  /\ VerticalOf \in [Run -> Vertical]
  /\ Postgres \in Store
  /\ TypeOf \in [Candidate -> Vertical]
  /\ KeyOf \in [Candidate -> Key] /\ NameOf \in [Candidate -> Name]
  /\ Posted \in [Candidate -> Int]
  /\ Unbuildable \subseteq Candidate /\ Invalid \subseteq Candidate
  /\ \A c, d \in Candidate : KeyOf[c] = KeyOf[d] => TypeOf[c] = TypeOf[d]
  /\ RowOf \in [Candidate -> Row]
  /\ \A c, d \in Candidate : RowOf[c] = RowOf[d] => TypeOf[c] = TypeOf[d]
  /\ NoRecord \notin Candidate /\ NoKey \notin Key
  /\ Limit \in Nat \ {0} /\ Hours \in Nat
  /\ MaxTime \in Nat /\ MaxFaults \in Nat
  /\ Sources \in [Vertical -> Seq(DOMAIN Offers)] /\ Len(Sources["papers"]) = 2
  /\ Offers \in [DOMAIN Offers -> Seq(Candidate)]
  /\ Samples \in [DOMAIN Offers -> Seq(Candidate)]
  /\ NewsSamples \in Seq(Candidate)

\* per_crawler_limit and per_source_limit
Share(v) ==
  LET part == Limit \div Len(Sources[v])
  IN IF v = "startups" THEN Limit ELSE IF part = 0 THEN 1 ELSE part

ASSUME LimitAssumption ==
  \A v \in Vertical \ {"papers"} : \A s \in ToSet(Sources[v]) :
    Len(Offers[s]) <= Share(v) /\ Len(Samples[s]) <= Share(v)

VARIABLES records,  \* records[s][k]: the record under key k in repository s
          rows,     \* the key every row in PostgreSQL's typed tables bears
          logged,   \* candidates whose mapping or metrics are in s
          pc,       \* where every run is
          at,       \* the repository it writes to
          got,      \* the candidates it has gathered
          pos,      \* the one it is dealing with
          seen,     \* seen_natural_keys, seen_keys, seen_hashes
          count,    \* stored, failures, rejected_stale
          cutoff,   \* cutoff_time
          now, faults

rvars == <<at, got, cutoff>>
vars == <<records, rows, logged, pc, at, got, pos, seen, count, cutoff, now, faults>>

\* The pipelines that stop at limit new records.
Bounded(r) == VerticalOf[r] \in {"products", "news", "jobs"}

\* The pipelines that look at dates.
Dated(r) == VerticalOf[r] \in {"news", "jobs"}

Working == {"fetch", "loop", "write", "store", "close"}

TypeOK ==
  /\ records \in [Store -> [Key -> Candidate \cup {NoRecord}]]
  /\ rows \in [Row -> Key \cup {NoKey}]
  /\ logged \in [Store -> SUBSET Candidate]
  /\ pc \in [Run -> {"off", "done", "raised"} \cup Working]
  /\ at \in [Run -> Store]
  /\ got \in [Run -> Seq(Candidate)]
  /\ pos \in [Run -> Nat \ {0}]
  /\ \A r \in Run : /\ pos[r] <= Len(got[r]) + 1
                    /\ pc[r] \in {"write", "store"} => pos[r] <= Len(got[r])
  /\ seen \in [Run -> SUBSET Name]
  /\ count \in [Run -> [stored : Nat, failures : Nat, stale : Nat]]
  /\ \A r \in Run : /\ count[r].stored + count[r].failures + count[r].stale < pos[r]
                    /\ Bounded(r) => count[r].stored <= Limit
  /\ cutoff \in [Run -> Int]
  /\ now \in 0..MaxTime
  /\ faults \in 0..MaxFaults

Init ==
  /\ records = [s \in Store |-> [k \in Key |-> NoRecord]]
  /\ rows = [u \in Row |-> NoKey]
  /\ logged = [s \in Store |-> {}]
  /\ pc = [r \in Run |-> "off"]
  /\ at = [r \in Run |-> Postgres]
  /\ got = [r \in Run |-> <<>>]
  /\ pos = [r \in Run |-> 1]
  /\ seen = [r \in Run |-> {}]
  /\ count = [r \in Run |-> [stored |-> 0, failures |-> 0, stale |-> 0]]
  /\ cutoff = [r \in Run |-> 0]
  /\ now = 0
  /\ faults = 0

----------------------------------------------------------------------------
\* Gathering candidates.

\* The answers of all sources, those in up being reachable.
Answers(v, up) == FlattenSeq([j \in DOMAIN Sources[v] |->
  LET s == Sources[v][j] IN IF s \in up THEN Offers[s] ELSE Samples[s]])

\* arXiv is asked for the papers that have code, then, if these are too few,
\* for the newest ones; if the second question fails, the answer to the first
\* is lost as well.  join() cuts the list.
Papers(up) ==
  LET byIds == Sources["papers"][1]
      direct == Sources["papers"][2]
      linked == IF byIds \in up THEN Offers[byIds] ELSE <<>>
      all == IF Len(linked) >= Limit THEN linked
             ELSE IF direct \in up
                  THEN linked \o SelectSeq(Offers[direct],
                                           LAMBDA c : ~Contains(linked, c))
                  ELSE <<>>
  IN SubSeq(all, 1, IF Len(all) < Limit THEN Len(all) ELSE Limit)

Gathered(v, up) ==
  CASE v = "papers" -> Papers(up)
    [] v = "news" /\ Answers(v, up) = <<>> -> NewsSamples
    [] OTHER -> Answers(v, up)

\* Every crawler returns candidates of the type its pipeline expects.
ASSUME AnswersAssumption ==
  \A v \in Vertical : \A up \in SUBSET ToSet(Sources[v]) :
    Gathered(v, up) \in Seq({c \in Candidate : TypeOf[c] = v})

\* start_pipeline_run, and the start of the clock for freshness.
Start(r, s) ==
  /\ pc[r] = "off"
  /\ pc' = [pc EXCEPT ![r] = "fetch"]
  /\ at' = [at EXCEPT ![r] = s]
  /\ cutoff' = [cutoff EXCEPT ![r] = now - Hours]
  /\ UNCHANGED <<records, rows, logged, got, pos, seen, count, now, faults>>

\* Only the startup pipeline has a source it cannot do without: see Abort.
Fetch(r) ==
  /\ pc[r] = "fetch"
  /\ \E up \in SUBSET ToSet(Sources[VerticalOf[r]]) :
       /\ VerticalOf[r] = "startups" => up = ToSet(Sources["startups"])
       /\ got' = [got EXCEPT ![r] = Gathered(VerticalOf[r], up)]
  /\ pc' = [pc EXCEPT ![r] = "loop"]
  /\ UNCHANGED <<records, rows, logged, at, pos, seen, count, cutoff, now, faults>>

----------------------------------------------------------------------------
\* The loop over the candidates.

Current(r) == got[r][pos[r]]

AtCandidate(r) == pc[r] = "loop" /\ pos[r] <= Len(got[r])

\* News are dated, and their records built, before they are judged; jobs are
\* judged first.  Mutant: no date is looked at.
Stale_Never(r) == FALSE
Stale(r) ==
  /\ Dated(r)
  /\ Posted[Current(r)] < cutoff[r]
  /\ VerticalOf[r] = "news" => Current(r) \notin Unbuildable

\* Startups are remembered by name before their record is built; papers come
\* without duplicates.
Duplicate_Never(r) == FALSE
Duplicate(r) ==
  /\ VerticalOf[r] # "papers"
  /\ NameOf[Current(r)] \in seen[r]
  /\ VerticalOf[r] # "startups" => Current(r) \notin Unbuildable

\* What the pipeline remembers of a candidate that is neither.
Remembered(r) ==
  IF \/ VerticalOf[r] = "papers"
     \/ VerticalOf[r] # "startups" /\ Current(r) \in Unbuildable
  THEN {} ELSE {NameOf[Current(r)]}

\* What it remembers of a stale one.  Mutant: the check comes too late.
RememberedStale_Name(r) == {NameOf[Current(r)]}
RememberedStale(r) == {}

\* The exception raised while the record is built or validated comes before
\* anything is written, except for papers.
Fails(r) == Current(r) \in Unbuildable \cup Invalid

Skip(r) == pos' = [pos EXCEPT ![r] = @ + 1] /\ pc' = [pc EXCEPT ![r] = "loop"]

RejectStale(r) ==
  /\ AtCandidate(r) /\ Stale(r)
  /\ count' = [count EXCEPT ![r].stale = @ + 1]
  /\ seen' = [seen EXCEPT ![r] = @ \cup RememberedStale(r)]
  /\ Skip(r)
  /\ UNCHANGED <<records, rows, logged, rvars, now, faults>>

SkipDuplicate(r) ==
  /\ AtCandidate(r) /\ ~Stale(r) /\ Duplicate(r)
  /\ Skip(r)
  /\ UNCHANGED <<records, rows, logged, rvars, seen, count, now, faults>>

CountFailure(r) == count' = [count EXCEPT ![r].failures = @ + 1]

RejectInvalid(r) ==
  /\ AtCandidate(r) /\ ~Stale(r) /\ ~Duplicate(r)
  /\ VerticalOf[r] # "papers" /\ Fails(r)
  /\ seen' = [seen EXCEPT ![r] = @ \cup Remembered(r)]
  /\ CountFailure(r)
  /\ Skip(r)
  /\ UNCHANGED <<records, rows, logged, rvars, now, faults>>

\* Everything but news is logged before its record is stored.
\* Mutant: the record is written at once.
FirstWrite_Record(r) == "store"
FirstWrite(r) == IF VerticalOf[r] = "news" THEN "store" ELSE "write"

Accept(r) ==
  /\ AtCandidate(r) /\ ~Stale(r) /\ ~Duplicate(r)
  /\ VerticalOf[r] = "papers" \/ ~Fails(r)
  /\ seen' = [seen EXCEPT ![r] = @ \cup Remembered(r)]
  /\ pc' = [pc EXCEPT ![r] = FirstWrite(r)]
  /\ UNCHANGED <<records, rows, logged, rvars, pos, count, now, faults>>

\* log_mapping, or upsert_github_metrics of the repositories of a paper, if it
\* has any; the record of a paper is only then built and validated.
Log(r) == logged' = [logged EXCEPT ![at[r]] = @ \cup {Current(r)}]

Write(r) ==
  /\ pc[r] = "write"
  /\ Log(r)
  /\ IF VerticalOf[r] = "papers" /\ Fails(r)
     THEN CountFailure(r) /\ Skip(r)
     ELSE pc' = [pc EXCEPT ![r] = "store"] /\ UNCHANGED <<pos, count>>
  /\ UNCHANGED <<records, rows, rvars, seen, now, faults>>

\* The upsert tells whether there is a new row, or, in memory, a new record.
\* Mutant: it looks at the canonical records in both.
IsNew_Canonical(r) == records[at[r]][KeyOf[Current(r)]] = NoRecord
IsNew(r) == IF at[r] = Postgres THEN rows[RowOf[Current(r)]] = NoKey
            ELSE records[at[r]][KeyOf[Current(r)]] = NoRecord

Upsert(r) ==
  /\ records' = [records EXCEPT ![at[r]][KeyOf[Current(r)]] = Current(r)]
  /\ rows' = IF at[r] = Postgres THEN [rows EXCEPT ![RowOf[Current(r)]] = KeyOf[Current(r)]]
             ELSE rows

\* Mutant: one record later.
Enough_Beyond(r) ==
  Bounded(r) /\ IsNew(r) /\ count[r].stored >= Limit
Enough(r) ==
  Bounded(r) /\ IsNew(r) /\ count[r].stored + 1 >= Limit

\* The second statement of the transaction would break the primary key: see
\* BreaksPrimaryKey of module RecordStore.
Refused(r) ==
  /\ at[r] = Postgres
  /\ \E u \in Row \ {RowOf[Current(r)]} : rows[u] = KeyOf[Current(r)]

StoreRecord(r) ==
  /\ pc[r] = "store"
  /\ ~Refused(r)
  /\ Upsert(r)
  /\ count' = [count EXCEPT ![r].stored = IF IsNew(r) THEN @ + 1 ELSE @]
  /\ pos' = [pos EXCEPT ![r] = @ + 1]
  /\ pc' = [pc EXCEPT ![r] = IF Enough(r) THEN "close" ELSE "loop"]
  /\ UNCHANGED <<logged, rvars, seen, now, faults>>

StoreRefused(r) ==
  /\ pc[r] = "store"
  /\ Refused(r)
  /\ CountFailure(r)
  /\ Skip(r)
  /\ UNCHANGED <<records, rows, logged, rvars, seen, now, faults>>

Fault == faults < MaxFaults /\ faults' = faults + 1

\* A call to PostgreSQL inside the loop raises, before or after it has taken
\* effect, and the candidate is given up.
GiveUp(r) == Skip(r)

WriteRaises(r) ==
  /\ pc[r] = "write"
  /\ at[r] = Postgres
  /\ Fault
  /\ Log(r) \/ UNCHANGED logged
  /\ CountFailure(r)
  /\ GiveUp(r)
  /\ UNCHANGED <<records, rows, rvars, seen, now>>

StoreRaises(r) ==
  /\ pc[r] = "store"
  /\ at[r] = Postgres
  /\ Fault
  /\ \/ ~Refused(r) /\ Upsert(r)
     \/ UNCHANGED <<records, rows>>
  /\ CountFailure(r)
  /\ GiveUp(r)
  /\ UNCHANGED <<logged, rvars, seen, now>>

\* complete_pipeline_run, after the last candidate or at the limit.
Complete(r) ==
  /\ \/ pc[r] = "close"
     \/ pc[r] = "loop" /\ pos[r] > Len(got[r])
  /\ pc' = [pc EXCEPT ![r] = "done"]
  /\ UNCHANGED <<records, rows, logged, rvars, pos, seen, count, now, faults>>

\* The task is cancelled, the process dies, a source of startups is down, or
\* the repository fails in start_ or complete_pipeline_run: the manifest, if
\* there is one, says "running" for ever.
Abort(r) ==
  /\ pc[r] \in Working
  /\ Fault
  /\ pc' = [pc EXCEPT ![r] = "raised"]
  /\ UNCHANGED <<records, rows, logged, rvars, pos, seen, count, now>>

Tick ==
  /\ now < MaxTime
  /\ now' = now + 1
  /\ UNCHANGED <<records, rows, logged, pc, rvars, pos, seen, count, faults>>

\* The next step of the code of a run.
Step(r) ==
  \/ Fetch(r) \/ RejectStale(r) \/ SkipDuplicate(r) \/ RejectInvalid(r)
  \/ Accept(r) \/ Write(r) \/ StoreRecord(r) \/ StoreRefused(r)
  \/ Complete(r)

Mishap(r) == WriteRaises(r) \/ StoreRaises(r) \/ Abort(r)

Next == \/ \E r \in Run : (\E s \in Store : Start(r, s)) \/ Step(r) \/ Mishap(r)
        \/ Tick

Spec == Init /\ [][Next]_vars

----------------------------------------------------------------------------
\* Properties.

Stored(s) == {k \in Key : records[s][k] # NoRecord}

RunsOn(s) == {r \in Run : at[r] = s}

\* What runs have counted as stored.
Told(c, runs) == MapThenSumSet(LAMBDA r : c[r].stored, runs)

\* What counts as one in a repository: the records in memory, and the rows of
\* the typed tables in PostgreSQL, where some canonical records have none.
Held(s) == IF s = Postgres THEN {u \in Row : rows[u] # NoKey} ELSE Stored(s)

\* The stored_* counts of all runs on a repository add up to what it holds:
\* nothing is counted twice by runs that find the same record or move the same
\* row, and nothing is missing unless a call was cut off.
CountsAddUp == \A s \in Store :
  LET told == Told(count, RunsOn(s))
  IN /\ told <= Cardinality(Held(s))
     /\ faults = 0 => told = Cardinality(Held(s))

\* The names under which a run has gathered something fresh, and of which its
\* repository has nothing that it has gathered.
LostNames(r) ==
  {n \in {NameOf[c] : c \in {d \in ToSet(got[r]) : ~(Dated(r) /\ Posted[d] < cutoff[r])}} :
     ~\E d \in ToSet(got[r]) : NameOf[d] = n /\ KeyOf[d] \in Stored(at[r])}

\* Nothing is lost quietly: when a run ends, and not at its limit, it has counted
\* a failure for every name that was fresh when it began and of which nothing is
\* stored.  A stale posting never shadows its fresh repost, and an invalid or
\* refused one that shadows another is counted for both.
NothingLostQuietly == \A r \in Run :
  pc[r] = "done" /\ (Bounded(r) => count[r].stored < Limit)
    => Cardinality(LostNames(r)) <= count[r].failures

\* Every record is traceable: the mapping log or the metrics it rests on are
\* in the repository before it, whatever is cut off.
StoredIsLogged == \A s \in Store : \A k \in Stored(s) :
  LET c == records[s][k] IN TypeOf[c] # "news" => c \in logged[s]

\* In one run the first candidate of a name wins: a later duplicate from
\* another source never replaces its record.  (The candidates of papers come
\* from a dictionary.)
FirstWins == [][\A r \in Run :
  pc[r] = "store" /\ VerticalOf[r] # "papers" /\ records' # records /\ pos'[r] # pos[r]
    => \A j \in 1..(pos[r] - 1) :
         \/ NameOf[got[r][j]] # NameOf[Current(r)]
         \/ Dated(r) /\ Posted[got[r][j]] < cutoff[r]
         \/ got[r][j] \in Unbuildable]_vars

\* 24-hour freshness: every news article and job in a repository was within
\* the window when the run that stored it began, however long the run took.
StoredFresh == \A s \in Store : \A k \in Stored(s) :
  LET c == records[s][k]
  IN TypeOf[c] \in {"news", "jobs"}
       => \E r \in RunsOn(s) : /\ VerticalOf[r] = TypeOf[c]
                              /\ c \in ToSet(got[r])
                              /\ Posted[c] >= cutoff[r]
=============================================================================

------------------------------ MODULE MasterRun ------------------------------
(***************************************************************************)
(* MasterPipelineRunner.run_all (pipelines/runner.py): the five pipelines   *)
(* one after the other on one repository, then the audit and the export of  *)
(* what the repository holds, then the manifest of the master run.  Several *)
(* master runs, each a process of its own, may share the database.          *)
(*                                                                          *)
(* A dry run, and one that cannot connect to PostgreSQL, keeps its records  *)
(* in a repository of its own in memory.  The runs of the pipelines are     *)
(* those of IngestPipeline: a pipeline that raises takes the master run     *)
(* with it.  Left out: the extraction probe, which has no effect on the     *)
(* records, the live upload, whose errors are swallowed, and what the audit *)
(* counts besides records that are too old.                                 *)
(***************************************************************************)
EXTENDS IngestPipeline

CONSTANTS Master,
          Order   \* the pipelines in the order they run

\* The memory of a master run is the repository that bears its name.
ASSUME MasterAssumption ==
  /\ Order \in Seq(Vertical) /\ IsInjective(Order)
  /\ Run = Master \X ToSet(Order)
  /\ \A r \in Run : VerticalOf[r] = r[2]
  /\ Store = Master \cup {Postgres} /\ Postgres \notin Master

VARIABLES phase,    \* where every master run is
          storage,  \* the repository it uses
          exported, \* row_counts of its export
          audited   \* freshness_violations of its quality report

mvars == <<phase, storage, exported, audited>>

MasterTypeOK ==
  /\ TypeOK
  /\ phase \in [Master -> {"off", "verticals", "exported", "completed", "raised"}]
  /\ storage \in [Master -> Store]
  /\ exported \in [Master -> [ToSet(Order) -> Nat]]
  /\ audited \in [Master -> Nat]
  /\ \A m \in Master : storage[m] \in {m, Postgres}
  /\ \A m \in Master, v \in ToSet(Order) : \/ pc[<<m, v>>] = "off"
                                           \/ at[<<m, v>>] = storage[m]

MasterInit ==
  /\ Init
  /\ phase = [m \in Master |-> "off"]
  /\ storage = [m \in Master |-> Postgres]
  /\ exported = [m \in Master |-> [v \in ToSet(Order) |-> 0]]
  /\ audited = [m \in Master |-> 0]

Done(m, v) == pc[<<m, v>>] = "done"

\* Its turn has come when all pipelines before it have returned.
\* Mutant: they have only been started.
Turn_Started(m, j) == \A h \in 1..(j - 1) : pc[<<m, Order[h]>>] # "off"
Turn(m, j) == \A h \in 1..(j - 1) : Done(m, Order[h])

\* dry_run chooses; without it, a failed connection does.
Begin(m) ==
  /\ phase[m] = "off"
  /\ phase' = [phase EXCEPT ![m] = "verticals"]
  /\ \E s \in {m, Postgres} : storage' = [storage EXCEPT ![m] = s]
  /\ UNCHANGED <<vars, exported, audited>>

Ingest(m, j) ==
  /\ phase[m] = "verticals"
  /\ Turn(m, j)
  /\ Start(<<m, Order[j]>>, storage[m])
  /\ UNCHANGED mvars

\* records_by_type: only a repository in memory is read.
Rows(m, v) ==
  IF storage[m] = Postgres THEN 0
  ELSE Cardinality({k \in Stored(m) :
         TypeOf[records[m][k]] = v})

\* audit_run: the articles and jobs among them that are older than the window
\* now.  The pipelines have judged them by the windows of their own.
Violations(m) ==
  {k \in Stored(m) : /\ TypeOf[records[m][k]] \in {"news", "jobs"}
                     /\ Posted[records[m][k]] < now - Hours}
Audited(m) == IF storage[m] = Postgres THEN 0 ELSE Cardinality(Violations(m))

Export(m) ==
  /\ phase[m] = "verticals"
  /\ Turn(m, Len(Order) + 1)
  /\ exported' = [exported EXCEPT ![m] = [v \in ToSet(Order) |-> Rows(m, v)]]
  /\ audited' = [audited EXCEPT ![m] = Audited(m)]
  /\ phase' = [phase EXCEPT ![m] = "exported"]
  /\ UNCHANGED <<vars, storage>>

\* complete_pipeline_run with export_status "completed", and status COMPLETED.
Finish(m) ==
  /\ phase[m] = "exported"
  /\ phase' = [phase EXCEPT ![m] = "completed"]
  /\ UNCHANGED <<vars, storage, exported, audited>>

\* A pipeline has raised.  Mutant: nobody notices.
Broken_Never(m) == FALSE
Broken(m) == \E v \in ToSet(Order) : pc[<<m, v>>] = "raised"

Fall(m) ==
  /\ phase[m] \in {"verticals", "exported"}
  /\ phase' = [phase EXCEPT ![m] = "raised"]
  /\ UNCHANGED <<vars, storage, exported, audited>>

\* run_all lets the exception through, ...
Propagate(m) == Broken(m) /\ Fall(m)

\* ... and raises by itself between two pipelines, when the export or a call
\* to the repository fails or the process dies.
Raise(m) ==
  /\ \A v \in ToSet(Order) : pc[<<m, v>>] \notin Working
  /\ Fall(m)

RunStep(r) == Step(r) /\ UNCHANGED mvars

MasterStep(m) ==
  \/ \E j \in DOMAIN Order : Ingest(m, j) \/ RunStep(<<m, Order[j]>>)
  \/ Export(m) \/ Finish(m) \/ Propagate(m)

MasterNext ==
  \/ \E m \in Master : Begin(m) \/ MasterStep(m) \/ Raise(m)
  \/ \E r \in Run : Mishap(r) /\ UNCHANGED mvars
  \/ Tick /\ UNCHANGED mvars

MasterSpec == MasterInit /\ [][MasterNext]_<<vars, mvars>>

\* The event loop and the database serve everybody.
FairMaster ==
  MasterSpec /\ \A m \in Master : WF_<<vars, mvars>>(MasterStep(m))

----------------------------------------------------------------------------
\* Properties.

\* What a run in memory exports is exactly what its pipelines say they stored:
\* no record falls between counting and export, none is exported uncounted.
RowsMatchCounts(m) ==
  \A v \in ToSet(Order) : exported[m][v] = count[<<m, v>>].stored

\* A freshness violation in the quality report is a record that has aged since
\* its pipeline judged it: none was too old when it was stored.
ViolationsHaveAged(m) ==
  audited[m] <= Cardinality({k \in Stored(m) :
    LET c == records[m][k]
    IN /\ TypeOf[c] \in {"news", "jobs"}
       /\ cutoff[<<m, TypeOf[c]>>] <= Posted[c] /\ Posted[c] < now - Hours})

\* Both are so in the manifest of every run in memory.
ExportMatchesCounts == \A m \in Master :
  phase[m] \in {"exported", "completed"} /\ storage[m] # Postgres
    => RowsMatchCounts(m) /\ ViolationsHaveAged(m)

\* The manifest of a completed run, "export_status completed" with its success
\* counts, means that at least so many rows have been exported.
CompletedIsExported == \A m \in Master :
  phase[m] = "completed"
    => \A v \in ToSet(Order) : exported[m][v] >= count[<<m, v>>].stored

\* Every master run ends, whatever fails: it completes or raises, and no
\* pipeline of it is left behind.
MasterEnds == \A m \in Master :
  phase[m] = "verticals" ~> /\ phase[m] \in {"completed", "raised"}
                            /\ \A v \in ToSet(Order) : pc[<<m, v>>] \notin Working
=============================================================================

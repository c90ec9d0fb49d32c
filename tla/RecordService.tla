---------------------------- MODULE RecordService ----------------------------
(***************************************************************************)
(* What the pipelines take an upsert of a repository to be: a record takes  *)
(* the place of the one in its row, in one step, and the answer is True if  *)
(* there was none.  A caller that is cut off may miss the answer, and an    *)
(* upsert that is refused is no step at all.  For the repository in memory, *)
(* whose upsert_record this is word for word, the row is the natural key.   *)
(***************************************************************************)
EXTENDS Naturals

CONSTANTS Record, Row, RowOf, NoRecord

VARIABLES table,  \* the record in every row
          told    \* the upserts that have answered True

Init == table = [u \in Row |-> NoRecord] /\ told = 0

Store(r) == table' = [table EXCEPT ![RowOf[r]] = r]

Answered(r) == Store(r) /\ told' = IF table[RowOf[r]] = NoRecord THEN told + 1 ELSE told
Unheard(r) == Store(r) /\ UNCHANGED told

Next == \E r \in Record : Answered(r) \/ Unheard(r)

Spec == Init /\ [][Next]_<<table, told>>
=============================================================================

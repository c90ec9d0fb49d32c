----------------------------- MODULE MCWorkLease -----------------------------
(***************************************************************************)
(* Instances of WorkLease for TLC.                                          *)
(***************************************************************************)
EXTENDS WorkLease, TLC

CONSTANTS w1, w2, w3, c1, c2

\* All workers in one process, or two processes that share a Redis server.
OneProcess == [w \in Worker |-> c1]
TwoProcesses == [w \in Worker |-> IF w = w1 THEN c1 ELSE c2]

Both == BOOLEAN
AlwaysBeat == {TRUE}
=============================================================================

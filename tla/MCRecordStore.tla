---------------------------- MODULE MCRecordStore ----------------------------
(***************************************************************************)
(* Instances of RecordStore for TLC.                                        *)
(***************************************************************************)
EXTENDS RecordStore, TLC

CONSTANTS posting, reposted, renamed, other, k1, k2, u1, u2, c1, c2, c3

\* Job postings: the same company and role again under a new URL, and the
\* same URL with the role renamed.
Keys == (posting :> k1) @@ (reposted :> k1) @@ (renamed :> k2) @@ (other :> k2)
Rows == (posting :> u1) @@ (reposted :> u2) @@ (renamed :> u1) @@ (other :> u2)

Crossed == {<<posting, other>>, <<renamed>>, <<reposted>>}
=============================================================================

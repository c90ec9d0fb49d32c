---------------------------- MODULE LeaseService ----------------------------
(***************************************************************************)
(* What a work-lease coordinator promises to its workers: at any moment a  *)
(* target has at most one holder, and it passes from one holder to the     *)
(* next only through a moment at which it has none (the lease was released *)
(* or it ran out).                                                         *)
(***************************************************************************)
CONSTANTS Worker,   \* the identities that claim targets
          Target,   \* the targets of the crawl
          NoWorker  \* "nobody holds the target"

VARIABLE holder     \* the worker inside its granted lease, for every target

Init == holder = [t \in Target |-> NoWorker]

\* A free target may be granted, a held one may only become free; one step
\* may change several targets, as the passing of time ends many leases.
Change == /\ holder' \in [Target -> Worker \cup {NoWorker}]
          /\ \A t \in Target : \/ holder'[t] = holder[t]
                               \/ holder[t] = NoWorker
                               \/ holder'[t] = NoWorker

Spec == Init /\ [][Change]_holder
=============================================================================

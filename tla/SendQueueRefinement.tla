------------------------- MODULE SendQueueRefinement -------------------------
(* The queue implements the contract of a job.                             *)
EXTENDS SendQueue

\* A pending or claimed row is an open job; a run begins with its claim.
Phase == [j \in Job |-> IF status[j] \in {"pending", "claimed"} THEN "open" ELSE status[j]]

Contract == INSTANCE JobContract WITH phase <- Phase, runs <- claims

\* Every behaviour of the table is one the contract allows: no job is run
\* too often, none closes without a run, and none closes twice or reopens.
ImplementsContract == Contract!Spec

=============================================================================

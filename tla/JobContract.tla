----------------------------- MODULE JobContract -----------------------------
(***************************************************************************)
(* What the send queue promises about a job, without rows, replicas or     *)
(* claims: an accepted job is open; while it is open it is run, at most    *)
(* MaxAttempts times; having been run it closes, once, as done or failed;  *)
(* a closed job is only ever purged.  SendQueueRefinement shows that the   *)
(* queue implements this as long as replicas renew their claims in time.   *)
(***************************************************************************)
EXTENDS Naturals

CONSTANTS Job,         \* the jobs
          MaxAttempts  \* how often a job may be run

VARIABLES phase,  \* of each job: "absent", "open", "done", "failed", "deleted"
          runs    \* how often each job has been run

vars == <<phase, runs>>

Init ==
  /\ phase = [j \in Job |-> "absent"]
  /\ runs = [j \in Job |-> 0]

\* A job is accepted.
Accept(j) ==
  /\ phase[j] = "absent"
  /\ phase' = [phase EXCEPT ![j] = "open"]
  /\ UNCHANGED runs

\* An open job with attempts left is run.
Run(j) ==
  /\ phase[j] = "open"
  /\ runs[j] < MaxAttempts
  /\ runs' = [runs EXCEPT ![j] = @ + 1]
  /\ UNCHANGED phase

\* Open jobs that have been run close with the same result: one worker closes
\* one job, a recovery pass gives up any number of them.
Close(S, result) ==
  /\ \A j \in S : phase[j] = "open" /\ runs[j] > 0
  /\ phase' = [j \in Job |-> IF j \in S THEN result ELSE phase[j]]
  /\ UNCHANGED runs

\* Closed jobs are purged.
Purge(S) ==
  /\ \A j \in S : phase[j] \in {"done", "failed"}
  /\ phase' = [j \in Job |-> IF j \in S THEN "deleted" ELSE phase[j]]
  /\ UNCHANGED runs

Next ==
  \/ \E j \in Job : Accept(j) \/ Run(j) \/ Close({j}, "done")
  \/ \E S \in SUBSET Job : Close(S, "failed") \/ Purge(S)

Spec == Init /\ [][Next]_vars

=============================================================================

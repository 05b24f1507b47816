------------------------------ MODULE SendQueue ------------------------------
(***************************************************************************)
(* The persistent send queue: the table send_jobs (repository/             *)
(* send_job_repo.go) and the goroutines of every replica that work on it   *)
(* (service/queue.go): the enqueueing callers, the worker pool, the claim  *)
(* renewal, the loop that recovers stale claims and the cleaner.           *)
(*                                                                         *)
(* One SQL statement is one step: MySQL executes a statement atomically    *)
(* and the code never opens a transaction around two of them, so other     *)
(* replicas, crashes and the clock interleave between any two statements.  *)
(*                                                                         *)
(* Time stamps are kept as distances, which makes time unbounded and the   *)
(* state finite: claim_age is NOW() - claimed_at (it stops counting at     *)
(* ClaimTTL + 1), retry_in is next_retry_at - NOW() (never below 0), and   *)
(* idle_age is NOW() - updated_at of a finished row (up to Retention + 1). *)
(*                                                                         *)
(* The columns tasks.last_run_at and tasks.next_run_at that Enqueue and    *)
(* process also write are read by no statement of the queue; they belong   *)
(* to module TaskSchedule.  vars_json is always written by Enqueue as      *)
(* valid JSON, so the branch for a corrupt one is left out.                *)
(***************************************************************************)
EXTENDS Integers, Sequences, FiniteSets

CONSTANTS
  Instance,     \* ids of the replicas (INSTANCE_ID)
  Worker,       \* the worker goroutines of all the replicas
  Home,         \* the replica each worker belongs to
  MaxJobs,      \* bound: ids that send_jobs may hand out
  MaxCalls,     \* bound: Enqueue calls between their check and their insert
  Task,         \* the tasks jobs belong to
  Key,          \* the non-NULL dedupe keys
  NoKey,        \* dedupe_key IS NULL
  NoInstance,   \* claimed_by IS NULL
  MaxAttempts,  \* QUEUE_MAX_ATTEMPTS
  Backoff,      \* QUEUE_RETRY_BACKOFF, in ticks
  Skew,         \* how far each replica's clock is ahead of the database's
  ClaimTTL,     \* QUEUE_CLAIM_TTL, in ticks
  Retention,    \* QUEUE_JOB_RETENTION_DAYS, in ticks
  Timely,       \* TRUE: no replica lets a claim it works on get older than the TTL
  DBFaults,     \* TRUE: any statement may fail
  MaxCrashes,   \* bound on crashes and forced exits
  MaxStops      \* bound on graceful stops

ASSUME QueueAssumption ==
  /\ Home \in [Worker -> Instance]
  /\ IsFiniteSet(Worker)
  /\ NoInstance \notin Instance
  /\ NoKey \notin Key
  /\ MaxJobs \in Nat
  /\ MaxCalls \in Nat
  /\ MaxAttempts \in Nat \ {0}
  /\ Backoff \in Seq(Nat)
  /\ Skew \in [Instance -> Int]
  /\ ClaimTTL \in Nat \ {0}
  /\ Retention \in Nat
  /\ Timely \in BOOLEAN
  /\ DBFaults \in BOOLEAN
  /\ MaxCrashes \in Nat
  /\ MaxStops \in Nat

Job == 1 .. MaxJobs
NoJob == 0

\* The columns of a job that never change once it is inserted.
Request == [task : Task, log : BOOLEAN, key : Key \cup {NoKey}]
NoRow == [task |-> NoKey, log |-> FALSE, key |-> NoKey]

VARIABLES
  inst,        \* each replica: "down", "up" or "stopping" (stopCh closed)
  recover,     \* each replica's recoverLoop: "idle", or between its statements
  pc,          \* where each worker is
  cur,         \* the job a worker has selected or holds
  seen,        \* the attempts value a worker's MarkFailed read back
  row,         \* task_id, log_id and dedupe_key of each job
  status,      \* send_jobs.status; "absent" before the insert, "deleted" after
  claimed_by,
  claim_age,
  attempts,
  retry_in,
  idle_age,
  task,        \* tasks: "enabled", "disabled" or (soft-)"deleted"
  failed_log,  \* task_logs holds a failed row of this task
  reqs,        \* Enqueue calls between their check and their insert
  crashes, stops,
  claims,      \* history: how often each job was claimed
  delivered,   \* history: how many runs of the job sent it completely
  skipped      \* history: a run found the task deleted or disabled

instVars  == <<inst, recover, crashes, stops>>
workVars  == <<pc, cur, seen>>
rowVars   == <<row, status, claimed_by, claim_age, attempts, retry_in, idle_age>>
taskVars  == <<task, failed_log>>
ghostVars == <<claims, delivered, skipped>>
vars == <<instVars, workVars, rowVars, taskVars, reqs, ghostVars>>

Running(i) == inst[i] \in {"up", "stopping"}
Live(w)    == Running(Home[w])

BusyPCs == {"loaded", "sending", "mark_done", "mark_failed", "panicked",
            "write_failed", "write_pending"}
Busy(w)  == pc[w] \in BusyPCs
Holds(w) == status[cur[w]] = "claimed" /\ claimed_by[cur[w]] = Home[w]

Terminal == {"done", "failed"}

Init ==
  /\ inst = [i \in Instance |-> "down"]
  /\ recover = [i \in Instance |-> "idle"]
  /\ pc = [w \in Worker |-> "idle"]
  /\ cur = [w \in Worker |-> NoJob]
  /\ seen = [w \in Worker |-> 0]
  /\ row = [j \in Job |-> NoRow]
  /\ status = [j \in Job |-> "absent"]
  /\ claimed_by = [j \in Job |-> NoInstance]
  /\ claim_age = [j \in Job |-> 0]
  /\ attempts = [j \in Job |-> 0]
  /\ retry_in = [j \in Job |-> 0]
  /\ idle_age = [j \in Job |-> 0]
  /\ task = [t \in Task |-> "enabled"]
  /\ failed_log = [t \in Task |-> FALSE]
  /\ reqs = {}
  /\ crashes = 0
  /\ stops = 0
  /\ claims = [j \in Job |-> 0]
  /\ delivered = [j \in Job |-> 0]
  /\ skipped = [j \in Job |-> FALSE]

-----------------------------------------------------------------------------
(* Row updates shared by several statements.                               *)

\* backoffFor: the delay after the failure with this index (from 0); indices
\* below the list take the first, beyond it the last, and no list no delay.
backoffFor(attempt) ==
  IF Backoff = <<>> THEN 0
  ELSE Backoff[IF attempt < 0 THEN 1
               ELSE IF attempt >= Len(Backoff) THEN Len(Backoff)
               ELSE attempt + 1]

\* next_retry_at is computed with replica i's clock and compared with NOW().
RetryDelay(i, attempt) ==
  LET d == backoffFor(attempt) + Skew[i] IN IF d < 0 THEN 0 ELSE d

\* One worker goes on to another program point.
Goto(w, p) == pc' = [pc EXCEPT ![w] = p]

\* process (or Claim) returns: the worker is back in workerLoop.
Return(w) ==
  /\ Goto(w, "idle")
  /\ cur' = [cur EXCEPT ![w] = NoJob]
  /\ seen' = [seen EXCEPT ![w] = 0]

\* A statement returns an error and has no effect.
Fault == DBFaults

-----------------------------------------------------------------------------
(* Enqueue and EnqueueLogRetry.                                            *)

\* Bounds: calls are modelled while an id is left for their row.
Accepting == Cardinality(reqs) < MaxCalls /\ \E j \in Job : status[j] = "absent"

\* Enqueue, up to the insert: the task exists and is enabled.
EnqueueCheck(t, k) ==
  /\ \E i \in Instance : Running(i)
  /\ Accepting
  /\ task[t] = "enabled"
  /\ reqs' = reqs \cup {[task |-> t, log |-> FALSE, key |-> k]}
  /\ UNCHANGED <<instVars, workVars, rowVars, taskVars, ghostVars>>

\* EnqueueLogRetry, up to the insert: a failed log of an enabled task.
EnqueueLogRetryCheck(t) ==
  /\ \E i \in Instance : Running(i)
  /\ Accepting
  /\ failed_log[t]
  /\ task[t] = "enabled"
  /\ reqs' = reqs \cup {[task |-> t, log |-> TRUE, key |-> NoKey]}
  /\ UNCHANGED <<instVars, workVars, rowVars, taskVars, ghostVars>>

\* Mutated: the index covers unfinished jobs only.
Duplicate_UnfinishedOnly(r) ==
  /\ r.key # NoKey
  /\ \E j \in Job : row[j].key = r.key /\ status[j] \in {"pending", "claimed"}

\* The unique index on dedupe_key already holds this key.
Duplicate(r) ==
  /\ r.key # NoKey
  /\ \E j \in Job : row[j].key = r.key /\ status[j] \notin {"absent", "deleted"}

\* Create inserts a new row under the next id ...
Create(r, j) ==
  /\ r \in reqs
  /\ ~Duplicate(r)
  /\ status[j] = "absent"
  /\ \A k \in Job : k < j => status[k] # "absent"
  /\ row' = [row EXCEPT ![j] = r]
  /\ status' = [status EXCEPT ![j] = "pending"]
  /\ reqs' = reqs \ {r}
  /\ UNCHANGED <<claimed_by, claim_age, attempts, retry_in, idle_age,
                 instVars, workVars, taskVars, ghostVars>>

\* ... or, on a duplicate key, only returns the id of the existing one.
CreateDuplicate(r) ==
  /\ r \in reqs
  /\ Duplicate(r)
  /\ reqs' = reqs \ {r}
  /\ UNCHANGED <<instVars, workVars, rowVars, taskVars, ghostVars>>

\* The insert fails, or the replica dies first: the caller gets an error.
CreateFails(r) ==
  /\ r \in reqs
  /\ reqs' = reqs \ {r}
  /\ UNCHANGED <<instVars, workVars, rowVars, taskVars, ghostVars>>

\* TaskService toggles the task's enabled column.
SetEnabled(t) ==
  /\ task[t] # "deleted"
  /\ task' = [task EXCEPT ![t] = IF @ = "enabled" THEN "disabled" ELSE "enabled"]
  /\ UNCHANGED <<instVars, workVars, rowVars, failed_log, reqs, ghostVars>>

\* TaskService soft-deletes the task; its jobs stay.
DeleteTask(t) ==
  /\ task[t] # "deleted"
  /\ task' = [task EXCEPT ![t] = "deleted"]
  /\ UNCHANGED <<instVars, workVars, rowVars, failed_log, reqs, ghostVars>>

-----------------------------------------------------------------------------
(* Claim: a SELECT, then an UPDATE guarded by status='pending'.            *)

Due(j) == status[j] = "pending" /\ retry_in[j] = 0

\* SELECT id ... ORDER BY id LIMIT 1.  A stopping worker may still get here:
\* when stopCh and the ticker are both ready, select picks either.
ClaimSelect(w) ==
  /\ Live(w) /\ pc[w] = "idle"
  /\ \E j \in Job :
       /\ Due(j)
       /\ \A k \in Job : Due(k) => j <= k
       /\ cur' = [cur EXCEPT ![w] = j]
  /\ Goto(w, "selected")
  /\ UNCHANGED <<seen, instVars, rowVars, taskVars, reqs, ghostVars>>

\* The UPDATE finds the row still pending: the replica has the claim.  When
\* the GetByID that follows fails, Claim drops the job it has just claimed.
ClaimUpdate(w) ==
  LET j == cur[w] IN
  /\ Live(w) /\ pc[w] = "selected"
  /\ status[j] = "pending"
  /\ status' = [status EXCEPT ![j] = "claimed"]
  /\ claimed_by' = [claimed_by EXCEPT ![j] = Home[w]]
  /\ claim_age' = [claim_age EXCEPT ![j] = 0]
  /\ claims' = [claims EXCEPT ![j] = @ + 1]
  /\ \/ Goto(w, "loaded") /\ UNCHANGED <<cur, seen>>
     \/ Fault /\ Return(w)
  /\ UNCHANGED <<row, attempts, retry_in, idle_age, instVars, taskVars, reqs,
                 delivered, skipped>>

\* The UPDATE matches no row, or fails: nothing is claimed.
ClaimMiss(w) ==
  /\ Live(w) /\ pc[w] = "selected"
  /\ status[cur[w]] # "pending" \/ Fault
  /\ Return(w)
  /\ UNCHANGED <<instVars, rowVars, taskVars, reqs, ghostVars>>

-----------------------------------------------------------------------------
(* process: load the task, send, record the outcome.                       *)

\* Mutated: any error of the lookup is taken for "the task is gone".
LoadTask_ErrorEndsJob(w) ==
  LET j == cur[w] IN
  /\ Live(w) /\ pc[w] = "loaded"
  /\ \/ /\ row[j].log \/ task[row[j].task] = "enabled"
        /\ Goto(w, "sending") /\ UNCHANGED skipped
     \/ /\ ~row[j].log /\ Fault
        /\ Goto(w, "mark_done") /\ UNCHANGED skipped
  /\ UNCHANGED <<cur, seen, instVars, rowVars, taskVars, reqs, claims, delivered>>

\* A log retry goes straight to ResendLog; otherwise the task is loaded: a
\* deleted or disabled one ends the job, a database error is a failed run.
LoadTask(w) ==
  LET j == cur[w]
      t == row[j].task
      skip == ~row[j].log /\ task[t] # "enabled" IN
  /\ Live(w) /\ pc[w] = "loaded"
  /\ \/ /\ row[j].log \/ task[t] = "enabled"
        /\ Goto(w, "sending") /\ UNCHANGED skipped
     \/ /\ skip
        /\ Goto(w, "mark_done") /\ skipped' = [skipped EXCEPT ![j] = TRUE]
     \/ /\ ~row[j].log /\ Fault
        /\ Goto(w, "mark_failed") /\ UNCHANGED skipped
  /\ UNCHANGED <<cur, seen, instVars, rowVars, taskVars, reqs, claims, delivered>>

\* SendTask or ResendLog delivers everything it has to (a disabled channel or
\* template only leaves a failed log).
SendOK(w) ==
  LET j == cur[w] IN
  /\ Live(w) /\ pc[w] = "sending"
  /\ row[j].log \/ task[row[j].task] = "enabled"
  /\ delivered' = [delivered EXCEPT ![j] = @ + 1]
  /\ Goto(w, "mark_done")
  /\ failed_log' \in {failed_log, [failed_log EXCEPT ![row[j].task] = TRUE]}
  /\ UNCHANGED <<cur, seen, task, instVars, rowVars, reqs, claims, skipped>>

\* Or it fails, usually leaving a failed log.  The outcome of a log retry is
\* ignored: it is marked done all the same.  (A task disabled since LoadTask
\* makes SendTask fail too.)
SendFails(w) ==
  LET j == cur[w] IN
  /\ Live(w) /\ pc[w] = "sending"
  /\ Goto(w, IF row[j].log THEN "mark_done" ELSE "mark_failed")
  /\ failed_log' \in {failed_log, [failed_log EXCEPT ![row[j].task] = TRUE]}
  /\ UNCHANGED <<cur, seen, task, instVars, rowVars, reqs, ghostVars>>

\* Or it panics: the deferred function stops the renewal, then MarkFailed.
SendPanics(w) ==
  /\ Live(w) /\ pc[w] = "sending"
  /\ Goto(w, "panicked")
  /\ UNCHANGED <<cur, seen, instVars, rowVars, taskVars, reqs, ghostVars>>

\* The renewal goroutine refreshes claimed_at while this replica holds the
\* job - whichever of its workers it is that holds it.
RenewClaim(w) ==
  LET j == cur[w] IN
  /\ Live(w) /\ Busy(w) /\ pc[w] # "panicked"
  /\ Holds(w) /\ claim_age[j] > 0
  /\ claim_age' = [claim_age EXCEPT ![j] = 0]
  /\ UNCHANGED <<row, status, claimed_by, attempts, retry_in, idle_age,
                 instVars, workVars, taskVars, reqs, ghostVars>>

\* MarkDone: a compare-and-set on status='claimed' AND claimed_by.
MarkDone(w) ==
  LET j == cur[w] IN
  /\ Live(w) /\ pc[w] = "mark_done"
  /\ \/ /\ Holds(w)
        /\ status' = [status EXCEPT ![j] = "done"]
        /\ claimed_by' = [claimed_by EXCEPT ![j] = NoInstance]
        /\ claim_age' = [claim_age EXCEPT ![j] = 0]
     \/ /\ ~Holds(w) \/ Fault
        /\ UNCHANGED <<status, claimed_by, claim_age>>
  /\ Return(w)
  /\ UNCHANGED <<row, attempts, retry_in, idle_age, instVars, taskVars, reqs, ghostVars>>

\* Mutated: the run that is about to start is counted as well.
GiveUp_Early(n) == n + 1 >= MaxAttempts

\* The n-th failure is the last one a job gets.
GiveUp(n) == n >= MaxAttempts

\* MarkFailed, first statement: count the failure under the same
\* compare-and-set; the new count decides what the second one writes.
MarkFailedCount(w) ==
  LET j == cur[w]
      n == attempts[j] + 1 IN
  /\ Live(w) /\ pc[w] \in {"mark_failed", "panicked"}
  /\ \/ /\ Holds(w)
        /\ attempts' = [attempts EXCEPT ![j] = n]
        /\ seen' = [seen EXCEPT ![w] = n]
        /\ Goto(w, IF GiveUp(n) THEN "write_failed" ELSE "write_pending")
        /\ UNCHANGED cur
     \/ /\ ~Holds(w) \/ Fault
        /\ Return(w)
        /\ UNCHANGED attempts
  /\ UNCHANGED <<row, status, claimed_by, claim_age, retry_in, idle_age,
                 instVars, taskVars, reqs, ghostVars>>

\* MarkFailed, second statement.  Its WHERE names the id only, so it also
\* hits a row that was recovered, claimed again or finished in between.
\* (MySQL moves updated_at only when some column changes.)
MarkFailedWrite(w) ==
  LET j == cur[w]
      giveUp == pc[w] = "write_failed" IN
  /\ Live(w) /\ pc[w] \in {"write_failed", "write_pending"}
  /\ \/ /\ status[j] # "deleted"
        /\ status' = [status EXCEPT ![j] = IF giveUp THEN "failed" ELSE "pending"]
        /\ retry_in' = [retry_in EXCEPT ![j] =
                          IF giveUp THEN 0 ELSE RetryDelay(Home[w], seen[w] - 1)]
        /\ claimed_by' = [claimed_by EXCEPT ![j] = NoInstance]
        /\ claim_age' = [claim_age EXCEPT ![j] = 0]
        /\ idle_age' = [idle_age EXCEPT ![j] = IF giveUp /\ status[j] = "failed" THEN @ ELSE 0]
     \/ /\ status[j] = "deleted" \/ Fault
        /\ UNCHANGED <<status, retry_in, claimed_by, claim_age, idle_age>>
  /\ Return(w)
  /\ UNCHANGED <<row, attempts, instVars, taskVars, reqs, ghostVars>>

-----------------------------------------------------------------------------
(* recoverLoop: RecoverStale is two statements over the whole table.       *)

\* Mutated: a claim exactly as old as the TTL is stale already.
Stale_AtTTL(j) == status[j] = "claimed" /\ claim_age[j] >= ClaimTTL

Stale(j) == status[j] = "claimed" /\ claim_age[j] > ClaimTTL

\* Mutated: the run that crashed is not counted.
Exhausted_LateByOne(j) == attempts[j] >= MaxAttempts

Exhausted(j) == attempts[j] + 1 >= MaxAttempts

\* First statement: stale claims with attempts left go back to pending.  (A
\* pass that finds no stale claim changes nothing and is not modelled.)
RecoverRetry(i) ==
  LET back == {j \in Job : Stale(j) /\ ~Exhausted(j)} IN
  /\ Running(i) /\ recover[i] = "idle"
  /\ \E j \in Job : Stale(j)
  /\ status' = [j \in Job |-> IF j \in back THEN "pending" ELSE status[j]]
  /\ attempts' = [j \in Job |-> IF j \in back THEN attempts[j] + 1 ELSE attempts[j]]
  /\ claimed_by' = [j \in Job |-> IF j \in back THEN NoInstance ELSE claimed_by[j]]
  /\ claim_age' = [j \in Job |-> IF j \in back THEN 0 ELSE claim_age[j]]
  /\ retry_in' = [j \in Job |-> IF j \in back THEN RetryDelay(i, 0) ELSE retry_in[j]]
  /\ recover' = [recover EXCEPT ![i] = "fail"]
  /\ UNCHANGED <<row, idle_age, inst, crashes, stops, workVars, taskVars, reqs, ghostVars>>

\* Mutated: the two statements leave out attempts + 1 = MaxAttempts.
RecoverFail_Gap(i) ==
  LET dead == {j \in Job : Stale(j) /\ attempts[j] >= MaxAttempts} IN
  /\ Running(i) /\ recover[i] = "fail"
  /\ status' = [j \in Job |-> IF j \in dead THEN "failed" ELSE status[j]]
  /\ claimed_by' = [j \in Job |-> IF j \in dead THEN NoInstance ELSE claimed_by[j]]
  /\ claim_age' = [j \in Job |-> IF j \in dead THEN 0 ELSE claim_age[j]]
  /\ retry_in' = [j \in Job |-> IF j \in dead THEN 0 ELSE retry_in[j]]
  /\ recover' = [recover EXCEPT ![i] = "idle"]
  /\ UNCHANGED <<row, attempts, idle_age, inst, crashes, stops, workVars, taskVars,
                 reqs, ghostVars>>

\* Second statement: stale claims without attempts left end as failed.
RecoverFail(i) ==
  LET dead == {j \in Job : Stale(j) /\ Exhausted(j)} IN
  /\ Running(i) /\ recover[i] = "fail"
  /\ status' = [j \in Job |-> IF j \in dead THEN "failed" ELSE status[j]]
  /\ claimed_by' = [j \in Job |-> IF j \in dead THEN NoInstance ELSE claimed_by[j]]
  /\ claim_age' = [j \in Job |-> IF j \in dead THEN 0 ELSE claim_age[j]]
  /\ retry_in' = [j \in Job |-> IF j \in dead THEN 0 ELSE retry_in[j]]
  /\ recover' = [recover EXCEPT ![i] = "idle"]
  /\ UNCHANGED <<row, attempts, idle_age, inst, crashes, stops, workVars, taskVars,
                 reqs, ghostVars>>

\* The second statement fails; the next pass starts over.
RecoverError(i) ==
  /\ Running(i) /\ recover[i] = "fail" /\ Fault
  /\ recover' = [recover EXCEPT ![i] = "idle"]
  /\ UNCHANGED <<inst, crashes, stops, workVars, rowVars, taskVars, reqs, ghostVars>>

\* cleanerLoop: CleanupDoneOlderThan deletes finished rows past retention.
CleanupDone(i) ==
  LET old == {j \in Job : status[j] \in Terminal /\ idle_age[j] > Retention} IN
  /\ Running(i)
  /\ old # {}
  /\ status' = [j \in Job |-> IF j \in old THEN "deleted" ELSE status[j]]
  /\ idle_age' = [j \in Job |-> IF j \in old THEN 0 ELSE idle_age[j]]
  /\ UNCHANGED <<row, claimed_by, claim_age, attempts, retry_in, instVars,
                 workVars, taskVars, reqs, ghostVars>>

\* cleanerLoop also deletes old logs: the last failed one of a task may go.
CleanupLogs(i) ==
  /\ Running(i)
  /\ \E t \in Task : failed_log[t] /\ failed_log' = [failed_log EXCEPT ![t] = FALSE]
  /\ UNCHANGED <<task, instVars, workVars, rowVars, reqs, ghostVars>>

-----------------------------------------------------------------------------
(* Replicas start, stop and crash; time passes.                            *)

\* Start launches the workers and the loops.
Start(i) ==
  /\ inst[i] = "down"
  /\ inst' = [inst EXCEPT ![i] = "up"]
  /\ UNCHANGED <<recover, crashes, stops, workVars, rowVars, taskVars, reqs, ghostVars>>

\* StopWithTimeout closes stopCh ...
Stop(i) ==
  /\ inst[i] = "up" /\ stops < MaxStops
  /\ inst' = [inst EXCEPT ![i] = "stopping"]
  /\ stops' = stops + 1
  /\ UNCHANGED <<recover, crashes, workVars, rowVars, taskVars, reqs, ghostVars>>

\* ... every worker leaves its loop once it is between two jobs ...
WorkerExit(w) ==
  /\ inst[Home[w]] = "stopping" /\ pc[w] = "idle"
  /\ Goto(w, "exited")
  /\ UNCHANGED <<cur, seen, instVars, rowVars, taskVars, reqs, ghostVars>>

\* Mutated: nothing waits for the workers.
Drained_NoWait(i) ==
  /\ inst[i] = "stopping" /\ recover[i] = "idle"
  /\ inst' = [inst EXCEPT ![i] = "down"]
  /\ pc' = [w \in Worker |-> IF Home[w] = i THEN "idle" ELSE pc[w]]
  /\ cur' = [w \in Worker |-> IF Home[w] = i THEN NoJob ELSE cur[w]]
  /\ seen' = [w \in Worker |-> IF Home[w] = i THEN 0 ELSE seen[w]]
  /\ UNCHANGED <<recover, crashes, stops, rowVars, taskVars, reqs, ghostVars>>

\* ... and the wait group lets the process end.
Drained(i) ==
  /\ inst[i] = "stopping" /\ recover[i] = "idle"
  /\ \A w \in Worker : Home[w] = i => pc[w] = "exited"
  /\ inst' = [inst EXCEPT ![i] = "down"]
  /\ pc' = [w \in Worker |-> IF Home[w] = i THEN "idle" ELSE pc[w]]
  /\ UNCHANGED <<recover, crashes, stops, cur, seen, rowVars, taskVars, reqs, ghostVars>>

\* A crash, or a drain that times out: the goroutines are gone, the table stays.
Crash(i) ==
  /\ Running(i) /\ crashes < MaxCrashes
  /\ inst' = [inst EXCEPT ![i] = "down"]
  /\ crashes' = crashes + 1
  /\ recover' = [recover EXCEPT ![i] = "idle"]
  /\ pc' = [w \in Worker |-> IF Home[w] = i THEN "idle" ELSE pc[w]]
  /\ cur' = [w \in Worker |-> IF Home[w] = i THEN NoJob ELSE cur[w]]
  /\ seen' = [w \in Worker |-> IF Home[w] = i THEN 0 ELSE seen[w]]
  /\ UNCHANGED <<stops, rowVars, taskVars, reqs, ghostVars>>

Older(age, limit) == IF age < limit THEN age + 1 ELSE age

\* The database clock advances.  When Timely, no running replica has let a
\* claim it is working on reach the TTL without a renewal or its last write.
Tick ==
  /\ Timely => \A w \in Worker : Live(w) /\ Busy(w) /\ Holds(w) => claim_age[cur[w]] < ClaimTTL
  /\ claim_age' = [j \in Job |-> IF status[j] = "claimed"
                                 THEN Older(claim_age[j], ClaimTTL + 1) ELSE claim_age[j]]
  /\ retry_in' = [j \in Job |-> IF retry_in[j] > 0 THEN retry_in[j] - 1 ELSE 0]
  /\ idle_age' = [j \in Job |-> IF status[j] \in Terminal
                                THEN Older(idle_age[j], Retention + 1) ELSE idle_age[j]]
  /\ UNCHANGED <<row, status, claimed_by, attempts, instVars, workVars, taskVars,
                 reqs, ghostVars>>

-----------------------------------------------------------------------------

EnqueueNext ==
  \/ \E t \in Task, k \in Key \cup {NoKey} : EnqueueCheck(t, k)
  \/ \E t \in Task : EnqueueLogRetryCheck(t)
  \/ \E r \in reqs, j \in Job : Create(r, j)
  \/ \E r \in reqs : CreateDuplicate(r)
  \/ \E r \in reqs : CreateFails(r)
  \/ \E t \in Task : SetEnabled(t)
  \/ \E t \in Task : DeleteTask(t)

ProcessStep(w) ==
  \/ LoadTask(w)
  \/ SendOK(w)
  \/ SendFails(w)
  \/ SendPanics(w)
  \/ MarkDone(w)
  \/ MarkFailedCount(w)
  \/ MarkFailedWrite(w)

WorkerNext(w) ==
  \/ ClaimSelect(w)
  \/ ClaimUpdate(w)
  \/ ClaimMiss(w)
  \/ ProcessStep(w)
  \/ RenewClaim(w)
  \/ WorkerExit(w)

InstanceNext(i) ==
  \/ RecoverRetry(i)
  \/ RecoverFail(i)
  \/ RecoverError(i)
  \/ CleanupDone(i)
  \/ CleanupLogs(i)
  \/ Start(i)
  \/ Stop(i)
  \/ Drained(i)
  \/ Crash(i)

Next ==
  \/ EnqueueNext
  \/ \E w \in Worker : WorkerNext(w)
  \/ \E i \in Instance : InstanceNext(i)
  \/ Tick

Spec == Init /\ [][Next]_vars

\* What keeps running: the tickers of the loops of a live replica, the run of
\* a job (sends have timeouts), the clock; and a database error does not
\* repeat for ever, hence strong fairness of the statements that one can
\* skip.  No supervisor is assumed: a dead replica may stay dead.
FairSpec ==
  /\ Spec
  /\ \A w \in Worker :
       /\ WF_vars(ClaimSelect(w)) /\ SF_vars(ClaimUpdate(w)) /\ WF_vars(ClaimMiss(w))
       /\ WF_vars(ProcessStep(w))
  /\ \A i \in Instance : SF_vars(RecoverRetry(i)) /\ SF_vars(RecoverFail(i))
  /\ WF_vars(Tick)

-----------------------------------------------------------------------------
(* Properties.                                                             *)

ReplicaType ==
  /\ inst \in [Instance -> {"down", "up", "stopping"}]
  /\ recover \in [Instance -> {"idle", "fail"}]
  /\ crashes \in 0 .. MaxCrashes
  /\ stops \in 0 .. MaxStops

WorkerType ==
  /\ pc \in [Worker -> BusyPCs \cup {"idle", "selected", "exited"}]
  /\ cur \in [Worker -> Job \cup {NoJob}]
  /\ seen \in [Worker -> Nat]
  /\ \A w \in Worker : pc[w] \notin {"idle", "exited"} => cur[w] \in Job /\ Live(w)

RowType ==
  /\ row \in [Job -> Request \cup {NoRow}]
  /\ status \in [Job -> {"absent", "pending", "claimed", "deleted"} \cup Terminal]
  /\ claimed_by \in [Job -> Instance \cup {NoInstance}]
  /\ claim_age \in [Job -> 0 .. ClaimTTL + 1]
  /\ attempts \in [Job -> Nat]
  /\ retry_in \in [Job -> Nat]
  /\ idle_age \in [Job -> 0 .. Retention + 1]
  /\ \A j \in Job : status[j] = "claimed" <=> claimed_by[j] # NoInstance

RequestType ==
  /\ task \in [Task -> {"enabled", "disabled", "deleted"}]
  /\ failed_log \in [Task -> BOOLEAN]
  /\ reqs \subseteq Request

HistoryType ==
  /\ claims \in [Job -> Nat]
  /\ delivered \in [Job -> Nat]
  /\ skipped \in [Job -> BOOLEAN]

\* The type of every variable: rows, workers and replicas hold only the
\* values the columns and goroutines of the code can hold, a worker has a
\* job exactly while it works, and a row has an owner exactly while claimed.
TypeOK == ReplicaType /\ WorkerType /\ RowType /\ RequestType /\ HistoryType

\* No poison message: whatever crashes, takeovers, database errors and late
\* statements do, a job is claimed - and so sent - at most MaxAttempts times
\* (RecoverStale counts the attempts a crashed replica could not count).
BoundedClaims == \A j \in Job : claims[j] <= MaxAttempts

\* Why that is so.  A job has claims left as long as it is, or will be put
\* back to, pending; each of those is paid for by one counted attempt below
\* MaxAttempts: Owed are the workers whose counted failure still has to
\* release the row (or to release it a second time, after a takeover).
Owed(j) == {w \in Worker : pc[w] = "write_pending" /\ cur[w] = j}
Claimable(j) == IF status[j] \in {"absent", "pending"} THEN 1 ELSE 0
Budget(j) == IF attempts[j] < MaxAttempts THEN attempts[j] + 1 ELSE MaxAttempts

\* The inductive form of BoundedClaims: claims made plus claims still to come
\* never exceed the counted attempts plus one, nor MaxAttempts.
ClaimBudget ==
  \A j \in Job : claims[j] + Cardinality(Owed(j)) + Claimable(j) <= Budget(j)

\* Only a claim makes a row claimed.
ClaimedWasCounted == \A j \in Job : status[j] = "claimed" => claims[j] > 0

\* While every replica renews in time, the worker that processes a job is
\* the only one that does and its replica still holds the claim: no takeover
\* of a live run, no second sender (Claim's guard, RenewClaim, RecoverStale).
ExclusiveClaim ==
  \A w \in Worker : Busy(w) =>
    /\ Holds(w)
    /\ \A v \in Worker \ {w} : Busy(v) => cur[v] # cur[w]

\* The inductive form: moreover the claim of a running job is never stale.
FreshClaim ==
  /\ ExclusiveClaim
  /\ \A w \in Worker : Busy(w) => claim_age[cur[w]] <= ClaimTTL

\* A job that is done was sent completely by some run, or its task was
\* deleted or disabled; a database error never turns into a silent "done".
DoneMeansHandled ==
  \A j \in Job : status[j] = "done" /\ ~row[j].log => delivered[j] > 0 \/ skipped[j]

\* MarkFailed's promise: "after the claim has been taken over, the old
\* instance's failure record has no effect".
FailureNeedsClaim ==
  [][\A w \in Worker :
       (pc[w] \in {"write_failed", "write_pending"} /\ MarkFailedWrite(w)
          /\ status'[cur[w]] # status[cur[w]]) => Holds(w)]_vars

\* With no crash, no late replica and no database error a job is sent
\* completely at most once, however many replicas poll the table, and so is
\* everything that was enqueued under one dedupe key (while its row is kept).
NoDuplicateDelivery ==
  \A j, k \in Job :
    /\ delivered[j] <= 1
    /\ (/\ j # k /\ row[j].key = row[k].key /\ row[j].key # NoKey
        /\ "deleted" \notin {status[j], status[k]}) => delivered[j] + delivered[k] <= 1

\* Under the same conditions a job is given up only after MaxAttempts runs.
FailedMeansExhausted == \A j \in Job : status[j] = "failed" => claims[j] = MaxAttempts

\* A replica whose drain completes leaves no job claimed behind.
CleanExit ==
  [][\A i \in Instance : Drained(i) => \A j \in Job : claimed_by[j] # i]_vars

\* Takeover: one replica that stays up is enough to finish every accepted
\* job.  No claim is orphaned for ever: not by a replica that crashed and
\* never comes back, nor by a job dropped after its claim, nor by a lost
\* statement.
SurvivorFinishes ==
  \A i \in Instance : <>[](inst[i] = "up") =>
    \A j \in Job : status[j] = "pending" ~> status[j] \in Terminal \cup {"deleted"}

=============================================================================

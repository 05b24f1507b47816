---------------------------- MODULE SendQueueProofs ----------------------------
(***************************************************************************)
(* Theorems about SendQueue, for every number of replicas, workers, jobs   *)
(* and attempts, every backoff list and every clock skew.                  *)
(***************************************************************************)
EXTENDS SendQueueRefinement, FiniteSetTheorems, TLAPS

\* Delays are natural numbers: next_retry_at never lies before NOW() in the
\* model, whatever list is configured and however the clocks differ.
LEMMA DelayNat ==
  ASSUME NEW i \in Instance, NEW n \in Int
  PROVE  RetryDelay(i, n) \in Nat
<1>1. backoffFor(n) \in Nat
  BY QueueAssumption DEF backoffFor
<1> QED
  BY <1>1, QueueAssumption DEF RetryDelay

-----------------------------------------------------------------------------
(* Type correctness, one group of variables at a time.                     *)

LEMMA TypeInit == Init => TypeOK
  BY QueueAssumption DEF Init, TypeOK, ReplicaType, WorkerType, RowType, RequestType,
     HistoryType, NoJob, BusyPCs, Terminal

\* A worker that is past its SELECT has a job.
LEMMA WorkingJob ==
  ASSUME TypeOK, NEW w \in Worker, pc[w] \notin {"idle", "exited"}
  PROVE  cur[w] \in Job
  BY DEF TypeOK, WorkerType

LEMMA ReplicaTypeStep == TypeOK /\ [Next]_vars => ReplicaType'
<1> SUFFICES ASSUME TypeOK, [Next]_vars PROVE ReplicaType'
  OBVIOUS
<1> USE QueueAssumption DEF TypeOK, ReplicaType, instVars, workVars, rowVars, taskVars, ghostVars
<1>1. CASE UNCHANGED instVars
  BY <1>1 DEF Live, Running
<1>2. ASSUME NEW i \in Instance, RecoverRetry(i) PROVE ReplicaType'
  BY <1>2 DEF RecoverRetry, Running
<1>3. ASSUME NEW i \in Instance, RecoverFail(i) PROVE ReplicaType'
  BY <1>3 DEF RecoverFail, Running
<1>4. ASSUME NEW i \in Instance, RecoverError(i) PROVE ReplicaType'
  BY <1>4 DEF RecoverError, Running
<1>5. ASSUME NEW i \in Instance, Start(i) PROVE ReplicaType'
  BY <1>5 DEF Start, Running
<1>6. ASSUME NEW i \in Instance, Stop(i) PROVE ReplicaType'
  BY <1>6 DEF Stop, Running
<1>7. ASSUME NEW i \in Instance, Drained(i) PROVE ReplicaType'
  BY <1>7 DEF Drained, Running
<1>8. ASSUME NEW i \in Instance, Crash(i) PROVE ReplicaType'
  BY <1>8 DEF Crash, Running
<1> QED
  BY <1>1, <1>2, <1>3, <1>4, <1>5, <1>6, <1>7, <1>8
  DEF Next, EnqueueNext, WorkerNext, ProcessStep, InstanceNext, vars,
      EnqueueCheck, EnqueueLogRetryCheck, Create, CreateDuplicate, CreateFails, SetEnabled,
      DeleteTask, ClaimSelect, ClaimUpdate, ClaimMiss, LoadTask, SendOK, SendFails,
      SendPanics, MarkDone, MarkFailedCount, MarkFailedWrite, RenewClaim, WorkerExit,
      CleanupDone, CleanupLogs, Tick

LEMMA WorkerTypeStep == TypeOK /\ [Next]_vars => WorkerType'
<1> SUFFICES ASSUME TypeOK, [Next]_vars PROVE WorkerType'
  OBVIOUS
<1> USE QueueAssumption DEF TypeOK, WorkerType, RowType, instVars, workVars, rowVars, taskVars, ghostVars
<1>1. CASE UNCHANGED <<workVars, inst>>
  BY <1>1 DEF Live, Running
<1>2. ASSUME NEW w \in Worker, ClaimSelect(w) PROVE WorkerType'
  BY <1>2 DEF ClaimSelect, Goto, Return, Live, Running, BusyPCs
<1>3. ASSUME NEW w \in Worker, ClaimUpdate(w) PROVE WorkerType'
  <2>1. UNCHANGED inst /\ Live(w) /\ cur[w] \in Job
    BY <1>3, WorkingJob DEF ClaimUpdate
  <2>2. CASE Goto(w, "loaded") /\ UNCHANGED <<cur, seen>>
    BY <2>1, <2>2 DEF Goto, Live, Running, BusyPCs
  <2>3. CASE Return(w)
    BY <2>1, <2>3 DEF Goto, Return, Live, Running, NoJob
  <2> QED
    BY <1>3, <2>2, <2>3 DEF ClaimUpdate
<1>4. ASSUME NEW w \in Worker, ClaimMiss(w) PROVE WorkerType'
  BY <1>4, WorkingJob DEF ClaimMiss, Goto, Return, Live, Running, BusyPCs
<1>5. ASSUME NEW w \in Worker, LoadTask(w) PROVE WorkerType'
  BY <1>5, WorkingJob DEF LoadTask, Goto, Return, Live, Running, BusyPCs
<1>6. ASSUME NEW w \in Worker, SendOK(w) PROVE WorkerType'
  BY <1>6, WorkingJob DEF SendOK, Goto, Return, Live, Running, BusyPCs
<1>7. ASSUME NEW w \in Worker, SendFails(w) PROVE WorkerType'
  BY <1>7 DEF SendFails, Goto, Return, Live, Running, BusyPCs
<1>8. ASSUME NEW w \in Worker, SendPanics(w) PROVE WorkerType'
  BY <1>8 DEF SendPanics, Goto, Return, Live, Running, BusyPCs
<1>9. ASSUME NEW w \in Worker, MarkDone(w) PROVE WorkerType'
  BY <1>9, WorkingJob DEF MarkDone, Goto, Return, Live, Running, BusyPCs
<1>10. ASSUME NEW w \in Worker, MarkFailedCount(w) PROVE WorkerType'
  <2>1. UNCHANGED inst /\ Live(w) /\ cur[w] \in Job
    BY <1>10, WorkingJob DEF MarkFailedCount
  <2>2. ASSUME NEW p \in {"write_failed", "write_pending"}, NEW n \in Nat,
               Goto(w, p), seen' = [seen EXCEPT ![w] = n], UNCHANGED cur
        PROVE  WorkerType'
    BY <2>1, <2>2 DEF Goto, Live, Running, BusyPCs
  <2>3. CASE Return(w)
    BY <2>1, <2>3 DEF Goto, Return, Live, Running, NoJob
  <2>4. attempts[cur[w]] + 1 \in Nat
    BY <2>1 DEF RowType
  <2> QED
    BY <1>10, <2>2, <2>3, <2>4 DEF MarkFailedCount
<1>11. ASSUME NEW w \in Worker, MarkFailedWrite(w) PROVE WorkerType'
  BY <1>11, WorkingJob DEF MarkFailedWrite, Goto, Return, Live, Running, BusyPCs
<1>12. ASSUME NEW w \in Worker, WorkerExit(w) PROVE WorkerType'
  BY <1>12 DEF WorkerExit, Goto, Return, Live, Running, BusyPCs
<1>13. ASSUME NEW i \in Instance, Start(i) PROVE WorkerType'
  BY <1>13 DEF Start, Goto, Return, Live, Running, BusyPCs
<1>14. ASSUME NEW i \in Instance, Stop(i) PROVE WorkerType'
  BY <1>14 DEF Stop, Goto, Return, Live, Running, BusyPCs
<1>15. ASSUME NEW i \in Instance, Drained(i) PROVE WorkerType'
  BY <1>15 DEF Drained, Goto, Return, Live, Running, BusyPCs
<1>16. ASSUME NEW i \in Instance, Crash(i) PROVE WorkerType'
  BY <1>16 DEF Crash, Goto, Return, Live, Running, BusyPCs
<1> QED
  BY <1>1, <1>2, <1>3, <1>4, <1>5, <1>6, <1>7, <1>8, <1>9, <1>10, <1>11, <1>12, <1>13, <1>14, <1>15, <1>16
  DEF Next, EnqueueNext, WorkerNext, ProcessStep, InstanceNext, vars,
      EnqueueCheck, EnqueueLogRetryCheck, Create, CreateDuplicate, CreateFails, SetEnabled,
      DeleteTask, RenewClaim, RecoverRetry, RecoverFail, RecoverError, CleanupDone,
      CleanupLogs, Tick

\* The columns of send_jobs.
LEMMA RowTypeStep == TypeOK /\ [Next]_vars => RowType'
<1> SUFFICES ASSUME TypeOK, [Next]_vars PROVE RowType'
  OBVIOUS
<1> USE DEF rowVars
<1>a. RowType
  BY DEF TypeOK
<1>b. 0 \in 0 .. ClaimTTL + 1 /\ 0 \in 0 .. Retention + 1
  BY QueueAssumption
<1>1. CASE UNCHANGED rowVars
  BY <1>a, <1>1 DEF RowType
<1>2. ASSUME NEW r \in reqs, NEW j \in Job, Create(r, j) PROVE RowType'
  <2>1. r \in Request
    BY DEF TypeOK, RequestType
  <2>2. row' \in [Job -> Request \cup {NoRow}]
    BY <1>a, <1>2, <2>1 DEF Create, RowType
  <2>3. status' \in [Job -> {"absent", "pending", "claimed", "deleted"} \cup Terminal]
    BY <1>a, <1>2, <2>1 DEF Create, RowType, Terminal
  <2>4. \A k \in Job : status'[k] = "claimed" <=> claimed_by'[k] # NoInstance
    BY <1>a, <1>2, <2>1, QueueAssumption DEF Create, RowType, Terminal
  <2> QED
    BY <1>a, <1>2, <2>2, <2>3, <2>4 DEF Create, RowType
<1>3. ASSUME NEW w \in Worker, ClaimUpdate(w) PROVE RowType'
  <2>1. cur[w] \in Job
    BY <1>3, WorkingJob DEF ClaimUpdate
  <2>2. status' \in [Job -> {"absent", "pending", "claimed", "deleted"} \cup Terminal]
    BY <1>a, <1>3, <2>1 DEF ClaimUpdate, RowType, Terminal
  <2>3. claimed_by' \in [Job -> Instance \cup {NoInstance}]
    BY <1>a, <1>3, <2>1, QueueAssumption DEF ClaimUpdate, RowType
  <2>4. claim_age' \in [Job -> 0 .. ClaimTTL + 1]
    BY <1>a, <1>3, <2>1, QueueAssumption DEF ClaimUpdate, RowType
  <2>5. \A k \in Job : status'[k] = "claimed" <=> claimed_by'[k] # NoInstance
    BY <1>a, <1>3, <2>1, QueueAssumption DEF ClaimUpdate, RowType, Terminal
  <2> QED
    BY <1>a, <1>3, <2>2, <2>3, <2>4, <2>5 DEF ClaimUpdate, RowType
<1>4. ASSUME NEW w \in Worker, MarkDone(w) PROVE RowType'
  <2>1. cur[w] \in Job
    BY <1>4, WorkingJob DEF MarkDone
  <2>2. UNCHANGED <<row, attempts, retry_in, idle_age>>
    BY <1>4 DEF MarkDone
  <2>3. CASE UNCHANGED <<status, claimed_by, claim_age>>
    BY <1>a, <2>2, <2>3 DEF RowType
  <2>4. CASE /\ status' = [status EXCEPT ![cur[w]] = "done"]
             /\ claimed_by' = [claimed_by EXCEPT ![cur[w]] = NoInstance]
             /\ claim_age' = [claim_age EXCEPT ![cur[w]] = 0]
    <3>1. /\ status' \in [Job -> {"absent", "pending", "claimed", "deleted"} \cup Terminal]
          /\ claimed_by' \in [Job -> Instance \cup {NoInstance}]
      BY <1>a, <2>1, <2>4 DEF RowType, Terminal
    <3>2. claim_age' \in [Job -> 0 .. ClaimTTL + 1]
      BY <1>a, <1>b, <2>1, <2>4 DEF RowType
    <3>3. \A k \in Job : status'[k] = "claimed" <=> claimed_by'[k] # NoInstance
      BY <1>a, <2>1, <2>4 DEF RowType
    <3> QED
      BY <1>a, <2>2, <3>1, <3>2, <3>3 DEF RowType
  <2> QED
    BY <1>4, <2>3, <2>4 DEF MarkDone
<1>5. ASSUME NEW w \in Worker, MarkFailedCount(w) PROVE RowType'
  <2>1. cur[w] \in Job
    BY <1>5, WorkingJob DEF MarkFailedCount
  <2>2. attempts' \in [Job -> Nat]
    BY <1>a, <1>5, <2>1 DEF MarkFailedCount, Holds, RowType
  <2> QED
    BY <1>a, <1>5, <2>2 DEF MarkFailedCount, RowType
<1>6. ASSUME NEW w \in Worker, MarkFailedWrite(w) PROVE RowType'
  <2>1. cur[w] \in Job
    BY <1>6, WorkingJob DEF MarkFailedWrite
  <2>2. UNCHANGED <<row, attempts>>
    BY <1>6 DEF MarkFailedWrite
  <2>3. CASE UNCHANGED <<status, retry_in, claimed_by, claim_age, idle_age>>
    BY <1>a, <2>2, <2>3 DEF RowType
  <2>4. ASSUME NEW s \in {"failed", "pending"}, NEW d \in Nat,
               NEW a \in 0 .. Retention + 1,
               /\ status' = [status EXCEPT ![cur[w]] = s]
               /\ retry_in' = [retry_in EXCEPT ![cur[w]] = d]
               /\ claimed_by' = [claimed_by EXCEPT ![cur[w]] = NoInstance]
               /\ claim_age' = [claim_age EXCEPT ![cur[w]] = 0]
               /\ idle_age' = [idle_age EXCEPT ![cur[w]] = a]
        PROVE  RowType'
    <3>1. /\ status' \in [Job -> {"absent", "pending", "claimed", "deleted"} \cup Terminal]
          /\ claimed_by' \in [Job -> Instance \cup {NoInstance}]
      BY <1>a, <2>1, <2>4 DEF RowType, Terminal
    <3>2. claim_age' \in [Job -> 0 .. ClaimTTL + 1]
      BY <1>a, <1>b, <2>1, <2>4 DEF RowType
    <3>3. idle_age' \in [Job -> 0 .. Retention + 1]
      BY <1>a, <1>b, <2>1, <2>4 DEF RowType
    <3>4. retry_in' \in [Job -> Nat]
      BY <1>a, <2>1, <2>4 DEF RowType
    <3>5. \A k \in Job : status'[k] = "claimed" <=> claimed_by'[k] # NoInstance
      BY <1>a, <2>1, <2>4 DEF RowType
    <3> QED
      BY <1>a, <2>2, <3>1, <3>2, <3>3, <3>4, <3>5 DEF RowType
  <2>5. RetryDelay(Home[w], seen[w] - 1) \in Nat
    BY DelayNat, QueueAssumption DEF TypeOK, WorkerType
  <2>6. idle_age[cur[w]] \in 0 .. Retention + 1
    BY <1>a, <2>1 DEF RowType
  <2> QED
    BY <1>b, <1>6, <2>3, <2>4, <2>5, <2>6 DEF MarkFailedWrite
<1>7. ASSUME NEW w \in Worker, RenewClaim(w) PROVE RowType'
  <2>1. cur[w] \in Job
    BY <1>7, WorkingJob DEF RenewClaim, Busy, BusyPCs
  <2>2. claim_age' \in [Job -> 0 .. ClaimTTL + 1]
    BY <1>a, <1>7, <2>1, QueueAssumption DEF RenewClaim, Holds, RowType
  <2> QED
    BY <1>a, <1>7, <2>2 DEF RenewClaim, RowType
<1>8. ASSUME NEW i \in Instance, RecoverRetry(i) PROVE RowType'
  <2>1. RetryDelay(i, 0) \in Nat
    BY DelayNat
  <2>2. status' \in [Job -> {"absent", "pending", "claimed", "deleted"} \cup Terminal]
    BY <1>a, <1>8, <2>1 DEF RecoverRetry, Stale, RowType, Terminal
  <2>3. attempts' \in [Job -> Nat]
    BY <1>a, <1>8, <2>1 DEF RecoverRetry, Stale, RowType
  <2>4. claimed_by' \in [Job -> Instance \cup {NoInstance}]
    BY <1>a, <1>8, <2>1, QueueAssumption DEF RecoverRetry, Stale, RowType
  <2>5. claim_age' \in [Job -> 0 .. ClaimTTL + 1]
    BY <1>a, <1>8, <2>1, QueueAssumption DEF RecoverRetry, Stale, RowType
  <2>6. retry_in' \in [Job -> Nat]
    BY <1>a, <1>8, <2>1 DEF RecoverRetry, Stale, RowType
  <2>7. \A k \in Job : status'[k] = "claimed" <=> claimed_by'[k] # NoInstance
    BY <1>a, <1>8, <2>1, QueueAssumption DEF RecoverRetry, Stale, RowType, Terminal
  <2> QED
    BY <1>a, <1>8, <2>2, <2>3, <2>4, <2>5, <2>6, <2>7 DEF RecoverRetry, RowType
<1>9. ASSUME NEW i \in Instance, RecoverFail(i) PROVE RowType'
  <2>1. status' \in [Job -> {"absent", "pending", "claimed", "deleted"} \cup Terminal]
    BY <1>a, <1>9 DEF RecoverFail, Stale, RowType, Terminal
  <2>2. claimed_by' \in [Job -> Instance \cup {NoInstance}]
    BY <1>a, <1>9, QueueAssumption DEF RecoverFail, Stale, RowType
  <2>3. claim_age' \in [Job -> 0 .. ClaimTTL + 1]
    BY <1>a, <1>9, QueueAssumption DEF RecoverFail, Stale, RowType
  <2>4. retry_in' \in [Job -> Nat]
    BY <1>a, <1>9 DEF RecoverFail, Stale, RowType
  <2>5. \A k \in Job : status'[k] = "claimed" <=> claimed_by'[k] # NoInstance
    BY <1>a, <1>9, QueueAssumption DEF RecoverFail, Stale, RowType, Terminal
  <2> QED
    BY <1>a, <1>9, <2>1, <2>2, <2>3, <2>4, <2>5 DEF RecoverFail, RowType
<1>10. ASSUME NEW i \in Instance, CleanupDone(i) PROVE RowType'
  <2>1. status' \in [Job -> {"absent", "pending", "claimed", "deleted"} \cup Terminal]
    BY <1>a, <1>10 DEF CleanupDone, RowType, Terminal
  <2>2. idle_age' \in [Job -> 0 .. Retention + 1]
    BY <1>a, <1>10, QueueAssumption DEF CleanupDone, RowType
  <2>3. \A k \in Job : status'[k] = "claimed" <=> claimed_by'[k] # NoInstance
    BY <1>a, <1>10, QueueAssumption DEF CleanupDone, RowType, Terminal
  <2> QED
    BY <1>a, <1>10, <2>1, <2>2, <2>3 DEF CleanupDone, RowType
<1>11. CASE Tick
  <2>1. claim_age' \in [Job -> 0 .. ClaimTTL + 1]
    BY <1>a, <1>11, QueueAssumption DEF Tick, Older, RowType
  <2>2. retry_in' \in [Job -> Nat]
    BY <1>a, <1>11 DEF Tick, Older, RowType
  <2>3. idle_age' \in [Job -> 0 .. Retention + 1]
    BY <1>a, <1>11, QueueAssumption DEF Tick, Older, RowType
  <2> QED
    BY <1>a, <1>11, <2>1, <2>2, <2>3 DEF Tick, RowType
<1> QED
  BY <1>1, <1>2, <1>3, <1>4, <1>5, <1>6, <1>7, <1>8, <1>9, <1>10, <1>11
  DEF Next, EnqueueNext, WorkerNext, ProcessStep, InstanceNext, vars, EnqueueCheck,
      EnqueueLogRetryCheck, CreateDuplicate, CreateFails, SetEnabled, DeleteTask, ClaimSelect,
      ClaimMiss, LoadTask, SendOK, SendFails, SendPanics, WorkerExit, RecoverError, CleanupLogs, Start,
      Stop, Drained, Crash

LEMMA RequestTypeStep == TypeOK /\ [Next]_vars => RequestType'
<1> SUFFICES ASSUME TypeOK, [Next]_vars PROVE RequestType'
  OBVIOUS
<1> USE QueueAssumption DEF TypeOK, RequestType, instVars, workVars, rowVars, taskVars, ghostVars
<1>1. CASE UNCHANGED <<taskVars, reqs>>
  BY <1>1 DEF Live, Running
<1>2. ASSUME NEW t \in Task, NEW k \in Key \cup {NoKey}, EnqueueCheck(t, k) PROVE RequestType'
  <2>1. [task |-> t, log |-> FALSE, key |-> k] \in Request
    BY DEF Request
  <2> QED
    BY <1>2, <2>1 DEF EnqueueCheck
<1>3. ASSUME NEW t \in Task, EnqueueLogRetryCheck(t) PROVE RequestType'
  <2>1. [task |-> t, log |-> TRUE, key |-> NoKey] \in Request
    BY DEF Request
  <2> QED
    BY <1>3, <2>1 DEF EnqueueLogRetryCheck
<1>4. ASSUME NEW r \in reqs, NEW j \in Job, Create(r, j) PROVE RequestType'
  BY <1>4 DEF Create, Request
<1>5. ASSUME NEW r \in reqs, CreateDuplicate(r) PROVE RequestType'
  BY <1>5 DEF CreateDuplicate, Request
<1>6. ASSUME NEW r \in reqs, CreateFails(r) PROVE RequestType'
  BY <1>6 DEF CreateFails, Request
<1>7. ASSUME NEW t \in Task, SetEnabled(t) PROVE RequestType'
  BY <1>7 DEF SetEnabled, Request
<1>8. ASSUME NEW t \in Task, DeleteTask(t) PROVE RequestType'
  BY <1>8 DEF DeleteTask, Request
<1>8a. ASSUME NEW i \in Instance, CleanupLogs(i) PROVE RequestType'
  BY <1>8a DEF CleanupLogs, Request
<1>9. ASSUME NEW w \in Worker, SendOK(w) PROVE RequestType'
  BY <1>9 DEF SendOK, Request
<1>10. ASSUME NEW w \in Worker, SendFails(w) PROVE RequestType'
  BY <1>10 DEF SendFails, Request
<1> QED
  BY <1>1, <1>2, <1>3, <1>4, <1>5, <1>6, <1>7, <1>8, <1>8a, <1>9, <1>10
  DEF Next, EnqueueNext, WorkerNext, ProcessStep, InstanceNext, vars,
      ClaimSelect, ClaimUpdate, ClaimMiss, LoadTask, SendPanics, MarkDone, MarkFailedCount,
      MarkFailedWrite, RenewClaim, WorkerExit, RecoverRetry, RecoverFail, RecoverError,
      CleanupDone, Start, Stop, Drained, Crash, Tick

LEMMA HistoryTypeStep == TypeOK /\ [Next]_vars => HistoryType'
<1> SUFFICES ASSUME TypeOK, [Next]_vars PROVE HistoryType'
  OBVIOUS
<1> USE QueueAssumption DEF TypeOK, HistoryType, instVars, workVars, rowVars, taskVars, ghostVars
<1>1. CASE UNCHANGED ghostVars
  BY <1>1 DEF Live, Running
<1>2. ASSUME NEW w \in Worker, ClaimUpdate(w) PROVE HistoryType'
  <2>1. cur[w] \in Job
    BY <1>2, WorkingJob DEF ClaimUpdate
  <2>2. claims' = [claims EXCEPT ![cur[w]] = @ + 1] /\ UNCHANGED <<delivered, skipped>>
    BY <1>2 DEF ClaimUpdate
  <2> QED
    BY <2>1, <2>2
<1>3. ASSUME NEW w \in Worker, LoadTask(w) PROVE HistoryType'
  <2>1. cur[w] \in Job
    BY <1>3, WorkingJob DEF LoadTask
  <2> QED
    BY <1>3, <2>1 DEF LoadTask
<1>4. ASSUME NEW w \in Worker, SendOK(w) PROVE HistoryType'
  <2>1. cur[w] \in Job
    BY <1>4, WorkingJob DEF SendOK
  <2> QED
    BY <1>4, <2>1 DEF SendOK
<1> QED
  BY <1>1, <1>2, <1>3, <1>4
  DEF Next, EnqueueNext, WorkerNext, ProcessStep, InstanceNext, vars,
      EnqueueCheck, EnqueueLogRetryCheck, Create, CreateDuplicate, CreateFails, SetEnabled,
      DeleteTask, ClaimSelect, ClaimMiss, SendFails, SendPanics, MarkDone, MarkFailedCount,
      MarkFailedWrite, RenewClaim, WorkerExit, RecoverRetry, RecoverFail, RecoverError,
      CleanupDone, CleanupLogs, Start, Stop, Drained, Crash, Tick

LEMMA TypeStep == TypeOK /\ [Next]_vars => TypeOK'
  BY ReplicaTypeStep, WorkerTypeStep, RowTypeStep, RequestTypeStep, HistoryTypeStep DEF TypeOK

\* Rows, workers and replicas keep their types, a worker has a job exactly
\* while it works, and the claim columns agree with the status, in every
\* behaviour of the queue.
THEOREM TypeCorrect == Spec => []TypeOK
<1> QED
  BY TypeInit, TypeStep, PTL DEF Spec

-----------------------------------------------------------------------------
(* The number of claims is bounded.                                        *)

LEMMA OwedFinite ==
  ASSUME NEW j \in Job
  PROVE  IsFiniteSet(Owed(j)) /\ Cardinality(Owed(j)) \in Nat
  BY QueueAssumption, FS_Subset, FS_CardinalityType DEF Owed

LEMMA BudgetInit == Init => ClaimBudget
<1> SUFFICES ASSUME Init, NEW j \in Job
             PROVE  claims[j] + Cardinality(Owed(j)) + Claimable(j) <= Budget(j)
  BY DEF ClaimBudget
<1>1. Cardinality(Owed(j)) = 0
  <2>1. Owed(j) = {}
    BY DEF Init, Owed
  <2> QED
    BY <2>1, FS_EmptySet
<1> QED
  BY <1>1, QueueAssumption DEF Init, Claimable, Budget

LEMMA BudgetStep == TypeOK /\ ClaimBudget /\ [Next]_vars => ClaimBudget'
<1> SUFFICES ASSUME TypeOK, ClaimBudget, [Next]_vars, NEW j \in Job
             PROVE  (claims[j] + Cardinality(Owed(j)) + Claimable(j) <= Budget(j))'
  BY DEF ClaimBudget
<1>a. /\ claims[j] + Cardinality(Owed(j)) + Claimable(j) <= Budget(j)
      /\ claims[j] \in Nat /\ attempts[j] \in Nat /\ MaxAttempts \in Nat \ {0}
      /\ Cardinality(Owed(j)) \in Nat /\ Claimable(j) \in 0 .. 1
  BY OwedFinite, QueueAssumption DEF ClaimBudget, Claimable, TypeOK, HistoryType, RowType
<1>b. Claimable(j)' \in 0 .. 1
  BY DEF Claimable
<1>c. ASSUME Owed(j)' \subseteq Owed(j)
      PROVE  Cardinality(Owed(j)') \in Nat /\ Cardinality(Owed(j)') <= Cardinality(Owed(j))
  BY <1>c, OwedFinite, FS_Subset, FS_CardinalityType
\* Steps that free no claim and make the row no more claimable.
<1>d. ASSUME Owed(j)' \subseteq Owed(j), Claimable(j)' <= Claimable(j),
             UNCHANGED <<claims, attempts>>
      PROVE  (claims[j] + Cardinality(Owed(j)) + Claimable(j) <= Budget(j))'
  BY <1>a, <1>b, <1>c, <1>d DEF Budget
<1>1. CASE UNCHANGED <<workVars, rowVars, ghostVars>>
  BY <1>1, <1>a, <1>d DEF workVars, rowVars, ghostVars, Owed, Claimable
<1>2. ASSUME NEW r \in reqs, NEW k \in Job, Create(r, k)
      PROVE  (claims[j] + Cardinality(Owed(j)) + Claimable(j) <= Budget(j))'
  <2>1. Owed(j)' \subseteq Owed(j)
    BY <1>2 DEF Create, workVars, Owed
  <2>2. Claimable(j)' <= Claimable(j)
    BY <1>2 DEF Create, Claimable, TypeOK, RowType
  <2> QED
    BY <1>2, <1>d, <2>1, <2>2 DEF Create, ghostVars
<1>3. ASSUME NEW w \in Worker, ClaimUpdate(w)
      PROVE  (claims[j] + Cardinality(Owed(j)) + Claimable(j) <= Budget(j))'
  <2>1. Owed(j)' \subseteq Owed(j)
    BY <1>3 DEF ClaimUpdate, Owed, Goto, Return, TypeOK, WorkerType
  <2>2. CASE cur[w] # j
    <3>1. claims'[j] = claims[j] /\ attempts' = attempts /\ status'[j] = status[j]
      BY <1>3, <2>2, WorkingJob DEF ClaimUpdate, TypeOK, RowType, HistoryType
    <3> QED
      BY <1>a, <1>c, <2>1, <3>1 DEF Claimable, Budget
  <2>3. CASE cur[w] = j
    <3>1. claims'[j] = claims[j] + 1 /\ attempts' = attempts
      BY <1>3, <2>3, WorkingJob DEF ClaimUpdate, TypeOK, RowType, HistoryType
    <3>2. Claimable(j) = 1 /\ Claimable(j)' = 0
      BY <1>3, <2>3, WorkingJob DEF ClaimUpdate, Claimable, TypeOK, RowType
    <3> QED
      BY <1>a, <1>c, <2>1, <3>1, <3>2 DEF Budget
  <2> QED
    BY <2>2, <2>3
<1>4. ASSUME NEW w \in Worker,
             \/ ClaimSelect(w) \/ ClaimMiss(w) \/ LoadTask(w) \/ SendOK(w) \/ SendFails(w)
             \/ SendPanics(w) \/ RenewClaim(w) \/ WorkerExit(w)
      PROVE  (claims[j] + Cardinality(Owed(j)) + Claimable(j) <= Budget(j))'
  <2>1. UNCHANGED <<status, attempts, claims>>
    BY <1>4 DEF ClaimSelect, ClaimMiss, LoadTask, SendOK, SendFails, SendPanics, RenewClaim,
       WorkerExit, rowVars, ghostVars
  <2>2. Owed(j)' \subseteq Owed(j)
    BY <1>4 DEF ClaimSelect, ClaimMiss, LoadTask, SendOK, SendFails, SendPanics, RenewClaim,
       WorkerExit, workVars, Owed, Goto, Return, TypeOK, WorkerType
  <2> QED
    BY <1>a, <1>d, <2>1, <2>2 DEF Claimable
<1>5. ASSUME NEW w \in Worker, MarkDone(w)
      PROVE  (claims[j] + Cardinality(Owed(j)) + Claimable(j) <= Budget(j))'
  <2>1. Owed(j)' \subseteq Owed(j)
    BY <1>5 DEF MarkDone, Owed, Return, Goto, TypeOK, WorkerType
  <2>2. Claimable(j)' <= Claimable(j)
    BY <1>5 DEF MarkDone, Claimable, TypeOK, RowType
  <2> QED
    BY <1>5, <1>d, <2>1, <2>2 DEF MarkDone, ghostVars
<1>6. ASSUME NEW w \in Worker, MarkFailedCount(w)
      PROVE  (claims[j] + Cardinality(Owed(j)) + Claimable(j) <= Budget(j))'
  <2>0. cur[w] \in Job /\ UNCHANGED <<status, claims>>
    BY <1>6, WorkingJob DEF MarkFailedCount, ghostVars
  <2>1. CASE Return(w) /\ UNCHANGED attempts
    <3>1. Owed(j)' \subseteq Owed(j)
      BY <2>1 DEF Owed, Return, Goto, TypeOK, WorkerType
    <3> QED
      BY <1>a, <1>d, <2>0, <2>1, <3>1 DEF Claimable
  <2>2. CASE /\ attempts' = [attempts EXCEPT ![cur[w]] = attempts[cur[w]] + 1]
             /\ Goto(w, IF GiveUp(attempts[cur[w]] + 1) THEN "write_failed" ELSE "write_pending")
             /\ UNCHANGED cur
    <3>1. CASE cur[w] # j \/ GiveUp(attempts[cur[w]] + 1)
      <4>1. Owed(j)' \subseteq Owed(j)
        BY <2>2, <3>1 DEF Owed, Goto, TypeOK, WorkerType
      <4>2. attempts'[j] \in {attempts[j], attempts[j] + 1}
        BY <2>0, <2>2 DEF TypeOK, RowType
      <4> QED
        BY <1>a, <1>c, <2>0, <4>1, <4>2 DEF Claimable, Budget
    <3>2. CASE cur[w] = j /\ ~GiveUp(attempts[cur[w]] + 1)
      <4>1. Owed(j)' \subseteq Owed(j) \cup {w}
        BY <2>2, <3>2 DEF Owed, Goto, TypeOK, WorkerType
      <4>2. Cardinality(Owed(j)') \in Nat /\ Cardinality(Owed(j)') <= Cardinality(Owed(j)) + 1
        <5>1. IsFiniteSet(Owed(j) \cup {w}) /\ IsFiniteSet(Owed(j))
          BY OwedFinite, FS_AddElement
        <5>2. Cardinality(Owed(j) \cup {w}) \in {Cardinality(Owed(j)), Cardinality(Owed(j)) + 1}
          BY <5>1, FS_AddElement
        <5>3. /\ Cardinality(Owed(j)') <= Cardinality(Owed(j) \cup {w})
              /\ Cardinality(Owed(j)') \in Nat
          BY <4>1, <5>1, FS_Subset, FS_CardinalityType
        <5> QED
          BY <1>a, <5>2, <5>3
      <4>3. attempts'[j] = attempts[j] + 1 /\ attempts[j] + 1 < MaxAttempts
        BY <1>a, <2>0, <2>2, <3>2 DEF GiveUp, TypeOK, RowType
      <4> QED
        BY <1>a, <2>0, <4>2, <4>3 DEF Claimable, Budget
    <3> QED
      BY <3>1, <3>2
  <2> QED
    BY <1>6, <2>1, <2>2 DEF MarkFailedCount
<1>7. ASSUME NEW w \in Worker, MarkFailedWrite(w)
      PROVE  (claims[j] + Cardinality(Owed(j)) + Claimable(j) <= Budget(j))'
  <2>0. cur[w] \in Job /\ UNCHANGED <<attempts, claims>> /\ Return(w)
    BY <1>7, WorkingJob DEF MarkFailedWrite, ghostVars
  <2>1. Owed(j)' \subseteq Owed(j) \ {w}
    BY <2>0 DEF Owed, Return, Goto, TypeOK, WorkerType
  <2>2. CASE Claimable(j)' <= Claimable(j)
    BY <1>d, <2>0, <2>1, <2>2
  <2>3. CASE cur[w] = j /\ pc[w] = "write_pending"
    <3>1. w \in Owed(j)
      BY <2>3 DEF Owed
    <3>2. /\ IsFiniteSet(Owed(j) \ {w})
          /\ Cardinality(Owed(j) \ {w}) = Cardinality(Owed(j)) - 1
      BY <3>1, OwedFinite, FS_RemoveElement
    <3>3. Cardinality(Owed(j)') \in Nat /\ Cardinality(Owed(j)') <= Cardinality(Owed(j)) - 1
      BY <2>1, <3>2, FS_Subset, FS_CardinalityType
    <3>4. Claimable(j)' <= Claimable(j) + 1
      BY <1>a, <1>b
    <3> QED
      BY <1>a, <1>b, <2>0, <3>3, <3>4 DEF Budget
  <2>4. CASE cur[w] # j \/ pc[w] = "write_failed"
    <3>1. Claimable(j)' <= Claimable(j)
      BY <1>7, <2>0, <2>4 DEF MarkFailedWrite, Claimable, TypeOK, RowType
    <3> QED
      BY <2>2, <3>1
  <2> QED
    BY <1>7, <2>3, <2>4 DEF MarkFailedWrite
<1>8. ASSUME NEW i \in Instance, RecoverRetry(i)
      PROVE  (claims[j] + Cardinality(Owed(j)) + Claimable(j) <= Budget(j))'
  <2>0. UNCHANGED claims /\ Owed(j)' \subseteq Owed(j)
    BY <1>8 DEF RecoverRetry, Owed, workVars, ghostVars
  <2>1. CASE Stale(j) /\ ~Exhausted(j)
    <3>1. attempts'[j] = attempts[j] + 1 /\ attempts[j] + 1 < MaxAttempts
      BY <1>8, <1>a, <2>1 DEF RecoverRetry, Exhausted
    <3>2. Claimable(j) = 0
      BY <2>1 DEF Stale, Claimable
    <3> QED
      BY <1>a, <1>b, <1>c, <2>0, <3>1, <3>2 DEF Budget
  <2>2. CASE ~(Stale(j) /\ ~Exhausted(j))
    <3>1. attempts'[j] = attempts[j] /\ status'[j] = status[j]
      BY <1>8, <2>2 DEF RecoverRetry
    <3> QED
      BY <1>a, <1>c, <2>0, <3>1 DEF Budget, Claimable
  <2> QED
    BY <2>1, <2>2
<1>9. ASSUME NEW i \in Instance,
             RecoverFail(i) \/ RecoverError(i) \/ CleanupDone(i) \/ Start(i) \/ Stop(i)
      PROVE  (claims[j] + Cardinality(Owed(j)) + Claimable(j) <= Budget(j))'
  <2>1. UNCHANGED <<attempts, claims, pc, cur>>
    BY <1>9 DEF RecoverFail, RecoverError, CleanupDone, Start, Stop, workVars, rowVars, ghostVars
  <2>2. status'[j] \in {status[j], "failed", "deleted"}
    BY <1>9 DEF RecoverFail, RecoverError, CleanupDone, Start, Stop, rowVars
  <2> QED
    BY <1>a, <1>d, <2>1, <2>2 DEF Claimable, Owed
<1>10. ASSUME NEW i \in Instance, Drained(i) \/ Crash(i)
       PROVE  (claims[j] + Cardinality(Owed(j)) + Claimable(j) <= Budget(j))'
  <2>1. UNCHANGED <<attempts, claims, status>>
    BY <1>10 DEF Drained, Crash, rowVars, ghostVars
  <2>2. Owed(j)' \subseteq Owed(j)
    BY <1>10 DEF Drained, Crash, Owed
  <2> QED
    BY <1>a, <1>d, <2>1, <2>2 DEF Claimable
<1>11. CASE Tick
  BY <1>11, <1>a, <1>d DEF Tick, workVars, ghostVars, Owed, Claimable
<1> QED
  BY <1>1, <1>2, <1>3, <1>4, <1>5, <1>6, <1>7, <1>8, <1>9, <1>10, <1>11
  DEF Next, EnqueueNext, WorkerNext, ProcessStep, InstanceNext, vars, EnqueueCheck,
      EnqueueLogRetryCheck, CreateDuplicate, CreateFails, SetEnabled, DeleteTask, CleanupLogs

LEMMA BudgetBounds == TypeOK /\ ClaimBudget => BoundedClaims
<1> SUFFICES ASSUME TypeOK, ClaimBudget, NEW j \in Job
             PROVE  claims[j] <= MaxAttempts
  BY DEF BoundedClaims
<1>1. Cardinality(Owed(j)) \in Nat /\ Claimable(j) \in 0 .. 1
  BY OwedFinite DEF Claimable
<1> QED
  BY <1>1, QueueAssumption DEF ClaimBudget, Budget, TypeOK, RowType, HistoryType

\* No poison message: whatever the interleaving, the crashes, the takeovers
\* and the database errors, no job is claimed more than MaxAttempts times.
THEOREM ClaimsBounded == Spec => []BoundedClaims
<1>1. Init => TypeOK /\ ClaimBudget
  BY TypeInit, BudgetInit
<1>2. (TypeOK /\ ClaimBudget) /\ [Next]_vars => (TypeOK /\ ClaimBudget)'
  BY TypeStep, BudgetStep
<1>3. TypeOK /\ ClaimBudget => BoundedClaims
  BY BudgetBounds
<1> QED
  BY <1>1, <1>2, <1>3, PTL DEF Spec

-----------------------------------------------------------------------------
(* Exclusive claims, for replicas that renew in time.                      *)

LEMMA FreshInit == Init => FreshClaim
  BY DEF Init, FreshClaim, ExclusiveClaim, Busy, BusyPCs

\* A step that leaves the held rows alone and makes no worker busy on a new
\* job keeps every claim.
LEMMA FreshFrame ==
  ASSUME TypeOK, FreshClaim,
         \A w \in Worker : Busy(w)' =>
           /\ Busy(w) /\ cur'[w] = cur[w]
           /\ status'[cur[w]] = status[cur[w]]
           /\ claimed_by'[cur[w]] = claimed_by[cur[w]]
           /\ claim_age'[cur[w]] \in {0, claim_age[cur[w]]}
  PROVE  FreshClaim'
<1>1. ASSUME NEW w \in Worker, Busy(w)'
      PROVE  /\ Holds(w)'
             /\ \A v \in Worker \ {w} : Busy(v)' => cur'[v] # cur'[w]
             /\ claim_age'[cur'[w]] <= ClaimTTL
  BY <1>1, QueueAssumption DEF FreshClaim, ExclusiveClaim, Holds
<1> QED
  BY <1>1 DEF FreshClaim, ExclusiveClaim

\* The same for a step of worker v alone that changes only its own row.
LEMMA FreshOwnRow ==
  ASSUME TypeOK, FreshClaim, NEW v \in Worker, cur[v] \in Job,
         ~Busy(v)',
         \A w \in Worker \ {v} : pc'[w] = pc[w] /\ cur'[w] = cur[w],
         \A w \in Worker \ {v} : Busy(w) =>
           /\ status'[cur[w]] = status[cur[w]]
           /\ claimed_by'[cur[w]] = claimed_by[cur[w]]
           /\ claim_age'[cur[w]] = claim_age[cur[w]]
  PROVE  FreshClaim'
  BY FreshFrame DEF Busy

LEMMA FreshStep == ASSUME Timely PROVE TypeOK /\ FreshClaim /\ [Next]_vars => FreshClaim'
<1> SUFFICES ASSUME TypeOK, FreshClaim, [Next]_vars PROVE FreshClaim'
  OBVIOUS
<1>1. CASE UNCHANGED <<workVars, rowVars>>
  BY <1>1, FreshFrame DEF workVars, rowVars, Busy
<1>2. ASSUME NEW r \in reqs, NEW k \in Job, Create(r, k) PROVE FreshClaim'
  BY <1>2, FreshFrame DEF Create, workVars, Busy, TypeOK, RowType, FreshClaim, ExclusiveClaim, Holds
<1>3. ASSUME NEW w \in Worker, ClaimUpdate(w) PROVE FreshClaim'
  <2> DEFINE j == cur[w]
  <2>0. /\ j \in Job /\ status[j] = "pending" /\ pc[w] = "selected"
        /\ status' = [status EXCEPT ![j] = "claimed"]
        /\ claimed_by' = [claimed_by EXCEPT ![j] = Home[w]]
        /\ claim_age' = [claim_age EXCEPT ![j] = 0]
    BY <1>3, WorkingJob DEF ClaimUpdate
  <2>1. \A v \in Worker : Busy(v) => cur[v] # j /\ cur[v] \in Job
    BY <2>0, WorkingJob DEF FreshClaim, ExclusiveClaim, Holds, Busy, BusyPCs
  <2>2. \A v \in Worker : Busy(v) =>
          /\ status'[cur[v]] = status[cur[v]]
          /\ claimed_by'[cur[v]] = claimed_by[cur[v]]
          /\ claim_age'[cur[v]] = claim_age[cur[v]]
    BY <2>0, <2>1 DEF TypeOK, RowType
  <2>3. CASE Return(w)
    BY <2>2, <2>3, FreshFrame DEF Return, Goto, Busy, BusyPCs, TypeOK, WorkerType
  <2>4. CASE Goto(w, "loaded") /\ UNCHANGED cur
    <3>1. ASSUME NEW v \in Worker \ {w}, Busy(v)'
          PROVE  /\ Holds(v)' /\ claim_age'[cur'[v]] <= ClaimTTL /\ cur'[v] # cur'[w]
                 /\ \A u \in Worker \ {v} : Busy(u)' => cur'[u] # cur'[v]
      <4>1. Busy(v) /\ cur'[v] = cur[v]
        BY <2>4, <3>1 DEF Goto, Busy, TypeOK, WorkerType
      <4>2. \A u \in Worker \ {v, w} : Busy(u)' => Busy(u)
        BY <2>4 DEF Goto, Busy, TypeOK, WorkerType
      <4> QED
        BY <2>1, <2>2, <2>4, <4>1, <4>2 DEF FreshClaim, ExclusiveClaim, Holds
    <3>2. Holds(w)' /\ claim_age'[cur'[w]] <= ClaimTTL
      BY <2>0, <2>4, QueueAssumption DEF Holds, TypeOK, RowType
    <3> QED
      BY <3>1, <3>2 DEF FreshClaim, ExclusiveClaim
  <2> QED
    BY <1>3, <2>3, <2>4 DEF ClaimUpdate
<1>4. ASSUME NEW w \in Worker,
             \/ ClaimSelect(w) \/ ClaimMiss(w) \/ LoadTask(w) \/ SendOK(w) \/ SendFails(w)
             \/ SendPanics(w) \/ WorkerExit(w)
      PROVE  FreshClaim'
  <2>1. UNCHANGED <<status, claimed_by, claim_age>>
    BY <1>4 DEF ClaimSelect, ClaimMiss, LoadTask, SendOK, SendFails, SendPanics, WorkerExit, rowVars
  <2>2. \A v \in Worker : Busy(v)' => Busy(v) /\ cur'[v] = cur[v]
    BY <1>4 DEF ClaimSelect, ClaimMiss, LoadTask, SendOK, SendFails, SendPanics, WorkerExit,
       Goto, Return, Busy, BusyPCs, TypeOK, WorkerType
  <2> QED
    BY <2>1, <2>2, FreshFrame
<1>5. ASSUME NEW w \in Worker, MarkDone(w) \/ MarkFailedWrite(w) PROVE FreshClaim'
  <2>1. cur[w] \in Job /\ Busy(w) /\ Return(w)
    BY <1>5, WorkingJob DEF MarkDone, MarkFailedWrite, Busy, BusyPCs
  <2>2. ~Busy(w)' /\ \A v \in Worker \ {w} : pc'[v] = pc[v] /\ cur'[v] = cur[v]
    BY <2>1 DEF Return, Goto, Busy, BusyPCs, TypeOK, WorkerType
  <2>3. \A v \in Worker \ {w} : Busy(v) => cur[v] # cur[w]
    BY <2>1 DEF FreshClaim, ExclusiveClaim
  <2>4. \A k \in Job \ {cur[w]} : /\ status'[k] = status[k]
                                  /\ claimed_by'[k] = claimed_by[k]
                                  /\ claim_age'[k] = claim_age[k]
    BY <1>5 DEF MarkDone, MarkFailedWrite, TypeOK, RowType
  <2>5. \A v \in Worker : Busy(v) => cur[v] \in Job
    BY WorkingJob DEF Busy, BusyPCs
  <2> QED
    BY <2>1, <2>2, <2>3, <2>4, <2>5, FreshOwnRow
<1>6. ASSUME NEW w \in Worker, MarkFailedCount(w) PROVE FreshClaim'
  <2>1. UNCHANGED <<status, claimed_by, claim_age>>
    BY <1>6 DEF MarkFailedCount
  <2>2. \A v \in Worker : Busy(v)' => Busy(v) /\ cur'[v] = cur[v]
    BY <1>6 DEF MarkFailedCount, Goto, Return, Busy, BusyPCs, TypeOK, WorkerType
  <2> QED
    BY <2>1, <2>2, FreshFrame
<1>7. ASSUME NEW w \in Worker, RenewClaim(w) PROVE FreshClaim'
  <2>1. UNCHANGED <<workVars, status, claimed_by>>
    BY <1>7 DEF RenewClaim
  <2>2. \A k \in Job : claim_age'[k] \in {0, claim_age[k]}
    BY <1>7 DEF RenewClaim, TypeOK, RowType
  <2>3. \A v \in Worker : Busy(v) => cur[v] \in Job
    BY WorkingJob DEF Busy, BusyPCs
  <2> QED
    BY <2>1, <2>2, <2>3, FreshFrame DEF workVars, Busy
<1>8. ASSUME NEW i \in Instance, RecoverRetry(i) \/ RecoverFail(i) \/ CleanupDone(i)
      PROVE  FreshClaim'
  <2>1. \A v \in Worker : Busy(v) =>
          cur[v] \in Job /\ status[cur[v]] = "claimed" /\ ~Stale(cur[v])
    <3> SUFFICES ASSUME NEW v \in Worker, Busy(v)
                 PROVE  cur[v] \in Job /\ status[cur[v]] = "claimed" /\ ~Stale(cur[v])
      OBVIOUS
    <3>1. cur[v] \in Job
      BY WorkingJob DEF Busy, BusyPCs
    <3>2. status[cur[v]] = "claimed" /\ claim_age[cur[v]] <= ClaimTTL
      BY DEF FreshClaim, ExclusiveClaim, Holds
    <3>3. claim_age[cur[v]] \in Int /\ ClaimTTL \in Int
      BY <3>1, QueueAssumption DEF TypeOK, RowType
    <3> QED
      BY <3>1, <3>2, <3>3 DEF Stale
  <2>2. \A k \in Job : status[k] = "claimed" /\ ~Stale(k) =>
          /\ status'[k] = status[k] /\ claimed_by'[k] = claimed_by[k]
          /\ claim_age'[k] = claim_age[k]
    BY <1>8 DEF RecoverRetry, RecoverFail, CleanupDone, Terminal, TypeOK, RowType
  <2>3. UNCHANGED workVars
    BY <1>8 DEF RecoverRetry, RecoverFail, CleanupDone
  <2> QED
    BY <2>1, <2>2, <2>3, FreshFrame DEF workVars, Busy
<1>9. ASSUME NEW i \in Instance, Drained(i) \/ Crash(i) PROVE FreshClaim'
  <2>1. UNCHANGED <<status, claimed_by, claim_age>>
    BY <1>9 DEF Drained, Crash, rowVars
  <2>2. \A v \in Worker : Busy(v)' => Busy(v) /\ cur'[v] = cur[v]
    BY <1>9 DEF Drained, Crash, Busy, BusyPCs, TypeOK, WorkerType
  <2> QED
    BY <2>1, <2>2, FreshFrame
<1>10. CASE Tick
  <2>1. UNCHANGED <<workVars, inst, status, claimed_by>>
    BY <1>10 DEF Tick, instVars
  <2>2. ASSUME NEW v \in Worker, Busy(v)
        PROVE  claim_age'[cur[v]] \in Nat /\ claim_age'[cur[v]] <= ClaimTTL
    <3>1. cur[v] \in Job /\ Live(v)
      BY <2>2 DEF Busy, BusyPCs, TypeOK, WorkerType
    <3>2. claim_age[cur[v]] < ClaimTTL
      BY <1>10, <2>2, <3>1 DEF Tick, FreshClaim, ExclusiveClaim
    <3>3. claim_age'[cur[v]] \in {claim_age[cur[v]], claim_age[cur[v]] + 1}
      BY <1>10, <3>1 DEF Tick, Older
    <3> QED
      BY <3>1, <3>2, <3>3, QueueAssumption DEF TypeOK, RowType
  <2> QED
    BY <2>1, <2>2 DEF workVars, Busy, FreshClaim, ExclusiveClaim, Holds
<1> QED
  BY <1>1, <1>2, <1>3, <1>4, <1>5, <1>6, <1>7, <1>8, <1>9, <1>10
  DEF Next, EnqueueNext, WorkerNext, ProcessStep, InstanceNext, vars, EnqueueCheck,
      EnqueueLogRetryCheck, CreateDuplicate, CreateFails, SetEnabled, DeleteTask, CleanupLogs,
      RecoverError, Start, Stop

LEMMA FreshAlways == ASSUME Timely PROVE Spec => [](TypeOK /\ FreshClaim)
<1>1. Init => TypeOK /\ FreshClaim
  BY TypeInit, FreshInit
<1>2. (TypeOK /\ FreshClaim) /\ [Next]_vars => (TypeOK /\ FreshClaim)'
  BY TypeStep, FreshStep
<1> QED
  BY <1>1, <1>2, PTL DEF Spec

\* While replicas renew in time, a job being processed is claimed by its
\* processor's replica and processed by nobody else.
THEOREM ExclusiveWhenTimely == ASSUME Timely PROVE Spec => []ExclusiveClaim
<1>1. TypeOK /\ FreshClaim => ExclusiveClaim
  BY DEF FreshClaim
<1> QED
  BY <1>1, FreshAlways, PTL

\* Then MarkFailed's unguarded second statement is harmless as well: it only
\* ever writes a row that its own replica still holds.
THEOREM FailureGuardedWhenTimely == ASSUME Timely PROVE Spec => FailureNeedsClaim
<1> DEFINE A == \A w \in Worker :
       (pc[w] \in {"write_failed", "write_pending"} /\ MarkFailedWrite(w)
          /\ status'[cur[w]] # status[cur[w]]) => Holds(w)
<1>1. TypeOK /\ FreshClaim /\ [Next]_vars => [A]_vars
  BY DEF FreshClaim, ExclusiveClaim, Busy, BusyPCs
<1>2. FailureNeedsClaim <=> [][A]_vars
  BY DEF FailureNeedsClaim
<1> HIDE DEF A
<1> QED
  BY <1>1, <1>2, FreshAlways, PTL DEF Spec

-----------------------------------------------------------------------------
(* Refinement: the queue implements JobContract.                           *)

LEMMA CountedInit == Init => ClaimedWasCounted
  BY DEF Init, ClaimedWasCounted

\* Only ClaimUpdate makes a row claimed, and it counts the claim.
LEMMA CountedStep == TypeOK /\ ClaimedWasCounted /\ [Next]_vars => ClaimedWasCounted'
<1> SUFFICES ASSUME TypeOK, ClaimedWasCounted, [Next]_vars, NEW j \in Job,
                    status'[j] = "claimed"
             PROVE  claims'[j] > 0
  BY DEF ClaimedWasCounted
<1>a. claims[j] \in Nat
  BY DEF TypeOK, HistoryType
<1>1. CASE UNCHANGED claims /\ status'[j] = status[j]
  BY <1>1 DEF ClaimedWasCounted
<1>2. ASSUME NEW w \in Worker, ClaimUpdate(w) PROVE claims'[j] > 0
  BY <1>2, <1>a, WorkingJob DEF ClaimUpdate, TypeOK, RowType, HistoryType, ClaimedWasCounted
<1>3. ASSUME NEW r \in reqs, NEW k \in Job, Create(r, k) PROVE claims'[j] > 0
  BY <1>3 DEF Create, ghostVars, TypeOK, RowType, ClaimedWasCounted
<1>4. ASSUME NEW w \in Worker, MarkDone(w) \/ MarkFailedWrite(w) PROVE claims'[j] > 0
  BY <1>4, WorkingJob DEF MarkDone, MarkFailedWrite, ghostVars, TypeOK, RowType, ClaimedWasCounted
<1>5. ASSUME NEW i \in Instance, RecoverRetry(i) \/ RecoverFail(i) \/ CleanupDone(i)
      PROVE  claims'[j] > 0
  BY <1>5 DEF RecoverRetry, RecoverFail, CleanupDone, ghostVars, ClaimedWasCounted
<1> QED
  BY <1>1, <1>2, <1>3, <1>4, <1>5
  DEF Next, EnqueueNext, WorkerNext, ProcessStep, InstanceNext, vars, rowVars, ghostVars,
      EnqueueCheck, EnqueueLogRetryCheck, CreateDuplicate, CreateFails, SetEnabled, DeleteTask,
      ClaimSelect, ClaimMiss, LoadTask, SendOK, SendFails, SendPanics, MarkFailedCount,
      RenewClaim, WorkerExit, RecoverError, CleanupLogs, Start, Stop, Drained, Crash, Tick

LEMMA ContractInit == Init => Contract!Init
  BY DEF Init, Contract!Init, Phase

\* Each action of the queue is one action of the contract, or none.
LEMMA ContractStep ==
  ASSUME TypeOK, ClaimBudget, FreshClaim, ClaimedWasCounted, [Next]_vars
  PROVE  [Contract!Next]_(Contract!vars)
<1>1. CASE Phase' = Phase /\ UNCHANGED claims
  BY <1>1 DEF Contract!vars
<1>2. ASSUME NEW r \in reqs, NEW j \in Job, Create(r, j) PROVE Contract!Accept(j)
  BY <1>2 DEF Create, Contract!Accept, Phase, ghostVars, TypeOK, RowType
<1>3. ASSUME NEW w \in Worker, ClaimUpdate(w) PROVE Contract!Run(cur[w])
  <2>1. cur[w] \in Job /\ status[cur[w]] = "pending"
    BY <1>3, WorkingJob DEF ClaimUpdate
  <2>2. Claimable(cur[w]) = 1 /\ Cardinality(Owed(cur[w])) \in Nat
    BY <2>1, OwedFinite DEF Claimable
  <2>3. claims[cur[w]] < MaxAttempts
    BY <2>1, <2>2, QueueAssumption DEF ClaimBudget, Budget, TypeOK, RowType, HistoryType
  <2>4. Phase' = Phase /\ Phase[cur[w]] = "open"
    BY <1>3, <2>1 DEF ClaimUpdate, Phase, TypeOK, RowType
  <2> QED
    BY <1>3, <2>3, <2>4 DEF ClaimUpdate, Contract!Run
<1>4. ASSUME NEW w \in Worker, MarkDone(w), Phase' # Phase
      PROVE  Contract!Close({cur[w]}, "done")
  <2>1. cur[w] \in Job /\ status[cur[w]] = "claimed"
    BY <1>4, WorkingJob DEF MarkDone, Holds, Phase
  <2>2. /\ status' = [status EXCEPT ![cur[w]] = "done"]
        /\ UNCHANGED claims
    BY <1>4 DEF MarkDone, Phase, ghostVars
  <2> QED
    BY <2>1, <2>2 DEF Contract!Close, Phase, ClaimedWasCounted, TypeOK, RowType
<1>5. ASSUME NEW w \in Worker, MarkFailedWrite(w), Phase' # Phase
      PROVE  Contract!Close({cur[w]}, "failed")
  <2>1. cur[w] \in Job /\ status[cur[w]] = "claimed"
    BY <1>5, WorkingJob DEF MarkFailedWrite, Busy, BusyPCs, FreshClaim, ExclusiveClaim, Holds
  <2>2. UNCHANGED claims
    BY <1>5 DEF MarkFailedWrite, ghostVars
  <2>3. status' = [status EXCEPT ![cur[w]] = "failed"]
    BY <1>5, <2>1 DEF MarkFailedWrite, Phase, TypeOK, RowType
  <2> QED
    BY <2>1, <2>2, <2>3 DEF Contract!Close, Phase, ClaimedWasCounted, TypeOK, RowType
<1>6. ASSUME NEW i \in Instance, RecoverFail(i)
      PROVE  Contract!Close({j \in Job : Stale(j) /\ Exhausted(j)}, "failed")
  BY <1>6 DEF RecoverFail, Stale, Contract!Close, Phase, ClaimedWasCounted, ghostVars
<1>7. ASSUME NEW i \in Instance, CleanupDone(i)
      PROVE  Contract!Purge({j \in Job : status[j] \in Terminal /\ idle_age[j] > Retention})
  BY <1>7 DEF CleanupDone, Terminal, Contract!Purge, Phase, ghostVars
<1>8. ASSUME NEW i \in Instance, RecoverRetry(i) PROVE Phase' = Phase /\ UNCHANGED claims
  BY <1>8 DEF RecoverRetry, Stale, Phase, ghostVars
<1>9. ASSUME UNCHANGED <<status, claims>> PROVE Phase' = Phase /\ UNCHANGED claims
  BY <1>9 DEF Phase
<1>10. ASSUME NEW w \in Worker, MarkDone(w) \/ MarkFailedWrite(w) PROVE UNCHANGED claims
  BY <1>10 DEF MarkDone, MarkFailedWrite, ghostVars
<1>11. ASSUME NEW w \in Worker, ClaimUpdate(w) PROVE cur[w] \in Job
  BY <1>11, WorkingJob DEF ClaimUpdate
<1>12. ASSUME NEW w \in Worker, MarkDone(w) \/ MarkFailedWrite(w) PROVE cur[w] \in Job
  BY <1>12, WorkingJob DEF MarkDone, MarkFailedWrite
<1>13. CASE \/ \E r \in reqs, j \in Job : Create(r, j)
            \/ \E w \in Worker : ClaimUpdate(w) \/ MarkDone(w) \/ MarkFailedWrite(w)
            \/ \E i \in Instance : RecoverRetry(i) \/ RecoverFail(i) \/ CleanupDone(i)
  BY <1>1, <1>2, <1>3, <1>4, <1>5, <1>6, <1>7, <1>8, <1>10, <1>11, <1>12, <1>13
  DEF Contract!Next
<1>14. CASE UNCHANGED <<status, claims>>
  BY <1>1, <1>9, <1>14
<1> QED
  BY <1>13, <1>14
  DEF Next, EnqueueNext, WorkerNext, ProcessStep, InstanceNext, vars, rowVars, ghostVars,
      EnqueueCheck, EnqueueLogRetryCheck, CreateDuplicate, CreateFails, SetEnabled, DeleteTask,
      ClaimSelect, ClaimMiss, LoadTask, SendOK, SendFails, SendPanics, MarkFailedCount,
      RenewClaim, WorkerExit, RecoverError, CleanupLogs, Start, Stop, Drained, Crash, Tick

\* While replicas renew in time, every behaviour of the queue is one that
\* JobContract allows: a job runs at most MaxAttempts times, closes once and
\* only after a run, and never reopens.
THEOREM QueueImplementsContract == ASSUME Timely PROVE Spec => ImplementsContract
<1> DEFINE Inv == TypeOK /\ ClaimBudget /\ FreshClaim /\ ClaimedWasCounted
<1>1. Init => Inv /\ Contract!Init
  BY TypeInit, BudgetInit, FreshInit, CountedInit, ContractInit
<1>2. Inv /\ [Next]_vars => Inv'
  BY TypeStep, BudgetStep, FreshStep, CountedStep
<1>3. Inv /\ [Next]_vars => [Contract!Next]_(Contract!vars)
  BY ContractStep
<1> HIDE DEF Inv
<1> QED
  BY <1>1, <1>2, <1>3, PTL DEF Spec, ImplementsContract, Contract!Spec

-----------------------------------------------------------------------------
(* What "done" means.                                                      *)

Working(w) == pc[w] \notin {"idle", "exited"}

\* A row never goes back to being absent, and what was asked for never
\* changes; a deleted row stays deleted.
LEMMA RowStays ==
  ASSUME TypeOK, [Next]_vars, NEW j \in Job
  PROVE  /\ status[j] # "absent" => status'[j] # "absent" /\ row'[j] = row[j]
         /\ status[j] = "deleted" => status'[j] = "deleted"
<1>1. CASE UNCHANGED <<row, status>>
  BY <1>1
<1>2. ASSUME NEW r \in reqs, NEW k \in Job, Create(r, k)
      PROVE  /\ status[j] # "absent" => status'[j] # "absent" /\ row'[j] = row[j]
             /\ status[j] = "deleted" => status'[j] = "deleted"
  BY <1>2 DEF Create, TypeOK, RowType
<1>3. ASSUME NEW w \in Worker, ClaimUpdate(w) \/ MarkDone(w) \/ MarkFailedWrite(w)
      PROVE  /\ status[j] # "absent" => status'[j] # "absent" /\ row'[j] = row[j]
             /\ status[j] = "deleted" => status'[j] = "deleted"
  BY <1>3 DEF ClaimUpdate, MarkDone, MarkFailedWrite, Holds, TypeOK, RowType
<1>4. ASSUME NEW i \in Instance, RecoverRetry(i) \/ RecoverFail(i) \/ CleanupDone(i)
      PROVE  /\ status[j] # "absent" => status'[j] # "absent" /\ row'[j] = row[j]
             /\ status[j] = "deleted" => status'[j] = "deleted"
  BY <1>4 DEF RecoverRetry, RecoverFail, CleanupDone, Stale, Terminal
<1> QED
  BY <1>1, <1>2, <1>3, <1>4
  DEF Next, EnqueueNext, WorkerNext, ProcessStep, InstanceNext, vars, rowVars,
      EnqueueCheck, EnqueueLogRetryCheck, CreateDuplicate, CreateFails, SetEnabled, DeleteTask,
      ClaimSelect, ClaimMiss, LoadTask, SendOK, SendFails, SendPanics, MarkFailedCount,
      RenewClaim, WorkerExit, RecoverError, CleanupLogs, Start, Stop, Drained, Crash, Tick

\* A worker that has a job after a step had it before, or has just selected
\* it; and where it is follows from its own steps only.
LEMMA OwnSteps ==
  ASSUME TypeOK, [Next]_vars, NEW w \in Worker, Working(w)'
  PROVE  \/ pc'[w] = pc[w] /\ cur'[w] = cur[w]
         \/ ClaimSelect(w)
         \/ cur'[w] = cur[w] /\ Working(w) /\ (ClaimUpdate(w) \/ ProcessStep(w))
<1> USE DEF Working, TypeOK, WorkerType, Goto, Return
<1>1. CASE UNCHANGED <<pc, cur>>
  BY <1>1
<1>2. ASSUME NEW v \in Worker, ClaimSelect(v) \/ ClaimMiss(v) \/ WorkerExit(v)
      PROVE  (pc'[w] = pc[w] /\ cur'[w] = cur[w]) \/ ClaimSelect(w)
  BY <1>2 DEF ClaimSelect, ClaimMiss, WorkerExit
<1>3. ASSUME NEW v \in Worker, ClaimUpdate(v)
      PROVE  \/ pc'[w] = pc[w] /\ cur'[w] = cur[w]
             \/ cur'[w] = cur[w] /\ Working(w) /\ ClaimUpdate(w)
  BY <1>3 DEF ClaimUpdate
<1>4. ASSUME NEW v \in Worker, LoadTask(v) \/ SendOK(v) \/ SendFails(v) \/ SendPanics(v)
      PROVE  \/ pc'[w] = pc[w] /\ cur'[w] = cur[w]
             \/ cur'[w] = cur[w] /\ Working(w) /\ ProcessStep(w)
  <2>1. UNCHANGED cur /\ Working(v) /\ pc' = [pc EXCEPT ![v] = pc'[v]]
    BY <1>4 DEF LoadTask, SendOK, SendFails, SendPanics
  <2> QED
    BY <1>4, <2>1 DEF ProcessStep
<1>5. ASSUME NEW v \in Worker, MarkDone(v) \/ MarkFailedWrite(v)
      PROVE  pc'[w] = pc[w] /\ cur'[w] = cur[w]
  BY <1>5 DEF MarkDone, MarkFailedWrite
<1>6. ASSUME NEW v \in Worker, MarkFailedCount(v)
      PROVE  \/ pc'[w] = pc[w] /\ cur'[w] = cur[w]
             \/ cur'[w] = cur[w] /\ Working(w) /\ MarkFailedCount(w)
  BY <1>6 DEF MarkFailedCount
<1>7. ASSUME NEW i \in Instance, Drained(i) \/ Crash(i)
      PROVE  pc'[w] = pc[w] /\ cur'[w] = cur[w]
  BY <1>7 DEF Drained, Crash
<1> QED
  BY <1>1, <1>2, <1>3, <1>4, <1>5, <1>6, <1>7
  DEF Next, EnqueueNext, WorkerNext, ProcessStep, InstanceNext, vars, workVars,
      EnqueueCheck, EnqueueLogRetryCheck, Create, CreateDuplicate, CreateFails, SetEnabled,
      DeleteTask, RenewClaim, RecoverRetry, RecoverFail, RecoverError, CleanupDone,
      CleanupLogs, Start, Stop, Tick

\* What has happened to a job is not forgotten.
LEMMA HistoryGrows ==
  ASSUME TypeOK, [Next]_vars, NEW j \in Job
  PROVE  delivered'[j] >= delivered[j] /\ (skipped[j] => skipped'[j])
<1>a. delivered[j] \in Nat
  BY DEF TypeOK, HistoryType
<1>1. CASE UNCHANGED <<delivered, skipped>>
  BY <1>1, <1>a
<1>2. ASSUME NEW w \in Worker, LoadTask(w) \/ SendOK(w)
      PROVE  delivered'[j] >= delivered[j] /\ (skipped[j] => skipped'[j])
  BY <1>2, <1>a DEF LoadTask, SendOK, TypeOK, HistoryType
<1> QED
  BY <1>1, <1>2
  DEF Next, EnqueueNext, WorkerNext, ProcessStep, InstanceNext, vars, ghostVars,
      EnqueueCheck, EnqueueLogRetryCheck, Create, CreateDuplicate, CreateFails, SetEnabled,
      DeleteTask, ClaimSelect, ClaimUpdate, ClaimMiss, SendFails, SendPanics, MarkDone,
      MarkFailedCount, MarkFailedWrite, RenewClaim, WorkerExit, RecoverRetry, RecoverFail,
      RecoverError, CleanupDone, CleanupLogs, Start, Stop, Drained, Crash, Tick

\* The inductive form of DoneMeansHandled: a worker that goes to mark its job
\* done has delivered it or found nothing to do, and its row exists.
HandledInv ==
  /\ DoneMeansHandled
  /\ \A w \in Worker : Working(w) => status[cur[w]] # "absent"
  /\ \A w \in Worker : pc[w] = "mark_done" /\ ~row[cur[w]].log =>
       delivered[cur[w]] > 0 \/ skipped[cur[w]]

LEMMA HandledInit == Init => HandledInv
  BY DEF Init, HandledInv, DoneMeansHandled, Working

LEMMA HandledStep == TypeOK /\ HandledInv /\ [Next]_vars => HandledInv'
<1> SUFFICES ASSUME TypeOK, HandledInv, [Next]_vars PROVE HandledInv'
  OBVIOUS
<1>a. \A j \in Job : delivered[j] \in Nat /\ delivered'[j] \in Nat
  BY TypeStep DEF TypeOK, HistoryType
\* A worker that still works on a row that exists.
<1>1. ASSUME NEW w \in Worker, Working(w)'
      PROVE  status'[cur'[w]] # "absent"
  <2>1. CASE ClaimSelect(w)
    BY <2>1 DEF ClaimSelect, Due, rowVars, TypeOK, WorkerType
  <2>2. CASE Working(w) /\ cur'[w] = cur[w]
    BY <2>2, WorkingJob, RowStays DEF HandledInv, Working
  <2> QED
    BY <1>1, <2>1, <2>2, OwnSteps DEF Working
<1>2. ASSUME NEW w \in Worker, pc'[w] = "mark_done", ~row'[cur'[w]].log
      PROVE  delivered'[cur'[w]] > 0 \/ skipped'[cur'[w]]
  <2>1. Working(w)'
    BY <1>2 DEF Working
  <2>2. CASE pc'[w] = pc[w] /\ cur'[w] = cur[w]
    <3>1. cur[w] \in Job /\ row'[cur[w]] = row[cur[w]]
      BY <1>2, <2>2, WorkingJob, RowStays DEF HandledInv, Working
    <3>2. delivered[cur[w]] > 0 \/ skipped[cur[w]]
      BY <1>2, <2>2, <3>1 DEF HandledInv
    <3> QED
      BY <1>a, <2>2, <3>1, <3>2, HistoryGrows
  <2>3. CASE ClaimSelect(w) \/ ClaimUpdate(w)
    BY <1>2, <2>3 DEF ClaimSelect, ClaimUpdate, Goto, Return, TypeOK, WorkerType
  <2>4. CASE LoadTask(w)
    BY <1>2, <2>4, WorkingJob DEF LoadTask, Goto, TypeOK, WorkerType, HistoryType
  <2>5. CASE SendOK(w)
    <3>1. cur[w] \in Job /\ cur' = cur /\ delivered'[cur[w]] = delivered[cur[w]] + 1
      BY <2>5, WorkingJob DEF SendOK, TypeOK, HistoryType
    <3> QED
      BY <1>a, <3>1
  <2>6. CASE SendFails(w)
    BY <1>2, <2>6 DEF SendFails, rowVars, Goto, TypeOK, WorkerType
  <2>7. CASE SendPanics(w) \/ MarkDone(w) \/ MarkFailedCount(w) \/ MarkFailedWrite(w)
    BY <1>2, <2>7 DEF SendPanics, MarkDone, MarkFailedCount, MarkFailedWrite, Goto, Return,
       TypeOK, WorkerType
  <2> QED
    BY <2>1, <2>2, <2>3, <2>4, <2>5, <2>6, <2>7, OwnSteps DEF ProcessStep
<1>3. ASSUME NEW j \in Job, status'[j] = "done", ~row'[j].log
      PROVE  delivered'[j] > 0 \/ skipped'[j]
  <2>1. CASE status[j] = "done"
    <3>1. delivered[j] > 0 \/ skipped[j]
      BY <1>3, <2>1, RowStays DEF HandledInv, DoneMeansHandled
    <3> QED
      BY <1>a, <3>1, HistoryGrows
  <2>2. ASSUME NEW w \in Worker, MarkDone(w), status[j] # "done"
        PROVE  delivered'[j] > 0 \/ skipped'[j]
    BY <1>3, <2>2 DEF MarkDone, HandledInv, ghostVars, TypeOK, RowType
  <2>3. CASE status'[j] = status[j]
    BY <1>3, <2>1, <2>3
  <2>4. ASSUME NEW r \in reqs, NEW k \in Job, Create(r, k) PROVE status'[j] \in {status[j], "pending"}
    BY <2>4 DEF Create, TypeOK, RowType
  <2>5. ASSUME NEW w \in Worker, ClaimUpdate(w) \/ MarkFailedWrite(w)
        PROVE  status'[j] \in {status[j], "claimed", "failed", "pending"}
    BY <2>5 DEF ClaimUpdate, MarkFailedWrite, TypeOK, RowType
  <2>6. ASSUME NEW i \in Instance, RecoverRetry(i) \/ RecoverFail(i) \/ CleanupDone(i)
        PROVE  status'[j] \in {status[j], "deleted", "failed", "pending"}
    BY <2>6 DEF RecoverRetry, RecoverFail, CleanupDone
  <2> QED
    BY <1>3, <2>1, <2>2, <2>3, <2>4, <2>5, <2>6
    DEF Next, EnqueueNext, WorkerNext, ProcessStep, InstanceNext, vars, rowVars,
        EnqueueCheck, EnqueueLogRetryCheck, CreateDuplicate, CreateFails, SetEnabled, DeleteTask,
        ClaimSelect, ClaimMiss, LoadTask, SendOK, SendFails, SendPanics, MarkFailedCount,
        RenewClaim, WorkerExit, RecoverError, CleanupLogs, Start, Stop, Drained, Crash, Tick
<1> QED
  BY <1>1, <1>2, <1>3 DEF HandledInv, DoneMeansHandled

\* A job that ends as done was sent completely by some run, or a run found its
\* task gone or switched off, whatever crashes, takeovers and database errors
\* there are: no error of the database is taken for "nothing to do".
THEOREM DoneIsHandled == Spec => []DoneMeansHandled
<1>1. Init => TypeOK /\ HandledInv
  BY TypeInit, HandledInit
<1>2. (TypeOK /\ HandledInv) /\ [Next]_vars => (TypeOK /\ HandledInv)'
  BY TypeStep, HandledStep
<1>3. HandledInv => DoneMeansHandled
  BY DEF HandledInv
<1> QED
  BY <1>1, <1>2, <1>3, PTL DEF Spec

-----------------------------------------------------------------------------
(* The queue when nothing goes wrong: no crash, no error, no late replica. *)

Steady == Timely /\ ~DBFaults /\ MaxCrashes = 0

\* Every claimed row is being worked on.
ClaimHasWorker == \A j \in Job : status[j] = "claimed" => \E w \in Worker : Busy(w) /\ cur[w] = j

\* Then no claim is stale, nobody crashes, and the loop that recovers stale
\* claims finds nothing.
LEMMA NothingStale ==
  ASSUME Steady, TypeOK, FreshClaim, ClaimHasWorker
  PROVE  /\ \A j \in Job : ~Stale(j)
         /\ \A i \in Instance : ~Crash(i) /\ ~RecoverRetry(i)
         /\ \A i \in Instance : RecoverFail(i) => UNCHANGED <<rowVars, workVars, ghostVars>>
<1>1. \A j \in Job : ~Stale(j)
  <2> SUFFICES ASSUME NEW j \in Job, Stale(j) PROVE FALSE
    OBVIOUS
  <2>1. PICK w \in Worker : Busy(w) /\ cur[w] = j
    BY DEF Stale, ClaimHasWorker
  <2>2. claim_age[j] <= ClaimTTL /\ claim_age[j] \in Int /\ ClaimTTL \in Int
    BY <2>1, QueueAssumption DEF FreshClaim, TypeOK, RowType
  <2> QED
    BY <2>2 DEF Stale
<1>2. \A i \in Instance : ~Crash(i) /\ ~RecoverRetry(i)
  BY <1>1 DEF Crash, RecoverRetry, Steady, TypeOK, ReplicaType
<1>3. ASSUME NEW i \in Instance, RecoverFail(i) PROVE UNCHANGED <<rowVars, workVars, ghostVars>>
  <2>1. /\ status' = [j \in Job |-> status[j]]
        /\ claimed_by' = [j \in Job |-> claimed_by[j]]
        /\ claim_age' = [j \in Job |-> claim_age[j]]
        /\ retry_in' = [j \in Job |-> retry_in[j]]
        /\ UNCHANGED <<row, attempts, idle_age, workVars, ghostVars>>
    BY <1>1, <1>3 DEF RecoverFail
  <2> QED
    BY <2>1 DEF rowVars, TypeOK, RowType
<1> QED
  BY <1>1, <1>2, <1>3

\* Statements of a running job cannot miss or fail.
LEMMA SteadyStatements ==
  ASSUME Steady, TypeOK, FreshClaim, NEW w \in Worker
  PROVE  /\ ClaimUpdate(w) => Goto(w, "loaded") /\ UNCHANGED <<cur, seen>>
         /\ MarkDone(w) => status' = [status EXCEPT ![cur[w]] = "done"]
         /\ MarkFailedCount(w) =>
              /\ attempts' = [attempts EXCEPT ![cur[w]] = attempts[cur[w]] + 1]
              /\ Goto(w, IF GiveUp(attempts[cur[w]] + 1) THEN "write_failed" ELSE "write_pending")
              /\ UNCHANGED cur
         /\ MarkFailedWrite(w) =>
              status' = [status EXCEPT ![cur[w]] = IF pc[w] = "write_failed" THEN "failed" ELSE "pending"]
<1>1. Busy(w) => Holds(w) /\ status[cur[w]] = "claimed"
  BY DEF FreshClaim, ExclusiveClaim, Holds
<1> QED
  BY <1>1 DEF Steady, Fault, ClaimUpdate, MarkDone, MarkFailedCount, MarkFailedWrite, Busy, BusyPCs

LEMMA ClaimHasWorkerStep ==
  ASSUME Steady
  PROVE  TypeOK /\ FreshClaim /\ ClaimHasWorker /\ [Next]_vars => ClaimHasWorker'
<1> SUFFICES ASSUME TypeOK, FreshClaim, ClaimHasWorker, [Next]_vars, NEW j \in Job,
                    status'[j] = "claimed"
             PROVE  \E w \in Worker : Busy(w)' /\ cur'[w] = j
  BY DEF ClaimHasWorker
<1>1. ASSUME NEW w \in Worker, Busy(w)', cur'[w] = j
      PROVE  \E v \in Worker : Busy(v)' /\ cur'[v] = j
  BY <1>1
<1>2. ASSUME NEW v \in Worker, ClaimUpdate(v), cur[v] = j
      PROVE  \E w \in Worker : Busy(w)' /\ cur'[w] = j
  <2>1. pc'[v] = "loaded" /\ cur'[v] = j
    BY <1>2, SteadyStatements DEF Goto, TypeOK, WorkerType
  <2> QED
    BY <2>1 DEF Busy, BusyPCs
<1>3. CASE status[j] = "claimed"
  <2>1. PICK w \in Worker : Busy(w) /\ cur[w] = j
    BY <1>3 DEF ClaimHasWorker
  <2>2. CASE Busy(w)' /\ cur'[w] = cur[w]
    BY <2>1, <2>2
  <2>3. CASE UNCHANGED <<pc, cur>>
    BY <2>1, <2>3 DEF Busy
  <2>4. ASSUME NEW v \in Worker, v # w,
               ClaimSelect(v) \/ ClaimMiss(v) \/ ClaimUpdate(v) \/ ProcessStep(v) \/ WorkerExit(v)
        PROVE  Busy(w)' /\ cur'[w] = cur[w]
    BY <2>1, <2>4 DEF ClaimSelect, ClaimMiss, ClaimUpdate, ProcessStep, LoadTask, SendOK, SendFails,
       SendPanics, MarkDone, MarkFailedCount, MarkFailedWrite, WorkerExit, Goto, Return, Busy,
       TypeOK, WorkerType
  <2>5. CASE LoadTask(w) \/ SendOK(w) \/ SendFails(w) \/ SendPanics(w)
    BY <2>1, <2>5 DEF LoadTask, SendOK, SendFails, SendPanics, Goto, Busy, BusyPCs, TypeOK, WorkerType
  <2>6. CASE MarkFailedCount(w)
    <3>1. pc'[w] \in {"write_failed", "write_pending"} /\ cur' = cur
      BY <2>6, SteadyStatements DEF Goto, TypeOK, WorkerType
    <3> QED
      BY <2>2, <3>1 DEF Busy, BusyPCs
  <2>7. CASE MarkDone(w) \/ MarkFailedWrite(w)
    BY <2>1, <2>7, SteadyStatements DEF TypeOK, RowType
  <2>8. CASE ClaimSelect(w) \/ ClaimMiss(w) \/ ClaimUpdate(w) \/ WorkerExit(w)
    BY <2>1, <2>8 DEF ClaimSelect, ClaimMiss, ClaimUpdate, WorkerExit, Busy, BusyPCs
  <2>9. ASSUME NEW i \in Instance, Drained(i) PROVE Busy(w)' /\ cur'[w] = cur[w]
    BY <2>1, <2>9 DEF Drained, Busy, BusyPCs, TypeOK, WorkerType
  <2>10. ASSUME NEW i \in Instance, RecoverFail(i) PROVE UNCHANGED <<pc, cur>>
    BY <2>10, NothingStale DEF workVars
  <2> QED
    BY <2>2, <2>3, <2>4, <2>5, <2>6, <2>7, <2>8, <2>9, <2>10, NothingStale
    DEF Next, EnqueueNext, WorkerNext, ProcessStep, InstanceNext, vars, workVars,
        EnqueueCheck, EnqueueLogRetryCheck, Create, CreateDuplicate, CreateFails, SetEnabled,
        DeleteTask, RenewClaim, RecoverError, CleanupDone, CleanupLogs, Start, Stop, Tick
<1>4. CASE status[j] # "claimed"
  <2>1. CASE UNCHANGED status
    BY <1>4, <2>1
  <2>2. ASSUME NEW r \in reqs, NEW k \in Job, Create(r, k) PROVE FALSE
    BY <1>4, <2>2 DEF Create, TypeOK, RowType
  <2>3. ASSUME NEW v \in Worker, ClaimUpdate(v) PROVE \E w \in Worker : Busy(w)' /\ cur'[w] = j
    BY <1>2, <1>4, <2>3 DEF ClaimUpdate, TypeOK, RowType
  <2>4. ASSUME NEW v \in Worker, MarkDone(v) \/ MarkFailedWrite(v) PROVE FALSE
    BY <1>4, <2>4 DEF MarkDone, MarkFailedWrite, TypeOK, RowType
  <2>5. ASSUME NEW i \in Instance, RecoverRetry(i) \/ RecoverFail(i) \/ CleanupDone(i) PROVE FALSE
    BY <1>4, <2>5 DEF RecoverRetry, RecoverFail, CleanupDone
  <2> QED
    BY <2>1, <2>2, <2>3, <2>4, <2>5
    DEF Next, EnqueueNext, WorkerNext, ProcessStep, InstanceNext, vars, rowVars,
        EnqueueCheck, EnqueueLogRetryCheck, CreateDuplicate, CreateFails, SetEnabled, DeleteTask,
        ClaimSelect, ClaimMiss, LoadTask, SendOK, SendFails, SendPanics, MarkFailedCount,
        RenewClaim, WorkerExit, RecoverError, CleanupLogs, Start, Stop, Drained, Crash, Tick
<1> QED
  BY <1>3, <1>4

LEMMA SteadyAlways == ASSUME Steady PROVE Spec => [](TypeOK /\ FreshClaim /\ ClaimHasWorker)
<1>1. Init => TypeOK /\ FreshClaim /\ ClaimHasWorker
  BY TypeInit, FreshInit DEF Init, ClaimHasWorker
<1>2. (TypeOK /\ FreshClaim /\ ClaimHasWorker) /\ [Next]_vars =>
        (TypeOK /\ FreshClaim /\ ClaimHasWorker)'
  BY TypeStep, FreshStep, ClaimHasWorkerStep DEF Steady
<1> QED
  BY <1>1, <1>2, PTL DEF Spec

\* A graceful stop waits for every worker, and what a replica has claimed is
\* in the hands of one of them: it leaves nothing claimed behind.
THEOREM StopLeavesNothing == ASSUME Steady PROVE Spec => CleanExit
<1> DEFINE A == \A i \in Instance : Drained(i) => \A j \in Job : claimed_by[j] # i
<1>1. TypeOK /\ FreshClaim /\ ClaimHasWorker => A
  <2> SUFFICES ASSUME TypeOK, FreshClaim, ClaimHasWorker, NEW i \in Instance, Drained(i),
                      NEW j \in Job, claimed_by[j] = i
               PROVE  FALSE
    OBVIOUS
  <2>1. status[j] = "claimed"
    BY QueueAssumption DEF TypeOK, RowType
  <2>2. PICK w \in Worker : Busy(w) /\ cur[w] = j
    BY <2>1 DEF ClaimHasWorker
  <2>3. Home[w] = i
    BY <2>2 DEF FreshClaim, ExclusiveClaim, Holds
  <2> QED
    BY <2>2, <2>3 DEF Drained, Busy, BusyPCs
<1>2. CleanExit <=> [][A]_vars
  BY DEF CleanExit
<1> HIDE DEF A
<1> QED
  BY <1>1, <1>2, SteadyAlways, PTL

-----------------------------------------------------------------------------
(* No job is given up early.                                               *)

\* A counted failure whose second statement is still to come.
Counted(w) == pc[w] \in {"write_failed", "write_pending"}

\* The inductive form of FailedMeansExhausted: every claim ends as one
\* counted failure, the run under way excepted, and only a count that has
\* reached MaxAttempts leads to "failed".
EachClaimCounts ==
  /\ \A j \in Job : status[j] \in {"absent", "pending", "failed"} => claims[j] = attempts[j]
  /\ \A w \in Worker : Busy(w) =>
       claims[cur[w]] = attempts[cur[w]] + (IF Counted(w) THEN 0 ELSE 1)
  /\ \A w \in Worker : pc[w] = "write_failed" => attempts[cur[w]] >= MaxAttempts
  /\ \A j \in Job : status[j] = "failed" => attempts[j] >= MaxAttempts

\* A step that counts nothing and makes no worker busy on a new job keeps it.
LEMMA CountsFrame ==
  ASSUME EachClaimCounts, claims' = claims, attempts' = attempts,
         \A j \in Job : \/ status'[j] = status[j]
                        \/ status'[j] = "done" \/ status'[j] = "deleted"
                        \/ status[j] = "absent" /\ status'[j] = "pending",
         \A w \in Worker : Busy(w)' => /\ Busy(w) /\ cur'[w] = cur[w]
                                       /\ \/ pc'[w] = pc[w]
                                          \/ ~Counted(w) /\ ~Counted(w)'
  PROVE  EachClaimCounts'
<1>1. \A w \in Worker : pc'[w] = "write_failed" => Busy(w)'
  BY DEF Busy, BusyPCs
<1> QED
  BY <1>1 DEF EachClaimCounts, Counted

LEMMA CountsStep ==
  ASSUME Steady
  PROVE  TypeOK /\ FreshClaim /\ ClaimHasWorker /\ EachClaimCounts /\ [Next]_vars
           => EachClaimCounts'
<1> SUFFICES ASSUME TypeOK, FreshClaim, ClaimHasWorker, EachClaimCounts, [Next]_vars
             PROVE  EachClaimCounts'
  OBVIOUS
<1>a. \A j \in Job : claims[j] \in Nat /\ attempts[j] \in Nat
  BY DEF TypeOK, RowType, HistoryType
<1>b. \A w \in Worker : Busy(w) => cur[w] \in Job /\ status[cur[w]] = "claimed"
  BY WorkingJob DEF Busy, BusyPCs, FreshClaim, ExclusiveClaim, Holds
<1>c. \A v, w \in Worker : v # w /\ Busy(v) /\ Busy(w) => cur[v] # cur[w]
  BY DEF FreshClaim, ExclusiveClaim
<1>1. CASE UNCHANGED <<pc, cur, status, claims, attempts>>
  BY <1>1, CountsFrame DEF Busy, Counted
<1>2. ASSUME NEW r \in reqs, NEW k \in Job, Create(r, k) PROVE EachClaimCounts'
  BY <1>2, CountsFrame DEF Create, workVars, ghostVars, Busy, Counted, TypeOK, RowType
<1>3. ASSUME NEW v \in Worker, ClaimUpdate(v) PROVE EachClaimCounts'
  <2> DEFINE j == cur[v]
  <2>1. /\ j \in Job /\ status[j] = "pending"
        /\ status' = [status EXCEPT ![j] = "claimed"]
        /\ claims' = [claims EXCEPT ![j] = claims[j] + 1]
        /\ pc' = [pc EXCEPT ![v] = "loaded"]
        /\ UNCHANGED <<cur, attempts>>
    BY <1>3, WorkingJob, SteadyStatements DEF ClaimUpdate, Goto
  <2>2. claims[j] = attempts[j]
    BY <2>1 DEF EachClaimCounts
  <2>3. \A k \in Job \ {j} : status'[k] = status[k] /\ claims'[k] = claims[k]
    BY <2>1 DEF TypeOK, RowType, HistoryType
  <2>4. status'[j] = "claimed" /\ claims'[j] = attempts'[j] + 1
    BY <2>1, <2>2 DEF TypeOK, RowType, HistoryType
  <2>5. pc'[v] = "loaded" /\ \A w \in Worker \ {v} : pc'[w] = pc[w]
    BY <2>1 DEF TypeOK, WorkerType
  <2>6. ASSUME NEW w \in Worker, Busy(w)'
        PROVE  claims'[cur'[w]] = attempts'[cur'[w]] + (IF Counted(w)' THEN 0 ELSE 1)
    <3>1. CASE w = v
      BY <2>1, <2>4, <2>5, <3>1 DEF Counted
    <3>2. CASE w # v
      <4>1. Busy(w) /\ (Counted(w)' <=> Counted(w))
        BY <2>5, <2>6, <3>2 DEF Busy, Counted
      <4>2. cur[w] \in Job \ {j}
        BY <1>b, <2>1, <4>1
      <4> QED
        BY <2>1, <2>3, <4>1, <4>2 DEF EachClaimCounts
    <3> QED
      BY <3>1, <3>2
  <2>7. ASSUME NEW w \in Worker, pc'[w] = "write_failed" PROVE attempts'[cur'[w]] >= MaxAttempts
    BY <2>1, <2>5, <2>7 DEF EachClaimCounts
  <2> QED
    BY <2>1, <2>3, <2>4, <2>6, <2>7 DEF EachClaimCounts
<1>4. ASSUME NEW v \in Worker,
             \/ ClaimSelect(v) \/ ClaimMiss(v) \/ LoadTask(v) \/ SendOK(v) \/ SendFails(v)
             \/ SendPanics(v) \/ WorkerExit(v)
      PROVE  EachClaimCounts'
  <2>1. UNCHANGED <<claims, attempts, status>>
    BY <1>4 DEF ClaimSelect, ClaimMiss, LoadTask, SendOK, SendFails, SendPanics, WorkerExit,
       rowVars, ghostVars
  <2>2. \A w \in Worker : Busy(w)' => /\ Busy(w) /\ cur'[w] = cur[w]
                                      /\ \/ pc'[w] = pc[w]
                                         \/ ~Counted(w) /\ ~Counted(w)'
    BY <1>4 DEF ClaimSelect, ClaimMiss, LoadTask, SendOK, SendFails, SendPanics, WorkerExit,
       Goto, Return, Busy, BusyPCs, Counted, TypeOK, WorkerType
  <2> QED
    BY <2>1, <2>2, CountsFrame
<1>5. ASSUME NEW v \in Worker, MarkDone(v) PROVE EachClaimCounts'
  <2>1. UNCHANGED <<claims, attempts>> /\ \A k \in Job : status'[k] \in {status[k], "done"}
    BY <1>5 DEF MarkDone, ghostVars, TypeOK, RowType
  <2>2. \A w \in Worker : Busy(w)' => Busy(w) /\ cur'[w] = cur[w] /\ pc'[w] = pc[w]
    BY <1>5 DEF MarkDone, Goto, Return, Busy, BusyPCs, TypeOK, WorkerType
  <2> QED
    BY <2>1, <2>2, CountsFrame DEF Counted
<1>6. ASSUME NEW v \in Worker, MarkFailedCount(v) PROVE EachClaimCounts'
  <2> DEFINE j == cur[v]
             n == attempts[j] + 1
  <2>1. /\ j \in Job /\ Busy(v) /\ ~Counted(v)
        /\ attempts' = [attempts EXCEPT ![j] = n]
        /\ pc' = [pc EXCEPT ![v] = IF GiveUp(n) THEN "write_failed" ELSE "write_pending"]
        /\ UNCHANGED <<cur, status, claims>>
    BY <1>6, WorkingJob, SteadyStatements
    DEF MarkFailedCount, Goto, Busy, BusyPCs, Counted, ghostVars
  <2>2. \A k \in Job \ {j} : attempts'[k] = attempts[k]
    BY <2>1 DEF TypeOK, RowType
  <2>3. attempts'[j] = n /\ claims[j] = n
    BY <2>1 DEF TypeOK, RowType, EachClaimCounts
  <2>4. pc'[v] = (IF GiveUp(n) THEN "write_failed" ELSE "write_pending")
    BY <2>1 DEF TypeOK, WorkerType
  <2>5. ASSUME NEW w \in Worker, Busy(w)'
        PROVE  /\ claims'[cur'[w]] = attempts'[cur'[w]] + (IF Counted(w)' THEN 0 ELSE 1)
               /\ pc'[w] = "write_failed" => attempts'[cur'[w]] >= MaxAttempts
    <3>1. CASE w = v
      BY <1>a, <2>1, <2>3, <2>4, <3>1 DEF Counted, GiveUp
    <3>2. CASE w # v
      <4>1. Busy(w) /\ pc'[w] = pc[w]
        BY <2>1, <2>5, <3>2 DEF Busy, TypeOK, WorkerType
      <4>2. cur[w] \in Job \ {j}
        BY <1>b, <1>c, <2>1, <3>2, <4>1
      <4> QED
        BY <2>1, <2>2, <4>1, <4>2 DEF EachClaimCounts, Counted
    <3> QED
      BY <3>1, <3>2
  <2>6. \A w \in Worker : pc'[w] = "write_failed" => Busy(w)'
    BY DEF Busy, BusyPCs
  <2>7. status[j] = "claimed"
    BY <1>b, <2>1
  <2> QED
    BY <2>1, <2>2, <2>5, <2>6, <2>7 DEF EachClaimCounts
<1>7. ASSUME NEW v \in Worker, MarkFailedWrite(v) PROVE EachClaimCounts'
  <2> DEFINE j == cur[v]
  <2>1. /\ j \in Job /\ Busy(v) /\ Counted(v)
        /\ status' = [status EXCEPT ![j] = IF pc[v] = "write_failed" THEN "failed" ELSE "pending"]
        /\ UNCHANGED <<attempts, claims>>
    BY <1>7, WorkingJob, SteadyStatements
    DEF MarkFailedWrite, Busy, BusyPCs, Counted, ghostVars
  <2>2. \A w \in Worker : Busy(w)' => Busy(w) /\ cur'[w] = cur[w] /\ pc'[w] = pc[w]
    BY <1>7 DEF MarkFailedWrite, Goto, Return, Busy, BusyPCs, TypeOK, WorkerType
  <2>3. \A k \in Job \ {j} : status'[k] = status[k]
    BY <2>1 DEF TypeOK, RowType
  <2>4. status'[j] = IF pc[v] = "write_failed" THEN "failed" ELSE "pending"
    BY <2>1 DEF TypeOK, RowType
  <2>5. claims[j] = attempts[j] /\ (pc[v] = "write_failed" => attempts[j] >= MaxAttempts)
    BY <1>a, <2>1 DEF EachClaimCounts
  <2>6. \A w \in Worker : pc'[w] = "write_failed" => Busy(w)'
    BY DEF Busy, BusyPCs
  <2> QED
    BY <2>1, <2>2, <2>3, <2>4, <2>5, <2>6 DEF EachClaimCounts, Counted
<1>8. ASSUME NEW i \in Instance, CleanupDone(i) PROVE EachClaimCounts'
  <2>1. UNCHANGED <<pc, cur, claims, attempts>> /\ \A k \in Job : status'[k] \in {status[k], "deleted"}
    BY <1>8 DEF CleanupDone, workVars, ghostVars
  <2> QED
    BY <2>1, CountsFrame DEF Busy, Counted
<1>9. ASSUME NEW i \in Instance, RecoverFail(i) PROVE UNCHANGED <<pc, cur, status, claims, attempts>>
  BY <1>9, NothingStale DEF workVars, rowVars, ghostVars
<1>10. ASSUME NEW i \in Instance, Drained(i) PROVE EachClaimCounts'
  <2>1. UNCHANGED <<cur, status, claims, attempts>>
    BY <1>10 DEF Drained, rowVars, ghostVars
  <2>2. \A w \in Worker : Busy(w)' => Busy(w) /\ pc'[w] = pc[w]
    BY <1>10 DEF Drained, Busy, BusyPCs, TypeOK, WorkerType
  <2> QED
    BY <2>1, <2>2, CountsFrame DEF Counted
<1> QED
  BY <1>1, <1>2, <1>3, <1>4, <1>5, <1>6, <1>7, <1>8, <1>9, <1>10, NothingStale
  DEF Next, EnqueueNext, WorkerNext, ProcessStep, InstanceNext, vars, workVars, rowVars, ghostVars,
      EnqueueCheck, EnqueueLogRetryCheck, CreateDuplicate, CreateFails, SetEnabled,
      DeleteTask, RenewClaim, RecoverError, CleanupLogs, Start, Stop, Tick

\* When nothing goes wrong, "failed" means that all MaxAttempts runs were
\* made: MarkFailed neither counts a run twice nor gives up before the last.
THEOREM FailedIsExhausted == ASSUME Steady PROVE Spec => []FailedMeansExhausted
<1> DEFINE Inv == TypeOK /\ FreshClaim /\ ClaimHasWorker /\ ClaimBudget /\ EachClaimCounts
<1>1. Init => Inv
  BY TypeInit, FreshInit, BudgetInit
  DEF Init, ClaimHasWorker, EachClaimCounts, Busy, BusyPCs
<1>2. Inv /\ [Next]_vars => Inv'
  BY TypeStep, FreshStep, ClaimHasWorkerStep, BudgetStep, CountsStep DEF Steady
<1>3. Inv => FailedMeansExhausted
  <2> SUFFICES ASSUME Inv, NEW j \in Job, status[j] = "failed" PROVE claims[j] = MaxAttempts
    BY DEF FailedMeansExhausted
  <2>1. claims[j] >= MaxAttempts
    BY DEF EachClaimCounts
  <2>2. claims[j] <= MaxAttempts
    BY BudgetBounds DEF BoundedClaims
  <2> QED
    BY <2>1, <2>2, QueueAssumption DEF TypeOK, HistoryType
<1> HIDE DEF Inv
<1> QED
  BY <1>1, <1>2, <1>3, PTL DEF Spec

-----------------------------------------------------------------------------
(* Nothing is sent twice.                                                  *)

\* A row not inserted yet is blank.
AbsentIsBlank == \A j \in Job : status[j] = "absent" => row[j] = NoRow

\* Of the rows enqueued under one dedupe key at most one is still kept.
KeyUnique ==
  \A j, k \in Job : j # k /\ row[j].key = row[k].key /\ row[j].key # NoKey
    => status[j] = "deleted" \/ status[k] = "deleted"

KeyInv == AbsentIsBlank /\ KeyUnique

LEMMA KeyInit == Init => KeyInv
  BY DEF Init, KeyInv, AbsentIsBlank, KeyUnique, NoRow

LEMMA KeyStep == TypeOK /\ KeyInv /\ [Next]_vars => KeyInv'
<1> SUFFICES ASSUME TypeOK, KeyInv, [Next]_vars PROVE KeyInv'
  OBVIOUS
<1>1. ASSUME UNCHANGED row PROVE KeyInv'
  <2>1. \A j \in Job : /\ status'[j] = "absent" => status[j] = "absent"
                       /\ status[j] = "deleted" => status'[j] = "deleted"
    BY RowStays
  <2> QED
    BY <1>1, <2>1 DEF KeyInv, AbsentIsBlank, KeyUnique
<1>2. ASSUME NEW r \in reqs, NEW k \in Job, Create(r, k) PROVE KeyInv'
  <2>1. /\ row' = [row EXCEPT ![k] = r] /\ row'[k] = r
        /\ status' = [status EXCEPT ![k] = "pending"] /\ status'[k] = "pending"
    BY <1>2 DEF Create, TypeOK, RowType
  <2>2. \A j \in Job \ {k} : row'[j] = row[j] /\ status'[j] = status[j]
    BY <2>1 DEF TypeOK, RowType
  <2>3. ASSUME NEW j \in Job \ {k}, row[j].key = r.key, r.key # NoKey
        PROVE  status[j] = "deleted"
    <3>1. status[j] = "absent" => row[j].key = NoKey
      BY DEF KeyInv, AbsentIsBlank, NoRow
    <3> QED
      BY <1>2, <2>3, <3>1 DEF Create, Duplicate
  <2> QED
    BY <2>1, <2>2, <2>3 DEF KeyInv, AbsentIsBlank, KeyUnique
<1>3. UNCHANGED row \/ \E r \in reqs, k \in Job : Create(r, k)
  BY DEF Next, EnqueueNext, WorkerNext, ProcessStep, InstanceNext, vars, rowVars,
      EnqueueCheck, EnqueueLogRetryCheck, CreateDuplicate, CreateFails, SetEnabled, DeleteTask,
      ClaimSelect, ClaimUpdate, ClaimMiss, LoadTask, SendOK, SendFails, SendPanics, MarkDone,
      MarkFailedCount, MarkFailedWrite, RenewClaim, WorkerExit, RecoverRetry, RecoverFail,
      RecoverError, CleanupDone, CleanupLogs, Start, Stop, Drained, Crash, Tick
<1> QED
  BY <1>1, <1>2, <1>3

\* However many callers race between their check and their insert, and
\* whatever else goes wrong, one dedupe key has at most one row in the table.
THEOREM OneRowPerKey == Spec => []KeyUnique
<1>1. Init => TypeOK /\ KeyInv
  BY TypeInit, KeyInit
<1>2. (TypeOK /\ KeyInv) /\ [Next]_vars => (TypeOK /\ KeyInv)'
  BY TypeStep, KeyStep
<1>3. KeyInv => KeyUnique
  BY DEF KeyInv
<1> QED
  BY <1>1, <1>2, <1>3, PTL DEF Spec

\* A job that was sent is done, or the worker that sent it is about to say so.
SentOnce ==
  \A j \in Job :
    /\ delivered[j] <= 1
    /\ delivered[j] > 0 => \/ status[j] \in {"done", "deleted"}
                           \/ \E w \in Worker : pc[w] = "mark_done" /\ cur[w] = j

\* A step that sends nothing keeps it when finished rows stay finished and the
\* workers that have sent stay where they are.
LEMMA SentFrame ==
  ASSUME SentOnce, delivered' = delivered,
         \A j \in Job : status[j] \in {"done", "deleted"} => status'[j] \in {"done", "deleted"},
         \A w \in Worker : pc[w] = "mark_done" => pc'[w] = pc[w] /\ cur'[w] = cur[w]
  PROVE  SentOnce'
  BY DEF SentOnce

LEMMA SentStep ==
  ASSUME Steady
  PROVE  TypeOK /\ FreshClaim /\ ClaimHasWorker /\ SentOnce /\ [Next]_vars => SentOnce'
<1> SUFFICES ASSUME TypeOK, FreshClaim, ClaimHasWorker, SentOnce, [Next]_vars PROVE SentOnce'
  OBVIOUS
<1>a. \A j \in Job : delivered[j] \in Nat
  BY DEF TypeOK, HistoryType
<1>b. \A w \in Worker : Busy(w) => cur[w] \in Job /\ status[cur[w]] = "claimed"
  BY WorkingJob DEF Busy, BusyPCs, FreshClaim, ExclusiveClaim, Holds
<1>c. \A v, w \in Worker : v # w /\ Busy(v) /\ Busy(w) => cur[v] # cur[w]
  BY DEF FreshClaim, ExclusiveClaim
<1>1. CASE UNCHANGED <<pc, cur, status, delivered>>
  BY <1>1, SentFrame
<1>2. ASSUME NEW r \in reqs, NEW k \in Job, Create(r, k) PROVE SentOnce'
  <2>1. UNCHANGED <<pc, cur, delivered>>
    BY <1>2 DEF Create, workVars, ghostVars
  <2>2. \A j \in Job : status[j] \in {"done", "deleted"} => status'[j] = status[j]
    BY <1>2 DEF Create, TypeOK, RowType
  <2> QED
    BY <2>1, <2>2, SentFrame
<1>3. ASSUME NEW v \in Worker, ClaimSelect(v) \/ ClaimUpdate(v) \/ ClaimMiss(v) \/ WorkerExit(v)
      PROVE  SentOnce'
  <2>1. delivered' = delivered
    BY <1>3 DEF ClaimSelect, ClaimUpdate, ClaimMiss, WorkerExit, ghostVars
  <2>2. \A j \in Job : status[j] \in {"done", "deleted"} => status'[j] = status[j]
    BY <1>3 DEF ClaimSelect, ClaimUpdate, ClaimMiss, WorkerExit, rowVars, TypeOK, RowType
  <2>3. \A w \in Worker : pc[w] = "mark_done" => pc'[w] = pc[w] /\ cur'[w] = cur[w]
    BY <1>3 DEF ClaimSelect, ClaimUpdate, ClaimMiss, WorkerExit, Goto, Return, TypeOK, WorkerType
  <2> QED
    BY <2>1, <2>2, <2>3, SentFrame
<1>4. ASSUME NEW v \in Worker, LoadTask(v) \/ SendFails(v) \/ SendPanics(v) \/ MarkFailedCount(v)
      PROVE  SentOnce'
  <2>1. delivered' = delivered /\ status' = status
    BY <1>4 DEF LoadTask, SendFails, SendPanics, MarkFailedCount, ghostVars, rowVars
  <2>2. \A w \in Worker : pc[w] = "mark_done" => pc'[w] = pc[w] /\ cur'[w] = cur[w]
    BY <1>4 DEF LoadTask, SendFails, SendPanics, MarkFailedCount, Goto, Return, TypeOK, WorkerType
  <2> QED
    BY <2>1, <2>2, SentFrame
<1>5. ASSUME NEW v \in Worker, SendOK(v) PROVE SentOnce'
  <2> DEFINE j == cur[v]
  <2>1. /\ j \in Job /\ Busy(v) /\ pc[v] = "sending"
        /\ delivered' = [delivered EXCEPT ![j] = delivered[j] + 1]
        /\ pc' = [pc EXCEPT ![v] = "mark_done"]
        /\ UNCHANGED <<cur, status>>
    BY <1>5, WorkingJob DEF SendOK, Goto, Busy, BusyPCs, rowVars
  <2>2. delivered[j] = 0
    <3>1. \A w \in Worker : ~(pc[w] = "mark_done" /\ cur[w] = j)
      BY <1>c, <2>1 DEF Busy, BusyPCs
    <3>2. status[j] = "claimed"
      BY <1>b, <2>1
    <3> QED
      BY <1>a, <2>1, <3>1, <3>2 DEF SentOnce
  <2>3. delivered'[j] = 1 /\ \A k \in Job \ {j} : delivered'[k] = delivered[k]
    BY <2>1, <2>2 DEF TypeOK, HistoryType
  <2>4. pc'[v] = "mark_done" /\ \A w \in Worker \ {v} : pc'[w] = pc[w]
    BY <2>1 DEF TypeOK, WorkerType
  <2>5. \A w \in Worker : pc[w] = "mark_done" => pc'[w] = "mark_done"
    BY <2>4
  <2> QED
    BY <2>1, <2>3, <2>4, <2>5 DEF SentOnce
<1>6. ASSUME NEW v \in Worker, MarkDone(v) \/ MarkFailedWrite(v) PROVE SentOnce'
  <2> DEFINE j == cur[v]
  <2>1. /\ j \in Job /\ status[j] = "claimed"
        /\ UNCHANGED delivered
        /\ \A w \in Worker \ {v} : pc'[w] = pc[w] /\ cur'[w] = cur[w]
    BY <1>6, <1>b DEF MarkDone, MarkFailedWrite, Goto, Return, Busy, BusyPCs, ghostVars,
       TypeOK, WorkerType
  <2>2. \A k \in Job \ {j} : status'[k] = status[k]
    BY <1>6 DEF MarkDone, MarkFailedWrite, TypeOK, RowType
  <2>3. pc[v] = "mark_done" => status'[j] = "done"
    BY <1>6, <2>1, SteadyStatements DEF MarkFailedWrite, TypeOK, RowType
  <2>4. ASSUME NEW k \in Job, delivered[k] > 0
        PROVE  \/ status'[k] \in {"done", "deleted"}
               \/ \E w \in Worker : pc'[w] = "mark_done" /\ cur'[w] = k
    <3>1. CASE status[k] \in {"done", "deleted"}
      BY <2>1, <2>2, <3>1
    <3>2. ASSUME NEW w \in Worker, pc[w] = "mark_done", cur[w] = k
          PROVE  \/ status'[k] \in {"done", "deleted"}
                 \/ \E u \in Worker : pc'[u] = "mark_done" /\ cur'[u] = k
      BY <2>1, <2>3, <3>2
    <3> QED
      BY <2>4, <3>1, <3>2 DEF SentOnce
  <2> QED
    BY <2>1, <2>4 DEF SentOnce
<1>7. ASSUME NEW i \in Instance, CleanupDone(i) PROVE SentOnce'
  <2>1. UNCHANGED <<pc, cur, delivered>>
    BY <1>7 DEF CleanupDone, workVars, ghostVars
  <2>2. \A j \in Job : status'[j] = status[j] \/ status'[j] = "deleted"
    BY <1>7 DEF CleanupDone
  <2> QED
    BY <2>1, <2>2, SentFrame
<1>8. ASSUME NEW i \in Instance, RecoverFail(i) PROVE UNCHANGED <<pc, cur, status, delivered>>
  BY <1>8, NothingStale DEF workVars, rowVars, ghostVars
<1>9. ASSUME NEW i \in Instance, Drained(i) PROVE SentOnce'
  <2>1. UNCHANGED <<cur, status, delivered>>
    BY <1>9 DEF Drained, rowVars, ghostVars
  <2>2. \A w \in Worker : pc[w] = "mark_done" => pc'[w] = pc[w]
    BY <1>9 DEF Drained, TypeOK, WorkerType
  <2> QED
    BY <2>1, <2>2, SentFrame
<1> QED
  BY <1>1, <1>2, <1>3, <1>4, <1>5, <1>6, <1>7, <1>8, <1>9, NothingStale
  DEF Next, EnqueueNext, WorkerNext, ProcessStep, InstanceNext, vars, workVars, rowVars, ghostVars,
      EnqueueCheck, EnqueueLogRetryCheck, CreateDuplicate, CreateFails, SetEnabled,
      DeleteTask, RenewClaim, RecoverError, CleanupLogs, Start, Stop, Tick

\* With no crash, no late replica and no database error every job is sent
\* completely at most once, and so is everything enqueued under one dedupe
\* key, however many workers and replicas poll the table.
THEOREM NothingSentTwice == ASSUME Steady PROVE Spec => []NoDuplicateDelivery
<1> DEFINE Inv == TypeOK /\ FreshClaim /\ ClaimHasWorker /\ KeyInv /\ SentOnce
<1>1. Init => Inv
  BY TypeInit, FreshInit, KeyInit DEF Init, ClaimHasWorker, SentOnce
<1>2. Inv /\ [Next]_vars => Inv'
  BY TypeStep, FreshStep, ClaimHasWorkerStep, KeyStep, SentStep DEF Steady
<1>3. Inv => NoDuplicateDelivery
  BY DEF KeyInv, KeyUnique, SentOnce, NoDuplicateDelivery
<1> HIDE DEF Inv
<1> QED
  BY <1>1, <1>2, <1>3, PTL DEF Spec

=============================================================================

---------------------------- MODULE CronScheduler ----------------------------
(***************************************************************************)
(* One cron task on several replicas (scheduler/scheduler.go, lease.go and *)
(* the lease statements of repository/task_repo.go).  Every replica runs   *)
(* its own cron library, which fires the task by the replica's clock; the  *)
(* fired job reads the database's clock for its dedupe key, takes the lease *)
(* on the task's row, enqueues and releases.                               *)
(*                                                                         *)
(* Time is counted in ticks of the database's clock; MinuteLen ticks make  *)
(* a minute.  The cron expression is the set of its planned times; a job   *)
(* belongs to the planned time (occurrence) its replica fired it for.      *)
(***************************************************************************)
EXTENDS Integers, FiniteSets

CONSTANTS
  Instance,    \* ids of the replicas
  NoInstance,  \* locked_by IS NULL
  MinuteLen,   \* ticks in a minute: the granularity of the dedupe key
  LeaseLen,    \* leaseSeconds, in ticks
  Planned,     \* the times the cron expression denotes
  Skew,        \* how far each replica's clock is ahead of the database's
  Horizon,     \* bound of the database's clock
  Scenes       \* the courses of events looked at: whether fired jobs are
               \* prompt and end within the minute they were fired in, when
               \* the clock stops, and bounds on crashes, statements that fail
               \* (faults) and changes of the task's enabled column (toggles)

ASSUME CronAssumption ==
  /\ NoInstance \notin Instance
  /\ MinuteLen \in Nat \ {0}
  /\ LeaseLen \in Nat
  /\ Planned \subseteq Nat
  /\ \A m \in Planned : m % MinuteLen = 0
  /\ Skew \in [Instance -> Nat]
  /\ Horizon \in Nat
  /\ Scenes \subseteq [prompt : BOOLEAN, end : 0 .. Horizon, crashes : Nat, faults : Nat, toggles : Nat]

VARIABLES
  scene,      \* one of Scenes
  clock,      \* NOW() of the database
  enabled,    \* the task is enabled and not deleted
  locked_by, locked_at,  \* the lease columns of its row
  jobs,       \* the rows of send_jobs: their dedupe key and occurrence
  up,         \* each replica: its process runs and has the task registered
  next,       \* the planned time each replica's cron entry waits for
  pc,         \* where the fired job of each replica is
  occ,        \* the occurrence that job was fired for
  key,        \* its dedupe key: a minute
  since,      \* history: when the replica last acquired the lease
  fired,      \* history: the occurrences some replica fired
  crashes, faults, toggles

dbVars   == <<enabled, locked_by, locked_at, jobs>>
runVars  == <<pc, occ, key>>
histVars == <<scene, since, fired, crashes, toggles>>
vars == <<clock, dbVars, up, next, runVars, histVars, faults>>

Minute(t) == t \div MinuteLen
Local(i)  == clock + Skew[i]

\* The schedule's next planned time after t.
IsNext(m, t) == m \in Planned /\ m > t /\ \A x \in Planned : x > t => m <= x

NoTime == -1

Init ==
  /\ scene \in Scenes
  /\ clock = 0
  /\ enabled = TRUE
  /\ locked_by = NoInstance
  /\ locked_at = 0
  /\ jobs = {}
  /\ up = [i \in Instance |-> FALSE]
  /\ next = [i \in Instance |-> NoTime]
  /\ pc = [i \in Instance |-> "idle"]
  /\ occ = [i \in Instance |-> NoTime]
  /\ key = [i \in Instance |-> NoTime]
  /\ since = [i \in Instance |-> 0]
  /\ fired = {}
  /\ crashes = 0
  /\ faults = 0
  /\ toggles = 0

-----------------------------------------------------------------------------

Goto(i, p) == pc' = [pc EXCEPT ![i] = p]

\* A statement works, or returns an error.
Works == UNCHANGED faults
Fails == faults < scene.faults /\ faults' = faults + 1

\* The fired job returns.
Return(i) ==
  /\ Goto(i, "idle")
  /\ occ' = [occ EXCEPT ![i] = NoTime]
  /\ key' = [key EXCEPT ![i] = NoTime]
  /\ since' = [since EXCEPT ![i] = 0]

\* The process starts: enabled cron tasks are registered.  (Registration of
\* tasks that change while it runs is the subject of module TaskSchedule.)
Start(i) ==
  /\ ~up[i] /\ enabled
  /\ up' = [up EXCEPT ![i] = TRUE]
  /\ \E m \in Planned : IsNext(m, Local(i)) /\ next' = [next EXCEPT ![i] = m]
  /\ UNCHANGED <<clock, dbVars, runVars, histVars, faults>>

\* cron's run loop: an entry that is due is started, once however late it
\* is, and waits for the first planned time after the replica's clock.
Fire(i) ==
  /\ up[i] /\ Local(i) >= next[i]
  /\ pc[i] = "idle"
  /\ Goto(i, "fired")
  /\ occ' = [occ EXCEPT ![i] = next[i]]
  /\ \E m \in Planned : IsNext(m, Local(i)) /\ next' = [next EXCEPT ![i] = m]
  /\ fired' = fired \cup {next[i]}
  /\ UNCHANGED <<scene, clock, dbVars, up, key, since, crashes, toggles, faults>>

\* SkipIfStillRunning: while the last run goes on the occurrence is dropped.
FireSkipped(i) ==
  /\ up[i] /\ Local(i) >= next[i]
  /\ pc[i] # "idle"
  /\ \E m \in Planned : IsNext(m, Local(i)) /\ next' = [next EXCEPT ![i] = m]
  /\ fired' = fired \cup {next[i]}
  /\ UNCHANGED <<scene, clock, dbVars, up, runVars, since, crashes, toggles, faults>>

\* The dedupe key is the current minute of the database, or of the replica
\* when SELECT NOW() fails.
ReadKey(i) ==
  /\ up[i] /\ pc[i] = "fired"
  /\ \/ Works /\ key' = [key EXCEPT ![i] = Minute(clock)]
     \/ Fails /\ key' = [key EXCEPT ![i] = Minute(Local(i))]
  /\ Goto(i, "keyed")
  /\ UNCHANGED <<clock, dbVars, up, next, occ, histVars>>

\* Mutated: the lease of a dead replica never expires.
LeaseFree_NoExpiry == locked_by = NoInstance

\* Mutated: the interval is missing from the comparison.
LeaseFree_NoInterval == locked_by = NoInstance \/ locked_at < clock

\* The WHERE of AcquireLease: no lease, or one that has expired.
LeaseFree == locked_by = NoInstance \/ clock - locked_at > LeaseLen

Acquire(i) ==
  /\ up[i] /\ pc[i] = "keyed"
  /\ enabled /\ LeaseFree /\ Works
  /\ locked_by' = i
  /\ locked_at' = clock
  /\ since' = [since EXCEPT ![i] = clock]
  /\ Goto(i, "locked")
  /\ UNCHANGED <<scene, clock, enabled, jobs, up, next, occ, key, fired, crashes, toggles>>

\* No row matches, or the statement fails: the occurrence is skipped.
AcquireMiss(i) ==
  /\ up[i] /\ pc[i] = "keyed"
  /\ \/ ~(enabled /\ LeaseFree) /\ Works
     \/ Fails
  /\ Return(i)
  /\ UNCHANGED <<scene, clock, dbVars, up, next, fired, crashes, toggles>>

\* exec calls Enqueue, which looks the task up again ...
EnqueueCheck(i) ==
  /\ up[i] /\ pc[i] = "locked"
  /\ \/ enabled /\ Works /\ Goto(i, "checked")
     \/ ((~enabled /\ Works) \/ Fails) /\ Goto(i, "release")
  /\ UNCHANGED <<clock, dbVars, up, next, occ, key, histVars>>

\* Mutated: every insert makes a row of its own.
Taken_Never(k) == k # k

\* ... and inserts the job, unless its dedupe key exists.
Taken(k) == \E r \in jobs : r.key = k

Insert(i) ==
  /\ up[i] /\ pc[i] = "checked"
  /\ \/ ~Taken(key[i]) /\ Works /\ jobs' = jobs \cup {[key |-> key[i], occ |-> occ[i], by |-> i]}
     \/ ((Taken(key[i]) /\ Works) \/ Fails) /\ UNCHANGED jobs
  /\ Goto(i, "release")
  /\ UNCHANGED <<clock, enabled, locked_by, locked_at, up, next, occ, key, histVars>>

\* The deferred Release frees the lease if this replica still holds it.
Release(i) ==
  /\ up[i] /\ pc[i] = "release"
  /\ \/ locked_by = i /\ Works /\ locked_by' = NoInstance /\ locked_at' = 0
     \/ ((locked_by # i /\ Works) \/ Fails) /\ UNCHANGED <<locked_by, locked_at>>
  /\ Return(i)
  /\ UNCHANGED <<scene, clock, enabled, jobs, up, next, fired, crashes, toggles>>

\* A crash leaves the lease columns as they are.
Crash(i) ==
  /\ up[i] /\ crashes < scene.crashes
  /\ up' = [up EXCEPT ![i] = FALSE]
  /\ next' = [next EXCEPT ![i] = NoTime]
  /\ Return(i)
  /\ crashes' = crashes + 1
  /\ UNCHANGED <<scene, clock, dbVars, fired, toggles, faults>>

\* Somebody enables, disables or deletes the task.
Toggle ==
  /\ toggles < scene.toggles
  /\ enabled' = ~enabled
  /\ toggles' = toggles + 1
  /\ UNCHANGED <<scene, clock, locked_by, locked_at, jobs, up, next, runVars, since, fired, crashes, faults>>

\* A replica may let its own minute end: no job of it is due or running.
MinuteDone(i) ==
  Minute(Local(i) + 1) # Minute(Local(i)) => pc[i] = "idle" /\ next[i] > Local(i)

Tick ==
  /\ clock < scene.end
  /\ scene.prompt => \A i \in Instance : up[i] => MinuteDone(i)
  /\ clock' = clock + 1
  /\ UNCHANGED <<dbVars, up, next, runVars, histVars, faults>>

InstanceNext(i) ==
  \/ Start(i)
  \/ Fire(i)
  \/ FireSkipped(i)
  \/ ReadKey(i)
  \/ Acquire(i)
  \/ AcquireMiss(i)
  \/ EnqueueCheck(i)
  \/ Insert(i)
  \/ Release(i)
  \/ Crash(i)

Next == (\E i \in Instance : InstanceNext(i)) \/ Toggle \/ Tick

Spec == Init /\ [][Next]_vars

-----------------------------------------------------------------------------
(* Properties.                                                             *)

Running == {"fired", "keyed", "locked", "checked", "release"}
InSection(i) == pc[i] \in {"locked", "checked", "release"}

\* The type of every variable.
TypeOK ==
  /\ scene \in Scenes
  /\ clock \in 0 .. Horizon
  /\ enabled \in BOOLEAN
  /\ locked_by \in Instance \cup {NoInstance}
  /\ locked_at \in 0 .. Horizon
  /\ jobs \subseteq [key : Nat, occ : Planned, by : Instance]
  /\ up \in [Instance -> BOOLEAN]
  /\ next \in [Instance -> Planned \cup {NoTime}]
  /\ pc \in [Instance -> Running \cup {"idle"}]
  /\ occ \in [Instance -> Planned \cup {NoTime}]
  /\ key \in [Instance -> Nat \cup {NoTime}]
  /\ since \in [Instance -> 0 .. Horizon]
  /\ fired \subseteq Planned
  /\ crashes \in 0 .. scene.crashes
  /\ faults \in 0 .. scene.faults
  /\ toggles \in 0 .. scene.toggles
  /\ \A i \in Instance :
       /\ up[i] <=> next[i] # NoTime
       /\ pc[i] # "idle" => up[i] /\ occ[i] # NoTime
       /\ pc[i] \notin {"idle", "fired"} => key[i] # NoTime

\* A lease protects its holder for its whole length, however slow the other
\* replicas are: none takes it over earlier and none releases it by mistake.
LeaseHeld ==
  \A i \in Instance : InSection(i) /\ clock - since[i] <= LeaseLen => locked_by = i

\* "Cron tasks are not executed twice": one occurrence of the schedule gives
\* at most one job, however many replicas fire it, if they are prompt.
OneJobPerOccurrence == scene.prompt => \A a, b \in jobs : a.occ = b.occ => a = b

\* The occurrences that every replica is through with and that gave no job.
Missed == {m \in fired : \A r \in jobs : r.occ # m}
Quiet == \A i \in Instance : pc[i] = "idle" /\ (up[i] => next[i] > Local(i))

\* Failover: a crash or a failed statement costs at most the occurrence it
\* interrupts and the one that meets the lease left behind; apart from those
\* every occurrence some replica fired gives a job, if they are prompt and the
\* task stays enabled.
LossBounded == scene.prompt /\ toggles = 0 /\ Quiet => Cardinality(Missed) <= 2 * (crashes + faults)

=============================================================================

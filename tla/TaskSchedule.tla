----------------------------- MODULE TaskSchedule -----------------------------
(***************************************************************************)
(* What is scheduled for a task: its row in the table tasks, the entries   *)
(* the replicas' cron libraries hold for it, and the column next_run_at    *)
(* that the task list shows.  Requests (service/task_service.go) change    *)
(* all three, one statement or scheduler call after the other, with no     *)
(* transaction and no lock around them; a starting replica                 *)
(* (cmd/server/main.go) and every enqueued run (service/queue.go) write    *)
(* them as well.                                                           *)
(*                                                                         *)
(* A request first reads the task; what it has read and was asked for      *)
(* determines the steps it still has to do.  The steps of two requests     *)
(* interleave.  next_run_at is represented by the expression it was        *)
(* computed from.                                                          *)
(***************************************************************************)
EXTENDS Naturals, Sequences, FiniteSets

CONSTANTS
  Replica,     \* the replicas
  Slot,        \* bound: the requests that may be in flight at once
  Expr,        \* cron expressions that parse
  Spent,       \* those of them without a future planned time
  Nil,         \* next_run_at IS NULL
  MaxRequests, \* bound on requests
  MaxFailures  \* bound on crashes and failing statements

ASSUME ScheduleAssumption ==
  /\ Expr # {} /\ Spent \subseteq Expr
  /\ Nil \notin Expr
  /\ MaxRequests \in Nat
  /\ MaxFailures \in Nat

VARIABLES
  stored,    \* the row: "absent", "live" or "deleted"
  task,      \* its trigger_type, enabled and cron_expr
  next,      \* next_run_at
  up,        \* the replicas whose process runs
  entries,   \* each replica's cron.Entries()
  taskEntry, \* each replica's taskEntries: the entry id it knows, or NoEntry
  handed,    \* the ids cron.AddFunc has handed out
  req,       \* each request: the steps it still has to do, its replica, what
             \* it was asked for or has read, and the entry id it holds
  runs,      \* Enqueue calls between their insert and updateSchedule
  informed,  \* history: the replicas that saw the last change of the task
  events,    \* history: what has happened that a property makes allowance for
  crowded,   \* history: the processes that worked on two requests at once
  requests, failures

rowVars   == <<stored, task, next>>
schedVars == <<entries, taskEntry, handed>>
histVars  == <<informed, events, crowded, requests, failures>>
vars == <<rowVars, up, schedVars, req, runs, histVars>>

NoEntry == 0
Idle    == [op |-> Nil, todo |-> <<>>, at |-> Nil, want |-> Nil, eid |-> NoEntry]
Config  == [kind : {"cron", "api"}, enabled : BOOLEAN, expr : Expr]
Fires(c) == c.kind = "cron" /\ c.enabled
Busy(s)  == req[s].todo # <<>>
Booting(i) == \E s \in Slot : req[s].op = "boot" /\ req[s].at = i
Event == {"overlap", "batch", "torn", "undone"}

\* NextRun: the next planned time of an expression, if there is one.
NextRun(e) == IF e \in Spent THEN Nil ELSE e

\* The row a replica registers nothing for, before the task is created.
NoTask == [kind |-> "api", enabled |-> FALSE, expr |-> CHOOSE e \in Expr : TRUE]

\* Any number of replicas have started, after the task was stored if it is.
Init ==
  /\ stored \in {"absent", "live"}
  /\ task \in IF stored = "live" THEN Config ELSE {NoTask}
  /\ next = IF Fires(task) THEN NextRun(task.expr) ELSE Nil
  /\ up \in SUBSET Replica
  /\ handed = [i \in Replica |-> IF i \in up /\ Fires(task) THEN 1 ELSE 0]
  /\ taskEntry = handed
  /\ entries = [i \in Replica |-> IF i \in up /\ Fires(task)
                                  THEN {[id |-> 1, expr |-> task.expr]} ELSE {}]
  /\ req = [s \in Slot |-> Idle]
  /\ runs = {}
  /\ informed = up
  /\ events = {}
  /\ crowded = {}
  /\ requests = 0
  /\ failures = 0

-----------------------------------------------------------------------------
(* Requests.                                                               *)

Unregister == <<"load", "remove", "forget">>
Register   == <<"add", "store">>

If(c, steps) == IF c THEN steps ELSE <<>>
Schedule(w)  == If(Fires(w), Register \o <<"refresh">>)

\* The steps of each request: w is what it was asked for, task what it read.
CreatePlan(w) == <<"insert">> \o Schedule(w)

\* Mutated: unregister, then write the row.
UpdatePlan_UnregisterFirst(w) ==
  If(~Fires(w), <<"clearNext">>)
    \o If("cron" \in {task.kind, w.kind}, Unregister) \o <<"update">> \o Schedule(w)

\* Mutated: next_run_at of a task that is switched to api stays.
UpdatePlan_KeepsNext(w) ==
  <<"update">> \o If("cron" \in {task.kind, w.kind}, Unregister) \o Schedule(w)

UpdatePlan(w) ==
  If(~Fires(w), <<"clearNext">>) \o <<"update">>
    \o If("cron" \in {task.kind, w.kind}, Unregister) \o Schedule(w)

\* Mutated: register without unregistering first.
TogglePlan_OnlyAdds(w) ==
  <<"setEnabled">>
    \o If(task.kind = "cron", IF w.enabled THEN Schedule(w) ELSE Unregister \o <<"clearNext">>)

TogglePlan(w) ==
  <<"setEnabled">>
    \o If(task.kind = "cron", Unregister \o Schedule(w) \o If(~w.enabled, <<"clearNext">>))

BatchTogglePlan(w) ==
  If(task.kind = "cron", Unregister \o If(w.enabled, Register)) \o <<"setEnabledBatch">>

DeletePlan == If(task.kind = "cron", Unregister) \o <<"delete">>

Plan(op, w) ==
  CASE op = "create" -> CreatePlan(w)
    [] op = "update" -> UpdatePlan(w)
    [] op = "toggle" -> TogglePlan(w)
    [] op = "batchToggle" -> BatchTogglePlan(w)
    [] op = "delete" -> DeletePlan

\* What a request may be asked for: a whole configuration (the expression of
\* an api task does not matter), or only the enabled flag.
Asked(op) ==
  CASE op \in {"create", "update"} -> {c \in Config : c.kind = "api" => c.expr = task.expr}
    [] op \in {"toggle", "batchToggle"} -> {[task EXCEPT !.enabled = b] : b \in BOOLEAN}
    [] op = "delete" -> {task}

Noted(c, e) == events' = IF c THEN events \cup {e} ELSE events

\* A replica takes a request and reads the task.  (A request that does not
\* find it changes nothing, but for Create, which finds none.)
Begin(s, i, op, w) ==
  /\ i \in up /\ ~Busy(s) /\ ~Booting(i)
  /\ requests < MaxRequests
  /\ requests' = requests + 1
  /\ stored = IF op = "create" THEN "absent" ELSE "live"
  /\ w \in Asked(op)
  /\ req' = [req EXCEPT ![s] = [op |-> op, todo |-> Plan(op, w), at |-> i, want |-> w, eid |-> NoEntry]]
  /\ events' = events \cup {e \in {"overlap", "batch"} :
                  \/ e = "overlap" /\ (runs # {} \/ \E t \in Slot : Busy(t))
                  \/ e = "batch" /\ op = "batchToggle"}
  /\ crowded' = crowded \cup {j \in {i} : \E t \in Slot : Busy(t) /\ req[t].at = j}
  /\ UNCHANGED <<rowVars, up, schedVars, runs, informed, failures>>

\* A process starts: ListEnabledCron, then each task is registered, and its
\* next_run_at computed first if it is missing or has passed (as it may have).
Boot(s, i) ==
  /\ i \notin up /\ ~Busy(s)
  /\ up' = up \cup {i}
  /\ IF stored = "live" /\ Fires(task)
     THEN \E refresh \in IF next = Nil THEN {TRUE} ELSE BOOLEAN :
            req' = [req EXCEPT ![s] = [op |-> "boot", todo |-> If(refresh, <<"refresh">>) \o Register,
                                       at |-> i, want |-> task, eid |-> NoEntry]]
     ELSE UNCHANGED req
  /\ informed' = informed \cup {i}
  /\ Noted(runs # {} \/ \E t \in Slot : Busy(t), "overlap")
  /\ UNCHANGED <<rowVars, schedVars, runs, crowded, requests, failures>>

IsAt(s, name) == Busy(s) /\ Head(req[s].todo) = name

\* The request goes on with the steps todo, holding the entry id n; after its
\* last step the slot is free.
GoesOn(s, todo, n) ==
  req' = [req EXCEPT ![s] = IF todo = <<>> THEN Idle ELSE [req[s] EXCEPT !.todo = todo, !.eid = n]]

StepTo(s, name, n) == IsAt(s, name) /\ GoesOn(s, Tail(req[s].todo), n)
Step(s, name) == StepTo(s, name, NoEntry)

\* A statement returns an error.
Fails == failures < MaxFailures /\ failures' = failures + 1

\* A request that has something to do with cron brings its own replica's
\* entries in line with the row, and leaves all others behind.
Informs(s) == informed' = IF "cron" \in {task.kind, req[s].want.kind} THEN {req[s].at} ELSE informed

-----------------------------------------------------------------------------
(* The statements.                                                         *)

Insert(s) ==
  /\ Step(s, "insert")
  /\ stored' = "live"
  /\ task' = req[s].want
  /\ Informs(s)
  /\ UNCHANGED <<next, up, schedVars, runs, events, crowded, requests, failures>>

\* UPDATE ... WHERE id, whether the row is deleted or not.
Update(s) ==
  /\ Step(s, "update")
  /\ task' = req[s].want
  /\ Informs(s)
  /\ UNCHANGED <<stored, next, up, schedVars, runs, events, crowded, requests, failures>>

SetEnabled(s) ==
  /\ Step(s, "setEnabled")
  /\ task' = [task EXCEPT !.enabled = req[s].want.enabled]
  /\ Informs(s)
  /\ UNCHANGED <<stored, next, up, schedVars, runs, events, crowded, requests, failures>>

SetEnabledBatch(s) ==
  /\ Step(s, "setEnabledBatch")
  /\ task' = IF stored = "live" THEN [task EXCEPT !.enabled = req[s].want.enabled] ELSE task
  /\ Informs(s)
  /\ UNCHANGED <<stored, next, up, schedVars, runs, events, crowded, requests, failures>>

Delete(s) ==
  /\ Step(s, "delete")
  /\ stored' = "deleted"
  /\ Informs(s)
  /\ UNCHANGED <<task, next, up, schedVars, runs, events, crowded, requests, failures>>

\* SetNextRun(nil) and RefreshNextRun: their errors are ignored.
SetNextRun(s, name, value) ==
  /\ Step(s, name)
  /\ \/ next' = value /\ UNCHANGED <<events, failures>>
     \/ Fails /\ Noted(TRUE, "torn") /\ UNCHANGED next
  /\ UNCHANGED <<stored, task, up, schedVars, runs, informed, crowded, requests>>

ClearNext(s)      == SetNextRun(s, "clearNext", Nil)
RefreshNextRun(s) == SetNextRun(s, "refresh", NextRun(req[s].want.expr))

\* Any other write that fails ends the request with an error: Delete and
\* BatchToggle have changed the scheduler by then, Update may have cleared
\* next_run_at.
Abort(s) ==
  LET name == Head(req[s].todo) IN
  /\ Busy(s) /\ name \in {"insert", "update", "setEnabled", "setEnabledBatch", "delete"}
  /\ Fails
  /\ req' = [req EXCEPT ![s] = Idle]
  /\ events' = events \cup (IF name \in {"setEnabledBatch", "delete"} THEN {"undone"}
                            ELSE IF name = "update" THEN {"torn"} ELSE {})
  /\ UNCHANGED <<rowVars, up, schedVars, runs, informed, crowded, requests>>

-----------------------------------------------------------------------------
(* The scheduler calls: each access to the sync.Map and to cron is atomic, *)
(* the sequence of them is not.                                            *)

Load(s) ==
  LET n == taskEntry[req[s].at]
      T == req[s].todo IN
  /\ IsAt(s, "load")
  /\ GoesOn(s, IF n # NoEntry THEN Tail(T) ELSE SubSeq(T, 4, Len(T)), n)
  /\ UNCHANGED <<rowVars, up, schedVars, runs, histVars>>

Remove(s) ==
  /\ Step(s, "remove")
  /\ entries' = [entries EXCEPT ![req[s].at] = {e \in @ : e.id # req[s].eid}]
  /\ UNCHANGED <<rowVars, up, taskEntry, handed, runs, histVars>>

Forget(s) ==
  /\ Step(s, "forget")
  /\ taskEntry' = [taskEntry EXCEPT ![req[s].at] = NoEntry]
  /\ UNCHANGED <<rowVars, up, entries, handed, runs, histVars>>

Add(s) ==
  LET i == req[s].at
      n == handed[i] + 1 IN
  /\ IsAt(s, "add")
  /\ StepTo(s, "add", n)
  /\ handed' = [handed EXCEPT ![i] = n]
  /\ entries' = [entries EXCEPT ![i] = @ \cup {[id |-> n, expr |-> req[s].want.expr]}]
  /\ UNCHANGED <<rowVars, up, taskEntry, runs, histVars>>

Store(s) ==
  /\ Step(s, "store")
  /\ taskEntry' = [taskEntry EXCEPT ![req[s].at] = req[s].eid]
  /\ UNCHANGED <<rowVars, up, entries, handed, runs, histVars>>

-----------------------------------------------------------------------------
(* Runs, time and crashes.                                                 *)

\* Enqueue, for a cron entry that fired or a manual run: the task is found
\* enabled and the job inserted (bound: one such call at a time) ...
Enqueue ==
  /\ up # {} /\ runs = {}
  /\ stored = "live" /\ Fires(task)
  /\ runs' = {task.expr}
  /\ Noted(\E s \in Slot : Busy(s), "overlap")
  /\ UNCHANGED <<rowVars, up, schedVars, req, informed, crowded, requests, failures>>

\* ... then the schedule columns are written from what was read.
UpdateSchedule(e) ==
  /\ e \in runs
  /\ runs' = runs \ {e}
  /\ \/ e \notin Spent /\ next' = e
     \/ e \in Spent /\ UNCHANGED next
  /\ UNCHANGED <<stored, task, up, schedVars, req, histVars>>

\* A process dies with its cron entries and the requests it works on.
Crash(i) ==
  LET lost == {s \in Slot : Busy(s) /\ req[s].at = i} IN
  /\ i \in up /\ failures < MaxFailures
  /\ up' = up \ {i}
  /\ failures' = failures + 1
  /\ entries' = [entries EXCEPT ![i] = {}]
  /\ taskEntry' = [taskEntry EXCEPT ![i] = NoEntry]
  /\ handed' = [handed EXCEPT ![i] = 0]
  /\ req' = [s \in Slot |-> IF s \in lost THEN Idle ELSE req[s]]
  /\ informed' = informed \ {i}
  /\ Noted(lost # {}, "torn")
  /\ crowded' = crowded \ {i}
  /\ UNCHANGED <<rowVars, runs, requests>>

Statement(s) ==
  \/ Insert(s)
  \/ Update(s)
  \/ SetEnabled(s)
  \/ SetEnabledBatch(s)
  \/ Delete(s)
  \/ Abort(s)
  \/ ClearNext(s)
  \/ RefreshNextRun(s)

SchedulerCall(s) ==
  \/ Load(s)
  \/ Remove(s)
  \/ Forget(s)
  \/ Add(s)
  \/ Store(s)

Next ==
  \/ \E s \in Slot, i \in Replica, op \in {"create", "update", "toggle", "batchToggle", "delete"} :
       \E w \in Asked(op) : Begin(s, i, op, w)
  \/ \E s \in Slot, i \in Replica : Boot(s, i)
  \/ \E s \in Slot : Statement(s) \/ SchedulerCall(s)
  \/ Enqueue
  \/ \E e \in runs : UpdateSchedule(e)
  \/ \E i \in Replica : Crash(i)

Spec == Init /\ [][Next]_vars

-----------------------------------------------------------------------------
(* Properties.                                                             *)

Steps == {"insert", "update", "setEnabled", "setEnabledBatch", "delete", "clearNext",
          "refresh", "load", "remove", "forget", "add", "store"}

\* The type of every variable; next_run_at is never computed from an
\* expression that has no future planned time.
TypeOK ==
  /\ stored \in {"absent", "live", "deleted"}
  /\ task \in Config
  /\ next \in (Expr \ Spent) \cup {Nil}
  /\ up \subseteq Replica
  /\ entries \in [Replica -> SUBSET [id : Nat \ {NoEntry}, expr : Expr]]
  /\ taskEntry \in [Replica -> Nat]
  /\ handed \in [Replica -> Nat]
  /\ \A s \in Slot :
       \/ req[s] = Idle
       \/ /\ req[s].todo \in Seq(Steps) /\ req[s].at \in up
          /\ req[s].want \in Config /\ req[s].eid \in Nat
  /\ runs \subseteq Expr
  /\ informed \subseteq up
  /\ events \subseteq Event
  /\ crowded \subseteq up
  /\ requests \in 0 .. MaxRequests
  /\ failures \in 0 .. MaxFailures

Quiet == runs = {} /\ \A s \in Slot : ~Busy(s)
Scheduled == stored = "live" /\ Fires(task)

\* "Better too many messages at the old frequency than silently none": when
\* requests do not overlap, a replica that took part in the task's last
\* change fires exactly what the row says, by one entry it can remove again -
\* even if statements failed, except those of Delete and BatchToggle, which
\* change the scheduler first.
RegistrationMatches ==
  Quiet /\ events \cap {"overlap", "undone"} = {} =>
    \A i \in informed :
      entries[i] = IF Scheduled THEN {[id |-> taskEntry[i], expr |-> task.expr]} ELSE {}

\* A replica that never worked on two requests for the task at once holds at
\* most one entry for it, whatever other replicas, failures and runs do: no
\* entry is registered a second time and lost, to fire until the restart.
NoLeak ==
  \A i \in up \ crowded :
    (\A s \in Slot : req[s].at # i) =>
       entries[i] \subseteq {e \in entries[i] : e.id = taskEntry[i]}

\* "next_run_at makes sense for enabled cron tasks only": requests that do
\* not overlap and are not cut short leave it computed from the row's
\* expression, or empty; BatchToggle, which does not write it, excepted.
NextRunMatches ==
  Quiet /\ stored = "live" /\ events \cap {"overlap", "torn", "batch"} = {} =>
    next = IF Fires(task) THEN NextRun(task.expr) ELSE Nil

=============================================================================

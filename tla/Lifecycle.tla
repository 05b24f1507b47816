----------------------------- MODULE Lifecycle -----------------------------
(***************************************************************************)
(* A replica from its start (module Startup) to its end: the heartbeat row   *)
(* that shows it to the others, the HTTP server, and the shutdown, in which  *)
(* three goroutines take part: that of srv.Shutdown, the heartbeat, and      *)
(* main, which runs its deferred calls as soon as ListenAndServe returns.    *)
(* A unit of time is a heartbeatInterval.                                    *)
(***************************************************************************)
EXTENDS Startup

CONSTANT Window     \* heartbeatStalePurgeWindow, in intervals

ASSUME LifecycleAssumption ==
  /\ Window \in Nat /\ Window > 2
  /\ \A c \in Scenes, s \in Slot : c.lag[s] \in 0 .. Window - 2

VARIABLES
  rows,        \* instance_heartbeats: the row of each instance, or None
  beat,        \* the heartbeat goroutine of each slot
  since,       \* whether an interval has passed since its last tick
  cancelled,   \* slots whose hbCancel has been called
  inflight,    \* slots that serve a request
  unclean,     \* history: instances that were killed, or whose row could not
               \* be removed
  faint,       \* history: instances that could not write their row
  late,        \* history: slots whose shutdown has taken time
  cutOff       \* history: instances that ended during a request, though
               \* they had been asked politely

beatVars == <<rows, beat, since, cancelled, unclean, faint>>
httpVars == <<inflight, late, cutOff>>
vars == <<startVars, beatVars, httpVars>>

Instance == 1 .. MaxStarts
Beating(s) == beat[s] # "none"
Alive(i) == \E s \in Slot : pc[s] # "off" /\ inst[s] = i
Shown(i) == rows[i] # None

Main(s, from, to) == pc[s] = from /\ Goes(s, to)
startRest == <<scene, inst, starts, migrationVars, keyVars, doubtful>>

-----------------------------------------------------------------------------
(* Rows of the table.                                                       *)

\* By the clock of the replica, which the database's may be ahead of.
Upsert(s) == [rows EXCEPT ![inst[s]] = [addr |-> Addr(s), age |-> scene.lag[s]]]

Remove(s) == [rows EXCEPT ![inst[s]] = None]

PurgeSameAddr(s) ==
  [i \in Instance |-> IF Shown(i) /\ rows[i].addr = Addr(s) /\ i # inst[s] THEN None ELSE rows[i]]

Stale_Interval(s, i)  == rows[i].age >= 1
Stale_SameAddr(s, i) == rows[i].age >= Window /\ rows[i].addr = Addr(s)
Stale(s, i) == rows[i].age >= Window

PurgeStale(s) == [i \in Instance |-> IF Shown(i) /\ Stale(s, i) THEN None ELSE rows[i]]

-----------------------------------------------------------------------------
(* The heartbeat goroutine: Upsert and PurgeStale on each tick, Remove once  *)
(* it is cancelled.                                                         *)

\* PurgeStale reaches the database.
Purges(s) ==
  /\ beat[s] = "purge" /\ beat' = [beat EXCEPT ![s] = "sleep"] /\ rows' = PurgeStale(s)
  /\ UNCHANGED <<startVars, cancelled, since, unclean, faint, httpVars>>

\* An error of any of the three is at most logged.
Beat(s) ==
  \/ Purges(s)
  \/ /\ \/ /\ beat[s] = "tick" /\ beat' = [beat EXCEPT ![s] = "purge"]
           /\ since' = [since EXCEPT ![s] = 0]
           /\ \/ rows' = Upsert(s) /\ UNCHANGED faint
              \/ scene.faults /\ faint' = faint \cup {inst[s]} /\ UNCHANGED rows
           /\ UNCHANGED unclean
        \/ /\ beat[s] = "purge" /\ scene.faults /\ beat' = [beat EXCEPT ![s] = "sleep"]
           /\ UNCHANGED <<rows, since, unclean, faint>>
        \/ /\ beat[s] = "sleep" /\ since[s] = 1 /\ beat' = [beat EXCEPT ![s] = "tick"]
           /\ UNCHANGED <<rows, since, unclean, faint>>
        \/ /\ beat[s] = "sleep" /\ s \in cancelled /\ beat' = [beat EXCEPT ![s] = "none"]
           /\ \/ rows' = Remove(s) /\ UNCHANGED unclean
              \/ scene.faults /\ unclean' = unclean \cup {inst[s]} /\ UNCHANGED rows
           /\ UNCHANGED <<since, faint>>
     /\ UNCHANGED <<startVars, cancelled, httpVars>>

\* hbWG.Wait
BeatEnded_NotAwaited(s) == TRUE
BeatEnded(s) == ~Beating(s)

\* Time passes while every goroutine keeps to its ticker.
Older(r) == IF r = None THEN None ELSE [r EXCEPT !.age = IF @ < Window THEN @ + 1 ELSE @]

Pass ==
  /\ scene.time /\ \A s \in Slot : Beating(s) => since[s] = 0
  /\ rows' = [i \in Instance |-> Older(rows[i])]
  /\ since' = [s \in Slot |-> IF Beating(s) THEN 1 ELSE 0]
  /\ late' = {s \in Slot : pc[s] \in {"drain", "defers"}}
  /\ UNCHANGED <<startVars, beat, cancelled, inflight, unclean, faint, cutOff>>

-----------------------------------------------------------------------------
(* main, once the workers run.                                              *)

\* queue.Start, sched.Start; then PurgeSameAddr and the heartbeat.
StartWork(s) ==
  /\ Main(s, "work", "bind")
  /\ rows' = PurgeSameAddr(s) \/ (scene.faults /\ UNCHANGED rows)
  /\ beat' = [beat EXCEPT ![s] = "tick"]
  /\ since' = [since EXCEPT ![s] = 0] /\ cancelled' = cancelled \ {s}
  /\ UNCHANGED <<startRest, unclean, faint, httpVars>>

PortTaken(s) == \E t \in Slot \ {s} : pc[t] = "serve" /\ Addr(t) = Addr(s)

\* ListenAndServe listens, or fails; then the heartbeat has to end before main.
Listen(s) ==
  /\ Main(s, "bind", IF PortTaken(s) THEN "failed" ELSE "serve")
  /\ cancelled' = IF PortTaken(s) THEN cancelled \cup {s} ELSE cancelled
  /\ UNCHANGED <<startRest, rows, beat, since, unclean, faint, httpVars>>

\* The first SIGTERM: Shutdown closes the listener, ListenAndServe returns, and
\* main goes on to its deferred calls; nobody waits for Shutdown to return.
Signal(s) ==
  /\ Main(s, "serve", "drain") /\ cancelled' = cancelled \cup {s}
  /\ UNCHANGED <<startRest, rows, beat, since, unclean, faint, httpVars>>

\* sched.Stop, queue.StopWithTimeout, db.Close.
Defers(s) ==
  /\ Main(s, "drain", "defers") /\ BeatEnded(s)
  /\ UNCHANGED <<startRest, beatVars, httpVars>>

\* The process is no more; nor are its goroutines.
Exits(s) ==
  /\ Gone(s) /\ beat' = [beat EXCEPT ![s] = "none"] /\ cancelled' = cancelled \ {s}
  /\ since' = [since EXCEPT ![s] = 0]
  /\ inflight' = inflight \ {s} /\ late' = late \ {s}
  /\ UNCHANGED <<scene, inst, starts, file, stmt, applied, recorded, twice, keyVars, faint>>

\* main returns.
Return(s) ==
  /\ pc[s] = "defers" /\ Exits(s)
  /\ cutOff' = IF s \in inflight \ late THEN cutOff \cup {inst[s]} ELSE cutOff
  /\ UNCHANGED <<rows, unclean>>

\* The port is taken: main removes the row again and ends.
FailsToListen(s) ==
  /\ pc[s] = "failed" /\ BeatEnded(s) /\ Exits(s)
  /\ \/ rows' = Remove(s) /\ UNCHANGED unclean
     \/ scene.faults /\ unclean' = unclean \cup {inst[s]} /\ UNCHANGED rows
  /\ UNCHANGED cutOff

\* log.Fatal at any other place, kill -9, a second signal.
Killed(s) ==
  /\ pc[s] # "off" /\ Exits(s) /\ unclean' = unclean \cup {inst[s]}
  /\ UNCHANGED <<rows, cutOff>>

\* A request: it may store a channel, encrypted.
Request(s) ==
  /\ scene.requests /\ pc[s] = "serve" /\ s \notin inflight /\ inflight' = inflight \cup {s}
  /\ UNCHANGED <<startVars, beatVars, late, cutOff>>

Answer(s) ==
  /\ s \in inflight /\ inflight' = inflight \ {s}
  /\ sealed' \in {sealed, sealed \cup {key[s]}}
  /\ UNCHANGED <<scene, pc, inst, starts, migrationVars, key, auto, keyFile, given, doubtful,
                 beatVars, late, cutOff>>

-----------------------------------------------------------------------------

Init ==
  /\ scene \in Scenes
  /\ pc = [s \in Slot |-> "off"] /\ inst = [s \in Slot |-> 0] /\ starts = 0
  /\ key = [s \in Slot |-> None] /\ auto = [s \in Slot |-> FALSE]
  /\ file = [s \in Slot |-> 1] /\ stmt = [s \in Slot |-> 1] /\ lock = None
  /\ recorded = scene.recorded /\ applied = {}
  /\ halfway = {} /\ twice = {}
  /\ keyFile = [v \in {Volume(s) : s \in Slot} |-> None] /\ given = scene.given
  /\ sealed = {} /\ doubtful = {}
  /\ rows = [i \in Instance |-> None] /\ beat = [s \in Slot |-> "none"]
  /\ since = [s \in Slot |-> 0] /\ cancelled = {} /\ inflight = {}
  /\ unclean = {} /\ faint = {} /\ late = {} /\ cutOff = {}

Next ==
  \/ Pass
  \/ scene.keys /\ LoseKey /\ UNCHANGED <<beatVars, httpVars>>
  \/ \E s \in Slot :
       \/ StartStep(s) /\ UNCHANGED <<beatVars, httpVars>>
       \/ Beat(s) \/ StartWork(s) \/ Listen(s) \/ Signal(s) \/ Defers(s) \/ Return(s)
       \/ FailsToListen(s) \/ Killed(s) \/ Request(s) \/ Answer(s)

\* The ticker fires while the process lives, and time goes on; of the purges
\* that a process tries again and again, not every one fails.
Spec ==
  /\ Init /\ [][Next]_vars
  /\ WF_vars(Pass) /\ \A s \in Slot : WF_vars(Beat(s)) /\ SF_vars(Purges(s))

-----------------------------------------------------------------------------

\* Nobody works on a schema that is not complete: whoever has passed Migrate
\* finds every statement of every file applied, after whatever crashes.
SchemaComplete ==
  \A s \in Slot : pc[s] \notin Starting \cup {"off"} =>
    \A f \in 1 .. Files \ scene.recorded : Applied(f)

\* A migration is stopped by a statement that was applied before only if a
\* process had died inside that file: two that start together never run one
\* file both.
StuckByCrashOnly == twice \subseteq halfway

\* Every channel in the table can be read with the key of every replica that
\* serves, also after the operator has lost the key, and whatever happened to
\* key files; as long as neither of the two keys is doubtful.  A key is if it
\* was generated beside other processes or key files, taken from a file before
\* its writer had checked it, or left behind by a start that died before the
\* check or could not remove the file after it.
KeyReads ==
  \A s \in Slot : pc[s] \in {"work", "bind", "serve"} =>
    \A k \in sealed : k = key[s] \/ {k, key[s]} \cap doubtful # {}

\* A replica that has ended in good order is not shown any more, and cannot
\* come back by a tick that was under way.
GoneIsGone == \A i \in Instance : i <= starts /\ ~Alive(i) /\ i \notin unclean => ~Shown(i)

\* PurgeStale removes no replica whose heartbeat runs and reaches the database,
\* though the clocks differ.
PurgesTheDead ==
  [][\A s \in Slot : beat[s] = "purge" /\ beat'[s] = "sleep" =>
       \A t \in Slot : Beating(t) /\ inst[t] \notin faint /\ Shown(inst[t]) => rows'[inst[t]] # None]_vars

\* The row of a replica that was killed goes away, as long as another lives.
ZombiesGo ==
  scene.time => \A i \in Instance :
    []<>(~Shown(i) \/ Alive(i)) \/ []<>(\A s \in Slot : ~Beating(s))

\* main.go, comment of the shutdown: requests in flight are waited for (25 s).
NoRequestCutOff == cutOff = {}
=============================================================================

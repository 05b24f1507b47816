------------------------------ MODULE RateLimit ------------------------------
(***************************************************************************)
(* The table rate_limits (repository/rate_limit_repo.go) and the requests   *)
(* that use it: webhook triggers and password resets, which are counted in  *)
(* fixed windows (Allow), and logins, whose failures are counted until a    *)
(* success and lock the account for a while (LoginLocked,                  *)
(* RecordLoginFailure, Reset).  The table is shared by all replicas; each   *)
(* replica keeps a cache of the windows it knows to be exhausted.           *)
(*                                                                         *)
(* Each SQL statement is an action, so requests interleave between them.   *)
(* Time is counted in ticks of the database's clock.                       *)
(***************************************************************************)
EXTENDS Integers, FiniteSets

CONSTANTS
  Replica,     \* the processes of the service
  Proc,        \* requests that are served at one time
  Home,        \* the replica that serves each of them
  Skew,        \* how far each replica's clock is ahead of the database's
  MaxSkew,     \* bound of these
  Bucket,      \* "webhook:<key>" and "forgot-pw:<ip>"
  WindowLen, Limit,    \* window and limit of Allow
  CacheMax,    \* 4096: from this size on, setDenied drops what has expired
  Login,       \* "login:<user>|<ip>"
  MaxFails, LockLen,   \* maxFails and lockWindow of AuthService
  Keep,        \* rows that have not changed for so long are deleted
  Patience,    \* the time-out of a statement
  Horizon, MaxErrors,  \* bounds
  Load         \* bound: how many counted requests and logins may come, as
               \* <<asks, logins>>, one pair for each mixture

ASSUME RateAssumption ==
  /\ MaxSkew \in Nat /\ Skew \in [Replica -> 0 .. MaxSkew]
  /\ Home \in [Proc -> Replica]
  /\ WindowLen \in Nat \ {0} /\ Limit \in Nat /\ CacheMax \in Nat
  /\ MaxFails \in Nat \ {0} /\ LockLen \in Nat /\ LockLen > MaxSkew
  /\ Patience \in Nat
  /\ Keep \in Nat /\ Keep > WindowLen + Patience + MaxSkew
  /\ {Horizon, MaxErrors} \subseteq Nat /\ Load \subseteq Nat \X Nat

VARIABLES
  now,         \* NOW() of the database
  count,       \* count of the row (bucket, window_start); 0: there is no row
  touched,     \* its updated_at
  denied,      \* the cache of each replica: exhausted windows
  fails,       \* count of the row (login, 0); 0 also when there is no row
  until,       \* its locked_until; 0: NULL
  failed_at,   \* its updated_at
  call,        \* what each process is doing
  passed, opened, refused,   \* history of each window: requests allowed by
               \* their count, let through by a database error, refused
  tried,       \* history: wrong credentials tested since the row was cleared
  since,       \* history: failures counted since a lock last ran out
  asks, logins,   \* how many requests may still come
  errors       \* how many statements have failed

windowVars == <<count, touched, denied, passed, opened, refused>>
loginVars  == <<fails, until, failed_at, tried, since>>
vars == <<now, windowVars, loginVars, call, asks, logins, errors>>

Local(p) == now + Skew[Home[p]]
WindowStart(t) == t - (t % WindowLen)
Window  == {WindowStart(t) : t \in 0 .. Horizon + MaxSkew}
Counter == Bucket \X Window

Idle == [at |-> "idle"]
Goto(p, c) == call' = [call EXCEPT ![p] = c]
At(p, place) == call[p].at = place

\* The statement of a process works, or it returns an error.
Works == UNCHANGED errors
Fails == errors < MaxErrors /\ errors' = errors + 1

Init ==
  /\ now = 0
  /\ count = [k \in Counter |-> 0]
  /\ touched = [k \in Counter |-> 0]
  /\ denied = [r \in Replica |-> {}]
  /\ fails = [l \in Login |-> 0]
  /\ until = [l \in Login |-> 0]
  /\ failed_at = [l \in Login |-> 0]
  /\ call = [p \in Proc |-> Idle]
  /\ passed = [k \in Counter |-> 0]
  /\ opened = [k \in Counter |-> 0]
  /\ refused = [k \in Counter |-> FALSE]
  /\ tried = [l \in Login |-> 0]
  /\ since = [l \in Login |-> 0]
  /\ \E load \in Load : asks = load[1] /\ logins = load[2]
  /\ errors = 0

-----------------------------------------------------------------------------
(* Requests counted in windows *)

\* Mutant: the cache forgets which window was exhausted.
DeniedWithin_AnyWindow(p, k) == \E d \in denied[Home[p]] : d[1] = k[1]

DeniedWithin(p, k) == k \in denied[Home[p]] /\ k[2] + WindowLen > Local(p)

\* A request arrives.  A window known to be exhausted is refused at once.
Ask(p, b) ==
  LET k == <<b, WindowStart(Local(p))>> IN
  /\ At(p, "idle") /\ asks > 0 /\ k[2] \in Window
  /\ asks' = asks - 1
  /\ IF DeniedWithin(p, k)
     THEN refused' = [refused EXCEPT ![k] = TRUE] /\ UNCHANGED call
     ELSE Goto(p, [at |-> "counting", key |-> k, age |-> 0]) /\ UNCHANGED refused
  /\ UNCHANGED <<now, count, touched, denied, passed, opened, loginVars, logins, errors>>

\* The upsert: one statement adds one and returns the new count.
Upsert(k) ==
  /\ count' = [count EXCEPT ![k] = @ + 1]
  /\ touched' = [touched EXCEPT ![k] = now]

Allowed(n) == n <= Limit

Count(p) ==
  LET k == call[p].key IN
  /\ At(p, "counting")
  /\ Upsert(k)
  /\ IF Allowed(count[k] + 1)
     THEN /\ passed' = [passed EXCEPT ![k] = @ + 1]
          /\ Goto(p, Idle) /\ UNCHANGED refused
     ELSE /\ refused' = [refused EXCEPT ![k] = TRUE]
          /\ Goto(p, [at |-> "noting", key |-> k]) /\ UNCHANGED passed
  /\ UNCHANGED <<now, denied, opened, loginVars, asks, logins, errors>>

\* The upsert fails, or has worked and its answer is lost.  The handlers of
\* both endpoints let the request through.
CountFails(p) ==
  LET k == call[p].key IN
  /\ At(p, "counting") /\ Fails
  /\ Upsert(k) \/ UNCHANGED <<count, touched>>
  /\ opened' = [opened EXCEPT ![k] = @ + 1]
  /\ Goto(p, Idle)
  /\ UNCHANGED <<now, denied, passed, refused, loginVars, asks, logins>>

\* The refusal is remembered; a large cache first drops what has expired.
SetDenied(p) ==
  LET r == Home[p]
      live == {k \in denied[r] : k[2] + WindowLen > Local(p)}
  IN
  /\ At(p, "noting")
  /\ denied' = [denied EXCEPT ![r] =
       (IF Cardinality(@) >= CacheMax THEN live ELSE @) \cup {call[p].key}]
  /\ Goto(p, Idle)
  /\ UNCHANGED <<now, count, touched, passed, opened, refused, loginVars, asks, logins, errors>>

-----------------------------------------------------------------------------
(* Logins, and second factors, which share the login's row *)

\* LoginLocked reads the row; its error is ignored.  "fresh": the read was
\* answered and no lock has run out since.
ReadLock(p, l) ==
  LET go(place, fresh) == Goto(p, [at |-> place, login |-> l, fresh |-> fresh]) IN
  /\ At(p, "idle") /\ logins > 0
  /\ logins' = logins - 1
  /\ \/ Works /\ until[l] = 0 /\ go("testing", TRUE)
     \/ Works /\ until[l] # 0 /\ Local(p) < until[l] /\ UNCHANGED call
     \/ Works /\ until[l] # 0 /\ Local(p) >= until[l] /\ go("clearing", TRUE)
     \/ Fails /\ go("testing", FALSE)
  /\ UNCHANGED <<now, windowVars, loginVars, asks>>

\* The row is cleared, by whatever statement, and counting starts again.
Restart(l) ==
  /\ fails' = [fails EXCEPT ![l] = 0]
  /\ until' = [until EXCEPT ![l] = 0]
  /\ tried' = [tried EXCEPT ![l] = 0]

\* Mutant: the lock is lifted, the count stays.
ClearColumns_KeepsCount(l) ==
  /\ until' = [until EXCEPT ![l] = 0]
  /\ tried' = [tried EXCEPT ![l] = 0]
  /\ failed_at' = [failed_at EXCEPT ![l] = now]
  /\ UNCHANGED fails

ClearColumns(l) == Restart(l) /\ failed_at' = [failed_at EXCEPT ![l] = now]

\* LoginLocked found an expired lock and resets the row, unguarded.
Clear(p) ==
  LET c == call[p] IN
  /\ At(p, "clearing")
  /\ \/ Works /\ ClearColumns(c.login) /\ Goto(p, [c EXCEPT !.at = "testing"])
     \/ /\ Fails /\ UNCHANGED <<fails, until, failed_at, tried>>
        /\ Goto(p, [c EXCEPT !.at = "testing", !.fresh = FALSE])
  /\ UNCHANGED <<now, windowVars, since, asks, logins>>

\* The account is read and the credentials are compared: they are wrong (or
\* the user is unknown), right, or not compared (disabled, database error).
Test(p) ==
  LET c == call[p] IN
  /\ At(p, "testing")
  /\ \/ /\ tried' = [tried EXCEPT ![c.login] = @ + 1]
        /\ Goto(p, [c EXCEPT !.at = "failing"])
     \/ Goto(p, [c EXCEPT !.at = "resetting"]) /\ UNCHANGED tried
     \/ Goto(p, Idle) /\ UNCHANGED tried
  /\ UNCHANGED <<now, windowVars, fails, until, failed_at, since, asks, logins, errors>>

\* RecordLoginFailure, first statement.  Its errors are ignored.
CountFailure(p) ==
  LET c == call[p] IN
  /\ At(p, "failing")
  /\ \/ /\ Works
        /\ fails' = [fails EXCEPT ![c.login] = @ + 1]
        /\ since' = [since EXCEPT ![c.login] = @ + 1]
        /\ failed_at' = [failed_at EXCEPT ![c.login] = now]
        /\ Goto(p, [c EXCEPT !.at = "locking"])
     \/ Fails /\ Goto(p, Idle) /\ UNCHANGED <<fails, since, failed_at>>
  /\ UNCHANGED <<now, windowVars, until, tried, asks, logins>>

\* Mutant: off by one.
LockDue_Late(l) == fails[l] > MaxFails

LockDue(l) == fails[l] >= MaxFails

\* RecordLoginFailure, second statement.
SetLock(p) ==
  LET l == call[p].login IN
  /\ At(p, "locking")
  /\ Goto(p, Idle)
  /\ \/ /\ Works /\ LockDue(l)
        /\ until' = [until EXCEPT ![l] = now + LockLen]
        /\ failed_at' = [failed_at EXCEPT ![l] = now]
     \/ Works /\ ~LockDue(l) /\ UNCHANGED <<until, failed_at>>
     \/ Fails /\ UNCHANGED <<until, failed_at>>
  /\ UNCHANGED <<now, windowVars, fails, tried, since, asks, logins>>

\* The credentials were right: the row is deleted; an error is ignored.
Reset(p) ==
  /\ At(p, "resetting")
  /\ Goto(p, Idle)
  /\ \/ Works /\ Restart(call[p].login)
     \/ Fails /\ UNCHANGED <<fails, until, tried>>
  /\ UNCHANGED <<now, windowVars, failed_at, since, asks, logins>>

-----------------------------------------------------------------------------

\* Mutant: the cleaner takes every row.
Expired_AtOnce(stamp) == stamp < now

Expired(stamp) == stamp < now - Keep

\* The queue's cleaner: one DELETE over the whole table.
Cleanup ==
  LET old  == {k \in Counter : count[k] > 0 /\ Expired(touched[k])}
      gone == {l \in Login : Expired(failed_at[l])}
      Erase(f, S) == [x \in DOMAIN f |-> IF x \in S THEN 0 ELSE f[x]]
  IN
  /\ count' = Erase(count, old)
  /\ fails' = Erase(fails, gone)
  /\ until' = Erase(until, gone)
  /\ tried' = Erase(tried, gone)
  /\ UNCHANGED <<now, touched, denied, passed, opened, refused, failed_at, since,
                 call, asks, logins, errors>>

\* Time passes; no upsert takes longer than its time-out.  A lock has run out
\* for good when the most advanced clock says so.
Tick ==
  LET ranOut == {l \in Login : until[l] # 0 /\ until[l] = now + 1 + MaxSkew}
      Older(c) ==
        CASE c.at = "counting" -> [c EXCEPT !.age = @ + 1]
          [] c.at \in {"testing", "clearing", "failing", "locking", "resetting"} ->
               [c EXCEPT !.fresh = @ /\ c.login \notin ranOut]
          [] OTHER -> c
  IN
  /\ now < Horizon
  /\ \A p \in Proc : At(p, "counting") => call[p].age < Patience
  /\ now' = now + 1
  /\ call' = [p \in Proc |-> Older(call[p])]
  /\ since' = [l \in Login |-> IF l \in ranOut THEN 0 ELSE since[l]]
  /\ UNCHANGED <<windowVars, fails, until, failed_at, tried, asks, logins, errors>>

Next ==
  \/ \E p \in Proc, b \in Bucket : Ask(p, b)
  \/ \E p \in Proc, l \in Login : ReadLock(p, l)
  \/ \E p \in Proc : Count(p) \/ CountFails(p) \/ SetDenied(p)
  \/ \E p \in Proc : Clear(p) \/ Test(p) \/ CountFailure(p) \/ SetLock(p) \/ Reset(p)
  \/ Cleanup
  \/ Tick

Spec == Init /\ [][Next]_vars

-----------------------------------------------------------------------------

\* The call of a process: only a call with a row remembers one.
CallType ==
  [at : {"idle"}]
    \cup [at : {"counting"}, key : Counter, age : 0 .. Patience]
    \cup [at : {"noting"}, key : Counter]
    \cup [at : {"testing", "clearing", "failing", "locking", "resetting"},
          login : Login, fresh : BOOLEAN]

\* Types.
TypeOK ==
  /\ now \in 0 .. Horizon
  /\ count \in [Counter -> Nat] /\ touched \in [Counter -> Nat]
  /\ denied \in [Replica -> SUBSET Counter]
  /\ fails \in [Login -> Nat] /\ until \in [Login -> Nat] /\ failed_at \in [Login -> Nat]
  /\ call \in [Proc -> CallType]
  /\ passed \in [Counter -> Nat] /\ opened \in [Counter -> Nat]
  /\ refused \in [Counter -> BOOLEAN]
  /\ tried \in [Login -> Nat] /\ since \in [Login -> Nat]
  /\ {asks, logins, errors} \subseteq Nat

\* However many replicas count, and although the cleaner deletes rows, no more
\* than Limit requests of a window are allowed by their count (Allow).
LimitKept == \A k \in Counter : passed[k] <= Limit

\* A replica refuses a request of a window, by the count or from its cache,
\* only when the limit has been used up in that same window (requests that a
\* database error let through count as well): the cache denies nothing that
\* the shared table would allow.
NoEarlyRefusal == \A k \in Counter : refused[k] => passed[k] + opened[k] >= Limit

\* From one clearing of a login's row to the next, no more wrong credentials
\* are tested than MaxFails, and one more for each other request that was
\* being served when the lock came, and for each database error, although
\* check, count and lock are separate statements (Login, Verify2FA).
GuessBudget ==
  \A l \in Login : tried[l] <= MaxFails - 1 + Cardinality(Proc) + errors

\* A lock that has run out is forgotten: a login that begins afterwards, and
\* whose check is answered, can lock the account only after MaxFails failures
\* since then (the comment of LoginLocked).
FreshStart ==
  [][\A p \in Proc :
       At(p, "locking") /\ call[p].fresh /\ call'[p] = Idle
         /\ until'[call[p].login] # until[call[p].login]
       => since[call[p].login] >= MaxFails]_vars
=============================================================================

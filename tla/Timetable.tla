------------------------------ MODULE Timetable ------------------------------
(***************************************************************************)
(* What a cron task promises, without replicas, leases and keys: jobs are   *)
(* enqueued for planned times, none before its time.  As long as whatever   *)
(* enqueues them is prompt, they are enqueued in their own minute, in the   *)
(* order of the plan, and once each; some may be left out.  CronRefinement  *)
(* shows that replicas whose clocks agree implement this.                   *)
(***************************************************************************)
EXTENDS Naturals

CONSTANTS Planned,    \* the planned times
          MinuteLen   \* the length of a minute

VARIABLES now,      \* the time
          prompt,   \* jobs are enqueued promptly
          enqueued  \* of each planned time: how many jobs it has given

vars == <<now, prompt, enqueued>>

Init ==
  /\ now = 0
  /\ prompt \in BOOLEAN
  /\ enqueued = [m \in Planned |-> 0]

\* In its own minute, and after everything that was enqueued before.
OnTime(m) == now < m + MinuteLen /\ \A x \in Planned : enqueued[x] > 0 => x < m

Enqueue(m) ==
  /\ m <= now
  /\ prompt => OnTime(m)
  /\ enqueued' = [enqueued EXCEPT ![m] = @ + 1]
  /\ UNCHANGED <<now, prompt>>

Pass == now' = now + 1 /\ UNCHANGED <<prompt, enqueued>>

Next == Pass \/ \E m \in Planned : Enqueue(m)

Spec == Init /\ [][Next]_vars
=============================================================================

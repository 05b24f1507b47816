------------------------------- MODULE Limiter -------------------------------
(***************************************************************************)
(* What the rate limit promises, without rows, replicas or caches.  Each    *)
(* request is decided in one step, for one window: admitted, let through    *)
(* because the database failed, or refused.  A window admits Limit requests  *)
(* and no more, refuses none before as many have come through, and decides  *)
(* only about the requests of its own time.  RateRefinement shows that      *)
(* RateLimit implements this, although it decides by reading a cache, or    *)
(* by a counter that others change and delete.                              *)
(***************************************************************************)
EXTENDS Naturals

CONSTANTS Counter,     \* what is counted: pairs of a key and the begin of a window
          WindowLen,   \* the length of a window
          Limit,       \* how many requests of a window are admitted
          MaxSkew,     \* how far a clock is ahead, at most
          Patience     \* how long a decision takes, at most

VARIABLES now,      \* the time
          passed,   \* of each window: how many requests have been admitted
          opened,   \* of each window: how many were let through by an error
          refused   \* of each window: whether it has refused a request

vars == <<now, passed, opened, refused>>

Init ==
  /\ now = 0
  /\ passed = [k \in Counter |-> 0]
  /\ opened = [k \in Counter |-> 0]
  /\ refused = [k \in Counter |-> FALSE]

\* Requests of this window are decided now.
Open(k) == k[2] <= now + MaxSkew /\ now < k[2] + WindowLen + Patience

Used(k) == passed[k] + opened[k]

Admit(k) ==
  /\ Open(k) /\ passed[k] < Limit
  /\ passed' = [passed EXCEPT ![k] = @ + 1]
  /\ UNCHANGED <<now, opened, refused>>

\* The database cannot be asked.
LetThrough(k) ==
  /\ Open(k)
  /\ opened' = [opened EXCEPT ![k] = @ + 1]
  /\ UNCHANGED <<now, passed, refused>>

Refuse(k) ==
  /\ Open(k) /\ Used(k) >= Limit
  /\ refused' = [refused EXCEPT ![k] = TRUE]
  /\ UNCHANGED <<now, passed, opened>>

Pass == now' = now + 1 /\ UNCHANGED <<passed, opened, refused>>

Next ==
  \/ \E k \in Counter : Admit(k) \/ LetThrough(k) \/ Refuse(k)
  \/ Pass

Spec == Init /\ [][Next]_vars
=============================================================================

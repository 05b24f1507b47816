---------------------------- MODULE MCLifecycle ----------------------------
EXTENDS Lifecycle, TLC

CONSTANTS a, b, vol1, vol2

Base == [addr |-> (a :> 1 @@ b :> 2), volume |-> (a :> vol1 @@ b :> vol2), recorded |-> 1 .. Files,
         given |-> TRUE, lag |-> (a :> 0 @@ b :> 0), time |-> FALSE, requests |-> FALSE,
         faults |-> FALSE, disk |-> FALSE, keys |-> FALSE, slots |-> Slot, starts |-> 3]

OneHost == (a :> vol1 @@ b :> vol1)
SamePort == (a :> 1 @@ b :> 1)

Keys == [Base EXCEPT !.given = FALSE, !.requests = TRUE, !.keys = TRUE]

MCScenes == {
  [Base EXCEPT !.recorded = {}], [Base EXCEPT !.recorded = {1}],
  [Keys EXCEPT !.slots = {a}], [Keys EXCEPT !.slots = {a}, !.given = TRUE],
  [Keys EXCEPT !.slots = {a}, !.disk = TRUE], [Keys EXCEPT !.starts = 2, !.disk = TRUE],
  [Keys EXCEPT !.starts = 2], [Keys EXCEPT !.starts = 2, !.volume = OneHost],
  [Base EXCEPT !.time = TRUE, !.lag = (a :> 0 @@ b :> 1)],
  [Base EXCEPT !.time = TRUE, !.faults = TRUE, !.starts = 2],
  [Base EXCEPT !.time = TRUE, !.addr = SamePort] }

MCStmts == <<2, 1>>
=============================================================================

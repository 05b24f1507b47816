--------------------------- MODULE MCCronScheduler ---------------------------
(* Instances of CronScheduler for TLC: an every-minute task, two ticks to   *)
(* the minute; the last planned times lie beyond the horizon.               *)
EXTENDS CronRefinement

EveryMinute == {MinuteLen * n : n \in 0 .. (Horizon \div MinuteLen) + 2}
NoSkew == [i \in Instance |-> 0]

\* Prompt replicas with crashes and a fault; replicas of any speed, of which
\* one may crash, and a task that is switched off and on.
MCScenes ==
  {[prompt |-> TRUE, end |-> 10, crashes |-> 2, faults |-> 1, toggles |-> 0],
   [prompt |-> FALSE, end |-> 6, crashes |-> 1, faults |-> 0, toggles |-> 0],
   [prompt |-> FALSE, end |-> 6, crashes |-> 0, faults |-> 1, toggles |-> 2]}
=============================================================================

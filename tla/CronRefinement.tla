--------------------------- MODULE CronRefinement ---------------------------
(* The replicas of CronScheduler together keep one timetable.              *)
EXTENDS CronScheduler

\* The rows of send_jobs that an occurrence has given.
JobsOf(m) == {r \in jobs : r.occ = m}

Plan == INSTANCE Timetable
          WITH now <- clock, prompt <- scene.prompt,
               enqueued <- [m \in Planned |-> Cardinality(JobsOf(m))]

\* However many replicas fire the task, crash, and fail, it looks from
\* outside as if one clock enqueued it: no job before its time, and, if fired
\* jobs are prompt, each in its own minute, in order, and once (the lease, the
\* dedupe key and what the cron library starts late).
KeepsTimetable == Plan!Spec
=============================================================================

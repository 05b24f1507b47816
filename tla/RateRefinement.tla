--------------------------- MODULE RateRefinement ---------------------------
(* The counted requests of RateLimit are decided as the limiter promises:   *)
(* its history variables are the limiter's state.                           *)
EXTENDS RateLimit

Promise == INSTANCE Limiter

\* Every request is decided as if in one step: admitted while fewer than
\* Limit have been, refused only when the limit of its own window is used up,
\* and in that window's time.  Neither the replicas' caches, nor the cleaner,
\* nor the order of the replicas' statements can be seen from outside (Allow
\* and its two callers).
ImplementsLimiter == Promise!Spec
=============================================================================

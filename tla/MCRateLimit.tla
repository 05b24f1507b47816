----------------------------- MODULE MCRateLimit -----------------------------
\* Instances of RateLimit for TLC: replica "B" is a tick ahead.
EXTENDS RateRefinement

MCHome == [p \in Proc |-> IF p = "b1" THEN "B" ELSE "A"]
\* Many counted requests, many logins, or a few of both.
MCLoad == {<<5, 0>>, <<0, 5>>, <<2, 1>>}
MCSkew == [r \in Replica |-> IF r = "B" THEN 1 ELSE 0]
=============================================================================

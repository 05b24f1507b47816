----------------------------- MODULE MCSendQueue -----------------------------
(* Instances of SendQueue for TLC: replicas "A" and "B"; worker names start *)
(* with the name of their replica in lower case.                            *)
EXTENDS SendQueueRefinement, TLC

\* One worker for each replica, under its name.
SameHome == [w \in Worker |-> w]
Replicas == Permutations(Instance)

MCHome == [w \in Worker |-> IF w \in {"a1", "a2"} THEN "A" ELSE "B"]

\* Delays of one and two ticks; replica B's clock is one tick ahead.
MCBackoff == <<1, 2>>
NoBackoff == <<>>
ShortBackoff == <<1>>
MCSkew == [i \in Instance |-> IF i = "B" THEN 1 ELSE 0]
NoSkew == [i \in Instance |-> 0]
=============================================================================

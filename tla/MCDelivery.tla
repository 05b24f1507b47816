----------------------------- MODULE MCDelivery -----------------------------
\* Constants of Delivery for TLC: one mail channel and one robot.  A task with
\* a mail channel and no receivers comes from a robot whose type is edited.
EXTENDS Delivery, TLC

CONSTANTS mail, robot, a1, a2, x1, x2

Both    == [channels |-> <<mail, robot>>, receivers |-> <<a1>>]
Pair    == [channels |-> <<mail>>, receivers |-> <<a1, a2>>]
NoOne   == [channels |-> <<mail>>, receivers |-> <<>>]
Configs == {Both, Pair, NoOne}

Contents == Permutations({x1, x2})

=============================================================================

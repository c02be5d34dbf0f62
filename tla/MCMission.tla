----------------------------- MODULE MCMission -----------------------------
\* Small instances of the mission loop for TLC.
EXTENDS Mission

Plan2(k1, k2, d2) ==
    [kind |-> [s \in Steps |-> IF s = 1 THEN k1 ELSE k2],
     deps |-> [s \in Steps |-> IF s = 2 THEN d2 ELSE {}]]

\* Every plan of two one-shot steps whose prerequisites come first.
OneShotPlans ==
    {Plan2(k1, k2, d2) : k1, k2 \in {"read", "file", "command"},
                         d2 \in {{}, {1}}}

\* A plan of each shape that leaves something behind for the next turn.
LeftoverPlans == {Plan2("command", "file", {1}), Plan2("file", "cell", {})}

=============================================================================

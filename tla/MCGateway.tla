----------------------------- MODULE MCGateway -----------------------------
(* The planner of one session and the summarizer of another share the local *)
(* model; a third call enters the gateway directly.                         *)
EXTENDS Gateway

CONSTANTS p1, p2, d, s1, s2, small, other, cloud

MCClients ==
    {[c \in {p1, p2, d} |-> CASE c = p1 -> "planner" [] c = p2 -> "summarizer" [] OTHER -> r] :
        r \in {"stream", "thinking", "byom", "complete"}}
MCSessionOf == [c \in {p1, p2, d} |-> IF c = p2 THEN s2 ELSE s1]
MCOrder == [t \in {"medium", "big"} |->
              IF t = "medium" THEN <<small, other, cloud>> ELSE <<cloud, other>>]
=============================================================================

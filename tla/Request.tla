------------------------------ MODULE Request ------------------------------
(***************************************************************************)
(* What every round trip over the websocket promises its caller, whatever  *)
(* becomes of the connection: a request is asked once, the other side may  *)
(* answer it any number of times, and it settles once, with an answer that *)
(* was given to that very request or with none.  Link implements it.       *)
(***************************************************************************)
CONSTANTS
    Reqs,           \* requests (approval_id, patch_id, request_id)
    Values          \* what an answer may say

VARIABLES
    status,         \* "idle", "open" or "settled"
    given,          \* the answers given to each request
    outcome         \* what the caller was told

vars == <<status, given, outcome>>

NoAnswer == {"none", "refused", "error", "cancelled"}

Init ==
    /\ status = [r \in Reqs |-> "idle"]
    /\ given = [r \in Reqs |-> {}]
    /\ outcome = [r \in Reqs |-> "none"]

Ask(r) ==
    /\ status[r] = "idle"
    /\ status' = [status EXCEPT ![r] = "open"]
    /\ UNCHANGED <<given, outcome>>

Answer(r, v) ==
    /\ status[r] # "idle"
    /\ given' = [given EXCEPT ![r] = @ \cup {v}]
    /\ UNCHANGED <<status, outcome>>

\* A request that cannot even be sent settles without having been open.
Settle(r) ==
    /\ status[r] # "settled"
    /\ status' = [status EXCEPT ![r] = "settled"]
    /\ \E v \in given[r] \cup NoAnswer : outcome' = [outcome EXCEPT ![r] = v]
    /\ UNCHANGED given

Next == \E r \in Reqs : Ask(r) \/ Settle(r) \/ \E v \in Values : Answer(r, v)

Spec == Init /\ [][Next]_vars /\ \A r \in Reqs : WF_vars(status[r] = "open" /\ Settle(r))
=============================================================================

------------------------------- MODULE MCLink -------------------------------
(* Link with two requests: one that is asked of the human or runs a command, *)
(* beside one of any other kind.                                             *)
EXTENDS Link, TLC

CONSTANTS r1, r2

MCReqs == {r1, r2}
MCKinds == {(r1 :> "hitl") @@ (r2 :> "graph"),
            (r1 :> "hitl") @@ (r2 :> "exec"),
            (r1 :> "provision") @@ (r2 :> "patch")}
=============================================================================

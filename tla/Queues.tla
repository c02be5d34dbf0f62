------------------------------- MODULE Queues -------------------------------
(***************************************************************************)
(* Queues that are filtered in place: the container pool and its admission *)
(* queue (Sandbox), and the coalescer's window (Index).                    *)
(***************************************************************************)
EXTENDS Naturals, Sequences

Elements(s) == {s[i] : i \in 1..Len(s)}

\* What a sequence keeps when the elements of X are deleted from it.
Without(s, X) ==
    LET kept[n \in 0..Len(s)] ==
            IF n = 0 THEN <<>>
            ELSE IF s[n] \in X THEN kept[n - 1] ELSE Append(kept[n - 1], s[n])
    IN  kept[Len(s)]
=============================================================================

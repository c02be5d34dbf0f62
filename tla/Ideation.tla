------------------------------ MODULE Ideation ------------------------------
(***************************************************************************)
(* The Socratic ideation loop: the analyst's interview (agents/analyst.py)  *)
(* and the synthesis of its outcome into the planner's brief               *)
(* (brain/ideation.py), over the turns of one session.  Both nodes work in  *)
(* two super-steps: one composes a batch of questions or a brief and        *)
(* commits it to a channel, the next suspends on the committed value.  A    *)
(* resume replays the node from the top, which is why the value must come   *)
(* from the channel.  The channels are those of brain/state.py; they live   *)
(* in the session's checkpoint, so a turn starts with what the last one     *)
(* left, except for what _build_initial_state seeds.                       *)
(*                                                                         *)
(* A batch or a brief is named by the turn it was composed in and a number; *)
(* its text, the grounding and the reasoning are left out, but for the      *)
(* axes the reasoning closes with.                                         *)
(***************************************************************************)
EXTENDS Naturals

CONSTANTS
    MaxRounds,     \* _GRILL_MAX_ROUNDS
    MaxRevisions,  \* _BRIEF_MAX_REVISIONS
    HasFailover,   \* the preset declares another target for the tier
    MaxIdeaTurns,  \* bound on the turns of the session
    MaxStops       \* bound on the turns the operator stops

IdeationAssumption ==
    /\ {MaxRounds, MaxRevisions, MaxIdeaTurns, MaxStops} \subseteq Nat
    /\ HasFailover \in BOOLEAN

VARIABLES
    idea,      \* number of the turn
    words,     \* what the operator typed: "task" or "agreement"
    at,        \* the node that runs next, or where the turn rests
    ch,        \* the channels
    attempt,   \* the call of _generate_grill_questions_llm in progress
    card,      \* what the operator is looking at
    exchanges, \* <<batch shown, batch the answers were folded into>>
    handed,    \* what the planner was given in this turn
    stops

ideationVars == <<idea, words, at, ch, attempt, card, exchanges, handed, stops>>

Nil == [turn |-> 0]           \* an empty channel, no card
Edited == [edit |-> TRUE]     \* the operator's own text
NoCall == [number |-> 0, model |-> "none", corrected |-> FALSE, axes |-> "none"]
Resting == {"idle", "planner"}
Cards == {"askCard", "briefCard"}

Ids == [turn : 1..MaxIdeaTurns, n : Nat]
Notes == Ids \cup {Nil}

IdeationInit ==
    /\ idea = 0 /\ stops = 0
    /\ words = "none" /\ at = "idle"
    /\ ch = [round |-> 0, batch |-> Nil, axes |-> "none", brief |-> Nil,
             note |-> Nil, revisions |-> 0, hitl |-> FALSE, understood |-> FALSE,
             synthesized |-> FALSE, prior |-> FALSE]
    /\ attempt = NoCall
    /\ card = Nil /\ exchanges = {} /\ handed = Nil

-----------------------------------------------------------------------------
\* Edges.

\* _coverage_settled reads whatever axes the channel holds.
CoverageSettled(c) == c.axes = "settled"

RouteAfterAnalyst(c) ==
    IF c.hitl THEN "idle"
    ELSE IF c.understood \/ CoverageSettled(c) THEN "synthesis"
    ELSE "grill"

RouteAfterIdeation(c) == IF ~c.hitl /\ c.synthesized THEN "planner" ELSE "idle"

RouteAfterSynthesis(c) ==
    IF c.hitl THEN "idle"
    ELSE IF c.brief # Nil \/ c.note # Nil THEN "synthesis"
    ELSE RouteAfterIdeation(c)

\* A node returns: its writes are committed and the edge is followed.
Commit(c, route) ==
    /\ ch' = c
    /\ at' = route
    /\ card' = Nil
    /\ attempt' = NoCall
    /\ UNCHANGED <<idea, words, stops>>

-----------------------------------------------------------------------------
\* A turn.  The seed writes the channels it names; the others keep their
\* checkpointed value.  A card nobody answered in time does not hold a new
\* turn back.

BuildInitialState ==
    /\ idea < MaxIdeaTurns
    /\ at \in Resting \cup Cards
    /\ idea' = idea + 1
    /\ words' \in {"task", "agreement"}
    /\ at' = "grill"
    /\ ch' = [ch EXCEPT !.hitl = FALSE, !.understood = FALSE, !.synthesized = FALSE]
    /\ card' = Nil /\ handed' = Nil
    /\ UNCHANGED <<attempt, exchanges, stops>>

\* Stop: the super-step in progress commits nothing.
StopTurn ==
    /\ stops < MaxStops
    /\ at \notin Resting \cup Cards
    /\ stops' = stops + 1
    /\ at' = "idle" /\ attempt' = NoCall
    /\ UNCHANGED <<idea, words, ch, card, exchanges, handed>>

-----------------------------------------------------------------------------
\* The interview: the generate phase.

\* _has_prior_socratic_exchange and _is_agreement, on the first round only.
Agrees == ch.round = 0 /\ ch.prior /\ words = "agreement"

\* An agreement, or the round cap, closes the interview.
CloseInterview ==
    /\ at = "grill" /\ ch.batch = Nil
    /\ Agrees \/ ch.round >= MaxRounds
    /\ LET c == [ch EXCEPT !.understood = TRUE, !.hitl = FALSE]
       IN Commit(c, RouteAfterAnalyst(c))
    /\ UNCHANGED <<exchanges, handed>>

\* What the reasoning pass can leave: the axes are absent when thinking is
\* off, the pass failed or the model ignored the format.
ReasonedAxes == {"none", "open", "settled"}

\* The reasoning pass, then the first call for a batch.
ComposeBatch ==
    /\ at = "grill" /\ ch.batch = Nil
    /\ ~Agrees /\ ch.round < MaxRounds
    /\ \E axes \in ReasonedAxes :
          attempt' = [number |-> 1, model |-> "tier", corrected |-> FALSE, axes |-> axes]
    /\ at' = "compose"
    /\ UNCHANGED <<idea, words, ch, card, exchanges, handed, stops>>

\* _with_reasoning: a round without axes leaves those of the round before.
WithReasoning(c) ==
    IF attempt.axes = "none" THEN c ELSE [c EXCEPT !.axes = attempt.axes]

\* What the node returns for a batch, an empty batch and no batch.
BatchWrites(outcome) ==
    WithReasoning([ch EXCEPT
        !.round = @ + 1,
        !.hitl = (outcome = "failed"),
        !.understood = (outcome = "empty"),
        !.prior = @ \/ outcome = "failed",
        !.batch = IF outcome = "questions" THEN [turn |-> idea, n |-> ch.round + 1]
                  ELSE Nil])

BatchComes(outcome) ==
    /\ at = "compose"
    /\ outcome = "failed" => attempt.number = 2
    /\ Commit(BatchWrites(outcome), RouteAfterAnalyst(BatchWrites(outcome)))
    /\ UNCHANGED <<exchanges, handed>>

\* No chat target resolves: the generator gives up before its first call.
NoChatTarget ==
    /\ at = "compose" /\ attempt.number = 1
    /\ Commit(BatchWrites("failed"), RouteAfterAnalyst(BatchWrites("failed")))
    /\ UNCHANGED <<exchanges, handed>>

\* _is_provider_unavailable, _is_transport_failure, and the rest.
FailureReasons == {"unavailable", "unreachable", "malformed"}

\* The first call failed: a refusal for capacity is retried on the failover
\* target if there is one, anything else with the error folded back in.
RetryBatch(reason) ==
    /\ at = "compose" /\ attempt.number = 1
    /\ attempt' = [attempt EXCEPT
          !.number = 2,
          !.model = IF reason = "unavailable" /\ HasFailover THEN "failover" ELSE @,
          !.corrected = reason # "unavailable"]
    /\ UNCHANGED <<idea, words, at, ch, card, exchanges, handed, stops>>

-----------------------------------------------------------------------------
\* The interview: the ask phase.

Ask ==
    /\ at = "grill" /\ ch.batch # Nil
    /\ at' = "askCard" /\ card' = ch.batch
    /\ UNCHANGED <<idea, words, ch, attempt, exchanges, handed, stops>>

\* Faulty variant: the replay composes the batch anew and folds the answers
\* into that one.
RegeneratedBatch == [ch.batch EXCEPT !.n = @ + 1]

\* The batch the answers are folded into: the replay reads the channel again.
FoldedBatch == ch.batch

Answer ==
    /\ at = "askCard"
    /\ exchanges' = exchanges \cup {<<card, FoldedBatch>>}
    /\ LET c == [ch EXCEPT !.batch = Nil, !.hitl = FALSE, !.understood = FALSE,
                           !.prior = TRUE]
       IN Commit(c, RouteAfterAnalyst(c))
    /\ UNCHANGED handed

-----------------------------------------------------------------------------
\* The synthesis.

\* _distill_brief_llm never fails (it falls back to the transcript) and takes
\* the operator's correction from the channel.
Distilled == [turn |-> idea, n |-> ch.revisions, steer |-> ch.note]

\* Draft phase.
Draft ==
    /\ at = "synthesis" /\ ch.brief = Nil
    /\ LET c == [ch EXCEPT !.brief = Distilled, !.note = Nil]
       IN Commit(c, RouteAfterSynthesis(c))
    /\ UNCHANGED <<exchanges, handed>>

ShowBrief ==
    /\ at = "synthesis" /\ ch.brief # Nil
    /\ at' = "briefCard" /\ card' = ch.brief
    /\ UNCHANGED <<idea, words, ch, attempt, exchanges, handed, stops>>

\* The writes of an accepted brief.
Accepted ==
    [ch EXCEPT !.brief = Nil, !.note = Nil, !.understood = TRUE, !.hitl = FALSE,
               !.synthesized = TRUE]

HandOff(text) ==
    /\ handed' = text
    /\ Commit(Accepted, RouteAfterSynthesis(Accepted))
    /\ UNCHANGED exchanges

\* Faulty variant of ApproveBrief: the node drafts again when it is replayed.
ApproveRedrafted ==
    /\ at = "briefCard"
    /\ HandOff([ch.brief EXCEPT !.n = @ + 1])

ApproveBrief == at = "briefCard" /\ HandOff(ch.brief)

EditBrief == at = "briefCard" /\ HandOff(Edited)

SendBack ==
    /\ at = "briefCard"
    /\ ch.revisions < MaxRevisions
    /\ LET c == [ch EXCEPT !.brief = Nil, !.revisions = @ + 1,
                           !.note = [turn |-> idea, n |-> ch.revisions + 1]]
       IN Commit(c, RouteAfterSynthesis(c))
    /\ UNCHANGED <<exchanges, handed>>

CommentAtCap ==
    /\ at = "briefCard"
    /\ ch.revisions >= MaxRevisions
    /\ HandOff(ch.brief)

CancelReview ==
    /\ at = "briefCard"
    /\ LET c == [ch EXCEPT !.brief = Nil, !.note = Nil, !.hitl = TRUE]
       IN Commit(c, RouteAfterSynthesis(c))
    /\ UNCHANGED <<exchanges, handed>>

-----------------------------------------------------------------------------
Grill ==
    \/ CloseInterview \/ ComposeBatch \/ Ask
    \/ \E outcome \in {"questions", "empty", "failed"} : BatchComes(outcome)
    \/ NoChatTarget
    \/ \E reason \in FailureReasons : RetryBatch(reason)

Synthesis == Draft \/ ShowBrief

Review == ApproveBrief \/ EditBrief \/ SendBack \/ CommentAtCap \/ CancelReview

IdeationNext == BuildInitialState \/ StopTurn \/ Grill \/ Answer \/ Synthesis \/ Review

IdeationSpec == IdeationInit /\ [][IdeationNext]_ideationVars

-----------------------------------------------------------------------------
\* Properties.

\* The answers are always folded into the very batch the operator answered,
\* however often the node is replayed (the positional ids would otherwise be
\* matched with questions nobody saw).
AnswersMeetTheirQuestions == \A x \in exchanges : x[1] = x[2]

\* What the planner is given is the text that stood on the operator's review
\* card when the decision was made, or the operator's own edit of it.
HandsOverReviewed == handed' \notin {handed, Nil} => handed' \in {card, Edited}

\* The planner is only ever given a brief the operator has reviewed (ideation.py).
OnlyReviewedBriefs == [][HandsOverReviewed]_ideationVars

=============================================================================

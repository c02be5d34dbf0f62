---------------------------- MODULE MCDispatch ----------------------------
\* Plans and worker outcomes for model checking: a loop whose rounds need two
\* waves, a plan with a critic round, and a plan that is too wide; workers
\* that cost less and more than their share of the estimate.
EXTENDS Dispatch

MCPlans ==
    {[pattern |-> "loop", width |-> 3, estimate |-> 3],
     [pattern |-> "adversarial", width |-> 2, estimate |-> 2],
     [pattern |-> "one_round", width |-> 4, estimate |-> 4]}

MCOutcomes ==
    {[status |-> "error", cost |-> 0],
     [status |-> "done", cost |-> 2]}

=============================================================================

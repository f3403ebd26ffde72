------------------------- MODULE MCToolSubscription -------------------------
(* ToolSubscription for TLC. *)
EXTENDS ToolSubscription, TLC

PaidPlan == [price |-> 2, period |-> 2, calls |-> 1, credits |-> 2,
             payAsYouGo |-> FALSE]
FreePlan == [price |-> 0, period |-> 1, calls |-> 0, credits |-> 1,
             payAsYouGo |-> TRUE]
InstantPlan == [price |-> 2, period |-> 0, calls |-> 0, credits |-> 1,
                payAsYouGo |-> FALSE]

MCPlans == {PaidPlan, FreePlan, InstantPlan}

Symmetry == Permutations(Jobs)
=============================================================================

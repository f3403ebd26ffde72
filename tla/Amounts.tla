------------------------------ MODULE Amounts ------------------------------
(***************************************************************************)
(* The sum of a list of amounts.  Agreements and tool jobs add up their    *)
(* milestones, shares and payouts in the order of the list.                *)
(***************************************************************************)
EXTENDS Integers, Sequences

TotalOf(amounts) ==
    LET sum[n \in 0..Len(amounts)] ==
            IF n = 0 THEN 0 ELSE sum[n - 1] + amounts[n]
    IN  sum[Len(amounts)]
=============================================================================

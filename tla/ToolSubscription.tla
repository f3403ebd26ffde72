-------------------------- MODULE ToolSubscription --------------------------
(***************************************************************************)
(* The billing of a tool subscription: one slot of a subscriber and a tool,*)
(* with its paid period, allowances, restored value and prepaid reserve.   *)
(* The methods of ToolSubscription are operators on a record.  The chain   *)
(* that calls them is external: it moves the money the methods name, and   *)
(* delivers transactions and the passing of time in any order.             *)
(*                                                                         *)
(* Amounts and times are natural numbers far below 2^64, where the         *)
(* saturating operations of the code are the plain ones.                   *)
(***************************************************************************)
EXTENDS Integers, FiniteSets

CONSTANTS
    Plans,       \* the terms a subscription can be started with
    Jobs,        \* names for invocations whose settlement is deferred
    ToolPrice,   \* price of an invocation
    MaxTime,     \* how far time passes
    MaxFunds,    \* how much a subscriber pays into the reserve
    MaxRestarts  \* how often a cancelled slot is started again

PlanType ==
    [price : Nat, period : Nat, calls : Nat, credits : Nat,
     payAsYouGo : BOOLEAN]

ASSUME SubscriptionAssumption ==
    /\ Plans \subseteq PlanType
    /\ IsFiniteSet(Jobs)
    /\ ToolPrice \in Nat
    /\ MaxTime \in Nat
    /\ MaxFunds \in Nat
    /\ MaxRestarts \in Nat

VARIABLES
    now,         \* time of the block
    available,   \* provider, tool and plan are active
    sub,         \* the ToolSubscription record
    jobs,        \* deferred invocations that are not settled
    funded,      \* paid into the reserve so far
    credited,    \* credited to the provider for renewals
    refunded,    \* paid back from the reserve
    openCalls,   \* calls that periods have granted and that are not used up
    restarts,    \* how often the slot was started again
    pausedUntil  \* history: the last instant at which the slot was Paused

vars == <<now, available, sub, jobs, funded, credited, refunded,
          openCalls, restarts, pausedUntil>>
moneyVars == <<funded, credited, refunded>>

Statuses == {"Active", "Paused", "PastDue", "CancelRequested", "Cancelled"}

Subscription ==
    [plan : Plans, start : Nat, end : Nat, calls : Nat, credits : Nat,
     compCalls : Nat, compCredits : Nat, reserve : Nat, status : Statuses,
     autoRenew : BOOLEAN]

Coverage == [covered : Nat, usedCall : BOOLEAN]
NoJob == [covered |-> 0, usedCall |-> FALSE]

Least(a, b) == IF a < b THEN a ELSE b

-----------------------------------------------------------------------------
(* The methods. *)

\* start_or_restart_from_plan; a reused slot keeps its compensation.
Started(plan, compCalls, compCredits, reserve, autoRenew) ==
    [plan |-> plan, start |-> now, end |-> now + plan.period,
     calls |-> plan.calls, credits |-> plan.credits,
     compCalls |-> compCalls, compCredits |-> compCredits,
     reserve |-> reserve, status |-> "Active", autoRenew |-> autoRenew]

CanAcceptReserveTopUp(s) == s.status \in {"Active", "Paused", "PastDue"}

IsUsable(s) == now < s.end /\ s.status \in {"Active", "CancelRequested"}

HasCompensation(s) == s.compCalls > 0 \/ s.compCredits > 0

IsInvokeUsable(s) ==
    \/ IsUsable(s)
    \/ HasCompensation(s) /\ s.status # "Paused"

\* consume_allowance: what covers an invocation, and the record behind it.
CoveredByCall(s) == s.compCalls > 0 \/ s.calls > 0

CoveredAmount(s) ==
    IF CoveredByCall(s) THEN ToolPrice
                        ELSE Least(s.compCredits + s.credits, ToolPrice)

\* Mutant of Consumed: a restored call is not used up.
ConsumedForFree(s) ==
    IF s.compCalls > 0 THEN s
    ELSE IF s.calls > 0 THEN [s EXCEPT !.calls = @ - 1]
    ELSE s

Consumed(s) ==
    IF s.compCalls > 0 THEN [s EXCEPT !.compCalls = @ - 1]
    ELSE IF s.calls > 0 THEN [s EXCEPT !.calls = @ - 1]
    ELSE LET comp == Least(s.compCredits, ToolPrice)
             period == Least(s.credits, ToolPrice - comp)
         IN  [s EXCEPT !.compCredits = @ - comp, !.credits = @ - period]

\* restore_allowance_as_compensation.
Restored(s, job) ==
    IF job.usedCall THEN [s EXCEPT !.compCalls = @ + 1]
                    ELSE [s EXCEPT !.compCredits = @ + job.covered]

\* terminate_for_unrecoverable_service_loss.
Terminated(s) ==
    [s EXCEPT !.reserve = 0, !.compCalls = 0, !.compCredits = 0,
              !.autoRenew = FALSE, !.status = "Cancelled"]

\* advance_periods ends the subscription, pauses it, or renews it.
Ends(s) ==
    /\ now >= s.end
    /\ ~s.autoRenew \/ s.status \in {"CancelRequested", "Cancelled"}
Pauses(s) == now >= s.end /\ ~Ends(s) /\ ~available
Renews(s) == now >= s.end /\ ~Ends(s) /\ available

\* A paused subscription is billed from now on.
Anchor(s) == IF s.status = "Paused" THEN now ELSE s.end

\* The whole periods since then; none of a plan whose period is 0 (checked_div).
PeriodsPassed(s) ==
    IF s.plan.period = 0 THEN 0 ELSE (now - Anchor(s)) \div s.plan.period

\* Mutant of PeriodsDue: the period that starts now is forgotten.
PeriodsDueBehind(s) == PeriodsPassed(s)

\* Mutant of PeriodsDue: the next period is due as well.
PeriodsDueAhead(s) == PeriodsPassed(s) + 2

PeriodsDue(s) == PeriodsPassed(s) + 1

\* Mutant of AffordablePeriods: the reserve is not looked at.
AffordableAlways(s) == PeriodsDue(s)

AffordablePeriods(s) ==
    IF s.plan.price = 0 THEN PeriodsDue(s)
    ELSE Least(PeriodsDue(s), s.reserve \div s.plan.price)

RenewalCost(s) == s.plan.price * AffordablePeriods(s)

\* Mutant of RenewedEnd: the end of the pause is noted only with a payment.
RenewedEndPaid(s) ==
    IF AffordablePeriods(s) = 0
    THEN s.end
    ELSE Anchor(s) + s.plan.period * AffordablePeriods(s)

\* The current period after a renewal, which may be empty after a pause.
RenewedEnd(s) == Anchor(s) + s.plan.period * AffordablePeriods(s)
RenewedStart(s) ==
    IF AffordablePeriods(s) = 0
    THEN IF s.status = "Paused" THEN now ELSE s.start
    ELSE RenewedEnd(s) - s.plan.period

\* Mutant of Renewed: the reserve is kept.
RenewedForFree(s) ==
    [s EXCEPT !.start = RenewedStart(s), !.end = RenewedEnd(s),
              !.calls = s.plan.calls, !.credits = s.plan.credits,
              !.status = "Active"]

\* The due periods that the reserve pays for are paid; the allowances are
\* those of the period that is running now, if it is paid for.
Renewed(s) ==
    LET caughtUp == AffordablePeriods(s) = PeriodsDue(s)
    IN  [s EXCEPT !.start = RenewedStart(s), !.end = RenewedEnd(s),
                  !.reserve = @ - RenewalCost(s),
                  !.calls = IF caughtUp THEN s.plan.calls ELSE 0,
                  !.credits = IF caughtUp THEN s.plan.credits ELSE 0,
                  !.status = IF caughtUp THEN "Active" ELSE "PastDue"]

\* advance_periods.
Advanced(s) ==
    IF Ends(s) THEN [s EXCEPT !.status = "Cancelled"]
    ELSE IF Pauses(s) THEN [s EXCEPT !.status = "Paused"]
    ELSE IF Renews(s) THEN Renewed(s)
    ELSE s

-----------------------------------------------------------------------------
(* The transactions of the chain. *)

Tick ==
    /\ now < MaxTime
    /\ now' = now + 1
    /\ pausedUntil' = IF sub.status = "Paused" THEN now' ELSE pausedUntil
    /\ UNCHANGED <<available, sub, jobs, moneyVars, openCalls, restarts>>

ServiceChanges ==
    /\ available' = ~available
    /\ UNCHANGED <<now, sub, jobs, moneyVars, openCalls, restarts, pausedUntil>>

\* A cancelled slot is started again; what is left of its reserve goes back.
Restart ==
    /\ restarts < MaxRestarts
    /\ sub.status = "Cancelled"
    /\ available
    /\ \E plan \in Plans, amount \in 0..(MaxFunds - funded), auto \in BOOLEAN :
         /\ sub' = Started(plan, sub.compCalls, sub.compCredits, amount, auto)
         /\ funded' = funded + amount
         /\ openCalls' = openCalls - sub.calls + plan.calls
    /\ restarts' = restarts + 1
    /\ refunded' = refunded + sub.reserve
    /\ UNCHANGED <<now, available, jobs, credited, pausedUntil>>

TopUp ==
    /\ CanAcceptReserveTopUp(sub)
    /\ \E amount \in 1..(MaxFunds - funded) :
         /\ sub' = [sub EXCEPT !.reserve = @ + amount]
         /\ funded' = funded + amount
    /\ UNCHANGED <<now, available, jobs, credited, refunded, openCalls,
                   restarts, pausedUntil>>

\* The paid period goes on, without renewal.
Cancel ==
    /\ sub.status \notin {"CancelRequested", "Cancelled"}
    /\ sub' = [sub EXCEPT !.status = "CancelRequested", !.autoRenew = FALSE]
    /\ UNCHANGED <<now, available, jobs, moneyVars, openCalls, restarts, pausedUntil>>

\* Billing is brought up to date.  A call that a period did not use is gone.
Advance ==
    /\ sub' = Advanced(sub)
    /\ credited' = credited + IF Renews(sub) THEN RenewalCost(sub) ELSE 0
    /\ openCalls' = openCalls - sub.calls + sub'.calls
    /\ UNCHANGED <<now, available, jobs, funded, refunded, restarts, pausedUntil>>

\* An invocation is covered by the subscription; a Deny plan covers all or
\* nothing.  It is settled at once, or is a job.
Invoke ==
    /\ IsInvokeUsable(sub)
    /\ sub.plan.payAsYouGo \/ CoveredAmount(sub) = ToolPrice
    /\ sub' = Consumed(sub)
    /\ \/ /\ openCalls' = openCalls - IF CoveredByCall(sub) THEN 1 ELSE 0
          /\ UNCHANGED jobs
       \/ /\ \E j \in Jobs :
               /\ jobs[j] = NoJob
               /\ jobs' = [jobs EXCEPT ![j] = [covered |-> CoveredAmount(sub),
                                               usedCall |-> CoveredByCall(sub)]]
          /\ UNCHANGED openCalls
    /\ UNCHANGED <<now, available, moneyVars, restarts, pausedUntil>>

\* A job succeeds, or fails and its allowance is restored.
JobSucceeds ==
    /\ \E j \in Jobs :
         /\ jobs[j] # NoJob
         /\ jobs' = [jobs EXCEPT ![j] = NoJob]
         /\ openCalls' = openCalls - IF jobs[j].usedCall THEN 1 ELSE 0
    /\ UNCHANGED <<now, available, sub, moneyVars, restarts, pausedUntil>>

JobFails ==
    /\ \E j \in Jobs :
         /\ jobs[j] # NoJob
         /\ jobs' = [jobs EXCEPT ![j] = NoJob]
         /\ sub' = Restored(sub, jobs[j])
    /\ UNCHANGED <<now, available, moneyVars, openCalls, restarts, pausedUntil>>

\* Service can never return: reserve and restored calls are paid back.
Terminate ==
    /\ sub' = Terminated(sub)
    /\ refunded' = refunded + sub.reserve
    /\ openCalls' = openCalls - sub.compCalls
    /\ UNCHANGED <<now, available, jobs, funded, credited, restarts, pausedUntil>>

Init ==
    /\ now = 0 /\ available = TRUE
    /\ \E plan \in Plans, amount \in 0..MaxFunds, auto \in BOOLEAN :
         /\ sub = Started(plan, 0, 0, amount, auto)
         /\ funded = amount
         /\ openCalls = plan.calls
    /\ jobs = [j \in Jobs |-> NoJob]
    /\ credited = 0 /\ refunded = 0 /\ restarts = 0 /\ pausedUntil = 0

Next ==
    \/ Tick \/ ServiceChanges
    \/ Restart \/ TopUp \/ Cancel \/ Advance \/ Terminate
    \/ Invoke \/ JobSucceeds \/ JobFails

Spec == Init /\ [][Next]_vars

-----------------------------------------------------------------------------
\* The record has the fields the code gives it, and no amount is negative: no
\* saturating subtraction of the methods hides a missing amount.
TypeOK ==
    /\ now \in Nat /\ available \in BOOLEAN
    /\ sub \in Subscription
    /\ jobs \in [Jobs -> Coverage]
    /\ funded \in Nat /\ credited \in Nat /\ refunded \in Nat
    /\ pausedUntil \in Nat

\* Whatever is paid into the reserve is still there, was credited to the
\* provider for a period, or was paid back: renewals, pauses, partial payments,
\* restarts and shutdowns create and lose no money.
ReserveConserved == funded = sub.reserve + credited + refunded

\* No period is billed before the one before it has ended: the paid time never
\* reaches further than one period into the future.
NotBilledAhead == sub.end <= now + sub.plan.period

\* The jobs that a call covers.
JobsWithCall(f) == {j \in Jobs : f[j].usedCall}

\* Every call that a period granted is still included, waits for the end of a
\* job, is restored, or was used up for good: no invocation, failure, renewal or
\* restart makes a call out of nothing, or loses one.
CallsAccounted ==
    openCalls = sub.calls + sub.compCalls + Cardinality(JobsWithCall(jobs))

\* The periods that billing one period at a time would renew: as long as the
\* current one has ended and the reserve pays for the next.
Stepwise(s) ==
    LET renewable(i) == /\ Anchor(s) + i * s.plan.period <= now
                        /\ s.reserve >= (i + 1) * s.plan.price
    IN  CHOOSE k \in 0..(now + 1) :
            ~renewable(k) /\ \A i \in 0..(k - 1) : renewable(i)

\* advance_periods in constant time does what billing one period at a time
\* does, and a subscription that it leaves active is paid for now.  (A plan whose
\* period is 0, which nothing in the code refuses, is billed once per call of
\* advance_periods; there is no period-by-period billing to compare with.)
BillsPeriodByPeriod ==
    [][ credited' # credited /\ sub.plan.period > 0 =>
          /\ credited' = credited + Stepwise(sub) * sub.plan.price
          /\ sub'.end = Anchor(sub) + Stepwise(sub) * sub.plan.period
          /\ sub'.status = "Active" <=> now < sub'.end ]_vars

\* The start of the time that a step of Advance bills: what the provider was
\* credited counts the periods, the last of which ends at the new period end.
BilledFrom ==
    sub'.end - sub.plan.period * ((credited' - credited) \div sub.plan.price)

\* advance_periods never bills time at which the subscription was Paused: not
\* in the call that resumes it, and not in a later one, when the reserve was empty
\* at the resumption and a top-up pays for the periods missed since.  (The clock
\* stops only for a Paused row.  An outage that no call of advance_periods sees
\* leaves the row Active or PastDue, and is billed like any other time.)
NoBillingOfPause ==
    [][ credited' # credited => BilledFrom >= pausedUntil ]_vars

=============================================================================

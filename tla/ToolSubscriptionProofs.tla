---------------------- MODULE ToolSubscriptionProofs ----------------------
(***************************************************************************)
(* What ToolSubscription promises, for every set of plans, every price and *)
(* length of period and every history: the types, the conservation of the  *)
(* reserve and the calls, the bound on the paid time, and that the closed  *)
(* form of advance_periods bills what period after period would.           *)
(***************************************************************************)
EXTENDS ToolSubscription, FiniteSetTheorems, TLAPS

USE SubscriptionAssumption

-----------------------------------------------------------------------------
(* Arithmetic. *)

\* What the division in advance_periods returns.
LEMMA Division ==
    ASSUME NEW a \in Nat, NEW b \in Nat \ {0}
    PROVE  /\ a \div b \in Nat
           /\ b * (a \div b) <= a
           /\ a < b * (a \div b) + b
  BY Z3T(30)

\* Fewer periods cost less.
LEMMA ProductMonotone ==
    ASSUME NEW a \in Nat, NEW b \in Nat, NEW c \in Nat, a <= b
    PROVE  c * a \in Nat /\ c * b \in Nat /\ c * a <= c * b
  BY Z3T(30)

\* A product splits off one factor.
LEMMA ProductStep ==
    ASSUME NEW a \in Nat, NEW c \in Nat
    PROVE  c * (a + 1) = c * a + c
  BY Z3T(30)

-----------------------------------------------------------------------------
(* advance_periods. *)

\* The terms of a subscription.
LEMMA PlanTypes ==
    ASSUME NEW s \in Subscription
    PROVE  /\ s.plan \in Plans
           /\ s.plan.price \in Nat /\ s.plan.period \in Nat
           /\ s.plan.calls \in Nat /\ s.plan.credits \in Nat
           /\ s.start \in Nat /\ s.end \in Nat /\ s.reserve \in Nat
           /\ s.calls \in Nat /\ s.credits \in Nat
           /\ s.compCalls \in Nat /\ s.compCredits \in Nat
           /\ s.status \in Statuses /\ s.autoRenew \in BOOLEAN
  <1>1. s.plan \in PlanType
    BY DEF Subscription
  <1> QED
    BY <1>1 DEF Subscription, PlanType

\* A renewal is billed from a moment in the past on, for at least one due
\* period, for no more than the reserve pays, and for no more than the period
\* that is running now.
LEMMA Renewal ==
    ASSUME NEW s \in Subscription, now \in Nat, Renews(s)
    PROVE  /\ PeriodsDue(s) \in Nat /\ AffordablePeriods(s) \in Nat
           /\ RenewalCost(s) \in Nat /\ RenewalCost(s) <= s.reserve
           /\ RenewedEnd(s) \in Nat /\ RenewedEnd(s) <= now + s.plan.period
           /\ RenewedEnd(s) >= Anchor(s)
           /\ RenewedStart(s) \in Nat
  <1> DEFINE price == s.plan.price
             period == s.plan.period
             gap == now - Anchor(s)
             due == PeriodsDue(s)
             n == AffordablePeriods(s)
  <1>1. price \in Nat /\ period \in Nat /\ s.reserve \in Nat /\ s.start \in Nat
    BY PlanTypes
  <1>2. Anchor(s) \in Nat /\ gap \in Nat /\ Anchor(s) + gap = now
    BY PlanTypes DEF Anchor, Renews
  <1>3. due = PeriodsPassed(s) + 1
    BY DEF PeriodsDue
  <1>4. /\ PeriodsPassed(s) \in Nat
        /\ period * PeriodsPassed(s) <= gap
    <2>1. CASE period = 0
      <3>1. PeriodsPassed(s) = 0
        BY <2>1 DEF PeriodsPassed
      <3> HIDE DEF period, gap
      <3> QED BY <2>1, <3>1, <1>2
    <2>2. CASE period # 0
      <3>1. PeriodsPassed(s) = gap \div period
        BY <2>2 DEF PeriodsPassed
      <3> QED BY <3>1, <2>2, <1>1, <1>2, Division
    <2> QED BY <2>1, <2>2
  <1>5. due \in Nat /\ period * due = period * PeriodsPassed(s) + period
    <2> HIDE DEF due, gap, period
    <2> QED BY <1>1, <1>3, <1>4, ProductStep
  <1>6. n \in Nat /\ n <= due /\ price * n <= s.reserve /\ price * n \in Nat
    <2>1. CASE price = 0
      <3>1. n = due
        BY <2>1 DEF AffordablePeriods
      <3> HIDE DEF n, due, price
      <3> QED BY <2>1, <3>1, <1>1, <1>5
    <2>2. CASE price # 0
      <3>1. /\ s.reserve \div price \in Nat
            /\ price * (s.reserve \div price) <= s.reserve
        BY <1>1, <2>2, Division
      <3>2. n = Least(due, s.reserve \div price)
        BY <2>2 DEF AffordablePeriods
      <3>3. n \in Nat /\ n <= due /\ n <= s.reserve \div price
        <4> HIDE DEF n, due, price
        <4> QED BY <3>1, <3>2, <1>5 DEF Least
      <3>4. price * n \in Nat /\ price * n <= price * (s.reserve \div price)
        <4> HIDE DEF n, price
        <4> QED BY <3>1, <3>3, <1>1, ProductMonotone
      <3>5. price * (s.reserve \div price) \in Nat
        <4> HIDE DEF price
        <4> QED BY <3>1, <1>1, ProductMonotone
      <3> HIDE DEF n, price, due
      <3> QED BY <3>1, <3>3, <3>4, <3>5, <1>1
    <2> QED BY <2>1, <2>2
  <1>7. period * n \in Nat /\ period * due \in Nat /\ period * n <= period * due
    <2> HIDE DEF n, due, period
    <2> QED BY <1>1, <1>5, <1>6, ProductMonotone
  <1>8. period * PeriodsPassed(s) \in Nat
    <2> HIDE DEF gap, period
    <2> QED BY <1>1, <1>4, ProductMonotone
  <1>9. RenewedEnd(s) = Anchor(s) + period * n
    BY DEF RenewedEnd
  <1>10. /\ RenewedEnd(s) \in Nat /\ RenewedEnd(s) <= now + period
         /\ RenewedEnd(s) >= Anchor(s)
    <2> HIDE DEF n, due, gap, period
    <2> QED BY <1>1, <1>2, <1>4, <1>5, <1>7, <1>8, <1>9
  <1>11. RenewedStart(s) \in Nat
    <2>1. CASE n = 0
      BY <2>1, <1>1, <1>2 DEF RenewedStart
    <2>2. CASE n # 0
      <3>1. RenewedStart(s) = RenewedEnd(s) - period
        BY <2>2 DEF RenewedStart
      <3>2. period * 1 <= period * n
        <4> HIDE DEF n, period
        <4> QED BY <2>2, <1>1, <1>6, ProductMonotone
      <3> HIDE DEF n, period
      <3> QED BY <3>1, <3>2, <1>1, <1>2, <1>7, <1>9
    <2> QED BY <2>1, <2>2
  <1> QED
    BY <1>5, <1>6, <1>10, <1>11 DEF RenewalCost

\* What Renewed writes.
LEMMA RenewedFields ==
    ASSUME NEW s \in Subscription
    PROVE  /\ Renewed(s).start = RenewedStart(s)
           /\ Renewed(s).end = RenewedEnd(s)
           /\ Renewed(s).status = "Active" <=> AffordablePeriods(s) = PeriodsDue(s)
  BY DEF Renewed, Subscription

\* advance_periods keeps the shape of the record, takes the cost of a renewal
\* out of the reserve, and bills no further than the period that is running.
LEMMA AdvancedProperties ==
    ASSUME now \in Nat, available \in BOOLEAN, NEW s \in Subscription,
           s.end <= now + s.plan.period
    PROVE  /\ Advanced(s) \in Subscription
           /\ Advanced(s).plan = s.plan
           /\ Advanced(s).end <= now + s.plan.period
           /\ Advanced(s).compCalls = s.compCalls
           /\ s.reserve = Advanced(s).reserve
                          + (IF Renews(s) THEN RenewalCost(s) ELSE 0)
           /\ Renews(s) => RenewalCost(s) \in Nat
  <1>1. CASE Ends(s)
    <2>1. Advanced(s) = [s EXCEPT !.status = "Cancelled"]
      BY <1>1 DEF Advanced
    <2>2. ~Renews(s)
      BY <1>1 DEF Renews
    <2> QED
      BY <2>1, <2>2, PlanTypes DEF Subscription, Statuses
  <1>2. CASE Pauses(s)
    <2>1. Advanced(s) = [s EXCEPT !.status = "Paused"]
      BY <1>2 DEF Advanced, Pauses
    <2>2. ~Renews(s)
      BY <1>2 DEF Renews, Pauses
    <2> QED
      BY <2>1, <2>2, PlanTypes DEF Subscription, Statuses
  <1>3. CASE Renews(s)
    <2> DEFINE caughtUp == AffordablePeriods(s) = PeriodsDue(s)
    <2>1. Advanced(s) = Renewed(s)
      BY <1>3 DEF Advanced, Renews, Pauses
    <2>2. /\ RenewalCost(s) \in Nat /\ RenewalCost(s) <= s.reserve
          /\ RenewedEnd(s) \in Nat /\ RenewedEnd(s) <= now + s.plan.period
          /\ RenewedStart(s) \in Nat
      BY <1>3, Renewal
    <2>3. s.reserve - RenewalCost(s) \in Nat
      BY <2>2, PlanTypes
    <2> DEFINE calls == IF caughtUp THEN s.plan.calls ELSE 0
               credits == IF caughtUp THEN s.plan.credits ELSE 0
               status == IF caughtUp THEN "Active" ELSE "PastDue"
               reserve == s.reserve - RenewalCost(s)
    <2>4. calls \in Nat /\ credits \in Nat /\ status \in Statuses
      BY PlanTypes DEF Statuses
    <2>5. Renewed(s) = [s EXCEPT !.start = RenewedStart(s), !.end = RenewedEnd(s),
                                 !.reserve = reserve, !.calls = calls,
                                 !.credits = credits, !.status = status]
      BY DEF Renewed
    <2> HIDE DEF calls, credits, status, reserve
    <2>6. /\ Renewed(s) \in Subscription
          /\ Renewed(s).plan = s.plan /\ Renewed(s).compCalls = s.compCalls
          /\ Renewed(s).end = RenewedEnd(s) /\ Renewed(s).reserve = reserve
      BY <2>2, <2>3, <2>4, <2>5 DEF Subscription, reserve
    <2>7. s.reserve = reserve + RenewalCost(s)
      BY <2>2, PlanTypes DEF reserve
    <2> QED
      BY <1>3, <2>1, <2>2, <2>6, <2>7
  <1>4. CASE ~Ends(s) /\ ~Pauses(s) /\ ~Renews(s)
    <2>1. Advanced(s) = s
      BY <1>4 DEF Advanced
    <2> QED
      BY <2>1, <1>4, PlanTypes
  <1> QED
    BY <1>1, <1>2, <1>3, <1>4

-----------------------------------------------------------------------------
(* consume_allowance, restore_allowance_as_compensation, and the jobs. *)

\* An invocation takes one call, or none and some credits; the rest stays.
LEMMA ConsumedProperties ==
    ASSUME NEW s \in Subscription
    PROVE  /\ Consumed(s) \in Subscription
           /\ Consumed(s).plan = s.plan /\ Consumed(s).end = s.end
           /\ Consumed(s).reserve = s.reserve
           /\ Consumed(s).status = s.status
           /\ s.calls + s.compCalls = Consumed(s).calls + Consumed(s).compCalls
                                      + (IF CoveredByCall(s) THEN 1 ELSE 0)
           /\ CoveredAmount(s) \in Nat /\ CoveredByCall(s) \in BOOLEAN
  <1> DEFINE comp == Least(s.compCredits, ToolPrice)
             period == Least(s.credits, ToolPrice - comp)
  <1>1. /\ s.calls \in Nat /\ s.credits \in Nat
        /\ s.compCalls \in Nat /\ s.compCredits \in Nat
    BY PlanTypes
  <1>2. CoveredAmount(s) \in Nat /\ CoveredByCall(s) \in BOOLEAN
    BY <1>1 DEF CoveredAmount, CoveredByCall, Least
  <1>3. /\ s.compCredits - comp \in Nat
        /\ s.credits - period \in Nat
    BY <1>1 DEF Least
  <1>4. CASE s.compCalls > 0
    <2>1. Consumed(s) = [s EXCEPT !.compCalls = s.compCalls - 1]
      BY <1>4 DEF Consumed
    <2>2. s.compCalls - 1 \in Nat /\ CoveredByCall(s)
      BY <1>1, <1>4 DEF CoveredByCall
    <2> QED
      BY <1>1, <1>2, <2>1, <2>2 DEF Subscription
  <1>5. CASE ~(s.compCalls > 0) /\ s.calls > 0
    <2>1. Consumed(s) = [s EXCEPT !.calls = s.calls - 1]
      BY <1>5 DEF Consumed
    <2>2. s.calls - 1 \in Nat /\ CoveredByCall(s)
      BY <1>1, <1>5 DEF CoveredByCall
    <2> QED
      BY <1>1, <1>2, <2>1, <2>2 DEF Subscription
  <1>6. CASE ~(s.compCalls > 0) /\ ~(s.calls > 0)
    <2>1. Consumed(s) = [s EXCEPT !.compCredits = s.compCredits - comp,
                                  !.credits = s.credits - period]
      BY <1>6 DEF Consumed
    <2>2. ~CoveredByCall(s)
      BY <1>6 DEF CoveredByCall
    <2> DEFINE left == s.compCredits - comp
               kept == s.credits - period
    <2>3. left \in Nat /\ kept \in Nat
      BY <1>3
    <2>4. Consumed(s) = [s EXCEPT !.compCredits = left, !.credits = kept]
      BY <2>1
    <2> HIDE DEF left, kept
    <2>5. /\ Consumed(s) \in Subscription
          /\ Consumed(s).plan = s.plan /\ Consumed(s).end = s.end
          /\ Consumed(s).reserve = s.reserve
          /\ Consumed(s).status = s.status
          /\ Consumed(s).calls = s.calls /\ Consumed(s).compCalls = s.compCalls
      BY <2>3, <2>4 DEF Subscription
    <2> QED
      BY <1>1, <1>2, <2>2, <2>5
  <1> QED
    BY <1>4, <1>5, <1>6

\* A failed job gives its call or its credits back, and nothing else changes.
LEMMA RestoredProperties ==
    ASSUME NEW s \in Subscription, NEW job \in Coverage
    PROVE  /\ Restored(s, job) \in Subscription
           /\ Restored(s, job).plan = s.plan /\ Restored(s, job).end = s.end
           /\ Restored(s, job).reserve = s.reserve
           /\ Restored(s, job).status = s.status
           /\ Restored(s, job).calls = s.calls
           /\ Restored(s, job).compCalls
                = s.compCalls + (IF job.usedCall THEN 1 ELSE 0)
  <1>1. job.covered \in Nat /\ job.usedCall \in BOOLEAN
    BY DEF Coverage
  <1>2. CASE job.usedCall
    <2>1. Restored(s, job) = [s EXCEPT !.compCalls = s.compCalls + 1]
      BY <1>2 DEF Restored
    <2> QED
      BY <1>2, <2>1, PlanTypes DEF Subscription
  <1>3. CASE ~job.usedCall
    <2>1. Restored(s, job) = [s EXCEPT !.compCredits = s.compCredits + job.covered]
      BY <1>3 DEF Restored
    <2>2. s.compCredits + job.covered \in Nat
      BY <1>1, PlanTypes
    <2> QED
      BY <1>3, <2>1, <2>2, PlanTypes DEF Subscription
  <1> QED
    BY <1>1, <1>2, <1>3

\* A job that is added or removed changes the number of calls in jobs by the
\* call that covers it.
LEMMA JobCount ==
    ASSUME NEW f \in [Jobs -> Coverage], NEW j \in Jobs, NEW c \in Coverage,
           ~f[j].usedCall \/ ~c.usedCall
    PROVE  /\ Cardinality(JobsWithCall(f)) \in Nat
           /\ Cardinality(JobsWithCall([f EXCEPT ![j] = c]))
                = Cardinality(JobsWithCall(f))
                  + (IF c.usedCall THEN 1 ELSE 0)
                  - (IF f[j].usedCall THEN 1 ELSE 0)
  <1> DEFINE g == [f EXCEPT ![j] = c]
             A == JobsWithCall(f)
             B == JobsWithCall(g)
  <1>1. f[j].usedCall \in BOOLEAN /\ c.usedCall \in BOOLEAN
    <2>1. f[j] \in Coverage OBVIOUS
    <2> QED BY <2>1 DEF Coverage
  <1>2. IsFiniteSet(A) /\ Cardinality(A) \in Nat
    BY FS_Subset, FS_CardinalityType DEF JobsWithCall
  <1>3. g[j] = c /\ \A i \in Jobs : i # j => g[i] = f[i]
    OBVIOUS
  <1>4. (j \in A <=> f[j].usedCall) /\ (j \in B <=> c.usedCall)
    BY <1>3 DEF JobsWithCall
  <1>5. \A i : i # j => (i \in A <=> i \in B)
    BY <1>3 DEF JobsWithCall
  <1> HIDE DEF A, B, g
  <1>6. CASE f[j].usedCall
    <2>1. B = A \ {j}
      BY <1>4, <1>5, <1>6
    <2>2. Cardinality(B) = Cardinality(A) - 1
      BY <1>2, <1>4, <1>6, <2>1, FS_RemoveElement
    <2> QED
      BY <1>2, <1>6, <2>2 DEF A, B, g
  <1>7. CASE c.usedCall
    <2>1. B = A \cup {j}
      BY <1>4, <1>5, <1>7
    <2>2. Cardinality(B) = Cardinality(A) + 1
      BY <1>2, <1>4, <1>7, <2>1, FS_AddElement
    <2> QED
      BY <1>2, <1>7, <2>2 DEF A, B, g
  <1>8. CASE ~f[j].usedCall /\ ~c.usedCall
    <2>1. B = A
      BY <1>4, <1>5, <1>8
    <2> QED
      BY <1>2, <1>8, <2>1 DEF A, B, g
  <1> QED
    BY <1>1, <1>6, <1>7, <1>8

\* A job that ends takes its call out of the jobs.
LEMMA JobRemoved ==
    ASSUME NEW f \in [Jobs -> Coverage], NEW j \in Jobs,
           NEW g, g = [f EXCEPT ![j] = NoJob]
    PROVE  Cardinality(JobsWithCall(g))
             = Cardinality(JobsWithCall(f)) - IF f[j].usedCall THEN 1 ELSE 0
  <1>1. NoJob \in Coverage /\ ~NoJob.usedCall
    BY DEF NoJob, Coverage
  <1>2. /\ Cardinality(JobsWithCall(f)) \in Nat
        /\ Cardinality(JobsWithCall([f EXCEPT ![j] = NoJob]))
             = Cardinality(JobsWithCall(f)) + (IF NoJob.usedCall THEN 1 ELSE 0)
               - (IF f[j].usedCall THEN 1 ELSE 0)
    BY <1>1, JobCount
  <1>3. (IF NoJob.usedCall THEN 1 ELSE 0) = 0
    BY <1>1
  <1> QED
    BY <1>2, <1>3

-----------------------------------------------------------------------------
(* The invariant. *)

\* A subscription that goes on is billed from its period end on, which lies
\* behind its last pause.
PauseIsOver ==
    /\ pausedUntil <= now
    /\ sub.status \in {"Active", "PastDue"} => pausedUntil <= sub.end

SubscriptionInv ==
    TypeOK /\ ReserveConserved /\ NotBilledAhead /\ CallsAccounted /\ PauseIsOver

\* A subscription starts with a period from now on.
LEMMA StartedProperties ==
    ASSUME now \in Nat, NEW plan \in Plans, NEW compCalls \in Nat,
           NEW compCredits \in Nat, NEW reserve \in Nat, NEW auto \in BOOLEAN,
           NEW s, s = Started(plan, compCalls, compCredits, reserve, auto)
    PROVE  /\ s \in Subscription
           /\ s.plan = plan /\ s.end = now + plan.period
           /\ s.reserve = reserve /\ s.calls = plan.calls
           /\ s.compCalls = compCalls
           /\ plan.calls \in Nat /\ plan.period \in Nat
  <1>1. plan \in PlanType
    OBVIOUS
  <1>2. /\ plan.period \in Nat /\ plan.calls \in Nat /\ plan.credits \in Nat
    BY <1>1 DEF PlanType
  <1>3. now + plan.period \in Nat
    BY <1>2
  <1> QED
    BY <1>2, <1>3 DEF Started, Subscription, Statuses

\* The invariant holds of a subscription that has just been started.
LEMMA InitEstablishes == Init => SubscriptionInv
  <1> SUFFICES ASSUME Init PROVE SubscriptionInv
    OBVIOUS
  <1>1. now = 0 /\ available = TRUE /\ credited = 0 /\ refunded = 0
        /\ jobs = [j \in Jobs |-> NoJob] /\ pausedUntil = 0
    BY DEF Init
  <1>2. PICK plan \in Plans, amount \in 0..MaxFunds, auto \in BOOLEAN :
               /\ sub = Started(plan, 0, 0, amount, auto)
               /\ funded = amount
               /\ openCalls = plan.calls
    BY DEF Init
  <1>3. /\ sub \in Subscription
        /\ sub.plan = plan /\ sub.end = now + plan.period
        /\ sub.reserve = amount /\ sub.calls = plan.calls
        /\ sub.compCalls = 0
        /\ plan.calls \in Nat /\ plan.period \in Nat
    BY <1>1, <1>2, StartedProperties
  <1>4. jobs \in [Jobs -> Coverage]
    BY <1>1 DEF Coverage, NoJob
  <1>5. JobsWithCall(jobs) = {}
    BY <1>1 DEF JobsWithCall, NoJob
  <1>6. Cardinality(JobsWithCall(jobs)) = 0
    BY <1>5, FS_EmptySet
  <1> QED
    BY <1>1, <1>2, <1>3, <1>4, <1>6
    DEF SubscriptionInv, TypeOK, ReserveConserved, NotBilledAhead, CallsAccounted,
        PauseIsOver

\* No transaction bills across a pause: a resumption moves the period end to now.
LEMMA PauseStaysOver ==
    ASSUME SubscriptionInv, [Next]_vars
    PROVE  pausedUntil' \in Nat /\ PauseIsOver'
  <1>1. /\ now \in Nat /\ available \in BOOLEAN /\ sub \in Subscription
        /\ pausedUntil \in Nat /\ pausedUntil <= now
        /\ sub.status \in {"Active", "PastDue"} => pausedUntil <= sub.end
        /\ jobs \in [Jobs -> Coverage]
    BY DEF SubscriptionInv, TypeOK, PauseIsOver
  <1>2. CASE Tick
    <2>1. CASE sub.status = "Paused"
      BY <1>1, <1>2, <2>1 DEF Tick, PauseIsOver
    <2>2. CASE sub.status # "Paused"
      BY <1>1, <1>2, <2>2 DEF Tick, PauseIsOver
    <2> QED BY <2>1, <2>2
  <1> SUFFICES ASSUME ~Tick
               PROVE  pausedUntil' \in Nat /\ PauseIsOver'
    BY <1>2
  <1>3. now' = now /\ pausedUntil' = pausedUntil
    BY DEF Next, ServiceChanges, Restart, TopUp, Cancel, Advance, Terminate,
           Invoke, JobSucceeds, JobFails, vars
  <1> SUFFICES sub'.status \in {"Active", "PastDue"} => pausedUntil <= sub'.end
    BY <1>1, <1>3 DEF PauseIsOver
  <1>4. CASE sub' = sub
    BY <1>1, <1>4
  <1>5. CASE Restart
    <2>1. PICK plan \in Plans, amount \in Int, auto \in BOOLEAN :
                 sub' = Started(plan, sub.compCalls, sub.compCredits, amount, auto)
      BY <1>5 DEF Restart
    <2>2. plan \in PlanType
      OBVIOUS
    <2>3. sub'.end = now + plan.period /\ plan.period \in Nat
      BY <2>1, <2>2 DEF Started, PlanType
    <2> QED BY <1>1, <2>3
  <1>6. CASE TopUp
    BY <1>1, <1>6 DEF TopUp, Subscription
  <1>7. CASE Cancel
    BY <1>1, <1>7 DEF Cancel, Subscription
  <1>8. CASE Terminate
    BY <1>1, <1>8 DEF Terminate, Terminated, Subscription
  <1>9. CASE Invoke
    BY <1>1, <1>9, ConsumedProperties DEF Invoke
  <1>10. CASE JobFails
    <2>1. PICK j \in Jobs : sub' = Restored(sub, jobs[j])
      BY <1>10 DEF JobFails
    <2>2. jobs[j] \in Coverage
      BY <1>1
    <2> QED BY <1>1, <2>1, <2>2, RestoredProperties
  <1>11. CASE Advance
    <2>1. sub' = Advanced(sub)
      BY <1>11 DEF Advance
    <2>2. CASE Ends(sub)
      <3>1. sub' = [sub EXCEPT !.status = "Cancelled"]
        BY <2>1, <2>2 DEF Advanced
      <3> QED BY <1>1, <3>1 DEF Subscription
    <2>3. CASE Pauses(sub)
      <3>1. sub' = [sub EXCEPT !.status = "Paused"]
        BY <2>1, <2>3 DEF Advanced, Pauses
      <3> QED BY <1>1, <3>1 DEF Subscription
    <2>4. CASE Renews(sub)
      <3>1. sub' = Renewed(sub)
        BY <2>1, <2>4 DEF Advanced, Renews, Pauses
      <3>2. sub'.end = RenewedEnd(sub)
        BY <1>1, <3>1, RenewedFields
      <3>3. pausedUntil <= Anchor(sub) /\ Anchor(sub) \in Nat
        BY <1>1, <2>4, PlanTypes DEF Anchor, Renews, Ends, Statuses
      <3>4. RenewedEnd(sub) >= Anchor(sub) /\ RenewedEnd(sub) \in Nat
        BY <1>1, <2>4, Renewal
      <3> QED BY <1>1, <3>2, <3>3, <3>4
    <2>5. CASE ~Ends(sub) /\ ~Pauses(sub) /\ ~Renews(sub)
      BY <1>4, <2>1, <2>5 DEF Advanced
    <2> QED BY <2>2, <2>3, <2>4, <2>5
  <1>12. CASE ServiceChanges \/ JobSucceeds \/ UNCHANGED vars
    BY <1>4, <1>12 DEF ServiceChanges, JobSucceeds, vars
  <1> QED
    BY <1>5, <1>6, <1>7, <1>8, <1>9, <1>10, <1>11, <1>12 DEF Next

\* Every transaction keeps the invariant.
LEMMA NextPreserves == SubscriptionInv /\ [Next]_vars => SubscriptionInv'
  <1> SUFFICES ASSUME SubscriptionInv, [Next]_vars PROVE SubscriptionInv'
    OBVIOUS
  <1> USE DEF moneyVars
  <1>1. /\ now \in Nat /\ available \in BOOLEAN
        /\ sub \in Subscription /\ jobs \in [Jobs -> Coverage]
        /\ funded \in Nat /\ credited \in Nat /\ refunded \in Nat
        /\ funded = sub.reserve + credited + refunded
        /\ sub.end <= now + sub.plan.period
        /\ openCalls = sub.calls + sub.compCalls + Cardinality(JobsWithCall(jobs))
    BY DEF SubscriptionInv, TypeOK, ReserveConserved, NotBilledAhead, CallsAccounted
  <1>0. pausedUntil' \in Nat /\ PauseIsOver'
    BY PauseStaysOver
  <1>2. /\ sub.reserve \in Nat /\ sub.calls \in Nat /\ sub.compCalls \in Nat
        /\ sub.compCredits \in Nat /\ sub.plan \in Plans
        /\ sub.end \in Nat /\ sub.plan.period \in Nat
    BY <1>1, PlanTypes
  <1>3. Cardinality(JobsWithCall(jobs)) \in Nat
    <2>1. IsFiniteSet(JobsWithCall(jobs))
      BY FS_Subset DEF JobsWithCall
    <2> QED BY <2>1, FS_CardinalityType
  <1> SUFFICES
        /\ now' \in Nat /\ available' \in BOOLEAN
        /\ sub' \in Subscription /\ jobs' \in [Jobs -> Coverage]
        /\ funded' \in Nat /\ credited' \in Nat /\ refunded' \in Nat
        /\ funded' = sub'.reserve + credited' + refunded'
        /\ sub'.end <= now' + sub'.plan.period
        /\ openCalls' = sub'.calls + sub'.compCalls
                        + Cardinality(JobsWithCall(jobs'))
    BY <1>0 DEF SubscriptionInv, TypeOK, ReserveConserved, NotBilledAhead,
           CallsAccounted, JobsWithCall
  <1>4. CASE Tick
    BY <1>1, <1>2, <1>4 DEF Tick
  <1>5. CASE ServiceChanges
    BY <1>1, <1>2, <1>5 DEF ServiceChanges
  <1>6. CASE Restart
    <2>1. PICK plan \in Plans, amount \in 0..(MaxFunds - funded), auto \in BOOLEAN :
                 /\ sub' = Started(plan, sub.compCalls, sub.compCredits, amount, auto)
                 /\ funded' = funded + amount
                 /\ openCalls' = openCalls - sub.calls + plan.calls
      BY <1>6 DEF Restart
    <2>2. amount \in Nat
      BY <1>1
    <2>3. /\ sub' \in Subscription
          /\ sub'.plan = plan /\ sub'.end = now + plan.period
          /\ sub'.reserve = amount /\ sub'.calls = plan.calls
          /\ sub'.compCalls = sub.compCalls
          /\ plan.calls \in Nat /\ plan.period \in Nat
      <3>1. now \in Nat /\ sub.compCalls \in Nat /\ sub.compCredits \in Nat
        BY <1>1, <1>2
      <3> DEFINE s == Started(plan, sub.compCalls, sub.compCredits, amount, auto)
      <3>2. /\ s \in Subscription
            /\ s.plan = plan /\ s.end = now + plan.period
            /\ s.reserve = amount /\ s.calls = plan.calls
            /\ s.compCalls = sub.compCalls
            /\ plan.calls \in Nat /\ plan.period \in Nat
        BY <2>2, <3>1, StartedProperties
      <3>3. sub' = s
        BY <2>1
      <3> QED BY <3>2, <3>3
    <2>4. /\ now' = now /\ available' = available /\ jobs' = jobs
          /\ credited' = credited /\ refunded' = refunded + sub.reserve
      BY <1>6 DEF Restart
    <2> QED
      BY <1>1, <1>2, <1>3, <2>1, <2>2, <2>3, <2>4
  <1>7. CASE TopUp
    <2>1. PICK amount \in 1..(MaxFunds - funded) :
                 /\ sub' = [sub EXCEPT !.reserve = @ + amount]
                 /\ funded' = funded + amount
      BY <1>7 DEF TopUp
    <2>2. amount \in Nat /\ sub.reserve + amount \in Nat
      BY <1>1, <1>2
    <2>3. /\ sub' \in Subscription
          /\ sub'.plan = sub.plan /\ sub'.end = sub.end
          /\ sub'.reserve = sub.reserve + amount
          /\ sub'.calls = sub.calls /\ sub'.compCalls = sub.compCalls
      BY <1>1, <2>1, <2>2 DEF Subscription
    <2>4. /\ now' = now /\ available' = available /\ jobs' = jobs
          /\ credited' = credited /\ refunded' = refunded
          /\ openCalls' = openCalls
      BY <1>7 DEF TopUp
    <2> QED
      BY <1>1, <1>2, <2>1, <2>2, <2>3, <2>4
  <1>8. CASE Cancel
    <2>1. sub' = [sub EXCEPT !.status = "CancelRequested", !.autoRenew = FALSE]
      BY <1>8 DEF Cancel
    <2>2. /\ sub' \in Subscription
          /\ sub'.plan = sub.plan /\ sub'.end = sub.end
          /\ sub'.reserve = sub.reserve
          /\ sub'.calls = sub.calls /\ sub'.compCalls = sub.compCalls
      BY <1>1, <2>1 DEF Subscription, Statuses
    <2> QED
      BY <1>1, <1>8, <2>2 DEF Cancel
  <1>9. CASE Advance
    <2>1. /\ sub' = Advanced(sub)
          /\ credited' = credited + (IF Renews(sub) THEN RenewalCost(sub) ELSE 0)
          /\ openCalls' = openCalls - sub.calls + sub'.calls
          /\ now' = now /\ available' = available /\ jobs' = jobs
          /\ funded' = funded /\ refunded' = refunded
      BY <1>9 DEF Advance
    <2>2. /\ sub' \in Subscription /\ sub'.plan = sub.plan
          /\ sub'.end <= now + sub.plan.period
          /\ sub'.compCalls = sub.compCalls
          /\ sub.reserve = sub'.reserve
                           + (IF Renews(sub) THEN RenewalCost(sub) ELSE 0)
          /\ Renews(sub) => RenewalCost(sub) \in Nat
      BY <1>1, <2>1, AdvancedProperties
    <2> DEFINE cost == IF Renews(sub) THEN RenewalCost(sub) ELSE 0
    <2>3. cost \in Nat
      BY <2>2
    <2>4. sub'.reserve \in Nat /\ sub'.calls \in Nat
      BY <2>2 DEF Subscription
    <2>5. credited' = credited + cost /\ sub.reserve = sub'.reserve + cost
      BY <2>1, <2>2
    <2> HIDE DEF cost
    <2> QED
      BY <1>1, <1>2, <1>3, <2>1, <2>2, <2>3, <2>4, <2>5
  <1>10. CASE Terminate
    <2>1. /\ sub' = Terminated(sub)
          /\ refunded' = refunded + sub.reserve
          /\ openCalls' = openCalls - sub.compCalls
          /\ now' = now /\ available' = available /\ jobs' = jobs
          /\ funded' = funded /\ credited' = credited
      BY <1>10 DEF Terminate
    <2>2. /\ sub' \in Subscription
          /\ sub'.plan = sub.plan /\ sub'.end = sub.end
          /\ sub'.reserve = 0 /\ sub'.calls = sub.calls /\ sub'.compCalls = 0
      BY <1>1, <2>1 DEF Terminated, Subscription, Statuses
    <2> QED
      BY <1>1, <1>2, <1>3, <2>1, <2>2
  <1>11. CASE Invoke
    <2> DEFINE call == IF CoveredByCall(sub) THEN 1 ELSE 0
               job == [covered |-> CoveredAmount(sub), usedCall |-> CoveredByCall(sub)]
    <2>1. /\ sub' = Consumed(sub)
          /\ now' = now /\ available' = available
          /\ funded' = funded /\ credited' = credited /\ refunded' = refunded
      BY <1>11 DEF Invoke
    <2>2. /\ sub' \in Subscription
          /\ sub'.plan = sub.plan /\ sub'.end = sub.end
          /\ sub'.reserve = sub.reserve
          /\ sub.calls + sub.compCalls = sub'.calls + sub'.compCalls + call
          /\ CoveredAmount(sub) \in Nat /\ CoveredByCall(sub) \in BOOLEAN
      BY <1>1, <2>1, ConsumedProperties
    <2>3. job \in Coverage /\ job.usedCall = CoveredByCall(sub) /\ call \in Nat
      BY <2>2 DEF Coverage
    <2>4. sub'.calls \in Nat /\ sub'.compCalls \in Nat
      BY <2>2 DEF Subscription
    <2>5. CASE openCalls' = openCalls - call /\ jobs' = jobs
      <3> HIDE DEF call
      <3> QED BY <1>1, <1>2, <1>3, <2>1, <2>2, <2>3, <2>4, <2>5
    <2>6. CASE /\ openCalls' = openCalls
               /\ \E j \in Jobs : jobs[j] = NoJob /\ jobs' = [jobs EXCEPT ![j] = job]
      <3>1. PICK j \in Jobs : jobs[j] = NoJob /\ jobs' = [jobs EXCEPT ![j] = job]
        BY <2>6
      <3>2. ~jobs[j].usedCall
        BY <3>1 DEF NoJob
      <3> HIDE DEF job
      <3>3. jobs' \in [Jobs -> Coverage]
        BY <1>1, <2>3, <3>1
      <3>4. Cardinality(JobsWithCall(jobs')) = Cardinality(JobsWithCall(jobs)) + call
        <4>1. Cardinality(JobsWithCall([jobs EXCEPT ![j] = job]))
                = Cardinality(JobsWithCall(jobs))
                  + (IF job.usedCall THEN 1 ELSE 0)
                  - (IF jobs[j].usedCall THEN 1 ELSE 0)
          BY <1>1, <2>3, <3>2, JobCount
        <4>2. JobsWithCall(jobs') = JobsWithCall([jobs EXCEPT ![j] = job])
          BY <3>1
        <4>3. (IF jobs[j].usedCall THEN 1 ELSE 0) = 0
          BY <3>2
        <4>4. (IF job.usedCall THEN 1 ELSE 0) = call
          BY <2>3
        <4> HIDE DEF call
        <4> QED BY <1>3, <2>3, <4>1, <4>2, <4>3, <4>4
      <3> HIDE DEF call
      <3> QED BY <1>1, <1>2, <1>3, <2>1, <2>2, <2>3, <2>4, <2>6, <3>3, <3>4
    <2> QED
      BY <1>11, <2>5, <2>6 DEF Invoke
  <1>12. CASE JobSucceeds
    <2>1. PICK j \in Jobs :
                 /\ jobs' = [jobs EXCEPT ![j] = NoJob]
                 /\ openCalls' = openCalls - IF jobs[j].usedCall THEN 1 ELSE 0
      BY <1>12 DEF JobSucceeds
    <2>2. NoJob \in Coverage /\ ~NoJob.usedCall
      BY DEF NoJob, Coverage
    <2>3. jobs' \in [Jobs -> Coverage]
      BY <1>1, <2>1, <2>2
    <2>4. Cardinality(JobsWithCall(jobs'))
            = Cardinality(JobsWithCall(jobs)) - IF jobs[j].usedCall THEN 1 ELSE 0
      BY <1>1, <2>1, <2>2, JobRemoved
    <2>5. /\ now' = now /\ available' = available /\ sub' = sub
          /\ funded' = funded /\ credited' = credited /\ refunded' = refunded
      BY <1>12 DEF JobSucceeds
    <2> QED
      BY <1>1, <1>2, <1>3, <2>1, <2>3, <2>4, <2>5
  <1>13. CASE JobFails
    <2>1. PICK j \in Jobs : /\ jobs' = [jobs EXCEPT ![j] = NoJob]
                            /\ sub' = Restored(sub, jobs[j])
      BY <1>13 DEF JobFails
    <2>2. NoJob \in Coverage /\ ~NoJob.usedCall
      BY DEF NoJob, Coverage
    <2>3. jobs' \in [Jobs -> Coverage] /\ jobs[j] \in Coverage
      BY <1>1, <2>1, <2>2
    <2> DEFINE call == IF jobs[j].usedCall THEN 1 ELSE 0
    <2>4. Cardinality(JobsWithCall(jobs')) = Cardinality(JobsWithCall(jobs)) - call
      BY <1>1, <2>1, <2>2, JobRemoved
    <2>5. /\ sub' \in Subscription
          /\ sub'.plan = sub.plan /\ sub'.end = sub.end
          /\ sub'.reserve = sub.reserve
          /\ sub'.calls = sub.calls /\ sub'.compCalls = sub.compCalls + call
      BY <1>1, <2>1, <2>3, RestoredProperties
    <2>6. /\ now' = now /\ available' = available /\ openCalls' = openCalls
          /\ funded' = funded /\ credited' = credited /\ refunded' = refunded
      BY <1>13 DEF JobFails
    <2>7. call \in Nat
      OBVIOUS
    <2> HIDE DEF call
    <2> QED
      BY <1>1, <1>2, <1>3, <2>3, <2>4, <2>5, <2>6, <2>7
  <1>14. CASE UNCHANGED vars
    BY <1>1, <1>14 DEF vars
  <1> QED
    BY <1>4, <1>5, <1>6, <1>7, <1>8, <1>9, <1>10, <1>11, <1>12, <1>13, <1>14
    DEF Next

\* The invariant holds in every reachable state, whatever the plans are.
LEMMA InvariantHolds == Spec => []SubscriptionInv
  BY InitEstablishes, NextPreserves, PTL DEF Spec

\* The record of a subscription keeps its types; in particular no amount that
\* advance_periods, consume_allowance or a shutdown subtracts is missing.
THEOREM TypeCorrect == Spec => []TypeOK
  <1>1. SubscriptionInv => TypeOK
    BY DEF SubscriptionInv
  <1> QED
    BY <1>1, InvariantHolds, PTL

\* Whatever is paid into the reserve is there, credited, or paid back, for
\* every price, period, gap between calls and order of transactions.
THEOREM ReserveIsConserved == Spec => []ReserveConserved
  <1>1. SubscriptionInv => ReserveConserved
    BY DEF SubscriptionInv
  <1> QED
    BY <1>1, InvariantHolds, PTL

\* The catch-up of advance_periods never pays further than the period that is
\* running now.
THEOREM NeverBilledAhead == Spec => []NotBilledAhead
  <1>1. SubscriptionInv => NotBilledAhead
    BY DEF SubscriptionInv
  <1> QED
    BY <1>1, InvariantHolds, PTL

\* Calls are neither made out of nothing nor lost, whatever fails and renews.
THEOREM CallsAreAccounted == Spec => []CallsAccounted
  <1>1. SubscriptionInv => CallsAccounted
    BY DEF SubscriptionInv
  <1> QED
    BY <1>1, InvariantHolds, PTL
-----------------------------------------------------------------------------
(* advance_periods against billing one period at a time. *)

\* A division cut off by one more factor goes past what was divided.
LEMMA ProductPast ==
    ASSUME NEW a \in Nat, NEW b \in Nat \ {0}, NEW n \in Nat, n > a \div b
    PROVE  a < b * n
  <1>1. a \div b \in Nat /\ a < b * (a \div b) + b
    BY Division
  <1>2. b * (a \div b + 1) = b * (a \div b) + b
    BY <1>1, ProductStep
  <1>3. b * (a \div b + 1) <= b * n /\ b * n \in Nat /\ b * (a \div b + 1) \in Nat
    BY <1>1, ProductMonotone
  <1> DEFINE q == a \div b
             x == b * (q + 1)
             y == b * n
  <1>4. a < x
    BY <1>1, <1>2
  <1>5. x <= y /\ x \in Nat /\ y \in Nat
    BY <1>3
  <1> HIDE DEF x, y
  <1>6. a < y
    BY <1>4, <1>5
  <1> QED
    BY <1>6 DEF y

\* And a smaller factor does not.
LEMMA ProductWithin ==
    ASSUME NEW a \in Nat, NEW b \in Nat \ {0}, NEW n \in Nat, n <= a \div b
    PROVE  b * n <= a
  <1> DEFINE q == a \div b
             x == b * q
             y == b * n
  <1>1. q \in Nat /\ x <= a
    BY Division
  <1> HIDE DEF q
  <1>2. x \in Nat /\ y \in Nat /\ y <= x
    BY <1>1, ProductMonotone DEF q
  <1> HIDE DEF x, y
  <1>3. y <= a
    BY <1>1, <1>2
  <1> QED
    BY <1>3 DEF y

\* advance_periods stops where billing one period at a time stops: every period in
\* front of AffordablePeriods is due and paid for, and the next one is not.  It has
\* caught up exactly if the paid time reaches beyond now.
LEMMA RenewsStepwise ==
    ASSUME NEW s \in Subscription, now \in Nat, Renews(s), s.plan.period > 0
    PROVE  /\ Stepwise(s) = AffordablePeriods(s)
           /\ AffordablePeriods(s) = PeriodsDue(s) <=> now < RenewedEnd(s)
  <1> DEFINE price == s.plan.price
             period == s.plan.period
             anchor == Anchor(s)
             gap == now - anchor
             last == gap \div period
             paid == s.reserve \div price
             n == AffordablePeriods(s)
             renewable(i) == anchor + i * period <= now /\ s.reserve >= (i + 1) * price
  <1>1. price \in Nat /\ period \in Nat \ {0} /\ s.reserve \in Nat
    BY PlanTypes
  <1>2. anchor \in Nat /\ gap \in Nat /\ anchor + gap = now
    BY PlanTypes DEF Anchor, Renews
  <1>3. last \in Nat /\ last <= gap
    <2>1. last \in Nat /\ period * last <= gap
      BY <1>1, <1>2, Division
    <2>2. last * 1 <= last * period /\ last * period \in Nat
      <3> HIDE DEF last, period
      <3> QED BY <1>1, <2>1, ProductMonotone
    <2> HIDE DEF last, period, gap
    <2> QED BY <1>1, <1>2, <2>1, <2>2
  <1>4. PeriodsDue(s) = last + 1
    BY <1>1 DEF PeriodsDue, PeriodsPassed
  <1>5. /\ n \in Nat /\ n <= last + 1
        /\ price # 0 => n <= paid /\ (n = last + 1 \/ n = paid)
        /\ price = 0 => n = last + 1
    <2>1. CASE price = 0
      <3>1. n = last + 1
        BY <2>1, <1>4 DEF AffordablePeriods
      <3> HIDE DEF n, last, price
      <3> QED BY <2>1, <3>1, <1>3
    <2>2. CASE price # 0
      <3>1. n = Least(last + 1, paid)
        BY <2>2, <1>4 DEF AffordablePeriods
      <3>2. paid \in Nat
        BY <1>1, <2>2, Division
      <3> HIDE DEF n, last, price, paid
      <3> QED BY <2>2, <3>1, <3>2, <1>3 DEF Least
    <2> QED BY <2>1, <2>2
  <1>6. ASSUME NEW i \in Nat
        PROVE  anchor + i * period <= now <=> i <= last
    <2>1. i <= last => period * i <= gap
      BY <1>1, <1>2, ProductWithin
    <2>2. i > last => gap < period * i
      BY <1>1, <1>2, ProductPast
    <2>3. period * i \in Nat /\ period * i = i * period
      <3> HIDE DEF period
      <3> QED BY <1>1, ProductMonotone
    <2> HIDE DEF last, gap, period, anchor
    <2> QED BY <2>1, <2>2, <2>3, <1>1, <1>2, <1>3
  <1>7. ASSUME NEW i \in Nat
        PROVE  s.reserve >= (i + 1) * price <=> (price # 0 => i < paid)
    <2>1. CASE price = 0
      <3> HIDE DEF price
      <3> QED BY <1>1, <2>1
    <2>2. CASE price # 0
      <3>1. paid \in Nat
        BY <1>1, <2>2, Division
      <3>2. i + 1 <= paid => price * (i + 1) <= s.reserve
        BY <1>1, <2>2, ProductWithin
      <3>3. i + 1 > paid => s.reserve < price * (i + 1)
        BY <1>1, <2>2, ProductPast
      <3>4. price * (i + 1) \in Nat /\ price * (i + 1) = (i + 1) * price
        <4> HIDE DEF price
        <4> QED BY <1>1, ProductMonotone
      <3> HIDE DEF paid, price
      <3> QED BY <2>2, <3>1, <3>2, <3>3, <3>4, <1>1
    <2> QED BY <2>1, <2>2
  <1>8. ASSUME NEW i \in Nat
        PROVE  renewable(i) <=> i < n
    <2>1. renewable(i) <=> i <= last /\ (price # 0 => i < paid)
      BY <1>6, <1>7
    <2>2. price # 0 => paid \in Nat
      BY <1>1, Division
    <2> HIDE DEF renewable, last, paid, n, price
    <2> QED BY <2>1, <2>2, <1>3, <1>5
  <1>9. n \in 0..(now + 1)
    <2> HIDE DEF n, last, gap, anchor
    <2> QED BY <1>2, <1>3, <1>5
  <1>10. \A k \in 0..(now + 1) :
            (~renewable(k) /\ \A i \in 0..(k - 1) : renewable(i)) <=> k = n
    <2> SUFFICES ASSUME NEW k \in 0..(now + 1)
                 PROVE  (~renewable(k) /\ \A i \in 0..(k - 1) : renewable(i)) <=> k = n
      OBVIOUS
    <2>1. k \in Nat /\ n \in Nat /\ 0..(k - 1) \subseteq Nat
      BY <1>5
    <2>2. ASSUME k = n
          PROVE  ~renewable(k) /\ \A i \in 0..(k - 1) : renewable(i)
      <3> HIDE DEF renewable, n
      <3> QED BY <2>1, <2>2, <1>8
    <2>3. ASSUME ~renewable(k), \A i \in 0..(k - 1) : renewable(i)
          PROVE  k = n
      <3> HIDE DEF renewable, n
      <3>1. ~(k < n)
        BY <2>1, <2>3, <1>8
      <3>2. ~(n < k)
        BY <2>1, <2>3, <1>8
      <3> QED BY <2>1, <3>1, <3>2
    <2> QED BY <2>2, <2>3
  <1>11. Stepwise(s) = n
    <2>1. Stepwise(s) = CHOOSE k \in 0..(now + 1) :
                            ~renewable(k) /\ \A i \in 0..(k - 1) : renewable(i)
      BY DEF Stepwise
    <2> HIDE DEF renewable, n
    <2> QED BY <2>1, <1>9, <1>10
  <1>12. n = last + 1 <=> now < anchor + n * period
    <2>1. anchor + n * period <= now <=> n <= last
      BY <1>5, <1>6
    <2>2. n * period \in Nat
      <3> HIDE DEF n, period
      <3> QED BY <1>1, <1>5, ProductMonotone
    <2> HIDE DEF n, last, period, anchor
    <2> QED BY <2>1, <2>2, <1>2, <1>3, <1>5
  <1>13. RenewedEnd(s) = anchor + n * period
    <2>1. RenewedEnd(s) = anchor + period * n
      BY DEF RenewedEnd
    <2>2. period * n = n * period
      <3> HIDE DEF n, period
      <3> QED BY <1>1, <1>5
    <2> QED BY <2>1, <2>2
  <1> QED
    BY <1>4, <1>11, <1>12, <1>13

\* Only advance_periods credits the provider, and only when it renews.
LEMMA OnlyRenewalsCredit ==
    ASSUME SubscriptionInv, [Next]_vars, credited' # credited
    PROVE  /\ Renews(sub) /\ sub' = Renewed(sub)
           /\ credited' = credited + RenewalCost(sub)
  <1>1. credited \in Nat
    BY DEF SubscriptionInv, TypeOK
  <1>2. CASE Advance
    <2>1. Renews(sub)
      BY <1>1, <1>2 DEF Advance
    <2>2. ~Ends(sub) /\ ~Pauses(sub)
      BY <2>1 DEF Renews, Ends, Pauses
    <2> QED
      BY <1>2, <2>1, <2>2 DEF Advance, Advanced
  <1>3. CASE Tick \/ ServiceChanges \/ Restart \/ TopUp \/ Cancel \/ Terminate
    BY <1>3 DEF Tick, ServiceChanges, Restart, TopUp, Cancel, Terminate, moneyVars
  <1>4. CASE Invoke \/ JobSucceeds \/ JobFails
    BY <1>4 DEF Invoke, JobSucceeds, JobFails, moneyVars
  <1>5. CASE UNCHANGED vars
    BY <1>5 DEF vars
  <1> QED
    BY <1>2, <1>3, <1>4, <1>5 DEF Next

\* The closed form of advance_periods bills what billing one period at a time
\* would, for every price, period, reserve and gap between two calls; the
\* subscription is active afterwards exactly if it is paid for now.
THEOREM RenewalsAreStepwise == Spec => BillsPeriodByPeriod
  <1>1. ASSUME SubscriptionInv, [Next]_vars, credited' # credited,
               sub.plan.period > 0
        PROVE  /\ credited' = credited + Stepwise(sub) * sub.plan.price
               /\ sub'.end = Anchor(sub) + Stepwise(sub) * sub.plan.period
               /\ sub'.status = "Active" <=> now < sub'.end
    <2> DEFINE n == AffordablePeriods(sub)
               price == sub.plan.price
               period == sub.plan.period
    <2>1. /\ Renews(sub) /\ sub' = Renewed(sub)
          /\ credited' = credited + RenewalCost(sub)
      BY <1>1, OnlyRenewalsCredit
    <2>2. now \in Nat /\ sub \in Subscription
      BY <1>1 DEF SubscriptionInv, TypeOK
    <2>3. Stepwise(sub) = n /\ (n = PeriodsDue(sub) <=> now < RenewedEnd(sub))
      BY <1>1, <2>1, <2>2, RenewsStepwise
    <2>4. n \in Nat /\ price \in Nat /\ period \in Nat
      BY <2>1, <2>2, Renewal, PlanTypes
    <2>5. RenewalCost(sub) = price * n /\ RenewedEnd(sub) = Anchor(sub) + period * n
      BY DEF RenewalCost, RenewedEnd
    <2>6. price * n = n * price /\ period * n = n * period
      <3> HIDE DEF n, price, period
      <3> QED BY <2>4
    <2>7. /\ sub'.end = RenewedEnd(sub)
          /\ sub'.status = "Active" <=> n = PeriodsDue(sub)
      BY <2>1, <2>2, RenewedFields
    <2> QED
      BY <2>1, <2>3, <2>5, <2>6, <2>7
  <1>2. SubscriptionInv /\ [Next]_vars =>
          [ credited' # credited /\ sub.plan.period > 0 =>
              /\ credited' = credited + Stepwise(sub) * sub.plan.price
              /\ sub'.end = Anchor(sub) + Stepwise(sub) * sub.plan.period
              /\ sub'.status = "Active" <=> now < sub'.end ]_vars
    BY <1>1
  <1> QED
    BY <1>2, InvariantHolds, PTL DEF Spec, BillsPeriodByPeriod

\* A price is contained in so many times itself so many times.
LEMMA DivisionExact ==
    ASSUME NEW n \in Nat, NEW b \in Nat \ {0}
    PROVE  (b * n) \div b = n
  <1> DEFINE a == b * n
             q == a \div b
  <1>1. a \in Nat
    BY ProductMonotone
  <1>2. q \in Nat
    <2> HIDE DEF a
    <2> QED BY <1>1, Division
  <1>3. ~(n > q)
    <2>1. n > q => a < b * n
      <3> HIDE DEF a
      <3> QED BY <1>1, ProductPast
    <2>2. ~(a < b * n)
      <3>1. a = b * n
        OBVIOUS
      <3> HIDE DEF a
      <3> QED BY <1>1, <3>1
    <2> QED BY <2>1, <2>2
  <1>4. ~(n < q)
    <2>1. n < q => b * (n + 1) <= a
      <3> HIDE DEF a
      <3> QED BY <1>1, <1>2, ProductWithin
    <2>2. b * (n + 1) = a + b
      BY ProductStep
    <2> HIDE DEF a
    <2> QED BY <1>1, <2>1, <2>2
  <1> HIDE DEF q
  <1>5. q = n
    BY <1>2, <1>3, <1>4
  <1> QED BY <1>5 DEF q

\* The time of a pause is never billed, neither by the call of advance_periods
\* that ends the pause nor by a later one, whatever was missed meanwhile.
THEOREM PausedTimeIsFree == Spec => NoBillingOfPause
  <1>1. ASSUME SubscriptionInv, [Next]_vars, credited' # credited
        PROVE  BilledFrom >= pausedUntil
    <2> DEFINE n == AffordablePeriods(sub)
               period == sub.plan.period
               price == sub.plan.price
    <2>1. /\ Renews(sub) /\ sub' = Renewed(sub)
          /\ credited' = credited + RenewalCost(sub)
      BY <1>1, OnlyRenewalsCredit
    <2>2. /\ now \in Nat /\ sub \in Subscription /\ credited \in Nat
          /\ pausedUntil \in Nat /\ pausedUntil <= now
          /\ sub.status \in {"Active", "PastDue"} => pausedUntil <= sub.end
      BY <1>1 DEF SubscriptionInv, TypeOK, PauseIsOver
    <2>3. n \in Nat /\ period \in Nat /\ price \in Nat /\ RenewalCost(sub) \in Nat
      BY <2>1, <2>2, Renewal, PlanTypes
    <2>4. RenewalCost(sub) = price * n /\ RenewedEnd(sub) = Anchor(sub) + period * n
      BY DEF RenewalCost, RenewedEnd
    <2>5. credited' - credited = price * n /\ price # 0
      <3>1. RenewalCost(sub) # 0
        BY <1>1, <2>1, <2>2
      <3>2. price = 0 => price * n = 0
        <4> HIDE DEF n, price
        <4> QED BY <2>3
      <3>3. credited' - credited = RenewalCost(sub)
        BY <2>1, <2>2, <2>3
      <3> QED BY <2>4, <3>1, <3>2, <3>3
    <2>6. (credited' - credited) \div price = n
      <3>1. (price * n) \div price = n
        <4> HIDE DEF n, price
        <4> QED BY <2>3, <2>5, DivisionExact
      <3> QED BY <2>5, <3>1
    <2>7. sub'.end = RenewedEnd(sub)
      BY <2>1, <2>2, RenewedFields
    <2>8. pausedUntil <= Anchor(sub) /\ Anchor(sub) \in Nat
      BY <2>1, <2>2, PlanTypes DEF Anchor, Renews, Ends, Statuses
    <2>9. period * n \in Nat
      <3> HIDE DEF n, period
      <3> QED BY <2>3, ProductMonotone
    <2>10. BilledFrom = (Anchor(sub) + period * n) - period * n
      BY <2>4, <2>6, <2>7 DEF BilledFrom
    <2> DEFINE x == period * n
    <2> HIDE DEF x
    <2>11. BilledFrom = (Anchor(sub) + x) - x /\ x \in Nat
      BY <2>9, <2>10 DEF x
    <2> QED BY <2>2, <2>8, <2>11
  <1>2. SubscriptionInv /\ [Next]_vars =>
          [credited' # credited => BilledFrom >= pausedUntil]_vars
    BY <1>1
  <1> QED
    BY <1>2, InvariantHolds, PTL DEF Spec, NoBillingOfPause

=============================================================================

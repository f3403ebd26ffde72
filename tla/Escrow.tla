------------------------------- MODULE Escrow -------------------------------
(***************************************************************************)
(* Money in escrow for one deal: an agreement with milestones, or an       *)
(* escrowed tool invocation.  The rows and their methods are those of      *)
(* agreement.rs and tool.rs.  The chain that applies the transactions is   *)
(* not part of the repository: the actions follow the documentation of the *)
(* payloads and of the rows, and take every state change that a method     *)
(* makes from the method.  Transactions arrive in any order and at any     *)
(* time, and a payment leaves the pot in the step that records it.         *)
(***************************************************************************)
EXTENDS Agreement, ToolJob

CONSTANTS
    Offers,        \* creations that are submitted, valid or not
    Arbitrators,   \* active registered arbitrators
    FeeBps,        \* their fee rate
    Verdicts,      \* payout lists of rulings
    EffectLists,   \* reputation effects of rulings
    Links,         \* links that may be committed: <<address, root>>
    Plans,         \* milestone plans of tool invocations
    Price,         \* price of a tool invocation
    Sla,           \* time for a result
    Window,        \* time to challenge a result, and to arbitrate
    MaxTime        \* how far time passes

ASSUME EscrowAssumption ==
    /\ Offers \subseteq CreateData
    /\ Arbitrators \subseteq Address
    /\ FeeBps \in 0..BasisPoints
    /\ Verdicts \subseteq Seq(Share)
    /\ EffectLists \subseteq Seq(Effect)
    /\ Links \subseteq Address \X Address
    /\ Plans \subseteq Seq(Nat)
    /\ {Price, Sla, Window, MaxTime} \subseteq Nat
    /\ MaxTime >= 1

VARIABLES
    now,        \* time of the block
    agreement,  \* the Agreement row
    job,        \* the ToolJob row
    pot,        \* money held for the deal
    earned,     \* paid to each address by cooperative releases
    release,    \* the last payment: who ordered it, who was paid by whom
    vetted,     \* history: the links under which the deal and its arbitrator
                \* were checked
    rulings,    \* the rulings on the agreement so far
    legacy      \* the first ruling is recorded by an earlier version

agreementVars == <<agreement, earned, rulings, legacy>>
vars == <<now, agreement, job, pot, earned, release, rulings, legacy, entity,
          vetted>>

NoRow == [status |-> "None"]
ClosedRow == [status |-> "Closed"]
NoRelease == [by |-> None, to |-> {}, payer |-> None, links |-> Entity]

\* A payment, with the links under which its author was checked.
Paid(by, to, payer, links) ==
    [by |-> by, to |-> to, payer |-> payer, links |-> links]

\* The parties of a deal are checked once, when it is opened, with the arbitrator
\* they designate; one that the protocol selects is checked when it is selected.
DealVetted == vetted' = [deal |-> entity, arbitrator |-> entity]
ArbitratorVetted == vetted' = [deal |-> vetted.deal, arbitrator |-> entity]

Init ==
    /\ now = 1
    /\ agreement = NoRow
    /\ job = NoRow
    /\ pot = 0
    /\ earned = [a \in Address |-> 0]
    /\ release = NoRelease
    /\ rulings = {}
    /\ legacy \in BOOLEAN
    /\ entity = Entity
    /\ vetted = [deal |-> Entity, arbitrator |-> Entity]

Idle == agreement = NoRow /\ job = NoRow

-----------------------------------------------------------------------------
(* The agreement. *)

Propose(d) ==
    /\ Idle
    /\ ValidateAgreementCreateStateless(d)
    /\ agreement' = NewAgreement(d, FeeBps, 1)
    /\ pot' = d.escrow
    /\ DealVetted
    /\ UNCHANGED <<now, job, earned, release, rulings, legacy, entity>>

Accept(p) ==
    /\ agreement.status = "Proposed"
    /\ ~IsExpired(agreement, now)
    /\ p \in agreement.parties \ agreement.acceptedBy
    /\ LET a == [agreement EXCEPT !.acceptedBy = @ \cup {p}]
       IN  agreement' = IF IsFullyAccepted(a)
                        THEN [a EXCEPT !.status = "Active"] ELSE a
    /\ UNCHANGED <<now, job, pot, earned, release, rulings, legacy, entity,
                   vetted>>

\* By the proposer, before a counterparty has accepted.
Cancel ==
    /\ agreement.status = "Proposed"
    /\ agreement.acceptedBy = {agreement.proposer}
    /\ agreement' = [agreement EXCEPT !.status = "Cancelled", !.deposit = 0]
    /\ pot' = 0
    /\ release' = Paid(agreement.proposer, {agreement.proposer},
                       agreement.proposer, vetted.deal)
    /\ UNCHANGED <<now, job, earned, rulings, legacy, entity, vetted>>

\* The agreement completes with its last milestone.
Closing(a) ==
    IF AllMilestonesComplete(a)
    THEN [a EXCEPT !.status = "Completed", !.deposit = 0]
    ELSE [a EXCEPT !.status = "Active"]

\* The settlement approver accepts a deliverable.
Execute(i) ==
    /\ agreement.status = "Active"
    /\ ~IsExpired(agreement, now)
    /\ i \in DOMAIN agreement.milestones
    /\ agreement.milestones[i].status = "Pending"
    /\ LET amount == agreement.milestones[i].amount
           shares == EffectiveSettlementAllocations(agreement.provider,
                                                    agreement.shares)
           payouts == DistributeAmount(amount, shares)
       IN  /\ agreement' =
                 Closing(RecordEscrowRelease(
                    [agreement EXCEPT !.milestones[i].status = "Completed",
                                      !.milestones[i].result = TRUE],
                    amount))
           /\ pot' = pot - TotalOf(payouts)
           /\ earned' = [r \in Address |-> earned[r] +
                            PayoutAmountForRecipient(payouts, shares, r)]
           /\ release' = Paid(SettlementApprover(agreement.proposer,
                                                 agreement.approver),
                              SettlementRecipients(agreement),
                              agreement.proposer, vetted.deal)
    /\ UNCHANGED <<now, job, rulings, legacy, entity, vetted>>

\* A designated arbitrator, or one the protocol selects, who has nothing to
\* do with the parties.
Eligible(parties, prior) ==
    {x \in Arbitrators \ prior : ArbitratorFits(x, parties)}

Dispute(scope, x) ==
    /\ agreement.status = "Active"
    /\ \/ scope = Whole
       \/ scope \in DOMAIN agreement.milestones /\
          agreement.milestones[scope].status = "Pending"
    /\ x \in IF agreement.arbitrator # None THEN {agreement.arbitrator}
             ELSE Eligible(agreement.parties, {})
    /\ LET a == [agreement EXCEPT !.status = "Disputed", !.disputed = scope,
                                  !.arbitrator = x,
                                  !.deadline = now + Window]
       IN  agreement' = IF scope = Whole THEN a
                        ELSE [a EXCEPT !.milestones[scope].status =
                                            "Disputed"]
    /\ IF agreement.arbitrator # None THEN UNCHANGED vetted ELSE ArbitratorVetted
    /\ UNCHANGED <<now, job, pot, earned, release, rulings, legacy, entity>>

\* The arbitrator is late and another one takes over.
Reassign(x) ==
    /\ agreement.status = "Disputed"
    /\ now > agreement.deadline
    /\ x \in Eligible(agreement.parties,
                      agreement.prior \cup {agreement.arbitrator})
    /\ agreement' = [agreement EXCEPT !.prior = @ \cup {agreement.arbitrator},
                                      !.arbitrator = x,
                                      !.deadline = now + Window]
    /\ ArbitratorVetted
    /\ UNCHANGED <<now, job, pot, earned, release, rulings, legacy, entity>>

\* An earlier version kept a ruling on a milestone in the top-level slot.
RecordLegacyResolution(a, r) == [a EXCEPT !.resolution = r]

\* The row after a ruling r on its disputed part.
Ruled(a, r) ==
    IF r.scope = Whole
    THEN ReleaseRemainingEscrow(
            [RecordWholeAgreementResolution(a, r) EXCEPT
                !.status = "Resolved", !.deposit = 0])
    ELSE LET recorded == IF legacy THEN RecordLegacyResolution(a, r)
                         ELSE RecordMilestoneResolution(a, r.scope, r)
         IN  Closing(RecordEscrowRelease(
                [recorded EXCEPT !.milestones[r.scope].status = "Resolved"],
                a.milestones[r.scope].amount))

Resolve(payouts, effects) ==
    /\ agreement.status = "Disputed"
    /\ Recipients(payouts) \subseteq agreement.parties
    /\ SharesAreComplete(payouts)
    /\ DisputeReputationEffectsFit(agreement.parties, effects)
    /\ LET scope == agreement.disputed
           r == NewDisputeResolution(payouts, effects, scope)
           amount == IF scope = Whole THEN EscrowRemaining(agreement)
                     ELSE agreement.milestones[scope].amount
           fee == (amount * agreement.feeBps) \div BasisPoints
       IN  /\ agreement' = Ruled(ClearDisputeState(agreement), r)
           /\ rulings' = rulings \cup {r}
           /\ pot' = pot - fee
                         - TotalOf(DistributeAmount(amount - fee, payouts))
           /\ release' = Paid(agreement.arbitrator, Recipients(payouts),
                              agreement.proposer, vetted.arbitrator)
    /\ legacy' = FALSE
    /\ UNCHANGED <<now, job, earned, entity, vetted>>

\* What is left returns to the proposer.
ExpireAgreement ==
    /\ agreement.status \in {"Proposed", "Active", "Disputed"}
    /\ IsExpired(agreement, now)
    /\ agreement' = NormalizeForExpiry(agreement)
    /\ pot' = pot - EscrowRemaining(agreement)
    /\ release' = Paid(None, {agreement.proposer}, agreement.proposer,
                       vetted.deal)
    /\ UNCHANGED <<now, job, earned, rulings, legacy, entity, vetted>>

-----------------------------------------------------------------------------
(* The tool invocation. *)

\* The amounts of a plan sum to the price; a one-shot job has no plan.
Invoke(requester, provider, plan) ==
    /\ Idle
    /\ plan # <<>> => TotalOf(plan) = Price
    /\ ~SameEntity(requester, provider)
    /\ job' = OpenCurrentMilestone(
                  NewToolJob(requester, provider, Price, plan, Sla, Window,
                             FeeBps, now), now)
    /\ pot' = Price
    /\ DealVetted
    /\ UNCHANGED <<now, agreement, earned, release, rulings, legacy, entity>>

\* What a submission and a dispute write into the row, and into its current
\* milestone too if it has one.
CurrentMilestone == job.milestones[CurrentMilestoneIndex(job)]
WithMilestone(j, m) ==
    IF IsMilestoneJob(j)
    THEN [j EXCEPT !.milestones[CurrentMilestoneIndex(j)] = m] ELSE j

Submitted(x) ==
    [x EXCEPT !.status = "Submitted", !.result = TRUE, !.submittedAt = now,
              !.challengeDeadline = now + job.window]
Disputed(x) == [x EXCEPT !.status = "Disputed", !.disputedAt = now]

SubmitResult ==
    /\ job.status = "Open"
    /\ now <= job.submitDeadline
    /\ job' = WithMilestone(Submitted(job), Submitted(CurrentMilestone))
    /\ UNCHANGED <<now, pot, release, agreementVars, entity, vetted>>

\* The current milestone is paid to the provider, less the fee if an
\* arbitrator ordered it, and the next one opens.
PayProvider(by, links) ==
    LET i == CurrentMilestoneIndex(job)
        amount == IF i = 0 THEN job.escrow ELSE job.milestones[i].amount
        j == [job EXCEPT !.milestones[i].status = "Completed"]
    IN  /\ pot' = pot - amount
        /\ release' = Paid(by, {job.provider}, job.requester, links)
        /\ IF i = 0 \/ i = Len(job.milestones) THEN job' = ClosedRow
           ELSE job' = OpenCurrentMilestone(j, now)

\* What is not paid yet returns to the requester.
RefundRequester(by, links) ==
    /\ pot' = pot - IF IsMilestoneJob(job)
                    THEN UnpaidAmountFrom(job, CurrentMilestoneIndex(job))
                    ELSE job.escrow
    /\ release' = Paid(by, {job.requester}, job.requester, links)
    /\ job' = ClosedRow

AcceptResult ==
    /\ job.status = "Submitted"
    /\ PayProvider(job.requester, vetted.deal)
    /\ UNCHANGED <<now, agreementVars, entity, vetted>>

\* A result nobody challenged in time is settled.
AutoSettle ==
    /\ job.status = "Submitted"
    /\ now > job.challengeDeadline
    /\ PayProvider(None, vetted.deal)
    /\ UNCHANGED <<now, agreementVars, entity, vetted>>

\* A challenge of a result, or of a provider that is late.
DisputeResult(x) ==
    /\ \/ job.status = "Submitted" /\ now <= job.challengeDeadline
       \/ job.status = "Open" /\ now > job.submitDeadline
    /\ x \in Eligible({job.requester, job.provider}, {})
    /\ job' = [WithMilestone(Disputed(job), Disputed(CurrentMilestone)) EXCEPT
                    !.arbitrator = x, !.deadline = now + Window]
    /\ ArbitratorVetted
    /\ UNCHANGED <<now, pot, release, agreementVars, entity>>

ReassignResult(x) ==
    /\ job.status = "Disputed"
    /\ now > job.deadline
    /\ x \in Eligible({job.requester, job.provider},
                      job.prior \cup {job.arbitrator})
    /\ job' = [job EXCEPT !.prior = @ \cup {job.arbitrator},
                          !.arbitrator = x, !.deadline = now + Window]
    /\ ArbitratorVetted
    /\ UNCHANGED <<now, pot, release, agreementVars, entity>>

ResolveResult(providerWins) ==
    /\ job.status = "Disputed"
    /\ IF providerWins THEN PayProvider(job.arbitrator, vetted.arbitrator)
                       ELSE RefundRequester(job.arbitrator, vetted.arbitrator)
    /\ UNCHANGED <<now, agreementVars, entity, vetted>>

\* The provider never answered.
ExpireJob ==
    /\ job.status = "Open"
    /\ now > job.submitDeadline
    /\ RefundRequester(None, vetted.deal)
    /\ UNCHANGED <<now, agreementVars, entity, vetted>>

Tick ==
    /\ now < MaxTime
    /\ now' = now + 1
    /\ UNCHANGED <<job, pot, release, agreementVars, entity, vetted>>

\* Somebody joins an entity; no row is looked at again.
Link(a, e) ==
    /\ LinkEntity(a, e)
    /\ UNCHANGED <<now, job, pot, release, agreementVars, vetted>>

-----------------------------------------------------------------------------

Next ==
    \/ \E d \in Offers : Propose(d)
    \/ \E p \in Address : Accept(p)
    \/ Cancel
    \/ \E i \in 1..MaxMilestones : Execute(i)
    \/ \E scope \in 0..MaxMilestones, x \in Arbitrators : Dispute(scope, x)
    \/ \E x \in Arbitrators : Reassign(x)
    \/ \E v \in Verdicts, l \in EffectLists : Resolve(v, l)
    \/ ExpireAgreement
    \/ \E a, b \in Address, plan \in Plans : Invoke(a, b, plan)
    \/ SubmitResult
    \/ AcceptResult
    \/ AutoSettle
    \/ \E x \in Arbitrators : DisputeResult(x)
    \/ \E x \in Arbitrators : ReassignResult(x)
    \/ \E wins \in BOOLEAN : ResolveResult(wins)
    \/ ExpireJob
    \/ Tick
    \/ \E l \in Links : Link(l[1], l[2])

Spec == Init /\ [][Next]_vars

-----------------------------------------------------------------------------
(* Properties. *)

\* The money held for a deal that is not over is the sum of what its open
\* milestones promise (all_milestones_complete, escrow_remaining and
\* unpaid_amount_from agree on it), and a deal that is over holds none:
\* whatever releases, rulings and expiries came before, in any order.
EscrowAccounted ==
    /\ agreement.status \in {"Proposed", "Active", "Disputed"} =>
        /\ pot = EscrowRemaining(agreement)
        /\ pot = TotalOf([i \in DOMAIN agreement.milestones |->
                            IF agreement.milestones[i].status
                                \in {"Pending", "Disputed"}
                            THEN agreement.milestones[i].amount ELSE 0])
    /\ agreement.status \in {"Completed", "Resolved"} =>
        pot = 0 /\ EscrowRemaining(agreement) = 0
    /\ agreement.status \in {"Cancelled", "Expired"} => pot = 0
    /\ job.status \in ToolJobStatus =>
        pot = job.escrow - CompletedMilestoneAmount(job)
    /\ job.status = "Closed" => pot = 0

\* Over all the milestones that were released, a recipient of distribute_amount
\* other than the last never earns more than its share of their sum, and
\* loses at most one unit per milestone to rounding; what the others lose
\* the last one has, and together they earned the whole sum.
CooperativeShares ==
    agreement # NoRow =>
        LET shares == EffectiveSettlementAllocations(agreement.provider,
                                                     agreement.shares)
            done == {i \in DOMAIN agreement.milestones :
                        agreement.milestones[i].status = "Completed"}
            sum == TotalOf([i \in DOMAIN agreement.milestones |->
                        IF i \in done THEN agreement.milestones[i].amount
                        ELSE 0])
            Part(i) == earned[shares[i].recipient] * BasisPoints
        IN  /\ \A i \in DOMAIN shares :
                 IF i < Len(shares)
                 THEN /\ Part(i) <= sum * shares[i].bps
                      /\ sum * shares[i].bps
                            <= Part(i) + Cardinality(done) * BasisPoints
                 ELSE Part(i) >= sum * shares[i].bps
            /\ TotalOf([i \in DOMAIN shares |->
                            earned[shares[i].recipient]]) = sum

\* Nobody but the payer's side orders a payment to itself: whoever ordered the
\* last release controls no recipient that is independent of the payer, as far as
\* the links tell under which it was checked: the settlement approver (with its
\* default) and a designated arbitrator at the creation, an arbitrator that the
\* protocol selected when it was selected, whatever deals, disputes and links came
\* in between.  Nothing in the code looks again: a link committed after the check
\* may make the author and a recipient one entity, and the payment goes through.
NobodyPaysThemselves ==
    release.by # None =>
        \A r \in release.to :
            release.links[release.by] = release.links[r] =>
                release.links[release.payer] = release.links[r]

\* A ruling is never lost: it is found by resolution_for at its scope, or
\* still in the top-level slot where an earlier version put it.
RulingsKept ==
    \A r \in rulings :
        r \in {ResolutionFor(agreement, r.scope), agreement.resolution}

\* Every reputation effect of a ruling has, when the ruling is recorded, an
\* opponent of another entity (dispute_reputation_counterparty), and so has that
\* opponent.
EffectsHaveOpponents ==
    [][ \A r \in rulings' \ rulings : \A i \in DOMAIN r.effects :
          LET e == r.effects[i]
              against == DisputeReputationCounterparty(e, r.effects)
          IN  /\ against # None
              /\ \E j \in DOMAIN r.effects :
                    /\ r.effects[j].party = against
                    /\ DisputeReputationCounterparty(r.effects[j], r.effects)
                          # None ]_vars

\* While a milestone job is open its row repeats its current milestone, nothing
\* of an earlier result or dispute is left in either except the name of the last
\* arbitrator, and the milestones after it are untouched.  That name stays when
\* the next milestone opens (clear_transient_result_state does not clear it); in
\* a dispute it is that of a registered arbitrator who has not timed out in it.
JobMirrorsMilestone ==
    job.status \in ToolJobStatus =>
        /\ (job.deadline # None) <=> (job.status = "Disputed")
        /\ (job.disputedAt # None) <=> (job.status = "Disputed")
        /\ job.prior # {} => job.status = "Disputed"
        /\ job.status = "Disputed" => job.arbitrator \in Arbitrators \ job.prior
        /\ IsMilestoneJob(job) =>
            LET i == CurrentMilestoneIndex(job)
                m == job.milestones[i]
            IN  /\ i # 0
                /\ m.status = IF job.status = "Open" THEN "Pending"
                              ELSE job.status
                /\ m.submitDeadline = job.submitDeadline
                /\ m.result = job.result
                /\ m.submittedAt = job.submittedAt
                /\ m.challengeDeadline = job.challengeDeadline
                /\ m.disputedAt = job.disputedAt
                /\ \A k \in i + 1..Len(job.milestones) :
                      job.milestones[k] =
                        ToolMilestone(job.milestones[k].amount)
=============================================================================

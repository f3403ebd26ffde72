----------------------------- MODULE Agreement -----------------------------
(***************************************************************************)
(* The agreement row: what a creation must satisfy, who is paid which      *)
(* share, how a released amount is split, and where rulings are kept.      *)
(* Every operator is a function or a method of agreement.rs.               *)
(*                                                                         *)
(* Addresses are numbers, in the order the code sorts them.  The callback  *)
(* same_entity of the code asks for the links that are committed when it   *)
(* is called: they are the one variable of the module, since an EntityLink *)
(* may be committed at any time.  A milestone index of None (the whole     *)
(* agreement) is 0 and milestone i of the code is i + 1 here.              *)
(***************************************************************************)
EXTENDS Amounts, FiniteSets, FiniteSetsExt, SequencesExt

CONSTANTS
    Address,        \* agents and arbitrators
    Entity,         \* the root each address resolves to at first
    MaxParties,     \* 10 in the code
    MaxMilestones,  \* 20 in the code
    MaxAmount       \* the largest u64

ASSUME AgreementAssumption ==
    /\ Address \subseteq Nat /\ IsFiniteSet(Address)
    /\ Entity \in [Address -> Address]
    /\ {MaxParties, MaxMilestones, MaxAmount} \subseteq Nat

VARIABLE entity    \* the root each address resolves to now

None == -1
Whole == 0
BasisPoints == 10000

SameEntity(a, b) == entity[a] = entity[b]

\* EntityLink, signed by a and by the root e.  A link is immutable, and the chain
\* (external) resolves an address in one step: it links to a root, and an address
\* that others resolve to stays one.
LinkEntity(a, e) ==
    /\ a # e
    /\ entity[a] = a /\ entity[e] = e
    /\ \A b \in Address \ {a} : entity[b] # a
    /\ entity' = [entity EXCEPT ![a] = e]

AgreementStatus == {"Proposed", "Active", "Completed", "Disputed",
                    "Resolved", "Expired", "Cancelled"}
MilestoneStatus == {"Pending", "Completed", "Disputed", "Resolved"}

Share == [recipient : Address, bps : 0..BasisPoints]
Effect == [party : Address, outcome : {"Won", "Lost"}]

Recipients(shares) == {shares[i].recipient : i \in DOMAIN shares}

-----------------------------------------------------------------------------
(* Creation. *)

\* Mutant of MilestoneTotal: the sum wraps around instead of failing.
MilestoneTotalWrapping(defs) == TotalOf(defs) % (MaxAmount + 1)

\* The checked sum: an overflow is an error, here a total no escrow has.
MilestoneTotal(defs) == TotalOf(defs)

MilestonesFit(defs, escrow) ==
    /\ defs # <<>>
    /\ MilestoneTotal(defs) = escrow
    /\ Len(defs) <= MaxMilestones

NoResolution == [scope |-> None]

MaterializeAgreementMilestones(defs) ==
    [i \in DOMAIN defs |->
        [amount |-> defs[i], status |-> "Pending", result |-> FALSE,
         resolution |-> NoResolution]]

\* Mutant of SettlementApproverIsIndependent: only the approver's own
\* address counts, another address of the same entity does not.
SettlementApproverIsNoRecipient(proposer, approver, shares) ==
    \A r \in Recipients(shares) : SameEntity(proposer, r) \/ approver # r

SettlementApproverIsIndependent(proposer, approver, shares) ==
    \A r \in Recipients(shares) :
        SameEntity(proposer, r) \/ ~SameEntity(approver, r)

AgreementInvolvesThirdParty(proposer, recipients) ==
    \E r \in recipients : ~SameEntity(proposer, r)

ServiceProviderInvolvesThirdParty(proposer, provider) ==
    ~SameEntity(proposer, provider)

SharesAreComplete(shares) ==
    TotalOf([i \in DOMAIN shares |-> shares[i].bps]) = BasisPoints

SettlementAllocationsFit(proposer, parties, provider, shares) ==
    shares # <<>> =>
        /\ \A i \in DOMAIN shares :
              shares[i].bps # 0 /\ shares[i].recipient \in parties
        /\ Cardinality(Recipients(shares)) = Len(shares)
        /\ SharesAreComplete(shares)
        /\ AgreementInvolvesThirdParty(proposer, Recipients(shares))
        /\ provider \in Recipients(shares)

\* effective_settlement_allocations, and what an omitted list resolves to.
EffectiveSettlementAllocations(provider, shares) ==
    IF shares # <<>> THEN shares
    ELSE <<[recipient |-> provider, bps |-> BasisPoints]>>

\* settlement_approver, and what an omitted approver resolves to.
SettlementApprover(proposer, approver) ==
    IF approver # None THEN approver ELSE proposer

SettlementApproverFits(proposer, parties, shares, approver) ==
    /\ approver # None => approver \in parties
    /\ approver = None => Cardinality(parties) <= 2
    /\ SettlementApproverIsIndependent(
           proposer, SettlementApprover(proposer, approver), shares)

\* AgreementCreateData with its sender.
CreateData ==
    [proposer : Address, parties : Seq(Address), escrow : 0..MaxAmount,
     arbitrator : Address \cup {None}, milestones : Seq(0..MaxAmount),
     provider : Address, shares : Seq(Share),
     approver : Address \cup {None}, expiresAt : Nat]

ArbitratorFits(arbitrator, parties) ==
    arbitrator # None =>
        \A p \in parties : arbitrator # p /\ ~SameEntity(arbitrator, p)

ValidateAgreementCreateStateless(d) ==
    LET parties == ToSet(d.parties)
    IN  /\ Len(d.parties) \in 2..MaxParties
        /\ d.proposer \in parties
        /\ Cardinality(parties) = Len(d.parties)
        /\ d.escrow # 0
        /\ MilestonesFit(d.milestones, d.escrow)
        /\ ArbitratorFits(d.arbitrator, parties)
        /\ d.provider \in parties
        /\ ServiceProviderInvolvesThirdParty(d.proposer, d.provider)
        /\ SettlementAllocationsFit(d.proposer, parties, d.provider, d.shares)
        /\ SettlementApproverFits(
               d.proposer, parties,
               EffectiveSettlementAllocations(d.provider, d.shares),
               d.approver)

-----------------------------------------------------------------------------
(* Rulings. *)

\* Mutant of EffectsOppose: a ruling may name winners only.
EffectsOpposeUnchecked(effects) == TRUE

EffectsOppose(effects) ==
    effects # <<>> =>
        {effects[i].outcome : i \in DOMAIN effects} = {"Won", "Lost"}

DisputeReputationEffectsFit(parties, effects) ==
    /\ \A i \in DOMAIN effects : effects[i].party \in parties
    /\ EffectsOppose(effects)
    /\ \A i, j \in DOMAIN effects :
          i # j => ~SameEntity(effects[i].party, effects[j].party)

\* normalize_dispute_reputation_effects sorts by party; a party is in the
\* list once.
NormalizeDisputeReputationEffects(effects) ==
    CHOOSE sorted \in [DOMAIN effects -> ToSet(effects)] :
        /\ ToSet(sorted) = ToSet(effects)
        /\ \A i, j \in DOMAIN effects :
              i < j => sorted[i].party < sorted[j].party

DisputeReputationCounterparty(effect, effects) ==
    LET against == {e \in ToSet(effects) :
                        /\ e.outcome # effect.outcome
                        /\ ~SameEntity(effect.party, e.party)}
    IN  IF against = {} THEN None ELSE Min({e.party : e \in against})

NewDisputeResolution(payouts, effects, scope) ==
    [payouts |-> payouts,
     effects |-> NormalizeDisputeReputationEffects(effects),
     scope |-> scope]

-----------------------------------------------------------------------------
(* The row and its methods. *)

\* The row AgreementCreate opens; the fee rate is locked at creation.
NewAgreement(d, feeBps, deposit) ==
    [parties |-> ToSet(d.parties), proposer |-> d.proposer,
     escrow |-> d.escrow, status |-> "Proposed", expiresAt |-> d.expiresAt,
     acceptedBy |-> {d.proposer}, arbitrator |-> d.arbitrator,
     disputed |-> Whole, deadline |-> None, prior |-> {},
     resolution |-> NoResolution,
     milestones |-> MaterializeAgreementMilestones(d.milestones),
     released |-> 0, feeBps |-> feeBps, provider |-> d.provider,
     shares |-> d.shares, deposit |-> deposit, approver |-> d.approver]

IsFullyAccepted(a) == a.parties \subseteq a.acceptedBy

IsExpired(a, now) == a.expiresAt > 0 /\ now > a.expiresAt

AllMilestonesComplete(a) ==
    /\ a.milestones # <<>>
    /\ \A i \in DOMAIN a.milestones :
          a.milestones[i].status \in {"Completed", "Resolved"}

EscrowRemaining(a) == Max({0, a.escrow - a.released})

RecordEscrowRelease(a, amount) ==
    [a EXCEPT !.released = Min({@ + amount, a.escrow})]

ReleaseRemainingEscrow(a) == [a EXCEPT !.released = a.escrow]

ClearDisputeState(a) ==
    [a EXCEPT !.disputed = Whole, !.deadline = None, !.prior = {}]

NormalizeForExpiry(a) ==
    ClearDisputeState([a EXCEPT !.status = "Expired", !.deposit = 0])

SettlementRecipients(a) ==
    Recipients(EffectiveSettlementAllocations(a.provider, a.shares))

\* A ruling on a milestone that an earlier version left in the top-level
\* slot moves to its milestone.
NormalizeResolutionStorage(a) ==
    LET r == a.resolution
    IN  IF r.scope \notin DOMAIN a.milestones THEN a
        ELSE [a EXCEPT !.resolution = NoResolution,
                       !.milestones[r.scope].resolution =
                            IF @ = NoResolution THEN r ELSE @]

\* Mutant of RecordMilestoneResolution: the slot is cleared before what it
\* holds has moved.
RecordMilestoneResolutionOnly(a, i, r) ==
    [a EXCEPT !.milestones[i].resolution = r, !.resolution = NoResolution]

RecordMilestoneResolution(a, i, r) ==
    [NormalizeResolutionStorage(a) EXCEPT
        !.milestones[i].resolution = r, !.resolution = NoResolution]

RecordWholeAgreementResolution(a, r) ==
    [NormalizeResolutionStorage(a) EXCEPT !.resolution = r]

ResolutionFor(a, scope) ==
    IF scope = Whole THEN a.resolution ELSE a.milestones[scope].resolution

\* Mutant of DistributeAmount: every recipient gets the rounded share.
DistributeAmountRounded(amount, shares) ==
    [i \in DOMAIN shares |-> (amount * shares[i].bps) \div BasisPoints]

\* The payouts, in the order of the shares: the last one takes the rest.
DistributeAmount(amount, shares) ==
    LET floor == [i \in DOMAIN shares |->
                    (amount * shares[i].bps) \div BasisPoints]
    IN  [i \in DOMAIN shares |->
            IF i < Len(shares) THEN floor[i]
            ELSE Max({0, amount - TotalOf(SubSeq(floor, 1, i - 1))})]

PayoutAmountForRecipient(payouts, shares, recipient) ==
    IF recipient \notin Recipients(shares) THEN 0
    ELSE payouts[SelectInSeq(shares, LAMBDA s : s.recipient = recipient)]
=============================================================================

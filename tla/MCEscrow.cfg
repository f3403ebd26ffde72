SPECIFICATION Spec
CONSTANTS
    Address <- MCAddress
    Entity <- MCEntity
    MaxParties = 4
    MaxMilestones = 2
    MaxAmount = 9
    Offers <- MCOffers
    Arbitrators <- MCArbitrators
    FeeBps = 3000
    Verdicts <- MCVerdicts
    EffectLists <- MCEffectLists
    Links <- MCLinks
    Plans <- MCPlans
    Price = 3
    Sla = 1
    Window = 1
    MaxTime = 3
INVARIANTS
    CooperativeShares
    EscrowAccounted
    NobodyPaysThemselves
    RulingsKept
    JobMirrorsMilestone
PROPERTIES
    EffectsHaveOpponents
CHECK_DEADLOCK FALSE

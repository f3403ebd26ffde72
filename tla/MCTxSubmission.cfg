CONSTANTS
    i1 = i1
    None = None
    Intents <- MCIntents
    Options <- MCOptions
    Ttl = 2
    AnchorLag = 1
    MaxNonce = 2
    MaxRuns = 2
    MaxSigned = 1
    MaxPolls = 2
SPECIFICATION FairSpec
INVARIANTS
    OncePerIntent
    WaitReportsFinal
    OnlySignerFailuresLeaveGaps
PROPERTIES
    EveryRunEnds
CHECK_DEADLOCK FALSE

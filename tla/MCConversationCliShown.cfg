\* One terminal, and a peer that posts.
SPECIFICATION Spec
CONSTANTS
    p1 = p1
    p2 = p2
    Procs <- MCOneProc
    Commands <- MCOneCommands
    MaxLog = 2
    MaxDelegations = 1
    MaxKeyIds = 2
    PageLimit = 1
    ExplicitAfters = {}
    Offers = {{"EndToEnd"}}
INVARIANTS AcknowledgedWasShown
CHECK_DEADLOCK FALSE

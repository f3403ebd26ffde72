\* Two commands at a time, failures at every await, more delegations than the
\* list of key ids holds, reads from the start, and a provider that changes the
\* privacy modes it advertises.
SPECIFICATION Spec
CONSTANTS
    p1 = p1
    p2 = p2
    Procs <- MCProcs
    Commands <- MCCommands
    MaxLog = 2
    MaxDelegations = 2
    MaxKeyIds = 1
    PageLimit = 1
    ExplicitAfters = {0}
    Offers = {{"PlatformReadable"}, {"EndToEnd"}}
INVARIANTS NoWriteIsRefused AcknowledgedWasPassed
PROPERTIES FreshWritesKeep
CHECK_DEADLOCK FALSE

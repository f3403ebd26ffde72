SPECIFICATION FairSpec
CONSTANTS
    Validity <- MCValidity
    Profile <- MCProfile
    Skew = 1
    MaxInterfaces = 4
    MaxPins = 2
    MaxLifetime = 1
    MaxRecipients = 3
    Services <- MCServices
    Hosts = {1, 2}
    FirstProfiles = {1}
    Certs <- MCCerts
    Conversations = {1, 2}
    Epochs = {1}
    Peer <- MCPeer
    MaxChanges = 1
    MaxTime = 2
    MaxSessions = 2
INVARIANTS
    StaysWithService
    OnlySilencePassesOver
    ReadsWhatWasSent
    TokenStaysWithIssuer
PROPERTIES EventuallyConnected
CHECK_DEADLOCK FALSE

SPECIFICATION PlatformSpec
CONSTANTS
    p1 = p1
    p2 = p2
    p3 = p3
    Procs <- MCProcs
    Grace = 2
    MaxKills = 2
    PromptReclaim = TRUE
    Pids = {1, 2}
    MaxTokens = 3
    MaxAttempts = 3
    MaxOffers = 3
    MaxDeviations = 2
    Bases <- MCBases
    Words <- MCWords
    MaxWords = 4
    Limit = 9
    NONE = NONE
SYMMETRY MCSymmetry
INVARIANTS
    ClaimSound
    HostSound
    Exclusive
    AskedOnce
    EgressSound
    WaitsOnlyForPeers
    PaymentSound
    InstallSound
    OneAnswer
PROPERTIES
    SignalJustified

SPECIFICATION BrowserSpec
CONSTANTS
    b1 = b1
    b2 = b2
    b3 = b3
    s1 = s1
    s2 = s2
    google2 = google2
    x402exa = x402exa
    Sessions <- MCSessions
    MaxAttempts = 3
    Idle = 2
    NONE = NONE
    MaxFetch = 2
    MaxCancel = 1
    MaxSent = 8
    Chars = 1
    MaxLoads = 2
    MaxEdits = 1
INVARIANTS
    SessionSafe
    FetchSound
    ResultIsOfTheQuery
PROPERTIES
    NeverReconnected
    BrowsingEnds
    SearchingProgresses

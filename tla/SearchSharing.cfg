SPECIFICATION Spec
CONSTANTS
    s1 = s1
    s2 = s2
    google2 = google2
    brave2 = brave2
    bing2 = bing2
    x402exa = x402exa
    Searches = {s1, s2}
    Regular = {google2, brave2}
    LastResort = {bing2}
    Paid = {}
    Order <- MCBrowsers
    Eligible <- MCOverlapping
    Interval = 1
    SuspendTicks = 1
    NONE = NONE
PROPERTIES
    AttemptsInOrder

SPECIFICATION MCSpec
CONSTANTS
    s1 = s1
    s2 = s2
    s3 = s3
    s4 = s4
    s5 = s5
    s6 = s6
    s7 = s7
    google2 = google2
    brave2 = brave2
    bing2 = bing2
    x402exa = x402exa
    Searches = {s1, s2, s3, s4, s5, s6, s7}
    Regular = {google2, brave2}
    LastResort = {bing2}
    Paid = {x402exa}
    Order <- MCOrder
    Eligible <- MCEligible
    Interval = 1
    SuspendTicks = 1
    NONE = NONE
PROPERTIES
    RotationMoves
    LaterTierJustified

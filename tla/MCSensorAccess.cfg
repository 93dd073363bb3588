\* The clock runs past the end of an enrollment and of a request window, and
\* a failed write can be followed by a restart.
CONSTANTS
    Lifetime = 2
    RateLimit = 1
    Minute = 1
    Never = Never
    MaxSensors = 1
    MaxEnrollments = 2
    MaxTokens = 3
    MaxSequence = 1
    MaxTime = 3
    MaxFaults = 2
SPECIFICATION AccessSpec
INVARIANTS
    AccessTypeOK
    RedeemedOnce
    RevokedForGood
    OnlyNewestToken
    RateBounded
PROPERTIES
    RevokedGoesQuiet

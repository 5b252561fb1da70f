SPECIFICATION CacheSpec
CONSTANTS
    Object <- MCTwoObjects
    Entry <- MCEntries
    Rejected <- MCRejected
    MaxAmendments = 3
    MaxHits = 0
    MaxFaults = 0
    NoRow = NoRow
    NotListed = NotListed
    c1 = c1
    Client <- MCClient
    MaxTime = 2
    Never = Never
    NoCopy = NoCopy
    www = www
    local = local
    blank = blank
    Origin <- MCOrigin
    DefaultOrigin <- MCDefault
    CorsAllowedOrigins <- MCFromEnv
    Unset = Unset
    Blank = blank
    NoOrigin = NoOrigin
    MaxAge = 1
INVARIANTS
    AllowedOriginsCanRead

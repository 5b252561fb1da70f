SPECIFICATION ApiSpec
CONSTANTS
    Object <- MCTwoObjects
    Entry <- MCEntries
    Rejected <- MCRejected
    MaxAmendments = 3
    MaxHits = 0
    MaxFaults = 0
    NoRow = NoRow
    NotListed = NotListed
    c1 = c1
    Client <- MCClient
    MaxTime = 2
    Never = Never
    NoCopy = NoCopy
INVARIANTS
    StrongValidator

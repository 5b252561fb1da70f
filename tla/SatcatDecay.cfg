SPECIFICATION FairSpec
CONSTANTS
    Object <- MCTwoObjects
    Entry <- MCDecayEntries
    Rejected <- MCNoneRejected
    MaxAmendments = 2
    MaxHits = 0
    MaxFaults = 0
    NoRow = NoRow
    NotListed = NotListed
PROPERTIES
    DecayReported

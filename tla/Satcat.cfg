SPECIFICATION FairSpec
CONSTANTS
    Object <- MCTwoObjects
    Entry <- MCEntries
    Rejected <- MCRejected
    MaxAmendments = 4
    MaxHits = 1
    MaxFaults = 1
    NoRow = NoRow
    NotListed = NotListed
INVARIANTS
    TypeOK
    NoDecayOnRecord
PROPERTIES
    ImplementsCatalogHistory
    CurrentImportsSettle
    CatalogConverges

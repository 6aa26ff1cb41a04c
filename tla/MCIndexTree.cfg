\* Entries in and out of a tree of three levels, under a scan.
SPECIFICATION Spec
CONSTANTS
    Keys <- MCKeys
    Rids = {1, 2}
    Inserted <- MCInserted
    Deleted <- MCDeleted
    Fillings <- MCFillings
    b = 4
    ridsPerBucket = 2
    Conditions <- MCConditions
    MaxNodes = 12
INVARIANTS
    TreeInv
    ChainVisitsEveryLeaf
    KeysAscendAlongChain
    ScanMissesNothing
PROPERTIES
    ScanReturnsOnce
    ScanEnds
    MapSpec

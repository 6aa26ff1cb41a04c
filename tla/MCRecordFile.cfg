\* A scan over two pages that change under it.
SPECIFICATION Spec
CONSTANTS
    Vals = {v1}
    RecordsPerPage = 2
    MaxPages = 2
    NoPage = NoPage
    NoRecord = NoRecord
INVARIANTS
    ScanMissesNothing
PROPERTIES
    ScanReturnsOnce

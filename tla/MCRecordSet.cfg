\* The chains, and the set of records they keep.
SPECIFICATION FileSpec
CONSTANTS
    Vals = {v1, v2}
    RecordsPerPage = 2
    MaxPages = 2
    NoPage = NoPage
    NoRecord = NoRecord
INVARIANTS
    RecordFileInv
PROPERTIES
    RecordSetSpec

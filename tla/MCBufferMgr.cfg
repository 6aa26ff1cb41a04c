\* The pool with failing file operations and the system commands.
SPECIFICATION Spec
CONSTANTS
    f1 = f1
    f2 = f2
    Keys <- MCKeys
    Vals = {0, 1}
    Zero = 0
    NoPage = NoPage
    NoKey = NoKey
    MaxSlots = 2
    BufSize = 2
    MaxPins = 1
    IOErrors = TRUE
    Resets = TRUE
CONSTRAINT
    SecondFileWhole
INVARIANTS
    TypeOK
    SlotsListedOnce
    HashMatchesUsed
    CleanPagesMatchDisk
PROPERTIES
    PinnedPagesStay
    StoreSpec
    ListsSpec

\* Three slots, two pages, a table that shrinks and grows.
SPECIFICATION Spec
CONSTANTS
    MaxSlots = 3
    BufSize = 2
    Keys = {k1, k2}
    NoKey = NoKey
    Resets = TRUE
INVARIANTS
    LinksInv
PROPERTIES
    ListsSpec

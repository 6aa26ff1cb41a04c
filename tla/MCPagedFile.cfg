\* Two pages with contents: free lists and what a client reads, across
\* flushes, failures and reopening.
SPECIFICATION Spec
CONSTANTS
    Vals = {0, 1}
    Zero = 0
    NoPage = NoPage
    MaxPages = 2
    MaxPins = 2
INVARIANTS
    PagedFileInv
PROPERTIES
    ForceIsDurable
    PageSetSpec

\* Two databases, relations of up to three attributes in one of them.
SPECIFICATION Spec
CONSTANTS
    NoRow = NoRow
    NoName = NoName
    a = a
    b = b
    c = c
    t = t
    u = u
    d1 = d1
    d2 = d2
    Names = {d1, d2}
    Tables = {t, u}
    Attrs = {a, b, c}
    Creations <- MCCreations
    Nested = {d2}
    Worked = {d1}
    MaxRows = 3
CONSTRAINT
    Small
INVARIANTS
    SessionInv
    DescriptionWhole
    IndexesNumbered
    IndexFilesOwn
PROPERTIES
    StuckTillEnd

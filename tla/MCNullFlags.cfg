\* Does a condition test the NULL flag that INSERT sets?
SPECIFICATION Spec
CONSTANTS
    NoRow = NoRow
    NoName = NoName
    a = a
    b = b
    c = c
    t = t
    u = u
    d1 = d1
    Names = {d1}
    Tables = {t}
    Attrs = {a, b, c}
    Creations <- MCThreeColumns
    Nested = {}
    Worked = {d1}
    MaxRows = 3
INVARIANTS
    NullFlagsAgree

\* Does dropping an index leave the others their files?
SPECIFICATION Spec
CONSTANTS
    NoRow = NoRow
    NoName = NoName
    a = a
    b = b
    c = c
    t = t
    u = u
    d1 = d1
    Names = {d1}
    Tables = {t}
    Attrs = {a, b, c}
    Creations <- MCThreeColumns
    Nested = {}
    Worked = {d1}
    MaxRows = 3
INVARIANTS
    DropIndexKeepsOthers

\* A relation of up to three records, two of them with the same value.
SPECIFICATION Spec
CONSTANTS
    k = k
    x = x
    y = y
    Null = Null
    TooLong = TooLong
    WrongType = WrongType
    Unknown = Unknown
    Junk <- MCJunk
    attributes <- MCAttributes
    Nullable = {x, y}
    nullableIndex <- MCNullableIndex
    IndexOrder <- MCIndexOrder
    Pk = k
    Strings = {y}
    Unlike <- MCUnlike
    Vals = {0, 1, 2}
    Zero = 0
    MaxRid = 3
    PerKey = 2
    Statements <- MCStatements
    MaxLeaked = 1
INVARIANTS
    RelationInv
    IndexesCover
    KeyUnique
    CountExact
PROPERTIES
    InsertSeen
    DeleteEffect
    UpdateEffect

\* Queries over one, two and three relations, of up to three records each.
SPECIFICATION Spec
CONSTANTS
    a = a
    b = b
    c = c
    Null = Null
    NoValue = NoValue
    Columns <- MCColumns
    Zero = 0
    Indexed <- MCIndexed
    Nullable <- MCNullable
    Databases <- MCDatabases
    Queries <- MCQueries
INVARIANTS
    PlanInv
    NoConditionLost
    ResultExact
    CrashesOnNothing
PROPERTIES
    Ends
CHECK_DEADLOCK FALSE

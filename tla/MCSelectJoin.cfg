\* One join of two attributes without an index.
SPECIFICATION Spec
CONSTANTS
    a = a
    b = b
    c = c
    Null = Null
    NoValue = NoValue
    Columns <- MCColumns
    Zero = 0
    Indexed <- MCIndexed
    Nullable <- MCNullable
    Databases <- MCDatabases
    Queries <- MCJoinQueries
INVARIANTS
    JoinExact
CHECK_DEADLOCK FALSE

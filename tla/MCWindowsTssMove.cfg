\* A destructor creates a key when the table is full.
SPECIFICATION Spec
CONSTANTS
    Thread = {T1, T2}
    Key = {1, 2, 3}
    Destructor = {F1}
    NULL = NULL
    FirstSize = 2
    MaxEntries = 3
    Base = {TRUE}
    Calls = {"create", "set", "exit", "create in destructor"}
INVARIANT WalkedTableStays
CHECK_DEADLOCK FALSE

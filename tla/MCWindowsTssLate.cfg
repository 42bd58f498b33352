\* A destructor sets a value under a key whose entry the scan has passed.
SPECIFICATION Spec
CONSTANTS
    Thread = {T1, T2}
    Key = {1, 2}
    Destructor = {F1}
    NULL = NULL
    FirstSize = 2
    MaxEntries = 2
    Base = {TRUE}
    Calls = {"create", "set", "exit", "set in destructor"}
INVARIANT EveryValueDestroyed
CHECK_DEADLOCK FALSE

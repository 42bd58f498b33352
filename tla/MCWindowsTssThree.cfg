\* Three threads create the first key at once.
SPECIFICATION Spec
CONSTANTS
    Thread = {T1, T2, T3}
    Key = {1, 2, 3}
    Destructor = {F1, F2}
    NULL = NULL
    FirstSize = 1
    MaxEntries = 3
    Base = {FALSE}
    Calls = {"create"}
INVARIANT SectionReady
CHECK_DEADLOCK FALSE

\* Two threads create the first keys at once, and one frees its key.
SPECIFICATION Spec
CONSTANTS
    Thread = {T1, T2}
    Key = {1, 2}
    Destructor = {F1}
    NULL = NULL
    FirstSize = 2
    MaxEntries = 2
    Base = {FALSE}
    Calls = {"create", "free"}
INVARIANT CountAlwaysMatches
CHECK_DEADLOCK FALSE

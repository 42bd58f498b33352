\* A thread returns while another frees the last key.
SPECIFICATION Spec
CONSTANTS
    Thread = {T1, T2}
    Key = {1}
    Destructor = {F1, F2}
    NULL = NULL
    FirstSize = 1
    MaxEntries = 3
    Base = {FALSE}
    Calls = {"create", "free", "return", "return unready"}
INVARIANT InitedAsserted
CHECK_DEADLOCK FALSE

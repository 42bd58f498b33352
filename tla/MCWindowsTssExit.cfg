\* A thread exits in a program that has no keys.
SPECIFICATION Spec
CONSTANTS
    Thread = {T1, T2}
    Key = {1}
    Destructor = {F1}
    NULL = NULL
    FirstSize = 1
    MaxEntries = 1
    Base = {FALSE}
    Calls = {"create", "set", "exit", "exit unready"}
INVARIANT InitedAsserted
CHECK_DEADLOCK FALSE

\* Reads and writes of the mintomic backend.
SPECIFICATION Spec
CONSTANTS
    T1 = T1
    T2 = T2
    T3 = T3
    Flag = Flag
    Other = Other
    Data = Data
    Thread = {T1, T2, T3}
    Address = {Flag, Other, Data}
    Word = 4
    NULL = NULL
    Test <- FlagsMintomic
INVARIANT OneSeesTheOther
CHECK_DEADLOCK FALSE

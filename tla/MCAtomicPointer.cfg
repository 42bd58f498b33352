\* What both backends promise, and what only C11 does.
SPECIFICATION Spec
CONSTANTS
    T1 = T1
    T2 = T2
    T3 = T3
    Flag = Flag
    Other = Other
    Data = Data
    Thread = {T1, T2, T3}
    Address = {Flag, Other, Data}
    Word = 4
    NULL = NULL
    Test <- Guaranteed
INVARIANTS NoLostUpdate NumbersDiffer OneSwapWins SetReplaces OneSeesTheOther PublishedSeen LastReferenceSees
CHECK_DEADLOCK FALSE

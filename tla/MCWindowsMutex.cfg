\* Three threads; a thread that locks recursively stays stuck with the mutex,
\* so that the others may all come to wait for it.
SPECIFICATION Spec
CONSTANTS
    Thread = {T1, T2, T3}
    NULL = NULL
INVARIANTS MutualExclusion OwnIdMeansInside NeverReentered
PROPERTY ImplementsMonitor
CHECK_DEADLOCK FALSE

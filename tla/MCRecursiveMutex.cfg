\* Three clients that lock, try and unlock up to three deep.
SPECIFICATION Spec
CONSTANTS
    Thread = {T1, T2, T3}
    NULL = NULL
    MaxHolds = 3
INVARIANTS MutualExclusion AssertionsHold OwnerNeverBlocks
PROPERTY ImplementsReentrantLock

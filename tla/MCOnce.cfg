\* Three threads that keep running, and a flag that needs a recursive flag; the
\* initialiser of the recursive one may be left by return or exception, nested or not.
\* The swaps are those of C11.
SPECIFICATION FairSpec
CONSTANTS
    Config = Config
    Cache = Cache
    Thread = {T1, T2, T3}
    Flag = {Config, Cache}
    Recursive = {Cache}
    Needs <- NeedsCache
    CanAbandon = {Cache}
    SwapOrders = TRUE
    NULL = NULL
INVARIANTS PassedSeesInit PassedSeesNeeds IdNamesInitialiser OwnerNeverWaits
PROPERTIES ImplementsAbstract WaitersPass
CHECK_DEADLOCK FALSE

\* Two plain flags with the relaxed swaps of mintomic.
SPECIFICATION Spec
CONSTANTS
    Config = Config
    Cache = Cache
    Thread = {T1, T2}
    Flag = {Config, Cache}
    Recursive = {}
    Needs <- NeedsNothing
    CanAbandon = {}
    SwapOrders = FALSE
    NULL = NULL
INVARIANT PassedSeesInit
CHECK_DEADLOCK FALSE

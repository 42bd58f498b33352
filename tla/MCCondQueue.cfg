\* Two producers of two items, two consumers that are woken for nothing at most once.
SPECIFICATION FairSpec
CONSTANTS
    Producer = {P1, P2}
    Consumer = {C1, C2}
    Main = Main
    Thread = {P1, P2, C1, C2, Main}
    Backend = {"c11", "pthreads"}
    NULL = NULL
    Items = 2
    MaxUnasked = 1
INVARIANTS AnswersTellOwnership NoItemLost NotDestroyedInUse
PROPERTY AllConsumed
CHECK_DEADLOCK FALSE

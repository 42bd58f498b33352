\* A millisecond of three ticks of two nanoseconds each, a DWORD of four values
\* (so that 0, 1 and 2 milliseconds are finite) and a long long of 64: deadlines
\* from the past to beyond what the DWORD can express; the clock goes on until
\* the latest sleep is over.
SPECIFICATION FairSpec
CONSTANTS
    Tick = 2
    TicksPerMs = 3
    Dword = 4
    Qword = 64
    Deadline = {0, 3, 4, 7, 11, 12, 13, 17, 18, 20, 25, 31}
    Never = Never
    MaxCall = 14
    MaxDelay = 2
    MaxNow = 30
INVARIANTS EarlyByLessThanAMillisecond NeverLate
PROPERTY TimedWaitEnds
CHECK_DEADLOCK FALSE

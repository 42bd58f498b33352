\* Two threads; those of a program that has called mulle_thread_tss_init may also end.
SPECIFICATION Spec
CONSTANTS
    Thread = {T1, T2}
    Key = {1, 2, 3}
    Destructor = {F1, F2}
    NULL = NULL
    FirstSize = 2
    MaxEntries = 3
    Base = {TRUE, FALSE}
    Calls = {"create", "free", "set", "exit", "return", "create in destructor", "set in destructor"}
INVARIANTS CountMatchesKeys SectionReady InitedAsserted
    TableMatchesKeys TableStays OwnDestructor ExitRunsDestructors
CHECK_DEADLOCK FALSE

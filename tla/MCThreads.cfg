\* The main thread and three others, all of which create, join and detach; as many handles.
SPECIFICATION Spec
CONSTANTS
    Backend = {"windows", "c11", "pthreads"}
    MaxThread = 3
    Handle = {H1, H2, H3}
    Pseudo = Pseudo
    Rval <- MinusOne
    Dword = 8
    Qword = 16
    NULL = NULL
INVARIANTS JoinReturnsOwnResult JoinAfterDestructors HandleStandsForThread NoHandleLeak NeverJoinsItself
SYMMETRY Symmetry
CHECK_DEADLOCK FALSE

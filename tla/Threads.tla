------------------------------- MODULE Threads -------------------------------
(***************************************************************************)
(* The life of threads, on all three backends: create, the three ways to   *)
(* end (mulle_thread_exit, mulle_thread_return and a plain return), the    *)
(* destructors of thread specific values on the way, join and detach.      *)
(*                                                                         *)
(* On Windows a handle is an entry in a table of the system, which join    *)
(* closes after three calls with it and detach at once, and which Windows  *)
(* then gives out again.  The other backends leave that to the platform,   *)
(* which may give out a pthread_t or thrd_t again as well.  The program    *)
(* joins or detaches each thread it creates once, and leaves out itself by *)
(* mulle_thread_equal.                                                     *)
(***************************************************************************)
EXTENDS Integers

CONSTANTS Backend,    \* the backends, of "windows", "c11" and "pthreads"
          MaxThread,  \* bound on the threads created
          Handle,     \* the values of mulle_thread_t
          Pseudo,     \* that of GetCurrentThread, which stands for the caller
          Rval,       \* the int that threads end with
          Dword, Qword,  \* 2^32 and 2^64
          NULL

ASSUME ThreadsAssumption ==
    /\ Backend \subseteq {"windows", "c11", "pthreads"}
    /\ MaxThread \in Nat /\ Rval \subseteq Int
    /\ Dword \in Nat \ {0} /\ Qword \in Nat \ {0}
    /\ NULL \notin Handle \cup Nat /\ Pseudo \notin Handle \cup {NULL}

VARIABLES backend,
          life,      \* how far each thread is
          proper,    \* history: it ended by mulle_thread_exit or mulle_thread_return
          tss,       \* whether it ended with a value that has a destructor
          code,      \* what the system keeps of its end
          handle,    \* what create stored for it
          object,    \* what a handle stands for: a thread, or nothing
          owned,     \* the threads the program has yet to join or detach
          detached,  \* what the platforms other than Windows know of detach
          pc, target, rval,  \* each thread's join
          got,       \* what the join of a thread returned
          failed     \* history: the threads whose join failed to wait

lifeVars == <<life, proper, tss, code>>
joinVars == <<pc, target, rval, got, failed>>
vars == <<backend, lifeVars, handle, object, owned, detached, joinVars>>

Thread == 0 .. MaxThread  \* 0 is the main thread

\* A mulle_thread_rval_t, by its bits.
AsRval(r) == r % (IF backend = "pthreads" THEN Qword ELSE Dword)

STILL_ACTIVE == 259 % Dword

TypeOK == /\ backend \in Backend
          /\ life \in [Thread -> {"none", "running", "ending", "over"}]
          /\ proper \in [Thread -> BOOLEAN]
          /\ tss \in [Thread -> {"none", "value", "destroyed"}]
          /\ code \in [Thread -> Nat \cup {NULL}]
          /\ handle \in [Thread -> Handle \cup {NULL}]
          /\ object \in [Handle -> Thread \cup {NULL}]
          /\ owned \subseteq Thread /\ detached \subseteq Thread
          /\ pc \in [Thread -> {"run", "wait", "fetch", "close"}]
          /\ target \in [Thread -> Thread \cup {NULL}]
          /\ rval \in [Thread -> Nat]
          /\ got \in [Thread -> Nat \cup {NULL}]
          /\ failed \subseteq Thread

\* On Windows the main thread has no handle that anyone holds.
Init == /\ backend \in Backend
        /\ life = [t \in Thread |-> IF t = 0 THEN "running" ELSE "none"]
        /\ proper = [t \in Thread |-> FALSE]
        /\ tss = [t \in Thread |-> "none"]
        /\ code = [t \in Thread |-> NULL]
        /\ \E h \in Handle \cup {NULL} :
              /\ h = NULL <=> backend = "windows"
              /\ handle = [t \in Thread |-> IF t = 0 THEN h ELSE NULL]
              /\ object = [g \in Handle |-> IF g = h THEN 0 ELSE NULL]
        /\ owned = {} /\ detached = {}
        /\ pc = [t \in Thread |-> "run"]
        /\ target = [t \in Thread |-> NULL]
        /\ rval = [t \in Thread |-> 0]
        /\ got = [t \in Thread |-> NULL]
        /\ failed = {}

Runs(t) == life[t] = "running" /\ pc[t] = "run"

-----------------------------------------------------------------------------
(* Identity *)

\* mulle_thread_self, for thread u.
Self(u) == IF backend = "windows" THEN Pseudo ELSE handle[u]

\* mulle_thread_get_id, as called by u.
GetId(u, h) == IF backend # "windows" THEN h
               ELSE IF h = Pseudo THEN u ELSE object[h]

\* Mutant: the handles themselves are compared.
EqualHandles(u, h) == h = Self(u)

\* mulle_thread_equal of h and the caller's own handle.
EqualsSelf(u, h) == GetId(u, h) = GetId(u, Self(u))

-----------------------------------------------------------------------------
(* Beginning and end of a thread *)

Create(u) ==
    /\ Runs(u)
    /\ \E t \in Thread, h \in Handle :
          /\ life[t] = "none" /\ \A s \in 0 .. t - 1 : life[s] # "none"
          /\ object[h] = NULL
          /\ life' = [life EXCEPT ![t] = "running"]
          /\ handle' = [handle EXCEPT ![t] = h]
          /\ object' = [object EXCEPT ![h] = t]
          /\ owned' = owned \cup {t}
    /\ UNCHANGED <<backend, proper, tss, code, detached, joinVars>>

\* Thread t has returned r from its function, or called mulle_thread_exit with it, and
\* has set a value that has a destructor, or not.
Leave(t, r, label, properly) ==
    /\ Runs(t) /\ t # 0
    /\ \E v \in {"none", "value"} : tss' = [tss EXCEPT ![t] = v]
    /\ life' = [life EXCEPT ![t] = label]
    /\ code' = [code EXCEPT ![t] = AsRval(r)]
    /\ proper' = [proper EXCEPT ![t] = properly]
    /\ UNCHANGED <<backend, handle, object, owned, detached, joinVars>>

\* Mutant: on Windows, mulle_thread_return only returns.
ReturnOnly(t) == Leave(t, 0, IF backend = "windows" THEN "over" ELSE "ending", TRUE)

\* mulle_thread_exit and mulle_thread_return run the destructors on Windows ...
Exit(t) == \E r \in Rval : Leave(t, r, "ending", TRUE)

Return(t) == Leave(t, 0, "ending", TRUE)

\* ... while after a plain return only the other platforms do.
PlainReturn(t) == \E r \in Rval : Leave(t, r, IF backend = "windows" THEN "over" ELSE "ending", FALSE)

RunDestructor(t) ==
    /\ life[t] = "ending" /\ tss[t] = "value"
    /\ tss' = [tss EXCEPT ![t] = "destroyed"]
    /\ UNCHANGED <<backend, life, proper, code, handle, object, owned, detached, joinVars>>

\* What the platform keeps of a detached thread ends with it.
Terminate(t) ==
    /\ life[t] = "ending" /\ tss[t] # "value"
    /\ life' = [life EXCEPT ![t] = "over"]
    /\ object' = IF t \in detached THEN [object EXCEPT ![handle[t]] = NULL] ELSE object
    /\ UNCHANGED <<backend, proper, tss, code, handle, owned, detached, joinVars>>

-----------------------------------------------------------------------------
(* Join and detach *)

Goto(u, label) == pc' = [pc EXCEPT ![u] = label]

Joined(u) == handle[target[u]]

\* The join of thread u returns r.
JoinReturns(u, r) == /\ got' = [got EXCEPT ![target[u]] = r]
                     /\ target' = [target EXCEPT ![u] = NULL]
                     /\ Goto(u, "run")

\* On Windows rval is preset with (mulle_thread_native_rval_t) -1.
Join(u) ==
    /\ Runs(u)
    /\ \E t \in owned : /\ ~EqualsSelf(u, handle[t])
                        /\ owned' = owned \ {t}
                        /\ target' = [target EXCEPT ![u] = t]
    /\ rval' = [rval EXCEPT ![u] = AsRval(-1)]
    /\ Goto(u, "wait")
    /\ UNCHANGED <<backend, lifeVars, handle, object, detached, got, failed>>

\* pthread_join and thrd_join do it all.
JoinPlatform(u) ==
    /\ pc[u] = "wait" /\ backend # "windows" /\ life[target[u]] = "over"
    /\ object' = [object EXCEPT ![Joined(u)] = NULL]
    /\ JoinReturns(u, code[target[u]])
    /\ UNCHANGED <<backend, lifeVars, handle, owned, detached, rval, failed>>

Over(h) == object[h] # NULL /\ life[object[h]] = "over"

\* Mutant: the handle is closed as soon as the thread is over.
JoinWaitCloses(u) ==
    /\ pc[u] = "wait" /\ backend = "windows" /\ Over(Joined(u))
    /\ object' = [object EXCEPT ![Joined(u)] = NULL]
    /\ Goto(u, "fetch")
    /\ UNCHANGED <<backend, lifeVars, handle, owned, detached, target, rval, got, failed>>

JoinWait(u) ==
    /\ pc[u] = "wait" /\ backend = "windows" /\ Over(Joined(u))
    /\ Goto(u, "fetch")
    /\ UNCHANGED <<backend, lifeVars, handle, object, owned, detached, target, rval, got, failed>>

\* Mutant: as before 4.10, the handle is not closed.
JoinFailsLeaks(u) ==
    /\ pc[u] = "wait" /\ backend = "windows"
    /\ JoinReturns(u, rval[u])
    /\ failed' = failed \cup {target[u]}
    /\ UNCHANGED <<backend, lifeVars, handle, object, owned, detached, rval>>

\* Mutant: having closed the handle, the code goes on to close it again.
JoinFailsGoesOn(u) ==
    /\ pc[u] = "wait" /\ backend = "windows"
    /\ object' = [object EXCEPT ![Joined(u)] = NULL]
    /\ Goto(u, "close")
    /\ failed' = failed \cup {target[u]}
    /\ UNCHANGED <<backend, lifeVars, handle, owned, detached, target, rval, got>>

\* WaitForSingleObject fails.
JoinFails(u) ==
    /\ pc[u] = "wait" /\ backend = "windows"
    /\ object' = [object EXCEPT ![Joined(u)] = NULL]
    /\ JoinReturns(u, rval[u])
    /\ failed' = failed \cup {target[u]}
    /\ UNCHANGED <<backend, lifeVars, handle, owned, detached, rval>>

\* GetExitCodeThread
JoinFetch(u) ==
    /\ pc[u] = "fetch"
    /\ rval' = [rval EXCEPT ![u] = IF object[Joined(u)] = NULL THEN @
                                   ELSE IF Over(Joined(u)) THEN code[object[Joined(u)]]
                                   ELSE STILL_ACTIVE]
    /\ Goto(u, "close")
    /\ UNCHANGED <<backend, lifeVars, handle, object, owned, detached, target, got, failed>>

JoinClose(u) ==
    /\ pc[u] = "close"
    /\ object' = [object EXCEPT ![Joined(u)] = NULL]
    /\ JoinReturns(u, rval[u])
    /\ UNCHANGED <<backend, lifeVars, handle, owned, detached, rval, failed>>

\* On Windows the handle is closed, elsewhere kept for as long as the thread runs.
Detach(u) ==
    /\ Runs(u)
    /\ \E t \in owned :
          /\ owned' = owned \ {t}
          /\ detached' = IF backend = "windows" THEN detached ELSE detached \cup {t}
          /\ object' = IF backend = "windows" \/ life[t] = "over"
                       THEN [object EXCEPT ![handle[t]] = NULL] ELSE object
    /\ UNCHANGED <<backend, lifeVars, handle, joinVars>>

Next == \E t \in Thread :
           \/ Create(t) \/ Exit(t) \/ Return(t) \/ PlainReturn(t)
           \/ RunDestructor(t) \/ Terminate(t)
           \/ Join(t) \/ JoinPlatform(t) \/ JoinWait(t) \/ JoinFails(t) \/ JoinFetch(t) \/ JoinClose(t)
           \/ Detach(t)

Spec == Init /\ [][Next]_vars

-----------------------------------------------------------------------------
(* Properties *)

BeingJoined == {target[u] : u \in Thread} \ {NULL}

\* "mulle_thread_join returns the thread function's value": unless the wait fails, it
\* returns what the very thread that was joined ended with, and after it has ended,
\* though handles are given out again.
JoinReturnsOwnResult == \A t \in Thread : got[t] # NULL =>
    IF t \in failed THEN got[t] = AsRval(-1)
    ELSE life[t] = "over" /\ got[t] = code[t]

\* "(on Windows it also flushes TSS destructors)": who has joined a thread that ended
\* by mulle_thread_exit or mulle_thread_return comes after its destructors, on every
\* backend.
JoinAfterDestructors == \A t \in Thread :
    got[t] # NULL /\ t \notin failed /\ proper[t] => tss[t] # "value"

\* Until a thread is joined or detached, its handle stands for it, whatever the joins
\* and detaches of other threads close.
HandleStandsForThread == \A t \in owned \cup BeingJoined : object[handle[t]] = t

\* "joined threads no longer leak their kernel handle": what handles are open belong
\* to threads that are still to be joined or detached, or, but on Windows, still run.
NoHandleLeak == \A h \in Handle : object[h] \notin {NULL, 0} =>
    \/ object[h] \in owned \cup BeingJoined
    \/ backend # "windows" /\ object[h] \in detached /\ life[object[h]] # "over"

\* "let you ... compare thread handles": a thread that leaves out the handle equal to
\* its own never waits for its own end.
NeverJoinsItself == \A u \in Thread : target[u] # u
=============================================================================

------------------------------- MODULE Monitor -------------------------------
(***************************************************************************)
(* A mutex with a condition variable as the library documents them for     *)
(* every backend: the mutex is not recursive; a wait gives it up and joins *)
(* the waiters in one step, and comes back only as the owner again; a      *)
(* waiter may wake without a signal, by timeout or spuriously.             *)
(***************************************************************************)
CONSTANTS Thread, NULL

VARIABLES owner,    \* the thread that has the mutex, or NULL
          waiting,  \* the threads in a wait that nothing has woken yet
          woken     \* the threads in a wait that are to get the mutex back

vars == <<owner, waiting, woken>>

Init == owner = NULL /\ waiting = {} /\ woken = {}

Lock(t) == /\ owner = NULL /\ t \notin waiting \cup woken
           /\ owner' = t
           /\ UNCHANGED <<waiting, woken>>

Unlock(t) == /\ owner = t
             /\ owner' = NULL
             /\ UNCHANGED <<waiting, woken>>

Wait(t) == /\ owner = t
           /\ owner' = NULL
           /\ waiting' = waiting \cup {t}
           /\ UNCHANGED woken

Wake(S) == /\ S \subseteq waiting
           /\ waiting' = waiting \ S
           /\ woken' = woken \cup S
           /\ UNCHANGED owner

Signal == \/ waiting = {} /\ UNCHANGED vars
          \/ \E t \in waiting : Wake({t})

Broadcast == Wake(waiting)

\* By timeout, or spuriously.
WakeUnasked(t) == t \in waiting /\ Wake({t})

\* The wait of t is over.
Relock(t) == /\ t \in woken /\ owner = NULL
             /\ owner' = t
             /\ woken' = woken \ {t}
             /\ UNCHANGED waiting

Next == \/ \E t \in Thread : \/ Lock(t) \/ Unlock(t) \/ Wait(t)
                             \/ WakeUnasked(t) \/ Relock(t)
        \/ Signal \/ Broadcast

Spec == Init /\ [][Next]_vars
=============================================================================

----------------------------- MODULE PosixMutex -----------------------------
(***************************************************************************)
(* The mutex and condition variable of the C11 and pthreads backends: each *)
(* function is one call of the platform, whose result, in the platform's   *)
(* own codes, is turned into the library's 0, EBUSY, ETIMEDOUT or -1.  A    *)
(* client knows whether it has the mutex by that answer only.              *)
(***************************************************************************)
CONSTANTS Thread,
          Backend,  \* the backends, of "c11" and "pthreads"
          NULL

ASSUME PosixMutexAssumption == Backend \subseteq {"c11", "pthreads"} /\ NULL \notin Thread

VARIABLES backend,
          exists,   \* are the platform's mutex and condition variable set up?
          mutex,    \* the thread that holds the platform's mutex, or NULL
          waiting, woken,  \* the threads asleep on the condition variable, or to get the mutex back
          expired,  \* those whose deadline woke them
          wait,     \* the kind of wait that t is in
          answer,   \* what t's last call returned
          has       \* the client: the threads that take themselves for the owner

mutexVars == <<backend, exists, mutex, waiting, woken, expired, wait, answer, has>>

MutexTypeOK == /\ backend \in Backend /\ exists \in BOOLEAN
               /\ mutex \in Thread \cup {NULL}
               /\ waiting \subseteq Thread /\ woken \subseteq Thread /\ expired \subseteq woken
               /\ wait \in [Thread -> {"none", "wait", "timedwait"}]
               /\ answer \in [Thread -> {"0", "EBUSY", "ETIMEDOUT", "-1"}]
               /\ has \subseteq Thread

MutexInit == /\ backend \in Backend /\ exists = FALSE
             /\ mutex = NULL /\ waiting = {} /\ woken = {} /\ expired = {}
             /\ wait = [t \in Thread |-> "none"]
             /\ answer = [t \in Thread |-> "0"]
             /\ has = {}

-----------------------------------------------------------------------------
(* Results *)

Code == IF backend = "c11"
        THEN [success |-> "thrd_success", busy |-> "thrd_busy",
              timedout |-> "thrd_timedout", error |-> "thrd_error"]
        ELSE [success |-> "0", busy |-> "EBUSY", timedout |-> "ETIMEDOUT", error |-> "EINVAL"]

\* Every function but two knows success and failure only.
Answer(code) == IF code = Code.success THEN "0" ELSE "-1"

\* Mutant: whatever is not an error is a success.
TrylockAnswerLax(code) == IF code = Code.error THEN "-1" ELSE "0"

TrylockAnswer(code) ==
    IF backend = "pthreads" THEN IF code \in {"0", "EBUSY"} THEN code ELSE "-1"
    ELSE CASE code = "thrd_success" -> "0"
           [] code = "thrd_busy" -> "EBUSY"
           [] OTHER -> "-1"

TimedwaitAnswer(code) ==
    IF backend = "pthreads" THEN IF code \in {"0", "ETIMEDOUT"} THEN code ELSE "-1"
    ELSE IF code = "thrd_timedout" THEN "ETIMEDOUT" ELSE Answer(code)

\* t's call returns a; the client takes itself for the owner if `owning'.
Returns(t, a, owning) == /\ answer' = [answer EXCEPT ![t] = a]
                         /\ has' = IF owning THEN has \cup {t} ELSE has \ {t}

InCall(t) == wait[t] # "none"

-----------------------------------------------------------------------------
(* Mutex *)

\* The platform, which may be out of memory, answers with code.
InitMutexAndCond(t, code) ==
    /\ ~exists /\ ~InCall(t)
    /\ code \in {Code.success, Code.error}
    /\ exists' = (code = Code.success)
    /\ Returns(t, Answer(code), FALSE)
    /\ UNCHANGED <<backend, mutex, waiting, woken, expired, wait>>

Lock(t) ==
    /\ exists /\ ~InCall(t) /\ mutex = NULL
    /\ mutex' = t
    /\ Returns(t, Answer(Code.success), Answer(Code.success) = "0")
    /\ UNCHANGED <<backend, exists, waiting, woken, expired, wait>>

Trylock(t) ==
    /\ exists /\ ~InCall(t)
    /\ mutex' = IF mutex = NULL THEN t ELSE mutex
    /\ LET a == TrylockAnswer(IF mutex = NULL THEN Code.success ELSE Code.busy)
       IN Returns(t, a, a = "0")
    /\ UNCHANGED <<backend, exists, waiting, woken, expired, wait>>

Unlock(t) ==
    /\ exists /\ ~InCall(t) /\ t \in has
    /\ mutex' = NULL
    /\ Returns(t, Answer(Code.success), FALSE)
    /\ UNCHANGED <<backend, exists, waiting, woken, expired, wait>>

\* Both are destroyed; C11 has nothing to answer, and pthreads refuses a locked mutex.
Done(t) ==
    /\ exists /\ ~InCall(t)
    /\ exists' = FALSE
    /\ Returns(t, IF backend = "c11" THEN "0"
                  ELSE Answer(IF mutex = NULL THEN Code.success ELSE Code.busy), FALSE)
    /\ UNCHANGED <<backend, mutex, waiting, woken, expired, wait>>

-----------------------------------------------------------------------------
(* Condition variable *)

\* The platform gives the mutex up and begins to wait in one step.
Wait(t, kind) ==
    /\ exists /\ ~InCall(t) /\ t \in has
    /\ mutex' = NULL
    /\ waiting' = waiting \cup {t}
    /\ wait' = [wait EXCEPT ![t] = kind]
    /\ has' = has \ {t}
    /\ UNCHANGED <<backend, exists, woken, expired, answer>>

Wake(S) == /\ waiting' = waiting \ S
           /\ woken' = woken \cup S
           /\ UNCHANGED <<backend, exists, mutex, wait>>

\* Mutant: the return from a wait that has timed out does not wait for the mutex.
AwakeWithout(t) ==
    /\ t \in woken /\ (mutex = NULL \/ t \in expired)
    /\ mutex' = IF mutex = NULL THEN t ELSE mutex
    /\ woken' = woken \ {t} /\ expired' = expired \ {t}
    /\ wait' = [wait EXCEPT ![t] = "none"]
    /\ Returns(t, "0", TRUE)
    /\ UNCHANGED <<backend, exists, waiting>>

\* A wait returns with the mutex, whatever it answers.
Awake(t) ==
    /\ t \in woken /\ mutex = NULL
    /\ mutex' = t
    /\ woken' = woken \ {t} /\ expired' = expired \ {t}
    /\ wait' = [wait EXCEPT ![t] = "none"]
    /\ Returns(t, IF t \in expired THEN TimedwaitAnswer(Code.timedout)
                  ELSE IF wait[t] = "timedwait" THEN TimedwaitAnswer(Code.success)
                  ELSE Answer(Code.success), TRUE)
    /\ UNCHANGED <<backend, exists, waiting>>

Signal(t) ==
    /\ exists /\ ~InCall(t)
    /\ \/ waiting = {} /\ Wake({})
       \/ \E u \in waiting : Wake({u})
    /\ Returns(t, Answer(Code.success), t \in has)
    /\ UNCHANGED expired

\* Mutant: broadcast calls the platform's signal.
BroadcastSignals(t) == Signal(t)

Broadcast(t) ==
    /\ exists /\ ~InCall(t)
    /\ Wake(waiting)
    /\ Returns(t, Answer(Code.success), t \in has)
    /\ UNCHANGED expired

TimeOut(t) ==
    /\ t \in waiting /\ wait[t] = "timedwait"
    /\ Wake({t})
    /\ expired' = expired \cup {t}
    /\ UNCHANGED <<answer, has>>

WakeSpuriously(t) ==
    /\ t \in waiting
    /\ Wake({t})
    /\ UNCHANGED <<expired, answer, has>>

-----------------------------------------------------------------------------
(* Property *)

\* "`0` on success", "`EBUSY`": outside of calls, who by its answers takes itself for
\* the owner has the platform's mutex, on both backends, and no one else has.
AnswersTellOwnership == \A t \in Thread : ~InCall(t) => (t \in has <=> mutex = t)
=============================================================================

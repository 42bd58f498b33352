---------------------------- MODULE WindowsMutex ----------------------------
(***************************************************************************)
(* The Windows mutex and its condition variable: a CRITICAL_SECTION, which *)
(* Windows lets its owner enter again, made non-recursive by an atomic     *)
(* owner id that is read without the section; and a wait that sleeps on    *)
(* the section.  Each access to the owner and each system call is a step.  *)
(* Clients unlock and wait only with the mutex, but may try to lock it     *)
(* again, which is to block them for good as on the other backends.        *)
(***************************************************************************)
EXTENDS Naturals

CONSTANTS Thread, NULL

ASSUME WindowsMutexAssumption == NULL \notin Thread

VARIABLES section,  \* the thread inside the CRITICAL_SECTION, or NULL
          entries,  \* how often it has entered
          owner,    \* the atomic owner id
          waiting, woken,  \* the threads asleep on the CONDITION_VARIABLE
          pc,       \* the next step of t's call
          has       \* the client: the threads that were given the mutex

vars == <<section, entries, owner, waiting, woken, pc, has>>

Label == {"idle",      \* in no call
          "enter", "try", "own", "leave",
          "sleep", "asleep",
          "stuck"}     \* the endless loop of a recursive lock

TypeOK == /\ section \in Thread \cup {NULL}
          /\ entries \in Nat
          /\ owner \in Thread \cup {NULL}
          /\ waiting \subseteq Thread /\ woken \subseteq Thread
          /\ pc \in [Thread -> Label]
          /\ has \subseteq Thread

Init == /\ section = NULL /\ entries = 0 /\ owner = NULL
        /\ waiting = {} /\ woken = {}
        /\ pc = [t \in Thread |-> "idle"]
        /\ has = {}

Goto(t, label) == pc' = [pc EXCEPT ![t] = label]

-----------------------------------------------------------------------------
(* The CRITICAL_SECTION *)

MayEnter(t) == section \in {NULL, t}

EnterSection(t) == /\ MayEnter(t)
                   /\ section' = t
                   /\ entries' = entries + 1

LeaveSection(t) == /\ entries' = entries - 1
                   /\ section' = IF entries = 1 THEN NULL ELSE t

-----------------------------------------------------------------------------
(* Lock, trylock and unlock *)

\* Mutant: lock enters the section without looking at the owner.
LockUnchecked(t) ==
    /\ pc[t] = "idle"
    /\ Goto(t, "enter")
    /\ UNCHANGED <<section, entries, owner, waiting, woken, has>>

\* The owner itself is caught before it can enter the section again.
Lock(t) ==
    /\ pc[t] = "idle"
    /\ Goto(t, IF owner = t THEN "stuck" ELSE "enter")
    /\ UNCHANGED <<section, entries, owner, waiting, woken, has>>

Enter(t) ==
    /\ pc[t] = "enter"
    /\ EnterSection(t)
    /\ Goto(t, "own")
    /\ UNCHANGED <<owner, waiting, woken, has>>

\* Trylock answers EBUSY to the owner.
Trylock(t) ==
    /\ pc[t] = "idle"
    /\ Goto(t, IF owner = t THEN "idle" ELSE "try")
    /\ UNCHANGED <<section, entries, owner, waiting, woken, has>>

\* Mutant: the result of TryEnterCriticalSection is ignored.
TryEnterUnchecked(t) ==
    /\ pc[t] = "try"
    /\ (IF MayEnter(t) THEN EnterSection(t) ELSE UNCHANGED <<section, entries>>)
    /\ Goto(t, "own")
    /\ UNCHANGED <<owner, waiting, woken, has>>

TryEnter(t) ==
    /\ pc[t] = "try"
    /\ \/ EnterSection(t) /\ Goto(t, "own")
       \/ ~MayEnter(t) /\ Goto(t, "idle") /\ UNCHANGED <<section, entries>>
    /\ UNCHANGED <<owner, waiting, woken, has>>

\* The write of the owner that ends lock, trylock and the waits.
WriteOwner(t) ==
    /\ pc[t] = "own"
    /\ owner' = t
    /\ has' = has \cup {t}
    /\ Goto(t, "idle")
    /\ UNCHANGED <<section, entries, waiting, woken>>

Unlock(t) ==
    /\ pc[t] = "idle" /\ t \in has /\ owner = t
    /\ owner' = NULL
    /\ has' = has \ {t}
    /\ Goto(t, "leave")
    /\ UNCHANGED <<section, entries, waiting, woken>>

Leave(t) ==
    /\ pc[t] = "leave"
    /\ LeaveSection(t)
    /\ Goto(t, "idle")
    /\ UNCHANGED <<owner, waiting, woken, has>>

-----------------------------------------------------------------------------
(* Condition variable *)

\* Mutant: the owner id is kept through the wait.
WaitKeepsOwner(t) ==
    /\ pc[t] = "idle" /\ t \in has
    /\ has' = has \ {t}
    /\ Goto(t, "sleep")
    /\ UNCHANGED <<section, entries, owner, waiting, woken>>

\* Mutant: the wait unlocks the mutex and goes to sleep after that.
WaitUnlocksFirst(t) ==
    /\ pc[t] = "idle" /\ t \in has
    /\ owner' = NULL
    /\ LeaveSection(t)
    /\ has' = has \ {t}
    /\ Goto(t, "sleep")
    /\ UNCHANGED <<waiting, woken>>

\* cond_wait and cond_timedwait clear the owner first ...
WaitClearOwner(t) ==
    /\ pc[t] = "idle" /\ t \in has
    /\ owner' = NULL
    /\ has' = has \ {t}
    /\ Goto(t, "sleep")
    /\ UNCHANGED <<section, entries, waiting, woken>>

\* ... SleepConditionVariableCS leaves the section once and sleeps, in one step ...
Sleep(t) ==
    /\ pc[t] = "sleep"
    /\ LeaveSection(t)
    /\ waiting' = waiting \cup {t}
    /\ Goto(t, "asleep")
    /\ UNCHANGED <<owner, woken, has>>

\* ... and, awake, has entered it again when it returns.
Awake(t) ==
    /\ pc[t] = "asleep" /\ t \in woken /\ section = NULL
    /\ EnterSection(t)
    /\ woken' = woken \ {t}
    /\ Goto(t, "own")
    /\ UNCHANGED <<owner, waiting, has>>

Wake(S) == /\ waiting' = waiting \ S
           /\ woken' = woken \cup S
           /\ UNCHANGED <<section, entries, owner, pc, has>>

\* Any thread may signal, with or without the mutex.
Signal(t) == pc[t] = "idle" /\ \E u \in waiting : Wake({u})

Broadcast(t) == pc[t] = "idle" /\ waiting # {} /\ Wake(waiting)

WakeUnasked(t) == t \in waiting /\ Wake({t})

Next == \E t \in Thread :
           \/ Lock(t) \/ Enter(t) \/ Trylock(t) \/ TryEnter(t) \/ WriteOwner(t)
           \/ Unlock(t) \/ Leave(t)
           \/ WaitClearOwner(t) \/ Sleep(t) \/ Awake(t)
           \/ Signal(t) \/ Broadcast(t) \/ WakeUnasked(t)

Spec == Init /\ [][Next]_vars

-----------------------------------------------------------------------------
(* Properties *)

\* Of the threads that were given the mutex and have neither unlocked it nor
\* begun to wait there is at most one.
MutualExclusion == \A t, u \in has : t = u

\* "a non-owning thread can never observe a stale owner": whoever finds its own
\* id is inside the section, so that no lock is taken for a recursive one,
\* and the endless loop is entered by the owner only.
OwnIdMeansInside == /\ owner # NULL => section = owner
                    /\ \A t \in Thread : pc[t] = "stuck" => t \in has

\* The mutex is not recursive: the thread inside never goes to enter the
\* section again, which would let it in.
NeverReentered == \A t \in Thread : pc[t] \in {"enter", "try"} => section # t

\* Seen from outside it is the documented Monitor: taken with the section, and
\* given up by a wait in the same step in which the waiter can be woken.
Abstract == INSTANCE Monitor WITH owner <- section

ImplementsMonitor == Abstract!Spec
=============================================================================

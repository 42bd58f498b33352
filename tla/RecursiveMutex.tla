--------------------------- MODULE RecursiveMutex ---------------------------
(***************************************************************************)
(* mulle_thread_recursive_mutex_lock, _trylock and _unlock: a plain mutex, *)
(* an atomic thread id that is read without holding it, and an atomic      *)
(* depth.  Each atomic access and each mutex call is one step.  Clients    *)
(* unlock only what they have locked; a lock that fails is not a case, as  *)
(* the code ignores the result of mulle_thread_mutex_lock.                 *)
(***************************************************************************)
EXTENDS Naturals

CONSTANTS Thread, NULL,
          MaxHolds   \* bound: how deep a client nests

ASSUME RecursiveMutexAssumption == /\ NULL \notin Thread
                                   /\ MaxHolds \in Nat \ {0}

VARIABLES mutex,      \* who holds _mutex
          thread_id,  \* _thread_id
          depth,      \* _depth
          pc,         \* the next access of t's call, "idle" outside of calls
          nest        \* the client: how many of t's locks are not yet unlocked

vars == <<mutex, thread_id, depth, pc, nest>>

TypeOK == /\ mutex \in Thread \cup {NULL}
          /\ thread_id \in Thread \cup {NULL}
          /\ depth \in Nat
          /\ pc \in [Thread -> {"idle", "lock", "try", "check", "write_id",
                                "increment", "clear_id", "unlock"}]
          /\ nest \in [Thread -> Nat]

\* mulle_thread_recursive_mutex_init
Init == /\ mutex = NULL
        /\ thread_id = NULL
        /\ depth = 0
        /\ pc = [t \in Thread |-> "idle"]
        /\ nest = [t \in Thread |-> 0]

Goto(t, label) == pc' = [pc EXCEPT ![t] = label]

\* Mutant: the owner is not recognised.
ReadOwnerIgnored(t, wanted) ==
    /\ pc[t] = "idle" /\ nest[t] < MaxHolds
    /\ Goto(t, wanted)
    /\ UNCHANGED <<mutex, thread_id, depth, nest>>

\* The unlocked look at the thread id that lock and trylock begin with: the
\* owner goes on to the depth, anyone else to the mutex by the call wanted.
ReadOwner(t, wanted) ==
    /\ pc[t] = "idle" /\ nest[t] < MaxHolds
    /\ Goto(t, IF thread_id = t THEN "increment" ELSE wanted)
    /\ UNCHANGED <<mutex, thread_id, depth, nest>>

Lock(t) == ReadOwner(t, "lock")
Trylock(t) == ReadOwner(t, "try")

\* mulle_thread_mutex_lock blocks while the mutex is held, also by the caller.
LockMutex(t) ==
    /\ pc[t] = "lock" /\ mutex = NULL
    /\ mutex' = t
    /\ Goto(t, "check")
    /\ UNCHANGED <<thread_id, depth, nest>>

\* assert( NULL == _mulle_atomic_pointer_read( &p->_thread_id))
AssertNoOwner(t) ==
    /\ pc[t] = "check" /\ thread_id = NULL
    /\ Goto(t, "write_id")
    /\ UNCHANGED <<mutex, thread_id, depth, nest>>

\* Mutant: the result of the inner trylock is not looked at.
TrylockUnchecked(t) ==
    /\ pc[t] = "try"
    /\ mutex' = t
    /\ Goto(t, "write_id")
    /\ UNCHANGED <<thread_id, depth, nest>>

TrylockMutex(t) ==
    /\ pc[t] = "try"
    /\ \/ mutex = NULL /\ mutex' = t /\ Goto(t, "write_id")
       \/ mutex # NULL /\ Goto(t, "idle") /\ UNCHANGED mutex
    /\ UNCHANGED <<thread_id, depth, nest>>

WriteId(t) ==
    /\ pc[t] = "write_id"
    /\ thread_id' = t
    /\ Goto(t, "increment")
    /\ UNCHANGED <<mutex, depth, nest>>

Increment(t) ==
    /\ pc[t] = "increment"
    /\ depth' = depth + 1
    /\ nest' = [nest EXCEPT ![t] = @ + 1]
    /\ Goto(t, "idle")
    /\ UNCHANGED <<mutex, thread_id>>

\* Mutant: off by one, the last but one unlock releases.
UnlockEarly(t) ==
    /\ pc[t] = "idle" /\ nest[t] > 0 /\ thread_id = t
    /\ depth' = depth - 1
    /\ nest' = [nest EXCEPT ![t] = @ - 1]
    /\ Goto(t, IF depth > 2 THEN "idle" ELSE "clear_id")
    /\ UNCHANGED <<mutex, thread_id>>

\* Unlock asserts that the caller is the owner; the decrement returns the
\* previous depth, and only from 1 does the unlock go on.
Unlock(t) ==
    /\ pc[t] = "idle" /\ nest[t] > 0 /\ thread_id = t
    /\ depth' = depth - 1
    /\ nest' = [nest EXCEPT ![t] = @ - 1]
    /\ Goto(t, IF depth > 1 THEN "idle" ELSE "clear_id")
    /\ UNCHANGED <<mutex, thread_id>>

\* Mutant: the thread id is left behind.
ClearIdForgotten(t) ==
    /\ pc[t] = "clear_id"
    /\ Goto(t, "unlock")
    /\ UNCHANGED <<mutex, thread_id, depth, nest>>

ClearId(t) ==
    /\ pc[t] = "clear_id"
    /\ thread_id' = NULL
    /\ Goto(t, "unlock")
    /\ UNCHANGED <<mutex, depth, nest>>

UnlockMutex(t) ==
    /\ pc[t] = "unlock"
    /\ mutex' = NULL
    /\ Goto(t, "idle")
    /\ UNCHANGED <<thread_id, depth, nest>>

Next == \E t \in Thread :
           \/ Lock(t) \/ Trylock(t) \/ LockMutex(t) \/ AssertNoOwner(t)
           \/ TrylockMutex(t) \/ WriteId(t) \/ Increment(t)
           \/ Unlock(t) \/ ClearId(t) \/ UnlockMutex(t)

Spec == Init /\ [][Next]_vars

-----------------------------------------------------------------------------
(* Properties *)

\* The mutex excludes: while a client is between a lock and the unlock that
\* matches it, no other client is, although the owner test reads the thread id
\* without holding anything.
MutualExclusion == \A t, u \in Thread : nest[t] > 0 /\ nest[u] > 0 => t = u

\* The assertions of lock and unlock hold: who gets the mutex finds no thread
\* id left behind, and who unlocks what it has locked is the owner.
AssertionsHold == \A t \in Thread :
    /\ pc[t] = "check" => thread_id = NULL
    /\ pc[t] = "idle" /\ nest[t] > 0 => thread_id = t

\* The owner is never sent to the mutex it holds, where its lock would block
\* for good and its trylock would fail.
OwnerNeverBlocks == \A t \in Thread : pc[t] \in {"lock", "try"} => mutex # t

\* Between calls the depth is the number of unlocks the owner still owes, so
\* that the mutex is released by the last unlock and by no earlier one.
DepthIsNesting == \A t \in Thread : pc[t] = "idle" /\ nest[t] > 0 => depth = nest[t]

\* Seen from outside it is a ReentrantLock: the outermost lock takes effect
\* with the mutex and the outermost unlock with its release, the inner ones
\* with the change of the depth.
Holds == IF mutex = NULL THEN 0 ELSE IF depth = 0 THEN 1 ELSE depth

Abstract == INSTANCE ReentrantLock WITH owner <- mutex, holds <- Holds

ImplementsReentrantLock == Abstract!Spec
=============================================================================

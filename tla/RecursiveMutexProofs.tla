------------------------ MODULE RecursiveMutexProofs ------------------------
(***************************************************************************)
(* Proofs about RecursiveMutex, for any threads and any depth of nesting.  *)
(***************************************************************************)
EXTENDS RecursiveMutex, TLAPS

\* Without the mutex a thread is at most trying to get it.
OutsideIdle == \A t \in Thread : mutex # t =>
                  pc[t] \in {"idle", "lock", "try"} /\ nest[t] = 0

\* With the mutex the depth is the client's, and the thread id is set exactly
\* from the write in lock to the write in unlock.
HolderState == \A t \in Thread : mutex = t =>
    /\ depth = nest[t]
    /\ pc[t] \notin {"lock", "try"}
    /\ pc[t] \in {"check", "write_id", "unlock"} => thread_id = NULL
    /\ pc[t] \in {"idle", "increment", "clear_id"} => thread_id = t
    /\ pc[t] = "idle" => nest[t] > 0
    /\ pc[t] \notin {"idle", "increment"} => nest[t] = 0

\* A free mutex has no traces of its last owner.
FreeState == mutex = NULL => thread_id = NULL /\ depth = 0

IInv == TypeOK /\ OutsideIdle /\ HolderState /\ FreeState

\* Only the holder of the mutex finds its own id.
LEMMA OwnId == ASSUME IInv, NEW t \in Thread, thread_id = t PROVE mutex = t
  BY RecursiveMutexAssumption DEF IInv, TypeOK, HolderState, FreeState

\* The initial state satisfies the invariant.
LEMMA IInvInit == Init => IInv
  BY RecursiveMutexAssumption
     DEF Init, IInv, TypeOK, OutsideIdle, HolderState, FreeState

\* Every step preserves it.
LEMMA IInvStep == IInv /\ [Next]_vars => IInv'
<1> SUFFICES ASSUME IInv, [Next]_vars PROVE IInv'
  OBVIOUS
<1> USE RecursiveMutexAssumption DEF IInv, TypeOK, OutsideIdle, HolderState, FreeState, Goto
<1>1. CASE UNCHANGED vars
  BY <1>1 DEF vars
<1>2. ASSUME NEW t \in Thread, NEW wanted \in {"lock", "try"}, ReadOwner(t, wanted)
      PROVE  IInv'
  <2>1. CASE thread_id = t
    BY <1>2, <2>1, OwnId DEF ReadOwner
  <2>2. CASE thread_id # t
    <3>1. mutex # t
      BY <1>2, <2>2 DEF ReadOwner
    <3> QED
      BY <1>2, <2>2, <3>1 DEF ReadOwner
  <2> QED
    BY <2>1, <2>2
<1>3. ASSUME NEW t \in Thread, LockMutex(t) PROVE IInv'
  BY <1>3 DEF LockMutex
<1>4. ASSUME NEW t \in Thread, AssertNoOwner(t) PROVE IInv'
  BY <1>4 DEF AssertNoOwner
<1>5. ASSUME NEW t \in Thread, TrylockMutex(t) PROVE IInv'
  BY <1>5 DEF TrylockMutex
<1>6. ASSUME NEW t \in Thread, WriteId(t) PROVE IInv'
  BY <1>6 DEF WriteId
<1>7. ASSUME NEW t \in Thread, Increment(t) PROVE IInv'
  BY <1>7 DEF Increment
<1>8. ASSUME NEW t \in Thread, Unlock(t) PROVE IInv'
  <2>1. mutex = t /\ depth = nest[t] /\ depth \in Nat \ {0}
    BY <1>8, OwnId DEF Unlock
  <2>2. CASE depth > 1
    BY <1>8, <2>1, <2>2 DEF Unlock
  <2>3. CASE depth = 1
    BY <1>8, <2>1, <2>3 DEF Unlock
  <2> QED
    BY <2>1, <2>2, <2>3
<1>9. ASSUME NEW t \in Thread, ClearId(t) PROVE IInv'
  BY <1>9 DEF ClearId
<1>10. ASSUME NEW t \in Thread, UnlockMutex(t) PROVE IInv'
  BY <1>10 DEF UnlockMutex
<1> QED
  BY <1>1, <1>2, <1>3, <1>4, <1>5, <1>6, <1>7, <1>8, <1>9, <1>10
     DEF Next, Lock, Trylock

\* The inductive invariant holds in every behaviour.
THEOREM Invariance == Spec => []IInv
  BY IInvInit, IInvStep, PTL DEF Spec

\* The types hold in every behaviour.
THEOREM TypeCorrect == Spec => []TypeOK
<1>1. IInv => TypeOK
  BY DEF IInv
<1> QED
  BY <1>1, Invariance, PTL

\* Two clients are never both between a lock and its unlock.
THEOREM MutualExclusionTheorem == Spec => []MutualExclusion
<1>1. IInv => MutualExclusion
  BY DEF IInv, TypeOK, OutsideIdle, MutualExclusion
<1> QED
  BY <1>1, Invariance, PTL

\* The assertions in lock and unlock never fail.
THEOREM AssertionsHoldTheorem == Spec => []AssertionsHold
<1>1. ASSUME IInv, NEW t \in Thread, pc[t] = "check" PROVE thread_id = NULL
  BY <1>1 DEF IInv, OutsideIdle, HolderState
<1>2. ASSUME IInv, NEW t \in Thread, pc[t] = "idle", nest[t] > 0 PROVE thread_id = t
  <2>1. mutex = t
    BY <1>2 DEF IInv, OutsideIdle
  <2> QED
    BY <1>2, <2>1 DEF IInv, HolderState
<1>3. IInv => AssertionsHold
  BY <1>1, <1>2 DEF AssertionsHold
<1> QED
  BY <1>3, Invariance, PTL

\* The owner never calls lock or trylock of the mutex it holds.
THEOREM OwnerNeverBlocksTheorem == Spec => []OwnerNeverBlocks
<1>1. IInv => OwnerNeverBlocks
  BY DEF IInv, HolderState, OwnerNeverBlocks
<1> QED
  BY <1>1, Invariance, PTL

\* Between calls the depth is the number of unlocks owed.
THEOREM DepthIsNestingTheorem == Spec => []DepthIsNesting
<1>1. IInv => DepthIsNesting
  BY DEF IInv, TypeOK, OutsideIdle, HolderState, DepthIsNesting
<1> QED
  BY <1>1, Invariance, PTL

\* An initial recursive mutex is a free lock without holds.
LEMMA AbstractInit == Init => Abstract!Init
  BY DEF Init, Abstract!Init, Holds

\* Each step takes, gives back, or changes neither the owner nor the holds.
LEMMA AbstractStep == IInv /\ IInv' /\ [Next]_vars => [Abstract!Next]_(Abstract!vars)
<1> SUFFICES ASSUME IInv, IInv', [Next]_vars PROVE [Abstract!Next]_(Abstract!vars)
  OBVIOUS
<1> USE RecursiveMutexAssumption DEF Holds, Abstract!vars
<1>1. CASE UNCHANGED vars
  BY <1>1 DEF vars
<1>2. ASSUME NEW t \in Thread, LockMutex(t) \/ TrylockMutex(t)
      PROVE  Abstract!Take(t) \/ UNCHANGED Abstract!vars
  <2>1. CASE mutex = NULL /\ mutex' = t /\ depth' = depth
    BY <2>1 DEF Abstract!Take, IInv, FreeState
  <2>2. CASE UNCHANGED <<mutex, depth>>
    BY <2>2
  <2> QED
    BY <1>2, <2>1, <2>2 DEF LockMutex, TrylockMutex
<1>3. ASSUME NEW t \in Thread, Increment(t)
      PROVE  Abstract!Take(t) \/ UNCHANGED Abstract!vars
  <2>1. mutex = t /\ depth \in Nat
    BY <1>3 DEF Increment, IInv, OutsideIdle, TypeOK
  <2> QED
    BY <1>3, <2>1 DEF Increment, Abstract!Take
<1>4. ASSUME NEW t \in Thread, Unlock(t)
      PROVE  Abstract!GiveBack(t) \/ UNCHANGED Abstract!vars
  <2>1. mutex = t /\ depth \in Nat \ {0}
    BY <1>4, OwnId DEF Unlock, IInv, HolderState, TypeOK
  <2> QED
    BY <1>4, <2>1 DEF Unlock, Abstract!GiveBack
<1>5. ASSUME NEW t \in Thread, UnlockMutex(t) PROVE Abstract!GiveBack(t)
  <2>1. mutex = t /\ depth = 0
    BY <1>5 DEF UnlockMutex, IInv, OutsideIdle, HolderState, TypeOK
  <2> QED
    BY <1>5, <2>1 DEF UnlockMutex, Abstract!GiveBack
<1>6. ASSUME NEW t \in Thread,
             \/ Lock(t) \/ Trylock(t) \/ AssertNoOwner(t) \/ WriteId(t) \/ ClearId(t)
      PROVE  UNCHANGED Abstract!vars
  BY <1>6 DEF Lock, Trylock, ReadOwner, AssertNoOwner, WriteId, ClearId
<1> QED
  BY <1>1, <1>2, <1>3, <1>4, <1>5, <1>6 DEF Next, Abstract!Next

\* The racy thread id and the separate depth implement one atomic reentrant
\* lock, for any number of threads.
THEOREM Implements == Spec => Abstract!Spec
  BY AbstractInit, AbstractStep, Invariance, PTL DEF Spec, Abstract!Spec
=============================================================================

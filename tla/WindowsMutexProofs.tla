------------------------- MODULE WindowsMutexProofs -------------------------
(***************************************************************************)
(* Proofs about WindowsMutex, for any threads.                             *)
(***************************************************************************)
EXTENDS WindowsMutex, TLAPS

\* The owner id is set exactly while a client has the mutex.
OwnerHas == has = IF owner = NULL THEN {} ELSE {owner}

\* Whoever has the mutex or is at a step that needs the section is inside,
\* and inside once; the section is left as it was found.
SectionState ==
    /\ section = NULL => entries = 0
    /\ section # NULL => entries = 1
    /\ \A t \in Thread :
          section = t <=> t \in has \/ pc[t] \in {"own", "leave", "sleep"}

\* Where the client of a call may be.
CallState == \A t \in Thread :
    /\ t \in has => pc[t] \in {"idle", "stuck"}
    /\ pc[t] = "stuck" => t \in has
    /\ t \in waiting \cup woken => pc[t] = "asleep"
    /\ ~(t \in waiting /\ t \in woken)

IInv == TypeOK /\ OwnerHas /\ SectionState /\ CallState

\* The initial state satisfies the invariant.
LEMMA IInvInit == Init => IInv
  BY WindowsMutexAssumption
     DEF Init, IInv, TypeOK, Label, OwnerHas, SectionState, CallState

\* Every step preserves it.
LEMMA IInvStep == IInv /\ [Next]_vars => IInv'
<1> SUFFICES ASSUME IInv, [Next]_vars PROVE IInv'
  OBVIOUS
<1> USE WindowsMutexAssumption
    DEF IInv, TypeOK, Label, OwnerHas, SectionState, CallState, Goto,
        MayEnter, EnterSection, LeaveSection
<1>1. CASE UNCHANGED vars
  BY <1>1 DEF vars
<1>2. ASSUME NEW t \in Thread, Lock(t) \/ Trylock(t) PROVE IInv'
  <2>1. UNCHANGED <<section, entries, owner, waiting, woken, has>>
    BY <1>2 DEF Lock, Trylock
  <2>2. CASE owner = t
    BY <1>2, <2>1, <2>2 DEF Lock, Trylock
  <2>3. CASE owner # t
    <3>1. section # t
      BY <1>2, <2>3 DEF Lock, Trylock
    <3> QED
      BY <1>2, <2>1, <2>3, <3>1 DEF Lock, Trylock
  <2> QED
    BY <2>2, <2>3
<1>3. ASSUME NEW t \in Thread, Enter(t) PROVE IInv'
  BY <1>3 DEF Enter
<1>4. ASSUME NEW t \in Thread, TryEnter(t) PROVE IInv'
  BY <1>4 DEF TryEnter
<1>5. ASSUME NEW t \in Thread, WriteOwner(t) PROVE IInv'
  BY <1>5 DEF WriteOwner
<1>6. ASSUME NEW t \in Thread, Unlock(t) PROVE IInv'
  BY <1>6 DEF Unlock
<1>7. ASSUME NEW t \in Thread, Leave(t) PROVE IInv'
  BY <1>7 DEF Leave
<1>8. ASSUME NEW t \in Thread, WaitClearOwner(t) PROVE IInv'
  BY <1>8 DEF WaitClearOwner
<1>9. ASSUME NEW t \in Thread, Sleep(t) PROVE IInv'
  BY <1>9 DEF Sleep
<1>10. ASSUME NEW t \in Thread, Awake(t) PROVE IInv'
  <2> USE <1>10 DEF Awake
  <2>1. section = NULL /\ section' = t /\ entries' = 1 /\ owner = NULL /\ has = {}
    OBVIOUS
  <2>2. TypeOK' /\ OwnerHas'
    BY <2>1
  <2>3. SectionState'
    BY <2>1
  <2>4. CallState'
    BY <2>1
  <2> QED
    BY <2>2, <2>3, <2>4
<1>11. ASSUME NEW S \in SUBSET waiting, Wake(S) PROVE IInv'
  BY <1>11 DEF Wake
<1> QED
  BY <1>1, <1>2, <1>3, <1>4, <1>5, <1>6, <1>7, <1>8, <1>9, <1>10, <1>11
     DEF Next, Signal, Broadcast, WakeUnasked

\* The inductive invariant holds in every behaviour.
THEOREM Invariance == Spec => []IInv
  BY IInvInit, IInvStep, PTL DEF Spec

\* The types hold in every behaviour.
THEOREM TypeCorrect == Spec => []TypeOK
<1>1. IInv => TypeOK
  BY DEF IInv
<1> QED
  BY <1>1, Invariance, PTL

\* Two clients never have the mutex at once.
THEOREM MutualExclusionTheorem == Spec => []MutualExclusion
<1>1. IInv => MutualExclusion
  BY DEF IInv, OwnerHas, MutualExclusion
<1> QED
  BY <1>1, Invariance, PTL

\* A thread that reads its own id from the owner word is inside the section.
THEOREM OwnIdMeansInsideTheorem == Spec => []OwnIdMeansInside
<1>1. IInv => OwnIdMeansInside
  BY WindowsMutexAssumption
     DEF IInv, TypeOK, OwnerHas, SectionState, CallState, OwnIdMeansInside
<1> QED
  BY <1>1, Invariance, PTL

\* The thread inside the section never enters it again.
THEOREM NeverReenteredTheorem == Spec => []NeverReentered
<1>1. IInv => NeverReentered
  BY DEF IInv, SectionState, CallState, NeverReentered
<1> QED
  BY <1>1, Invariance, PTL

\* Initially the monitor is free and nobody waits.
LEMMA AbstractInit == Init => Abstract!Init
  BY DEF Init, Abstract!Init

\* Each step is one of the monitor's, or changes nothing of it.
LEMMA AbstractStep == IInv /\ [Next]_vars => [Abstract!Next]_(Abstract!vars)
<1> SUFFICES ASSUME IInv, [Next]_vars PROVE [Abstract!Next]_(Abstract!vars)
  OBVIOUS
<1> USE WindowsMutexAssumption DEF Abstract!vars
<1>1. CASE UNCHANGED vars
  BY <1>1 DEF vars
<1>2. ASSUME NEW t \in Thread, Enter(t) \/ TryEnter(t)
      PROVE  Abstract!Lock(t) \/ UNCHANGED Abstract!vars
  <2>1. section # t /\ t \notin waiting \cup woken
    BY <1>2 DEF Enter, TryEnter, IInv, SectionState, CallState
  <2> QED
    BY <1>2, <2>1 DEF Enter, TryEnter, EnterSection, MayEnter, Abstract!Lock
<1>3. ASSUME NEW t \in Thread, Leave(t) PROVE Abstract!Unlock(t)
  <2>1. section = t /\ entries = 1
    BY <1>3 DEF Leave, IInv, SectionState
  <2> QED
    BY <1>3, <2>1 DEF Leave, LeaveSection, Abstract!Unlock
<1>4. ASSUME NEW t \in Thread, Sleep(t) PROVE Abstract!Wait(t)
  <2>1. section = t /\ entries = 1
    BY <1>4 DEF Sleep, IInv, SectionState
  <2> QED
    BY <1>4, <2>1 DEF Sleep, LeaveSection, Abstract!Wait
<1>5. ASSUME NEW t \in Thread, Awake(t) PROVE Abstract!Relock(t)
  BY <1>5 DEF Awake, EnterSection, Abstract!Relock
<1>6. ASSUME NEW t \in Thread, Signal(t) PROVE Abstract!Signal
  BY <1>6 DEF Signal, Wake, Abstract!Signal, Abstract!Wake
<1>7. ASSUME NEW t \in Thread, Broadcast(t) PROVE Abstract!Broadcast
  BY <1>7 DEF Broadcast, Wake, Abstract!Broadcast, Abstract!Wake
<1>8. ASSUME NEW t \in Thread, WakeUnasked(t) PROVE Abstract!WakeUnasked(t)
  BY <1>8 DEF WakeUnasked, Wake, Abstract!WakeUnasked, Abstract!Wake
<1>9. ASSUME NEW t \in Thread,
             Lock(t) \/ Trylock(t) \/ WriteOwner(t) \/ Unlock(t) \/ WaitClearOwner(t)
      PROVE  UNCHANGED Abstract!vars
  BY <1>9 DEF Lock, Trylock, WriteOwner, Unlock, WaitClearOwner
<1> QED
  BY <1>1, <1>2, <1>3, <1>4, <1>5, <1>6, <1>7, <1>8, <1>9 DEF Next, Abstract!Next

\* The recursive section with the owner id beside it is a non-recursive mutex
\* whose waits give it up and get it back, for any number of threads.
THEOREM Implements == Spec => Abstract!Spec
  BY AbstractInit, AbstractStep, Invariance, PTL DEF Spec, Abstract!Spec
=============================================================================

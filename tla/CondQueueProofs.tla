--------------------------- MODULE CondQueueProofs ---------------------------
(***************************************************************************)
(* Proofs about CondQueue and the mutex of PosixMutex below it, for any    *)
(* producers and consumers and any number of items.                        *)
(***************************************************************************)
EXTENDS CondQueue, FiniteSetTheorems, TLAPS

\* The steps that need the mutex.
Inside == {"read", "test", "write", "take", "close", "signal", "unlock", "leave"}

\* Which steps are whose.
Programs ==
    /\ \A t \in Producer : at[t] \in {"unborn", "lock", "read", "write", "signal", "unlock", "over"}
    /\ \A t \in Consumer : at[t] \in {"unborn", "lock", "test", "take", "unlock", "leave", "over"}
    /\ at[Main] \in {"init", "join producers", "lock", "close", "signal", "unlock",
                     "join consumers", "destroy", "over"}

\* A wait is a consumer's, in its test, and it is asleep or about to get the mutex back.
Waits == \A t \in Thread :
    /\ InCall(t) <=> t \in waiting \cup woken
    /\ ~(t \in waiting /\ t \in woken)
    /\ InCall(t) => at[t] = "test"

\* The platform's owner, the answers and the program agree on who has the mutex.
Ownership ==
    /\ has = IF mutex = NULL THEN {} ELSE {mutex}
    /\ \A t \in Thread : mutex = t <=> at[t] \in Inside /\ ~InCall(t)

\* What was read of the count is still true when it is written back.
CountIsCurrent == \A t \in Thread :
    /\ at[t] \in {"write", "take"} => read[t] = queue
    /\ at[t] = "take" => queue > 0

\* Main does not get ahead of the others, and mutex and condition variable are there
\* from its first step to its last.
Phases ==
    /\ at[Main] \in {"lock", "close", "signal", "unlock", "join consumers"} => AllOver(Producer)
    /\ at[Main] \in {"destroy", "over"} => AllOver(Producer) /\ AllOver(Consumer)
    /\ exists <=> at[Main] \notin {"init", "over"}
    /\ at[Main] = "init" => \A t \in Producer \cup Consumer : at[t] = "unborn"

IInv == TypeOK /\ Programs /\ Waits /\ Ownership /\ CountIsCurrent /\ Phases

-----------------------------------------------------------------------------
\* The roles are apart, and NULL is no thread.
LEMMA RoleFacts == /\ \A t \in Producer : t \in Thread /\ t \notin Consumer /\ t # Main
                   /\ \A t \in Consumer : t \in Thread /\ t \notin Producer /\ t # Main
                   /\ Main \in Thread
                   /\ \A t \in Thread : t # NULL /\ (t \in Producer \/ t \in Consumer \/ t = Main)
  BY CondQueueAssumption, PosixMutexAssumption

\* What the two functions that succeed always, and trylock, answer.
LEMMA Answers == ASSUME backend \in Backend
                 PROVE  /\ Answer(Code.success) = "0"
                        /\ TrylockAnswer(Code.success) = "0" /\ TrylockAnswer(Code.busy) = "EBUSY"
<1>1. CASE backend = "c11"
  BY <1>1 DEF Answer, TrylockAnswer, Code
<1>2. CASE backend = "pthreads"
  BY <1>2 DEF Answer, TrylockAnswer, Code
<1> QED
  BY <1>1, <1>2, PosixMutexAssumption

\* Every answer is one of the library's.
LEMMA AnswersKnown ==
    /\ \A code : Answer(code) \in {"0", "-1"}
    /\ \A code : TimedwaitAnswer(code) \in {"0", "ETIMEDOUT", "-1"}
  BY DEF Answer, TimedwaitAnswer

\* The initial states satisfy the invariant.
LEMMA IInvInit == Init => IInv
<1> SUFFICES ASSUME Init PROVE IInv
  OBVIOUS
<1> USE RoleFacts DEF Init, MutexInit
<1>1. TypeOK
  <2>1. MutexTypeOK
    BY DEF MutexTypeOK
  <2>2. unasked \in 0 .. MaxUnasked
    BY CondQueueAssumption
  <2> QED
    BY <2>1, <2>2 DEF TypeOK
<1>2. Programs
  BY DEF Programs
<1>3. Waits /\ Ownership
  BY DEF Waits, Ownership, Inside, InCall
<1>4. CountIsCurrent /\ Phases
  BY DEF CountIsCurrent, Phases
<1> QED
  BY <1>1, <1>2, <1>3, <1>4 DEF IInv

\* Types are kept.
LEMMA MutexTypeStep ==
    ASSUME MutexTypeOK, NEW t \in Thread,
           \/ Lock(t) \/ Trylock(t) \/ Unlock(t) \/ Done(t)
           \/ \E kind \in {"wait", "timedwait"} : Wait(t, kind)
           \/ Awake(t) \/ Signal(t) \/ Broadcast(t) \/ TimeOut(t) \/ WakeSpuriously(t)
           \/ InitMutexAndCond(t, Code.success)
    PROVE  MutexTypeOK'
<1> USE DEF MutexTypeOK, Returns
<1>1. CASE Lock(t) \/ Unlock(t) \/ Done(t)
  BY <1>1, AnswersKnown DEF Lock, Unlock, Done
<1>2. CASE Trylock(t)
  <2>1. \A code : TrylockAnswer(code) \in {"0", "EBUSY", "-1"}
    BY DEF TrylockAnswer
  <2> QED
    BY <1>2, <2>1 DEF Trylock
<1>3. CASE \E kind \in {"wait", "timedwait"} : Wait(t, kind)
  BY <1>3 DEF Wait
<1>4. CASE Awake(t)
  BY <1>4, AnswersKnown DEF Awake
<1>5. CASE Signal(t) \/ Broadcast(t)
  BY <1>5, AnswersKnown DEF Signal, Broadcast, Wake
<1>6. CASE TimeOut(t) \/ WakeSpuriously(t)
  BY <1>6 DEF TimeOut, WakeSpuriously, Wake
<1>7. CASE InitMutexAndCond(t, Code.success)
  BY <1>7, AnswersKnown DEF InitMutexAndCond
<1> QED
  BY <1>1, <1>2, <1>3, <1>4, <1>5, <1>6, <1>7

\* Each step of a program calls at most one function of the mutex.
LEMMA MutexStep == IInv /\ [Next]_vars => MutexTypeOK'
<1> SUFFICES ASSUME IInv, [Next]_vars PROVE MutexTypeOK'
  OBVIOUS
<1>1. MutexTypeOK
  BY DEF IInv, TypeOK
<1>2. CASE mutexVars' = mutexVars
  BY <1>1, <1>2 DEF mutexVars, MutexTypeOK
<1>3. ASSUME NEW t \in Thread, Step(t) PROVE MutexTypeOK'
  BY <1>1, <1>2, <1>3, MutexTypeStep
     DEF Step, Produce, Consume, Manage, TakeMutex, ReadQueue, Read, AddItem, SignalItem,
         UnlockLoop, Test, TakeItem, Leave, Setup, JoinProducers, Close, SignalDone, UnlockDone,
         JoinConsumers, Destroy
<1>4. ASSUME NEW t \in Thread, WakeUnasked(t) PROVE MutexTypeOK'
  BY <1>1, <1>4, MutexTypeStep DEF WakeUnasked
<1> QED
  BY <1>2, <1>3, <1>4 DEF Next, vars

\* Types are kept.
LEMMA TypeStep == IInv /\ [Next]_vars => TypeOK'
<1> SUFFICES ASSUME IInv, [Next]_vars PROVE TypeOK'
  OBVIOUS
<1>1. MutexTypeOK'
  BY MutexStep
<1>2. TypeOK /\ CountIsCurrent
  BY DEF IInv
<1>3. CASE UNCHANGED vars
  BY <1>1, <1>2, <1>3 DEF TypeOK, vars, program
<1>4. ASSUME NEW t \in Producer, Produce(t) PROVE TypeOK'
  <2>1. t \in Thread
    BY RoleFacts
  <2>2. read[t] \in Nat /\ made[t] \in Nat
    BY <1>2, <2>1 DEF TypeOK
  <2>3. CASE TakeMutex(t, "read") \/ SignalItem(t) \/ UnlockLoop(t)
    BY <1>1, <1>2, <2>1, <2>3 DEF TypeOK, TakeMutex, SignalItem, UnlockLoop, Goto
  <2>4. CASE ReadQueue(t)
    BY <1>1, <1>2, <2>1, <2>4 DEF TypeOK, ReadQueue, Read, Goto
  <2>5. CASE AddItem(t)
    <3>1. queue' \in Nat
      BY <2>2, <2>5 DEF AddItem
    <3>2. made' \in [Producer -> Nat]
      <4>1. made \in [Producer -> Nat]
        BY <1>2 DEF TypeOK
      <4>2. made[t] + 1 \in Nat
        BY <2>2
      <4>3. made' = [made EXCEPT ![t] = made[t] + 1]
        BY <2>5 DEF AddItem
      <4> QED
        BY <4>1, <4>2, <4>3
    <3>3. at' = [at EXCEPT ![t] = "signal"] /\ UNCHANGED <<done, read, taken, unasked>>
      BY <2>5 DEF AddItem, Goto
    <3> QED
      BY <1>1, <1>2, <2>1, <3>1, <3>2, <3>3 DEF TypeOK
  <2> QED
    BY <1>4, <2>3, <2>4, <2>5 DEF Produce
<1>5. ASSUME NEW t \in Consumer, Consume(t) PROVE TypeOK'
  <2>1. t \in Thread /\ taken[t] \in Nat
    BY <1>2, RoleFacts DEF TypeOK
  <2>2. CASE TakeMutex(t, "test") \/ UnlockLoop(t) \/ Leave(t)
    BY <1>1, <1>2, <2>1, <2>2 DEF TypeOK, TakeMutex, UnlockLoop, Leave, Goto
  <2>3. CASE Test(t)
    BY <1>1, <1>2, <2>1, <2>3 DEF TypeOK, Test, Goto
  <2>4. CASE TakeItem(t)
    <3>1. read[t] = queue /\ queue > 0
      BY <1>2, <2>1, <2>4 DEF TakeItem, At, CountIsCurrent
    <3>2. queue \in Nat
      BY <1>2 DEF TypeOK
    <3>3. read[t] - 1 \in Nat
      BY <3>1, <3>2
    <3>4. taken' \in [Consumer -> Nat]
      <4>1. taken \in [Consumer -> Nat]
        BY <1>2 DEF TypeOK
      <4>2. taken[t] + 1 \in Nat
        BY <2>1
      <4>3. taken' = [taken EXCEPT ![t] = taken[t] + 1]
        BY <2>4 DEF TakeItem
      <4> QED
        BY <4>1, <4>2, <4>3
    <3>5. /\ queue' = read[t] - 1 /\ at' = [at EXCEPT ![t] = "unlock"]
          /\ UNCHANGED <<done, read, made, unasked>>
      BY <2>4 DEF TakeItem, Goto
    <3> QED
      BY <1>1, <1>2, <2>1, <3>3, <3>4, <3>5 DEF TypeOK
  <2>5. CASE UNCHANGED program
    BY <1>1, <1>2, <2>5 DEF TypeOK, program
  <2> QED
    BY <1>5, <2>2, <2>3, <2>4, <2>5 DEF Consume
<1>6. ASSUME Manage(Main) PROVE TypeOK'
  BY <1>1, <1>2, <1>6, RoleFacts
     DEF TypeOK, Manage, Setup, JoinProducers, TakeMutex, Close, SignalDone, UnlockDone,
         JoinConsumers, Destroy, Goto
<1>7. ASSUME NEW t \in Thread, WakeUnasked(t) PROVE TypeOK'
  <2>1. unasked \in 0 .. MaxUnasked /\ MaxUnasked \in Nat
    BY <1>2, CondQueueAssumption DEF TypeOK
  <2>2. unasked' \in 0 .. MaxUnasked
    BY <1>7, <2>1 DEF WakeUnasked
  <2> QED
    BY <1>1, <1>2, <1>7, <2>2 DEF TypeOK, WakeUnasked
<1> QED
  BY <1>3, <1>4, <1>5, <1>6, <1>7 DEF Next, Step

\* A thread that takes the mutex gets it, or has failed in a trylock.
LEMMA TakeMutexStep ==
    ASSUME IInv, NEW t \in Thread, NEW next, TakeMutex(t, next)
    PROVE  /\ at[t] = "lock" /\ ~InCall(t)
           /\ \/ mutex = NULL /\ mutex' = t /\ has' = {t} /\ at' = [at EXCEPT ![t] = next]
              \/ UNCHANGED <<at, mutex, has>>
           /\ UNCHANGED <<exists, waiting, woken, wait, queue, read>>
<1>1. /\ at = [u \in Thread |-> at[u]] /\ answer = [u \in Thread |-> answer[u]]
      /\ has = IF mutex = NULL THEN {} ELSE {mutex}
      /\ mutex = t <=> at[t] \in Inside /\ ~InCall(t)
  BY DEF IInv, TypeOK, MutexTypeOK, Ownership
<1>2. Answer(Code.success) = "0" /\ TrylockAnswer(Code.success) = "0" /\ TrylockAnswer(Code.busy) = "EBUSY"
  BY Answers DEF IInv, TypeOK, MutexTypeOK
<1>3. at[t] = "lock" /\ ~InCall(t) /\ mutex # t
  BY <1>1 DEF TakeMutex, At, Inside
<1>4. CASE Lock(t)
  BY <1>1, <1>2, <1>3, <1>4 DEF TakeMutex, Lock, Returns, Goto
<1>5. CASE Trylock(t)
  <2>1. CASE mutex = NULL
    BY <1>1, <1>2, <1>3, <1>5, <2>1 DEF TakeMutex, Trylock, Returns, Goto
  <2>2. CASE mutex # NULL
    BY <1>1, <1>2, <1>3, <1>5, <2>2 DEF TakeMutex, Trylock, Returns, Goto
  <2> QED
    BY <2>1, <2>2
<1> QED
  BY <1>4, <1>5 DEF TakeMutex

\* While a thread has the mutex and is not in a wait, no other is about to write the count.
LEMMA AloneInside ==
    ASSUME Waits, Ownership, NEW t \in Thread, at[t] \in Inside, ~InCall(t)
    PROVE  mutex = t /\ \A u \in Thread \ {t} : at[u] \notin {"write", "take"}
<1>1. mutex = t
  BY DEF Ownership
<1>2. ASSUME NEW u \in Thread \ {t}, at[u] \in {"write", "take"} PROVE FALSE
  <2>1. ~InCall(u)
    BY <1>2 DEF Waits
  <2> QED
    BY <1>1, <1>2, <2>1 DEF Ownership, Inside
<1> QED
  BY <1>1, <1>2

\* Every step keeps the invariant.
LEMMA IInvStep == IInv /\ [Next]_vars => IInv'
<1> SUFFICES ASSUME IInv, [Next]_vars PROVE IInv'
  OBVIOUS
<1>1. TypeOK'
  BY TypeStep
<1>2. /\ at = [t \in Thread |-> at[t]] /\ wait = [t \in Thread |-> wait[t]]
      /\ read = [t \in Thread |-> read[t]] /\ answer = [t \in Thread |-> answer[t]]
      /\ mutex \in Thread \cup {NULL} /\ waiting \subseteq Thread /\ woken \subseteq Thread
  BY DEF IInv, TypeOK, MutexTypeOK
<1>3. Programs
  BY DEF IInv
<1>4. Waits
  BY DEF IInv
<1>5. Ownership
  BY DEF IInv
<1>6. CountIsCurrent
  BY DEF IInv
<1>7. Phases
  BY DEF IInv
<1>8. Answer(Code.success) = "0" /\ TrylockAnswer(Code.success) = "0" /\ TrylockAnswer(Code.busy) = "EBUSY"
  BY Answers DEF IInv, TypeOK, MutexTypeOK
<1>9. CASE UNCHANGED vars
  BY <1>1, <1>3, <1>4, <1>5, <1>6, <1>7, <1>9
     DEF IInv, vars, mutexVars, program, Programs, Waits, Ownership, InCall, CountIsCurrent, Phases, AllOver
<1>10. ASSUME NEW t \in Producer, TakeMutex(t, "read") PROVE IInv'
  <2>1. /\ at[t] = "lock" /\ ~InCall(t)
        /\ \/ mutex = NULL /\ mutex' = t /\ has' = {t} /\ at' = [at EXCEPT ![t] = "read"]
           \/ UNCHANGED <<at, mutex, has>>
        /\ UNCHANGED <<exists, waiting, woken, wait, queue, read>>
    BY <1>10, RoleFacts, TakeMutexStep
  <2>2. Programs'
    BY <1>2, <1>3, <2>1, RoleFacts DEF Programs
  <2>3. Waits'
    BY <1>2, <1>3, <1>4, <2>1, RoleFacts DEF Waits, InCall, Programs
  <2>4. Ownership'
    <3>1. CASE UNCHANGED <<at, mutex, has>>
      BY <1>5, <2>1, <3>1 DEF Ownership, InCall
    <3>2. CASE mutex = NULL /\ mutex' = t /\ has' = {t} /\ at' = [at EXCEPT ![t] = "read"]
      BY <1>2, <1>5, <2>1, <3>2, RoleFacts DEF Ownership, InCall, Inside
    <3> QED
      BY <2>1, <3>1, <3>2
  <2>5. CountIsCurrent'
    BY <1>2, <1>3, <1>4, <1>5, <1>6, <2>1, RoleFacts DEF CountIsCurrent, Ownership, Inside, Programs, Waits
  <2>6. Phases'
    BY <1>2, <1>3, <1>7, <2>1, RoleFacts DEF Phases, AllOver, Programs
  <2> QED
    BY <1>1, <2>2, <2>3, <2>4, <2>5, <2>6 DEF IInv
<1>11. ASSUME NEW t \in Producer, ReadQueue(t) PROVE IInv'
  <2>1. /\ at[t] = "read" /\ ~InCall(t) /\ at' = [at EXCEPT ![t] = "write"]
        /\ read' = [read EXCEPT ![t] = queue]
        /\ UNCHANGED <<exists, mutex, has, waiting, woken, wait, queue>>
    BY <1>2, <1>4, <1>5, <1>8, <1>11, RoleFacts
       DEF At, Goto, ReadQueue, Read, mutexVars
  <2>2. Programs'
    BY <1>2, <1>3, <2>1, RoleFacts DEF Programs
  <2>3. Waits'
    BY <1>2, <1>3, <1>4, <2>1, RoleFacts DEF Waits, InCall, Programs
  <2>4. Ownership'
    BY <1>2, <1>3, <1>4, <1>5, <2>1, RoleFacts DEF Ownership, Inside, InCall, Programs, Waits
  <2>5. CountIsCurrent'
    BY <1>2, <1>3, <1>4, <1>5, <1>6, <2>1, RoleFacts DEF CountIsCurrent, Ownership, Inside, Programs, Waits
  <2>6. Phases'
    BY <1>2, <1>3, <1>7, <2>1, RoleFacts DEF Phases, AllOver, Programs
  <2> QED
    BY <1>1, <2>2, <2>3, <2>4, <2>5, <2>6 DEF IInv
<1>12. ASSUME NEW t \in Producer, AddItem(t) PROVE IInv'
  <2>1. /\ at[t] = "write" /\ ~InCall(t) /\ at' = [at EXCEPT ![t] = "signal"]
        /\ UNCHANGED <<exists, mutex, has, waiting, woken, wait, read>>
    BY <1>2, <1>4, <1>5, <1>8, <1>12, RoleFacts
       DEF At, Goto, AddItem, mutexVars
  <2>2. Programs'
    BY <1>2, <1>3, <2>1, RoleFacts DEF Programs
  <2>3. Waits'
    BY <1>2, <1>3, <1>4, <2>1, RoleFacts DEF Waits, InCall, Programs
  <2>4. Ownership'
    BY <1>2, <1>3, <1>4, <1>5, <2>1, RoleFacts DEF Ownership, Inside, InCall, Programs, Waits
  <2>5. CountIsCurrent'
    <3>1. \A u \in Thread \ {t} : at[u] \notin {"write", "take"}
      BY <1>4, <1>5, <2>1, AloneInside, RoleFacts DEF Inside
    <3> QED
      BY <1>2, <2>1, <3>1, RoleFacts DEF CountIsCurrent
  <2>6. Phases'
    BY <1>2, <1>3, <1>7, <2>1, RoleFacts DEF Phases, AllOver, Programs
  <2> QED
    BY <1>1, <2>2, <2>3, <2>4, <2>5, <2>6 DEF IInv
<1>13. ASSUME NEW t \in Producer, SignalItem(t) PROVE IInv'
  <2>1. /\ at[t] = "signal" /\ ~InCall(t) /\ at' = [at EXCEPT ![t] = "unlock"]
        /\ waiting' \cup woken' = waiting \cup woken /\ waiting' \subseteq waiting
        /\ woken' \cap waiting' = {}
        /\ UNCHANGED <<exists, mutex, has, wait, queue, read>>
    <3>1. /\ at[t] = "signal" /\ ~InCall(t) /\ at' = [at EXCEPT ![t] = "unlock"]
          /\ UNCHANGED <<queue, read>> /\ Signal(t)
      BY <1>13 DEF At, Goto, SignalItem
    <3>2. UNCHANGED <<exists, mutex, wait>>
      BY <3>1 DEF Signal, Wake
    <3>3. has' = has
      BY <3>1 DEF Signal, Returns
    <3>4. waiting \cap woken = {}
      BY <1>2, <1>4 DEF Waits
    <3>5. PICK S \in SUBSET waiting : waiting' = waiting \ S /\ woken' = woken \cup S
      BY <3>1 DEF Signal, Wake
    <3> QED
      BY <3>1, <3>2, <3>3, <3>4, <3>5
  <2>2. Programs'
    BY <1>2, <1>3, <2>1, RoleFacts DEF Programs
  <2>3. Waits'
    BY <1>2, <1>3, <1>4, <2>1, RoleFacts DEF Waits, InCall, Programs
  <2>4. Ownership'
    BY <1>2, <1>3, <1>4, <1>5, <2>1, RoleFacts DEF Ownership, Inside, InCall, Programs, Waits
  <2>5. CountIsCurrent'
    BY <1>2, <1>3, <1>4, <1>5, <1>6, <2>1, RoleFacts DEF CountIsCurrent, Ownership, Inside, Programs, Waits
  <2>6. Phases'
    BY <1>2, <1>3, <1>7, <2>1, RoleFacts DEF Phases, AllOver, Programs
  <2> QED
    BY <1>1, <2>2, <2>3, <2>4, <2>5, <2>6 DEF IInv
<1>14. ASSUME NEW t \in Producer \cup Consumer, UnlockLoop(t) PROVE IInv'
  <2>1. /\ at[t] = "unlock" /\ ~InCall(t) /\ at' = [at EXCEPT ![t] = at'[t]]
        /\ at'[t] = "lock" \/ (t \in Producer /\ at'[t] = "over")
        /\ mutex = t /\ mutex' = NULL /\ has' = {}
        /\ UNCHANGED <<exists, waiting, woken, wait, queue, read>>
    BY <1>2, <1>4, <1>5, <1>8, <1>14, RoleFacts
       DEF At, Goto, UnlockLoop, Unlock, Returns, Ownership
  <2>2. Programs'
    BY <1>2, <1>3, <2>1, RoleFacts DEF Programs
  <2>3. Waits'
    BY <1>2, <1>3, <1>4, <2>1, RoleFacts DEF Waits, InCall, Programs
  <2>4. Ownership'
    BY <1>2, <1>3, <1>4, <1>5, <2>1, RoleFacts DEF Ownership, Inside, InCall, Programs, Waits
  <2>5. CountIsCurrent'
    BY <1>2, <1>3, <1>4, <1>5, <1>6, <2>1, RoleFacts DEF CountIsCurrent, Ownership, Inside, Programs, Waits
  <2>6. Phases'
    BY <1>2, <1>3, <1>7, <2>1, RoleFacts DEF Phases, AllOver, Programs
  <2> QED
    BY <1>1, <2>2, <2>3, <2>4, <2>5, <2>6 DEF IInv
<1>15. ASSUME NEW t \in Consumer, TakeMutex(t, "test") PROVE IInv'
  <2>1. /\ at[t] = "lock" /\ ~InCall(t)
        /\ \/ mutex = NULL /\ mutex' = t /\ has' = {t} /\ at' = [at EXCEPT ![t] = "test"]
           \/ UNCHANGED <<at, mutex, has>>
        /\ UNCHANGED <<exists, waiting, woken, wait, queue, read>>
    BY <1>15, RoleFacts, TakeMutexStep
  <2>2. Programs'
    BY <1>2, <1>3, <2>1, RoleFacts DEF Programs
  <2>3. Waits'
    BY <1>2, <1>3, <1>4, <2>1, RoleFacts DEF Waits, InCall, Programs
  <2>4. Ownership'
    <3>1. CASE UNCHANGED <<at, mutex, has>>
      BY <1>5, <2>1, <3>1 DEF Ownership, InCall
    <3>2. CASE mutex = NULL /\ mutex' = t /\ has' = {t} /\ at' = [at EXCEPT ![t] = "test"]
      BY <1>2, <1>5, <2>1, <3>2, RoleFacts DEF Ownership, InCall, Inside
    <3> QED
      BY <2>1, <3>1, <3>2
  <2>5. CountIsCurrent'
    BY <1>2, <1>3, <1>4, <1>5, <1>6, <2>1, RoleFacts DEF CountIsCurrent, Ownership, Inside, Programs, Waits
  <2>6. Phases'
    BY <1>2, <1>3, <1>7, <2>1, RoleFacts DEF Phases, AllOver, Programs
  <2> QED
    BY <1>1, <2>2, <2>3, <2>4, <2>5, <2>6 DEF IInv
<1>16. ASSUME NEW t \in Consumer, Test(t) PROVE IInv'
  <2>1. at[t] = "test" /\ ~InCall(t) /\ UNCHANGED <<exists, queue>>
    BY <1>16 DEF Test, At, Wait, mutexVars
  <2>2. CASE queue = 0 /\ ~done
    <3>1. /\ mutex' = NULL /\ mutex = t /\ has' = {} /\ waiting' = waiting \cup {t}
          /\ \E kind \in {"wait", "timedwait"} : wait' = [wait EXCEPT ![t] = kind]
          /\ UNCHANGED <<at, woken, read>>
      BY <1>2, <1>5, <1>16, <2>2 DEF Test, Wait, Ownership
    <3>2. Programs'
      BY <1>2, <1>3, <2>1, <3>1, RoleFacts DEF Programs
    <3>3. Waits'
      BY <1>2, <1>3, <1>4, <2>1, <3>1, RoleFacts DEF Waits, InCall, Programs
    <3>4. Ownership'
      BY <1>2, <1>3, <1>4, <1>5, <2>1, <3>1, RoleFacts DEF Ownership, Inside, InCall, Programs, Waits
    <3>5. CountIsCurrent'
      BY <1>2, <1>3, <1>4, <1>5, <1>6, <2>1, <3>1, RoleFacts DEF CountIsCurrent, Ownership, Inside, Programs, Waits
    <3>6. Phases'
      BY <1>2, <1>3, <1>7, <2>1, <3>1, RoleFacts DEF Phases, AllOver, Programs
    <3> QED
      BY <1>1, <3>2, <3>3, <3>4, <3>5, <3>6 DEF IInv
  <2>3. CASE queue > 0 \/ done
    <3>1. /\ \/ queue > 0 /\ at' = [at EXCEPT ![t] = "take"] /\ read' = [read EXCEPT ![t] = queue]
             \/ at' = [at EXCEPT ![t] = "leave"] /\ read' = read
          /\ UNCHANGED <<mutex, has, wait, waiting, woken>>
      BY <1>16, <2>3 DEF Test, Goto, mutexVars
    <3>2. Programs'
      BY <1>2, <1>3, <2>1, <3>1, RoleFacts DEF Programs
    <3>3. Waits'
      BY <1>2, <1>3, <1>4, <2>1, <3>1, RoleFacts DEF Waits, InCall, Programs
    <3>4. Ownership'
      <4>1. at' = [at EXCEPT ![t] = at'[t]] /\ at'[t] \in Inside /\ at[t] \in Inside
        BY <1>2, <2>1, <3>1, RoleFacts DEF Inside
      <4> QED
        BY <1>2, <1>5, <2>1, <3>1, <4>1, RoleFacts DEF Ownership, InCall
    <3>5. CountIsCurrent'
      <4>1. \A u \in Thread \ {t} : at[u] \notin {"write", "take"}
        BY <1>4, <1>5, <2>1, AloneInside, RoleFacts DEF Inside
      <4> QED
        BY <1>2, <2>1, <3>1, <4>1, RoleFacts DEF CountIsCurrent
    <3>6. Phases'
      BY <1>2, <1>3, <1>7, <2>1, <3>1, RoleFacts DEF Phases, AllOver, Programs
    <3> QED
      BY <1>1, <3>2, <3>3, <3>4, <3>5, <3>6 DEF IInv
  <2> QED
    BY <2>2, <2>3, <1>16 DEF Test
<1>17. ASSUME NEW t \in Consumer, TakeItem(t) PROVE IInv'
  <2>1. /\ at[t] = "take" /\ ~InCall(t) /\ at' = [at EXCEPT ![t] = "unlock"]
        /\ UNCHANGED <<exists, mutex, has, waiting, woken, wait, read>>
    BY <1>2, <1>4, <1>5, <1>8, <1>17, RoleFacts
       DEF At, Goto, TakeItem, mutexVars
  <2>2. Programs'
    BY <1>2, <1>3, <2>1, RoleFacts DEF Programs
  <2>3. Waits'
    BY <1>2, <1>3, <1>4, <2>1, RoleFacts DEF Waits, InCall, Programs
  <2>4. Ownership'
    BY <1>2, <1>3, <1>4, <1>5, <2>1, RoleFacts DEF Ownership, Inside, InCall, Programs, Waits
  <2>5. CountIsCurrent'
    <3>1. \A u \in Thread \ {t} : at[u] \notin {"write", "take"}
      BY <1>4, <1>5, <2>1, AloneInside, RoleFacts DEF Inside
    <3> QED
      BY <1>2, <2>1, <3>1, RoleFacts DEF CountIsCurrent
  <2>6. Phases'
    BY <1>2, <1>3, <1>7, <2>1, RoleFacts DEF Phases, AllOver, Programs
  <2> QED
    BY <1>1, <2>2, <2>3, <2>4, <2>5, <2>6 DEF IInv
<1>18. ASSUME NEW t \in Consumer, Leave(t) PROVE IInv'
  <2>1. /\ at[t] = "leave" /\ ~InCall(t) /\ at' = [at EXCEPT ![t] = "over"]
        /\ mutex = t /\ mutex' = NULL /\ has' = {}
        /\ UNCHANGED <<exists, waiting, woken, wait, queue, read>>
    BY <1>2, <1>4, <1>5, <1>8, <1>18, RoleFacts
       DEF At, Goto, Leave, Unlock, Returns, Ownership
  <2>2. Programs'
    BY <1>2, <1>3, <2>1, RoleFacts DEF Programs
  <2>3. Waits'
    BY <1>2, <1>3, <1>4, <2>1, RoleFacts DEF Waits, InCall, Programs
  <2>4. Ownership'
    BY <1>2, <1>3, <1>4, <1>5, <2>1, RoleFacts DEF Ownership, Inside, InCall, Programs, Waits
  <2>5. CountIsCurrent'
    BY <1>2, <1>3, <1>4, <1>5, <1>6, <2>1, RoleFacts DEF CountIsCurrent, Ownership, Inside, Programs, Waits
  <2>6. Phases'
    BY <1>2, <1>3, <1>7, <2>1, RoleFacts DEF Phases, AllOver, Programs
  <2> QED
    BY <1>1, <2>2, <2>3, <2>4, <2>5, <2>6 DEF IInv
<1>19. ASSUME NEW t \in Consumer, Awake(t), UNCHANGED program PROVE IInv'
  <2>1. /\ mutex = NULL /\ mutex' = t /\ has' = {t} /\ t \in woken /\ woken' = woken \ {t}
        /\ wait' = [wait EXCEPT ![t] = "none"]
        /\ UNCHANGED <<at, exists, waiting, queue, read>>
    BY <1>2, <1>4, <1>5, <1>8, <1>19, RoleFacts
       DEF At, Goto, Awake, Returns, program, Ownership
  <2>2. Programs'
    BY <1>2, <1>3, <2>1, RoleFacts DEF Programs
  <2>3. Waits'
    BY <1>2, <1>3, <1>4, <2>1, RoleFacts DEF Waits, InCall, Programs
  <2>4. Ownership'
    BY <1>2, <1>3, <1>4, <1>5, <2>1, RoleFacts DEF Ownership, Inside, InCall, Programs, Waits
  <2>5. CountIsCurrent'
    BY <1>2, <1>3, <1>4, <1>5, <1>6, <2>1, RoleFacts DEF CountIsCurrent, Ownership, Inside, Programs, Waits
  <2>6. Phases'
    BY <1>2, <1>3, <1>7, <2>1, RoleFacts DEF Phases, AllOver, Programs
  <2> QED
    BY <1>1, <2>2, <2>3, <2>4, <2>5, <2>6 DEF IInv
<1>20. ASSUME Setup(Main) PROVE IInv'
  <2>1. /\ at[Main] = "init" /\ at' = [u \in Thread |-> IF u = Main THEN "join producers" ELSE "lock"]
        /\ exists' /\ mutex = NULL /\ has = {} /\ has' = {}
        /\ \A u \in Thread : ~InCall(u)
        /\ UNCHANGED <<mutex, waiting, woken, wait, queue, read>>
    BY <1>2, <1>4, <1>5, <1>8, <1>20, <1>3, <1>7, RoleFacts
       DEF At, Goto, Setup, InitMutexAndCond, Returns, Waits, Ownership, Inside, Phases
  <2>2. Programs'
    BY <1>2, <1>3, <2>1, RoleFacts DEF Programs
  <2>3. Waits'
    BY <1>2, <1>3, <1>4, <2>1, RoleFacts DEF Waits, InCall, Programs
  <2>4. Ownership'
    <3>1. \A u \in Thread : at'[u] \notin Inside
      BY <2>1 DEF Inside
    <3> QED
      BY <2>1, <3>1, RoleFacts DEF Ownership
  <2>5. CountIsCurrent'
    BY <1>2, <1>3, <1>4, <1>5, <1>6, <2>1, RoleFacts DEF CountIsCurrent, Ownership, Inside, Programs, Waits
  <2>6. Phases'
    BY <1>2, <1>3, <1>7, <2>1, RoleFacts DEF Phases, AllOver, Programs
  <2> QED
    BY <1>1, <2>2, <2>3, <2>4, <2>5, <2>6 DEF IInv
<1>21. ASSUME JoinProducers(Main) PROVE IInv'
  <2>1. /\ at[Main] = "join producers" /\ AllOver(Producer) /\ at' = [at EXCEPT ![Main] = "lock"]
        /\ UNCHANGED <<exists, mutex, has, waiting, woken, wait, queue, read>>
    BY <1>2, <1>4, <1>5, <1>8, <1>21, RoleFacts
       DEF At, Goto, JoinProducers, mutexVars
  <2>2. Programs'
    BY <1>2, <1>3, <2>1, RoleFacts DEF Programs
  <2>3. Waits'
    BY <1>2, <1>3, <1>4, <2>1, RoleFacts DEF Waits, InCall, Programs
  <2>4. Ownership'
    BY <1>2, <1>3, <1>4, <1>5, <2>1, RoleFacts DEF Ownership, Inside, InCall, Programs, Waits
  <2>5. CountIsCurrent'
    BY <1>2, <1>3, <1>4, <1>5, <1>6, <2>1, RoleFacts DEF CountIsCurrent, Ownership, Inside, Programs, Waits
  <2>6. Phases'
    BY <1>2, <1>3, <1>7, <2>1, RoleFacts DEF Phases, AllOver, Programs
  <2> QED
    BY <1>1, <2>2, <2>3, <2>4, <2>5, <2>6 DEF IInv
<1>22. ASSUME TakeMutex(Main, "close") PROVE IInv'
  <2>1. /\ at[Main] = "lock" /\ ~InCall(Main)
        /\ \/ mutex = NULL /\ mutex' = Main /\ has' = {Main} /\ at' = [at EXCEPT ![Main] = "close"]
           \/ UNCHANGED <<at, mutex, has>>
        /\ UNCHANGED <<exists, waiting, woken, wait, queue, read>>
    BY <1>22, RoleFacts, TakeMutexStep
  <2>2. Programs'
    BY <1>2, <1>3, <2>1, RoleFacts DEF Programs
  <2>3. Waits'
    BY <1>2, <1>3, <1>4, <2>1, RoleFacts DEF Waits, InCall, Programs
  <2>4. Ownership'
    <3>1. CASE UNCHANGED <<at, mutex, has>>
      BY <1>5, <2>1, <3>1 DEF Ownership, InCall
    <3>2. CASE mutex = NULL /\ mutex' = Main /\ has' = {Main} /\ at' = [at EXCEPT ![Main] = "close"]
      BY <1>2, <1>5, <2>1, <3>2, RoleFacts DEF Ownership, InCall, Inside
    <3> QED
      BY <2>1, <3>1, <3>2
  <2>5. CountIsCurrent'
    BY <1>2, <1>3, <1>4, <1>5, <1>6, <2>1, RoleFacts DEF CountIsCurrent, Ownership, Inside, Programs, Waits
  <2>6. Phases'
    <3>1. CASE UNCHANGED <<at, mutex, has>>
      BY <1>7, <2>1, <3>1 DEF Phases, AllOver
    <3>2. CASE at' = [at EXCEPT ![Main] = "close"]
      <4>1. \A t \in Producer : at[t] = "over" /\ at'[t] = "over"
        BY <1>2, <1>7, <2>1, <3>2, RoleFacts DEF Phases, AllOver
      <4>2. exists' /\ at'[Main] = "close"
        BY <1>2, <1>7, <2>1, <3>2, RoleFacts DEF Phases
      <4> QED
        BY <4>1, <4>2 DEF Phases, AllOver
    <3> QED
      BY <2>1, <3>1, <3>2
  <2> QED
    BY <1>1, <2>2, <2>3, <2>4, <2>5, <2>6 DEF IInv
<1>23. ASSUME Close(Main) PROVE IInv'
  <2>1. /\ at[Main] = "close" /\ ~InCall(Main) /\ at' = [at EXCEPT ![Main] = "signal"]
        /\ UNCHANGED <<exists, mutex, has, waiting, woken, wait, queue, read>>
    BY <1>2, <1>4, <1>5, <1>8, <1>23, RoleFacts
       DEF At, Goto, Close, mutexVars
  <2>2. Programs'
    BY <1>2, <1>3, <2>1, RoleFacts DEF Programs
  <2>3. Waits'
    BY <1>2, <1>3, <1>4, <2>1, RoleFacts DEF Waits, InCall, Programs
  <2>4. Ownership'
    BY <1>2, <1>3, <1>4, <1>5, <2>1, RoleFacts DEF Ownership, Inside, InCall, Programs, Waits
  <2>5. CountIsCurrent'
    BY <1>2, <1>3, <1>4, <1>5, <1>6, <2>1, RoleFacts DEF CountIsCurrent, Ownership, Inside, Programs, Waits
  <2>6. Phases'
    BY <1>2, <1>3, <1>7, <2>1, RoleFacts DEF Phases, AllOver, Programs
  <2> QED
    BY <1>1, <2>2, <2>3, <2>4, <2>5, <2>6 DEF IInv
<1>24. ASSUME SignalDone(Main) PROVE IInv'
  <2>1. /\ at[Main] = "signal" /\ ~InCall(Main) /\ at' = [at EXCEPT ![Main] = "unlock"]
        /\ waiting' = {} /\ woken' = waiting \cup woken
        /\ UNCHANGED <<exists, mutex, has, wait, queue, read>>
    BY <1>2, <1>4, <1>5, <1>8, <1>24, RoleFacts
       DEF At, Goto, SignalDone, Broadcast, Wake, Returns, Waits
  <2>2. Programs'
    BY <1>2, <1>3, <2>1, RoleFacts DEF Programs
  <2>3. Waits'
    BY <1>2, <1>3, <1>4, <2>1, RoleFacts DEF Waits, InCall, Programs
  <2>4. Ownership'
    BY <1>2, <1>3, <1>4, <1>5, <2>1, RoleFacts DEF Ownership, Inside, InCall, Programs, Waits
  <2>5. CountIsCurrent'
    BY <1>2, <1>3, <1>4, <1>5, <1>6, <2>1, RoleFacts DEF CountIsCurrent, Ownership, Inside, Programs, Waits
  <2>6. Phases'
    BY <1>2, <1>3, <1>7, <2>1, RoleFacts DEF Phases, AllOver, Programs
  <2> QED
    BY <1>1, <2>2, <2>3, <2>4, <2>5, <2>6 DEF IInv
<1>25. ASSUME UnlockDone(Main) PROVE IInv'
  <2>1. /\ at[Main] = "unlock" /\ ~InCall(Main) /\ at' = [at EXCEPT ![Main] = "join consumers"]
        /\ mutex = Main /\ mutex' = NULL /\ has' = {}
        /\ UNCHANGED <<exists, waiting, woken, wait, queue, read>>
    BY <1>2, <1>4, <1>5, <1>8, <1>25, RoleFacts
       DEF At, Goto, UnlockDone, Unlock, Returns, Ownership
  <2>2. Programs'
    BY <1>2, <1>3, <2>1, RoleFacts DEF Programs
  <2>3. Waits'
    BY <1>2, <1>3, <1>4, <2>1, RoleFacts DEF Waits, InCall, Programs
  <2>4. Ownership'
    BY <1>2, <1>3, <1>4, <1>5, <2>1, RoleFacts DEF Ownership, Inside, InCall, Programs, Waits
  <2>5. CountIsCurrent'
    BY <1>2, <1>3, <1>4, <1>5, <1>6, <2>1, RoleFacts DEF CountIsCurrent, Ownership, Inside, Programs, Waits
  <2>6. Phases'
    BY <1>2, <1>3, <1>7, <2>1, RoleFacts DEF Phases, AllOver, Programs
  <2> QED
    BY <1>1, <2>2, <2>3, <2>4, <2>5, <2>6 DEF IInv
<1>26. ASSUME JoinConsumers(Main) PROVE IInv'
  <2>1. /\ at[Main] = "join consumers" /\ AllOver(Consumer) /\ at' = [at EXCEPT ![Main] = "destroy"]
        /\ UNCHANGED <<exists, mutex, has, waiting, woken, wait, queue, read>>
    BY <1>2, <1>4, <1>5, <1>8, <1>26, RoleFacts
       DEF At, Goto, JoinConsumers, mutexVars
  <2>2. Programs'
    BY <1>2, <1>3, <2>1, RoleFacts DEF Programs
  <2>3. Waits'
    BY <1>2, <1>3, <1>4, <2>1, RoleFacts DEF Waits, InCall, Programs
  <2>4. Ownership'
    BY <1>2, <1>3, <1>4, <1>5, <2>1, RoleFacts DEF Ownership, Inside, InCall, Programs, Waits
  <2>5. CountIsCurrent'
    BY <1>2, <1>3, <1>4, <1>5, <1>6, <2>1, RoleFacts DEF CountIsCurrent, Ownership, Inside, Programs, Waits
  <2>6. Phases'
    BY <1>2, <1>3, <1>7, <2>1, RoleFacts DEF Phases, AllOver, Programs
  <2> QED
    BY <1>1, <2>2, <2>3, <2>4, <2>5, <2>6 DEF IInv
<1>27. ASSUME Destroy(Main) PROVE IInv'
  <2>1. /\ at[Main] = "destroy" /\ ~InCall(Main) /\ at' = [at EXCEPT ![Main] = "over"]
        /\ ~exists' /\ has' = has \ {Main}
        /\ UNCHANGED <<mutex, waiting, woken, wait, queue, read>>
    BY <1>2, <1>4, <1>5, <1>8, <1>27, RoleFacts
       DEF At, Goto, Destroy, Done, Returns
  <2>2. Programs'
    BY <1>2, <1>3, <2>1, RoleFacts DEF Programs
  <2>3. Waits'
    BY <1>2, <1>3, <1>4, <2>1, RoleFacts DEF Waits, InCall, Programs
  <2>4. Ownership'
    BY <1>2, <1>3, <1>4, <1>5, <2>1, RoleFacts DEF Ownership, Inside, InCall, Programs, Waits
  <2>5. CountIsCurrent'
    BY <1>2, <1>3, <1>4, <1>5, <1>6, <2>1, RoleFacts DEF CountIsCurrent, Ownership, Inside, Programs, Waits
  <2>6. Phases'
    BY <1>2, <1>3, <1>7, <2>1, RoleFacts DEF Phases, AllOver, Programs
  <2> QED
    BY <1>1, <2>2, <2>3, <2>4, <2>5, <2>6 DEF IInv
<1>28. ASSUME NEW t \in Thread, WakeUnasked(t) PROVE IInv'
  <2>1. /\ t \in waiting /\ waiting' = waiting \ {t} /\ woken' = woken \cup {t}
        /\ UNCHANGED <<at, exists, mutex, has, wait, queue, read>>
    BY <1>2, <1>4, <1>5, <1>8, <1>28, RoleFacts
       DEF At, Goto, WakeUnasked, TimeOut, WakeSpuriously, Wake
  <2>2. Programs'
    BY <1>2, <1>3, <2>1, RoleFacts DEF Programs
  <2>3. Waits'
    BY <1>2, <1>3, <1>4, <2>1, RoleFacts DEF Waits, InCall, Programs
  <2>4. Ownership'
    BY <1>2, <1>3, <1>4, <1>5, <2>1, RoleFacts DEF Ownership, Inside, InCall, Programs, Waits
  <2>5. CountIsCurrent'
    BY <1>2, <1>3, <1>4, <1>5, <1>6, <2>1, RoleFacts DEF CountIsCurrent, Ownership, Inside, Programs, Waits
  <2>6. Phases'
    BY <1>2, <1>3, <1>7, <2>1, RoleFacts DEF Phases, AllOver, Programs
  <2> QED
    BY <1>1, <2>2, <2>3, <2>4, <2>5, <2>6 DEF IInv
<1> QED
  BY <1>9, <1>10, <1>11, <1>12, <1>13, <1>14, <1>15, <1>16, <1>17, <1>18, <1>19, <1>20, <1>21, <1>22, <1>23, <1>24, <1>25, <1>26, <1>27, <1>28, RoleFacts
     DEF Next, Step, Produce, Consume, Manage

\* The initial states are initial in Monitor, and every step maps to one of its steps.
LEMMA AbstractInit == Init => Abstract!Init
  BY DEF Init, MutexInit, Abstract!Init

LEMMA AbstractStep == IInv /\ [Next]_vars => [Abstract!Next]_(Abstract!vars)
<1> SUFFICES ASSUME IInv, [Next]_vars PROVE [Abstract!Next]_(Abstract!vars)
  OBVIOUS
<1>1. Waits /\ Ownership
  BY DEF IInv
<1>2. CASE UNCHANGED <<mutex, waiting, woken>>
  BY <1>2 DEF Abstract!vars
<1>3. ASSUME NEW t \in Thread, Lock(t) \/ Trylock(t) PROVE [Abstract!Next]_(Abstract!vars)
  BY <1>1, <1>3 DEF Lock, Trylock, Waits, Abstract!Next, Abstract!Lock, Abstract!vars
<1>4. ASSUME NEW t \in Thread, Unlock(t) PROVE [Abstract!Next]_(Abstract!vars)
  BY <1>1, <1>4 DEF Unlock, Ownership, Abstract!Next, Abstract!Unlock
<1>5. ASSUME NEW t \in Thread, NEW kind \in {"wait", "timedwait"}, Wait(t, kind)
      PROVE  [Abstract!Next]_(Abstract!vars)
  BY <1>1, <1>5 DEF Wait, Ownership, Abstract!Next, Abstract!Wait
<1>6. ASSUME NEW t \in Thread, Awake(t) PROVE [Abstract!Next]_(Abstract!vars)
  BY <1>6 DEF Awake, Abstract!Next, Abstract!Relock
<1>7. ASSUME NEW t \in Thread, Signal(t) PROVE [Abstract!Next]_(Abstract!vars)
  BY <1>7 DEF Signal, Wake, Abstract!Next, Abstract!Signal, Abstract!Wake, Abstract!vars
<1>8. ASSUME NEW t \in Thread, Broadcast(t) PROVE [Abstract!Next]_(Abstract!vars)
  BY <1>8 DEF Broadcast, Wake, Abstract!Next, Abstract!Broadcast, Abstract!Wake
<1>9. ASSUME NEW t \in Thread, TimeOut(t) \/ WakeSpuriously(t)
      PROVE  [Abstract!Next]_(Abstract!vars)
  BY <1>9 DEF TimeOut, WakeSpuriously, Wake, Abstract!Next, Abstract!WakeUnasked, Abstract!Wake
<1>10. ASSUME NEW t \in Producer \cup Consumer \cup {Main}, Produce(t) \/ Consume(t) \/ Manage(t)
       PROVE  [Abstract!Next]_(Abstract!vars)
  <2>1. t \in Thread
    BY <1>10, RoleFacts
  <2>2. CASE \E next \in {"read", "test", "close"} : TakeMutex(t, next)
    BY <1>3, <2>1, <2>2 DEF TakeMutex
  <2>3. CASE ReadQueue(t) \/ AddItem(t) \/ TakeItem(t) \/ JoinProducers(t) \/ Close(t) \/ JoinConsumers(t)
    BY <1>2, <2>3 DEF ReadQueue, Read, AddItem, TakeItem, JoinProducers, Close, JoinConsumers, mutexVars
  <2>4. CASE SignalItem(t) \/ SignalDone(t)
    BY <1>7, <1>8, <2>1, <2>4 DEF SignalItem, SignalDone
  <2>5. CASE UnlockLoop(t) \/ Leave(t) \/ UnlockDone(t)
    BY <1>4, <2>1, <2>5 DEF UnlockLoop, Leave, UnlockDone
  <2>6. CASE Test(t)
    BY <1>2, <1>5, <2>1, <2>6 DEF Test, mutexVars
  <2>7. CASE Awake(t)
    BY <1>6, <2>1, <2>7
  <2>8. CASE Setup(t) \/ Destroy(t)
    BY <1>2, <2>8 DEF Setup, InitMutexAndCond, Destroy, Done
  <2> QED
    BY <1>10, <2>2, <2>3, <2>4, <2>5, <2>6, <2>7, <2>8 DEF Produce, Consume, Manage
<1>11. ASSUME NEW t \in Thread, WakeUnasked(t) PROVE [Abstract!Next]_(Abstract!vars)
  BY <1>9, <1>11 DEF WakeUnasked
<1> QED
  BY <1>2, <1>10, <1>11, RoleFacts DEF Next, Step, vars, mutexVars

-----------------------------------------------------------------------------
\* One more for one thread is one more in all.
LEMMA OneMore ==
    ASSUME NEW S, NEW f \in [S -> Nat], IsFiniteSet(Counted(f)), NEW t \in S
    PROVE  LET g == [f EXCEPT ![t] = @ + 1]
           IN  /\ IsFiniteSet(Counted(g))
               /\ Cardinality(Counted(g)) = Cardinality(Counted(f)) + 1
<1> DEFINE g == [f EXCEPT ![t] = f[t] + 1]
           new == <<t, f[t] + 1>>
<1>1. f[t] \in Nat /\ DOMAIN f = S /\ DOMAIN g = S /\ g[t] = f[t] + 1
  OBVIOUS
<1>2. \A u \in S \ {t} : g[u] = f[u]
  OBVIOUS
<1>3. \A x : x \in Counted(f) <=> \E u \in S : \E i \in 1 .. f[u] : x = <<u, i>>
  BY <1>1 DEF Counted
<1>4. \A x : x \in Counted(g) <=> \E u \in S : \E i \in 1 .. g[u] : x = <<u, i>>
  BY <1>1 DEF Counted
<1>5. 1 .. f[t] + 1 = (1 .. f[t]) \cup {f[t] + 1} /\ f[t] + 1 \notin 1 .. f[t]
  BY <1>1
<1> HIDE DEF g
<1>6. Counted(g) = Counted(f) \cup {new}
  BY <1>1, <1>2, <1>3, <1>4, <1>5
<1>7. new \notin Counted(f)
  BY <1>3, <1>5
<1>8. IsFiniteSet(Counted(g)) /\ Cardinality(Counted(g)) = Cardinality(Counted(f)) + 1
  BY <1>6, <1>7, FS_AddElement
<1> QED
  BY <1>8 DEF g

\* Two threads that count up at once would lose an item: nobody writes a stale count.
Tallied == /\ IsFiniteSet(Counted(made)) /\ IsFiniteSet(Counted(taken))
           /\ NoItemLost

LEMMA TalliedInit == Init => Tallied
<1> SUFFICES ASSUME Init PROVE Tallied
  OBVIOUS
<1>1. queue = 0 /\ made = [t \in Producer |-> 0] /\ taken = [t \in Consumer |-> 0]
  BY DEF Init
<1>2. Counted(made) = {} /\ Counted(taken) = {}
  BY <1>1 DEF Counted
<1> QED
  BY <1>1, <1>2, FS_EmptySet DEF Tallied, NoItemLost

LEMMA TalliedStep == IInv /\ Tallied /\ [Next]_vars => Tallied'
<1> SUFFICES ASSUME IInv, Tallied, [Next]_vars PROVE Tallied'
  OBVIOUS
<1>1. TypeOK /\ CountIsCurrent
  BY DEF IInv
<1>2. /\ Cardinality(Counted(made)) \in Nat /\ Cardinality(Counted(taken)) \in Nat
      /\ queue \in Nat /\ made \in [Producer -> Nat] /\ taken \in [Consumer -> Nat]
  BY <1>1, FS_CardinalityType DEF Tallied, TypeOK
<1>3. CASE UNCHANGED <<queue, made, taken>>
  BY <1>3 DEF Tallied, NoItemLost
<1>4. ASSUME NEW t \in Producer, AddItem(t) PROVE Tallied'
  <2>1. queue' = queue + 1 /\ made' = [made EXCEPT ![t] = @ + 1] /\ taken' = taken
    BY <1>1, <1>4, RoleFacts DEF AddItem, At, CountIsCurrent
  <2>2. /\ IsFiniteSet(Counted(made'))
        /\ Cardinality(Counted(made')) = Cardinality(Counted(made)) + 1
    BY <1>2, <2>1, OneMore DEF Tallied
  <2> QED
    BY <1>2, <2>1, <2>2 DEF Tallied, NoItemLost
<1>5. ASSUME NEW t \in Consumer, TakeItem(t) PROVE Tallied'
  <2>1. /\ queue > 0 /\ queue' = queue - 1
        /\ taken' = [taken EXCEPT ![t] = @ + 1] /\ made' = made
    BY <1>1, <1>5, RoleFacts DEF TakeItem, At, CountIsCurrent
  <2>2. /\ IsFiniteSet(Counted(taken'))
        /\ Cardinality(Counted(taken')) = Cardinality(Counted(taken)) + 1
    BY <1>2, <2>1, OneMore DEF Tallied
  <2> QED
    BY <1>2, <2>1, <2>2 DEF Tallied, NoItemLost
<1>6. ASSUME NEW t \in Thread, WakeUnasked(t) PROVE Tallied'
  BY <1>3, <1>6 DEF WakeUnasked
<1>7. ASSUME NEW t \in Producer, Produce(t) PROVE Tallied'
  BY <1>3, <1>4, <1>7 DEF Produce, TakeMutex, ReadQueue, Read, SignalItem, UnlockLoop
<1>8. ASSUME NEW t \in Consumer, Consume(t) PROVE Tallied'
  BY <1>3, <1>5, <1>8 DEF Consume, TakeMutex, Test, UnlockLoop, Leave, program
<1>9. ASSUME Manage(Main) PROVE Tallied'
  BY <1>3, <1>9
     DEF Manage, Setup, JoinProducers, TakeMutex, Close, SignalDone, UnlockDone, JoinConsumers,
         Destroy
<1> QED
  BY <1>3, <1>6, <1>7, <1>8, <1>9 DEF Next, Step, vars, program

-----------------------------------------------------------------------------
\* The invariant always holds.
THEOREM Invariance == Spec => []IInv
BY IInvInit, IInvStep, PTL DEF Spec

\* The states of the mutex, the condition variable and the programs keep their types.
THEOREM TypeCorrect == Spec => []TypeOK
<1>1. IInv => TypeOK
  BY DEF IInv
<1> QED
  BY <1>1, Invariance, PTL

\* On both backends, who by the library's answers has the mutex has the platform's.
THEOREM AnswersTellOwnershipTheorem == Spec => []AnswersTellOwnership
<1>1. ASSUME IInv PROVE AnswersTellOwnership
  <2>1. has = IF mutex = NULL THEN {} ELSE {mutex}
    BY <1>1 DEF IInv, Ownership
  <2> QED
    BY <2>1, RoleFacts DEF AnswersTellOwnership
<1> QED
  BY <1>1, Invariance, PTL

\* Mutex and condition variable are not destroyed while anyone uses them.
THEOREM NotDestroyedInUseTheorem == Spec => []NotDestroyedInUse
<1>1. ASSUME IInv, ~exists PROVE mutex = NULL /\ waiting = {} /\ woken = {}
  <2>1. \A t \in Thread : at[t] \in {"unborn", "init", "over"}
    BY <1>1, RoleFacts DEF IInv, Phases, AllOver
  <2>2. \A t \in Thread : mutex # t /\ t \notin waiting \cup woken
    BY <1>1, <2>1 DEF IInv, Ownership, Inside, Waits
  <2> QED
    BY <1>1, <2>2 DEF IInv, TypeOK, MutexTypeOK
<1>2. IInv => NotDestroyedInUse
  BY <1>1 DEF NotDestroyedInUse
<1> QED
  BY <1>2, Invariance, PTL

\* No thread writes back a count that another has changed since it was read, and no
\* consumer takes what is not there.
THEOREM CountIsCurrentTheorem == Spec => []CountIsCurrent
<1>1. IInv => CountIsCurrent
  BY DEF IInv
<1> QED
  BY <1>1, Invariance, PTL

\* No item is lost: the count that is changed without an atomic operation, under the
\* mutex, is what the producers have added less what the consumers have taken.
THEOREM NoItemLostTheorem == Spec => []NoItemLost
<1>1. Tallied => NoItemLost
  BY DEF Tallied
<1> QED
  BY <1>1, TalliedInit, TalliedStep, Invariance, PTL DEF Spec

\* The mutex and condition variable of the C11 and pthreads backends implement the
\* documented monitor, as those of Windows do.
THEOREM Implements == Spec => Abstract!Spec
BY AbstractInit, AbstractStep, Invariance, PTL DEF Spec, Abstract!Spec
=============================================================================

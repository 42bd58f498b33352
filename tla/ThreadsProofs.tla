---------------------------- MODULE ThreadsProofs ----------------------------
(***************************************************************************)
(* Proofs about Threads, for any number of threads and handles, any        *)
(* values, and words of any width.                                         *)
(***************************************************************************)
EXTENDS Threads, TLAPS

\* Thread t is still to be joined by the program, or in a join.
Held(t) == t \in owned \/ \E u \in Thread : target[u] = t

\* The threads, in whatever relation to the program, that have been started.
Started == /\ \A t \in owned \cup detached \cup failed : life[t] # "none"
           /\ \A h \in Handle : object[h] # NULL => life[object[h]] # "none"

\* Each thread is in one place at most: to be joined or detached, in one join, or
\* detached or done with.
Apart == /\ \A t \in owned : t \notin detached \cup failed
         /\ \A u \in Thread : target[u] # NULL => target[u] \notin owned \cup detached \cup failed
         /\ \A u, v \in Thread : target[u] # NULL /\ target[u] = target[v] => u = v

\* A handle and the thread it stands for know each other.
Handles == /\ \A t \in Thread : Held(t) => handle[t] \in Handle /\ object[handle[t]] = t
           /\ \A t \in detached : /\ backend # "windows"
                                  /\ life[t] # "over" => handle[t] \in Handle /\ object[handle[t]] = t
           /\ \A h \in Handle : object[h] # NULL => handle[object[h]] = h

\* No handle is open that no one will close.
Closed == \A h \in Handle : object[h] \notin {NULL, 0} =>
             Held(object[h]) \/ (object[h] \in detached /\ life[object[h]] # "over")

\* What a join knows at each of its steps.
Joins == \A u \in Thread :
    /\ target[u] = NULL <=> pc[u] = "run"
    /\ pc[u] = "wait" => rval[u] = AsRval(-1)
    /\ pc[u] \in {"fetch", "close"} => backend = "windows" /\ life[target[u]] = "over"
    /\ pc[u] = "close" => rval[u] = code[target[u]]

\* What is known of a thread that has ended.
Ends == \A t \in Thread :
    /\ life[t] \in {"ending", "over"} => code[t] \in Nat
    /\ life[t] = "over" /\ proper[t] => tss[t] # "value"

IInv == /\ TypeOK /\ Started /\ Apart /\ Handles /\ Closed /\ Joins /\ Ends
        /\ JoinReturnsOwnResult /\ NeverJoinsItself

-----------------------------------------------------------------------------
\* Threads are numbers, so that NULL is none of them.
LEMMA ThreadFacts == /\ 0 \in Thread /\ NULL \notin Thread
                     /\ NULL \notin Nat /\ NULL \notin Handle /\ Pseudo \notin Handle
  BY ThreadsAssumption DEF Thread

\* A value is cut off to a natural number, the same one before and after a step.
LEMMA AsRvalNat == ASSUME TypeOK, NEW r \in Int PROVE AsRval(r) \in Nat
  BY ThreadsAssumption DEF AsRval

LEMMA StillActiveNat == STILL_ACTIVE \in Nat
  BY ThreadsAssumption DEF STILL_ACTIVE

LEMMA AsRvalStays == ASSUME NEW r \in Int, backend' = backend PROVE AsRval(r)' = AsRval(r)
  BY DEF AsRval

\* The initial states satisfy the invariant.
LEMMA IInvInit == Init => IInv
<1> SUFFICES ASSUME Init PROVE IInv
  OBVIOUS
<1> USE ThreadFacts DEF Init
<1>1. TypeOK
  BY DEF TypeOK
<1>2. Started /\ Apart
  BY DEF Started, Apart
<1>3. Handles /\ Closed
  BY DEF Handles, Closed, Held
<1>4. Joins /\ Ends
  BY DEF Joins, Ends
<1>5. JoinReturnsOwnResult /\ NeverJoinsItself
  BY DEF JoinReturnsOwnResult, NeverJoinsItself
<1> QED
  BY <1>1, <1>2, <1>3, <1>4, <1>5 DEF IInv

\* Types are kept.
LEMMA TypeStep == TypeOK /\ Handles /\ Joins /\ Ends /\ [Next]_vars => TypeOK'
<1> SUFFICES ASSUME TypeOK, Handles, Joins, Ends, [Next]_vars PROVE TypeOK'
  OBVIOUS
<1> USE ThreadFacts DEF TypeOK, lifeVars, joinVars
<1>1. CASE UNCHANGED vars
  BY <1>1 DEF vars
<1>2. ASSUME NEW u \in Thread, Create(u) PROVE TypeOK'
  BY <1>2 DEF Create
<1>3. ASSUME NEW t \in Thread, NEW r \in Rval \cup {0}, NEW label \in {"ending", "over"},
             NEW properly \in BOOLEAN, Leave(t, r, label, properly)
      PROVE  TypeOK'
  <2>1. AsRval(r) \in Nat
    BY AsRvalNat, ThreadsAssumption
  <2> QED
    BY <1>3, <2>1 DEF Leave
<1>4. ASSUME NEW t \in Thread, RunDestructor(t) PROVE TypeOK'
  BY <1>4 DEF RunDestructor
<1>5. ASSUME NEW t \in Thread, Terminate(t) PROVE TypeOK'
  BY <1>5 DEF Terminate
<1>6. ASSUME NEW u \in Thread, Join(u) PROVE TypeOK'
  <2>1. AsRval(-1) \in Nat
    BY AsRvalNat
  <2> QED
    BY <1>6, <2>1 DEF Join, Goto
<1>7. ASSUME NEW u \in Thread, JoinPlatform(u) PROVE TypeOK'
  <2>1. target[u] \in Thread
    BY <1>7 DEF JoinPlatform, Joins
  <2> QED
    BY <1>7 DEF JoinPlatform, JoinReturns, Goto
<1>8. ASSUME NEW u \in Thread, JoinWait(u) PROVE TypeOK'
  BY <1>8 DEF JoinWait, Goto
<1>9. ASSUME NEW u \in Thread, JoinFails(u) PROVE TypeOK'
  <2>1. target[u] \in Thread
    BY <1>9 DEF JoinFails, Joins
  <2> QED
    BY <1>9, <2>1 DEF JoinFails, JoinReturns, Goto
<1>10. ASSUME NEW u \in Thread, JoinFetch(u) PROVE TypeOK'
  <2> DEFINE h == Joined(u)
             r == IF object[h] = NULL THEN rval[u] ELSE IF Over(h) THEN code[object[h]] ELSE STILL_ACTIVE
  <2>1. target[u] \in Thread
    BY <1>10 DEF JoinFetch, Joins
  <2>2. h \in Handle
    BY <2>1 DEF Handles, Held, Joined
  <2>3. Over(h) => code[object[h]] \in Nat
    BY <2>2 DEF Over, Ends
  <2>4. r \in Nat
    BY <2>3, StillActiveNat
  <2>5. rval' = [rval EXCEPT ![u] = r]
    BY <1>10 DEF JoinFetch
  <2> HIDE DEF r
  <2> QED
    BY <1>10, <2>4, <2>5 DEF JoinFetch, Goto
<1>11. ASSUME NEW u \in Thread, JoinClose(u) PROVE TypeOK'
  <2>1. target[u] \in Thread
    BY <1>11 DEF JoinClose, Joins
  <2> QED
    BY <1>11 DEF JoinClose, JoinReturns, Goto
<1>12. ASSUME NEW u \in Thread, Detach(u) PROVE TypeOK'
  BY <1>12 DEF Detach
<1> QED
  BY <1>1, <1>2, <1>3, <1>4, <1>5, <1>6, <1>7, <1>8, <1>9, <1>10, <1>11, <1>12
     DEF Next, Exit, Return, PlainReturn

\* Every step keeps the invariant.
LEMMA IInvStep == IInv /\ [Next]_vars => IInv'
<1> SUFFICES ASSUME IInv, [Next]_vars PROVE IInv'
  OBVIOUS
<1>typ. TypeOK /\ TypeOK'
  BY TypeStep DEF IInv
<1> USE ThreadFacts DEF IInv, lifeVars, joinVars
<1>bck. backend' = backend /\ AsRval(-1)' = AsRval(-1)
  BY AsRvalStays DEF Next, vars, Create, Exit, Return, PlainReturn, Leave, RunDestructor, Terminate, Join, JoinPlatform, JoinWait, JoinFails, JoinFetch, JoinClose, Detach
<1>0. CASE UNCHANGED vars
  BY <1>0, <1>typ, <1>bck DEF vars, Started, Apart, Handles, Closed, Held, Joins, Ends, JoinReturnsOwnResult, NeverJoinsItself
<1>1. ASSUME NEW u \in Thread, Create(u) PROVE IInv'
  <2>1. Started'
    BY <1>1 DEF Create, TypeOK, Started
  <2>2. Apart'
    <3>1. PICK t \in Thread : life[t] = "none" /\ owned' = owned \cup {t}
      BY <1>1 DEF Create
    <3>2. ~Held(t) /\ t \notin detached \cup failed
      BY <3>1 DEF Started, Handles
    <3> QED
      BY <1>1, <3>1, <3>2 DEF Create, Apart, Held
  <2>3. Handles'
    BY <1>1 DEF Create, TypeOK, Handles, Held, Started, Joins
  <2>4. Closed'
    BY <1>1 DEF Create, Closed, Held, Apart, Joins
  <2>5. Joins'
    BY <1>1, <1>bck DEF Create, Joins, Ends
  <2>6. Ends'
    BY <1>1 DEF Create, Ends
  <2>7. JoinReturnsOwnResult'
    BY <1>1, <1>bck DEF Create, JoinReturnsOwnResult, Ends
  <2>8. NeverJoinsItself'
    BY <1>1 DEF Create, NeverJoinsItself, Joins
  <2> QED
    BY <1>typ, <2>1, <2>2, <2>3, <2>4, <2>5, <2>6, <2>7, <2>8
<1>2. ASSUME NEW t \in Thread, NEW r \in Rval \cup {0}, NEW label \in {"ending", "over"},
             NEW properly \in BOOLEAN, Leave(t, r, label, properly),
             label = "over" => ~properly /\ backend = "windows"
      PROVE  IInv'
  <2>0. AsRval(r) \in Nat
    BY AsRvalNat, ThreadsAssumption
  <2>1. Started'
    BY <1>2 DEF Leave, Started, Apart, Handles
  <2>2. Apart'
    BY <1>2 DEF Leave, Apart, Started, Joins
  <2>3. Handles'
    BY <1>2 DEF Leave, Runs, Handles, Held, Apart, Started, Joins
  <2>4. Closed'
    <3> SUFFICES ASSUME NEW h \in Handle, object[h] \notin {NULL, 0}
                 PROVE  Held(object[h]) \/ (object[h] \in detached /\ life'[object[h]] # "over")
      BY <1>2 DEF Leave, Closed, Held
    <3>1. object[h] = t /\ t \in detached => life'[t] # "over"
      BY <1>2 DEF Leave, TypeOK, Handles
    <3>2. object[h] # t => life'[object[h]] = life[object[h]]
      BY <1>2 DEF Leave
    <3>3. Held(object[h]) \/ (object[h] \in detached /\ life[object[h]] # "over")
      BY DEF Closed
    <3> QED
      BY <3>1, <3>2, <3>3
  <2>5. Joins'
    BY <1>2, <1>bck DEF Leave, Runs, Joins, Handles, Held, Ends
  <2>6. Ends'
    BY <1>2, <2>0 DEF Leave, TypeOK, Ends
  <2>7. JoinReturnsOwnResult'
    BY <1>2, <1>bck DEF Leave, Runs, JoinReturnsOwnResult, Apart, Joins, Ends
  <2>8. NeverJoinsItself'
    BY <1>2 DEF Leave, NeverJoinsItself, Handles, Held, Joins
  <2> QED
    BY <1>typ, <2>1, <2>2, <2>3, <2>4, <2>5, <2>6, <2>7, <2>8
<1>3. ASSUME NEW t \in Thread, RunDestructor(t) PROVE IInv'
  <2>1. Started'
    BY <1>3 DEF RunDestructor, Started
  <2>2. Apart'
    BY <1>3 DEF RunDestructor, Apart
  <2>3. Handles'
    BY <1>3 DEF RunDestructor, Handles, Held, Started, Joins
  <2>4. Closed'
    BY <1>3 DEF RunDestructor, Closed, Held, Apart, Joins
  <2>5. Joins'
    BY <1>3, <1>bck DEF RunDestructor, Joins, Ends
  <2>6. Ends'
    BY <1>3 DEF RunDestructor, Ends
  <2>7. JoinReturnsOwnResult'
    BY <1>3, <1>bck DEF RunDestructor, JoinReturnsOwnResult, Ends
  <2>8. NeverJoinsItself'
    BY <1>3 DEF RunDestructor, NeverJoinsItself, Joins
  <2> QED
    BY <1>typ, <2>1, <2>2, <2>3, <2>4, <2>5, <2>6, <2>7, <2>8
<1>4. ASSUME NEW t \in Thread, Terminate(t) PROVE IInv'
  <2>1. Started'
    BY <1>4 DEF Terminate, Started
  <2>2. Apart'
    BY <1>4 DEF Terminate, Apart
  <2>3. Handles'
    BY <1>4 DEF Terminate, TypeOK, Handles, Held, Apart, Started, Joins
  <2>4. Closed'
    <3>1. CASE t \in detached
      BY <1>4 DEF Terminate, TypeOK, Closed, Handles, Held
    <3>2. CASE t \notin detached
      <4> SUFFICES ASSUME NEW h \in Handle, object[h] \notin {NULL, 0}
                   PROVE  Held(object[h]) \/ (object[h] \in detached /\ life'[object[h]] # "over")
        BY <1>4 DEF Terminate, Closed, Held
      <4>1. object[h] # t => life'[object[h]] = life[object[h]]
        BY <1>4 DEF Terminate
      <4>2. Held(object[h]) \/ (object[h] \in detached /\ life[object[h]] # "over")
        BY DEF Closed
      <4> QED
        BY <3>2, <4>1, <4>2
    <3> QED
      BY <3>1, <3>2
  <2>5. Joins'
    BY <1>4, <1>bck DEF Terminate, Joins, Ends
  <2>6. Ends'
    BY <1>4 DEF Terminate, Ends
  <2>7. JoinReturnsOwnResult'
    BY <1>4, <1>bck DEF Terminate, JoinReturnsOwnResult, Ends
  <2>8. NeverJoinsItself'
    BY <1>4 DEF Terminate, NeverJoinsItself, Joins
  <2> QED
    BY <1>typ, <2>1, <2>2, <2>3, <2>4, <2>5, <2>6, <2>7, <2>8
<1>5. ASSUME NEW u \in Thread, Join(u) PROVE IInv'
  <2>1. Started'
    BY <1>5 DEF Join, Runs, TypeOK, Started, Apart, Handles
  <2>2. Apart'
    BY <1>5 DEF Join, Runs, TypeOK, Apart, Started, Joins
  <2>3. Handles'
    BY <1>5 DEF Join, Runs, TypeOK, Handles, Held, Apart, Started, Joins
  <2>4. Closed'
    BY <1>5 DEF Join, Runs, TypeOK, Closed, Handles, Held, Apart, Joins
  <2>5. Joins'
    BY <1>5, <1>bck DEF Join, Goto, Runs, TypeOK, Joins, Handles, Held, Ends
  <2>6. Ends'
    BY <1>5 DEF Join, Runs, TypeOK, Ends
  <2>7. JoinReturnsOwnResult'
    BY <1>5, <1>bck DEF Join, Runs, TypeOK, JoinReturnsOwnResult, Apart, Joins, Ends
  <2>8. NeverJoinsItself'
    BY <1>5 DEF Join, EqualsSelf, GetId, Self, Runs, TypeOK, NeverJoinsItself, Handles, Held, Joins
  <2> QED
    BY <1>typ, <2>1, <2>2, <2>3, <2>4, <2>5, <2>6, <2>7, <2>8
<1>6. ASSUME NEW u \in Thread, JoinPlatform(u) PROVE IInv'
  <2>1. Started'
    BY <1>6 DEF JoinPlatform, Started, Apart, Handles
  <2>2. Apart'
    BY <1>6 DEF JoinPlatform, JoinReturns, Apart, Started, Joins
  <2>3. Handles'
    BY <1>6 DEF JoinPlatform, JoinReturns, Joined, TypeOK, Handles, Held, Apart, Started, Joins
  <2>4. Closed'
    BY <1>6 DEF JoinPlatform, JoinReturns, Joined, TypeOK, Closed, Handles, Held, Apart, Joins
  <2>5. Joins'
    BY <1>6, <1>bck DEF JoinPlatform, JoinReturns, Goto, TypeOK, Joins, Handles, Held, Ends
  <2>6. Ends'
    BY <1>6 DEF JoinPlatform, Ends
  <2>7. JoinReturnsOwnResult'
    BY <1>6, <1>bck DEF JoinPlatform, JoinReturns, JoinReturnsOwnResult, Apart, Joins, Ends
  <2>8. NeverJoinsItself'
    BY <1>6 DEF JoinPlatform, JoinReturns, NeverJoinsItself, Handles, Held, Joins
  <2> QED
    BY <1>typ, <2>1, <2>2, <2>3, <2>4, <2>5, <2>6, <2>7, <2>8
<1>7. ASSUME NEW u \in Thread, JoinWait(u) PROVE IInv'
  <2>1. Started'
    BY <1>7 DEF JoinWait, Started, Apart, Handles
  <2>2. Apart'
    BY <1>7 DEF JoinWait, Apart, Started, Joins
  <2>3. Handles'
    BY <1>7 DEF JoinWait, Handles, Held, Apart, Started, Joins
  <2>4. Closed'
    BY <1>7 DEF JoinWait, Closed, Handles, Held, Apart, Joins
  <2>5. Joins'
    BY <1>7, <1>bck DEF JoinWait, Goto, Joined, Over, TypeOK, Joins, Handles, Held, Ends
  <2>6. Ends'
    BY <1>7 DEF JoinWait, Ends
  <2>7. JoinReturnsOwnResult'
    BY <1>7, <1>bck DEF JoinWait, JoinReturnsOwnResult, Apart, Joins, Ends
  <2>8. NeverJoinsItself'
    BY <1>7 DEF JoinWait, NeverJoinsItself, Handles, Held, Joins
  <2> QED
    BY <1>typ, <2>1, <2>2, <2>3, <2>4, <2>5, <2>6, <2>7, <2>8
<1>8. ASSUME NEW u \in Thread, JoinFails(u) PROVE IInv'
  <2>1. Started'
    <3>1. target[u] \in Thread /\ life[target[u]] # "none"
      BY <1>8 DEF JoinFails, TypeOK, Joins, Handles, Held, Started
    <3> QED
      BY <1>8, <3>1 DEF JoinFails, Started
  <2>2. Apart'
    BY <1>8 DEF JoinFails, JoinReturns, TypeOK, Apart, Started, Joins
  <2>3. Handles'
    BY <1>8 DEF JoinFails, JoinReturns, Joined, TypeOK, Handles, Held, Apart, Started, Joins
  <2>4. Closed'
    BY <1>8 DEF JoinFails, JoinReturns, Joined, TypeOK, Closed, Handles, Held, Apart, Joins
  <2>5. Joins'
    BY <1>8, <1>bck DEF JoinFails, JoinReturns, Goto, TypeOK, Joins, Handles, Held, Ends
  <2>6. Ends'
    BY <1>8 DEF JoinFails, Ends
  <2>7. JoinReturnsOwnResult'
    BY <1>8, <1>bck DEF JoinFails, JoinReturns, TypeOK, JoinReturnsOwnResult, Apart, Joins, Ends
  <2>8. NeverJoinsItself'
    BY <1>8 DEF JoinFails, JoinReturns, NeverJoinsItself, Handles, Held, Joins
  <2> QED
    BY <1>typ, <2>1, <2>2, <2>3, <2>4, <2>5, <2>6, <2>7, <2>8
<1>9. ASSUME NEW u \in Thread, JoinFetch(u) PROVE IInv'
  <2>1. Started'
    BY <1>9 DEF JoinFetch, Started, Apart, Handles
  <2>2. Apart'
    BY <1>9 DEF JoinFetch, Apart, Started, Joins
  <2>3. Handles'
    BY <1>9 DEF JoinFetch, Handles, Held, Apart, Started, Joins
  <2>4. Closed'
    BY <1>9 DEF JoinFetch, Closed, Handles, Held, Apart, Joins
  <2>5. Joins'
    BY <1>9, <1>bck DEF JoinFetch, Goto, Joined, Over, TypeOK, Joins, Handles, Held, Ends
  <2>6. Ends'
    BY <1>9 DEF JoinFetch, Ends
  <2>7. JoinReturnsOwnResult'
    BY <1>9, <1>bck DEF JoinFetch, JoinReturnsOwnResult, Apart, Joins, Ends
  <2>8. NeverJoinsItself'
    BY <1>9 DEF JoinFetch, NeverJoinsItself, Handles, Held, Joins
  <2> QED
    BY <1>typ, <2>1, <2>2, <2>3, <2>4, <2>5, <2>6, <2>7, <2>8
<1>10. ASSUME NEW u \in Thread, JoinClose(u) PROVE IInv'
  <2>1. Started'
    BY <1>10 DEF JoinClose, Started, Apart, Handles
  <2>2. Apart'
    BY <1>10 DEF JoinClose, JoinReturns, Apart, Started, Joins
  <2>3. Handles'
    BY <1>10 DEF JoinClose, JoinReturns, Joined, TypeOK, Handles, Held, Apart, Started, Joins
  <2>4. Closed'
    BY <1>10 DEF JoinClose, JoinReturns, Joined, TypeOK, Closed, Handles, Held, Apart, Joins
  <2>5. Joins'
    BY <1>10, <1>bck DEF JoinClose, JoinReturns, Goto, TypeOK, Joins, Handles, Held, Ends
  <2>6. Ends'
    BY <1>10 DEF JoinClose, Ends
  <2>7. JoinReturnsOwnResult'
    BY <1>10, <1>bck DEF JoinClose, JoinReturns, JoinReturnsOwnResult, Apart, Joins, Ends
  <2>8. NeverJoinsItself'
    BY <1>10 DEF JoinClose, JoinReturns, NeverJoinsItself, Handles, Held, Joins
  <2> QED
    BY <1>typ, <2>1, <2>2, <2>3, <2>4, <2>5, <2>6, <2>7, <2>8
<1>11. ASSUME NEW u \in Thread, Detach(u) PROVE IInv'
  <2>1. Started'
    BY <1>11 DEF Detach, Started, Handles
  <2>2. Apart'
    BY <1>11 DEF Detach, Apart, Joins
  <2>3. Handles'
    BY <1>11 DEF Detach, TypeOK, Handles, Held, Apart, Started, Joins
  <2>4. Closed'
    BY <1>11 DEF Detach, TypeOK, Closed, Handles, Held, Apart, Joins
  <2>5. Joins'
    BY <1>11, <1>bck DEF Detach, Joins, Held, Ends
  <2>6. Ends'
    BY <1>11 DEF Detach, Ends
  <2>7. JoinReturnsOwnResult'
    BY <1>11, <1>bck DEF Detach, JoinReturnsOwnResult, Joins, Ends
  <2>8. NeverJoinsItself'
    BY <1>11 DEF Detach, NeverJoinsItself, Held, Joins
  <2> QED
    BY <1>typ, <2>1, <2>2, <2>3, <2>4, <2>5, <2>6, <2>7, <2>8
<1> QED
  BY <1>0, <1>1, <1>2, <1>3, <1>4, <1>5, <1>6, <1>7, <1>8, <1>9, <1>10, <1>11 DEF Next, Exit, Return, PlainReturn

-----------------------------------------------------------------------------
\* The invariant always holds.
THEOREM Invariance == Spec => []IInv
BY IInvInit, IInvStep, PTL DEF Spec

\* The states of threads, handles and joins keep their types.
THEOREM TypeCorrect == Spec => []TypeOK
<1>1. IInv => TypeOK
  BY DEF IInv
<1> QED
  BY <1>1, Invariance, PTL

\* mulle_thread_join returns what its own thread ended with, after it has ended, though
\* the system gives handles out again.
THEOREM JoinReturnsOwnResultTheorem == Spec => []JoinReturnsOwnResult
<1>1. IInv => JoinReturnsOwnResult
  BY DEF IInv
<1> QED
  BY <1>1, Invariance, PTL

\* A join of a thread that ended by exit or return comes after its destructors.
THEOREM JoinAfterDestructorsTheorem == Spec => []JoinAfterDestructors
<1>1. IInv => JoinAfterDestructors
  BY DEF IInv, Ends, JoinReturnsOwnResult, JoinAfterDestructors
<1> QED
  BY <1>1, Invariance, PTL

\* A handle stands for its thread until the thread is joined or detached.
THEOREM HandleStandsForThreadTheorem == Spec => []HandleStandsForThread
<1>1. IInv => HandleStandsForThread
  BY DEF IInv, TypeOK, Handles, Held, HandleStandsForThread, BeingJoined
<1> QED
  BY <1>1, Invariance, PTL

\* No join and no detach leaks a handle.
THEOREM NoHandleLeakTheorem == Spec => []NoHandleLeak
<1>1. ASSUME IInv PROVE NoHandleLeak
  BY <1>1 DEF IInv, Closed, Handles, Held, NoHandleLeak, BeingJoined
<1> QED
  BY <1>1, Invariance, PTL

\* A thread that leaves out the handle equal to its own does not join itself.
THEOREM NeverJoinsItselfTheorem == Spec => []NeverJoinsItself
<1>1. IInv => NeverJoinsItself
  BY DEF IInv
<1> QED
  BY <1>1, Invariance, PTL
=============================================================================

------------------------------ MODULE CondQueue ------------------------------
(***************************************************************************)
(* The library's own use of a condition variable, test/cond/cond-stress.c, *)
(* on the mutex of PosixMutex: producers add to a count of items under the *)
(* mutex and signal, consumers wait while there is nothing to take, and    *)
(* the main thread, when the producers are over, lets the consumers end by *)
(* a broadcast, joins them, and destroys mutex and condition variable.     *)
(* Producers may poll with trylock, and consumers wait with a timeout.     *)
(***************************************************************************)
EXTENDS PosixMutex, Naturals, FiniteSets

CONSTANTS Producer, Consumer, Main,
          Items,      \* what each producer adds, 100 in the test
          MaxUnasked  \* bound on the wake-ups by timeout or for nothing

ASSUME CondQueueAssumption == /\ Thread = Producer \cup Consumer \cup {Main}
                              /\ Producer \cap Consumer = {} /\ Main \notin Producer \cup Consumer
                              /\ Items \in Nat \ {0} /\ MaxUnasked \in Nat

VARIABLES at,       \* the next step of each thread's program
          queue, done,  \* as in the test
          read,     \* the value of queue a thread is about to change
          made,     \* the items each producer has added
          taken,    \* those each consumer has taken
          unasked

program == <<at, queue, done, read, made, taken, unasked>>
vars == <<mutexVars, program>>

TypeOK == /\ MutexTypeOK
          /\ at \in [Thread -> {"unborn", "init", "join producers", "lock", "read", "test", "write",
                                "take", "close", "signal", "unlock", "leave", "join consumers",
                                "destroy", "over"}]
          /\ queue \in Nat /\ done \in BOOLEAN /\ read \in [Thread -> Nat]
          /\ made \in [Producer -> Nat] /\ taken \in [Consumer -> Nat]
          /\ unasked \in 0 .. MaxUnasked

Init == /\ MutexInit
        /\ at = [t \in Thread |-> IF t = Main THEN "init" ELSE "unborn"]
        /\ queue = 0 /\ done = FALSE
        /\ read = [t \in Thread |-> 0]
        /\ made = [t \in Producer |-> 0]
        /\ taken = [t \in Consumer |-> 0]
        /\ unasked = 0

Goto(t, label) == at' = [at EXCEPT ![t] = label]

\* Thread t is at this step, and back from its last call.
At(t, label) == at[t] = label /\ ~InCall(t)

\* Lock, or poll until trylock answers 0.
TakeMutex(t, next) ==
    /\ At(t, "lock")
    /\ \/ Lock(t)
       \/ t \in Producer /\ Trylock(t)
    /\ Goto(t, IF answer'[t] = "0" THEN next ELSE "lock")
    /\ UNCHANGED <<queue, done, read, made, taken, unasked>>

Read(t, label) == /\ read' = [read EXCEPT ![t] = queue]
                  /\ Goto(t, label)
                  /\ UNCHANGED <<mutexVars, queue, done, made, taken, unasked>>

-----------------------------------------------------------------------------
(* Producers *)

\* queue++ is a read and a write.
ReadQueue(t) == At(t, "read") /\ Read(t, "write")

AddItem(t) ==
    /\ At(t, "write")
    /\ queue' = read[t] + 1
    /\ made' = [made EXCEPT ![t] = @ + 1]
    /\ Goto(t, "signal")
    /\ UNCHANGED <<mutexVars, done, read, taken, unasked>>

SignalItem(t) ==
    /\ At(t, "signal") /\ t \in Producer
    /\ Signal(t)
    /\ Goto(t, "unlock")
    /\ UNCHANGED <<queue, done, read, made, taken, unasked>>

\* The end of the loop's body, for producers and consumers.
UnlockLoop(t) ==
    /\ At(t, "unlock") /\ t # Main
    /\ Unlock(t)
    /\ Goto(t, IF t \in Producer /\ made[t] = Items THEN "over" ELSE "lock")
    /\ UNCHANGED <<queue, done, read, made, taken, unasked>>

Produce(t) == \/ TakeMutex(t, "read") \/ ReadQueue(t) \/ AddItem(t) \/ SignalItem(t)
              \/ UnlockLoop(t)

-----------------------------------------------------------------------------
(* Consumers *)

\* Whatever the wait answers, the condition is tested again.
Test(t) ==
    /\ At(t, "test")
    /\ \/ /\ queue = 0 /\ ~done
          /\ \E kind \in {"wait", "timedwait"} : Wait(t, kind)
          /\ UNCHANGED <<at, read>>
       \/ /\ queue > 0
          /\ read' = [read EXCEPT ![t] = queue]
          /\ Goto(t, "take")
          /\ UNCHANGED mutexVars
       \/ /\ queue = 0 /\ done
          /\ Goto(t, "leave")
          /\ UNCHANGED <<mutexVars, read>>
    /\ UNCHANGED <<queue, done, made, taken, unasked>>

TakeItem(t) ==
    /\ At(t, "take")
    /\ queue' = read[t] - 1
    /\ taken' = [taken EXCEPT ![t] = @ + 1]
    /\ Goto(t, "unlock")
    /\ UNCHANGED <<mutexVars, done, read, made, unasked>>

Leave(t) ==
    /\ At(t, "leave")
    /\ Unlock(t)
    /\ Goto(t, "over")
    /\ UNCHANGED <<queue, done, read, made, taken, unasked>>

Consume(t) == \/ TakeMutex(t, "test") \/ Test(t) \/ TakeItem(t) \/ UnlockLoop(t) \/ Leave(t)
              \/ Awake(t) /\ UNCHANGED program

-----------------------------------------------------------------------------
(* The main thread *)

AllOver(S) == \A t \in S : at[t] = "over"

\* The test takes it for granted that mutex and condition variable can be set up.
Setup(t) ==
    /\ at[t] = "init"
    /\ InitMutexAndCond(t, Code.success)
    /\ at' = [u \in Thread |-> IF u = t THEN "join producers" ELSE "lock"]
    /\ UNCHANGED <<queue, done, read, made, taken, unasked>>

JoinProducers(t) ==
    /\ at[t] = "join producers" /\ AllOver(Producer)
    /\ Goto(t, "lock")
    /\ UNCHANGED <<mutexVars, queue, done, read, made, taken, unasked>>

Close(t) ==
    /\ At(t, "close")
    /\ done' = TRUE
    /\ Goto(t, "signal")
    /\ UNCHANGED <<mutexVars, queue, read, made, taken, unasked>>

SignalDone(t) ==
    /\ At(t, "signal") /\ t = Main
    /\ Broadcast(t)
    /\ Goto(t, "unlock")
    /\ UNCHANGED <<queue, done, read, made, taken, unasked>>

UnlockDone(t) ==
    /\ At(t, "unlock") /\ t = Main
    /\ Unlock(t)
    /\ Goto(t, "join consumers")
    /\ UNCHANGED <<queue, done, read, made, taken, unasked>>

\* Mutant: the consumers are not waited for.
JoinNobody(t) ==
    /\ at[t] = "join consumers"
    /\ Goto(t, "destroy")
    /\ UNCHANGED <<mutexVars, queue, done, read, made, taken, unasked>>

JoinConsumers(t) ==
    /\ at[t] = "join consumers" /\ AllOver(Consumer)
    /\ Goto(t, "destroy")
    /\ UNCHANGED <<mutexVars, queue, done, read, made, taken, unasked>>

Destroy(t) ==
    /\ At(t, "destroy")
    /\ Done(t)
    /\ Goto(t, "over")
    /\ UNCHANGED <<queue, done, read, made, taken, unasked>>

Manage(t) == \/ Setup(t) \/ JoinProducers(t) \/ TakeMutex(t, "close") \/ Close(t) \/ SignalDone(t)
             \/ UnlockDone(t) \/ JoinConsumers(t) \/ Destroy(t)

-----------------------------------------------------------------------------
Step(t) == \/ t \in Producer /\ Produce(t)
           \/ t \in Consumer /\ Consume(t)
           \/ t = Main /\ Manage(t)

WakeUnasked(t) ==
    /\ unasked < MaxUnasked
    /\ unasked' = unasked + 1
    /\ TimeOut(t) \/ WakeSpuriously(t)
    /\ UNCHANGED <<at, queue, done, read, made, taken>>

Next == \E t \in Thread : Step(t) \/ WakeUnasked(t)

Spec == Init /\ [][Next]_vars

\* Every thread that can go on does so.
FairSpec == Spec /\ \A t \in Thread : WF_vars(Step(t))

-----------------------------------------------------------------------------
(* Properties *)

Abstract == INSTANCE Monitor WITH owner <- mutex

\* What f counts for each thread, one by one.
Counted(f) == UNION {{t} \X (1 .. f[t]) : t \in DOMAIN f}

\* No item is lost or made up by two threads changing the count at once: what was
\* added is what was taken and what the count says is still there.
NoItemLost == queue + Cardinality(Counted(taken)) = Cardinality(Counted(made))

\* Mutex and condition variable are destroyed when no thread has the one or is
\* waiting on the other.
NotDestroyedInUse == ~exists => mutex = NULL /\ waiting = {} /\ woken = {}

\* "test passed: all items consumed": the program ends, no consumer sleeps through the
\* end or an item, and nothing is left.
AllConsumed == <>(queue = 0 /\ \A t \in Thread : at[t] = "over")
=============================================================================

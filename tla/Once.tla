-------------------------------- MODULE Once --------------------------------
(***************************************************************************)
(* The once flags of mulle-thread: mulle_thread_once, the _call, _noblock  *)
(* and recursive variants, and the mulle_thread_once_do macros, all of     *)
(* which drive one word per flag from DATA over BUSY to DONE.              *)
(*                                                                         *)
(* An initialiser may itself call other once flags (Needs), and the        *)
(* recursive kind may be re-entered by the thread that initialises it.  A  *)
(* thread's stack of initialisers is the list body[t], outer[body[t]], ... *)
(*                                                                         *)
(* Each atomic operation is a step.  A swap meets the latest value of its  *)
(* word; a read that comes too early for it finds BUSY, or an id that is   *)
(* not the reader's, and is followed by another read or by the swap.  What *)
(* the steps order beyond the words, the data that an initialiser writes,  *)
(* depends on the backend.  The publishing swap comes after a barrier and  *)
(* so releases what its thread has loaded.  Who finds DONE has loaded the  *)
(* publication.  On C11 the swap that finds it is an acquire, on mintomic  *)
(* it is relaxed (reads are followed, writes preceded by a fence), and     *)
(* only a later fence or barrier orders its thread after the publication.  *)
(***************************************************************************)
CONSTANTS Thread,      \* the threads that call
          Flag,        \* the once variables
          Recursive,   \* the flags of type mulle_thread_once_recursive_t
          Needs,       \* Needs[f]: flags f's initialiser obtains by a blocking call
          CanAbandon,  \* the flags whose initialiser may be left by return or throw
          SwapOrders,  \* is a compare-and-swap an acquire (C11), or relaxed (mintomic)?
          NULL         \* no thread, no flag

ASSUME OnceAssumption == /\ Recursive \subseteq Flag
                         /\ Needs \in [Flag -> SUBSET Flag]
                         /\ CanAbandon \subseteq Flag
                         /\ SwapOrders \in BOOLEAN
                         /\ NULL \notin Thread
                         /\ NULL \notin Flag

DATA == 0
BUSY == 1848
DONE == 1

VARIABLES state,      \* the once word, _state in the recursive type
          thread_id,  \* _thread_id of the recursive type
          pc, at, how,  \* where in which call, and by which variant, t is
          body,       \* body[t]: the flag whose initialiser t is executing
          outer,      \* outer[f]: the initialiser f's initialiser was entered from
          called,     \* called[f]: the members of Needs[f] its initialiser has got
          winner,     \* history: the thread whose compare-and-swap took f
          passed,     \* history: the flags t's blocking calls have come back from
          loaded,     \* loaded[t]: the flags whose data was published to a read of t's
          view,       \* view[t]: those of them whose data t is ordered after
          released    \* released[f]: the view the publication of f carries

callVars == <<pc, at, how>>
nestVars == <<body, outer, called>>
dataVars == <<loaded, view, released>>
vars == <<state, thread_id, callVars, nestVars, winner, passed, dataVars>>

(* "call": the functions; "do": the blocking macros; "noblock": the skipping ones *)
Blocking == {"call", "do"}
Variants(f) == IF f \in Recursive THEN Blocking ELSE Blocking \cup {"noblock"}

\* "run": in no call, running the initialiser body[t] if there is one
Label == {"run", "read_id", "cas", "spin", "write_id", "clear_id", "publish"}

TypeOK == /\ state \in [Flag -> {DATA, BUSY, DONE}]
          /\ thread_id \in [Flag -> Thread \cup {NULL}]
          /\ pc \in [Thread -> Label]
          /\ at \in [Thread -> Flag \cup {NULL}]
          /\ how \in [Thread -> Blocking \cup {"noblock"}]
          /\ body \in [Thread -> Flag \cup {NULL}]
          /\ outer \in [Flag -> Flag \cup {NULL}]
          /\ called \in [Flag -> SUBSET Flag]
          /\ winner \in [Flag -> Thread \cup {NULL}]
          /\ passed \in [Thread -> SUBSET Flag]
          /\ loaded \in [Thread -> SUBSET Flag]
          /\ view \in [Thread -> SUBSET Flag]
          /\ released \in [Flag -> SUBSET Flag]

Init == /\ state = [f \in Flag |-> DATA]
        /\ thread_id = [f \in Flag |-> NULL]
        /\ pc = [t \in Thread |-> "run"]
        /\ at = [t \in Thread |-> NULL]
        /\ how = [t \in Thread |-> "call"]
        /\ body = [t \in Thread |-> NULL]
        /\ outer = [f \in Flag |-> NULL]
        /\ called = [f \in Flag |-> {}]
        /\ winner = [f \in Flag |-> NULL]
        /\ passed = [t \in Thread |-> {}]
        /\ loaded = [t \in Thread |-> {}]
        /\ view = [t \in Thread |-> {}]
        /\ released = [f \in Flag |-> {}]

-----------------------------------------------------------------------------
(* Leaving a call. *)

Goto(t, label) == pc' = [pc EXCEPT ![t] = label] /\ UNCHANGED <<at, how>>

\* Thread t is back from its call, in the initialiser it called from or in none.
Return(t) == /\ pc' = [pc EXCEPT ![t] = "run"]
             /\ at' = [at EXCEPT ![t] = NULL]
             /\ UNCHANGED how
             /\ called' = IF body[t] = NULL THEN called
                          ELSE [called EXCEPT ![body[t]] = @ \cup {at[t]}]
             /\ UNCHANGED <<body, outer>>

\* The call has seen DONE, and with it what the publication released ...
Load(t, f) == loaded' = [loaded EXCEPT ![t] = @ \cup released[f]]

\* ... which a barrier, a fence or an acquire puts before everything that t does next.
Order(t) == view' = [view EXCEPT ![t] = loaded'[t]]

Passes(t, f) == passed' = [passed EXCEPT ![t] = @ \cup {f}]

-----------------------------------------------------------------------------
(* Entering a call, from outside every initialiser or from the one running. *)

Enter(t, f, v) == /\ pc[t] = "run"
                  /\ pc' = [pc EXCEPT ![t] = IF f \in Recursive THEN "read_id"
                                             ELSE "cas"]
                  /\ at' = [at EXCEPT ![t] = f]
                  /\ how' = [how EXCEPT ![t] = v]
                  /\ UNCHANGED <<state, thread_id, nestVars, winner, passed, dataVars>>

Call(t, f) == /\ body[t] = NULL
              /\ \E v \in Variants(f) : Enter(t, f, v)

NestedCall(t, f) == /\ body[t] # NULL
                    /\ f \in Needs[body[t]] \ called[body[t]]
                    /\ \E v \in Blocking : Enter(t, f, v)

-----------------------------------------------------------------------------
(* The steps of a call. *)

\* Mutant: the thread id is not looked at.
ReadIdIgnored(t) ==
    /\ pc[t] = "read_id"
    /\ Goto(t, "cas")
    /\ UNCHANGED <<state, thread_id, nestVars, winner, passed, dataVars>>

\* Recursive kind only: the initialising thread itself goes straight through.  What the
\* fence of a mintomic read orders besides the loads before it, the writes to the thread
\* id, is left out: the id may also be the NULL from before them.
ReadId(t) ==
    /\ pc[t] = "read_id"
    /\ \/ /\ thread_id[at[t]] = t
          /\ Return(t)
       \/ /\ thread_id[at[t]] # t
          /\ Goto(t, "cas")
          /\ UNCHANGED nestVars
    /\ UNCHANGED <<state, thread_id, winner, passed, loaded, released>>
    /\ Order(t)

\* Running an initialiser: the call is suspended until FinishInit takes it up.
EnterBody(t, f) == /\ pc' = [pc EXCEPT ![t] = "run"]
                   /\ at' = [at EXCEPT ![t] = NULL]
                   /\ UNCHANGED how
                   /\ body' = [body EXCEPT ![t] = f]
                   /\ outer' = [outer EXCEPT ![f] = body[t]]
                   /\ UNCHANGED called

\* Mutant: the word is taken with a plain write after a test for DONE.
CasTakesBusy(t) ==
    /\ pc[t] = "cas"
    /\ state[at[t]] # DONE
    /\ state' = [state EXCEPT ![at[t]] = BUSY]
    /\ winner' = [winner EXCEPT ![at[t]] = t]
    /\ IF at[t] \in Recursive
       THEN Goto(t, "write_id") /\ UNCHANGED nestVars
       ELSE EnterBody(t, at[t])
    /\ UNCHANGED <<thread_id, passed, dataVars>>

\* The compare-and-swap from DATA to BUSY has found DATA ...
CasWins(t) ==
    /\ pc[t] = "cas"
    /\ state[at[t]] = DATA
    /\ state' = [state EXCEPT ![at[t]] = BUSY]
    /\ winner' = [winner EXCEPT ![at[t]] = t]
    /\ IF at[t] \in Recursive
       THEN Goto(t, "write_id") /\ UNCHANGED nestVars
       ELSE EnterBody(t, at[t])
    /\ UNCHANGED <<thread_id, passed, dataVars>>

\* Mutant: the swap that finds DONE is relaxed on C11, too.
CasFindsDoneRelaxed(t) ==
    /\ pc[t] = "cas"
    /\ state[at[t]] = DONE
    /\ Load(t, at[t])
    /\ IF how[t] = "noblock" THEN UNCHANGED passed ELSE Passes(t, at[t])
    /\ Return(t)
    /\ UNCHANGED <<state, thread_id, winner, view, released>>

\* ... DONE: every variant returns, with no barrier but what the swap itself is; the
\* skipping ones do not tell DONE from BUSY, so that one has not passed by them ...
CasFindsDone(t) ==
    /\ pc[t] = "cas"
    /\ state[at[t]] = DONE
    /\ Load(t, at[t])
    /\ IF SwapOrders THEN Order(t) ELSE UNCHANGED view
    /\ IF how[t] = "noblock" THEN UNCHANGED passed ELSE Passes(t, at[t])
    /\ Return(t)
    /\ UNCHANGED <<state, thread_id, winner, released>>

\* ... or BUSY: the blocking variants wait, the others skip the initialiser.
CasFindsBusy(t) ==
    /\ pc[t] = "cas"
    /\ state[at[t]] = BUSY
    /\ IF how[t] = "noblock" THEN Return(t)
       ELSE Goto(t, "spin") /\ UNCHANGED nestVars
    /\ UNCHANGED <<state, thread_id, winner, passed, dataVars>>

\* Yield and read until DONE, then a barrier.  A waiter inside a blocking macro breaks out of
\* the inner loop only and so still executes the outer loop's increment.
Spin(t) ==
    /\ pc[t] = "spin"
    /\ state[at[t]] = DONE
    /\ Load(t, at[t])
    /\ Order(t)
    /\ \/ /\ how[t] = "call"
          /\ Passes(t, at[t])
          /\ Return(t)
       \/ /\ how[t] = "do"
          /\ Goto(t, IF at[t] \in Recursive THEN "clear_id" ELSE "publish")
          /\ UNCHANGED <<nestVars, passed>>
    /\ UNCHANGED <<state, thread_id, winner, released>>

WriteId(t) ==
    /\ pc[t] = "write_id"
    /\ thread_id' = [thread_id EXCEPT ![at[t]] = t]
    /\ EnterBody(t, at[t])
    /\ UNCHANGED <<state, winner, passed, loaded, released>>
    /\ Order(t)

\* The initialiser t executes is over, in one way or another.
LeaveBody(t) == /\ body' = [body EXCEPT ![t] = outer[body[t]]]
                /\ outer' = [outer EXCEPT ![body[t]] = NULL]

\* Mutant: the thread id is not cleared before the flag is published.
FinishInitKeepsId(t) ==
    /\ pc[t] = "run" /\ body[t] # NULL
    /\ called[body[t]] = Needs[body[t]]
    /\ loaded' = [loaded EXCEPT ![t] = @ \cup {body[t]}]
    /\ view' = [view EXCEPT ![t] = @ \cup {body[t]}]
    /\ pc' = [pc EXCEPT ![t] = "publish"]
    /\ at' = [at EXCEPT ![t] = body[t]]
    /\ LeaveBody(t)
    /\ UNCHANGED <<state, thread_id, how, called, winner, passed, released>>

\* The initialiser has all it needs, has written its data and returns (or breaks).
FinishInit(t) ==
    /\ pc[t] = "run" /\ body[t] # NULL
    /\ called[body[t]] = Needs[body[t]]
    /\ loaded' = [loaded EXCEPT ![t] = @ \cup {body[t]}]
    /\ view' = [view EXCEPT ![t] = @ \cup {body[t]}]
    /\ pc' = [pc EXCEPT ![t] = IF body[t] \in Recursive THEN "clear_id"
                               ELSE "publish"]
    /\ at' = [at EXCEPT ![t] = body[t]]
    /\ LeaveBody(t)
    /\ UNCHANGED <<state, thread_id, how, called, winner, passed, released>>

\* A return out of a once_do body, or an exception caught by its caller:
\* nothing of what follows the initialiser is executed, and an initialiser it
\* was called from goes on.
Abandon(t) ==
    /\ pc[t] = "run" /\ body[t] \in CanAbandon
    /\ LeaveBody(t)
    /\ called' = IF body'[t] = NULL THEN called
                 ELSE [called EXCEPT ![body'[t]] = @ \cup {body[t]}]
    /\ UNCHANGED <<state, thread_id, callVars, winner, passed, dataVars>>

ClearId(t) ==
    /\ pc[t] = "clear_id"
    /\ thread_id' = [thread_id EXCEPT ![at[t]] = NULL]
    /\ Goto(t, "publish")
    /\ UNCHANGED <<state, nestVars, winner, passed, loaded, released>>
    /\ Order(t)

\* Mutant: DONE is written without a barrier, releasing nothing.
PublishRelaxed(t) ==
    /\ pc[t] = "publish"
    /\ state' = [state EXCEPT ![at[t]] = DONE]
    /\ Passes(t, at[t])
    /\ Return(t)
    /\ UNCHANGED <<thread_id, winner, dataVars>>

\* Barrier, then the compare-and-swap from BUSY to DONE; its result is ignored.
Publish(t) ==
    /\ pc[t] = "publish"
    /\ \/ /\ state[at[t]] = BUSY
          /\ state' = [state EXCEPT ![at[t]] = DONE]
          /\ released' = [released EXCEPT ![at[t]] = loaded[t]]
       \/ /\ state[at[t]] # BUSY
          /\ UNCHANGED <<state, released>>
    /\ Passes(t, at[t])
    /\ Return(t)
    /\ UNCHANGED <<thread_id, winner, loaded>>
    /\ Order(t)

-----------------------------------------------------------------------------
\* What a thread does once it has entered a call, and in its initialisers.
Step(t) == \/ \E f \in Flag : NestedCall(t, f)
           \/ ReadId(t) \/ CasWins(t) \/ CasFindsDone(t) \/ CasFindsBusy(t)
           \/ Spin(t) \/ WriteId(t) \/ FinishInit(t) \/ ClearId(t) \/ Publish(t)

Next == \E t \in Thread : \/ \E f \in Flag : Call(t, f)
                          \/ Step(t)
                          \/ Abandon(t)

Spec == Init /\ [][Next]_vars

\* Every thread in a call or an initialiser keeps running; no one has to call.
FairSpec == Spec /\ \A t \in Thread : WF_vars(Step(t))

-----------------------------------------------------------------------------
(* Properties *)

\* The promise of OnceAbstract: whatever mix of variants the callers of a flag
\* use, its initialiser is begun once, by the thread whose compare-and-swap
\* took the word, and no blocking call is back before that thread published.
Phase == [f \in Flag |-> IF state[f] = DATA THEN "fresh"
                         ELSE IF state[f] = BUSY THEN "running" ELSE "done"]

Abstract == INSTANCE OnceAbstract WITH phase <- Phase, runner <- winner

ImplementsAbstract == Abstract!Spec

\* A caller that is back from a blocking call is ordered after the data the
\* initialiser wrote ("fear of delayed write before swap", "fear of cached
\* neighbor memory area"), whichever way it learned of DONE.  On C11, where the
\* compare-and-swap that finds DONE is an acquire; false if it is relaxed.
PassedSeesInit == \A t \in Thread : passed[t] \subseteq view[t]

\* It is also ordered after the data of the flags that initialiser waited for
\* in its turn, which other threads may have written (unless one was left by
\* return or exception, and so is never DONE).  On C11, as above.
PassedSeesNeeds == \A t \in Thread : \A f \in passed[t] :
                      \A g \in Needs[f] : state[g] = DONE => g \in view[t]

\* The thread id in a recursive flag always names the thread whose initialiser
\* is under way: it is neither left behind when the flag is DONE nor ever
\* another waiter's.
IdNamesInitialiser == \A f \in Flag : thread_id[f] # NULL =>
                         state[f] = BUSY /\ winner[f] = thread_id[f]

\* "same thread can call again without deadlock": the thread initialising a
\* recursive flag never waits for that flag.
OwnerNeverWaits == \A t \in Thread :
    pc[t] = "spin" /\ at[t] \in Recursive /\ state[at[t]] = BUSY =>
       winner[at[t]] # t

\* The flags f cannot be initialised without.
Required == [f \in Flag |->
    {g \in Flag : \A S \in SUBSET Flag :
        f \in S /\ (\A h \in S : Needs[h] \subseteq S) => g \in S}]

\* The initialiser was left by return or exception, so that the flag stays BUSY.
Abandoned(g) == /\ g \in CanAbandon /\ state[g] = BUSY
                /\ \A h \in Flag : outer[h] # g
                /\ \A t \in Thread : /\ body[t] # g
                                     /\ at[t] = g => pc[t] \in {"read_id", "cas", "spin"}

\* A thread that waits for a flag gets past it, also when a non-blocking variant won
\* the flag ("mixing them ... can no longer hang"), unless the flag, or one its
\* initialiser needs, was left by return or exception.
WaitersPass == \A t \in Thread, f \in Flag :
    (pc[t] = "spin" /\ at[t] = f) ~>
        (f \in passed[t] \/ \E g \in Required[f] : Abandoned(g))
=============================================================================

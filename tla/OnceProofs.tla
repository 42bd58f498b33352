------------------------------ MODULE OnceProofs -----------------------------
(***************************************************************************)
(* Proofs about Once, for any threads, flags and needs, with initialisers  *)
(* that may be abandoned.                                                  *)
(***************************************************************************)
EXTENDS Once, TLAPS

(* The inductive invariant, by what each part is about. *)

\* A thread in a call is at a flag; the labels of the recursive kind are
\* reached at flags of that kind only.
AtFlag == \A t \in Thread :
             /\ pc[t] # "run" => at[t] \in Flag
             /\ pc[t] \in {"read_id", "write_id", "clear_id"} => at[t] \in Recursive

\* A flag is taken exactly when it has a winner.
TakenByWinner == \A f \in Flag : state[f] = DATA <=> winner[f] = NULL

\* Thread t is at the winner's own steps around the initialiser of f.
Holds(t, f) == pc[t] \in {"write_id", "clear_id", "publish"} /\ at[t] = f
                  /\ state[f] = BUSY

\* Who takes a flag through its initialiser is the winner, and a thread at the
\* publishing steps of a flag that is not BUSY is a waiter of a DONE one.
HolderIsWinner == \A t \in Thread :
    /\ pc[t] = "write_id" => state[at[t]] = BUSY
    /\ pc[t] \in {"clear_id", "publish"} => state[at[t]] # DATA
    /\ \A f \in Flag : Holds(t, f) \/ body[t] = f =>
          winner[f] = t /\ state[f] = BUSY

\* The suspended initialisers of a thread form a list without sharing.
Nesting == /\ \A g \in Flag : outer[g] # NULL =>
                 /\ state[g] = BUSY /\ state[outer[g]] = BUSY
                 /\ winner[outer[g]] = winner[g]
           /\ \A g, h \in Flag : outer[g] = outer[h] /\ outer[g] # NULL => g = h
           /\ \A t \in Thread, f \in Flag : body[t] = f \/ Holds(t, f) =>
                 \A g \in Flag : outer[g] # f
           /\ \A t \in Thread, f \in Flag : Holds(t, f) =>
                 body[t] # f /\ outer[f] = NULL

\* The thread id is that of the winner, from just after the compare-and-swap
\* that takes the flag until just before the one that publishes it.
IdWhileHeld == \A f \in Flag :
    /\ thread_id[f] # NULL => f \in Recursive /\ state[f] = BUSY /\ thread_id[f] = winner[f]
    /\ \A t \in Thread : Holds(t, f) /\ pc[t] = "publish" => thread_id[f] = NULL
    /\ f \in Recursive /\ state[f] = BUSY =>
          \/ thread_id[f] = winner[f]
          \/ Holds(winner[f], f) /\ pc[winner[f]] # "clear_id"

\* Who has read the thread id of a flag and gone on is not its initialiser.
PastIdCheck == \A t \in Thread :
    pc[t] \in {"cas", "spin"} /\ at[t] \in Recursive /\ state[at[t]] = BUSY =>
       winner[at[t]] # t

\* The data of a flag goes with its publication to everyone who passes it.
DataFollows == /\ \A f \in Flag : state[f] = DONE => f \in released[f]
               /\ \A t \in Thread : pc[t] \in {"clear_id", "publish"} => at[t] \in loaded[t]
               /\ \A t \in Thread : passed[t] \subseteq loaded[t]

\* Where the swap is an acquire, nothing that is loaded is left to be ordered.
Acquired == SwapOrders => view = loaded

IInv == /\ TypeOK /\ AtFlag /\ TakenByWinner /\ HolderIsWinner
        /\ Nesting /\ IdWhileHeld /\ PastIdCheck /\ DataFollows /\ Acquired

\* Coming back from a call keeps the types of what it touches.
LEMMA ReturnType ==
  ASSUME NEW t \in Thread, TypeOK, at[t] \in Flag, Return(t)
  PROVE  /\ pc' \in [Thread -> Label]
         /\ at' \in [Thread -> Flag \cup {NULL}]
         /\ how' = how /\ body' = body /\ outer' = outer
         /\ called' \in [Flag -> SUBSET Flag]
  BY DEF TypeOK, Return, Label

\* A caller that waits, or comes back without having taken its flag, leaves alone
\* what the flags and those who hold them have to do with each other.
Caller(t) == /\ pc[t] \in {"read_id", "cas", "spin"} /\ at[t] \in Flag
             /\ \/ Return(t)
                \/ (Goto(t, "cas") \/ Goto(t, "spin")) /\ UNCHANGED <<body, outer, called>>
             /\ UNCHANGED <<state, thread_id, winner>>

LEMMA CallerKeepsType ==
  ASSUME NEW t \in Thread, TypeOK, Caller(t)
  PROVE  /\ pc' \in [Thread -> Label] /\ at' \in [Thread -> Flag \cup {NULL}]
         /\ how' = how /\ body' = body /\ outer' = outer
         /\ called' \in [Flag -> SUBSET Flag]
<1>1. CASE Return(t)
  BY <1>1, ReturnType DEF Caller
<1>2. CASE ~Return(t)
  BY <1>2 DEF Caller, TypeOK, Label, Goto
<1> QED BY <1>1, <1>2

LEMMA CallerKeeps ==
  ASSUME NEW t \in Thread, IInv, Caller(t)
  PROVE  AtFlag' /\ TakenByWinner' /\ HolderIsWinner' /\ Nesting' /\ IdWhileHeld'
<1>1. /\ \A u \in Thread : u # t => pc'[u] = pc[u] /\ at'[u] = at[u]
      /\ pc'[t] \in {"run", "cas", "spin"} /\ (pc'[t] # "run" => at'[t] = at[t])
      /\ UNCHANGED <<state, thread_id, winner, body, outer>>
  BY DEF Caller, Return, Goto, IInv, TypeOK
<1>2. pc[t] \in {"read_id", "cas", "spin"} /\ at[t] \in Flag
  BY DEF Caller
<1>3. \A u \in Thread, f \in Flag : Holds(u, f)' <=> Holds(u, f)
  BY <1>1, <1>2 DEF Holds
<1>4. AtFlag'
  BY <1>1, <1>2 DEF IInv, AtFlag
<1>5. TakenByWinner'
  BY <1>1 DEF IInv, TakenByWinner
<1>6. HolderIsWinner'
  BY <1>1, <1>2, <1>3 DEF IInv, HolderIsWinner
<1>7. Nesting'
  BY <1>1, <1>3 DEF IInv, Nesting
<1>8. IdWhileHeld'
  <2>1. \A u \in Thread, f \in Flag : Holds(u, f) => u # t
    BY <1>2 DEF Holds
  <2>2. \A f \in Flag : state[f] = BUSY => winner[f] \in Thread
    BY DEF IInv, TypeOK, TakenByWinner, DATA, BUSY
  <2> QED
    BY <1>1, <1>3, <2>1, <2>2 DEF IInv, IdWhileHeld
<1> QED
  BY <1>4, <1>5, <1>6, <1>7, <1>8

\* Every step preserves the inductive invariant; one step of the proof per action.
LEMMA IInvStep == IInv /\ [Next]_vars => IInv'
<1> SUFFICES ASSUME IInv, [Next]_vars PROVE IInv'
  OBVIOUS
<1> USE OnceAssumption DEF IInv, DATA, BUSY, DONE
<1>1. ASSUME UNCHANGED vars PROVE IInv'
  BY <1>1 DEF TypeOK, AtFlag, TakenByWinner, HolderIsWinner, Nesting, IdWhileHeld,
     PastIdCheck, DataFollows, Acquired, Holds, vars, callVars, nestVars, dataVars
<1>2. ASSUME NEW t \in Thread, \E f \in Flag : Call(t, f) PROVE IInv'
  <2> USE <1>2 DEF Call, Enter, Variants, Blocking, nestVars, dataVars, callVars
  <2>1. TypeOK'
    BY DEF TypeOK, AtFlag, Blocking, Label
  <2>2. AtFlag'
    BY DEF TypeOK, AtFlag
  <2>3. TakenByWinner'
    BY DEF TypeOK, AtFlag, TakenByWinner
  <2>4. HolderIsWinner'
    BY DEF TypeOK, AtFlag, TakenByWinner, HolderIsWinner, Holds, Nesting
  <2>5. Nesting'
    BY DEF TypeOK, AtFlag, TakenByWinner, HolderIsWinner, Holds, Nesting
  <2>6. IdWhileHeld'
    BY DEF TypeOK, AtFlag, TakenByWinner, HolderIsWinner, Holds, IdWhileHeld
  <2>7. PastIdCheck'
    BY DEF TypeOK, AtFlag, IdWhileHeld, Holds, HolderIsWinner, PastIdCheck
  <2>8. DataFollows'
    BY DEF TypeOK, AtFlag, HolderIsWinner, DataFollows
  <2>9. Acquired'
    BY DEF TypeOK, Acquired
  <2> QED BY <2>1, <2>2, <2>3, <2>4, <2>5, <2>6, <2>7, <2>8, <2>9
<1>3. ASSUME NEW t \in Thread, \E f \in Flag : NestedCall(t, f) PROVE IInv'
  <2> USE <1>3 DEF NestedCall, Enter, Blocking, nestVars, dataVars, callVars
  <2>1. TypeOK'
    BY DEF TypeOK, AtFlag, Blocking, Label
  <2>2. AtFlag'
    BY DEF TypeOK, AtFlag
  <2>3. TakenByWinner'
    BY DEF TypeOK, AtFlag, TakenByWinner
  <2>4. HolderIsWinner'
    BY DEF TypeOK, AtFlag, TakenByWinner, HolderIsWinner, Holds, Nesting
  <2>5. Nesting'
    BY DEF TypeOK, AtFlag, TakenByWinner, HolderIsWinner, Holds, Nesting
  <2>6. IdWhileHeld'
    BY DEF TypeOK, AtFlag, TakenByWinner, HolderIsWinner, Holds, IdWhileHeld
  <2>7. PastIdCheck'
    BY DEF TypeOK, AtFlag, IdWhileHeld, Holds, HolderIsWinner, PastIdCheck
  <2>8. DataFollows'
    BY DEF TypeOK, AtFlag, HolderIsWinner, DataFollows
  <2>9. Acquired'
    BY DEF TypeOK, Acquired
  <2> QED BY <2>1, <2>2, <2>3, <2>4, <2>5, <2>6, <2>7, <2>8, <2>9
<1>4. ASSUME NEW t \in Thread, ReadId(t) PROVE IInv'
  <2>1. Caller(t)
    BY <1>4 DEF AtFlag, ReadId, Caller, nestVars
  <2>2. /\ loaded' \in [Thread -> SUBSET Flag] /\ passed' \in [Thread -> SUBSET Flag]
        /\ released' = released /\ view' \in [Thread -> SUBSET Flag]
        /\ SwapOrders => view' = loaded'
    BY <1>4 DEF TypeOK, AtFlag, Acquired, ReadId, Order, dataVars
  <2>3. TypeOK'
    <3>1. /\ pc' \in [Thread -> Label] /\ at' \in [Thread -> Flag \cup {NULL}]
          /\ how' = how /\ body' = body /\ outer' = outer /\ called' \in [Flag -> SUBSET Flag]
      BY <2>1, CallerKeepsType
    <3>2. UNCHANGED <<state, thread_id, winner>>
      BY <2>1 DEF Caller
    <3> QED
      BY <2>2, <3>1, <3>2 DEF TypeOK
  <2>4. PastIdCheck'
    BY <1>4 DEF TypeOK, AtFlag, IdWhileHeld, Holds, HolderIsWinner, PastIdCheck, Return, ReadId, Order, Goto, nestVars, dataVars, callVars
  <2>5. DataFollows'
    BY <1>4 DEF TypeOK, AtFlag, HolderIsWinner, DataFollows, Return, ReadId, Order, Goto, nestVars, dataVars, callVars
  <2>6. Acquired'
    BY <2>2 DEF Acquired
  <2> QED BY <2>1, <2>3, <2>4, <2>5, <2>6, CallerKeeps
<1>5. ASSUME NEW t \in Thread, CasWins(t) PROVE IInv'
  <2> DEFINE f == at[t]
  <2>1. /\ f \in Flag /\ pc[t] = "cas" /\ state[f] = DATA /\ winner[f] = NULL
        /\ state' = [state EXCEPT ![f] = BUSY] /\ winner' = [winner EXCEPT ![f] = t]
        /\ UNCHANGED <<thread_id, how, called, passed, dataVars>>
    BY <1>5 DEF CasWins, AtFlag, TakenByWinner, Goto, EnterBody, nestVars
  <2>2. /\ outer[f] = NULL /\ thread_id[f] = NULL /\ \A g \in Flag : outer[g] # f
        /\ \A u \in Thread : body[u] # f /\ ~Holds(u, f)
    <3>1. f # NULL
      BY <2>1
    <3>2. outer[f] = NULL /\ \A g \in Flag : outer[g] # f
      BY <2>1, <3>1 DEF Nesting
    <3>3. thread_id[f] = NULL
      BY <2>1 DEF IdWhileHeld
    <3>4. \A u \in Thread : body[u] # f /\ ~Holds(u, f)
      BY <2>1 DEF HolderIsWinner
    <3> QED
      BY <3>2, <3>3, <3>4
  <2>3. \A u \in Thread, g \in Flag : Holds(u, g) => u # t
    BY <2>1 DEF Holds
  <2>4. \A g \in Flag : state[g] = BUSY => winner[g] \in Thread
    BY DEF TypeOK, TakenByWinner
  <2>5. \A u \in Thread : pc[u] \in {"write_id", "clear_id", "publish"} => at[u] # f
    BY <2>1 DEF HolderIsWinner
  <2>6. CASE f \in Recursive
    <3>1. /\ pc' = [pc EXCEPT ![t] = "write_id"] /\ UNCHANGED <<at, body, outer>>
      BY <1>5, <2>6 DEF CasWins, Goto, nestVars
    <3>2. \A u \in Thread, g \in Flag : Holds(u, g)' <=> Holds(u, g) \/ (u = t /\ g = f)
      <4>1. \A u \in Thread : u # t => pc'[u] = pc[u] /\ at'[u] = at[u]
        BY <3>1 DEF TypeOK
      <4>2. \A g \in Flag : g # f => state'[g] = state[g]
        BY <2>1 DEF TypeOK
      <4>3. pc'[t] = "write_id" /\ at'[t] = f
        BY <3>1 DEF TypeOK
      <4> QED
        BY <2>1, <2>2, <2>5, <4>1, <4>2, <4>3 DEF Holds, TypeOK
    <3>3. TypeOK'
      BY <2>1, <3>1 DEF TypeOK, Label, dataVars
    <3>4. AtFlag' /\ TakenByWinner' /\ PastIdCheck' /\ DataFollows' /\ Acquired'
      BY <2>1, <2>6, <3>1 DEF TypeOK, AtFlag, TakenByWinner, PastIdCheck, DataFollows, Acquired, dataVars
    <3>5. HolderIsWinner'
      BY <2>1, <2>2, <3>1, <3>2 DEF TypeOK, HolderIsWinner
    <3>6. Nesting'
      BY <2>1, <2>2, <3>1, <3>2 DEF TypeOK, Nesting
    <3>7. IdWhileHeld'
      <4>1. /\ \A u \in Thread : u # t => pc'[u] = pc[u]
            /\ pc'[t] = "write_id" /\ winner'[f] = t /\ f \in Flag
            /\ \A g \in Flag : g # f => state'[g] = state[g] /\ winner'[g] = winner[g]
        BY <2>1, <3>1 DEF TypeOK
      <4> QED
        BY <2>1, <2>2, <2>3, <2>4, <3>2, <4>1 DEF IdWhileHeld
    <3> QED BY <3>3, <3>4, <3>5, <3>6, <3>7
  <2>7. CASE f \notin Recursive
    <3>1. /\ pc' = [pc EXCEPT ![t] = "run"] /\ at' = [at EXCEPT ![t] = NULL]
          /\ body' = [body EXCEPT ![t] = f] /\ outer' = [outer EXCEPT ![f] = body[t]]
      BY <1>5, <2>7 DEF CasWins, EnterBody
    <3>2. \A u \in Thread, g \in Flag : Holds(u, g)' <=> Holds(u, g)
      <4>1. \A u \in Thread : u # t => pc'[u] = pc[u] /\ at'[u] = at[u]
        BY <3>1 DEF TypeOK
      <4>2. \A g \in Flag : g # f => state'[g] = state[g]
        BY <2>1 DEF TypeOK
      <4>3. pc'[t] = "run"
        BY <3>1 DEF TypeOK
      <4> QED
        BY <2>1, <2>2, <2>5, <4>1, <4>2, <4>3 DEF Holds, TypeOK
    <3>3. TypeOK'
      BY <2>1, <3>1 DEF TypeOK, Label, dataVars
    <3>4. AtFlag' /\ TakenByWinner' /\ PastIdCheck' /\ DataFollows' /\ Acquired'
      BY <2>1, <2>7, <3>1 DEF TypeOK, AtFlag, TakenByWinner, PastIdCheck, DataFollows, Acquired, dataVars
    <3>5. HolderIsWinner'
      BY <2>1, <2>2, <3>1, <3>2 DEF TypeOK, HolderIsWinner
    <3>6. Nesting'
      <4>1. (Nesting!1)'
        BY <2>1, <2>2, <3>1 DEF TypeOK, Nesting, HolderIsWinner
      <4>2. (Nesting!2)'
        BY <2>1, <2>2, <3>1 DEF TypeOK, Nesting
      <4>3. (Nesting!3)'
        BY <2>1, <2>2, <2>3, <3>1, <3>2 DEF TypeOK, Nesting, HolderIsWinner
      <4>4. (Nesting!4)'
        BY <2>1, <2>2, <3>1, <3>2 DEF TypeOK, Nesting
      <4> QED BY <4>1, <4>2, <4>3, <4>4 DEF Nesting
    <3>7. IdWhileHeld'
      <4>1. /\ \A u \in Thread : u # t => pc'[u] = pc[u]
            /\ \A g \in Flag : g # f => state'[g] = state[g] /\ winner'[g] = winner[g]
        BY <2>1, <3>1 DEF TypeOK
      <4> QED
        BY <2>1, <2>2, <2>3, <2>4, <2>7, <3>2, <4>1 DEF IdWhileHeld
    <3> QED BY <3>3, <3>4, <3>5, <3>6, <3>7
  <2> QED BY <2>6, <2>7
<1>6. ASSUME NEW t \in Thread, CasFindsDone(t) PROVE IInv'
  <2>1. Caller(t)
    BY <1>6 DEF AtFlag, CasFindsDone, Caller, nestVars
  <2>2. /\ loaded' \in [Thread -> SUBSET Flag] /\ passed' \in [Thread -> SUBSET Flag]
        /\ released' = released /\ view' \in [Thread -> SUBSET Flag]
        /\ SwapOrders => view' = loaded'
    BY SMTT(20), <1>6 DEF TypeOK, AtFlag, Acquired, CasFindsDone, Load, Order, Passes, dataVars
  <2>3. TypeOK'
    <3>1. /\ pc' \in [Thread -> Label] /\ at' \in [Thread -> Flag \cup {NULL}]
          /\ how' = how /\ body' = body /\ outer' = outer /\ called' \in [Flag -> SUBSET Flag]
      BY <2>1, CallerKeepsType
    <3>2. UNCHANGED <<state, thread_id, winner>>
      BY <2>1 DEF Caller
    <3> QED
      BY <2>2, <3>1, <3>2 DEF TypeOK
  <2>4. PastIdCheck'
    BY <1>6 DEF TypeOK, AtFlag, IdWhileHeld, Holds, HolderIsWinner, PastIdCheck, Return, CasFindsDone, Load, Order, Passes, nestVars, dataVars, callVars
  <2>5. DataFollows'
    BY <1>6 DEF TypeOK, AtFlag, HolderIsWinner, DataFollows, Return, CasFindsDone, Load, Order, Passes, nestVars, dataVars, callVars
  <2>6. Acquired'
    BY <2>2 DEF Acquired
  <2> QED BY <2>1, <2>3, <2>4, <2>5, <2>6, CallerKeeps
<1>7. ASSUME NEW t \in Thread, CasFindsBusy(t) PROVE IInv'
  <2>1. Caller(t)
    BY <1>7 DEF AtFlag, CasFindsBusy, Caller, nestVars
  <2>2. /\ loaded' \in [Thread -> SUBSET Flag] /\ passed' \in [Thread -> SUBSET Flag]
        /\ released' = released /\ view' \in [Thread -> SUBSET Flag]
        /\ SwapOrders => view' = loaded'
    BY <1>7 DEF TypeOK, AtFlag, Acquired, CasFindsBusy, dataVars
  <2>3. TypeOK'
    BY SMTT(20), <2>1, <2>2, CallerKeepsType DEF TypeOK, Caller
  <2>4. PastIdCheck'
    BY <1>7 DEF TypeOK, AtFlag, IdWhileHeld, Holds, HolderIsWinner, PastIdCheck, Return, CasFindsBusy, Goto, nestVars, dataVars, callVars
  <2>5. DataFollows'
    BY <1>7 DEF TypeOK, AtFlag, HolderIsWinner, DataFollows, Return, CasFindsBusy, Goto, nestVars, dataVars, callVars
  <2>6. Acquired'
    BY <2>2 DEF Acquired
  <2> QED BY <2>1, <2>3, <2>4, <2>5, <2>6, CallerKeeps
<1>8. ASSUME NEW t \in Thread, Spin(t) PROVE IInv'
  <2>1. /\ at[t] \in Flag /\ pc[t] = "spin" /\ state[at[t]] = DONE
        /\ UNCHANGED <<state, thread_id, winner, released>>
        /\ loaded' = [loaded EXCEPT ![t] = @ \cup released[at[t]]]
        /\ view' = [view EXCEPT ![t] = loaded'[t]]
    BY <1>8 DEF Spin, Load, Order, AtFlag
  <2>2. view' \in [Thread -> SUBSET Flag] /\ Acquired'
    <3>1. loaded' \in [Thread -> SUBSET Flag] /\ view' \in [Thread -> SUBSET Flag]
      BY <2>1 DEF TypeOK
    <3>2. \A u \in Thread : SwapOrders => view'[u] = loaded'[u]
      BY <2>1 DEF TypeOK, Acquired
    <3> QED
      BY <3>1, <3>2 DEF Acquired
  <2>3. CASE how[t] = "call"
    <3>1. Passes(t, at[t]) /\ Return(t)
      BY <1>8, <2>3 DEF Spin
    <3>2. Caller(t)
      BY <2>1, <3>1 DEF Caller
    <3>3. TypeOK'
      <4>1. /\ pc' \in [Thread -> Label] /\ at' \in [Thread -> Flag \cup {NULL}]
            /\ how' = how /\ body' = body /\ outer' = outer /\ called' \in [Flag -> SUBSET Flag]
        BY <3>2, CallerKeepsType
      <4>2. passed' \in [Thread -> SUBSET Flag]
        BY <2>1, <3>1 DEF Passes, TypeOK
      <4>3. UNCHANGED <<state, thread_id, winner, released>>
        BY <2>1
      <4>4. loaded' \in [Thread -> SUBSET Flag]
        BY <2>1 DEF TypeOK
      <4> QED
        BY <2>1, <2>2, <4>1, <4>2, <4>3, <4>4 DEF TypeOK
    <3>4. PastIdCheck'
      BY <2>1, <3>1 DEF TypeOK, PastIdCheck, Return
    <3>5. DataFollows'
      BY <2>1, <3>1 DEF TypeOK, AtFlag, DataFollows, Return, Passes
    <3> QED BY <2>2, <3>2, <3>3, <3>4, <3>5, CallerKeeps
  <2>4. CASE how[t] # "call"
    <3>1. /\ pc' = [pc EXCEPT ![t] = IF at[t] \in Recursive THEN "clear_id" ELSE "publish"]
          /\ UNCHANGED <<at, how, body, outer, called, passed>>
      BY <1>8, <2>4 DEF Spin, Goto, nestVars
    <3>2. \A u \in Thread, g \in Flag : Holds(u, g)' <=> Holds(u, g)
      BY <2>1, <3>1 DEF Holds, TypeOK
    <3>3. TypeOK'
      BY <2>1, <2>2, <3>1 DEF TypeOK, Label
    <3>4. AtFlag' /\ TakenByWinner' /\ PastIdCheck'
      BY <2>1, <3>1 DEF TypeOK, AtFlag, TakenByWinner, PastIdCheck
    <3>5. HolderIsWinner'
      BY <2>1, <3>1, <3>2 DEF TypeOK, HolderIsWinner
    <3>6. Nesting'
      BY <2>1, <3>1, <3>2 DEF Nesting
    <3>7. IdWhileHeld'
      <4>1. \A u \in Thread, g \in Flag : Holds(u, g) => u # t
        BY <2>1 DEF Holds
      <4>2. \A g \in Flag : state[g] = BUSY => winner[g] \in Thread
        BY DEF TypeOK, TakenByWinner
      <4>3. \A u \in Thread : u # t => pc'[u] = pc[u]
        BY <3>1 DEF TypeOK
      <4> QED
        BY <2>1, <3>2, <4>1, <4>2, <4>3 DEF IdWhileHeld
    <3>8. DataFollows'
      BY <2>1, <3>1 DEF TypeOK, DataFollows
    <3> QED BY <2>2, <3>3, <3>4, <3>5, <3>6, <3>7, <3>8
  <2> QED BY <2>3, <2>4
<1>9. ASSUME NEW t \in Thread, WriteId(t) PROVE IInv'
  <2> USE <1>9 DEF WriteId, EnterBody, Order, nestVars, dataVars, callVars
  <2>1. TypeOK'
    BY DEF TypeOK, AtFlag, Blocking, Label
  <2>2. AtFlag'
    BY DEF TypeOK, AtFlag
  <2>3. TakenByWinner'
    BY DEF TypeOK, AtFlag, TakenByWinner
  <2>4. HolderIsWinner'
    BY DEF TypeOK, AtFlag, TakenByWinner, HolderIsWinner, Holds, Nesting
  <2>5. Nesting'
    BY DEF TypeOK, AtFlag, TakenByWinner, HolderIsWinner, Holds, Nesting
  <2>6. IdWhileHeld'
    BY DEF TypeOK, AtFlag, TakenByWinner, HolderIsWinner, Holds, IdWhileHeld
  <2>7. PastIdCheck'
    BY DEF TypeOK, AtFlag, IdWhileHeld, Holds, HolderIsWinner, PastIdCheck
  <2>8. DataFollows'
    BY DEF TypeOK, AtFlag, HolderIsWinner, DataFollows
  <2>9. Acquired'
    BY DEF TypeOK, Acquired
  <2> QED BY <2>1, <2>2, <2>3, <2>4, <2>5, <2>6, <2>7, <2>8, <2>9
<1>10. ASSUME NEW t \in Thread, FinishInit(t) PROVE IInv'
  <2> USE <1>10 DEF FinishInit, LeaveBody, nestVars, dataVars, callVars
  <2>1. TypeOK'
    BY DEF TypeOK, AtFlag, Blocking, Label
  <2>2. AtFlag'
    BY DEF TypeOK, AtFlag
  <2>3. TakenByWinner'
    BY DEF TypeOK, AtFlag, TakenByWinner
  <2>4. HolderIsWinner'
    BY DEF TypeOK, AtFlag, TakenByWinner, HolderIsWinner, Holds, Nesting
  <2>5. Nesting'
    BY DEF TypeOK, AtFlag, TakenByWinner, HolderIsWinner, Holds, Nesting
  <2>6. IdWhileHeld'
    BY DEF TypeOK, AtFlag, TakenByWinner, HolderIsWinner, Holds, IdWhileHeld
  <2>7. PastIdCheck'
    BY DEF TypeOK, AtFlag, IdWhileHeld, Holds, HolderIsWinner, PastIdCheck
  <2>8. DataFollows'
    BY DEF TypeOK, AtFlag, HolderIsWinner, DataFollows
  <2>9. Acquired'
    BY DEF TypeOK, Acquired
  <2> QED BY <2>1, <2>2, <2>3, <2>4, <2>5, <2>6, <2>7, <2>8, <2>9
<1>11. ASSUME NEW t \in Thread, ClearId(t) PROVE IInv'
  <2> USE <1>11 DEF ClearId, Goto, Order, nestVars, dataVars, callVars
  <2>1. TypeOK'
    BY DEF TypeOK, AtFlag, Blocking, Label
  <2>2. AtFlag'
    BY DEF TypeOK, AtFlag
  <2>3. TakenByWinner'
    BY DEF TypeOK, AtFlag, TakenByWinner
  <2>4. HolderIsWinner'
    BY DEF TypeOK, AtFlag, TakenByWinner, HolderIsWinner, Holds, Nesting
  <2>5. Nesting'
    BY DEF TypeOK, AtFlag, TakenByWinner, HolderIsWinner, Holds, Nesting
  <2>6. IdWhileHeld'
    BY DEF TypeOK, AtFlag, TakenByWinner, HolderIsWinner, Holds, IdWhileHeld
  <2>7. PastIdCheck'
    BY DEF TypeOK, AtFlag, IdWhileHeld, Holds, HolderIsWinner, PastIdCheck
  <2>8. DataFollows'
    BY DEF TypeOK, AtFlag, HolderIsWinner, DataFollows
  <2>9. Acquired'
    BY DEF TypeOK, Acquired
  <2> QED BY <2>1, <2>2, <2>3, <2>4, <2>5, <2>6, <2>7, <2>8, <2>9
<1>12. ASSUME NEW t \in Thread, Publish(t) PROVE IInv'
  <2> USE <1>12 DEF Publish, Passes, Order, nestVars, dataVars, callVars
  <2>1. TypeOK'
    <3>1. at[t] \in Flag
      BY DEF AtFlag
    <3>2. Return(t)
      OBVIOUS
    <3>3. /\ state' \in [Flag -> {DATA, BUSY, DONE}]
          /\ released' \in [Flag -> SUBSET Flag]
          /\ passed' \in [Thread -> SUBSET Flag]
      BY SMTT(20), <3>1 DEF TypeOK
    <3>4. UNCHANGED <<thread_id, winner, loaded>> /\ view' \in [Thread -> SUBSET Flag]
      BY DEF TypeOK
    <3> HIDE <1>12 DEF Publish, Passes, Order, nestVars, dataVars, callVars
    <3>5. /\ pc' \in [Thread -> Label] /\ at' \in [Thread -> Flag \cup {NULL}]
          /\ how' = how /\ body' = body /\ outer' = outer /\ called' \in [Flag -> SUBSET Flag]
      BY <3>1, <3>2, ReturnType
    <3> QED
      BY <3>3, <3>4, <3>5 DEF TypeOK
  <2>2. AtFlag'
    BY DEF TypeOK, AtFlag, Return
  <2>3. TakenByWinner'
    BY DEF TypeOK, AtFlag, TakenByWinner, Return
  <2>4. HolderIsWinner'
    BY DEF TypeOK, AtFlag, TakenByWinner, HolderIsWinner, Holds, Nesting, Return
  <2>5. Nesting'
    BY DEF TypeOK, AtFlag, TakenByWinner, HolderIsWinner, Holds, Nesting, Return
  <2>6. IdWhileHeld'
    BY DEF TypeOK, AtFlag, TakenByWinner, HolderIsWinner, Holds, IdWhileHeld, Return
  <2>7. PastIdCheck'
    BY DEF TypeOK, AtFlag, IdWhileHeld, Holds, HolderIsWinner, PastIdCheck, Return
  <2>8. DataFollows'
    BY DEF TypeOK, AtFlag, HolderIsWinner, DataFollows, Return
  <2>9. Acquired'
    BY DEF TypeOK, Acquired
  <2> QED BY <2>1, <2>2, <2>3, <2>4, <2>5, <2>6, <2>7, <2>8, <2>9
<1>13. ASSUME NEW t \in Thread, Abandon(t) PROVE IInv'
  <2> USE <1>13 DEF Abandon, LeaveBody, nestVars, dataVars, callVars
  <2>1. TypeOK'
    BY DEF TypeOK, AtFlag, Blocking, Label
  <2>2. AtFlag'
    BY DEF TypeOK, AtFlag
  <2>3. TakenByWinner'
    BY DEF TypeOK, AtFlag, TakenByWinner
  <2>4. HolderIsWinner'
    BY DEF TypeOK, AtFlag, TakenByWinner, HolderIsWinner, Holds, Nesting
  <2>5. Nesting'
    BY DEF TypeOK, AtFlag, TakenByWinner, HolderIsWinner, Holds, Nesting
  <2>6. IdWhileHeld'
    BY DEF TypeOK, AtFlag, TakenByWinner, HolderIsWinner, Holds, IdWhileHeld
  <2>7. PastIdCheck'
    BY DEF TypeOK, AtFlag, IdWhileHeld, Holds, HolderIsWinner, PastIdCheck
  <2>8. DataFollows'
    BY DEF TypeOK, AtFlag, HolderIsWinner, DataFollows
  <2>9. Acquired'
    BY DEF TypeOK, Acquired
  <2> QED BY <2>1, <2>2, <2>3, <2>4, <2>5, <2>6, <2>7, <2>8, <2>9
<1> QED BY <1>1, <1>2, <1>3, <1>4, <1>5, <1>6, <1>7, <1>8, <1>9, <1>10, <1>11, <1>12, <1>13 DEF Next, Step

\* The invariant holds before any call.
LEMMA IInvInit == Init => IInv
  BY OnceAssumption DEF Init, IInv, TypeOK, AtFlag, TakenByWinner, HolderIsWinner,
     Nesting, IdWhileHeld, PastIdCheck, DataFollows, Acquired, Holds, Blocking, Label,
     DATA, BUSY, DONE

\* The inductive invariant holds in every behaviour of the once flags.
THEOREM Invariance == Spec => []IInv
  BY IInvInit, IInvStep, PTL DEF Spec

-----------------------------------------------------------------------------
(* What the callers of once flags rely on. *)

\* The variables of Once stay in their types.
THEOREM TypeCorrect == Spec => []TypeOK
<1>1. IInv => TypeOK
  BY DEF IInv
<1> QED
  BY <1>1, Invariance, PTL

\* Where a compare-and-swap is an acquire, as on C11, a caller that is back from a
\* blocking call is ordered after the data that the initialiser wrote, for any number of
\* threads, flags and variants.
THEOREM PassedSeesInitTheorem == SwapOrders => (Spec => []PassedSeesInit)
<1> SUFFICES ASSUME SwapOrders PROVE Spec => []PassedSeesInit
  OBVIOUS
<1>1. IInv => PassedSeesInit
  BY DEF IInv, DataFollows, Acquired, PassedSeesInit
<1> QED
  BY <1>1, Invariance, PTL

\* Whatever a compare-and-swap orders, such a caller has at least loaded what published that
\* data: the next barrier that it executes puts the data before what follows.
THEOREM PassedLoadsInit == Spec => [](\A t \in Thread : passed[t] \subseteq loaded[t])
<1>1. IInv => \A t \in Thread : passed[t] \subseteq loaded[t]
  BY DEF IInv, DataFollows
<1> QED
  BY <1>1, Invariance, PTL

\* A thread id found in a recursive flag is that of the thread initialising it,
\* so that comparing it with one's own decides re-entry.
THEOREM IdNamesInitialiserTheorem == Spec => []IdNamesInitialiser
<1>1. IInv => IdNamesInitialiser
  BY DEF IInv, IdWhileHeld, IdNamesInitialiser
<1> QED
  BY <1>1, Invariance, PTL

\* The recursive variants never make the initialising thread wait for itself.
THEOREM OwnerNeverWaitsTheorem == Spec => []OwnerNeverWaits
<1>1. IInv => OwnerNeverWaits
  BY DEF IInv, PastIdCheck, OwnerNeverWaits
<1> QED
  BY <1>1, Invariance, PTL

\* All flags are fresh and nobody has passed one.
LEMMA AbstractInit == Init => Abstract!Init
  BY DEF Init, Abstract!Init, Phase, DATA, BUSY, DONE

\* Each step begins, completes or passes one flag, or changes nothing the
\* callers rely on: only CasWins begins, only the winner's Publish completes.
LEMMA AbstractStep == IInv /\ [Next]_vars => [Abstract!Next]_(Abstract!vars)
<1> SUFFICES ASSUME IInv, [Next]_vars PROVE [Abstract!Next]_(Abstract!vars)
  OBVIOUS
<1> USE DEF IInv, DATA, BUSY, DONE
<1>1. CASE UNCHANGED vars
  BY <1>1 DEF vars, Abstract!vars, Phase
<1>2. ASSUME NEW t \in Thread, CasWins(t) PROVE Abstract!Begin(t, at[t])
  <2>1. at[t] \in Flag /\ state[at[t]] = DATA
    BY <1>2 DEF CasWins, AtFlag
  <2>2. Phase[at[t]] = "fresh" /\ Phase' = [Phase EXCEPT ![at[t]] = "running"]
    <3>1. state' = [state EXCEPT ![at[t]] = BUSY] /\ state \in [Flag -> {DATA, BUSY, DONE}]
      BY <1>2 DEF CasWins, TypeOK
    <3>2. \A f \in Flag : Phase'[f] = IF f = at[t] THEN "running" ELSE Phase[f]
      BY <2>1, <3>1 DEF Phase
    <3> QED
      BY <2>1, <3>2 DEF Phase
  <2> QED
    BY <1>2, <2>1, <2>2 DEF CasWins, Abstract!Begin
<1>3. ASSUME NEW t \in Thread, CasFindsDone(t)
      PROVE  Abstract!Pass(t, at[t]) \/ UNCHANGED Abstract!vars
  BY <1>3 DEF CasFindsDone, Passes, AtFlag, Abstract!Pass, Abstract!vars, Phase
<1>4. ASSUME NEW t \in Thread, Spin(t)
      PROVE  Abstract!Pass(t, at[t]) \/ UNCHANGED Abstract!vars
  BY <1>4 DEF Spin, Passes, AtFlag, Abstract!Pass, Abstract!vars, Phase
<1>5. ASSUME NEW t \in Thread, Publish(t)
      PROVE  Abstract!Complete(t, at[t]) \/ Abstract!Pass(t, at[t])
  <2>1. at[t] \in Flag
    BY <1>5 DEF Publish, AtFlag
  <2>2. CASE state[at[t]] = BUSY
    <3>1. winner[at[t]] = t
      BY <1>5, <2>1, <2>2 DEF Publish, HolderIsWinner, Holds
    <3>2. Phase[at[t]] = "running" /\ Phase' = [Phase EXCEPT ![at[t]] = "done"]
      <4>1. state' = [state EXCEPT ![at[t]] = DONE] /\ state \in [Flag -> {DATA, BUSY, DONE}]
        BY <1>5, <2>2 DEF Publish, TypeOK
      <4>2. \A f \in Flag : Phase'[f] = IF f = at[t] THEN "done" ELSE Phase[f]
        BY <2>1, <4>1 DEF Phase
      <4> QED
        BY <2>1, <2>2, <4>2 DEF Phase
    <3> QED
      BY <1>5, <3>1, <3>2 DEF Publish, Passes, Abstract!Complete
  <2>3. CASE state[at[t]] # BUSY
    <3>1. state[at[t]] = DONE
      BY <1>5, <2>1, <2>3 DEF Publish, HolderIsWinner, TypeOK
    <3> QED
      BY <1>5, <2>1, <3>1 DEF Publish, Passes, Abstract!Pass, Phase
  <2> QED
    BY <2>2, <2>3
<1>6. ASSUME NEW t \in Thread,
             \/ \E f \in Flag : Call(t, f) \/ NestedCall(t, f)
             \/ ReadId(t) \/ CasFindsBusy(t) \/ WriteId(t) \/ FinishInit(t)
             \/ ClearId(t) \/ Abandon(t)
      PROVE  UNCHANGED Abstract!vars
  <2>1. UNCHANGED <<state, winner, passed>>
    BY <1>6 DEF Call, NestedCall, Enter, ReadId, CasFindsBusy, WriteId, FinishInit,
       ClearId, Abandon
  <2> QED
    BY <2>1 DEF Phase, Abstract!vars
<1>7. ASSUME NEW t \in Thread, pc[t] # "run" PROVE at[t] \in Flag
  BY <1>7 DEF AtFlag
<1> QED
  BY <1>1, <1>2, <1>3, <1>4, <1>5, <1>6, <1>7
     DEF Next, Step, Abstract!Next, CasWins, CasFindsDone, Spin, Publish

\* Whatever variants the callers of the flags mix, the initialiser of a flag is
\* begun once and no blocking call is back before it is complete.
THEOREM Implements == Spec => Abstract!Spec
  BY AbstractInit, AbstractStep, Invariance, PTL DEF Spec, Abstract!Spec

-----------------------------------------------------------------------------
(* What passing a flag says of the flags that its initialiser needs. *)

\* No initialiser needs a flag that cannot be initialised without its own.
Acyclic == \A f, g \in Flag : f \in Required[g] /\ g \in Required[f] => f = g

\* The flags whose initialisers t has entered and not left.
Stack(t) == {g \in Flag : body[t] = g \/ \E h \in Flag : outer[h] = g /\ winner[h] = t}

\* Each initialiser is required by the one that it was entered from, and so by all
\* further out.
Ordered == \A t \in Thread :
    /\ body[t] = NULL => Stack(t) = {}
    /\ \A h \in Flag : outer[h] # NULL /\ winner[h] = t => h \in Stack(t)
    /\ \A g \in Stack(t) : body[t] \in Required[g]
    /\ \A g, h \in Stack(t) : outer[h] = NULL => g \in Required[h]
    /\ \A g, h \in Stack(t) : g \in Required[h] /\ outer[g] # NULL /\ outer[h] # NULL =>
          outer[g] \in Required[outer[h]]

\* So is a flag that is about to be entered, or has just been left.
Inward == \A t \in Thread :
    /\ pc[t] \in {"read_id", "cas", "spin", "write_id"} /\ body[t] # NULL =>
          at[t] \in Needs[body[t]]
    /\ \A f \in Flag : Holds(t, f) => \A g \in Stack(t) : f \in Required[g]

\* What an initialiser has called it has seen, unless it is itself inside of it, or has left
\* it for good.
CalledSeen ==
    /\ \A f \in Flag : state[f] = DATA => called[f] = {}
    /\ \A f \in Flag : state[f] = BUSY => \A g \in called[f] :
          g \in loaded[winner[f]] \/ (state[g] = BUSY /\ winner[g] = winner[f])
    /\ \A t \in Thread : pc[t] \in {"read_id", "cas"} /\ how[t] = "noblock" => body[t] = NULL

\* Flags that will never be DONE, for their initialiser was left for good.
Dead == {g \in Flag : state[g] = BUSY /\ \A t \in Thread : g \notin Stack(t) /\ ~Holds(t, g)}

\* The data of the needs goes with a publication to everyone who passes the flag.
NeedsFollow ==
    /\ \A t \in Thread, f \in Flag : Holds(t, f) /\ pc[t] # "write_id" => Needs[f] \subseteq called[f]
    /\ \A t \in Thread : pc[t] \in {"clear_id", "publish"} /\ state[at[t]] = DONE =>
          released[at[t]] \subseteq loaded[t]
    /\ \A f \in Flag : state[f] = DONE => Needs[f] \subseteq released[f] \cup Dead
    /\ \A t \in Thread : \A f \in passed[t] : Needs[f] \subseteq loaded[t] \cup Dead

NInv == IInv /\ Ordered /\ Inward /\ CalledSeen /\ NeedsFollow

\* Required orders the flags, and every flag that is needed comes before the one that needs it.
LEMMA RequiredFacts ==
    /\ \A f \in Flag : f \in Required[f] /\ Required[f] \subseteq Flag /\ Needs[f] \subseteq Required[f]
    /\ \A f, g, h \in Flag : h \in Required[g] /\ g \in Required[f] => h \in Required[f]
<1> DEFINE Closed(S) == \A h \in S : Needs[h] \subseteq S
<1>1. \A f, g \in Flag : g \in Required[f] <=> \A S \in SUBSET Flag : f \in S /\ Closed(S) => g \in S
  BY DEF Required
<1>2. ASSUME NEW f \in Flag PROVE f \in Required[f] /\ Required[f] \subseteq Flag
  BY <1>1 DEF Required
<1>3. ASSUME NEW f \in Flag, NEW g \in Needs[f] PROVE g \in Required[f]
  BY <1>1, OnceAssumption
<1> HIDE DEF Closed
<1>4. ASSUME NEW f \in Flag, NEW g \in Flag, NEW h \in Flag, h \in Required[g], g \in Required[f]
      PROVE  h \in Required[f]
  BY <1>1, <1>4
<1> QED
  BY <1>2, <1>3, <1>4

\* The initialisers that a thread is in are its own.
LEMMA StackIsOwn == ASSUME IInv, NEW t \in Thread, NEW g \in Stack(t)
                    PROVE  g \in Flag /\ winner[g] = t /\ state[g] = BUSY
<1>1. g \in Flag
  BY DEF Stack
<1>2. CASE body[t] = g
  BY <1>1, <1>2 DEF IInv, HolderIsWinner
<1>3. CASE body[t] # g
  <2>1. PICK h \in Flag : outer[h] = g /\ winner[h] = t
    BY <1>3 DEF Stack
  <2> QED
    BY <1>1, <2>1, OnceAssumption DEF IInv, Nesting
<1> QED
  BY <1>2, <1>3

\* Thread t enters the initialiser of f, which is required by those it is in, or leaves one.
Enters(t, f) == /\ (\A u \in Thread : f \notin Stack(u)) /\ outer[f] = NULL
                /\ state[f] = DATA \/ Holds(t, f)
                /\ \A g \in Stack(t) : f \in Required[g]
                /\ body' = [body EXCEPT ![t] = f]
                /\ outer' = [outer EXCEPT ![f] = body[t]]
                /\ winner'[f] = t /\ \A h \in Flag \ {f} : winner'[h] = winner[h]

Leaves(t) == body[t] # NULL /\ LeaveBody(t) /\ winner' = winner

\* Every step keeps all stacks, or it enters or leaves one initialiser.
LEMMA Moves == NInv /\ [Next]_vars =>
    \/ /\ body' = body /\ outer' = outer
       /\ \A h \in Flag : winner'[h] = winner[h] \/ (state[h] = DATA /\ outer[h] = NULL)
    \/ \E t \in Thread, f \in Flag : Enters(t, f)
    \/ \E t \in Thread : Leaves(t)
<1> SUFFICES ASSUME NInv, [Next]_vars
             PROVE  \/ /\ body' = body /\ outer' = outer
                       /\ \A h \in Flag : winner'[h] = winner[h] \/ (state[h] = DATA /\ outer[h] = NULL)
                    \/ \E t \in Thread, f \in Flag : Enters(t, f)
                    \/ \E t \in Thread : Leaves(t)
  OBVIOUS
<1>1. CASE UNCHANGED vars
  BY <1>1 DEF vars, nestVars
<1>2. ASSUME NEW t \in Thread, NEW f \in Flag, state[f] = DATA \/ Holds(t, f),
             pc[t] \in {"cas", "write_id"}, at[t] = f
      PROVE  /\ (\A u \in Thread : f \notin Stack(u)) /\ outer[f] = NULL
             /\ \A g \in Stack(t) : f \in Required[g]
  <2>1. ASSUME NEW u \in Thread, f \in Stack(u) PROVE FALSE
    <3>1. winner[f] = u /\ state[f] = BUSY
      BY <2>1, StackIsOwn DEF NInv
    <3>2. Holds(t, f) /\ u = t
      BY <1>2, <3>1 DEF NInv, IInv, HolderIsWinner, DATA, BUSY
    <3> QED
      BY <2>1, <3>2 DEF NInv, IInv, Stack, Nesting
  <2>2. outer[f] = NULL
    BY <1>2 DEF NInv, IInv, Nesting, DATA, BUSY
  <2>3. ASSUME NEW g \in Stack(t) PROVE f \in Required[g]
    <3>1. body[t] \in Flag /\ f \in Needs[body[t]]
      BY <1>2, <2>3 DEF NInv, IInv, TypeOK, Ordered, Inward
    <3>2. g \in Flag /\ body[t] \in Required[g]
      BY <2>3 DEF NInv, Ordered, Stack
    <3> QED
      BY <1>2, <3>1, <3>2, RequiredFacts
  <2> QED
    BY <2>1, <2>2, <2>3
<1>3. ASSUME NEW t \in Thread, CasWins(t)
      PROVE  \/ /\ body' = body /\ outer' = outer
                /\ \A h \in Flag : winner'[h] = winner[h] \/ (state[h] = DATA /\ outer[h] = NULL)
             \/ \E f \in Flag : Enters(t, f)
  <2>1. /\ at[t] \in Flag /\ state[at[t]] = DATA /\ pc[t] = "cas"
        /\ winner' = [winner EXCEPT ![at[t]] = t] /\ winner \in [Flag -> Thread \cup {NULL}]
    BY <1>3 DEF CasWins, NInv, IInv, AtFlag, TypeOK
  <2>2. /\ (\A u \in Thread : at[t] \notin Stack(u)) /\ outer[at[t]] = NULL
        /\ \A g \in Stack(t) : at[t] \in Required[g]
    BY <1>2, <2>1
  <2>3. CASE at[t] \in Recursive
    BY <1>3, <2>1, <2>2, <2>3 DEF CasWins, nestVars
  <2>4. CASE at[t] \notin Recursive
    <3>1. body' = [body EXCEPT ![t] = at[t]] /\ outer' = [outer EXCEPT ![at[t]] = body[t]]
      BY <1>3, <2>4 DEF CasWins, EnterBody
    <3>2. Enters(t, at[t])
      BY <2>1, <2>2, <3>1 DEF Enters
    <3> QED
      BY <2>1, <3>2
  <2> QED
    BY <2>3, <2>4
<1>4. ASSUME NEW t \in Thread, WriteId(t) PROVE \E f \in Flag : Enters(t, f)
  <2>1. at[t] \in Flag /\ Holds(t, at[t]) /\ winner[at[t]] = t
    BY <1>4 DEF WriteId, NInv, IInv, AtFlag, HolderIsWinner, Holds
  <2>2. /\ (\A u \in Thread : at[t] \notin Stack(u)) /\ outer[at[t]] = NULL
        /\ \A g \in Stack(t) : at[t] \in Required[g]
    BY <1>2, <1>4, <2>1 DEF WriteId
  <2>3. Enters(t, at[t])
    BY <1>4, <2>1, <2>2 DEF WriteId, EnterBody, Enters
  <2> QED
    BY <2>1, <2>3
<1>5. ASSUME NEW t \in Thread, FinishInit(t) \/ Abandon(t) PROVE Leaves(t)
  BY <1>5, OnceAssumption DEF FinishInit, Abandon, Leaves, NInv, IInv, TypeOK
<1>6. ASSUME NEW t \in Thread,
             \/ \E f \in Flag : Call(t, f) \/ NestedCall(t, f)
             \/ ReadId(t) \/ CasFindsDone(t) \/ CasFindsBusy(t)
             \/ Spin(t) \/ ClearId(t) \/ Publish(t)
      PROVE  UNCHANGED <<body, outer, winner>>
  BY <1>6 DEF Call, NestedCall, Enter, ReadId, CasFindsDone, CasFindsBusy, Spin, ClearId, Publish,
              Return, nestVars
<1> QED
  BY <1>1, <1>3, <1>4, <1>5, <1>6 DEF Next, Step

\* What the three kinds of steps make of the stacks.
LEMMA StackMoves ==
    ASSUME NInv
    PROVE  /\ body' = body /\ outer' = outer
              /\ (\A h \in Flag : winner'[h] = winner[h] \/ (state[h] = DATA /\ outer[h] = NULL))
              => \A u \in Thread : Stack(u)' = Stack(u)
           /\ \A t \in Thread, f \in Flag : Enters(t, f) =>
                 Stack(t)' = Stack(t) \cup {f} /\ \A u \in Thread \ {t} : Stack(u)' = Stack(u)
           /\ \A t \in Thread : Leaves(t) =>
                 Stack(t)' = Stack(t) \ {body[t]} /\ \A u \in Thread \ {t} : Stack(u)' = Stack(u)
<1> USE OnceAssumption
<1>1. ASSUME body' = body, outer' = outer,
             \A h \in Flag : winner'[h] = winner[h] \/ (state[h] = DATA /\ outer[h] = NULL),
             NEW u \in Thread
      PROVE  Stack(u)' = Stack(u)
  BY <1>1 DEF Stack
<1>2. ASSUME NEW t \in Thread, NEW f \in Flag, Enters(t, f)
      PROVE  Stack(t)' = Stack(t) \cup {f} /\ \A u \in Thread \ {t} : Stack(u)' = Stack(u)
  <2>1. /\ body'[t] = f /\ \A u \in Thread \ {t} : body'[u] = body[u]
        /\ outer[f] = NULL /\ outer'[f] = body[t] /\ \A h \in Flag \ {f} : outer'[h] = outer[h]
        /\ winner'[f] = t /\ \A h \in Flag \ {f} : winner'[h] = winner[h]
    BY <1>2 DEF Enters, NInv, IInv, TypeOK
  <2>2. Stack(t)' = Stack(t) \cup {f}
    BY <2>1 DEF Stack
  <2>3. ASSUME NEW u \in Thread \ {t} PROVE Stack(u)' = Stack(u)
    BY <2>1 DEF Stack
  <2> QED
    BY <2>2, <2>3
<1>3. ASSUME NEW t \in Thread, Leaves(t)
      PROVE  Stack(t)' = Stack(t) \ {body[t]} /\ \A u \in Thread \ {t} : Stack(u)' = Stack(u)
  <2>1. /\ body[t] \in Flag /\ winner[body[t]] = t
        /\ body'[t] = outer[body[t]] /\ \A u \in Thread \ {t} : body'[u] = body[u]
        /\ outer'[body[t]] = NULL /\ \A h \in Flag \ {body[t]} : outer'[h] = outer[h]
        /\ winner' = winner /\ \A h \in Flag : outer[h] # body[t]
    BY <1>3 DEF Leaves, LeaveBody, NInv, IInv, TypeOK, HolderIsWinner, Nesting
  <2>2. outer[body[t]] # body[t]
    BY <2>1
  <2>3. Stack(t)' = Stack(t) \ {body[t]}
    BY <2>1, <2>2 DEF Stack
  <2>4. ASSUME NEW u \in Thread \ {t} PROVE Stack(u)' = Stack(u)
    BY <2>1 DEF Stack
  <2> QED
    BY <2>3, <2>4
<1> QED
  BY <1>1, <1>2, <1>3

\* Entering and leaving keep the order of the stack; Acyclic is what makes the innermost
\* initialiser the one that is left.
LEMMA OrderedStep == Acyclic /\ NInv /\ [Next]_vars => Ordered'
<1> SUFFICES ASSUME Acyclic, NInv, [Next]_vars PROVE Ordered'
  OBVIOUS
<1>1. CASE /\ body' = body /\ outer' = outer
           /\ \A h \in Flag : winner'[h] = winner[h] \/ (state[h] = DATA /\ outer[h] = NULL)
  <2>1. \A u \in Thread : Stack(u)' = Stack(u)
    BY <1>1, StackMoves
  <2>2. \A h \in Flag : outer[h] # NULL => winner'[h] = winner[h]
    BY <1>1
  <2> QED
    BY <1>1, <2>1, <2>2 DEF NInv, Ordered
<1>2. ASSUME NEW t \in Thread, NEW f \in Flag, Enters(t, f) PROVE Ordered'
  <2>1. /\ body'[t] = f /\ \A u \in Thread \ {t} : body'[u] = body[u]
        /\ outer[f] = NULL /\ outer'[f] = body[t] /\ \A h \in Flag \ {f} : outer'[h] = outer[h]
        /\ winner'[f] = t /\ \A h \in Flag \ {f} : winner'[h] = winner[h]
        /\ (\A u \in Thread : f \notin Stack(u)) /\ \A g \in Stack(t) : f \in Required[g]
    BY <1>2 DEF Enters, NInv, IInv, TypeOK
  <2>2. Stack(t)' = Stack(t) \cup {f} /\ \A u \in Thread \ {t} : Stack(u)' = Stack(u)
    BY <1>2, StackMoves
  <2>3. f # NULL /\ f \in Required[f] /\ \A u \in Thread : Stack(u) \subseteq Flag
    BY RequiredFacts, OnceAssumption DEF Stack
  <2>4. \A h \in Stack(t) : h # f /\ f \in Required[h] /\ h \notin Required[f]
    BY <2>1, <2>3 DEF Acyclic
  <2>5. ASSUME NEW u \in Thread \ {t}
        PROVE  /\ body'[u] = NULL => Stack(u)' = {}
               /\ \A h \in Flag : outer'[h] # NULL /\ winner'[h] = u => h \in Stack(u)'
               /\ \A g \in Stack(u)' : body'[u] \in Required[g]
               /\ \A g, h \in Stack(u)' : outer'[h] = NULL => g \in Required[h]
               /\ \A g, h \in Stack(u)' : g \in Required[h] /\ outer'[g] # NULL /\ outer'[h] # NULL =>
                     outer'[g] \in Required[outer'[h]]
    BY <2>1, <2>2, <2>3 DEF NInv, Ordered
  <2>6. \A h \in Flag : outer[h] # NULL /\ winner[h] = t => h \in Stack(t) /\ outer[h] \in Stack(t)
    BY OnceAssumption DEF NInv, IInv, TypeOK, Ordered, Stack
  <2>7. ASSUME NEW g \in Stack(t)', NEW h \in Stack(t)', outer'[h] = NULL PROVE g \in Required[h]
    BY <2>1, <2>2, <2>3, <2>4, <2>7 DEF NInv, Ordered
  <2>8. ASSUME NEW g \in Stack(t)', NEW h \in Stack(t)',
               g \in Required[h], outer'[g] # NULL, outer'[h] # NULL
        PROVE  outer'[g] \in Required[outer'[h]]
    <3>1. CASE h = f
      <4>1. g = f /\ body[t] \in Flag
        BY <2>1, <2>2, <2>4, <2>8, <3>1 DEF NInv, IInv, TypeOK
      <4> QED
        BY <2>1, <3>1, <4>1, RequiredFacts
    <3>2. CASE h # f
      <4>1. h \in Stack(t) /\ h \in Flag /\ outer'[h] = outer[h] /\ outer[h] # NULL
        BY <2>1, <2>2, <2>3, <2>8, <3>2
      <4>2. outer[h] \in Stack(t)
        BY <2>6, <4>1, StackIsOwn DEF NInv
      <4>3. CASE g = f
        BY <2>1, <4>1, <4>2, <4>3 DEF NInv, Ordered
      <4>4. CASE g # f
        BY <2>1, <2>2, <2>3, <2>8, <4>1, <4>4 DEF NInv, Ordered
      <4> QED
        BY <4>3, <4>4
    <3> QED
      BY <3>1, <3>2
  <2> QED
    BY <2>1, <2>2, <2>3, <2>4, <2>5, <2>6, <2>7, <2>8 DEF Ordered
<1>3. ASSUME NEW t \in Thread, Leaves(t) PROVE Ordered'
  <2> DEFINE b == body[t]
  <2>1. /\ b \in Stack(t) /\ b \in Flag /\ b # NULL
        /\ body'[t] = outer[b] /\ \A u \in Thread \ {t} : body'[u] = body[u]
        /\ outer'[b] = NULL /\ \A h \in Flag \ {b} : outer'[h] = outer[h]
        /\ winner' = winner
    BY <1>3, OnceAssumption DEF Leaves, LeaveBody, NInv, IInv, TypeOK, Stack
  <2>2. Stack(t)' = Stack(t) \ {b} /\ \A u \in Thread \ {t} : Stack(u)' = Stack(u)
    BY <1>3, StackMoves
  <2>3. \A u \in Thread : \A g \in Stack(u) : g \in Flag /\ winner[g] = u
    BY StackIsOwn DEF NInv
  <2> HIDE DEF b
  <2>4. \A h \in Flag : outer'[h] # NULL => h # b /\ outer'[h] = outer[h]
    BY <2>1
  <2>5. \A g \in Stack(t) : b \in Required[g]
    BY DEF b, NInv, Ordered
  <2>6. ASSUME body'[t] = NULL PROVE Stack(t)' = {}
    <3>1. \A g \in Stack(t) : g \in Required[b]
      BY <2>1, <2>6 DEF NInv, Ordered
    <3> QED
      BY <2>1, <2>2, <2>3, <2>5, <3>1 DEF Acyclic
  <2>7. ASSUME NEW g \in Stack(t)' PROVE body'[t] \in Required[g]
    <3>1. g \in Flag /\ g \in Stack(t) /\ g # b /\ outer[b] # NULL
      BY <2>1, <2>2, <2>3, <2>6, <2>7
    <3>2. PICK x \in Flag : outer[x] = g /\ winner[x] = t
      BY <3>1 DEF Stack, b
    <3>3. x \in Stack(t) /\ b \in Required[x] /\ outer[x] # NULL
      BY <2>5, <3>1, <3>2, OnceAssumption DEF NInv, Ordered
    <3> QED
      BY <2>1, <3>1, <3>2, <3>3 DEF NInv, Ordered
  <2>8. /\ \A h \in Flag : outer'[h] # NULL /\ winner'[h] = t => h \in Stack(t)'
        /\ \A g, h \in Stack(t)' : outer'[h] = NULL => g \in Required[h]
        /\ \A g, h \in Stack(t)' : g \in Required[h] /\ outer'[g] # NULL /\ outer'[h] # NULL =>
              outer'[g] \in Required[outer'[h]]
    BY <2>1, <2>2, <2>3, <2>4 DEF NInv, Ordered
  <2>9. ASSUME NEW u \in Thread \ {t}
        PROVE  /\ body'[u] = NULL => Stack(u)' = {}
               /\ \A h \in Flag : outer'[h] # NULL /\ winner'[h] = u => h \in Stack(u)'
               /\ \A g \in Stack(u)' : body'[u] \in Required[g]
               /\ \A g, h \in Stack(u)' : outer'[h] = NULL => g \in Required[h]
               /\ \A g, h \in Stack(u)' : g \in Required[h] /\ outer'[g] # NULL /\ outer'[h] # NULL =>
                     outer'[g] \in Required[outer'[h]]
    <3>1. b \notin Stack(u)
      BY <2>1, <2>3
    <3>2. \A h \in Stack(u) : outer'[h] = outer[h]
      BY <2>1, <2>3, <3>1
    <3> QED
      BY <2>1, <2>2, <2>4, <3>2 DEF NInv, Ordered
  <2> QED
    BY <2>6, <2>7, <2>8, <2>9 DEF Ordered
<1> QED
  BY <1>1, <1>2, <1>3, Moves

\* A nested call is made to a flag that the initialiser needs, and a flag that is held has just
\* been called from it, or left to it.
LEMMA InwardStep == NInv /\ [Next]_vars => Inward'
<1> SUFFICES ASSUME NInv, [Next]_vars, NEW u \in Thread
             PROVE  /\ pc'[u] \in {"read_id", "cas", "spin", "write_id"} /\ body'[u] # NULL =>
                          at'[u] \in Needs[body'[u]]
                    /\ \A f \in Flag : Holds(u, f)' => \A g \in Stack(u)' : f \in Required[g]
  BY DEF Inward
<1> DEFINE Wanted == pc[u] \in {"read_id", "cas", "spin", "write_id"} /\ body[u] # NULL =>
                        at[u] \in Needs[body[u]]
           Held == \A f \in Flag : Holds(u, f) => \A g \in Stack(u) : f \in Required[g]
<1>1. Wanted /\ Held
  BY DEF NInv, Inward
<1>2. ASSUME UNCHANGED <<body, outer, winner>>, Wanted', \A f \in Flag : Holds(u, f)' => Holds(u, f)
      PROVE  Wanted' /\ Held'
  BY <1>1, <1>2 DEF Stack
<1>3. CASE UNCHANGED vars
  BY <1>1, <1>2, <1>3 DEF vars, callVars, nestVars, Holds
<1>4. ASSUME NEW t \in Thread, \E f \in Flag : Call(t, f) \/ NestedCall(t, f) PROVE Wanted' /\ Held'
  <2>1. Wanted'
    BY <1>1, <1>4 DEF Call, NestedCall, Enter, nestVars, NInv, IInv, TypeOK
  <2>2. UNCHANGED <<body, outer, winner, state>> /\ \A f \in Flag : Holds(u, f)' => Holds(u, f)
    BY <1>4 DEF Call, NestedCall, Enter, nestVars, Holds, NInv, IInv, TypeOK
  <2> QED
    BY <1>2, <2>1, <2>2
<1>5. ASSUME NEW t \in Thread, ReadId(t) \/ CasFindsDone(t) \/ CasFindsBusy(t) \/ Spin(t) \/ ClearId(t)
      PROVE  Wanted' /\ Held'
  <2>1. /\ UNCHANGED <<body, outer, winner, state>> /\ pc[t] # "run"
        /\ \A v \in Thread \ {t} : pc'[v] = pc[v] /\ at'[v] = at[v]
        /\ \/ pc'[t] = "run"
           \/ /\ at'[t] = at[t]
              /\ \/ pc[t] \in {"read_id", "cas"} /\ pc'[t] \in {"cas", "spin"}
                 \/ pc[t] = "spin" /\ state[at[t]] = DONE /\ pc'[t] \in {"clear_id", "publish"}
                 \/ pc[t] = "clear_id" /\ pc'[t] = "publish"
    BY <1>5 DEF ReadId, CasFindsDone, CasFindsBusy, Spin, ClearId, Return, Goto, nestVars, NInv, IInv, TypeOK
  <2>2. Wanted' /\ \A f \in Flag : Holds(u, f)' => Holds(u, f)
    BY <1>1, <2>1 DEF Holds, BUSY, DONE
  <2> QED
    BY <1>2, <2>1, <2>2
<1>6. ASSUME NEW t \in Thread, Publish(t) PROVE Wanted' /\ Held'
  <2>1. /\ UNCHANGED <<body, outer, winner>> /\ pc'[t] = "run"
        /\ \A v \in Thread \ {t} : pc'[v] = pc[v] /\ at'[v] = at[v]
        /\ \A f \in Flag : state'[f] = BUSY => state[f] = BUSY
    BY <1>6 DEF Publish, Return, NInv, IInv, TypeOK, BUSY, DONE
  <2>2. Wanted' /\ \A f \in Flag : Holds(u, f)' => Holds(u, f)
    BY <1>1, <2>1 DEF Holds
  <2> QED
    BY <1>2, <2>1, <2>2
<1>7. ASSUME NEW t \in Thread, CasWins(t) PROVE Wanted' /\ Held'
  <2>1. /\ at[t] \in Flag /\ pc[t] = "cas" /\ state[at[t]] = DATA
        /\ state' = [state EXCEPT ![at[t]] = BUSY]
        /\ \A v \in Thread \ {t} : pc'[v] = pc[v] /\ at'[v] = at[v] /\ body'[v] = body[v]
        /\ \/ pc'[t] = "write_id" /\ at'[t] = at[t] /\ body' = body /\ outer' = outer
           \/ pc'[t] = "run"
    BY <1>7 DEF CasWins, Goto, EnterBody, nestVars, NInv, IInv, TypeOK, AtFlag
  <2>2. Wanted'
    BY <1>1, <2>1
  <2>3. \A v \in Thread : Stack(v)' = Stack(v) \/ pc'[v] = "run"
    <3>1. CASE pc'[t] = "run"
      <4>1. EnterBody(t, at[t]) /\ winner' = [winner EXCEPT ![at[t]] = t]
        BY <1>7, <3>1 DEF CasWins, Goto, NInv, IInv, TypeOK
      <4>2. body'[t] = at[t] /\ outer'[at[t]] = body[t]
            /\ (\A h \in Flag \ {at[t]} : outer'[h] = outer[h] /\ winner'[h] = winner[h]) /\ winner'[at[t]] = t
        BY <2>1, <4>1 DEF EnterBody, NInv, IInv, TypeOK
      <4>3. outer[at[t]] = NULL
        BY <2>1 DEF NInv, IInv, Nesting, DATA, BUSY
      <4>4. ASSUME NEW v \in Thread \ {t} PROVE Stack(v)' = Stack(v)
        BY <2>1, <4>2, <4>3, OnceAssumption DEF Stack
      <4> QED
        BY <3>1, <4>4
    <3>2. CASE body' = body /\ outer' = outer
      <4>1. \A h \in Flag : winner'[h] = winner[h] \/ (state[h] = DATA /\ outer[h] = NULL)
        BY <1>7, <2>1 DEF CasWins, NInv, IInv, TypeOK, Nesting, DATA, BUSY
      <4> QED
        BY <3>2, <4>1, StackMoves
    <3> QED
      BY <2>1, <3>1, <3>2
  <2>4. ASSUME NEW f \in Flag, Holds(u, f)', NEW g \in Stack(u)' PROVE f \in Required[g]
    <3>1. g \in Stack(u) /\ pc'[u] # "run"
      BY <2>3, <2>4 DEF Holds
    <3>2. CASE u = t
      <4>1. f = at[t] /\ body[t] \in Flag /\ f \in Needs[body[t]]
        BY <1>1, <2>1, <2>4, <3>1, <3>2 DEF Holds, NInv, IInv, TypeOK, Ordered
      <4>2. g \in Flag /\ body[t] \in Required[g]
        BY <3>1, <3>2 DEF NInv, Ordered, Stack
      <4> QED
        BY <4>1, <4>2, RequiredFacts
    <3>3. CASE u # t
      <4>1. Holds(u, f)
        BY <2>1, <2>4, <3>3 DEF Holds, NInv, IInv, TypeOK, HolderIsWinner, DATA, BUSY
      <4> QED
        BY <1>1, <3>1, <4>1
    <3> QED
      BY <3>2, <3>3
  <2> QED
    BY <2>2, <2>4
<1>8. ASSUME NEW t \in Thread, WriteId(t) PROVE Wanted' /\ Held'
  <2>1. /\ at[t] \in Flag /\ pc'[t] = "run" /\ state' = state /\ body'[t] = at[t]
        /\ \A v \in Thread \ {t} : pc'[v] = pc[v] /\ at'[v] = at[v] /\ body'[v] = body[v]
        /\ Holds(t, at[t])
    BY <1>8 DEF WriteId, EnterBody, NInv, IInv, TypeOK, AtFlag, HolderIsWinner, Holds
  <2>2. \A v \in Thread \ {t} : Stack(v)' = Stack(v)
    <3>1. winner[at[t]] = t
      BY <2>1 DEF NInv, IInv, HolderIsWinner
    <3>2. outer' = [outer EXCEPT ![at[t]] = body[t]] /\ winner' = winner /\ outer[at[t]] = NULL
      BY <1>8, <2>1 DEF WriteId, EnterBody, NInv, IInv, Nesting
    <3> QED
      BY <2>1, <3>1, <3>2, OnceAssumption DEF Stack, NInv, IInv, TypeOK
  <2> QED
    BY <1>1, <2>1, <2>2 DEF Holds
<1>9. ASSUME NEW t \in Thread, FinishInit(t) \/ Abandon(t) PROVE Wanted' /\ Held'
  <2>1. /\ body[t] \in Flag /\ state' = state /\ pc[t] = "run" /\ Leaves(t)
        /\ \A v \in Thread \ {t} : pc'[v] = pc[v] /\ at'[v] = at[v] /\ body'[v] = body[v]
        /\ pc'[t] = "run" \/ (pc'[t] \in {"clear_id", "publish"} /\ at'[t] = body[t])
    BY <1>9, OnceAssumption DEF FinishInit, Abandon, LeaveBody, Leaves, callVars, NInv, IInv, TypeOK
  <2>2. Stack(t)' = Stack(t) \ {body[t]} /\ \A v \in Thread \ {t} : Stack(v)' = Stack(v)
    BY <2>1, StackMoves
  <2>3. \A g \in Stack(t) : body[t] \in Required[g]
    BY DEF NInv, Ordered
  <2> QED
    BY <1>1, <2>1, <2>2, <2>3 DEF Holds
<1> QED
  BY <1>3, <1>4, <1>5, <1>6, <1>7, <1>8, <1>9 DEF Next, Step

\* Who has called a flag and come back has seen its data, or is its initialiser.
LEMMA CalledStep == NInv /\ [Next]_vars => CalledSeen'
<1> SUFFICES ASSUME NInv, [Next]_vars PROVE CalledSeen'
  OBVIOUS
<1> USE DEF DATA, BUSY, DONE
<1>1. CASE UNCHANGED vars
  BY <1>1 DEF vars, callVars, nestVars, dataVars, NInv, CalledSeen
<1>2. ASSUME NEW t \in Thread, \E f \in Flag : Call(t, f) \/ NestedCall(t, f) PROVE CalledSeen'
  BY <1>2 DEF Call, NestedCall, Enter, Blocking, nestVars, dataVars, NInv, IInv, TypeOK, CalledSeen
\* Thread t comes back, having seen the flag it called, or being its initialiser.
<1>3. ASSUME NEW t \in Thread, Return(t), at[t] \in Flag, winner' = winner,
             body[t] # NULL =>
                at[t] \in loaded'[t] \/ (state'[at[t]] = BUSY /\ winner[at[t]] = t),
             \A u \in Thread : loaded[u] \subseteq loaded'[u],
             state' = state \/ (state' = [state EXCEPT ![at[t]] = DONE] /\ state[at[t]] = BUSY
                                /\ winner[at[t]] = t /\ at[t] \in loaded[t])
      PROVE  CalledSeen'
  <2>1. /\ \A f \in Flag : called'[f] = called[f] \/ (f = body[t] /\ called'[f] = called[f] \cup {at[t]})
        /\ body' = body /\ how' = how /\ pc'[t] = "run" /\ \A u \in Thread \ {t} : pc'[u] = pc[u]
    BY <1>3 DEF Return, NInv, IInv, TypeOK
  <2>2. body[t] # NULL => winner[body[t]] = t /\ state[body[t]] = BUSY
    BY DEF NInv, IInv, TypeOK, HolderIsWinner
  <2>3. \A f \in Flag : state'[f] = DATA => called'[f] = {}
    BY <1>3, <2>1, <2>2, OnceAssumption DEF NInv, IInv, TypeOK, CalledSeen
  <2>4. ASSUME NEW f \in Flag, state'[f] = BUSY, NEW g \in called'[f]
        PROVE  g \in loaded'[winner'[f]] \/ (state'[g] = BUSY /\ winner'[g] = winner'[f])
    <3>1. state[f] = BUSY /\ winner[f] \in Thread
      BY <1>3, <2>4, OnceAssumption DEF NInv, IInv, TypeOK, TakenByWinner
    <3>2. CASE g \in called[f]
      BY <1>3, <3>1, <3>2 DEF NInv, IInv, TypeOK, CalledSeen
    <3>3. CASE g \notin called[f]
      BY <1>3, <2>1, <2>2, <2>4, <3>3, OnceAssumption
    <3> QED
      BY <3>2, <3>3
  <2> QED
    BY <2>1, <2>3, <2>4 DEF NInv, CalledSeen
\* No flag is marked as called, and the words of the flags stay as they are.
<1>4. ASSUME UNCHANGED <<state, called, winner>>, \A u \in Thread : loaded[u] \subseteq loaded'[u],
             \A u \in Thread : pc'[u] \in {"read_id", "cas"} => pc[u] \in {"read_id", "cas"} /\ body'[u] = body[u],
             how' = how
      PROVE  CalledSeen'
  BY <1>4, OnceAssumption DEF NInv, IInv, TypeOK, TakenByWinner, CalledSeen
<1>5. ASSUME NEW t \in Thread, ReadId(t) PROVE CalledSeen'
  <2>1. at[t] \in Flag /\ UNCHANGED <<state, winner, loaded>>
    BY <1>5 DEF ReadId, dataVars, NInv, IInv, AtFlag
  <2>2. CASE Return(t) /\ thread_id[at[t]] = t
    <3>1. state[at[t]] = BUSY /\ winner[at[t]] = t
      BY <2>1, <2>2, OnceAssumption DEF NInv, IInv, IdWhileHeld
    <3> QED
      BY <1>3, <2>1, <2>2, <3>1
  <2>3. CASE Goto(t, "cas") /\ UNCHANGED nestVars
    BY <1>4, <1>5, <2>1, <2>3 DEF ReadId, Goto, nestVars, NInv, IInv, TypeOK
  <2> QED
    BY <1>5, <2>2, <2>3 DEF ReadId
<1>6. ASSUME NEW t \in Thread, CasWins(t) PROVE CalledSeen'
  <2>1. /\ at[t] \in Flag /\ state[at[t]] = DATA /\ state' = [state EXCEPT ![at[t]] = BUSY]
        /\ winner' = [winner EXCEPT ![at[t]] = t] /\ called' = called /\ loaded' = loaded
        /\ how' = how /\ pc'[t] \in {"run", "write_id"}
        /\ \A u \in Thread \ {t} : pc'[u] = pc[u] /\ body'[u] = body[u]
    BY <1>6 DEF CasWins, Goto, EnterBody, nestVars, dataVars, NInv, IInv, TypeOK, AtFlag
  <2>2. called[at[t]] = {}
    BY <2>1 DEF NInv, CalledSeen
  <2> QED
    BY <2>1, <2>2 DEF NInv, IInv, TypeOK, CalledSeen
<1>7. ASSUME NEW t \in Thread, CasFindsDone(t) PROVE CalledSeen'
  <2>1. at[t] \in Flag /\ Return(t) /\ UNCHANGED <<state, winner>> /\ at[t] \in released[at[t]]
        /\ loaded' = [loaded EXCEPT ![t] = @ \cup released[at[t]]]
    BY <1>7 DEF CasFindsDone, Load, NInv, IInv, AtFlag, DataFollows
  <2>2. at[t] \in loaded'[t] /\ \A u \in Thread : loaded[u] \subseteq loaded'[u]
    BY <2>1 DEF NInv, IInv, TypeOK
  <2> QED
    BY <1>3, <2>1, <2>2
<1>8. ASSUME NEW t \in Thread, CasFindsBusy(t) PROVE CalledSeen'
  <2>1. at[t] \in Flag /\ UNCHANGED <<state, winner, loaded>>
    BY <1>8 DEF CasFindsBusy, dataVars, NInv, IInv, AtFlag
  <2>2. CASE how[t] = "noblock"
    <3>1. body[t] = NULL /\ Return(t)
      BY <1>8, <2>2 DEF CasFindsBusy, NInv, CalledSeen
    <3> QED
      BY <1>3, <2>1, <3>1
  <2>3. CASE how[t] # "noblock"
    BY <1>4, <1>8, <2>1, <2>3 DEF CasFindsBusy, Goto, nestVars, NInv, IInv, TypeOK
  <2> QED
    BY <2>2, <2>3
<1>9. ASSUME NEW t \in Thread, Spin(t) PROVE CalledSeen'
  <2>1. at[t] \in Flag /\ UNCHANGED <<state, winner>> /\ at[t] \in released[at[t]]
        /\ loaded' = [loaded EXCEPT ![t] = @ \cup released[at[t]]]
    BY <1>9 DEF Spin, Load, Order, NInv, IInv, AtFlag, DataFollows
  <2>2. at[t] \in loaded'[t] /\ \A u \in Thread : loaded[u] \subseteq loaded'[u]
    BY <2>1 DEF NInv, IInv, TypeOK
  <2>3. CASE Return(t)
    BY <1>3, <2>1, <2>2, <2>3
  <2>4. CASE ~Return(t)
    BY <1>4, <1>9, <2>1, <2>2, <2>4 DEF Spin, Goto, nestVars, NInv, IInv, TypeOK
  <2> QED
    BY <2>3, <2>4
<1>10. ASSUME NEW t \in Thread, WriteId(t) \/ FinishInit(t) \/ ClearId(t) PROVE CalledSeen'
  BY SMTT(20), <1>4, <1>10 DEF WriteId, FinishInit, ClearId, EnterBody, LeaveBody, Goto, nestVars, dataVars,
                     NInv, IInv, TypeOK
<1>11. ASSUME NEW t \in Thread, Publish(t) PROVE CalledSeen'
  <2>1. at[t] \in Flag /\ at[t] \in loaded[t] /\ Return(t) /\ UNCHANGED <<winner, loaded>>
    BY <1>11 DEF Publish, NInv, IInv, AtFlag, DataFollows
  <2>2. state[at[t]] = BUSY => winner[at[t]] = t
    BY <1>11, <2>1 DEF Publish, NInv, IInv, HolderIsWinner, Holds
  <2> QED
    BY <1>3, <1>11, <2>1, <2>2 DEF Publish
<1>12. ASSUME NEW t \in Thread, Abandon(t) PROVE CalledSeen'
  <2>1. /\ body[t] \in Flag /\ state[body[t]] = BUSY /\ winner[body[t]] = t
        /\ UNCHANGED <<state, winner, loaded, pc, how>> /\ pc[t] = "run"
        /\ \A u \in Thread \ {t} : body'[u] = body[u] /\ body'[t] = outer[body[t]]
    BY <1>12, OnceAssumption DEF Abandon, LeaveBody, callVars, dataVars, NInv, IInv, TypeOK, HolderIsWinner
  <2>2. outer[body[t]] # NULL => outer[body[t]] \in Flag /\ state[outer[body[t]]] = BUSY
                                 /\ winner[outer[body[t]]] = t
    BY <2>1 DEF NInv, IInv, TypeOK, Nesting
  <2>3. \A f \in Flag : called'[f] = called[f] \/
            (state[f] = BUSY /\ winner[f] = t /\ called'[f] = called[f] \cup {body[t]})
    BY <1>12, <2>1, <2>2 DEF Abandon, LeaveBody, NInv, IInv, TypeOK
  <2> QED
    BY <2>1, <2>3 DEF NInv, CalledSeen
<1> QED
  BY <1>1, <1>2, <1>5, <1>6, <1>7, <1>8, <1>9, <1>10, <1>11, <1>12 DEF Next, Step

\* Only the steps of a thread that holds the flag change a word that is BUSY.
LEMMA BusyStays == ASSUME NInv, [Next]_vars, NEW g \in Flag, state[g] = BUSY
                   PROVE  state'[g] = BUSY \/ \E t \in Thread : Holds(t, g)
<1> USE DEF DATA, BUSY, DONE
<1>1. CASE UNCHANGED vars
  BY <1>1 DEF vars
<1>2. ASSUME NEW t \in Thread, CasWins(t) PROVE state'[g] = BUSY
  BY <1>2 DEF CasWins, NInv, IInv, TypeOK
<1>3. ASSUME NEW t \in Thread, Publish(t) PROVE state'[g] = BUSY \/ Holds(t, g)
  BY <1>3 DEF Publish, Holds, NInv, IInv, TypeOK
<1>4. ASSUME NEW t \in Thread,
             \/ \E f \in Flag : Call(t, f) \/ NestedCall(t, f)
             \/ ReadId(t) \/ CasFindsDone(t) \/ CasFindsBusy(t) \/ Spin(t) \/ WriteId(t)
             \/ FinishInit(t) \/ ClearId(t) \/ Abandon(t)
      PROVE  state' = state
  BY <1>4 DEF Call, NestedCall, Enter, ReadId, CasFindsDone, CasFindsBusy, Spin, WriteId,
              FinishInit, ClearId, Abandon
<1> QED
  BY <1>1, <1>2, <1>3, <1>4 DEF Next, Step

\* Who comes to hold a flag that is BUSY held it before, or was in its initialiser.
LEMMA HoldsFromBefore ==
    ASSUME NInv, [Next]_vars, NEW u \in Thread, NEW g \in Flag, state[g] = BUSY, Holds(u, g)'
    PROVE  Holds(u, g) \/ g \in Stack(u)
<1> USE DEF DATA, BUSY, DONE
<1>1. CASE UNCHANGED vars
  BY <1>1 DEF vars, callVars, Holds
<1>2. ASSUME NEW t \in Thread, u # t, pc'[u] = pc[u], at'[u] = at[u] PROVE Holds(u, g)
  BY <1>2 DEF Holds
<1>3. ASSUME NEW t \in Thread, \E f \in Flag : Call(t, f) \/ NestedCall(t, f) PROVE Holds(u, g)
  BY <1>2, <1>3 DEF Call, NestedCall, Enter, Holds, NInv, IInv, TypeOK
<1>4. ASSUME NEW t \in Thread,
             ReadId(t) \/ CasFindsDone(t) \/ CasFindsBusy(t) \/ Spin(t) \/ WriteId(t) \/ Publish(t)
      PROVE  Holds(u, g)
  BY <1>2, <1>4 DEF ReadId, CasFindsDone, CasFindsBusy, Spin, WriteId, Publish, Return, EnterBody, Goto,
                    Holds, NInv, IInv, TypeOK
<1>5. ASSUME NEW t \in Thread, ClearId(t) PROVE Holds(u, g)
  BY <1>2, <1>5 DEF ClearId, Goto, Holds, NInv, IInv, TypeOK
<1>6. ASSUME NEW t \in Thread, CasWins(t) PROVE Holds(u, g)
  BY <1>2, <1>6 DEF CasWins, Goto, EnterBody, Holds, NInv, IInv, TypeOK
<1>7. ASSUME NEW t \in Thread, FinishInit(t) PROVE Holds(u, g) \/ g \in Stack(u)
  BY <1>2, <1>7 DEF FinishInit, Holds, Stack, NInv, IInv, TypeOK
<1>8. ASSUME NEW t \in Thread, Abandon(t) PROVE Holds(u, g)
  BY <1>8 DEF Abandon, callVars, Holds
<1> QED
  BY <1>1, <1>3, <1>4, <1>5, <1>6, <1>7, <1>8 DEF Next, Step

\* A flag whose initialiser was left for good stays as it is.
LEMMA DeadStays == NInv /\ [Next]_vars => Dead \subseteq Dead'
<1> SUFFICES ASSUME NInv, [Next]_vars, NEW g \in Dead PROVE g \in Dead'
  OBVIOUS
<1>1. g \in Flag /\ state[g] = BUSY /\ \A u \in Thread : g \notin Stack(u) /\ ~Holds(u, g)
  BY DEF Dead
<1>2. state'[g] = BUSY
  BY <1>1, BusyStays
<1>3. \A u \in Thread : ~Holds(u, g)'
  BY <1>1, HoldsFromBefore
<1>4. ASSUME NEW u \in Thread PROVE g \notin Stack(u)'
  <2>1. CASE \A v \in Thread : Stack(v)' \subseteq Stack(v)
    BY <1>1, <2>1
  <2>2. ASSUME NEW t \in Thread, NEW f \in Flag, Enters(t, f) PROVE g \notin Stack(u)'
    <3>1. Stack(u)' \subseteq Stack(u) \cup {f}
      BY <2>2, StackMoves
    <3>2. f # g
      BY <1>1, <2>2 DEF Enters, DATA, BUSY
    <3> QED
      BY <1>1, <3>1, <3>2
  <2> QED
    BY <2>1, <2>2, Moves, StackMoves
<1> QED
  BY <1>1, <1>2, <1>3, <1>4 DEF Dead

\* The needs of a flag follow it: what its initialiser has called it has seen when it publishes,
\* but for what is never DONE, since by the order it is not inside of it any more.
LEMMA NeedsStep == Acyclic /\ NInv /\ [Next]_vars => NeedsFollow'
<1> SUFFICES ASSUME Acyclic, NInv, [Next]_vars PROVE NeedsFollow'
  OBVIOUS
<1> USE DEF DATA, BUSY, DONE
<1>1. Dead \subseteq Dead'
  BY DeadStays
\* What is loaded only grows, and no flag is published.
<1>2. ASSUME \A u \in Thread : loaded[u] \subseteq loaded'[u],
             \A f \in Flag : released'[f] = released[f] /\ (state'[f] = DONE <=> state[f] = DONE),
             \A f \in Flag : called[f] \subseteq called'[f],
             \A u \in Thread, f \in Flag : Holds(u, f)' /\ pc'[u] # "write_id" =>
                (Holds(u, f) /\ pc[u] # "write_id") \/ Needs[f] \subseteq called'[f],
             \A u \in Thread : pc'[u] \in {"clear_id", "publish"} /\ state'[at'[u]] = DONE =>
                \/ pc[u] \in {"clear_id", "publish"} /\ at'[u] = at[u] /\ at[u] \in Flag
                \/ at'[u] \in Flag /\ released[at'[u]] \subseteq loaded'[u],
             \A u \in Thread : \A f \in passed'[u] :
                f \in passed[u] \/ (f \in Flag /\ state[f] = DONE /\ released[f] \subseteq loaded'[u])
      PROVE  NeedsFollow'
  <2>1. \A u \in Thread, f \in Flag : Holds(u, f)' /\ pc'[u] # "write_id" => Needs[f] \subseteq called'[f]
    BY <1>2 DEF NInv, NeedsFollow
  <2>2. \A u \in Thread : pc'[u] \in {"clear_id", "publish"} /\ state'[at'[u]] = DONE =>
           released'[at'[u]] \subseteq loaded'[u]
    BY <1>2 DEF NInv, NeedsFollow
  <2>3. \A f \in Flag : state'[f] = DONE => Needs[f] \subseteq released'[f] \cup Dead'
    BY <1>1, <1>2 DEF NInv, NeedsFollow
  <2>4. \A u \in Thread : \A f \in passed'[u] : Needs[f] \subseteq loaded'[u] \cup Dead'
    BY <1>1, <1>2 DEF NInv, NeedsFollow
  <2> QED
    BY <2>1, <2>2, <2>3, <2>4 DEF NeedsFollow
<1>3. CASE UNCHANGED vars
  BY <1>2, <1>3 DEF vars, callVars, nestVars, dataVars, Holds, NInv, IInv, AtFlag
<1>4. ASSUME NEW t \in Thread, \E f \in Flag : Call(t, f) \/ NestedCall(t, f) PROVE NeedsFollow'
  BY <1>2, <1>4 DEF Call, NestedCall, Enter, nestVars, dataVars, Holds, NInv, IInv, TypeOK, AtFlag
<1>5. ASSUME NEW t \in Thread, ReadId(t) \/ CasFindsBusy(t) PROVE NeedsFollow'
  <2>1. /\ UNCHANGED <<state, passed, loaded, released>> /\ pc'[t] \in {"run", "cas", "spin"}
        /\ \A v \in Thread \ {t} : pc'[v] = pc[v] /\ at'[v] = at[v]
        /\ \A f \in Flag : called[f] \subseteq called'[f]
    BY <1>5 DEF ReadId, CasFindsBusy, Return, Goto, nestVars, dataVars, NInv, IInv, TypeOK
  <2> QED
    BY <1>2, <2>1 DEF Holds, NInv, IInv, AtFlag
<1>6. ASSUME NEW t \in Thread, CasWins(t) PROVE NeedsFollow'
  <2>1. /\ at[t] \in Flag /\ state[at[t]] = DATA /\ state' = [state EXCEPT ![at[t]] = BUSY]
        /\ UNCHANGED <<passed, loaded, released, called>> /\ pc'[t] \in {"run", "write_id"}
        /\ \A v \in Thread \ {t} : pc'[v] = pc[v] /\ at'[v] = at[v]
    BY <1>6 DEF CasWins, EnterBody, Goto, nestVars, dataVars, NInv, IInv, TypeOK, AtFlag
  <2>2. \A f \in Flag : state'[f] = DONE <=> state[f] = DONE
    BY <2>1 DEF NInv, IInv, TypeOK
  <2>3. \A u \in Thread, f \in Flag : Holds(u, f)' /\ pc'[u] # "write_id" => Holds(u, f) /\ pc[u] # "write_id"
    BY <2>1 DEF Holds, NInv, IInv, TypeOK, HolderIsWinner
  <2> QED
    BY <1>2, <2>1, <2>2, <2>3 DEF NInv, IInv, AtFlag
<1>7. ASSUME NEW t \in Thread, CasFindsDone(t) \/ Spin(t) PROVE NeedsFollow'
  <2>1. at[t] \in Flag /\ state[at[t]] = DONE /\ UNCHANGED <<state, released>>
    BY <1>7 DEF CasFindsDone, Spin, NInv, IInv, AtFlag
  <2>2. /\ loaded' = [loaded EXCEPT ![t] = @ \cup released[at[t]]]
        /\ passed' = passed \/ passed' = [passed EXCEPT ![t] = @ \cup {at[t]}]
    BY <1>7 DEF CasFindsDone, Spin, Load, Passes
  <2>3. Return(t) \/ (pc' = [pc EXCEPT ![t] = IF at[t] \in Recursive THEN "clear_id" ELSE "publish"]
                     /\ UNCHANGED <<at, called>>)
    BY <1>7 DEF CasFindsDone, Spin, Goto, nestVars
  <2>4. /\ pc'[t] = "run" \/ (pc'[t] \in {"clear_id", "publish"} /\ at'[t] = at[t])
        /\ \A v \in Thread \ {t} : pc'[v] = pc[v] /\ at'[v] = at[v]
        /\ \A f \in Flag : called[f] \subseteq called'[f]
    <3>1. CASE Return(t)
      <4>1. /\ pc \in [Thread -> Label] /\ at \in [Thread -> Flag \cup {NULL}]
            /\ called \in [Flag -> SUBSET Flag]
        BY DEF NInv, IInv, TypeOK
      <4>2. /\ pc' = [pc EXCEPT ![t] = "run"] /\ at' = [at EXCEPT ![t] = NULL]
            /\ called' = called \/ called' = [called EXCEPT ![body[t]] = @ \cup {at[t]}]
        BY <3>1 DEF Return
      <4>3. \A f \in Flag : called[f] \subseteq called'[f]
        BY <4>1, <4>2
      <4> QED
        BY <4>1, <4>2, <4>3
    <3>2. CASE /\ pc' = [pc EXCEPT ![t] = IF at[t] \in Recursive THEN "clear_id" ELSE "publish"]
               /\ UNCHANGED <<at, called>>
      BY <3>2 DEF NInv, IInv, TypeOK
    <3> QED
      BY <2>3, <3>1, <3>2
  <2>5. released[at[t]] \subseteq loaded'[t] /\ \A u \in Thread : loaded[u] \subseteq loaded'[u]
    BY <2>1, <2>2 DEF NInv, IInv, TypeOK
  <2>6. \A u \in Thread, f \in Flag : Holds(u, f)' => Holds(u, f) /\ pc[u] = pc'[u]
    BY <2>1, <2>4 DEF Holds
  <2>7. \A u \in Thread : \A f \in passed'[u] : f \in passed[u] \/ (u = t /\ f = at[t])
    BY <2>2 DEF NInv, IInv, TypeOK
  <2> QED
    BY <1>2, <2>1, <2>2, <2>4, <2>5, <2>6, <2>7 DEF NInv, IInv, AtFlag
<1>8. ASSUME NEW t \in Thread, WriteId(t) \/ Abandon(t) PROVE NeedsFollow'
  <2>1. /\ UNCHANGED <<state, passed, loaded, released>> /\ pc'[t] = "run"
        /\ \A v \in Thread \ {t} : pc'[v] = pc[v] /\ at'[v] = at[v]
        /\ \A f \in Flag : called[f] \subseteq called'[f]
    BY <1>8 DEF WriteId, Abandon, EnterBody, callVars, dataVars, NInv, IInv, TypeOK
  <2> QED
    BY <1>2, <2>1 DEF Holds, NInv, IInv, AtFlag
<1>9. ASSUME NEW t \in Thread, FinishInit(t) PROVE NeedsFollow'
  <2>1. /\ body[t] \in Flag /\ state[body[t]] = BUSY /\ called[body[t]] = Needs[body[t]]
        /\ UNCHANGED <<state, passed, released, called>>
        /\ \A u \in Thread : loaded[u] \subseteq loaded'[u]
        /\ at'[t] = body[t]
        /\ \A v \in Thread \ {t} : pc'[v] = pc[v] /\ at'[v] = at[v]
    BY <1>9 DEF FinishInit, NInv, IInv, TypeOK, HolderIsWinner
  <2> QED
    BY <1>2, <2>1 DEF Holds, NInv, IInv, AtFlag
<1>10. ASSUME NEW t \in Thread, ClearId(t) PROVE NeedsFollow'
  BY <1>2, <1>10 DEF ClearId, Goto, nestVars, dataVars, Holds, NInv, IInv, TypeOK, AtFlag
<1>11. ASSUME NEW t \in Thread, Publish(t) PROVE NeedsFollow'
  <2>1. /\ at[t] \in Flag /\ pc[t] = "publish" /\ pc'[t] = "run" /\ loaded' = loaded
        /\ passed' = [passed EXCEPT ![t] = @ \cup {at[t]}]
        /\ \A v \in Thread \ {t} : pc'[v] = pc[v] /\ at'[v] = at[v]
        /\ \A f \in Flag : called[f] \subseteq called'[f]
    BY <1>11 DEF Publish, Return, Passes, NInv, IInv, TypeOK, AtFlag
  <2>2. \A u \in Thread : \A f \in passed'[u] : f \in passed[u] \/ (u = t /\ f = at[t])
    BY <2>1 DEF NInv, IInv, TypeOK
  <2>3. CASE state[at[t]] # BUSY
    <3>1. UNCHANGED <<state, released>> /\ state[at[t]] = DONE
      BY <1>11, <2>1, <2>3 DEF Publish, NInv, IInv, TypeOK, HolderIsWinner
    <3>2. released[at[t]] \subseteq loaded[t]
      BY <2>1, <3>1 DEF NInv, NeedsFollow
    <3> QED
      BY <1>2, <2>1, <2>2, <3>1, <3>2 DEF Holds, NInv, IInv, AtFlag
  <2>4. CASE state[at[t]] = BUSY
    <3>1. /\ Holds(t, at[t]) /\ winner[at[t]] = t /\ at[t] \in loaded[t]
          /\ state' = [state EXCEPT ![at[t]] = DONE] /\ released' = [released EXCEPT ![at[t]] = loaded[t]]
      BY <1>11, <2>1, <2>4 DEF Publish, Holds, NInv, IInv, HolderIsWinner, DataFollows
    <3>2. Needs[at[t]] \subseteq loaded[t] \cup Dead'
      <4> SUFFICES ASSUME NEW g \in Needs[at[t]], g \notin loaded[t] PROVE g \in Dead'
        OBVIOUS
      <4>1. g \in Flag /\ state[g] = BUSY /\ winner[g] = t /\ g # at[t]
        BY <2>1, <2>4, <3>1, OnceAssumption DEF NInv, NeedsFollow, CalledSeen
      <4>2. g \in Required[at[t]]
        BY <2>1, RequiredFacts
      <4>3. g \notin Stack(t)
        BY <2>1, <3>1, <4>1, <4>2 DEF NInv, Inward, Acyclic
      <4>4. \A u \in Thread \ {t} : g \notin Stack(u)
        BY <4>1, StackIsOwn DEF NInv
      <4>5. \A u \in Thread : ~Holds(u, g)
        BY <2>1, <4>1 DEF Holds, NInv, IInv, HolderIsWinner
      <4> QED
        BY <1>1, <4>1, <4>3, <4>4, <4>5 DEF Dead
    <3>3. \A f \in Flag : (state'[f] = DONE <=> state[f] = DONE \/ f = at[t])
                          /\ released'[f] = IF f = at[t] THEN loaded[t] ELSE released[f]
      BY <2>1, <3>1 DEF NInv, IInv, TypeOK
    <3>4. \A u \in Thread, f \in Flag : Holds(u, f)' /\ pc'[u] # "write_id" => Needs[f] \subseteq called'[f]
      BY <2>1, <3>1 DEF Holds, NInv, IInv, TypeOK, NeedsFollow
    <3>5. ASSUME NEW u \in Thread, pc'[u] \in {"clear_id", "publish"}, state'[at'[u]] = DONE
          PROVE  released'[at'[u]] \subseteq loaded'[u]
      <4>1. u # t /\ pc[u] \in {"clear_id", "publish"} /\ at'[u] = at[u] /\ at[u] \in Flag
        BY <2>1, <3>5 DEF NInv, IInv, AtFlag
      <4>2. at[u] # at[t]
        BY <2>1, <2>4, <3>1, <4>1 DEF NInv, IInv, HolderIsWinner, Holds
      <4> QED
        BY <2>1, <3>3, <3>5, <4>1, <4>2 DEF NInv, NeedsFollow
    <3>6. \A f \in Flag : state'[f] = DONE => Needs[f] \subseteq released'[f] \cup Dead'
      BY <1>1, <3>2, <3>3 DEF NInv, NeedsFollow
    <3>7. \A u \in Thread : \A f \in passed'[u] : Needs[f] \subseteq loaded'[u] \cup Dead'
      BY <1>1, <2>1, <2>2, <3>2 DEF NInv, NeedsFollow
    <3> QED
      BY <3>4, <3>5, <3>6, <3>7 DEF NeedsFollow
  <2> QED
    BY <2>3, <2>4
<1> QED
  BY <1>3, <1>4, <1>5, <1>6, <1>7, <1>8, <1>9, <1>10, <1>11 DEF Next, Step

\* No thread is in a call or an initialiser at first.
LEMMA NInvInit == Init => NInv
<1> SUFFICES ASSUME Init PROVE NInv
  OBVIOUS
<1>1. IInv
  BY IInvInit
<1>2. Ordered /\ Inward /\ \A t \in Thread : Stack(t) = {}
  BY OnceAssumption DEF Init, Ordered, Inward, Holds, Stack
<1>3. CalledSeen /\ NeedsFollow
  BY DEF Init, CalledSeen, NeedsFollow, Holds, DATA, BUSY, DONE
<1> QED
  BY <1>1, <1>2, <1>3 DEF NInv

\* A caller that is back from a blocking call is also ordered after the data of the flags that
\* the initialiser needed.  Two recursive initialisers that need each other are excluded: the
\* inner one goes straight through the id check and is DONE before the outer one has its data.
THEOREM PassedSeesNeedsTheorem == SwapOrders /\ Acyclic => (Spec => []PassedSeesNeeds)
<1> SUFFICES ASSUME SwapOrders, Acyclic PROVE Spec => []PassedSeesNeeds
  OBVIOUS
<1>1. Init => NInv
  BY NInvInit
<1>2. NInv /\ [Next]_vars => NInv'
  BY IInvStep, OrderedStep, InwardStep, CalledStep, NeedsStep DEF NInv
<1>3. NInv => PassedSeesNeeds
  BY DEF NInv, IInv, Acquired, NeedsFollow, PassedSeesNeeds, Dead, BUSY, DONE
<1> QED
  BY <1>1, <1>2, <1>3, PTL DEF Spec
=============================================================================

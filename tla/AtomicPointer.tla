---------------------------- MODULE AtomicPointer ----------------------------
(***************************************************************************)
(* The atomic operations on pointers, function pointers and integers of a  *)
(* pointer's size, with both their backends,                               *)
(* C11 and mintomic, in a memory of weakly ordered CPUs: every write to a  *)
(* word stays, and a load may return any of those that its thread has not  *)
(* been ordered after the successor of.  What a thread is ordered after is *)
(* its view, the position in every word before which it cannot read; writes*)
(* pass views on, loads take them over, as far as their order says.        *)
(* Threads run small programs of calls; a call is one or several accesses  *)
(* and fences, each a step.                                                *)
(***************************************************************************)
EXTENDS Naturals, Sequences, FiniteSets

CONSTANTS Thread, Address,
          Word,   \* bound: words hold values modulo Word
          Test,   \* the programs: [name, backend, kind, program : [Thread -> Seq(call)]]
          NULL

Value == 0 .. Word - 1

Calls == [name : STRING, at : Address, value : Value, expect : Value]

ASSUME AtomicPointerAssumption ==
    /\ Word \in Nat \ {0, 1} /\ NULL \notin Value
    /\ \A x \in Test : /\ x.backend \in {"c11", "mintomic"} /\ x.kind \in {"pointer", "function"}
                      /\ x.program \in [Thread -> Seq(Calls)]

VARIABLES test,     \* the program that is run
          writes,   \* the values written to each word, each with the view it passes on
          view,     \* what each thread is ordered after
          loaded,   \* what it will be after an acquire fence
          fenced,   \* what it was at its last fence
          sc,       \* what all fences and sequentially consistent accesses were
          step,     \* the next access of each thread's call
          reg,      \* the value loaded in the call, or NULL
          got       \* the results of the thread's calls

vars == <<test, writes, view, loaded, fenced, sc, step, reg, got>>

View == [Address -> Nat]
NoView == [a \in Address |-> 1]
Join(v, w) == [a \in Address |-> IF v[a] < w[a] THEN w[a] ELSE v[a]]

TypeOK == /\ test \in Test
          /\ writes \in [Address -> Seq([value : Value, view : View])]
          /\ view \in [Thread -> View] /\ loaded \in [Thread -> View]
          /\ fenced \in [Thread -> View] /\ sc \in View
          /\ step \in [Thread -> Nat]
          /\ reg \in [Thread -> Value \cup {NULL}]
          /\ got \in [Thread -> Seq(Value)]

\* The words are set up with write_nonatomic, before the threads are created.
Init == /\ test \in Test
        /\ writes = [a \in Address |-> <<[value |-> 0, view |-> NoView]>>]
        /\ view = [t \in Thread |-> NoView] /\ loaded = [t \in Thread |-> NoView]
        /\ fenced = [t \in Thread |-> NoView] /\ sc = NoView
        /\ step = [t \in Thread |-> 1]
        /\ reg = [t \in Thread |-> NULL]
        /\ got = [t \in Thread |-> <<>>]

-----------------------------------------------------------------------------
(* The operations, by the accesses they are made of *)

Load(order)  == [op |-> "load", order |-> order]
Store(order) == [op |-> "store", order |-> order]
Add(order)   == [op |-> "add", order |-> order]
Cas(order)   == [op |-> "cas", order |-> order]
WeakCas(order) == [op |-> "weakcas", order |-> order]
Fence        == [op |-> "fence", order |-> "seq_cst"]
AcquireFence == [op |-> "fence", order |-> "acquire"]

\* Function pointers; plain C accesses compile to relaxed ones.
C11FunctionAccess == [read_nonatomic  |-> <<Load("relaxed")>>,
                      write_nonatomic |-> <<Store("relaxed")>>,
                      read            |-> <<Load("seq_cst")>>,
                      read_acquire    |-> <<Load("acquire")>>,
                      read_relaxed    |-> <<Load("relaxed")>>,
                      write           |-> <<Store("seq_cst")>>,
                      write_relaxed   |-> <<Store("relaxed")>>]

C11FunctionWeakSwap == [weakcas         |-> <<WeakCas("seq_cst")>>,
                        weakcas_relaxed |-> <<WeakCas("relaxed")>>]

C11FunctionSwap == [cas         |-> <<Cas("seq_cst")>>,
                    cas_relaxed |-> <<Cas("relaxed")>>]

\* Pointers
C11Access == [read_nonatomic  |-> <<Load("relaxed")>>,
              write_nonatomic |-> <<Store("relaxed")>>,
              read            |-> <<Load("seq_cst")>>,
              read_acquire    |-> <<Load("acquire")>>,
              read_relaxed    |-> <<Load("relaxed")>>,
              write           |-> <<Store("seq_cst")>>,
              write_relaxed   |-> <<Store("relaxed")>>]

C11WeakSwap == [weakcas         |-> <<WeakCas("seq_cst")>>,
                weakcas_relaxed |-> <<WeakCas("relaxed")>>]

C11Swap == [cas         |-> <<Cas("seq_cst")>>,
            cas_relaxed |-> <<Cas("relaxed")>>]

C11Add == [add         |-> <<Add("seq_cst")>>,
           add_relaxed |-> <<Add("relaxed")>>]

MintomicAccess == [read_nonatomic  |-> <<Load("relaxed")>>,
                   write_nonatomic |-> <<Store("relaxed")>>,
                   read            |-> <<Load("relaxed"), Fence>>,
                   read_acquire    |-> <<Load("relaxed"), AcquireFence>>,
                   read_relaxed    |-> <<Load("relaxed")>>,
                   write           |-> <<Fence, Store("relaxed")>>,
                   write_relaxed   |-> <<Store("relaxed")>>]

\* Mintomic has no weak swap, and neither its swap nor its addition orders anything.
MintomicSwap == [name \in {"cas", "cas_relaxed", "weakcas", "weakcas_relaxed"} |-> <<Cas("relaxed")>>]

MintomicAdd == [add         |-> <<Add("relaxed"), Fence>>,
                add_relaxed |-> <<Add("relaxed")>>]

\* Function pointers are cast to pointers.
MintomicFunctionAccess == MintomicAccess

MintomicFunctionSwap == MintomicSwap

Barrier == [barrier |-> <<Fence>>]

\* Two tables of operations as one.
With(f, g) == [name \in DOMAIN f \cup DOMAIN g |-> IF name \in DOMAIN f THEN f[name] ELSE g[name]]

Basic == CASE test.backend = "c11" /\ test.kind = "function" ->
                  With(C11FunctionAccess, With(C11FunctionWeakSwap, With(C11FunctionSwap, Barrier)))
           [] test.backend = "c11" /\ test.kind = "pointer" ->
                  With(C11Access, With(C11WeakSwap, With(C11Swap, With(C11Add, Barrier))))
           [] test.backend = "mintomic" /\ test.kind = "function" ->
                  With(MintomicFunctionAccess, With(MintomicFunctionSwap, Barrier))
           [] test.backend = "mintomic" /\ test.kind = "pointer" ->
                  With(MintomicAccess, With(MintomicSwap, With(MintomicAdd, Barrier)))

\* An integer is cast to a pointer.
Integer == [intptr_read |-> "read_relaxed", intptr_write |-> "write_relaxed",
            intptr_read_nonatomic |-> "read_nonatomic", intptr_write_nonatomic |-> "write_nonatomic",
            intptr_increment |-> "add_relaxed", intptr_decrement |-> "add_relaxed",
            intptr_add |-> "add_relaxed"]

\* The retry loops: set of the library, and the increment of its users.
Code(name) == CASE name = "set" -> Basic["weakcas"]
                [] name = "cas_increment" -> Basic["read"] \o Basic["weakcas"]
                [] name = "relaxed_increment" -> Basic["read_relaxed"] \o Basic["weakcas_relaxed"]
                [] name = "cas_actual" -> Basic["cas"]
                [] name \in {"increment", "decrement"} -> Basic["add"]
                [] name \in DOMAIN Integer -> Basic[Integer[name]]
                [] OTHER -> Basic[name]

Loops == {"cas_increment", "relaxed_increment"}

Running(t) == Len(got[t]) < Len(test.program[t])
Call(t) == test.program[t][Len(got[t]) + 1]
Access(t) == Code(Call(t).name)[step[t]]
At(t, op) == Running(t) /\ Access(t).op = op

\* Go on after an access with result v; the last one of a call returns it.
Continue(t, v) ==
    IF step[t] = Len(Code(Call(t).name))
    THEN /\ got' = [got EXCEPT ![t] = Append(@, v)]
         /\ step' = [step EXCEPT ![t] = 1]
         /\ reg' = [reg EXCEPT ![t] = NULL]
    ELSE /\ step' = [step EXCEPT ![t] = @ + 1]
         /\ reg' = [reg EXCEPT ![t] = v]
         /\ UNCHANGED got

-----------------------------------------------------------------------------
(* Accesses to memory *)

\* Thread t reads the i-th write to a.
Read(t, a, i, order) ==
    LET seen == [view[t] EXCEPT ![a] = i]
        joined == Join(seen, writes[a][i].view)
    IN /\ i \in view[t][a] .. Len(writes[a])
       /\ order = "seq_cst" => i >= sc[a]
       /\ view' = [view EXCEPT ![t] = IF order = "relaxed" THEN seen ELSE joined]
       /\ loaded' = [loaded EXCEPT ![t] = Join(@, joined)]
       /\ sc' = IF order = "seq_cst" THEN [sc EXCEPT ![a] = i] ELSE sc
       /\ UNCHANGED <<writes, fenced>>

\* Thread t writes v to a, having read, if it has, the write with the view `from'.
Write(t, a, v, order, from) ==
    LET n == Len(writes[a]) + 1
        joined == IF order = "relaxed" THEN view[t] ELSE Join(view[t], from)
        mine == [joined EXCEPT ![a] = n]
        passed == IF order = "relaxed" THEN fenced[t] ELSE mine
    IN /\ writes' = [writes EXCEPT ![a] = Append(@,
                        [value |-> v, view |-> [Join(from, passed) EXCEPT ![a] = n]])]
       /\ view' = [view EXCEPT ![t] = mine]
       /\ loaded' = [loaded EXCEPT ![t] = Join(@, Join(from, mine))]
       /\ sc' = IF order = "seq_cst" THEN [sc EXCEPT ![a] = n] ELSE sc
       /\ UNCHANGED fenced

Last(a) == writes[a][Len(writes[a])]

LoadWord(t) ==
    /\ At(t, "load")
    /\ \E i \in 1 .. Len(writes[Call(t).at]) :
          /\ Read(t, Call(t).at, i, Access(t).order)
          /\ Continue(t, writes[Call(t).at][i].value)
    /\ UNCHANGED test

\* Mutant: the store is always relaxed.
StoreRelaxed(t) ==
    /\ At(t, "store")
    /\ Write(t, Call(t).at, Call(t).value, "relaxed", NoView)
    /\ Continue(t, 0)
    /\ UNCHANGED test

StoreWord(t) ==
    /\ At(t, "store")
    /\ Write(t, Call(t).at, Call(t).value, Access(t).order, NoView)
    /\ Continue(t, 0)
    /\ UNCHANGED test

Diff(c) == CASE c.name \in {"increment", "intptr_increment"} \cup Loops -> 1
             [] c.name \in {"decrement", "intptr_decrement"} -> Word - 1
             [] OTHER -> c.value

\* Mutant: intptr_add returns the result, as pointer_add does.
AddedResult(c, previous) ==
    IF c.name \in {"add", "add_relaxed", "intptr_add"} THEN (previous + Diff(c)) % Word
    ELSE previous

\* The add of a pointer returns the result; increment, decrement and intptr_add,
\* which takes the difference off the result again, the previous value.
Added(c, previous) ==
    CASE c.name \in {"add", "add_relaxed"} -> (previous + Diff(c)) % Word
      [] c.name = "intptr_add" ->
            (((previous + Diff(c)) % Word) + (Word - Diff(c))) % Word
      [] OTHER -> previous

\* Mutant: the addition is relaxed.
AddRelaxed(t) ==
    /\ At(t, "add")
    /\ LET last == Last(Call(t).at)
       IN /\ Write(t, Call(t).at, (last.value + Diff(Call(t))) % Word, "relaxed", last.view)
          /\ Continue(t, Added(Call(t), last.value))
    /\ UNCHANGED test

AddWord(t) ==
    /\ At(t, "add")
    /\ LET last == Last(Call(t).at)
       IN /\ Write(t, Call(t).at, (last.value + Diff(Call(t))) % Word, Access(t).order, last.view)
          /\ Continue(t, Added(Call(t), last.value))
    /\ UNCHANGED test

\* Mutant: the fence binds the compiler only.
FenceSignal(t) ==
    /\ At(t, "fence")
    /\ Continue(t, IF reg[t] = NULL THEN 0 ELSE reg[t])
    /\ UNCHANGED <<test, writes, view, loaded, fenced, sc>>

\* The fence makes what was loaded seen, and, if full, orders it with all others.
FenceMemory(t) ==
    /\ At(t, "fence")
    /\ LET all == IF Access(t).order = "acquire" THEN loaded[t] ELSE Join(loaded[t], sc)
       IN /\ view' = [view EXCEPT ![t] = all]
          /\ loaded' = [loaded EXCEPT ![t] = all]
          /\ IF Access(t).order = "acquire" THEN UNCHANGED <<fenced, sc>>
             ELSE fenced' = [fenced EXCEPT ![t] = all] /\ sc' = all
    /\ Continue(t, IF reg[t] = NULL THEN 0 ELSE reg[t])
    /\ UNCHANGED <<test, writes>>

-----------------------------------------------------------------------------
(* Compare and swap *)

\* Set begins with the value itself, for its contents do not matter.
Expect(t) == CASE Call(t).name = "set" -> IF reg[t] = NULL THEN Call(t).value ELSE reg[t]
               [] Call(t).name \in Loops -> reg[t]
               [] OTHER -> Call(t).expect

New(t) == IF Call(t).name \in Loops THEN (reg[t] + 1) % Word ELSE Call(t).value

\* What a swap that has found v returns: whether it won, or, with two underscores in
\* front of its name as with set, the value found.
Swapped(c, won, v) == IF c.name \in {"cas_actual", "set"} \cup Loops THEN v
                      ELSE IF won THEN 1 ELSE 0

AtCas(t) == At(t, "cas") \/ At(t, "weakcas")

\* Mutant: the comparison is of a value loaded before.
CasStale(t) ==
    /\ AtCas(t)
    /\ \E i \in view[t][Call(t).at] .. Len(writes[Call(t).at]) :
          LET found == writes[Call(t).at][i]
          IN /\ found.value = Expect(t)
             /\ Write(t, Call(t).at, New(t), Access(t).order, found.view)
    /\ Continue(t, Swapped(Call(t), TRUE, Expect(t)))
    /\ UNCHANGED test

CasSucceeds(t) ==
    /\ AtCas(t)
    /\ LET last == Last(Call(t).at)
       IN /\ last.value = Expect(t)
          /\ Write(t, Call(t).at, New(t), Access(t).order, last.view)
    /\ Continue(t, Swapped(Call(t), TRUE, Expect(t)))
    /\ UNCHANGED test

Again(t) == step' = [step EXCEPT ![t] = 1] /\ reg' = [reg EXCEPT ![t] = NULL] /\ UNCHANGED got

AgainWith(t, v) == reg' = [reg EXCEPT ![t] = v] /\ UNCHANGED <<step, got>>

\* Mutant: set tries once.
SetOnce(t, v) == IF Call(t).name \in Loops THEN Again(t) ELSE Continue(t, Swapped(Call(t), FALSE, v))

\* Mutant: the user's loop ends with a failed swap.
RetryNever(t, v) == IF Call(t).name = "set" /\ v # Expect(t) THEN AgainWith(t, v)
                    ELSE Continue(t, Swapped(Call(t), FALSE, v))

\* Having found v, the loop of the user reads again, and that of set tries again
\* with v, unless v is what it expected, which it takes for success.
Retry(t, v) == CASE Call(t).name \in Loops -> Again(t)
                 [] Call(t).name = "set" /\ v # Expect(t) -> AgainWith(t, v)
                 [] OTHER -> Continue(t, Swapped(Call(t), FALSE, v))

\* A weak swap may fail though it finds what it expects.
CasFails(t) ==
    /\ AtCas(t)
    /\ \E i \in 1 .. Len(writes[Call(t).at]) :
          LET v == writes[Call(t).at][i].value
          IN /\ v # Expect(t) \/ Access(t).op = "weakcas"
             /\ Read(t, Call(t).at, i, Access(t).order)
             /\ Retry(t, v)
    /\ UNCHANGED test

Next == \E t \in Thread : \/ LoadWord(t) \/ StoreWord(t) \/ AddWord(t) \/ FenceMemory(t)
                          \/ CasSucceeds(t) \/ CasFails(t)

Spec == Init /\ [][Next]_vars

-----------------------------------------------------------------------------
(* Properties *)

Settled == \A t \in Thread : step[t] = 1 /\ reg[t] = NULL

\* A call is a thread with a place in its program.
CallOf(d) == test.program[d[1]][d[2]]
Result(d) == got[d[1]][d[2]]

Returned == UNION {{t} \X (1 .. Len(got[t])) : t \in Thread}
Done(names) == {d \in Returned : CallOf(d).name \in names}

Adders == {"increment", "decrement", "add", "add_relaxed",
           "intptr_increment", "intptr_decrement", "intptr_add"} \cup Loops

\* What the calls have added, one by one.
Units(calls) == UNION {{d} \X (1 .. Diff(CallOf(d))) : d \in calls}

\* No update of a counter is lost or made twice, whether by an operation or by a loop
\* around a weak swap: between calls the counter is the sum of what was added.
NoLostUpdate == Settled => \A d \in Done(Adders) :
    LET a == CallOf(d).at
        here == {e \in Done(Adders) : CallOf(e).at = a}
    IN Last(a).value = Cardinality(Units(here)) % Word

\* What increment, intptr_add, the loop, and add less its difference return is the
\* value they found: no two threads that add 1 are given the same number.
NumbersDiffer ==
    LET one == {d \in Done(Adders) : Diff(CallOf(d)) = 1}
        found(d) == IF CallOf(d).name \in {"add", "add_relaxed"}
                    THEN (Result(d) + Word - 1) % Word ELSE Result(d)
    IN test.name = "numbers" => \A d, e \in one : d # e => found(d) # found(e)

\* Of the threads that swap 0 for something else, only one is told that it found 0.
OneSwapWins == test.name = "swap" => \A d, e \in Done({"cas_actual"}) :
    d # e /\ CallOf(d).at = CallOf(e).at => Result(d) # 0 \/ Result(e) # 0

\* "Spins in a CAS loop until the store succeeds; returns the previous value."
SetReplaces == \A d \in Done({"set"}) :
    LET all == writes[CallOf(d).at]
    IN \E i \in 1 .. Len(all) - 1 : /\ all[i].value = Result(d)
                                   /\ all[i + 1].value = CallOf(d).value

\* "_read/_write use sequential consistency": of two threads that each raise a flag
\* and then look at the other's, one finds it raised.
OneSeesTheOther == test.name = "flags" /\ (\A t \in Thread : ~Running(t)) =>
    \E d \in Done({"read"}) : Result(d) # 0

LooksLast(t) == ~Running(t) /\ Len(got[t]) > 0 /\ CallOf(<<t, Len(got[t])>>).name = "read_nonatomic"

\* "all writes before the release are visible after this load": who reads the flag that
\* was raised after the data, by a write or behind a barrier, reads the data, also when
\* a third thread has handed the flag on.
PublishedSeen == test.name = "publish" /\
    (\A d \in Done({"read_acquire", "read_relaxed"}) : d[2] = 1 => Result(d) = 1) =>
        \A t \in Thread : LooksLast(t) => got[t][Len(got[t])] = 1

\* The thread that takes the last of two references is ordered after what the other
\* wrote before it gave its own up.
LastReferenceSees == test.name = "refcount" =>
    \A t \in Thread : LooksLast(t) /\ got[t][2] = Word - 1 => got[t][3] = 1
=============================================================================
